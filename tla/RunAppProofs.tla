---------------------------- MODULE RunAppProofs ----------------------------
(* Proofs about RunApp for every set of configurations and every number of *)
(* interrupts, with children that end by themselves and a database that    *)
(* fails.                                                                  *)
EXTENDS RunApp, TLAPS

-----------------------------------------------------------------------------
(* The inductive invariant.                                                *)

Born(c) == child[c] # "unborn"

(* Nobody needs to think of child c any more: it has a SIGTERM, or another *)
(* signal that it cannot come through unless MayBeLost says so.            *)
Settled(c) ==
  \/ child[c] = "unborn" \/ Dead(c) \/ MayBeLost(c)
  \/ sig[c] # {} /\ (c # "gen" \/ handle[c] # "set" \/ "TERM" \in sig[c])

(* Between the start of a child and the assignment of its handle.          *)
Window(c) ==
  \/ c = "mon" /\ At("setmon")
  \/ c = "app" /\ At("setapp")
  \/ c = "gen" /\ At("setgen")
  \/ c = "snf" /\ At("setsnf")

(* The labels after the terminate of child c.                              *)
Passed(c) ==
  CASE c = "mon" -> {"termapp", "termgen", "termsnf", "linger"}
    [] c = "app" -> {"termgen", "termsnf", "linger"}
    [] c = "gen" -> {"termsnf", "linger"}
    [] c = "snf" -> {"linger"}

(* The labels up to the assignment of None to the handle of child c.       *)
Early(c) ==
  CASE c = "gen" -> Before \cup {"configure", "forkapp", "setapp", "nogen"}
    [] c = "snf" -> Before \cup {"configure", "forkapp", "setapp", "nogen", "nosnf"}
    [] c \in {"mon", "app"} -> {}

Unset == \A c \in Child : pc \in Early(c) => handle[c] = "unbound"

(* How run_app ends is decided when it ends.                               *)
EndsLast == pc \notin {"exit", "gone"} => end = ""

(* The controller can reach every process it has started by a handle, but  *)
(* for one whose handle it is about to assign.                             *)
Covered == \A c \in Child : handle[c] = "set" \/ Settled(c) \/ Window(c)

Started == \A c \in Child : Window(c) => Born(c)

Terminated == \A c \in Child : pc \in Passed(c) => Settled(c)

AllSettled == end = "stopped" => \A c \in Child : Settled(c)

(* The try is entered with a monitor if one is configured.                 *)
Monitored == pc \in Try /\ HasMonitor => handle["mon"] = "set"

(* Why the handler has been entered.                                       *)
Reason ==
  At("termmon") /\ ints = 0 =>
    \/ flow.stop = "traffic" /\ Dead("gen")
    \/ Dead("app")
    \/ Dead("mon")
    \/ ~HasMonitor

IInv ==
  /\ TypeOK /\ Unset /\ EndsLast /\ Covered /\ Started /\ Terminated
  /\ Monitored /\ Reason /\ AllSettled

-----------------------------------------------------------------------------
(* Children only get on with their lives.                                  *)

(* What a step of a child, or one that only hears of it, keeps.            *)
GoesOn ==
  \A c \in Child :
    /\ Dead(c) => Dead(c)'
    /\ Born(c) <=> Born(c)'
    /\ Settled(c) => Settled(c)'

LEMMA QuietStep ==
  ASSUME IInv, TypeOK', GoesOn, UNCHANGED <<flow, pc, handle, end, ints>>
  PROVE  IInv'
<1> USE DEF IInv, GoesOn, Child
<1>1. \A c \in Child : /\ Settled(c) => Settled(c)'
                       /\ Window(c) <=> Window(c)'
  BY DEF Window, At
<1>2. Unset' /\ EndsLast' /\ Monitored'
  BY DEF Unset, Early, EndsLast, Monitored, HasMonitor
<1>3. Covered' /\ Terminated'
  BY <1>1 DEF Covered, Terminated, Passed
<1>4. Started'
  BY <1>1 DEF Started
<1>5. Reason'
  BY DEF Reason, HasMonitor, At
<1>6. AllSettled'
  BY <1>1 DEF AllSettled
<1> QED
  BY <1>2, <1>3, <1>4, <1>5, <1>6

LEMMA BecomeStep ==
  ASSUME IInv, NEW c \in Child, NEW l \in Life, Become(c, l),
         Alive(c), l # "unborn", UNCHANGED missed,
         sig' \in [Child -> SUBSET {"INT", "TERM"}],
         l # "zombie" => sig' = sig, \A d \in Child \ {c} : sig'[d] = sig[d]
  PROVE  IInv'
<1>1. TypeOK'
  BY DEF IInv, TypeOK, Become, Life, Alive
<1>2. child' = [child EXCEPT ![c] = l] /\ handle' = handle /\ child \in [Child -> Life]
  BY DEF IInv, TypeOK, Become
<1>3. \A d \in Child : Settled(d) => Settled(d)'
  <2>1. CASE l = "zombie"
    BY <1>2, <2>1 DEF Settled, MayBeLost, Dead
  <2>2. CASE l # "zombie"
    BY <1>2, <2>2 DEF Settled, MayBeLost, Dead, Alive
  <2> QED
    BY <2>1, <2>2
<1>4. GoesOn
  BY <1>2, <1>3 DEF Alive, GoesOn, Dead, Born, Life
<1> QED
  BY <1>1, <1>4, QuietStep DEF Become

LEMMA ChildSteps ==
  ASSUME IInv,
         \/ \E c \in Child : Lives(c) \/ Die(c)
         \/ RunGraph \/ AppHandlesSignal \/ PingSwallowsInterrupt \/ GeneratorDone
  PROVE  IInv'
<1> USE DEF IInv
<1>1. ASSUME NEW c \in Child, Boot(c) PROVE IInv'
  <2>1. Alive(c) /\ (IF c = "app" THEN "armed" ELSE "running") \in Life \ {"unborn"}
    BY <1>1 DEF Boot, Alive, Life
  <2> QED
    BY <1>1, <2>1, BecomeStep DEF Boot, TypeOK
<1>2. ASSUME NEW c \in Child, EndBySignal(c) PROVE IInv'
  <2>1. sig' \in [Child -> SUBSET {"INT", "TERM"}]
    BY <1>2 DEF EndBySignal, TypeOK
  <2> QED
    BY <1>2, <2>1, BecomeStep DEF EndBySignal, TypeOK, Life
<1>3. ASSUME NEW c \in Child, Die(c) PROVE IInv'
  BY <1>3, BecomeStep DEF Die, TypeOK, Life
<1>4. CASE RunGraph
  <2>1. "app" \in Child /\ Alive("app")
    BY <1>4 DEF RunGraph, Alive, Child
  <2> QED
    BY <1>4, <2>1, BecomeStep DEF RunGraph, TypeOK, Life
<1>5. CASE GeneratorDone
  <2>1. "gen" \in Child /\ Alive("gen")
    BY <1>5 DEF GeneratorDone, Alive, Child
  <2> QED
    BY <1>5, <2>1, BecomeStep DEF GeneratorDone, TypeOK, Life
<1>6. CASE AppHandlesSignal \/ PingSwallowsInterrupt
  <2>0. \A c \in Child, S \in SUBSET {"INT", "TERM"} :
          [sig EXCEPT ![c] = S] \in [Child -> SUBSET {"INT", "TERM"}]
    BY DEF TypeOK
  <2>1. TypeOK'
    <3>1. CASE AppHandlesSignal
      BY <2>0, <3>1 DEF AppHandlesSignal, TypeOK, Child
    <3>2. CASE PingSwallowsInterrupt
      <4>1. "gen" \in Child /\ sig["gen"] \ {"INT"} \in SUBSET {"INT", "TERM"}
        BY DEF TypeOK, Child
      <4>2. sig' \in [Child -> SUBSET {"INT", "TERM"}]
        BY <2>0, <3>2, <4>1 DEF PingSwallowsInterrupt
      <4> QED
        BY <3>2, <4>1, <4>2 DEF PingSwallowsInterrupt, TypeOK
    <3> QED
      BY <1>6, <3>1, <3>2
  <2>2. \A c \in Child : Settled(c) => Settled(c)'
    <3>1. CASE AppHandlesSignal
      BY <3>1 DEF AppHandlesSignal, Settled, MayBeLost, Dead, TypeOK
    <3>2. CASE PingSwallowsInterrupt
      BY <3>2 DEF PingSwallowsInterrupt, Settled, MayBeLost, Dead, TypeOK
    <3> QED
      BY <1>6, <3>1, <3>2
  <2>3. GoesOn
    BY <1>6, <2>2 DEF AppHandlesSignal, PingSwallowsInterrupt, GoesOn, Dead, Born
  <2> QED
    BY <1>6, <2>1, <2>3, QuietStep DEF AppHandlesSignal, PingSwallowsInterrupt
<1> QED
  BY <1>1, <1>2, <1>3, <1>4, <1>5, <1>6 DEF Lives

-----------------------------------------------------------------------------
(* Steps of the controller.                                                *)

(* The controller goes to another label of the try, or fails, and nothing  *)
(* happens to the children.                                                *)
LEMMA PlainStep ==
  ASSUME IInv, OnlyMain, UNCHANGED <<flow, ints>>, pc \in Before \cup Try,
         \A c \in Child : ~Window(c),
         \/ /\ pc' \in Before \cup Try /\ end' = end
            /\ \A c \in Child : ~Window(c)'
            /\ pc \in Before /\ pc' \in Try => ~HasMonitor
            /\ \A c \in Child : pc' \in Early(c) => pc \in Early(c)
         \/ /\ pc' = "exit" /\ end' \in {"failed", "raised"}
  PROVE  IInv'
<1> USE DEF IInv, OnlyMain
<1>1. TypeOK'
  BY DEF TypeOK, Labels, Child
<1>2. \A c \in Child : Settled(c)' <=> Settled(c)
  BY DEF Settled, MayBeLost, Dead
<1>3. EndsLast' /\ Monitored' /\ Reason' /\ AllSettled'
  BY DEF EndsLast, Monitored, Reason, HasMonitor, AllSettled, At, Before, Try
<1>4. Covered'
  BY <1>2 DEF Covered
<1>5. Started'
  BY DEF Started, Window, At
<1>6. Terminated'
  BY DEF Terminated, Passed, Child, Before, Try
<1>7. Unset'
  BY DEF Unset, Early, Before, Child
<1> QED
  BY <1>1, <1>3, <1>4, <1>5, <1>6, <1>7

(* A fork: the controller is about to assign the handle, everybody else is *)
(* where they were or waited for.                                          *)
LEMMA ForkStep ==
  ASSUME IInv, NEW c \in Child, Fork(c), UNCHANGED <<flow, end, ints>>,
         pc \in Before \cup Try, pc' \in Before \cup Try,
         \A d \in Child : ~Window(d),
         \A d \in Child : Window(d)' <=> d = c,
         pc' \in Try => pc \in Try,
         \A d \in Child : pc' \in Early(d) => pc \in Early(d)
  PROVE  IInv'
<1> USE DEF IInv
<1>1. child' \in [Child -> Life] /\ child'[c] = "boot"
  BY DEF Fork, Reaped, TypeOK, Life
<1>2. \A d \in Child \ {c} : child'[d] = IF child[d] = "zombie" THEN "reaped" ELSE child[d]
  BY DEF Fork, Reaped, TypeOK
<1>3. TypeOK'
  BY <1>1, <1>2 DEF TypeOK, Fork, Labels
<1>4. \A d \in Child \ {c} : Settled(d) => Settled(d)'
  BY <1>2 DEF Settled, MayBeLost, Dead, Fork
<1>5. EndsLast' /\ Monitored' /\ Reason' /\ AllSettled'
  BY DEF EndsLast, Monitored, Reason, HasMonitor, AllSettled, At, Before, Try, Fork
<1>6. Covered'
  BY <1>4 DEF Covered, Fork
<1>7. Started'
  BY <1>1 DEF Started, Born
<1>8. Terminated'
  BY DEF Terminated, Passed, Child, Before, Try
<1>9. Unset'
  BY DEF Unset, Fork
<1> QED
  BY <1>3, <1>5, <1>6, <1>7, <1>8, <1>9

(* The assignment of a handle, or of None to a child not started yet.      *)
LEMMA AssignStep ==
  ASSUME IInv, NEW c \in Child, NEW h \in {"none", "set"}, Assign(c, h),
         UNCHANGED <<flow, end, ints>>,
         pc \in Before \cup Try, pc' \in Try,
         \A d \in Child : ~Window(d)',
         \A d \in Child : Window(d) => d = c,
         h = "set" => Window(c),
         h = "none" => c # "mon" /\ pc \in Early(c) /\ ~Window(c),
         \A d \in Child : pc' \in Early(d) => pc \in Early(d) /\ d # c,
         pc \in Before => c = "mon"
  PROVE  IInv'
<1> USE DEF IInv
<1>1. handle' \in [Child -> {"unbound", "none", "set"}] /\ handle'[c] = h
  BY DEF Assign, TypeOK
<1>2. \A d \in Child \ {c} : handle'[d] = handle[d]
  BY DEF Assign, TypeOK
<1>3. TypeOK'
  BY <1>1, <1>2 DEF TypeOK, Assign, Labels, Started, Born
<1>4. /\ \A d \in Child \ {c} : Settled(d)' <=> Settled(d)
      /\ h = "none" => (Settled(c)' <=> Settled(c))
  BY <1>1, <1>2 DEF Settled, MayBeLost, Dead, Assign, Unset
<1>5. EndsLast' /\ Reason' /\ AllSettled'
  BY DEF EndsLast, Reason, HasMonitor, AllSettled, At, Before, Try, Assign
<1>6. Monitored'
  BY <1>1, <1>2 DEF Monitored, HasMonitor, Child
<1>7. Covered'
  BY <1>1, <1>2, <1>4 DEF Covered, Unset
<1>8. Started'
  BY DEF Started
<1>9. Terminated'
  BY DEF Terminated, Passed, Child, Before, Try
<1>10. Unset'
  BY <1>2 DEF Unset
<1> QED
  BY <1>3, <1>5, <1>6, <1>7, <1>8, <1>9, <1>10

(* The terminate of one child: it has ended, is told to or was never       *)
(* started, and then the next one is looked at.                            *)
LEMMA TerminateStep ==
  ASSUME IInv, NEW c \in Child, NEW next \in Handler \ {"termmon"}, Terminate(c, next),
         UNCHANGED <<flow, ints>>, pc \in Handler \ {"linger"}, pc # next,
         \A d \in Child \ {c} : next \in Passed(d) => pc \in Passed(d)
  PROVE  IInv'
<1> USE DEF IInv
<1>1. TypeOK'
  <2>1. pc' \in Labels /\ end' \in {"stopped", "unbound", end}
    BY DEF Terminate, Goto, Leave, Labels
  <2>2. child' \in [Child -> Life]
    BY DEF TypeOK, Terminate, Life
  <2>3. sig' \in [Child -> SUBSET {"INT", "TERM"}]
    <3>1. sig[c] \cup {"TERM"} \in SUBSET {"INT", "TERM"}
      BY DEF TypeOK
    <3>2. [sig EXCEPT ![c] = sig[c] \cup {"TERM"}] \in [Child -> SUBSET {"INT", "TERM"}]
      BY <3>1 DEF TypeOK
    <3> QED
      BY <3>2 DEF TypeOK, Terminate
  <2>4. \A d \in Child : Born(d) => Born(d)'
    BY DEF TypeOK, Terminate, Born
  <2> QED
    BY <2>1, <2>2, <2>3, <2>4 DEF TypeOK, Terminate, Born
<1>2. \A d \in Child : Settled(d) => Settled(d)'
  BY DEF Settled, MayBeLost, Dead, Alive, Terminate, TypeOK
<1>3. \A d \in Child : ~Window(d) /\ ~Window(d)'
  BY DEF Window, At, Handler, Terminate, Goto, Leave
<1>4. Unset' /\ EndsLast' /\ Monitored' /\ Reason'
  BY DEF Unset, Early, Before, Child, EndsLast, Monitored, Reason, HasMonitor, At, Terminate, Goto,
     Leave, Handler, Try
<1>5. AllSettled'
  BY DEF EndsLast, AllSettled, Terminate, Goto, Leave, Handler
<1>6. Covered'
  BY <1>2, <1>3 DEF Covered, Terminate
<1>7. Started'
  BY <1>3 DEF Started
<1>8. pc' = next => Settled(c)'
  <2>1. CASE handle[c] = "none"
    BY <2>1, <1>2, <1>3 DEF Covered
  <2>2. CASE handle[c] = "set" /\ Dead(c)
    BY <2>2, <1>2 DEF Settled
  <2>3. CASE handle[c] = "set" /\ Alive(c)
    BY <2>3 DEF Terminate, Settled, Alive, Dead, TypeOK
  <2>4. CASE handle[c] = "unbound"
    BY <2>4 DEF Terminate, Leave, Handler
  <2> QED
    BY <2>1, <2>2, <2>3, <2>4 DEF Terminate
<1>9. Terminated'
  <2>1. pc' = next \/ pc' = "exit"
    BY DEF Terminate, Goto, Leave
  <2>2. CASE pc' = "exit"
    BY <2>2 DEF Terminated, Passed, Child
  <2>3. CASE pc' = next
    BY <2>3, <1>2, <1>8 DEF Terminated
  <2> QED
    BY <2>1, <2>2, <2>3
<1> QED
  BY <1>1, <1>4, <1>5, <1>6, <1>7, <1>9

(* The controller enters the handler, without or with a Ctrl-C.            *)
LEMMA HandlerStep ==
  ASSUME IInv, GoesOn, TypeOK', UNCHANGED <<flow, handle, end>>,
         pc \in Try, pc' = "termmon", Reason',
         \A c \in Child : Window(c) => handle[c] = "set" \/ Settled(c)'
  PROVE  IInv'
<1> USE DEF IInv
<1>1. \A c \in Child : Settled(c) => Settled(c)'
  BY DEF GoesOn
<1>2. Unset' /\ EndsLast' /\ Monitored' /\ AllSettled'
  BY DEF Unset, Early, Before, Child, EndsLast, Monitored, HasMonitor, AllSettled, Try
<1>3. Covered'
  BY <1>1 DEF Covered
<1>4. Started'
  BY DEF Started, Window, At
<1>5. Terminated'
  BY DEF Terminated, Passed, Child
<1> QED
  BY <1>2, <1>3, <1>4, <1>5

LEMMA TrySteps ==
  ASSUME IInv, UNCHANGED <<flow, ints>>,
         \/ Connect \/ StartMonitor \/ SetMonitor \/ Configure
         \/ StartApp \/ SetApp \/ NoGenerator \/ NoSniffer
         \/ StartGenerator \/ SetGenerator \/ StartSniffer \/ SetSniffer
         \/ Watch \/ CheckStop \/ LoopFails
  PROVE  IInv'
<1> USE DEF At, Goto, Leave, Before, Try
<1>1. CASE Connect
  BY <1>1, PlainStep DEF Connect, Window, Child, Early
<1>2. CASE Configure
  BY <1>2, PlainStep DEF Configure, Window, Child, Early
<1>3. CASE LoopFails
  BY <1>3, PlainStep DEF LoopFails, Window, Child, Early
<1>4. CASE StartMonitor
  BY <1>4, ForkStep DEF StartMonitor, Window, Child, Early
<1>5. CASE StartApp
  BY <1>5, ForkStep DEF StartApp, Window, Child, Early
<1>6. CASE StartGenerator
  <2>1. CASE flow.gen = "none" \/ flow.gen = "bad"
    BY <1>6, <2>1, PlainStep DEF StartGenerator, Window, Child, Early
  <2>2. CASE flow.gen \in {"ping", "endless"}
    BY <1>6, <2>2, ForkStep DEF StartGenerator, Window, Child, Early
  <2> QED
    BY <1>6, <2>1, <2>2 DEF StartGenerator
<1>7. CASE StartSniffer
  <2>1. CASE flow.sniff = "none" \/ flow.sniff = "bad"
    BY <1>7, <2>1, PlainStep DEF StartSniffer, Window, Child, Early
  <2>2. CASE flow.sniff = "good"
    BY <1>7, <2>2, ForkStep DEF StartSniffer, Window, Child, Early
  <2> QED
    BY <1>7, <2>1, <2>2 DEF StartSniffer
<1>8. CASE SetMonitor
  BY <1>8, AssignStep DEF SetMonitor, Window, Child, Early
<1>9. CASE SetApp
  BY <1>9, AssignStep DEF SetApp, Window, Child, Early
<1>10. CASE SetGenerator
  BY <1>10, AssignStep DEF SetGenerator, Window, Child, Early
<1>11. CASE SetSniffer
  BY <1>11, AssignStep DEF SetSniffer, Window, Child, Early
<1>12. CASE Watch
  <2>1. GoesOn /\ TypeOK'
    BY <1>12 DEF IInv, Watch, OnlyMain, GoesOn, Dead, Born, Settled, MayBeLost, TypeOK, Labels, Handler
  <2>2. \A c \in Child : ~Window(c) /\ ~Window(c)'
    BY <1>12 DEF Watch, Window
  <2>3. CASE pc' = "loop"
    BY <1>12, <2>2, <2>3, PlainStep DEF Watch, Early, Child
  <2>4. CASE pc' = "termmon"
    <3>1. Reason'
      BY <1>12, <2>4 DEF IInv, Watch, OnlyMain, Reason, Monitored, HasMonitor, Dead
    <3> QED
      BY <1>12, <2>1, <2>2, <2>4, <3>1, HandlerStep DEF Watch, OnlyMain
  <2> QED
    BY <1>12, <2>3, <2>4 DEF Watch
<1>13. CASE CheckStop
  <2>1. child' \in [Child -> Life] /\ "gen" \in Child
    BY <1>13 DEF IInv, CheckStop, TypeOK, Life, Child
  <2>2. flow.stop = "traffic" => Dead("gen")
    BY <1>13 DEF CheckStop, StopDue
  <2>3. GoesOn
    BY <1>13, <2>1, <2>2 DEF IInv, TypeOK, CheckStop, GoesOn, Dead, Born, Settled, MayBeLost
  <2>4. TypeOK'
    BY <1>13, <2>1, <2>3 DEF IInv, CheckStop, TypeOK, Labels, Handler, GoesOn, Born
  <2>5. Reason'
    BY <1>13, <2>3 DEF CheckStop, StopDue, Reason, GoesOn, Dead, Child
  <2> QED
    BY <1>13, <2>3, <2>4, <2>5, HandlerStep DEF CheckStop, Window
<1>14. CASE NoGenerator
  BY <1>14, AssignStep DEF NoGenerator, Window, Child, Early
<1>15. CASE NoSniffer
  BY <1>15, AssignStep DEF NoSniffer, Window, Child, Early
<1> QED
  BY <1>1, <1>2, <1>3, <1>4, <1>5, <1>6, <1>7, <1>8, <1>9, <1>10, <1>11, <1>12, <1>13, <1>14, <1>15

LEMMA HandlerSteps ==
  ASSUME IInv, UNCHANGED <<flow, ints>>,
         \/ TerminateMonitor \/ TerminateApp \/ TerminateGenerator \/ TerminateSniffer
  PROVE  IInv'
<1> USE TerminateStep DEF At, Handler, Passed, Child
<1>1. CASE TerminateMonitor
  BY <1>1 DEF TerminateMonitor
<1>2. CASE TerminateApp
  BY <1>2 DEF TerminateApp
<1>3. CASE TerminateGenerator
  BY <1>3 DEF TerminateGenerator
<1>4. CASE TerminateSniffer
  BY <1>4 DEF TerminateSniffer
<1> QED
  BY <1>1, <1>2, <1>3, <1>4

(* run_app is left, in the way that e says, or the interpreter is.         *)
LEMMA LeaveStep ==
  ASSUME IInv, GoesOn, TypeOK', UNCHANGED <<flow, handle>>,
         pc' \in {"exit", "gone"}, AllSettled',
         \A c \in Child : Window(c) => handle[c] = "set" \/ Settled(c)'
  PROVE  IInv'
<1> USE DEF IInv
<1>1. \A c \in Child : Settled(c) => Settled(c)'
  BY DEF GoesOn
<1>2. Unset' /\ EndsLast' /\ Monitored' /\ Reason'
  BY DEF Unset, Early, Before, Child, EndsLast, Monitored, Reason, At, Try
<1>3. Covered' /\ Started' /\ Terminated'
  BY <1>1 DEF Covered, Started, Terminated, Passed, Window, At, Child
<1> QED
  BY <1>2, <1>3

LEMMA LastSteps ==
  ASSUME IInv, UNCHANGED <<flow, ints>>, Linger \/ Join
  PROVE  IInv'
<1> USE DEF IInv
<1>1. CASE Linger
  <2>1. GoesOn
    BY <1>1 DEF Linger, OnlyMain, GoesOn, Dead, Born, Settled, MayBeLost
  <2>2. TypeOK'
    BY <1>1 DEF Linger, OnlyMain, Leave, TypeOK, Labels
  <2>3. \A c \in Child : Settled(c)
    BY <1>1 DEF Linger, At, Terminated, Passed, Child
  <2>4. AllSettled'
    BY <2>1, <2>3 DEF AllSettled, GoesOn
  <2> QED
    BY <1>1, <2>1, <2>2, <2>4, LeaveStep DEF Linger, At, Leave, OnlyMain, Window
<1>2. CASE Join
  <2>1. child' \in [Child -> Life] /\ \A c \in Child : child'[c] = Reaped[c]
    BY <1>2 DEF Join, Reaped, TypeOK, Life
  <2>2. GoesOn
    BY <1>2, <2>1 DEF Join, Reaped, GoesOn, Dead, Born, Settled, MayBeLost
  <2>3. TypeOK'
    BY <1>2, <2>1, <2>2 DEF Join, Goto, TypeOK, Labels, GoesOn, Born
  <2>4. AllSettled'
    BY <1>2, <2>2 DEF Join, Goto, AllSettled, GoesOn
  <2> QED
    BY <1>2, <2>2, <2>3, <2>4, LeaveStep DEF Join, Goto, At, Window
<1> QED
  BY <1>1, <1>2

LEMMA CtrlCStep == ASSUME IInv, CtrlC PROVE IInv'
<1>0. ints' \in 0 .. MaxInterrupts /\ ints' # 0
  <2>1. ints \in 0 .. MaxInterrupts /\ MaxInterrupts \in Nat
    BY RunAppAssumption DEF IInv, TypeOK
  <2>2. ints < MaxInterrupts /\ ints' = ints + 1
    BY DEF CtrlC
  <2> QED
    BY <2>1, <2>2
<1> USE DEF IInv
<1>1. \A c \in Child : handle[c] = "set" \/ Settled(c)'
  BY DEF CtrlC, Settled, Alive, Dead, TypeOK, Life
<1>2. GoesOn
  <2>1. \A c \in Child : sig'[c] = sig[c] \/ sig'[c] = sig[c] \cup {"INT"}
    BY DEF CtrlC, TypeOK
  <2>2. UNCHANGED <<child, handle, missed>>
    BY DEF CtrlC
  <2> QED
    BY <2>1, <2>2 DEF GoesOn, Dead, Born, Settled, MayBeLost
<1>3. sig' \in [Child -> SUBSET {"INT", "TERM"}]
  <2>1. \A c \in Child : sig[c] \cup {"INT"} \in SUBSET {"INT", "TERM"}
    BY DEF TypeOK
  <2> QED
    BY <2>1 DEF CtrlC, TypeOK
<1>4. TypeOK'
  <2>1. ints' \in 0 .. MaxInterrupts
    BY <1>0
  <2>2. pc' \in Labels /\ end' \in {"raised", end}
    BY DEF CtrlC, Leave, Goto, Labels, Handler
  <2> QED
    BY <1>3, <2>1, <2>2 DEF CtrlC, TypeOK
<1>5. pc \notin Try => AllSettled'
  <2>1. end' = "stopped" /\ pc \notin Try => end = "stopped"
    BY DEF CtrlC, Leave, Goto
  <2> QED
    BY <1>2, <2>1 DEF AllSettled, GoesOn
<1>6. CASE pc \in Before \cup Handler \cup {"exit"}
  BY <1>1, <1>2, <1>4, <1>5, <1>6, LeaveStep DEF CtrlC, Leave, Goto, Before, Handler, Try
<1>7. CASE pc \in Try
  <2>1. Reason' /\ pc' = "termmon" /\ end' = end
    BY <1>0, <1>7 DEF CtrlC, Goto, Reason, Before, Handler, Try
  <2> QED
    BY <1>1, <1>2, <1>4, <1>7, <2>1, HandlerStep DEF CtrlC
<1> QED
  BY <1>6, <1>7 DEF CtrlC

-----------------------------------------------------------------------------
(* The theorems.                                                           *)

(* Where the controller is tells which children it has started, knows and  *)
(* has terminated; no step of it, of a child or of a Ctrl-C breaks that.   *)
THEOREM Invariance == Spec => []IInv
<1>0. 0 \in 0 .. MaxInterrupts
  BY RunAppAssumption
<1>1. Init => IInv
  BY <1>0
     DEF Init, IInv, TypeOK, Labels, Before, Life, Child, Unset, Early, EndsLast, Covered, Settled,
         Started, Window, Terminated, Passed, Monitored, HasMonitor, Reason, AllSettled, At, Try
<1>2. ASSUME IInv, [Next]_vars PROVE IInv'
  <2>1. CASE Main
    BY <1>2, <2>1, TrySteps, HandlerSteps, LastSteps DEF Main
  <2>2. CASE CtrlC
    BY <1>2, <2>2, CtrlCStep
  <2>3. CASE \/ \E c \in Child : Lives(c) \/ Die(c)
             \/ RunGraph \/ AppHandlesSignal \/ PingSwallowsInterrupt \/ GeneratorDone
    BY <1>2, <2>3, ChildSteps
  <2>4. CASE UNCHANGED vars
    <3>1. TypeOK' /\ GoesOn
      BY <1>2, <2>4 DEF IInv, TypeOK, GoesOn, Dead, Born, Settled, MayBeLost, vars
    <3> QED
      BY <1>2, <2>4, <3>1, QuietStep DEF vars
  <2> QED
    BY <1>2, <2>1, <2>2, <2>3, <2>4 DEF Next
<1> QED
  BY <1>1, <1>2, PTL DEF Spec

(* The variables of run_app and of its processes keep their types, and a   *)
(* Process that a variable holds has been started.                         *)
THEOREM TypeCorrect == Spec => []TypeOK
BY Invariance, PTL DEF IInv

(* When run_app has stopped a run, every process that it ever started has  *)
(* ended or has a signal that it still has to act on, but for the two ways *)
(* of MayBeLost: for all configurations, with children that die at any     *)
(* time and any number of Ctrl-C, one of which may come between the start  *)
(* of a process and the assignment of its handle.                          *)
THEOREM StopReachesAll == Spec => []NobodyForgotten
<1>1. IInv => NobodyForgotten
  BY DEF IInv, AllSettled, Settled, NobodyForgotten
<1> QED
  BY <1>1, Invariance, PTL

(* A run with a monitor is stopped by a Ctrl-C, by the end of the traffic  *)
(* it is to stop at, or because the application or the monitor has ended.  *)
THEOREM StopHasReason == Spec => []StopsForAReason
<1>1. IInv => StopsForAReason
  BY DEF IInv, Reason, StopsForAReason
<1> QED
  BY <1>1, Invariance, PTL

-----------------------------------------------------------------------------
(* The handles a Ctrl-C meets.                                             *)

(* The labels of the try before the last handle has a value.               *)
Unready == {"configure", "forkapp", "setapp", "nogen", "nosnf"}

Ready == (Try \ Unready) \cup Handler

(* The labels after the assignment of a value, or None, to the handle of c.*)
Known(c) ==
  CASE c = "mon" -> Labels
    [] c = "app" -> Ready \cup {"nogen", "nosnf"}
    [] c = "gen" -> Ready \cup {"nosnf"}
    [] c = "snf" -> Ready

Bound == \A c \in Child : pc \in Known(c) => handle[c] # "unbound"

BoundInv == Bound /\ InterruptIsHandled

(* No Ctrl-C comes in the part of the try that is not ready for it.        *)
Patient == pc \in Unready => ints' = ints

(* The places where a handle gets a value, and the others.                 *)
LEMMA BoundOnTheWay ==
  ASSUME TypeOK, BoundInv, Main
  PROVE  BoundInv'
<1> USE DEF BoundInv, InterruptIsHandled, Bound, Known, Ready, Unready, Try, Handler, Before,
            Child, At, Goto, Leave
<1>1. CASE \/ Connect \/ Configure \/ Watch \/ LoopFails \/ Linger
  BY <1>1 DEF OnlyMain, Connect, Configure, Watch, LoopFails, Linger, Labels
<1>2. CASE StartMonitor \/ StartApp \/ StartGenerator \/ StartSniffer
  BY <1>2 DEF OnlyMain, StartMonitor, StartApp, StartGenerator, StartSniffer, Fork, Labels
<1>3. CASE \/ SetMonitor \/ SetApp \/ NoGenerator \/ NoSniffer \/ SetGenerator \/ SetSniffer
  BY <1>3 DEF TypeOK, SetMonitor, SetApp, NoGenerator, NoSniffer, SetGenerator, SetSniffer,
              Assign, Labels
<1>4. CASE CheckStop \/ Join
  BY <1>4 DEF CheckStop, Join, Labels
<1>5. CASE \/ TerminateMonitor \/ TerminateApp \/ TerminateGenerator \/ TerminateSniffer
  <2>1. /\ \A c \in Child : handle[c] # "unbound"
        /\ handle' = handle
        /\ \/ pc' \in Handler /\ end' = end
           \/ pc' = "exit" /\ end' = "unbound" /\ \E c \in Child : handle[c] = "unbound"
    BY <1>5 DEF TerminateMonitor, TerminateApp, TerminateGenerator, TerminateSniffer,
                Terminate, Labels
  <2> QED
    BY <2>1
<1> QED
  BY <1>1, <1>2, <1>3, <1>4, <1>5 DEF Main

(* A Ctrl-C that comes before the try leaves run_app, and one after the    *)
(* last handle has its value finds all of them.                            *)
THEOREM ReadyForInterrupt == Spec /\ [][Patient]_vars => []InterruptIsHandled
<1>1. Init => BoundInv
  BY DEF Init, BoundInv, InterruptIsHandled, Bound, Known, Ready, Unready, Try, Handler, Child
<1>2. ASSUME IInv, BoundInv, [Next]_vars, [Patient]_vars PROVE BoundInv'
  <2>1. CASE Main
    BY <1>2, <2>1, BoundOnTheWay DEF IInv
  <2>2. CASE CtrlC
    <3>0. ints \in Nat
      <4>1. ints \in 0 .. MaxInterrupts /\ MaxInterrupts \in Nat
        BY <1>2, RunAppAssumption DEF IInv, TypeOK
      <4> QED
        BY <4>1
    <3>1. ints' # ints
      <4>1. ints' = ints + 1
        BY <2>2 DEF CtrlC
      <4> QED
        BY <3>0, <4>1
    <3>2. pc \notin Unready
      BY <1>2, <3>1 DEF Patient, vars
    <3>3. CASE pc \in Try
      BY <1>2, <2>2, <3>2, <3>3
         DEF CtrlC, Goto, BoundInv, InterruptIsHandled, Bound, Known, Ready, Try, Handler,
             Before, Child, Labels
    <3>4. CASE pc \notin Try
      BY <1>2, <2>2, <3>4
         DEF CtrlC, Goto, Leave, BoundInv, InterruptIsHandled, Bound, Known, Ready, Try, Handler,
             Before, Child, Labels, IInv, TypeOK
    <3> QED
      BY <3>3, <3>4
  <2>3. CASE \/ \E c \in Child : Lives(c) \/ Die(c)
             \/ RunGraph \/ AppHandlesSignal \/ PingSwallowsInterrupt \/ GeneratorDone
             \/ UNCHANGED vars
    <3>1. UNCHANGED <<pc, handle, end>>
      BY <2>3 DEF Lives, Boot, EndBySignal, Die, RunGraph, AppHandlesSignal,
                  PingSwallowsInterrupt, GeneratorDone, Become, vars
    <3> QED
      BY <1>2, <3>1 DEF BoundInv, InterruptIsHandled, Bound
  <2> QED
    BY <1>2, <2>1, <2>2, <2>3 DEF Next
<1>3. BoundInv => InterruptIsHandled
  BY DEF BoundInv
<1> QED
  BY <1>1, <1>2, <1>3, Invariance, PTL DEF Spec

=============================================================================
