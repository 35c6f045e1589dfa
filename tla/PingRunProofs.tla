--------------------------- MODULE PingRunProofs ---------------------------
(***************************************************************************)
(* Theorems about PingRun.                                                 *)
(***************************************************************************)
EXTENDS PingRun, FiniteSetTheorems, TLAPS

(* What a run has not come to yet has not begun.                           *)
Phases ==
  \A r \in Run :
    /\ pc[r] \in {"new", "connected"} => app[r] = "unborn"
    /\ pc[r] \in {"new", "connected", "started"} => gen[r] = "unborn"
    /\ gen[r] = "unborn" => sent[r] = 0 /\ lost[r] = 0

(* The sequence number and the number of packets of icmp_ping go together. *)
Lockstep ==
  \A r \in Run :
    /\ gen[r] \in {"unborn", "boot", "build", "report", "done"} => seq[r] = sent[r]
    /\ gen[r] = "wait" => seq[r] = sent[r] + 1

(* Runs that use one namespace at one time are known to.                   *)
SharedKnown ==
  \A q, r \in Run :
    q # r /\ Space(q) = Space(r) /\ Uses(q) /\ Uses(r) => q \in shared /\ r \in shared

(* Run q may get to see what belongs to run r, if the runs in S have       *)
(* shared a namespace.                                                     *)
MaySee(q, r, S) == q = r \/ (q \in S /\ r \in S)

AirOK ==
  \A a \in air :
    /\ a.seq = a.of[2]
    /\ app[a.by] = "up"
    /\ MaySee(a.by, a.of[1], shared)

SockOK == \A r \in Run : \A a \in sock[r] : a.seq = a.of[2] /\ MaySee(r, a.of[1], shared)

GotOK ==
  \A r \in Run : gen[r] = "report" =>
    got[r] \in Packet /\ sent[r] = got[r][2] + 1 /\ MaySee(r, got[r][1], shared)

AnswerInv == TypeOK /\ Phases /\ Lockstep /\ SharedKnown /\ AirOK /\ SockOK /\ GotOK /\ OwnAnswers

-----------------------------------------------------------------------------

(* The steps, those with the same effect taken together.                   *)
Stops(r) == pc[r] \in {"started", "watch"} /\ Stop(r)

Dies(r) == GenAlive(r) /\ Exit(r, "dead")

Step(r) ==
  \/ Connect(r) \/ StartApp(r) \/ StartPing(r) \/ Abandon(r) \/ Stops(r)
  \/ Construct(r) \/ AppEnds(r) \/ OpenSocket(r) \/ Send(r) \/ Receive(r)
  \/ Timeout(r) \/ Report(r) \/ Finish(r) \/ Dies(r)

LEMMA NextSteps ==
  ASSUME Next
  PROVE  plan' = plan /\ (Arrive \/ \E r \in Run : Step(r))
<1>1. plan' = plan
  BY DEF Next
<1>2. ASSUME NEW r \in Run, RunAppSteps(r) \/ Construct(r) \/ AppEnds(r) \/ Pings(r)
      PROVE  Step(r)
  BY <1>2 DEF RunAppSteps, Pings, Step, Stops, Dies, TrafficDone, Interrupt, At,
     NoInterface, ReportFails, Killed, GenAlive
<1> QED
  BY <1>1, <1>2 DEF Next

-----------------------------------------------------------------------------
(* The types.                                                              *)

LEMMA InitType ==
  ASSUME Init
  PROVE  TypeOK
  BY PingRunAssumption DEF Init, TypeOK

LEMMA PlanType ==
  ASSUME TypeOK, NEW r \in Run
  PROVE  Space(r) \in Nat /\ (Limited(r) => Packets(r) \in Nat)
  BY PingRunAssumption DEF TypeOK, Plan, Space, Packets, Limited

LEMMA FramesType ==
  ASSUME TypeOK, NEW r \in Run
  PROVE  Frames(r) \subseteq [seq : Nat, of : Packet, by : Run]
  BY DEF TypeOK, Frames, Packet

LEMMA ArriveType ==
  ASSUME TypeOK, plan' = plan, Arrive
  PROVE  TypeOK'
<1>1. PICK a \in air : Arrive!(a)
  BY DEF Arrive
<1>2. [seq |-> a.seq, of |-> a.of] \in Answer
  BY <1>1 DEF TypeOK, Answer
<1>3. sock' \in [Run -> SUBSET Answer]
  BY <1>1, <1>2 DEF TypeOK
<1>4. air' \subseteq [seq : Nat, of : Packet, by : Run]
  BY <1>1 DEF TypeOK
<1> QED
  BY <1>1, <1>3, <1>4 DEF TypeOK, history

LEMMA StepType ==
  ASSUME TypeOK, plan' = plan, NEW r \in Run, Step(r),
         gen[r] = "report" => got[r] \in Packet /\ sent[r] # 0
  PROVE  TypeOK'
<1>1. CASE Connect(r)
  BY <1>1 DEF TypeOK, Connect, Goto, ping
<1>2. CASE StartApp(r)
  BY <1>2 DEF TypeOK, StartApp, Goto, ping, history
<1>3. CASE StartPing(r)
  BY <1>3 DEF TypeOK, StartPing, Goto, history
<1>4. CASE Abandon(r)
  BY <1>4 DEF TypeOK, Abandon, Goto, ping, history
<1>5. CASE Stops(r)
  BY <1>5 DEF TypeOK, Stops, Stop, Goto, ping, history
<1>6. CASE Construct(r)
  BY <1>6 DEF TypeOK, Construct, ping, history
<1>7. CASE AppEnds(r)
  BY <1>7 DEF TypeOK, AppEnds, ping, history
<1>8. CASE OpenSocket(r)
  BY <1>8 DEF TypeOK, OpenSocket, history
<1>9. CASE Send(r)
  BY <1>9, FramesType DEF TypeOK, Send, history
<1>10. CASE Receive(r)
  <2>1. PICK a \in sock[r], keep \in SUBSET {b \in sock[r] : b.seq >= seq[r]} :
          got' = [got EXCEPT ![r] = a.of] /\ sock' = [sock EXCEPT ![r] = keep]
    BY <1>10 DEF Receive
  <2>2. a.of \in Packet /\ keep \in SUBSET Answer
    BY <2>1 DEF TypeOK, Answer
  <2>3. got' \in [Run -> Packet \cup {<<>>}] /\ sock' \in [Run -> SUBSET Answer]
    BY <2>1, <2>2 DEF TypeOK
  <2> QED
    BY <1>10, <2>3 DEF TypeOK, Receive, history
<1>11. CASE Timeout(r)
  BY <1>11 DEF TypeOK, Timeout, history
<1>12. CASE Report(r)
  <2>1. sent[r] - 1 \in Nat /\ got[r] \in Packet
    BY <1>12 DEF TypeOK, Report
  <2>2. coll' \subseteq [run : Run, nth : Nat, of : Packet]
    BY <1>12, <2>1 DEF TypeOK, Report
  <2> QED
    BY <1>12, <2>2 DEF TypeOK, Report, history
<1>13. CASE Finish(r)
  BY <1>13 DEF TypeOK, Finish, Exit, history
<1>14. CASE Dies(r)
  BY <1>14 DEF TypeOK, Dies, Exit, history
<1> QED
  BY <1>1, <1>2, <1>3, <1>4, <1>5, <1>6, <1>7, <1>8, <1>9, <1>10, <1>11, <1>12, <1>13, <1>14 DEF Step

-----------------------------------------------------------------------------
(* What a step does to the processes of the runs.                          *)

LEMMA SpaceKept ==
  ASSUME plan' = plan, NEW q \in Run
  PROVE  Space(q)' = Space(q) /\ Packets(q)' = Packets(q)
  BY DEF Space, Packets

LEMMA ArriveKeeps ==
  ASSUME Arrive
  PROVE  UNCHANGED <<pc, app, gen, seq, sent, lost, got, term, coll, mixed, shared>>
  BY DEF Arrive, history

LEMMA StepPhases ==
  ASSUME TypeOK, Phases, NEW r \in Run, Step(r)
  PROVE  Phases'
<1>1. CASE Connect(r)
  BY <1>1 DEF TypeOK, Phases, Connect, Goto, At, ping
<1>2. CASE StartApp(r) \/ StartPing(r) \/ Abandon(r) \/ Stops(r)
  BY <1>2 DEF TypeOK, Phases, StartApp, StartPing, Abandon, Stops, Stop, Goto, At, ping
<1>3. CASE Construct(r) \/ AppEnds(r)
  BY <1>3 DEF TypeOK, Phases, Construct, AppEnds, AppAlive, ping
<1>4. CASE OpenSocket(r) \/ Send(r) \/ Receive(r) \/ Timeout(r) \/ Report(r)
  BY <1>4 DEF TypeOK, Phases, OpenSocket, Send, Receive, Timeout, Report
<1>5. CASE Finish(r) \/ Dies(r)
  BY <1>5 DEF TypeOK, Phases, Finish, Dies, Exit, GenAlive
<1> QED
  BY <1>1, <1>2, <1>3, <1>4, <1>5 DEF Step

LEMMA StepLockstep ==
  ASSUME TypeOK, Phases, Lockstep, NEW r \in Run, Step(r)
  PROVE  Lockstep'
<1>1. CASE Connect(r) \/ StartApp(r) \/ Abandon(r) \/ Stops(r) \/ Construct(r) \/ AppEnds(r)
  BY <1>1 DEF TypeOK, Lockstep, Connect, StartApp, Abandon, Stops, Stop, Construct, AppEnds, ping
<1>2. CASE StartPing(r) \/ OpenSocket(r) \/ Report(r)
  BY <1>2 DEF TypeOK, Phases, Lockstep, StartPing, At, OpenSocket, Report
<1>3. CASE Send(r)
  BY <1>3 DEF TypeOK, Lockstep, Send
<1>4. CASE Receive(r)
  BY <1>4 DEF TypeOK, Lockstep, Receive
<1>5. CASE Timeout(r)
  BY <1>5 DEF TypeOK, Lockstep, Timeout
<1>6. CASE Finish(r) \/ Dies(r)
  BY <1>6 DEF TypeOK, Lockstep, Finish, Dies, Exit
<1> QED
  BY <1>1, <1>2, <1>3, <1>4, <1>5, <1>6 DEF Step

(* Only a run that connects comes to use a namespace or to write.          *)
LEMMA NoRevival ==
  ASSUME TypeOK, Phases, NEW r \in Run, Step(r), NEW q \in Run, ~(q = r /\ Connect(r))
  PROVE  (Uses(q)' => Uses(q)) /\ (Writes(q)' => Writes(q))
<1> USE DEF Uses, Writes, GenAlive, AppAlive
<1>1. CASE Connect(r)
  BY <1>1 DEF TypeOK, Connect, Goto, ping
<1>2. CASE StartApp(r) \/ StartPing(r) \/ Abandon(r) \/ Stops(r)
  BY <1>2 DEF TypeOK, StartApp, StartPing, Abandon, Stops, Stop, Goto, At, ping
<1>3. CASE Construct(r) \/ AppEnds(r)
  BY <1>3 DEF TypeOK, Construct, AppEnds, ping
<1>4. CASE OpenSocket(r) \/ Send(r) \/ Receive(r) \/ Timeout(r) \/ Report(r)
  BY <1>4 DEF TypeOK, OpenSocket, Send, Receive, Timeout, Report
<1>5. CASE Finish(r) \/ Dies(r)
  BY <1>5 DEF TypeOK, Finish, Dies, Exit
<1> QED
  BY <1>1, <1>2, <1>3, <1>4, <1>5 DEF Step

LEMMA SharedGrows ==
  ASSUME NEW r \in Run, Step(r)
  PROVE  (~Connect(r) => shared' = shared /\ mixed' = mixed)
         /\ shared \subseteq shared' /\ mixed \subseteq mixed'
<1>1. CASE Connect(r)
  BY <1>1 DEF Connect
<1>2. CASE ~Connect(r)
  BY <1>2 DEF Step, StartApp, StartPing, Abandon, Stops, Stop, Construct, AppEnds, OpenSocket,
     Send, Receive, Timeout, Report, Finish, Dies, Exit, history
<1> QED
  BY <1>1, <1>2

LEMMA StepShared ==
  ASSUME TypeOK, Phases, SharedKnown, plan' = plan, NEW r \in Run, Step(r)
  PROVE  SharedKnown'
<1> SUFFICES ASSUME NEW q \in Run, NEW p \in Run, q # p, Space(q)' = Space(p)',
                    Uses(q)', Uses(p)'
             PROVE  q \in shared' /\ p \in shared'
  BY DEF SharedKnown
<1>1. Space(q) = Space(p)
  BY SpaceKept
<1>2. CASE ~Connect(r) \/ r \notin {q, p}
  BY <1>1, <1>2, NoRevival, SharedGrows DEF SharedKnown
<1>3. ASSUME NEW x \in Run, x # r, Space(x) = Space(r), Uses(x)', Connect(r)
      PROVE  x \in shared' /\ r \in shared'
  <2>1. Uses(x)
    BY <1>3, NoRevival
  <2> QED
    BY <1>3, <2>1 DEF Connect
<1> QED
  BY <1>1, <1>2, <1>3

LEMMA MaySeeKept ==
  ASSUME NEW r \in Run, Step(r), NEW q, NEW p, MaySee(q, p, shared)
  PROVE  MaySee(q, p, shared')
  BY SharedGrows DEF MaySee

-----------------------------------------------------------------------------
(* Where an answer may be.                                                 *)

LEMMA StepAir ==
  ASSUME TypeOK, Phases, Lockstep, SharedKnown, AirOK, plan' = plan, NEW r \in Run, Step(r)
  PROVE  AirOK'
<1> SUFFICES ASSUME NEW a \in air'
             PROVE  a.seq = a.of[2] /\ app'[a.by] = "up" /\ MaySee(a.by, a.of[1], shared')
  BY DEF AirOK
<1>1. CASE a \in air
  <2>1. a.seq = a.of[2] /\ app[a.by] = "up" /\ a.by \in Run /\ MaySee(a.by, a.of[1], shared)
    BY <1>1 DEF AirOK, TypeOK
  <2>2. MaySee(a.by, a.of[1], shared')
    BY <2>1, MaySeeKept
  <2>3. app'[a.by] = "up"
    <3>1. CASE AppEnds(r)
      BY <3>1, <2>1 DEF TypeOK, AppEnds
    <3>2. CASE StartApp(r)
      BY <3>2, <2>1 DEF TypeOK, Phases, StartApp, At
    <3>3. CASE Construct(r)
      BY <3>3, <2>1 DEF TypeOK, Construct
    <3>4. CASE ~(AppEnds(r) \/ StartApp(r) \/ Construct(r))
      <4>1. app' = app
        BY <3>4 DEF Step, Connect, StartPing, Abandon, Stops, Stop, OpenSocket, Send, Receive,
           Timeout, Report, Finish, Dies, Exit
      <4> QED
        BY <4>1, <2>1
    <3> QED
      BY <3>1, <3>2, <3>3, <3>4
  <2> QED
    BY <2>1, <2>2, <2>3
<1>2. CASE a \notin air
  <2>1. Send(r)
    BY <1>2 DEF Step, Connect, StartApp, StartPing, Abandon, Stops, Stop, Construct, AppEnds,
       OpenSocket, Receive, Timeout, Report, Finish, Dies, Exit
  <2>2. PICK h \in Run : /\ Space(h) = Space(r) /\ app[h] = "up"
                         /\ a = [seq |-> seq[r], of |-> <<r, sent[r]>>, by |-> h]
    BY <1>2, <2>1 DEF Send, Frames
  <2>3. seq[r] = sent[r] /\ app' = app /\ Uses(r)
    BY <2>1 DEF Send, Lockstep, Uses, Writes, GenAlive
  <2>4. MaySee(h, r, shared)
    BY <2>2, <2>3 DEF MaySee, SharedKnown, Uses, AppAlive
  <2> QED
    BY <2>2, <2>3, <2>4, MaySeeKept
<1> QED
  BY <1>1, <1>2

LEMMA StepSock ==
  ASSUME TypeOK, SockOK, NEW r \in Run, Step(r)
  PROVE  SockOK'
<1> SUFFICES ASSUME NEW q \in Run, NEW a \in sock'[q]
             PROVE  a.seq = a.of[2] /\ MaySee(q, a.of[1], shared')
  BY DEF SockOK
<1>1. a \in sock[q]
  BY DEF TypeOK, Step, Connect, StartApp, StartPing, Abandon, Stops, Stop, Construct, AppEnds,
     OpenSocket, Send, Receive, Timeout, Report, Finish, Dies, Exit, ping
<1> QED
  BY <1>1, MaySeeKept DEF SockOK

LEMMA StepGot ==
  ASSUME TypeOK, Phases, Lockstep, SockOK, GotOK, NEW r \in Run, Step(r)
  PROVE  GotOK'
<1> SUFFICES ASSUME NEW q \in Run, gen'[q] = "report"
             PROVE  got'[q] \in Packet /\ sent'[q] = got'[q][2] + 1 /\ MaySee(q, got'[q][1], shared')
  BY DEF GotOK
<1>1. CASE Receive(r) /\ q = r
  <2>1. PICK a \in sock[r] : a.seq + 1 = seq[r] /\ got'[r] = a.of
    BY <1>1 DEF Receive, TypeOK
  <2>2. a.seq = a.of[2] /\ MaySee(r, a.of[1], shared) /\ a.of \in Packet
    BY <2>1 DEF SockOK, TypeOK, Answer
  <2>3. seq[r] = sent[r] + 1 /\ sent'[r] = sent[r] + 1
    BY <1>1 DEF Receive, Lockstep, TypeOK
  <2>4. MaySee(r, a.of[1], shared')
    BY <2>2, MaySeeKept
  <2> QED
    BY <1>1, <2>1, <2>2, <2>3, <2>4
<1>2. CASE ~(Receive(r) /\ q = r)
  <2>1. gen[q] = "report" /\ got'[q] = got[q] /\ sent'[q] = sent[q]
    BY <1>2 DEF TypeOK, Step, Connect, StartApp, StartPing, Abandon, Stops, Stop, Construct,
       AppEnds, OpenSocket, Send, Receive, Timeout, Report, Finish, Dies, Exit, ping
  <2> QED
    BY <2>1, MaySeeKept DEF GotOK
<1> QED
  BY <1>1, <1>2

LEMMA StepOwn ==
  ASSUME TypeOK, GotOK, OwnAnswers, NEW r \in Run, Step(r)
  PROVE  OwnAnswers'
<1> SUFFICES ASSUME NEW c \in coll'
             PROVE  \/ c.of = <<c.run, c.nth>>
                    \/ c.of[1] # c.run /\ {c.run, c.of[1]} \subseteq shared'
  BY DEF OwnAnswers
<1>1. CASE c \in coll
  BY <1>1, SharedGrows DEF OwnAnswers
<1>2. CASE c \notin coll
  <2>1. Report(r) /\ c = [run |-> r, nth |-> sent[r] - 1, of |-> got[r]]
    BY <1>2 DEF Step, Connect, StartApp, StartPing, Abandon, Stops, Stop, Construct, AppEnds,
       OpenSocket, Send, Receive, Timeout, Report, Finish, Dies, Exit
  <2>2. got[r] \in Packet /\ sent[r] = got[r][2] + 1 /\ MaySee(r, got[r][1], shared) /\ shared' = shared
    BY <2>1 DEF Report, GotOK, history
  <2>3. sent[r] - 1 = got[r][2] /\ got[r] = <<got[r][1], got[r][2]>>
    BY <2>2 DEF Packet
  <2> QED
    BY <2>1, <2>2, <2>3 DEF MaySee
<1> QED
  BY <1>1, <1>2

LEMMA ArriveInv ==
  ASSUME AnswerInv, plan' = plan, Arrive
  PROVE  AnswerInv'
<1> USE ArriveKeeps
<1>1. TypeOK'
  BY ArriveType DEF AnswerInv
<1>2. Phases' /\ Lockstep' /\ GotOK' /\ OwnAnswers'
  BY DEF AnswerInv, Phases, Lockstep, GotOK, OwnAnswers, MaySee
<1>3. SharedKnown'
  BY DEF AnswerInv, SharedKnown, Uses, Writes, AppAlive, GenAlive, Space
<1>4. PICK a \in air : Arrive!(a)
  BY DEF Arrive
<1>5. AirOK'
  BY <1>4 DEF AnswerInv, AirOK, MaySee
<1>6. SockOK'
  <2> SUFFICES ASSUME NEW q \in Run, NEW b \in sock'[q]
               PROVE  b.seq = b.of[2] /\ MaySee(q, b.of[1], shared)
    BY DEF SockOK, MaySee
  <2>1. CASE b \in sock[q]
    BY <2>1 DEF AnswerInv, SockOK
  <2>2. CASE b \notin sock[q]
    <3>1. /\ b = [seq |-> a.seq, of |-> a.of] /\ Listens(q) /\ Space(q) = Space(a.by)
      BY <1>4, <2>2
    <3>2. a.by \in Run /\ a.seq = a.of[2] /\ app[a.by] = "up" /\ MaySee(a.by, a.of[1], shared)
      BY DEF AnswerInv, AirOK, TypeOK
    <3>3. MaySee(q, a.by, shared)
      BY <3>1, <3>2 DEF AnswerInv, SharedKnown, MaySee, Uses, Writes, AppAlive, GenAlive, Listens
    <3> QED
      BY <3>1, <3>2, <3>3 DEF MaySee
  <2> QED
    BY <2>1, <2>2
<1> QED
  BY <1>1, <1>2, <1>3, <1>5, <1>6 DEF AnswerInv

LEMMA InitAnswerInv ==
  ASSUME Init
  PROVE  AnswerInv
  BY InitType DEF Init, AnswerInv, Phases, Lockstep, SharedKnown, AirOK, SockOK, GotOK, OwnAnswers,
     Uses, Writes, AppAlive, GenAlive

LEMMA StepAnswerInv ==
  ASSUME AnswerInv, Next
  PROVE  AnswerInv'
<1>1. plan' = plan /\ (Arrive \/ \E r \in Run : Step(r))
  BY NextSteps
<1>2. CASE Arrive
  BY <1>1, <1>2, ArriveInv
<1>3. ASSUME NEW r \in Run, Step(r)
      PROVE  AnswerInv'
  <2>1. gen[r] = "report" => got[r] \in Packet /\ sent[r] # 0
    BY DEF AnswerInv, GotOK, Packet
  <2> QED
    BY <1>1, <1>3, <2>1, StepType, StepPhases, StepLockstep, StepShared, StepAir, StepSock,
       StepGot, StepOwn DEF AnswerInv
<1> QED
  BY <1>1, <1>2, <1>3

LEMMA StutterAnswerInv ==
  ASSUME AnswerInv, UNCHANGED vars
  PROVE  AnswerInv'
<1>1. UNCHANGED <<plan, pc, app, gen, seq, sent, lost, got, sock, air, term, coll, mixed, shared>>
  BY DEF vars, ping, history
<1> QED
  BY <1>1 DEF AnswerInv, TypeOK, Phases, Lockstep, SharedKnown, AirOK, SockOK, GotOK, OwnAnswers,
     MaySee, Uses, Writes, AppAlive, GenAlive, Space

(* For any number of runs, whatever they are and however they overlap, the *)
(* variables keep their types.                                             *)
THEOREM TypeCorrect == Spec => []TypeOK
<1>1. Init => AnswerInv
  BY InitAnswerInv
<1>2. AnswerInv /\ [Next]_vars => AnswerInv'
  BY StepAnswerInv, StutterAnswerInv
<1>3. AnswerInv => TypeOK
  BY DEF AnswerInv
<1> QED
  BY <1>1, <1>2, <1>3, PTL DEF Spec

(* Whatever is delayed, lost, left running or started beside it, a record  *)
(* is of the answer to its own packet, or of that of a run that shared a   *)
(* namespace with its own in time (icmp_ping, lines 86-95).                *)
THEOREM AnswersAreOwn == Spec => []OwnAnswers
<1>1. Init => AnswerInv
  BY InitAnswerInv
<1>2. AnswerInv /\ [Next]_vars => AnswerInv'
  BY StepAnswerInv, StutterAnswerInv
<1>3. AnswerInv => OwnAnswers
  BY DEF AnswerInv
<1> QED
  BY <1>1, <1>2, <1>3, PTL DEF Spec

-----------------------------------------------------------------------------
(* What the collection has.                                                *)

(* The runs connect in the order of their numbers.                         *)
InOrder == \A q, r \in Run : q < r /\ pc[r] # "new" => pc[q] # "new"

(* Run r has the collection, and had it to itself.                         *)
Owns(r) == pc[r] # "new" /\ r \notin mixed /\ \A q \in Run : q > r => pc[q] = "new"

Pending(r) == IF gen[r] = "report" THEN 1 ELSE 0

(* Every packet is a record, lost, or about to be reported, unless the     *)
(* ping was ended in the middle.                                           *)
Counted(r) ==
  /\ \A q \in Run : q # r => ~Writes(q)
  /\ IsFiniteSet(coll)
  /\ \A c \in coll : c.nth + Pending(r) < sent[r]
  /\ gen[r] # "dead" => Cardinality(coll) + lost[r] + Pending(r) = sent[r]

CountInv ==
  /\ InOrder
  /\ \A r \in Run : Owns(r) => Counted(r)
  /\ \A r \in Run : gen[r] = "done" => sent[r] = Packets(r)

LEMMA StepOrder ==
  ASSUME TypeOK, InOrder, NEW r \in Run, Step(r)
  PROVE  InOrder'
<1> SUFFICES ASSUME NEW q \in Run, NEW p \in Run, q < p, pc'[p] # "new"
             PROVE  pc'[q] # "new"
  BY DEF InOrder
<1>1. pc[q] # "new" => pc'[q] # "new"
  BY DEF TypeOK, Step, Connect, Goto, StartApp, StartPing, Abandon, Stops, Stop, Construct,
     AppEnds, OpenSocket, Send, Receive, Timeout, Report, Finish, Dies, Exit
<1>2. CASE pc[p] # "new"
  BY <1>1, <1>2 DEF InOrder
<1>3. CASE pc[p] = "new"
  <2>1. Connect(p)
    BY <1>3 DEF TypeOK, Step, Connect, At, Goto, StartApp, StartPing, Abandon, Stops, Stop,
       Construct, AppEnds, OpenSocket, Send, Receive, Timeout, Report, Finish, Dies, Exit
  <2> QED
    BY <1>1, <2>1 DEF Connect, At
<1> QED
  BY <1>2, <1>3

LEMMA StepDone ==
  ASSUME TypeOK, Phases, plan' = plan, \A r \in Run : gen[r] = "done" => sent[r] = Packets(r),
         NEW r \in Run, Step(r), NEW q \in Run, gen'[q] = "done"
  PROVE  sent'[q] = Packets(q)'
<1>1. Packets(q)' = Packets(q)
  BY SpaceKept
<1>2. CASE Finish(r) /\ q = r
  BY <1>1, <1>2 DEF Finish, Exit
<1>3. CASE ~(Finish(r) /\ q = r)
  <2>1. gen[q] = "done" /\ sent'[q] = sent[q]
    BY <1>3 DEF TypeOK, Step, Connect, StartApp, StartPing, Abandon, Stops, Stop, Construct,
       AppEnds, OpenSocket, Send, Receive, Timeout, Report, Finish, Dies, Exit, ping
  <2> QED
    BY <1>1, <2>1
<1> QED
  BY <1>2, <1>3

(* A run that has just connected.                                          *)
LEMMA ConnectCounts ==
  ASSUME TypeOK, Phases, NEW r \in Run, Connect(r), r \notin mixed'
  PROVE  Counted(r)'
<1>1. coll' = {} /\ gen' = gen /\ sent' = sent /\ lost' = lost /\ pc[r] = "new"
  BY DEF Connect, ping, At
<1>2. gen[r] = "unborn" /\ sent[r] = 0 /\ lost[r] = 0
  BY <1>1 DEF Phases
<1>3. ASSUME NEW q \in Run, q # r
      PROVE  ~Writes(q)'
  <2>1. ~Writes(q)
    BY DEF Connect
  <2> QED
    BY <1>3, <2>1, NoRevival DEF Step
<1>4. IsFiniteSet(coll') /\ Cardinality(coll') = 0
  BY <1>1, FS_EmptySet
<1>5. Pending(r)' = 0
  BY <1>1, <1>2 DEF Pending
<1>6. Cardinality(coll') + lost'[r] + Pending(r)' = sent'[r]
  BY <1>1, <1>2, <1>4, <1>5
<1>7. \A c \in coll' : c.nth + Pending(r)' < sent'[r]
  BY <1>1
<1> QED
  BY <1>3, <1>4, <1>6, <1>7 DEF Counted

(* Its own ping goes on.                                                   *)
LEMMA OwnStepCounts ==
  ASSUME TypeOK, Phases, NEW r \in Run, Step(r), ~Connect(r), Counted(r)
  PROVE  Counted(r)'
<1>1. \A q \in Run : q # r => ~Writes(q)'
  BY NoRevival DEF Counted
<1>2. /\ sent[r] \in Nat /\ lost[r] \in Nat /\ IsFiniteSet(coll) /\ Cardinality(coll) \in Nat
      /\ \A c \in coll : c.nth \in Nat /\ c.nth + Pending(r) < sent[r]
      /\ gen[r] # "dead" => Cardinality(coll) + lost[r] + Pending(r) = sent[r]
  BY FS_CardinalityType DEF TypeOK, Counted
<1>3. CASE Report(r)
  <2> DEFINE c == [run |-> r, nth |-> sent[r] - 1, of |-> got[r]]
  <2>1. /\ gen[r] = "report" /\ gen'[r] = "build" /\ coll' = coll \cup {c}
        /\ sent' = sent /\ lost' = lost
    BY <1>3 DEF Report, TypeOK
  <2>2. Pending(r) = 1 /\ Pending(r)' = 0
    BY <2>1 DEF Pending
  <2>3. Cardinality(coll) + lost[r] + 1 = sent[r]
    BY <1>2, <2>1, <2>2
  <2>4. c \notin coll
    <3>1. ASSUME c \in coll PROVE FALSE
      <4>1. c.nth + 1 < sent[r]
        BY <3>1, <1>2, <2>2
      <4> QED
        BY <4>1, <1>2
    <3> QED
      BY <3>1
  <2>5. IsFiniteSet(coll') /\ Cardinality(coll') = Cardinality(coll) + 1
    BY <1>2, <2>1, <2>4, FS_AddElement
  <2>6. Cardinality(coll') + lost'[r] + Pending(r)' = sent'[r]
    BY <1>2, <2>1, <2>2, <2>3, <2>5
  <2>7. ASSUME NEW d \in coll'
        PROVE  d.nth + Pending(r)' < sent'[r]
    <3>1. CASE d \in coll
      BY <3>1, <1>2, <2>1, <2>2
    <3>2. CASE d = c
      BY <3>2, <1>2, <2>1, <2>2
    <3> QED
      BY <2>1, <3>1, <3>2
  <2> QED
    BY <1>1, <2>5, <2>6, <2>7 DEF Counted
<1>4. CASE Receive(r) \/ Timeout(r)
  <2>1. /\ gen[r] = "wait" /\ coll' = coll /\ sent'[r] = sent[r] + 1
        /\ \/ gen'[r] = "report" /\ lost'[r] = lost[r]
           \/ gen'[r] = "build" /\ lost'[r] = lost[r] + 1
    BY <1>4 DEF Receive, Timeout, TypeOK
  <2>2. Pending(r) = 0 /\ lost'[r] + Pending(r)' = lost[r] + 1 /\ Pending(r)' \in {0, 1} /\ lost'[r] \in Nat
    BY <1>2, <2>1 DEF Pending
  <2>3. Cardinality(coll) + lost[r] = sent[r]
    BY <1>2, <2>1, <2>2
  <2>4. Cardinality(coll') + lost'[r] + Pending(r)' = sent'[r]
    BY <1>2, <2>1, <2>2, <2>3
  <2>5. \A d \in coll' : d.nth + Pending(r)' < sent'[r]
    BY <1>2, <2>1, <2>2
  <2> QED
    BY <1>1, <1>2, <2>1, <2>4, <2>5 DEF Counted
<1>5. CASE ~(Report(r) \/ Receive(r) \/ Timeout(r))
  <2>1. /\ coll' = coll /\ sent' = sent /\ lost' = lost
        /\ gen'[r] = "report" => gen[r] = "report"
        /\ gen'[r] # "dead" => gen[r] # "dead" /\ (gen[r] = "report" => gen'[r] = "report")
    BY <1>5 DEF TypeOK, Step, StartApp, StartPing, At, Abandon, Stops, Stop, Construct, Phases,
       AppEnds, OpenSocket, Send, Finish, Dies, Exit, ping
  <2>2. Pending(r)' \in {0, 1} /\ Pending(r) \in {0, 1} /\ Pending(r)' <= Pending(r)
        /\ (gen'[r] # "dead" => Pending(r)' = Pending(r))
    BY <2>1 DEF Pending
  <2>3. gen'[r] # "dead" => Cardinality(coll') + lost'[r] + Pending(r)' = sent'[r]
    BY <1>2, <2>1, <2>2
  <2>4. \A d \in coll' : d.nth + Pending(r)' < sent'[r]
    BY <1>2, <2>1, <2>2
  <2> QED
    BY <1>1, <1>2, <2>1, <2>3, <2>4 DEF Counted
<1> QED
  BY <1>3, <1>4, <1>5

(* The other runs have nothing to write any more.                          *)
LEMMA OtherStepCounts ==
  ASSUME TypeOK, Phases, NEW r \in Run, NEW x \in Run, x # r, Step(x), ~Connect(x), Counted(r)
  PROVE  Counted(r)'
<1>1. \A q \in Run : q # r => ~Writes(q)'
  BY NoRevival DEF Counted
<1>2. ~Report(x)
  BY DEF Counted, Report, Writes, GenAlive
<1>3. coll' = coll /\ sent'[r] = sent[r] /\ lost'[r] = lost[r] /\ gen'[r] = gen[r]
  BY <1>2 DEF TypeOK, Step, StartApp, StartPing, Abandon, Stops, Stop, Construct, AppEnds,
     OpenSocket, Send, Receive, Timeout, Finish, Dies, Exit, ping
<1> QED
  BY <1>1, <1>3 DEF Counted, Pending

LEMMA StepCount ==
  ASSUME TypeOK, Phases, CountInv, plan' = plan, NEW x \in Run, Step(x)
  PROVE  CountInv'
<1>1. InOrder'
  BY StepOrder DEF CountInv
<1>2. \A r \in Run : gen'[r] = "done" => sent'[r] = Packets(r)'
  BY StepDone DEF CountInv
<1>3. ASSUME NEW r \in Run, Owns(r)'
      PROVE  Counted(r)'
  <2>1. CASE Connect(r)
    BY <1>3, <2>1, ConnectCounts DEF Owns
  <2>2. CASE Connect(x) /\ x # r
    <3>1. pc[x] = "new" /\ pc'[x] = "connected" /\ pc'[r] = pc[r]
      BY <2>2 DEF Connect, At, Goto, TypeOK
    <3>2. x > r \/ x < r
      BY <2>2, PingRunAssumption DEF Run
    <3> QED
      BY <1>3, <3>1, <3>2 DEF Owns, CountInv, InOrder
  <2>3. CASE ~Connect(r) /\ ~Connect(x)
    <3>1. pc'[r] # "new" => pc[r] # "new"
      BY <2>3 DEF TypeOK, Step, StartApp, StartPing, Abandon, Stops, Stop, Construct, AppEnds, Goto,
         At, OpenSocket, Send, Receive, Timeout, Report, Finish, Dies, Exit
    <3>2. \A q \in Run : pc'[q] = "new" => pc[q] = "new"
      BY <2>3 DEF TypeOK, Step, StartApp, StartPing, Abandon, Stops, Stop, Construct, AppEnds, Goto,
         At, OpenSocket, Send, Receive, Timeout, Report, Finish, Dies, Exit
    <3>3. Owns(r)
      BY <1>3, <2>3, <3>1, <3>2, SharedGrows DEF Owns
    <3>4. Counted(r)
      BY <3>3 DEF CountInv
    <3> QED
      BY <2>3, <3>4, OwnStepCounts, OtherStepCounts
  <2> QED
    BY <2>1, <2>2, <2>3
<1> QED
  BY <1>1, <1>2, <1>3 DEF CountInv

LEMMA SameCount ==
  ASSUME CountInv, UNCHANGED <<plan, pc, gen, sent, lost, coll, mixed>>
  PROVE  CountInv'
  BY DEF CountInv, InOrder, Owns, Counted, Pending, Writes, GenAlive, Packets

LEMMA CountIsInvariant == Spec => [](TypeOK /\ Phases /\ CountInv)
<1>1. Init => TypeOK /\ Phases /\ CountInv
  BY InitAnswerInv DEF AnswerInv, Init, CountInv, InOrder, Owns
<1>2. AnswerInv /\ CountInv /\ [Next]_vars => CountInv'
  <2> SUFFICES ASSUME AnswerInv, CountInv, [Next]_vars PROVE CountInv'
    OBVIOUS
  <2>1. CASE UNCHANGED vars
    BY <2>1, SameCount DEF vars, ping, history
  <2>2. CASE Next
    BY <2>2, NextSteps, StepCount, SameCount, ArriveKeeps DEF AnswerInv
  <2> QED
    BY <2>1, <2>2
<1>3. Init => AnswerInv
  BY InitAnswerInv
<1>4. AnswerInv /\ [Next]_vars => AnswerInv'
  BY StepAnswerInv, StutterAnswerInv
<1>5. AnswerInv => TypeOK /\ Phases
  BY DEF AnswerInv
<1> QED
  BY <1>1, <1>2, <1>3, <1>4, <1>5, PTL DEF Spec

(* For any number of runs and packets: when a ping is done, the records of *)
(* the collection and the packets that got no answer in time add up to the *)
(* packets of that ping, unless its run shared the collection in time with *)
(* another one (db.py:18; icmp_ping, lines 85-96).                         *)
THEOREM CountIsRight == Spec => []CountIsAnswered
<1>1. TypeOK /\ Phases /\ CountInv => CountIsAnswered
  <2> SUFFICES ASSUME TypeOK, Phases, CountInv, NEW r \in Run, gen[r] = "done", r \notin mixed,
                      \A q \in Run : q > r => At(q, "new")
               PROVE  Count + lost[r] = Packets(r)
    BY DEF CountIsAnswered
  <2>1. Owns(r)
    BY DEF Owns, At, Phases
  <2>2. /\ IsFiniteSet(coll) /\ Cardinality(coll) + lost[r] + 0 = sent[r]
        /\ sent[r] = Packets(r)
    BY <2>1 DEF CountInv, Counted, Pending
  <2>3. Cardinality(coll) \in Nat /\ lost[r] \in Nat
    BY <2>2, FS_CardinalityType DEF TypeOK
  <2> QED
    BY <2>2, <2>3 DEF Count
<1> QED
  BY <1>1, CountIsInvariant, PTL

-----------------------------------------------------------------------------
(* The flow graph.  The ends that a frame read from tunnel interface k can *)
(* get to are closed under the connections, and so under the ways; and     *)
(* the way to the other interface is put together step by step.            *)

(* What S has the connections of R do not leave.                           *)
Closed(R, S) == \A c \in R : c[1] \in S => c[2] \in S

LEMMA TwiceClosed ==
  ASSUME NEW R, NEW S, Closed(R, S)
  PROVE  Closed(Twice(R), S)
<1> SUFFICES ASSUME NEW c \in Twice(R), c[1] \in S
             PROVE  c[2] \in S
  BY DEF Closed
<1>1. CASE c \in R
  BY <1>1 DEF Closed
<1>2. CASE \E p \in R \X R : p[1][2] = p[2][1] /\ c = <<p[1][1], p[2][2]>>
  <2>1. PICK d \in R, e \in R : d[2] = e[1] /\ c = <<d[1], e[2]>>
    BY <1>2
  <2> QED
    BY <2>1 DEF Closed
<1> QED
  BY <1>1, <1>2 DEF Twice

LEMMA TwiceJoins ==
  ASSUME NEW R, NEW a, NEW b, NEW c, <<a, b>> \in R, <<b, c>> \in R
  PROVE  <<a, c>> \in Twice(R)
<1>1. <<<<a, b>>, <<b, c>>>> \in {q \in R \X R : q[1][2] = q[2][1]}
  OBVIOUS
<1> QED
  BY <1>1 DEF Twice

LEMMA TwiceKeeps ==
  ASSUME NEW R
  PROVE  R \subseteq Twice(R)
BY DEF Twice

(* The ends on the way of a frame from tunnel interface k.                 *)
WayFrom(k) ==
  {<<k, "dev", "out">>, <<k, "to_phy", "in">>, <<k, "to_phy", "out">>, <<k, "hb", "out">>,
   <<k, "bytes", "in">>, <<k, "air", "out">>, <<1 - k, "air", "in">>, <<1 - k, "bytes", "out">>,
   <<1 - k, "hb", "in">>, <<1 - k, "from_phy", "in">>, <<1 - k, "from_phy", "out">>,
   <<1 - k, "to_pdu", "in">>, <<1 - k, "to_pdu", "out">>, <<1 - k, "dev", "in">>}
  \cup {e \in {<<0, "channel", "in">>, <<0, "channel", "out">>} : k = 0}

LEMMA GraphParts ==
  ASSUME NEW k \in Side
  PROVE  Wires \cup Through \cup InterfaceBlock(k) \subseteq Graph
BY DEF Graph

LEMMA WireKinds ==
  /\ \A j \in Side : /\ <<<<j, "hb", "out">>, <<j, "bytes", "in">>>> \in Wires
                     /\ <<<<j, "bytes", "out">>, <<j, "hb", "in">>>> \in Wires
  /\ <<<<0, "air", "out">>, <<0, "channel", "in">>>> \in Wires
  /\ <<<<0, "channel", "out">>, <<1, "air", "in">>>> \in Wires
  /\ <<<<1, "air", "out">>, <<0, "air", "in">>>> \in Wires
  /\ \A c \in Wires :
       \/ \E j \in Side : \/ c = <<<<j, "hb", "out">>, <<j, "bytes", "in">>>>
                         \/ c = <<<<j, "bytes", "out">>, <<j, "hb", "in">>>>
       \/ c = <<<<0, "air", "out">>, <<0, "channel", "in">>>>
       \/ c = <<<<0, "channel", "out">>, <<1, "air", "in">>>>
       \/ c = <<<<1, "air", "out">>, <<0, "air", "in">>>>
<1> DEFINE Ours  == UNION {{<<<<k, "hb", "out">>, <<k, "bytes", "in">>>>,
                            <<<<k, "bytes", "out">>, <<k, "hb", "in">>>>} : k \in Side}
           Theirs == {<<<<0, "air", "out">>, <<0, "channel", "in">>>>,
                      <<<<0, "channel", "out">>, <<1, "air", "in">>>>,
                      <<<<1, "air", "out">>, <<0, "air", "in">>>>}
<1>1. Wires = Ours \cup Theirs
  BY DEF Wires
<1>2. \A j \in Side : /\ <<<<j, "hb", "out">>, <<j, "bytes", "in">>>> \in Ours
                     /\ <<<<j, "bytes", "out">>, <<j, "hb", "in">>>> \in Ours
  OBVIOUS
<1>3. \A c \in Ours :
        \E j \in Side : \/ c = <<<<j, "hb", "out">>, <<j, "bytes", "in">>>>
                        \/ c = <<<<j, "bytes", "out">>, <<j, "hb", "in">>>>
  OBVIOUS
<1>4. /\ <<<<0, "air", "out">>, <<0, "channel", "in">>>> \in Theirs
      /\ <<<<0, "channel", "out">>, <<1, "air", "in">>>> \in Theirs
      /\ <<<<1, "air", "out">>, <<0, "air", "in">>>> \in Theirs
      /\ \A c \in Theirs : \/ c = <<<<0, "air", "out">>, <<0, "channel", "in">>>>
                           \/ c = <<<<0, "channel", "out">>, <<1, "air", "in">>>>
                           \/ c = <<<<1, "air", "out">>, <<0, "air", "in">>>>
  OBVIOUS
<1> HIDE DEF Ours, Theirs
<1>5. \A c \in Wires : c \in Ours \/ c \in Theirs
  BY <1>1
<1>6. Ours \subseteq Wires /\ Theirs \subseteq Wires
  BY <1>1
<1> QED
  BY <1>2, <1>3, <1>4, <1>5, <1>6, ZenonT(30)

LEMMA InterfaceKinds ==
  ASSUME NEW j \in Side
  PROVE  InterfaceBlock(j) = {<<<<j, "to_phy", "out">>, <<j, "hb", "out">>>>,
                              <<<<j, "hb", "in">>, <<j, "from_phy", "in">>>>,
                              <<<<j, "from_phy", "out">>, <<j, "to_pdu", "in">>>>,
                              <<<<j, "dev", "out">>, <<j, "to_phy", "in">>>>,
                              <<<<j, "to_pdu", "out">>, <<j, "dev", "in">>>>}
<1>1. Streams \cup Messages = {<<"to_phy", "hb">>, <<"hb", "from_phy">>, <<"from_phy", "to_pdu">>,
                               <<"dev", "to_phy">>, <<"to_pdu", "dev">>}
  BY DEF Streams, Messages
<1>2. InterfaceBlock(j) = {<<Source(j, c[1]), Sink(j, c[2])>> :
                             c \in {<<"to_phy", "hb">>, <<"hb", "from_phy">>, <<"from_phy", "to_pdu">>,
                                    <<"dev", "to_phy">>, <<"to_pdu", "dev">>}}
  BY <1>1 DEF InterfaceBlock
<1>3. /\ <<Source(j, "to_phy"), Sink(j, "hb")>> = <<<<j, "to_phy", "out">>, <<j, "hb", "out">>>>
      /\ <<Source(j, "hb"), Sink(j, "from_phy")>> = <<<<j, "hb", "in">>, <<j, "from_phy", "in">>>>
      /\ <<Source(j, "from_phy"), Sink(j, "to_pdu")>> = <<<<j, "from_phy", "out">>, <<j, "to_pdu", "in">>>>
      /\ <<Source(j, "dev"), Sink(j, "to_phy")>> = <<<<j, "dev", "out">>, <<j, "to_phy", "in">>>>
      /\ <<Source(j, "to_pdu"), Sink(j, "dev")>> = <<<<j, "to_pdu", "out">>, <<j, "dev", "in">>>>
  BY DEF Source, Sink
<1> QED
  BY <1>2, <1>3

LEMMA WiresClosed ==
  ASSUME NEW k \in Side
  PROVE  Closed(Wires, WayFrom(k))
<1>1. CASE k = 0
  BY <1>1, WireKinds DEF Closed, WayFrom, Side
<1>2. CASE k = 1
  BY <1>2, WireKinds DEF Closed, WayFrom, Side
<1> QED
  BY <1>1, <1>2 DEF Side

LEMMA ThroughClosed ==
  ASSUME NEW k \in Side
  PROVE  Closed(Through, WayFrom(k))
<1>1. \A c \in Through : \E j \in Side :
        \/ \E b \in {"from_phy", "to_phy", "to_pdu", "channel"} : c = <<<<j, b, "in">>, <<j, b, "out">>>>
        \/ c = <<<<j, "bytes", "in">>, <<j, "air", "out">>>>
        \/ c = <<<<j, "air", "in">>, <<j, "bytes", "out">>>>
  BY DEF Through
<1>2. CASE k = 0
  BY <1>1, <1>2 DEF Closed, WayFrom, Side
<1>3. CASE k = 1
  BY <1>1, <1>3 DEF Closed, WayFrom, Side
<1> QED
  BY <1>2, <1>3 DEF Side

LEMMA InterfaceClosed ==
  ASSUME NEW k \in Side, NEW j \in Side
  PROVE  Closed(InterfaceBlock(j), WayFrom(k))
<1>1. \A c \in InterfaceBlock(j) :
        \/ c = <<<<j, "to_phy", "out">>, <<j, "hb", "out">>>>
        \/ c = <<<<j, "hb", "in">>, <<j, "from_phy", "in">>>>
        \/ c = <<<<j, "from_phy", "out">>, <<j, "to_pdu", "in">>>>
        \/ c = <<<<j, "dev", "out">>, <<j, "to_phy", "in">>>>
        \/ c = <<<<j, "to_pdu", "out">>, <<j, "dev", "in">>>>
  BY InterfaceKinds
<1>2. CASE k = 0
  BY <1>1, <1>2 DEF Closed, WayFrom, Side
<1>3. CASE k = 1
  BY <1>1, <1>3 DEF Closed, WayFrom, Side
<1> QED
  BY <1>2, <1>3 DEF Side

LEMMA WaysClosed ==
  ASSUME NEW k \in Side
  PROVE  Closed(Ways, WayFrom(k))
<1>1. Closed(Graph, WayFrom(k))
  BY WiresClosed, ThroughClosed, InterfaceClosed DEF Graph, Closed
<1> QED
  BY <1>1, TwiceClosed DEF Ways

(* The ways of at most 2, 4, 8, 16 and 32 steps there.                     *)
LEMMA WayThere ==
  ASSUME NEW k \in Side
  PROVE  <<<<k, "dev", "out">>, <<1 - k, "dev", "in">>>> \in Ways
<1> DEFINE G1 == Twice(Graph)  G2 == Twice(G1)  G3 == Twice(G2)  G4 == Twice(G3)
           a == <<k, "dev", "out">>        b == <<k, "to_phy", "out">>
           c == <<k, "bytes", "in">>       d == <<1 - k, "air", "in">>
           e == <<1 - k, "hb", "in">>      f == <<1 - k, "from_phy", "out">>
           g == <<1 - k, "to_pdu", "out">> h == <<1 - k, "dev", "in">>
<1>a. 1 - k \in Side
  BY DEF Side
<1>1. <<a, <<k, "to_phy", "in">>>> \in Graph /\ <<<<k, "to_phy", "in">>, b>> \in Graph
  <2>1. <<a, <<k, "to_phy", "in">>>> \in InterfaceBlock(k)
    BY <1>a, InterfaceKinds
  <2>2. <<<<k, "to_phy", "in">>, b>> \in Through
    BY DEF Through
  <2> QED
    BY <2>1, <2>2, <1>a, GraphParts
<1>2. <<b, <<k, "hb", "out">>>> \in Graph /\ <<<<k, "hb", "out">>, c>> \in Graph
  <2>1. <<b, <<k, "hb", "out">>>> \in InterfaceBlock(k)
    BY <1>a, InterfaceKinds
  <2>2. <<<<k, "hb", "out">>, c>> \in Wires
    BY WireKinds
  <2> QED
    BY <2>1, <2>2, <1>a, GraphParts
<1>3. <<c, <<k, "air", "out">>>> \in Graph
  <2>1. <<c, <<k, "air", "out">>>> \in Through
    BY DEF Through
  <2> QED
    BY <2>1, GraphParts
<1>4. <<<<k, "air", "out">>, d>> \in G2
  <2>1. CASE k = 0
    <3>1. /\ <<<<0, "air", "out">>, <<0, "channel", "in">>>> \in Wires
          /\ <<<<0, "channel", "in">>, <<0, "channel", "out">>>> \in Through
          /\ <<<<0, "channel", "out">>, <<1, "air", "in">>>> \in Wires
      BY WireKinds DEF Through, Side
    <3>2. /\ <<<<0, "air", "out">>, <<0, "channel", "out">>>> \in G1
          /\ <<<<0, "channel", "out">>, <<1, "air", "in">>>> \in G1
      BY <3>1, GraphParts, TwiceJoins, TwiceKeeps
    <3> QED
      BY <2>1, <3>2, TwiceJoins
  <2>2. CASE k = 1
    <3>1. <<<<1, "air", "out">>, <<0, "air", "in">>>> \in Graph
      BY GraphParts, WireKinds DEF Side
    <3> QED
      BY <2>2, <3>1, TwiceKeeps
  <2> QED
    BY <2>1, <2>2 DEF Side
<1>5. <<d, <<1 - k, "bytes", "out">>>> \in Graph /\ <<<<1 - k, "bytes", "out">>, e>> \in Graph
  <2>1. <<d, <<1 - k, "bytes", "out">>>> \in Through
    BY <1>a DEF Through
  <2>2. <<<<1 - k, "bytes", "out">>, e>> \in Wires
    BY <1>a, WireKinds
  <2> QED
    BY <2>1, <2>2, <1>a, GraphParts
<1>6. <<e, <<1 - k, "from_phy", "in">>>> \in Graph /\ <<<<1 - k, "from_phy", "in">>, f>> \in Graph
  <2>1. <<e, <<1 - k, "from_phy", "in">>>> \in InterfaceBlock(1 - k)
    BY <1>a, InterfaceKinds
  <2>2. <<<<1 - k, "from_phy", "in">>, f>> \in Through
    BY <1>a DEF Through
  <2> QED
    BY <1>a, <2>1, <2>2, GraphParts
<1>7. <<f, <<1 - k, "to_pdu", "in">>>> \in Graph /\ <<<<1 - k, "to_pdu", "in">>, g>> \in Graph
  <2>1. <<f, <<1 - k, "to_pdu", "in">>>> \in InterfaceBlock(1 - k)
    BY <1>a, InterfaceKinds
  <2>2. <<<<1 - k, "to_pdu", "in">>, g>> \in Through
    BY <1>a DEF Through
  <2> QED
    BY <1>a, <2>1, <2>2, GraphParts
<1>8. <<g, h>> \in Graph
  <2>1. <<g, h>> \in InterfaceBlock(1 - k)
    BY <1>a, InterfaceKinds
  <2> QED
    BY <1>a, <2>1, GraphParts
<1>9. <<a, b>> \in G1 /\ <<b, c>> \in G1 /\ <<c, <<k, "air", "out">>>> \in G1
      /\ <<d, e>> \in G1 /\ <<e, f>> \in G1 /\ <<f, g>> \in G1 /\ <<g, h>> \in G1
  BY <1>1, <1>2, <1>3, <1>5, <1>6, <1>7, <1>8, TwiceJoins, TwiceKeeps
<1> HIDE DEF a, b, c, d, e, f, g, h, G1
<1>10. /\ <<a, c>> \in G2 /\ <<c, <<k, "air", "out">>>> \in G2 /\ <<<<k, "air", "out">>, d>> \in G2
       /\ <<d, f>> \in G2 /\ <<f, h>> \in G2
  BY <1>4, <1>9, TwiceJoins, TwiceKeeps
<1> HIDE DEF G2
<1>11. /\ <<a, c>> \in G3 /\ <<c, d>> \in G3 /\ <<d, h>> \in G3
  BY <1>10, TwiceJoins, TwiceKeeps
<1> HIDE DEF G3
<1>12. /\ <<a, d>> \in G4 /\ <<d, h>> \in G4
  BY <1>11, TwiceJoins, TwiceKeeps
<1> HIDE DEF G4
<1>13. <<a, h>> \in Twice(G4)
  BY <1>12, TwiceJoins
<1> QED
  BY <1>13 DEF Ways, G1, G2, G3, G4, a, h

LEMMA CrosswiseWiring == \A k \in Side : LeadsTo[k] = {1 - k}
<1> SUFFICES ASSUME NEW k \in Side
             PROVE  LeadsTo[k] = {1 - k}
  OBVIOUS
<1>1. 1 - k \in LeadsTo[k]
  BY WayThere DEF LeadsTo, Source, Sink, Side
<1>2. <<k, "dev", "in">> \notin WayFrom(k)
  BY DEF WayFrom, Side
<1>3. <<k, "dev", "out">> \in WayFrom(k)
  BY DEF WayFrom
<1>4. k \notin LeadsTo[k]
  BY <1>2, <1>3, WaysClosed DEF LeadsTo, Source, Sink, Closed
<1> QED
  BY <1>1, <1>4 DEF LeadsTo, Side

(* What the full duplex application reads from one tunnel interface it     *)
(* writes to the other one and nowhere else: tap_io connects the ports of  *)
(* a hierarchical block from the inside (testbed_io.py:57-104), wire_it    *)
(* crosses the air (sim.py:124-142).                                       *)
THEOREM TunnelsAreCrossed == Spec => []Crosswise
<1>1. Crosswise
  BY CrosswiseWiring DEF Crosswise
<1> QED
  BY <1>1, PTL

-----------------------------------------------------------------------------
(* A ping runs out of packets.                                             *)

SeqBounded == \A r \in Run : Limited(r) => seq[r] <= Packets(r)

(* A run that stays where it is has as much left, one that goes on less.   *)
LEMMA LeftStays ==
  ASSUME TypeOK, SeqBounded, plan' = plan, NEW r \in Run, Limited(r),
         gen'[r] = gen[r], seq'[r] = seq[r]
  PROVE  Left(r)' \in Nat /\ Left(r)' = Left(r) /\ seq'[r] <= Packets(r)'
<1>1. /\ Packets(r)' = Packets(r) /\ Packets(r) \in Nat
      /\ seq[r] \in Nat /\ seq[r] <= Packets(r)
  BY PlanType, SpaceKept DEF TypeOK, SeqBounded
<1>2. gen[r] \in {"done", "dead"} \/ Stage[gen[r]] \in Nat
  BY DEF TypeOK, Stage
<1>3. Left(r)' = Left(r)
  BY <1>1 DEF Left
<1>4. Left(r) \in Nat
  BY <1>1, <1>2 DEF Left
<1> QED
  BY <1>1, <1>3, <1>4

LEMMA LeftFalls ==
  ASSUME TypeOK, Phases, Lockstep, SeqBounded, plan' = plan, NEW r \in Run, Limited(r),
         Step(r), gen'[r] # gen[r]
  PROVE  Left(r)' \in Nat /\ Left(r)' < Left(r) /\ seq'[r] <= Packets(r)'
<1>1. /\ Packets(r)' = Packets(r) /\ Packets(r) \in Nat
      /\ seq[r] \in Nat /\ seq[r] <= Packets(r)
  BY PlanType, SpaceKept DEF TypeOK, SeqBounded
<1>2. CASE Connect(r) \/ StartApp(r) \/ Abandon(r) \/ Stops(r) \/ Construct(r) \/ AppEnds(r)
  BY <1>2 DEF Connect, StartApp, Abandon, Stops, Stop, Construct, AppEnds, ping
<1>3. CASE StartPing(r)
  <2>1. gen[r] = "unborn" /\ gen'[r] = "boot" /\ seq'[r] = seq[r]
    BY <1>3 DEF StartPing, At, Phases, TypeOK
  <2> QED
    BY <1>1, <2>1 DEF Left, Stage
<1>4. CASE OpenSocket(r)
  <2>1. gen[r] = "boot" /\ gen'[r] = "build" /\ seq'[r] = seq[r]
    BY <1>4 DEF OpenSocket, TypeOK
  <2> QED
    BY <1>1, <2>1 DEF Left, Stage
<1>5. CASE Send(r)
  <2>1. /\ gen[r] = "build" /\ gen'[r] = "wait" /\ seq'[r] = seq[r] + 1
        /\ seq[r] < Packets(r)
    BY <1>5 DEF Send, More, Lockstep, TypeOK
  <2> QED
    BY <1>1, <2>1 DEF Left, Stage
<1>6. CASE Receive(r)
  <2>1. gen[r] = "wait" /\ gen'[r] = "report" /\ seq'[r] = seq[r]
    BY <1>6 DEF Receive, TypeOK
  <2> QED
    BY <1>1, <2>1 DEF Left, Stage
<1>7. CASE Timeout(r)
  <2>1. gen[r] = "wait" /\ gen'[r] = "build" /\ seq'[r] = seq[r]
    BY <1>7 DEF Timeout, TypeOK
  <2> QED
    BY <1>1, <2>1 DEF Left, Stage
<1>8. CASE Report(r)
  <2>1. gen[r] = "report" /\ gen'[r] = "build" /\ seq'[r] = seq[r]
    BY <1>8 DEF Report, TypeOK
  <2> QED
    BY <1>1, <2>1 DEF Left, Stage
<1>9. CASE Finish(r) \/ Dies(r)
  <2>1. /\ gen[r] \in {"boot", "build", "wait", "report"} /\ gen'[r] \in {"done", "dead"}
        /\ seq'[r] = seq[r]
    BY <1>9 DEF Finish, Dies, GenAlive, Exit, TypeOK
  <2>2. Left(r)' = 0
    BY <2>1 DEF Left
  <2>3. Left(r) = 3 * (Packets(r) - seq[r]) + Stage[gen[r]] /\ Stage[gen[r]] \in Nat \ {0}
    BY <2>1 DEF Left, Stage
  <2> QED
    BY <1>1, <2>1, <2>2, <2>3
<1> QED
  BY <1>2, <1>3, <1>4, <1>5, <1>6, <1>7, <1>8, <1>9 DEF Step

(* A step is of one run only.                                              *)
LEMMA OthersWait ==
  ASSUME TypeOK, NEW r \in Run, Step(r), NEW q \in Run, q # r
  PROVE  gen'[q] = gen[q] /\ seq'[q] = seq[q]
<1>1. CASE Connect(r) \/ StartApp(r) \/ Abandon(r) \/ Stops(r) \/ Construct(r) \/ AppEnds(r)
  BY <1>1 DEF Connect, StartApp, Abandon, Stops, Stop, Construct, AppEnds, ping
<1>2. CASE StartPing(r) \/ OpenSocket(r) \/ Send(r) \/ Receive(r)
  BY <1>2 DEF TypeOK, StartPing, OpenSocket, Send, Receive
<1>3. CASE Timeout(r) \/ Report(r) \/ Finish(r) \/ Dies(r)
  BY <1>3 DEF TypeOK, Timeout, Report, Finish, Dies, Exit
<1> QED
  BY <1>1, <1>2, <1>3 DEF Step

LEMMA StaysInStep ==
  ASSUME TypeOK, NEW r \in Run, Step(r), gen'[r] = gen[r]
  PROVE  seq'[r] = seq[r]
<1>1. CASE Connect(r) \/ StartApp(r) \/ Abandon(r) \/ Stops(r) \/ Construct(r) \/ AppEnds(r)
  BY <1>1 DEF Connect, StartApp, Abandon, Stops, Stop, Construct, AppEnds, ping
<1>2. CASE StartPing(r) \/ OpenSocket(r) \/ Send(r) \/ Receive(r)
  BY <1>2 DEF TypeOK, StartPing, OpenSocket, Send, Receive
<1>3. CASE Timeout(r) \/ Report(r) \/ Finish(r) \/ Dies(r)
  BY <1>3 DEF TypeOK, Timeout, Report, Finish, Dies, Exit
<1> QED
  BY <1>1, <1>2, <1>3 DEF Step

RunsOut(r) ==
  Limited(r) =>
    /\ Left(r)' \in Nat /\ Left(r)' <= Left(r)
    /\ gen'[r] # gen[r] => Left(r)' < Left(r)

Within(r) == Limited(r) => seq[r] <= Packets(r)

LEMMA StepRunsOut ==
  ASSUME AnswerInv, SeqBounded, [Next]_vars
  PROVE  SeqBounded' /\ \A r \in Run : RunsOut(r)
<1>0. TypeOK /\ Phases /\ Lockstep
  BY DEF AnswerInv
<1>1. ASSUME plan' = plan, NEW q \in Run, gen'[q] = gen[q], seq'[q] = seq[q]
      PROVE  Within(q)' /\ RunsOut(q)
  <2>1. CASE Limited(q)
    BY <1>0, <1>1, <2>1, LeftStays DEF RunsOut, Within
  <2>2. CASE ~Limited(q)
    BY <1>1, <2>2 DEF RunsOut, Within, Limited, Packets
  <2> QED
    BY <2>1, <2>2
<1>2. CASE Next
  <2>1. plan' = plan /\ (Arrive \/ \E r \in Run : Step(r))
    BY <1>2, NextSteps
  <2>2. CASE Arrive
    BY <1>1, <2>1, <2>2 DEF Arrive, SeqBounded, Within
  <2>3. ASSUME NEW r \in Run, Step(r), NEW q \in Run
        PROVE  Within(q)' /\ RunsOut(q)
    <3>1. CASE q # r
      BY <1>0, <1>1, <2>1, <2>3, <3>1, OthersWait
    <3>2. CASE q = r /\ gen'[r] = gen[r]
      BY <1>0, <1>1, <2>1, <2>3, <3>2, StaysInStep
    <3>3. CASE q = r /\ gen'[r] # gen[r] /\ Limited(r)
      <4>1. Left(r)' \in Nat /\ Left(r)' < Left(r) /\ seq'[r] <= Packets(r)'
        BY <1>0, <2>1, <2>3, <3>3, LeftFalls
      <4>2. Left(r) \in Int
        <5>1. Packets(r) \in Nat /\ seq[r] \in Nat
          BY <1>0, <3>3, PlanType DEF TypeOK
        <5>2. gen[r] \in {"done", "dead"} \/ Stage[gen[r]] \in Nat
          BY <1>0 DEF TypeOK, Stage
        <5> QED
          BY <5>1, <5>2 DEF Left
      <4>3. Left(q)' = Left(r)' /\ Left(q) = Left(r) /\ (Within(q)' <=> Within(r)')
        BY <3>3
      <4>4. Within(r)'
        BY <4>1 DEF Within
      <4> HIDE DEF Left, Within
      <4> QED
        BY <4>1, <4>2, <4>3, <4>4 DEF RunsOut
    <3>4. CASE q = r /\ ~Limited(r)
      BY <2>1, <3>4 DEF RunsOut, Within, Limited, Packets
    <3> QED
      BY <3>1, <3>2, <3>3, <3>4
  <2> QED
    BY <2>1, <2>2, <2>3 DEF SeqBounded, Within
<1>3. CASE UNCHANGED vars
  BY <1>1, <1>3 DEF vars, ping, SeqBounded, Within
<1> QED
  BY <1>2, <1>3

(* A ping with a number of packets takes three steps at most for each of   *)
(* them, and three to begin and end: for any number of packets, size of    *)
(* the header's field and runs beside it, and however many answers are     *)
(* lost, late or another's (icmp_ping, lines 84-95).                       *)
THEOREM PingsRunOut == Spec => PingRunsOut
<1>1. Init => AnswerInv /\ SeqBounded
  BY InitAnswerInv, PlanType DEF Init, AnswerInv, SeqBounded
<1>2. AnswerInv /\ SeqBounded /\ [Next]_vars => AnswerInv' /\ SeqBounded'
  BY StepAnswerInv, StutterAnswerInv, StepRunsOut
<1>3. AnswerInv /\ SeqBounded /\ [Next]_vars =>
        [\A r \in Run : Limited(r) =>
           /\ Left(r)' \in Nat /\ Left(r)' <= Left(r)
           /\ gen'[r] # gen[r] => Left(r)' < Left(r)]_vars
  BY StepRunsOut DEF RunsOut
<1> QED
  BY <1>1, <1>2, <1>3, PTL DEF Spec, PingRunsOut

=============================================================================
