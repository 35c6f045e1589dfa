------------------------------- MODULE RunApp -------------------------------
(***************************************************************************)
(* One run of an application: run_app (testbed/run.py) in the process of   *)
(* `dtl_env run` or of a test, the processes it forks with                 *)
(* multiprocessing, and the signals between them.                          *)
(*                                                                         *)
(*   mon   monitoring.start_collect_batch      app  app.run                *)
(*   gen   the traffic generator               snf  the traffic sniffer    *)
(*                                                                         *)
(*   flow       the configuration of the run, fixed from the start         *)
(*   pc         where the controller is                                    *)
(*   handle[c]  its local variable <c>_process: not assigned yet, None, or *)
(*              a Process                                                  *)
(*   child[c]   the process: it boots, arms its signal handlers (app only),*)
(*              runs, and is a zombie from its end until it is waited for  *)
(*   sig[c]     the signals sent to it that it has not acted on            *)
(*   end        how run_app ended                                          *)
(*   ints       how often Ctrl-C has been pressed                          *)
(*   missed     the children that outlived a signal         (history)      *)
(*                                                                         *)
(* Time does not pass in the model: a sleep takes as long as it likes.     *)
(***************************************************************************)
EXTENDS Naturals

CONSTANTS
  Flows,          \* the configurations considered, a subset of Flow
  Mortal,         \* the children that may end by themselves (an exception)
  DbFails,        \* TRUE if the database may refuse a request of run_app
  MaxInterrupts   \* a bound on ints

Child == {"mon", "app", "gen", "snf"}

(* db, probe: monitor_db and monitor_probe are configured.  stop: "json"   *)
(* is whatever json.loads makes of a stop condition, which is no member of *)
(* the enumeration.  gen, sniff: "bad" lacks an entry, or names a          *)
(* generator or a report that testbed.traffic does not have.  gen: "none"  *)
(* is no traffic at all, "ping" icmp_ping with a number of packets,        *)
(* "endless" the other ones.                                               *)
Flow == [db : BOOLEAN, probe : BOOLEAN, named : BOOLEAN, stop : {"app", "traffic", "json"},
         gen : {"none", "bad", "ping", "endless"}, sniff : {"none", "bad", "good"},
         cpu : BOOLEAN]

ASSUME RunAppAssumption ==
  /\ Flows \subseteq Flow
  /\ Mortal \subseteq Child
  /\ DbFails \in BOOLEAN
  /\ MaxInterrupts \in Nat

VARIABLES flow, pc, handle, child, sig, end, ints, missed

vars == <<flow, pc, handle, child, sig, end, ints, missed>>

(* The controller outside, inside and after the try of run_app; "exit" is  *)
(* the interpreter's wait for the children that are left.                  *)
Before  == {"connect", "forkmon", "setmon"}
Try     == {"configure", "forkapp", "setapp", "nogen", "nosnf", "traffic", "setgen",
            "sniffer", "setsnf", "watch", "loop"}
Handler == {"termmon", "termapp", "termgen", "termsnf", "linger"}
Labels  == Before \cup Try \cup Handler \cup {"exit", "gone"}

Life == {"unborn", "boot", "armed", "running", "zombie", "reaped"}

Alive(c) == child[c] \in {"boot", "armed", "running"}

Dead(c) == child[c] \in {"zombie", "reaped"}

(* Well typed, and a Process that a variable holds has been started.       *)
TypeOK ==
  /\ flow \in Flows
  /\ pc \in Labels
  /\ handle \in [Child -> {"unbound", "none", "set"}]
  /\ child \in [Child -> Life]
  /\ sig \in [Child -> SUBSET {"INT", "TERM"}]
  /\ end \in {"", "stopped", "failed", "raised", "unbound"}
  /\ ints \in 0 .. MaxInterrupts
  /\ missed \subseteq Child
  /\ \A c \in Child : handle[c] = "set" => child[c] # "unborn"

Init ==
  /\ flow \in Flows
  /\ pc = "connect"
  /\ handle = [c \in Child |-> IF c = "mon" THEN "none" ELSE "unbound"]
  /\ child = [c \in Child |-> "unborn"]
  /\ sig = [c \in Child |-> {}]
  /\ end = ""
  /\ ints = 0
  /\ missed = {}

-----------------------------------------------------------------------------
(* Steps of the controller.                                                *)

At(l) == pc = l

Goto(l) == pc' = l /\ UNCHANGED end

Leave(e) == pc' = "exit" /\ end' = e

(* Process.start waits for the children that have ended before it forks.   *)
Reaped == [c \in Child |-> IF child[c] = "zombie" THEN "reaped" ELSE child[c]]

Fork(c) ==
  /\ child' = [Reaped EXCEPT ![c] = "boot"]
  /\ UNCHANGED <<handle, sig, missed>>

(* The handle is assigned after the fork.                                  *)
Assign(c, h) ==
  /\ handle' = [handle EXCEPT ![c] = h]
  /\ UNCHANGED <<child, sig, missed>>

OnlyMain == UNCHANGED <<handle, child, sig, missed>>

HasMonitor == flow.db /\ flow.probe

Connect ==
  /\ At("connect")
  /\ OnlyMain
  /\ \/ ~HasMonitor /\ Goto("configure")
     \/ HasMonitor /\ Goto("forkmon")
     \/ flow.db /\ DbFails /\ Leave("raised")

StartMonitor == At("forkmon") /\ Fork("mon") /\ Goto("setmon")

SetMonitor == At("setmon") /\ Assign("mon", "set") /\ Goto("configure")

(* cfg["name"] is a KeyError for a run without a name.                     *)
Configure ==
  /\ At("configure")
  /\ OnlyMain
  /\ IF flow.named THEN Goto("forkapp") ELSE Leave("failed")

StartApp == At("forkapp") /\ Fork("app") /\ Goto("setapp")

SetApp == At("setapp") /\ Assign("app", "set") /\ Goto("nogen")

NoGenerator == At("nogen") /\ Assign("gen", "none") /\ Goto("nosnf")

NoSniffer == At("nosnf") /\ Assign("snf", "none") /\ Goto("traffic")

(* Mutant of StartGenerator: the process is made and not started.          *)
MakeGenerator ==
  /\ At("traffic")
  /\ \/ flow.gen = "none" /\ OnlyMain /\ Goto("watch")
     \/ flow.gen = "bad" /\ OnlyMain /\ Leave("failed")
     \/ flow.gen \in {"ping", "endless"} /\ OnlyMain /\ Goto("setgen")

StartGenerator ==
  /\ At("traffic")
  /\ \/ flow.gen = "none" /\ OnlyMain /\ Goto("watch")
     \/ flow.gen = "bad" /\ OnlyMain /\ Leave("failed")
     \/ flow.gen \in {"ping", "endless"} /\ Fork("gen") /\ Goto("setgen")

SetGenerator == At("setgen") /\ Assign("gen", "set") /\ Goto("sniffer")

StartSniffer ==
  /\ At("sniffer")
  /\ \/ flow.sniff = "none" /\ OnlyMain /\ Goto("watch")
     \/ flow.sniff = "bad" /\ OnlyMain /\ Leave("failed")
     \/ flow.sniff = "good" /\ Fork("snf") /\ Goto("setsnf")

(* Mutant of SetSniffer: the handle is dropped.                            *)
DropSniffer == At("setsnf") /\ OnlyMain /\ Goto("watch")

SetSniffer == At("setsnf") /\ Assign("snf", "set") /\ Goto("watch")

(* Mutant of Watch: it wants a sniffer too.                                *)
WatchSniffer ==
  /\ At("watch")
  /\ OnlyMain
  /\ IF handle["mon"] = "none" \/ handle["snf"] = "none"
     THEN Goto("termmon") ELSE Goto("loop")

(* psutil.Process raises for a process that has been waited for, and so    *)
(* does monitor_process.pid when there is no monitor: both end the run.    *)
Watch ==
  /\ At("watch")
  /\ OnlyMain
  /\ IF handle["mon"] = "none" \/ child["app"] = "reaped" \/ child["mon"] = "reaped"
     THEN Goto("termmon") ELSE Goto("loop")

(* Mutant of StopDue: the traffic is watched as the application is.        *)
StopDueReaped ==
  \/ flow.stop = "app" /\ child["app"] = "reaped"
  \/ flow.stop = "traffic" /\ handle["gen"] = "set" /\ child["gen"] = "reaped"

(* A zombie counts as running for psutil's is_running and not for          *)
(* multiprocessing's is_alive, which waits for it.                         *)
StopDue ==
  \/ flow.stop = "app" /\ child["app"] = "reaped"
  \/ flow.stop = "traffic" /\ handle["gen"] = "set" /\ Dead("gen")

CheckStop ==
  /\ At("loop")
  /\ StopDue
  /\ Goto("termmon")
  /\ child' = [child EXCEPT !["gen"] = IF flow.stop = "traffic" THEN "reaped" ELSE @]
  /\ UNCHANGED <<handle, sig, missed>>

(* None has no is_alive; the write of the CPU load may fail.               *)
LoopFails ==
  /\ At("loop")
  /\ \/ flow.stop = "traffic" /\ handle["gen"] = "none"
     \/ flow.cpu /\ DbFails
  /\ OnlyMain
  /\ Leave("failed")

(* `if <c>_process and <c>_process.is_alive(): <c>_process.terminate()`.   *)
Terminate(c, next) ==
  /\ UNCHANGED <<handle, missed>>
  /\ \/ handle[c] = "unbound" /\ Leave("unbound") /\ UNCHANGED <<child, sig>>
     \/ handle[c] = "none" /\ Goto(next) /\ UNCHANGED <<child, sig>>
     \/ /\ handle[c] = "set" /\ Dead(c)
        /\ child' = [child EXCEPT ![c] = "reaped"]
        /\ Goto(next) /\ UNCHANGED sig
     \/ /\ handle[c] = "set" /\ Alive(c)
        /\ sig' = [sig EXCEPT ![c] = @ \cup {"TERM"}]
        /\ Goto(next) /\ UNCHANGED child

TerminateMonitor == At("termmon") /\ Terminate("mon", "termapp")

TerminateApp == At("termapp") /\ Terminate("app", "termgen")

(* Mutant of TerminateGenerator: the generator is left to itself.          *)
SkipGenerator == At("termgen") /\ OnlyMain /\ Goto("termsnf")

TerminateGenerator == At("termgen") /\ Terminate("gen", "termsnf")

TerminateSniffer == At("termsnf") /\ Terminate("snf", "linger")

Linger == At("linger") /\ OnlyMain /\ Leave("stopped")

(* At its exit the interpreter joins every child that is not a daemon.     *)
Join ==
  /\ At("exit")
  /\ \A c \in Child : ~Alive(c)
  /\ child' = Reaped
  /\ Goto("gone")
  /\ UNCHANGED <<handle, sig, missed>>

Main ==
  /\ \/ Connect \/ StartMonitor \/ SetMonitor \/ Configure
     \/ StartApp \/ SetApp \/ NoGenerator \/ NoSniffer
     \/ StartGenerator \/ SetGenerator \/ StartSniffer \/ SetSniffer
     \/ Watch \/ CheckStop \/ LoopFails
     \/ TerminateMonitor \/ TerminateApp \/ TerminateGenerator \/ TerminateSniffer
     \/ Linger \/ Join
  /\ UNCHANGED <<flow, ints>>

-----------------------------------------------------------------------------
(* Ctrl-C at the terminal: SIGINT for the controller, in which it is a     *)
(* KeyboardInterrupt, and for every child.                                 *)

CtrlC ==
  /\ ints < MaxInterrupts
  /\ pc # "gone"
  /\ ints' = ints + 1
  /\ sig' = [c \in Child |-> IF Alive(c) THEN sig[c] \cup {"INT"} ELSE sig[c]]
  /\ \/ pc \in Before \cup Handler /\ Leave("raised")
     \/ pc \in Try /\ Goto("termmon")
     \/ pc = "exit" /\ Goto("gone")
  /\ UNCHANGED <<flow, handle, child, missed>>

-----------------------------------------------------------------------------
(* Steps of the children.                                                  *)

Become(c, l) ==
  /\ child' = [child EXCEPT ![c] = l]
  /\ UNCHANGED <<flow, pc, handle, end, ints>>

(* set_env_for_proccess and, in the application, the construction of the   *)
(* flow graph and the signal handlers of app.run.                          *)
Boot(c) ==
  /\ child[c] = "boot"
  /\ Become(c, IF c = "app" THEN "armed" ELSE "running")
  /\ UNCHANGED <<sig, missed>>

RunGraph ==
  /\ child["app"] = "armed"
  /\ Become("app", "running")
  /\ UNCHANGED <<sig, missed>>

(* The handler of the application stops a flow graph that runs; stopping   *)
(* one that has not started does nothing.                                  *)
AppHandlesSignal ==
  /\ sig["app"] # {}
  /\ child["app"] = "armed"
  /\ sig' = [sig EXCEPT !["app"] = {}]
  /\ missed' = missed \cup {"app"}
  /\ UNCHANGED <<flow, pc, handle, child, end, ints>>

(* scapy's sndrcv, in which icmp_ping waits, catches a KeyboardInterrupt.  *)
PingSwallowsInterrupt ==
  /\ "INT" \in sig["gen"]
  /\ child["gen"] = "running"
  /\ sig' = [sig EXCEPT !["gen"] = @ \ {"INT"}]
  /\ missed' = missed \cup {"gen"}
  /\ UNCHANGED <<flow, pc, handle, child, end, ints>>

EndBySignal(c) ==
  /\ sig[c] # {}
  /\ Alive(c)
  /\ child[c] # "armed"
  /\ Become(c, "zombie")
  /\ sig' = [sig EXCEPT ![c] = {}]
  /\ UNCHANGED missed

GeneratorDone ==
  /\ flow.gen = "ping"
  /\ child["gen"] = "running"
  /\ Become("gen", "zombie")
  /\ UNCHANGED <<sig, missed>>

Die(c) ==
  /\ c \in Mortal
  /\ Alive(c)
  /\ Become(c, "zombie")
  /\ UNCHANGED <<sig, missed>>

Lives(c) == Boot(c) \/ EndBySignal(c)

Next ==
  \/ Main
  \/ CtrlC
  \/ \E c \in Child : Lives(c) \/ Die(c)
  \/ RunGraph \/ AppHandlesSignal \/ PingSwallowsInterrupt \/ GeneratorDone

Spec == Init /\ [][Next]_vars

(* The operating system runs every process and delivers every signal, and  *)
(* icmp_ping ends: it waits 3 seconds at most for every answer.            *)
Fairness ==
  /\ WF_vars(Main)
  /\ \A c \in Child : WF_vars(Lives(c))
  /\ WF_vars(RunGraph)
  /\ WF_vars(GeneratorDone)

FairSpec == Spec /\ Fairness

-----------------------------------------------------------------------------
(* Properties.                                                             *)

(* Without a Ctrl-C the controller stops a run that has a monitor for a    *)
(* reason only: the traffic is done if the run is to stop then, or the     *)
(* application or the monitor has ended (run_app, lines 121-138).  A run   *)
(* without a monitor is stopped as soon as it has been started.            *)
StopsForAReason ==
  At("termmon") /\ ints = 0 /\ HasMonitor =>
    \/ flow.stop = "traffic" /\ Dead("gen")
    \/ Dead("app")
    \/ Dead("mon")

(* The processes that a stop may lose: an application to which it came     *)
(* before its flow graph ran (app.py:66-71), and a ping that took the      *)
(* Ctrl-C for the end of a wait and whose handle was not assigned when it  *)
(* came (run.py:110).                                                      *)
MayBeLost(c) == c \in missed /\ (c = "app" \/ (c = "gen" /\ handle[c] # "set"))

(* When run_app has stopped a run, every process it ever started has ended *)
(* or has a signal that it still has to act on, also when Ctrl-C came      *)
(* between the start of a process and the assignment of its handle: nobody *)
(* is forgotten but in the two ways of MayBeLost (run_app, lines 165-174). *)
NobodyForgotten ==
  end = "stopped" =>
    \A c \in Child : child[c] = "unborn" \/ Dead(c) \/ sig[c] # {} \/ MayBeLost(c)

(* A run that is being stopped ends, with all of its processes, unless one *)
(* of them has come through a signal alive (run_app, lines 165-174, and    *)
(* the wait of the interpreter for its children).                          *)
StopEnds == At("termmon") ~> At("gone") \/ \E c \in missed : Alive(c)

(* A run that is to stop when a ping is done does stop, whichever of its   *)
(* processes die before, unless it fails or a process comes through a      *)
(* signal alive (run_app, line 137).                                       *)
TrafficDoneStops ==
  At("loop") /\ flow.stop = "traffic" /\ flow.gen = "ping" ~>
    At("gone") \/ end = "failed" \/ \E c \in missed : Alive(c)

(* A run that is to stop when the application has ended stops then         *)
(* (run.py:134, `if not app_ps.is_running(): raise KeyboardInterrupt()`).  *)
AppDoneStops == At("loop") /\ flow.stop = "app" /\ Dead("app") ~> ~At("loop")

(* Ctrl-C during the try is handled without another exception, whatever    *)
(* has been started by then (run.py:168-173, `if app_proccess and ...`).   *)
InterruptIsHandled == end # "unbound"

=============================================================================
