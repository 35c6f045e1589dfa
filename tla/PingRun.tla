------------------------------ MODULE PingRun ------------------------------
(***************************************************************************)
(* Runs of one name, one after the other or at the same time, that stop    *)
(* when their ping is done, and the database collection of that name: what *)
(* the tests of the repository do, and two shells or a run that failed     *)
(* between them.  It composes run_app (testbed/run.py), icmp_ping          *)
(* (testbed/traffic/icmp_gen.py) with its report, the application between  *)
(* the tunnel interfaces (FlowGraph) and the collection (testbed/db.py).   *)
(* RunApp has the controller in detail; here it is as much of it as the    *)
(* collection can tell apart.                                              *)
(*                                                                         *)
(*   plan[r]   what run r is to do, fixed from the start                   *)
(*   pc[r]     where run_app of run r is                                   *)
(*   app[r]    the application of run r                                    *)
(*   gen[r]    its icmp_ping: it boots, builds a packet, waits in sndrcv   *)
(*             for the answer, reports it, and has returned (done) or been *)
(*             ended by a signal or an exception (dead)                    *)
(*   seq[r]    variables of icmp_ping: the next sequence number and the    *)
(*   sent[r]   number of packets                                           *)
(*   lost[r]   how many of them got no answer in time          (history)   *)
(*   got[r]    the answer that is to be reported                           *)
(*   sock[r]   the answers that wait in the socket of icmp_ping            *)
(*   air       the frames that an application has, on the way there or back*)
(*   term      the runs whose icmp_ping has a SIGTERM to act on            *)
(*   coll      the ping records of the collection                          *)
(*   mixed     the runs that shared the collection in time     (history)   *)
(*   shared    the runs that shared a namespace in time        (history)   *)
(*                                                                         *)
(* An answer has a sequence number and, for the properties, the run and    *)
(* the number of the packet it answers; the identifier in the ICMP header  *)
(* is 100 for all of them.                                                 *)
(***************************************************************************)
EXTENDS FlowGraph, FiniteSets

CONSTANTS
  NRuns,    \* the number of runs, a bound
  Plans,    \* what the runs may be, each a function from Run to Plan
  MaxSeq,   \* the largest sequence number an ICMP header holds, 2^16 - 1
  NoLimit,  \* packets=None
  MaxPackets \* the packets of a ping without a limit that are looked at, a bound

Run == 1 .. NRuns

(* The namespace of a run, the type of the tunnel interfaces there, and    *)
(* the number of packets.                                                  *)
Plan == [space : Nat, kind : {"tap", "tun", "none"}, packets : Nat \cup {NoLimit}]

ASSUME PingRunAssumption ==
  /\ NRuns \in Nat /\ MaxSeq \in Nat /\ MaxPackets \in Nat
  /\ NoLimit \notin Nat
  /\ Plans \subseteq [Run -> Plan]

VARIABLES plan, pc, app, gen, seq, sent, lost, got, sock, air, term, coll, mixed, shared

ping    == <<gen, seq, sent, lost, got, sock>>
history == <<mixed, shared>>
vars    == <<plan, pc, app, ping, air, term, coll, history>>

(* Packet n of run r, and the answer to it.                                *)
Packet == Run \X Nat
Answer == [seq : Nat, of : Packet]

TypeOK ==
  /\ plan \in Plans
  /\ pc \in [Run -> {"new", "connected", "started", "watch", "stopped", "failed"}]
  /\ app \in [Run -> {"unborn", "boot", "up", "ended"}]
  /\ gen \in [Run -> {"unborn", "boot", "build", "wait", "report", "done", "dead"}]
  /\ seq \in [Run -> Nat]
  /\ sent \in [Run -> Nat]
  /\ lost \in [Run -> Nat]
  /\ got \in [Run -> Packet \cup {<<>>}]
  /\ sock \in [Run -> SUBSET Answer]
  /\ air \subseteq [seq : Nat, of : Packet, by : Run]
  /\ term \subseteq Run
  /\ coll \subseteq [run : Run, nth : Nat, of : Packet]
  /\ mixed \subseteq Run
  /\ shared \subseteq Run

Init ==
  /\ plan \in Plans
  /\ pc = [r \in Run |-> "new"]
  /\ app = [r \in Run |-> "unborn"]
  /\ gen = [r \in Run |-> "unborn"]
  /\ seq = [r \in Run |-> 0]
  /\ sent = [r \in Run |-> 0]
  /\ lost = [r \in Run |-> 0]
  /\ got = [r \in Run |-> <<>>]
  /\ sock = [r \in Run |-> {}]
  /\ air = {} /\ term = {} /\ coll = {} /\ mixed = {} /\ shared = {}

Space(r) == plan[r].space

Kind(r) == plan[r].kind

Packets(r) == plan[r].packets

(* A ping without a limit goes on for ever.                                *)
Limited(r) == Packets(r) # NoLimit

(* There is another packet to send.                                        *)
More(r) == sent[r] < (IF Limited(r) THEN Packets(r) ELSE MaxPackets)

GenAlive(r) == gen[r] \in {"boot", "build", "wait", "report"}

AppAlive(r) == app[r] \in {"boot", "up"}

(* Run r writes to the collection, or will.                                *)
Writes(r) == pc[r] \in {"connected", "started"} \/ GenAlive(r)

Uses(r) == Writes(r) \/ AppAlive(r)

-----------------------------------------------------------------------------
(* run_app.                                                                *)

At(r, l) == pc[r] = l

Goto(r, l) == pc' = [pc EXCEPT ![r] = l]

(* Mutant of Connect: the collection is not overwritten.                   *)
ConnectKeep(r) ==
  /\ At(r, "new") /\ \A q \in Run : q < r => ~At(q, "new")
  /\ Goto(r, "connected")
  /\ mixed' = mixed \cup UNION {{q, r} : q \in {p \in Run : Writes(p)}}
  /\ shared' = shared \cup UNION {{q, r} : q \in {p \in Run : Space(p) = Space(r) /\ Uses(p)}}
  /\ UNCHANGED <<app, ping, air, term, coll>>

(* db.db drops the collection of that name and creates it anew.            *)
Connect(r) ==
  /\ At(r, "new") /\ \A q \in Run : q < r => ~At(q, "new")
  /\ Goto(r, "connected")
  /\ coll' = {}
  /\ mixed' = mixed \cup UNION {{q, r} : q \in {p \in Run : Writes(p)}}
  /\ shared' = shared \cup UNION {{q, r} : q \in {p \in Run : Space(p) = Space(r) /\ Uses(p)}}
  /\ UNCHANGED <<app, ping, air, term>>

StartApp(r) ==
  /\ At(r, "connected")
  /\ Goto(r, "started")
  /\ app' = [app EXCEPT ![r] = "boot"]
  /\ UNCHANGED <<ping, air, term, coll, history>>

StartPing(r) ==
  /\ At(r, "started")
  /\ Goto(r, "watch")
  /\ gen' = [gen EXCEPT ![r] = "boot"]
  /\ UNCHANGED <<app, seq, sent, lost, got, sock, air, term, coll, history>>

(* "App failed": a generator, a report or a sniffer that does not exist,   *)
(* or a CPU record that is not written.  Nobody is told to stop.           *)
Abandon(r) ==
  /\ pc[r] \in {"started", "watch"}
  /\ Goto(r, "failed")
  /\ UNCHANGED <<app, ping, air, term, coll, history>>

(* The handler of KeyboardInterrupt.  What the application does with its   *)
(* SIGTERM is AppEnds.                                                     *)
Stop(r) ==
  /\ Goto(r, "stopped")
  /\ term' = IF GenAlive(r) THEN term \cup {r} ELSE term
  /\ UNCHANGED <<app, ping, air, coll, history>>

TrafficDone(r) == At(r, "watch") /\ ~GenAlive(r) /\ Stop(r)

(* Ctrl-C, or an application or a monitor that had ended before psutil     *)
(* looked at it.                                                           *)
Interrupt(r) == pc[r] \in {"started", "watch"} /\ Stop(r)

-----------------------------------------------------------------------------
(* The application.                                                        *)

Busy(s) == \E r \in Run : Space(r) = s /\ app[r] = "up"

(* tuntap raises for an interface that is neither tun nor tap, the kernel  *)
(* refuses one that another process has, and wrap its connections.         *)
Construct(r) ==
  /\ app[r] = "boot"
  /\ app' = [app EXCEPT ![r] =
       IF Kind(r) # "none" /\ ~Busy(Space(r)) /\ Accepted THEN "up" ELSE "ended"]
  /\ UNCHANGED <<pc, ping, air, term, coll, history>>

(* By a signal or an exception.  The frames it had are gone with it.       *)
AppEnds(r) ==
  /\ AppAlive(r)
  /\ app' = [app EXCEPT ![r] = "ended"]
  /\ air' = {a \in air : a.by # r}
  /\ UNCHANGED <<pc, ping, term, coll, history>>

Listens(r) == gen[r] \in {"build", "wait", "report"}

(* An answer comes out of the tunnel interface: every socket in the        *)
(* namespace gets it.                                                      *)
Arrive ==
  \E a \in air :
    /\ air' = air \ {a}
    /\ sock' = [r \in Run |-> IF Listens(r) /\ Space(r) = Space(a.by)
                              THEN sock[r] \cup {[seq |-> a.seq, of |-> a.of]}
                              ELSE sock[r]]
    /\ UNCHANGED <<pc, app, gen, seq, sent, lost, got, term, coll, history>>

-----------------------------------------------------------------------------
(* icmp_ping.                                                              *)

(* The process has returned, or ended by a signal or an exception.         *)
Exit(r, how) ==
  /\ gen' = [gen EXCEPT ![r] = how]
  /\ got' = [got EXCEPT ![r] = <<>>]
  /\ sock' = [sock EXCEPT ![r] = {}]
  /\ term' = term \ {r}
  /\ UNCHANGED <<pc, app, seq, sent, lost, air, coll, history>>

OpenSocket(r) ==
  /\ gen[r] = "boot"
  /\ Kind(r) # "none"
  /\ gen' = [gen EXCEPT ![r] = "build"]
  /\ UNCHANGED <<pc, app, seq, sent, lost, got, sock, air, term, coll, history>>

(* Without a tunnel interface on the route there is no header to put the   *)
(* packet behind.                                                          *)
NoInterface(r) == gen[r] = "boot" /\ Kind(r) = "none" /\ Exit(r, "dead")

(* The frame is lost unless an application has the tunnel interfaces.  A   *)
(* number too large for the header makes none: the sender of sndrcv logs   *)
(* the exception of the packing, and icmp_ping goes on.                    *)
Frames(r) ==
  {[seq |-> seq[r], of |-> <<r, sent[r]>>, by |-> h] :
     h \in {q \in Run : Space(q) = Space(r) /\ app[q] = "up" /\ BothWays /\ seq[r] <= MaxSeq}}

(* Mutant of Send: every packet has the same sequence number.              *)
SendAgain(r) ==
  /\ gen[r] = "build" /\ More(r)
  /\ gen' = [gen EXCEPT ![r] = "wait"]
  /\ seq' = [seq EXCEPT ![r] = 1]
  /\ air' = air \cup {[a EXCEPT !.seq = 0] : a \in Frames(r)}
  /\ UNCHANGED <<pc, app, sent, lost, got, sock, term, coll, history>>

Send(r) ==
  /\ gen[r] = "build" /\ More(r)
  /\ gen' = [gen EXCEPT ![r] = "wait"]
  /\ seq' = [seq EXCEPT ![r] = @ + 1]
  /\ air' = air \cup Frames(r)
  /\ UNCHANGED <<pc, app, sent, lost, got, sock, term, coll, history>>

(* sndrcv reads the socket until a packet answers the one it has sent: the *)
(* sequence number is that one's.  Other answers are dropped as they are   *)
(* read; those of earlier packets will never be asked for again.           *)
Receive(r) ==
  /\ gen[r] = "wait"
  /\ \E a \in sock[r], keep \in SUBSET {b \in sock[r] : b.seq >= seq[r]} :
       /\ a.seq + 1 = seq[r]
       /\ got' = [got EXCEPT ![r] = a.of]
       /\ sock' = [sock EXCEPT ![r] = keep]
  /\ gen' = [gen EXCEPT ![r] = "report"]
  /\ sent' = [sent EXCEPT ![r] = @ + 1]
  /\ UNCHANGED <<pc, app, seq, lost, air, term, coll, history>>

(* Mutant of Timeout: an empty result is reported too.                     *)
ReportNothing(r) ==
  /\ gen[r] = "wait"
  /\ gen' = [gen EXCEPT ![r] = "report"]
  /\ sent' = [sent EXCEPT ![r] = @ + 1]
  /\ sock' = [sock EXCEPT ![r] = {}]
  /\ UNCHANGED <<pc, app, seq, lost, got, air, term, coll, history>>

(* Mutant of Timeout: sndrcv without a timeout.                            *)
WaitForever(r) == FALSE /\ UNCHANGED vars

(* No answer in 3 seconds, or a SIGINT, which sndrcv takes for the end of  *)
(* its wait.                                                               *)
Timeout(r) ==
  /\ gen[r] = "wait"
  /\ gen' = [gen EXCEPT ![r] = "build"]
  /\ sent' = [sent EXCEPT ![r] = @ + 1]
  /\ lost' = [lost EXCEPT ![r] = @ + 1]
  /\ sock' = [sock EXCEPT ![r] = {}]
  /\ UNCHANGED <<pc, app, seq, got, air, term, coll, history>>

(* report.report: the record goes to the collection, if the database takes *)
(* it.                                                                     *)
Report(r) ==
  /\ gen[r] = "report"
  /\ gen' = [gen EXCEPT ![r] = "build"]
  /\ got' = [got EXCEPT ![r] = <<>>]
  /\ coll' = coll \cup {[run |-> r, nth |-> sent[r] - 1, of |-> got[r]]}
  /\ UNCHANGED <<pc, app, seq, sent, lost, sock, air, term, history>>

ReportFails(r) == gen[r] = "report" /\ Exit(r, "dead")

Finish(r) == gen[r] = "build" /\ sent[r] = Packets(r) /\ Exit(r, "done")

Killed(r) == r \in term /\ GenAlive(r) /\ Exit(r, "dead")

-----------------------------------------------------------------------------
RunAppSteps(r) ==
  Connect(r) \/ StartApp(r) \/ StartPing(r) \/ Abandon(r) \/ TrafficDone(r) \/ Interrupt(r)

Pings(r) ==
  \/ OpenSocket(r) \/ NoInterface(r) \/ Send(r) \/ Receive(r) \/ Timeout(r)
  \/ Report(r) \/ ReportFails(r) \/ Finish(r) \/ Killed(r)

Next ==
  /\ \/ \E r \in Run : RunAppSteps(r) \/ Construct(r) \/ AppEnds(r) \/ Pings(r)
     \/ Arrive
  /\ UNCHANGED plan

Spec == Init /\ [][Next]_vars

(* The operating system runs the processes.  Nothing is assumed of the     *)
(* applications and of the way of a frame.                                 *)
Fairness ==
  \A r \in Run : WF_vars(Pings(r) /\ UNCHANGED plan) /\ WF_vars(TrafficDone(r) /\ UNCHANGED plan)

FairSpec == Spec /\ Fairness

-----------------------------------------------------------------------------
(* Properties.                                                             *)

(* What is reported of a packet is the time of its own answer, however     *)
(* late the answers of the packets before come (icmp_ping, lines 86-95).   *)
(* Only runs that shared a namespace in time may take the answers of each  *)
(* other, for their packets look the same (ICMP(seq=seq, id=100)).         *)
OwnAnswers ==
  \A c \in coll :
    \/ c.of = <<c.run, c.nth>>
    \/ c.of[1] # c.run /\ {c.run, c.of[1]} \subseteq shared

(* count_documents with ping_time (tests/ping_test.py, line 68).           *)
Count == Cardinality(coll)

(* When a ping is done, the collection has one record for every packet     *)
(* that was answered in time, and those only: what an earlier run wrote,   *)
(* or what it still has to write, does not count, until a later run takes  *)
(* the collection (db.py:18; run_app, line 79; icmp_ping).  Excused is a   *)
(* run that shared the collection in time with another one.                *)
CountIsAnswered ==
  \A r \in Run :
    gen[r] = "done" /\ r \notin mixed /\ (\A q \in Run : q > r => At(q, "new"))
      => Count + lost[r] = Packets(r)

Stage == [unborn |-> 3, boot |-> 2, build |-> 1, wait |-> 3, report |-> 2]

Left(r) == IF gen[r] \in {"done", "dead"} THEN 0 ELSE 3 * (Packets(r) - seq[r]) + Stage[gen[r]]

(* A ping with a number of packets has ever less to do: three steps at     *)
(* most for each of them and three to begin and end, whichever answers are *)
(* lost, late or another's and however many of its packets are too many    *)
(* for the header's number, and nothing that the other processes do gives  *)
(* it more (icmp_ping, lines 84-95).                                       *)
PingRunsOut ==
  [][\A r \in Run : Limited(r) =>
       /\ Left(r)' \in Nat /\ Left(r)' <= Left(r)
       /\ gen'[r] # gen[r] => Left(r)' < Left(r)]_vars

(* A running application connects either tunnel interface with the other   *)
(* one, in both directions, and none with itself (testbed_io.py:57-103,   *)
(* sim.py:124-149).                                                        *)
Crosswise ==
  \A r \in Run : app[r] = "up" => \A k \in Side : LeadsTo[k] = {1 - k}

(* A run that watches a ping with a number of packets comes to an end,     *)
(* also when the application has died and nothing is ever answered, or the *)
(* header has no number left (icmp_ping, line 88: timeout=3).              *)
PingRunEnds == \A r \in Run : Limited(r) /\ At(r, "watch") ~> pc[r] \in {"stopped", "failed"}

=============================================================================
