------------------------------ MODULE Monitor ------------------------------
(***************************************************************************)
(* The process that collects what the application reports                  *)
(* (testbed/monitoring.py): start_collect_batch, which writes its records  *)
(* to the database in batches, and start_collect, which writes each one.   *)
(*                                                                         *)
(* The application publishes over ZeroMQ.  A socket keeps the order of the *)
(* messages and drops those for which its queue has no place.  The process *)
(* has no handler for a signal: SIGTERM ends it wherever it is.            *)
(*                                                                         *)
(*   mode      which of the two functions runs                             *)
(*   now       the clock, in milliseconds; only a poll and a write of the  *)
(*             monitor take time                                           *)
(*   sent      the number of messages published                            *)
(*   queue     the messages in the socket: their number and what they are  *)
(*   pc        where the monitor is                                        *)
(*   since     when it began to poll or to write                           *)
(*   data, msg_counter, next_batch_time                                    *)
(*             the variables of start_collect_batch                        *)
(*   accepted, stored                                                      *)
(*             the records made, and those written to the database, in     *)
(*             order                                                       *)
(*   seen      the number of the last message received (history)           *)
(***************************************************************************)
EXTENDS Integers, Sequences

CONSTANTS
  BatchDuration,  \* batch_duration
  MaxWrite,       \* a bound on the duration of a write
  QueueSize,      \* messages a socket keeps (the high-water mark)
  MaxSent,        \* a bound on the messages published
  MaxTime         \* a bound on the clock

ASSUME MonitorAssumption ==
  /\ BatchDuration \in Nat \ {0} /\ MaxWrite \in Nat
  /\ QueueSize \in Nat /\ MaxSent \in Nat /\ MaxTime \in Nat

VARIABLES mode, now, sent, queue, pc, since, data, msg_counter, next_batch_time,
          accepted, stored, seen

socket == <<sent, queue>>
batch == <<data, next_batch_time, stored>>
received == <<msg_counter, accepted, seen>>
vars == <<mode, now, socket, pc, since, batch, received>>

(* What parse_msg makes of a message: a record; nothing, when it does not  *)
(* know the encoding or fails; or something that raises further on, such   *)
(* as a time that is no number.                                            *)
Parsed == {"record", "nothing", "bad"}

Message == [id : Nat, is : Parsed]

(* no: the msg_counter; id: the message; at: when it was received.         *)
Record == [no : Nat, id : Nat, at : Nat]

TypeOK ==
  /\ mode \in {"batch", "each"}
  /\ now \in Nat /\ sent \in Nat /\ queue \in Seq(Message)
  /\ pc \in {"poll", "recv", "check", "write", "dead"} /\ since \in Nat
  /\ data \in Seq(Record) /\ msg_counter \in Nat /\ next_batch_time \in Nat
  /\ accepted \in Seq(Record) /\ stored \in Seq(Record) /\ seen \in Nat

(* Mutant of Init: the sign of the first next_batch_time is wrong.          *)
InitOverdue ==
  /\ mode \in {"batch", "each"}
  /\ now = 0 /\ sent = 0 /\ queue = <<>>
  /\ pc = "poll" /\ since = 0
  /\ data = <<>> /\ msg_counter = 0 /\ next_batch_time = -BatchDuration
  /\ accepted = <<>> /\ stored = <<>> /\ seen = 0

Init ==
  /\ mode \in {"batch", "each"}
  /\ now = 0 /\ sent = 0 /\ queue = <<>>
  /\ pc = "poll" /\ since = 0
  /\ data = <<>> /\ msg_counter = 0 /\ next_batch_time = BatchDuration
  /\ accepted = <<>> /\ stored = <<>> /\ seen = 0

-----------------------------------------------------------------------------
(* The application, the socket and the clock.                              *)

Publish ==
  /\ sent < MaxSent
  /\ sent' = sent + 1
  /\ \/ /\ Len(queue) < QueueSize
        /\ \E k \in Parsed : queue' = Append(queue, [id |-> sent + 1, is |-> k])
     \/ UNCHANGED queue
  /\ UNCHANGED <<mode, now, pc, since, batch, received>>

(* Time passes in a poll that has nothing to report, and in a write.       *)
Tick ==
  /\ now < MaxTime
  /\ \/ pc = "poll" /\ queue = <<>> /\ (mode = "batch" => now - since < BatchDuration)
     \/ pc = "write" /\ now - since < MaxWrite
  /\ now' = now + 1
  /\ UNCHANGED <<mode, socket, pc, since, batch, received>>

-----------------------------------------------------------------------------
(* The monitor.                                                            *)

Poll ==
  /\ pc = "poll"
  /\ \/ queue # <<>> /\ pc' = "recv"
     \/ /\ mode = "batch" /\ queue = <<>> /\ now - since >= BatchDuration
        /\ pc' = "check"
  /\ UNCHANGED <<mode, now, socket, since, batch, received>>

(* Mutant of Receives: a message counts when it comes and when it is read. *)
ReceivesTwice(k) ==
  /\ pc = "recv"
  /\ Head(queue).is = k /\ queue' = Tail(queue)
  /\ msg_counter' = msg_counter + 2 /\ seen' = Head(queue).id
  /\ UNCHANGED <<mode, now, sent, next_batch_time, stored>>

(* The message at the head of the queue is one of kind k.                  *)
Receives(k) ==
  /\ pc = "recv"
  /\ Head(queue).is = k /\ queue' = Tail(queue)
  /\ msg_counter' = msg_counter + 1 /\ seen' = Head(queue).id
  /\ UNCHANGED <<mode, now, sent, next_batch_time, stored>>

(* A record joins the batch, which is tested; start_collect writes it.     *)
RecvRecord ==
  /\ Receives("record")
  /\ \E r \in {[no |-> msg_counter + 1, id |-> Head(queue).id, at |-> now]} :
       data' = Append(data, r) /\ accepted' = Append(accepted, r)
  /\ pc' = (IF mode = "batch" THEN "check" ELSE "write") /\ since' = now

RecvNothing ==
  /\ Receives("nothing")
  /\ pc' = (IF mode = "batch" THEN "check" ELSE "poll") /\ since' = now
  /\ UNCHANGED <<data, accepted>>

RecvBad ==
  /\ Receives("bad")
  /\ pc' = "dead"
  /\ UNCHANGED <<since, data, accepted>>

(* Mutant of Due: the batch is written by the message that is one late.    *)
DueLate == now >= next_batch_time + BatchDuration /\ data # <<>>

Due == now >= next_batch_time /\ data # <<>>

(* next_batch_time counts from the test.                                   *)
Check ==
  /\ pc = "check"
  /\ pc' = (IF Due THEN "write" ELSE "poll") /\ since' = now
  /\ UNCHANGED <<mode, now, socket, batch, received>>

(* Mutant of Write: the batch is kept.                                     *)
WriteAndKeep ==
  /\ pc = "write"
  /\ stored' = stored \o data /\ UNCHANGED data
  /\ next_batch_time' = since + BatchDuration
  /\ pc' = "poll" /\ since' = now
  /\ UNCHANGED <<mode, now, socket, received>>

Write ==
  /\ pc = "write"
  /\ stored' = stored \o data /\ data' = <<>>
  /\ next_batch_time' = (IF mode = "batch" THEN since + BatchDuration ELSE next_batch_time)
  /\ pc' = "poll" /\ since' = now
  /\ UNCHANGED <<mode, now, socket, received>>

(* insert_many inserts in order and stops at the first failure; the        *)
(* exception ends the process.                                             *)
WriteFails ==
  /\ pc = "write" /\ pc' = "dead"
  /\ \E n \in 0 .. Len(data) : stored' = stored \o SubSeq(data, 1, n)
  /\ UNCHANGED <<mode, now, socket, since, data, next_batch_time, received>>

Terminate ==
  /\ pc # "dead" /\ pc' = "dead"
  /\ UNCHANGED <<mode, now, socket, since, batch, received>>

Next == Publish \/ Tick \/ Poll \/ RecvRecord \/ RecvNothing \/ RecvBad
        \/ Check \/ Write \/ WriteFails \/ Terminate

Spec == Init /\ [][Next]_vars

-----------------------------------------------------------------------------
(* Properties.                                                             *)

(* The monitor is a collector: no record it made is lost, doubled or       *)
(* overtaken while it lives, and what a failed write, a bad message or a   *)
(* SIGTERM loses are the last records (start_collect_batch, start_collect).*)
C == INSTANCE Collector WITH up <- (pc # "dead")

Collects == C!Spec

(* A record comes to the database, or is lost with the monitor, within     *)
(* less than two batch durations and a write: it may come just after a     *)
(* write, and the next test that finds the batch due may come just before  *)
(* it is (start_collect_batch).                                            *)
WaitsBounded ==
  \A i \in 1 .. Len(data) : now - data[i].at < 2 * BatchDuration + MaxWrite

(* The distance of two msg_counters is at most that of the messages they   *)
(* count, and the order is that of the messages: msg_counter counts what   *)
(* was received, so lost messages leave no gap in it and empty ones do.    *)
CountersFollow ==
  \A i, j \in 1 .. Len(accepted) : i < j =>
    /\ accepted[i].no < accepted[j].no
    /\ accepted[j].no - accepted[i].no <= accepted[j].id - accepted[i].id

=============================================================================
