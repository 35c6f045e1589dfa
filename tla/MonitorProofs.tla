--------------------------- MODULE MonitorProofs ---------------------------
(* Proofs about Monitor for every batch duration, queue and bound.         *)
EXTENDS Monitor, SequenceTheorems, TLAPS

-----------------------------------------------------------------------------
(* The inductive invariant.                                                *)

(* What was accepted is in the database or in the batch, in this order.    *)
Log ==
  /\ pc # "dead" => stored \o data = accepted
  /\ C!Begins(stored, accepted)

(* A poll or a write is no longer than it may be; a poll of                *)
(* start_collect_batch begins before a batch that is not empty is due,     *)
(* which is a batch duration after each of its records at the latest.      *)
Timely ==
  /\ since <= now
  /\ mode = "batch" =>
       /\ next_batch_time <= now + BatchDuration
       /\ \A i \in 1 .. Len(data) : next_batch_time <= data[i].at + BatchDuration
       /\ pc \in {"poll", "recv"} => now - since <= BatchDuration
       /\ pc \in {"poll", "recv"} /\ data # <<>> => since < next_batch_time
       /\ pc = "check" => \A i \in 1 .. Len(data) : now - data[i].at < 2 * BatchDuration
  /\ mode = "each" => pc # "check" /\ (pc \in {"poll", "recv"} => data = <<>>)
  /\ pc = "write" =>
       /\ now - since <= MaxWrite
       /\ \A i \in 1 .. Len(data) : since - data[i].at < 2 * BatchDuration

(* The socket keeps the order of the messages; there is one to receive     *)
(* when a poll said so.                                                    *)
Ordered ==
  /\ pc = "recv" => queue # <<>>
  /\ seen <= sent
  /\ \A i \in 1 .. Len(queue) : seen < queue[i].id /\ queue[i].id <= sent
  /\ \A i, j \in 1 .. Len(queue) : i < j => queue[i].id < queue[j].id

(* The counter and the messages since a record was made.                   *)
Counted ==
  \A i \in 1 .. Len(accepted) :
    /\ accepted[i].no <= msg_counter
    /\ msg_counter - accepted[i].no <= seen - accepted[i].id

IInv == TypeOK /\ Log /\ Timely /\ Ordered /\ Counted /\ WaitsBounded /\ CountersFollow

-----------------------------------------------------------------------------
(* Sequences.                                                              *)

LEMMA BeginsConcat ==
  ASSUME NEW S, NEW s \in Seq(S), NEW t \in Seq(S)
  PROVE  C!Begins(s, s \o t)
<1>1. /\ Len(s) \in Nat /\ Len(t) \in Nat /\ s \o t \in Seq(S)
      /\ Len(s \o t) = Len(s) + Len(t)
      /\ \A i \in 1 .. Len(s) + Len(t) :
           (s \o t)[i] = IF i <= Len(s) THEN s[i] ELSE t[i - Len(s)]
  BY ConcatProperties, LenProperties
<1> DEFINE u == s \o t
           v == SubSeq(u, 1, Len(s))
<1>2. \A i \in 1 .. Len(s) : u[i] \in S /\ u[i] = s[i]
  BY <1>1, ElementOfSeq
<1>3. v \in Seq(S) /\ Len(v) = Len(s) /\ \A i \in 1 .. Len(s) : v[i] = u[i]
  <2> HIDE DEF u
  <2>1. /\ v \in Seq(S) /\ Len(v) = (IF 1 <= Len(s) THEN Len(s) - 1 + 1 ELSE 0)
        /\ \A i \in 1 .. Len(s) - 1 + 1 : v[i] = u[1 + i - 1]
    BY <1>1, <1>2, SubSeqProperties
  <2> HIDE DEF v
  <2>2. Len(v) = Len(s)
    BY <1>1, <2>1
  <2>3. ASSUME NEW i \in 1 .. Len(s) PROVE v[i] = u[i]
    <3>1. i \in 1 .. Len(s) - 1 + 1 /\ 1 + i - 1 = i
      BY <1>1
    <3> QED
      BY <2>1, <3>1
  <2> QED
    BY <2>1, <2>2, <2>3
<1>4. v = s
  <2> HIDE DEF u, v
  <2> QED
    BY <1>2, <1>3, SeqEqual
<1> QED
  BY <1>1, <1>4 DEF C!Begins

LEMMA BeginsPart ==
  ASSUME NEW S, NEW s \in Seq(S), NEW t \in Seq(S), NEW n \in 0 .. Len(t)
  PROVE  /\ SubSeq(t, 1, n) \in Seq(S)
         /\ C!Begins(s \o SubSeq(t, 1, n), s \o t)
<1>1. Len(t) \in Nat /\ \A i \in 1 .. Len(t) : t[i] \in S
  BY LenProperties, ElementOfSeq
<1> DEFINE u == SubSeq(t, 1, n)
           v == SubSeq(t, n + 1, Len(t))
<1>2. u \in Seq(S) /\ v \in Seq(S)
  <2>1. (\A i \in 1 .. n : t[i] \in S) /\ (\A i \in n + 1 .. Len(t) : t[i] \in S)
    BY <1>1
  <2> QED
    BY <1>1, <2>1, SubSeqProperties
<1>3. u \o v = t
  <2>1. 1 \in 1 .. Len(t) + 1 /\ n \in 1 - 1 .. Len(t) /\ Len(t) \in n .. Len(t)
    BY <1>1
  <2> QED
    BY <2>1, ConcatAdjacentSubSeq, SubSeqFull
<1>4. (s \o u) \o v = s \o t
  <2> HIDE DEF u, v
  <2>1. (s \o u) \o v = s \o (u \o v)
    BY <1>2, ConcatAssociative
  <2> QED
    BY <1>3, <2>1
<1>5. s \o u \in Seq(S)
  BY <1>2, ConcatProperties
<1> QED
  <2> HIDE DEF u, v
  <2>1. C!Begins(s \o u, (s \o u) \o v)
    BY <1>2, <1>5, BeginsConcat
  <2>2. C!Begins(s \o u, s \o t)
    BY <1>4, <2>1
  <2> QED
    BY <1>2, <2>2 DEF u

-----------------------------------------------------------------------------
(* The steps that leave the records alone.                                 *)

(* Facts about the constants, flat for the provers.                        *)
LEMMA Bounds ==
  /\ BatchDuration \in Nat /\ BatchDuration > 0 /\ MaxWrite \in Nat
  /\ QueueSize \in Nat /\ MaxSent \in Nat /\ MaxTime \in Nat
BY MonitorAssumption

LEMMA LogKept ==
  ASSUME Log, UNCHANGED <<data, accepted, stored>>, pc' # "dead" => pc # "dead"
  PROVE  Log'
BY DEF Log, C!Begins

LEMMA CountsKept ==
  ASSUME Counted, CountersFollow, UNCHANGED <<msg_counter, accepted, seen>>
  PROVE  Counted' /\ CountersFollow'
BY DEF Counted, CountersFollow

LEMMA PublishKeeps ==
  ASSUME IInv, Publish
  PROVE  IInv'
<1>1. UNCHANGED <<mode, now, pc, since, data, next_batch_time, stored, msg_counter, accepted, seen>>
      /\ sent' = sent + 1 /\ sent \in Nat
  BY DEF Publish, IInv, TypeOK, batch, received
<1>4. Log' /\ Counted' /\ CountersFollow'
  BY <1>1, LogKept, CountsKept DEF IInv
<1>5. Timely' /\ WaitsBounded'
  <2>1. Timely'
    BY <1>1 DEF IInv, Timely
  <2>2. WaitsBounded'
    BY <1>1 DEF IInv, WaitsBounded
  <2> QED
    BY <2>1, <2>2
<1>6. \A i \in 1 .. Len(queue) : queue[i].id \in Nat /\ seen < queue[i].id /\ queue[i].id <= sent
  <2>1. \A i \in 1 .. Len(queue) : queue[i] \in Message
    BY ElementOfSeq DEF IInv, TypeOK
  <2> QED
    BY <2>1 DEF IInv, Ordered, Message
<1>2. CASE queue' = queue
  <2>1. Ordered'
    <3>1. seen \in Nat /\ seen <= sent
      BY DEF IInv, TypeOK, Ordered
    <3> QED
      BY <1>1, <1>2, <1>6, <3>1 DEF IInv, Ordered
  <2>2. TypeOK'
    BY <1>1, <1>2 DEF IInv, TypeOK
  <2> QED
    BY <1>4, <1>5, <2>1, <2>2 DEF IInv
<1>3. ASSUME NEW k \in Parsed, queue' = Append(queue, [id |-> sent + 1, is |-> k])
      PROVE  IInv'
  <2> DEFINE new == [id |-> sent + 1, is |-> k]
  <2>1. new \in Message /\ new.id = sent + 1 /\ queue \in Seq(Message) /\ Len(queue) \in Nat
    BY <1>1 DEF Message, IInv, TypeOK
  <2>2. /\ queue' \in Seq(Message) /\ queue' # <<>> /\ Len(queue') = Len(queue) + 1
        /\ \A i \in 1 .. Len(queue) : queue'[i] = queue[i]
        /\ queue'[Len(queue) + 1] = new
    BY <1>3, <2>1, AppendProperties
  <2>4. seen <= sent /\ seen \in Nat
    BY DEF IInv, Ordered, TypeOK
  <2> HIDE DEF new
  <2>5. \A i \in 1 .. Len(queue') : seen < queue'[i].id /\ queue'[i].id <= sent'
    BY <1>1, <1>6, <2>1, <2>2, <2>4
  <2>6. \A i, j \in 1 .. Len(queue') : i < j => queue'[i].id < queue'[j].id
    BY <1>1, <1>6, <2>1, <2>2 DEF IInv, Ordered
  <2>7. Ordered'
    BY <1>1, <2>2, <2>4, <2>5, <2>6 DEF Ordered
  <2>8. TypeOK'
    BY <1>1, <2>2 DEF IInv, TypeOK
  <2> QED
    BY <1>4, <1>5, <2>7, <2>8 DEF IInv
<1> QED
  BY <1>2, <1>3 DEF Publish

LEMMA TickKeeps ==
  ASSUME IInv, Tick
  PROVE  IInv'
<1>1. UNCHANGED <<mode, sent, queue, pc, since, data, next_batch_time, stored, msg_counter,
                  accepted, seen>>
      /\ now' = now + 1
  BY DEF Tick, socket, batch, received
<1>2. now \in Nat /\ since \in Nat /\ next_batch_time \in Nat /\ Len(data) \in Nat
      /\ \A i \in 1 .. Len(data) : data[i].at \in Nat
  <2>1. \A i \in 1 .. Len(data) : data[i] \in Record
    BY ElementOfSeq DEF IInv, TypeOK
  <2> QED
    BY <2>1 DEF IInv, TypeOK, Record
<1>3. TypeOK'
  BY <1>1, <1>2 DEF IInv, TypeOK
<1>4. Timely'
  BY <1>1, <1>2, Bounds DEF IInv, Timely, Tick
<1>5. WaitsBounded'
  <2>1. ASSUME NEW i \in 1 .. Len(data)
        PROVE  now + 1 - data[i].at < 2 * BatchDuration + MaxWrite
    <3>1. data # <<>>
      BY <1>2, <2>1, EmptySeq DEF IInv, TypeOK
    <3>2. CASE pc = "poll"
      <4>1. mode = "batch" /\ now - since < BatchDuration
        BY <3>1, <3>2 DEF Tick, IInv, Timely, TypeOK
      <4>2. since < next_batch_time /\ next_batch_time <= data[i].at + BatchDuration
        BY <3>1, <3>2, <4>1 DEF IInv, Timely
      <4> QED
        BY <1>2, <4>1, <4>2, Bounds
    <3>3. CASE pc = "write"
      <4>1. now - since < MaxWrite /\ since - data[i].at < 2 * BatchDuration
        BY <3>3 DEF Tick, IInv, Timely
      <4> QED
        BY <1>2, <4>1, Bounds
    <3> QED
      BY <3>2, <3>3 DEF Tick
  <2> QED
    BY <1>1, <1>2, <2>1, Bounds DEF WaitsBounded
<1> QED
  BY <1>1, <1>3, <1>4, <1>5, LogKept, CountsKept DEF IInv, Ordered

LEMMA PollKeeps ==
  ASSUME IInv, Poll
  PROVE  IInv'
<1>1. UNCHANGED <<mode, now, sent, queue, since, data, next_batch_time, stored, msg_counter,
                  accepted, seen>>
      /\ pc = "poll"
      /\ pc' \in {"recv", "check"} /\ (pc' = "recv" => queue # <<>>)
      /\ (pc' = "check" => mode = "batch")
  BY DEF Poll, socket, batch, received
<1>2. now \in Nat /\ since \in Nat /\ next_batch_time \in Nat /\ Len(data) \in Nat
      /\ \A i \in 1 .. Len(data) : data[i].at \in Nat
  <2>1. \A i \in 1 .. Len(data) : data[i] \in Record
    BY ElementOfSeq DEF IInv, TypeOK
  <2> QED
    BY <2>1 DEF IInv, TypeOK, Record
<1>3. ASSUME mode = "batch", NEW i \in 1 .. Len(data)
      PROVE  now - data[i].at < 2 * BatchDuration
  <2>1. data # <<>>
    BY <1>2, EmptySeq DEF IInv, TypeOK
  <2>2. now - since <= BatchDuration /\ since < next_batch_time
        /\ next_batch_time <= data[i].at + BatchDuration
    BY <1>1, <1>3, <2>1 DEF IInv, Timely
  <2> QED
    BY <1>2, <2>2, Bounds
<1>4. Timely'
  BY <1>1, <1>3 DEF IInv, Timely
<1> QED
  BY <1>1, <1>4, LogKept, CountsKept DEF IInv, TypeOK, Ordered, WaitsBounded

-----------------------------------------------------------------------------
(* The messages.                                                           *)

LEMMA RecordTypes ==
  ASSUME TypeOK
  PROVE  /\ Len(data) \in Nat /\ Len(accepted) \in Nat /\ Len(queue) \in Nat
         /\ \A i \in 1 .. Len(data) : data[i].at \in Nat
         /\ \A i \in 1 .. Len(accepted) :
              accepted[i].no \in Nat /\ accepted[i].id \in Nat
<1>1. \A i \in 1 .. Len(data) : data[i] \in Record
  BY ElementOfSeq DEF TypeOK
<1>2. \A i \in 1 .. Len(accepted) : accepted[i] \in Record
  BY ElementOfSeq DEF TypeOK
<1>3. Len(data) \in Nat /\ Len(accepted) \in Nat /\ Len(queue) \in Nat
  BY LenProperties DEF TypeOK
<1> QED
  BY <1>1, <1>2, <1>3 DEF Record

LEMMA OneMore ==
  ASSUME NEW a \in Nat, NEW b \in Nat, NEW c \in Nat, NEW s \in Nat, NEW t \in Nat,
         a <= c, c - a <= s - b, s < t
  PROVE  (c + 1) - a <= t - b
OBVIOUS

LEMMA ReceivesFacts ==
  ASSUME IInv, NEW k, Receives(k), pc' # "recv"
  PROVE  /\ Ordered' /\ queue' \in Seq(Message)
         /\ seen \in Nat /\ seen' \in Nat /\ seen < seen' /\ seen' = Head(queue).id
         /\ msg_counter \in Nat /\ msg_counter' = msg_counter + 1
         /\ \A i \in 1 .. Len(accepted) :
              /\ accepted[i].no <= msg_counter
              /\ (msg_counter + 1) - accepted[i].no <= seen' - accepted[i].id
<1>1. queue \in Seq(Message) /\ queue # <<>> /\ seen \in Nat /\ sent \in Nat
      /\ msg_counter \in Nat /\ msg_counter' = msg_counter + 1 /\ sent' = sent
      /\ queue' = Tail(queue) /\ seen' = Head(queue).id
  BY DEF IInv, TypeOK, Ordered, Receives
<1>2. /\ queue' \in Seq(Message) /\ Len(queue') = Len(queue) - 1 /\ Len(queue) \in Nat \ {0}
      /\ \A i \in 1 .. Len(queue') : queue'[i] = queue[i + 1]
      /\ Head(queue) = queue[1]
  <2>1. Head(queue) = queue[1]
    BY <1>1
  <2>2. Len(queue) \in Nat \ {0}
    BY <1>1, EmptySeq
  <2> QED
    BY <1>1, <2>1, <2>2, HeadTailProperties
<1>3. \A i \in 1 .. Len(queue) : queue[i].id \in Nat /\ seen < queue[i].id /\ queue[i].id <= sent
  <2>1. \A i \in 1 .. Len(queue) : queue[i] \in Message
    BY <1>1, ElementOfSeq
  <2> QED
    BY <2>1 DEF IInv, Ordered, Message
<1>4. seen' \in Nat /\ seen < seen' /\ seen' <= sent
  <2>1. 1 \in 1 .. Len(queue)
    BY <1>2
  <2> QED
    BY <1>1, <1>2, <1>3, <2>1
<1>5. \A i, j \in 1 .. Len(queue) : i < j => queue[i].id < queue[j].id
  BY DEF IInv, Ordered
<1>6. \A i \in 1 .. Len(queue') : seen' < queue'[i].id /\ queue'[i].id <= sent
  <2> TAKE i \in 1 .. Len(queue')
  <2>1. 1 \in 1 .. Len(queue) /\ i + 1 \in 1 .. Len(queue) /\ 1 < i + 1
    BY <1>2
  <2> QED
    BY <1>1, <1>2, <1>3, <1>5, <2>1
<1>7. \A i, j \in 1 .. Len(queue') : i < j => queue'[i].id < queue'[j].id
  <2> TAKE i, j \in 1 .. Len(queue')
  <2>1. i + 1 \in 1 .. Len(queue) /\ j + 1 \in 1 .. Len(queue) /\ (i < j => i + 1 < j + 1)
    BY <1>2
  <2> QED
    BY <1>2, <1>5, <2>1
<1>8. Ordered'
  BY <1>1, <1>4, <1>6, <1>7 DEF Ordered
<1>9. \A i \in 1 .. Len(accepted) :
        /\ accepted[i].no <= msg_counter
        /\ (msg_counter + 1) - accepted[i].no <= seen' - accepted[i].id
  <2> TAKE i \in 1 .. Len(accepted)
  <2>1. accepted[i].no \in Nat /\ accepted[i].id \in Nat
    BY RecordTypes DEF IInv
  <2>2. accepted[i].no <= msg_counter /\ msg_counter - accepted[i].no <= seen - accepted[i].id
    BY DEF IInv, Counted
  <2> QED
    BY <1>1, <1>4, <2>1, <2>2, OneMore
<1> QED
  BY <1>1, <1>2, <1>4, <1>8, <1>9

LEMMA RecvRecordKeeps ==
  ASSUME IInv, RecvRecord
  PROVE  IInv'
<1> DEFINE r == [no |-> msg_counter + 1, id |-> Head(queue).id, at |-> now]
<1>1. /\ pc = "recv" /\ data' = Append(data, r) /\ accepted' = Append(accepted, r)
      /\ pc' = (IF mode = "batch" THEN "check" ELSE "write") /\ since' = now
      /\ UNCHANGED <<mode, now, sent, next_batch_time, stored>>
  BY DEF RecvRecord, Receives
<1>2. /\ Ordered' /\ queue' \in Seq(Message)
      /\ seen \in Nat /\ seen' \in Nat /\ seen < seen' /\ seen' = Head(queue).id
      /\ msg_counter \in Nat /\ msg_counter' = msg_counter + 1
      /\ \A i \in 1 .. Len(accepted) :
           /\ accepted[i].no <= msg_counter
           /\ (msg_counter + 1) - accepted[i].no <= seen' - accepted[i].id
  BY <1>1, ReceivesFacts DEF RecvRecord
<1>3. r \in Record /\ r.no = msg_counter + 1 /\ r.id = seen' /\ r.at = now /\ now \in Nat
      /\ data \in Seq(Record) /\ accepted \in Seq(Record) /\ stored \in Seq(Record)
      /\ since \in Nat /\ next_batch_time \in Nat
  BY <1>2 DEF Record, IInv, TypeOK
<1> HIDE DEF r
<1>4. /\ data' \in Seq(Record) /\ Len(data') = Len(data) + 1 /\ Len(data) \in Nat
      /\ \A i \in 1 .. Len(data) : data'[i] = data[i]
      /\ data'[Len(data) + 1] = r
  BY <1>1, <1>3, AppendProperties, LenProperties
<1>5. /\ accepted' \in Seq(Record) /\ Len(accepted') = Len(accepted) + 1 /\ Len(accepted) \in Nat
      /\ \A i \in 1 .. Len(accepted) : accepted'[i] = accepted[i]
      /\ accepted'[Len(accepted) + 1] = r
  BY <1>1, <1>3, AppendProperties, LenProperties
<1>6. TypeOK'
  BY <1>1, <1>2, <1>3, <1>4, <1>5 DEF IInv, TypeOK
<1>7. Log'
  <2>1. stored \o data = accepted
    BY <1>1 DEF IInv, Log
  <2>2. /\ data' = data \o <<r>> /\ accepted' = accepted \o <<r>> /\ <<r>> \in Seq(Record)
    BY <1>1, <1>3, AppendIsConcat
  <2>3. stored \o data' = accepted'
    <3>1. (stored \o data) \o <<r>> = stored \o (data \o <<r>>)
      BY <1>3, <2>2, ConcatAssociative
    <3> QED
      BY <2>1, <2>2, <3>1
  <2>4. C!Begins(stored, accepted')
    <3>1. C!Begins(stored, stored \o data')
      BY <1>3, <1>4, BeginsConcat
    <3> QED
      BY <2>3, <3>1
  <2> QED
    BY <1>1, <2>3, <2>4 DEF Log, C!Begins
<1>8. \A i \in 1 .. Len(data) : data[i].at \in Nat /\
        now - data[i].at < 2 * BatchDuration
  <2>1. ASSUME NEW i \in 1 .. Len(data)
        PROVE  now - data[i].at < 2 * BatchDuration
    <3>1. data # <<>>
      BY <1>3, <1>4, <2>1, EmptySeq
    <3>2. mode = "batch"
      BY <1>1, <3>1 DEF IInv, Timely, TypeOK
    <3>3. now - since <= BatchDuration /\ since < next_batch_time
          /\ next_batch_time <= data[i].at + BatchDuration
      BY <1>1, <3>1, <3>2 DEF IInv, Timely
    <3>4. data[i].at \in Nat
      BY <2>1, RecordTypes DEF IInv
    <3> QED
      BY <1>3, <3>3, <3>4, Bounds
  <2> QED
    BY <2>1, RecordTypes DEF IInv
<1>9. \A i \in 1 .. Len(data') : now - data'[i].at < 2 * BatchDuration
  <2> TAKE i \in 1 .. Len(data')
  <2>1. CASE i \in 1 .. Len(data)
    BY <1>4, <1>8, <2>1
  <2>2. CASE i = Len(data) + 1
    BY <1>3, <1>4, <2>2, Bounds
  <2> QED
    BY <1>4, <2>1, <2>2
<1>10. mode = "batch" => \A i \in 1 .. Len(data') : next_batch_time <= data'[i].at + BatchDuration
  <2> SUFFICES ASSUME mode = "batch", NEW i \in 1 .. Len(data')
               PROVE  next_batch_time <= data'[i].at + BatchDuration
    OBVIOUS
  <2>1. CASE i \in 1 .. Len(data)
    BY <1>4, <2>1 DEF IInv, Timely
  <2>2. CASE i = Len(data) + 1
    BY <1>3, <1>4, <2>2 DEF IInv, Timely
  <2> QED
    BY <1>4, <2>1, <2>2
<1>11. Timely'
  <2>1. mode' = "batch" \/ mode' = "each"
    BY <1>1 DEF IInv, TypeOK
  <2>2. since' <= now' /\ now' - since' <= MaxWrite /\ since' = now'
    BY <1>1, <1>3, Bounds
  <2>3. mode' = "batch" => pc' = "check" /\ next_batch_time' <= now' + BatchDuration
    BY <1>1 DEF IInv, Timely
  <2>4. mode' = "each" => pc' = "write"
    BY <1>1
  <2> QED
    BY <1>1, <1>9, <1>10, <2>1, <2>2, <2>3, <2>4 DEF Timely
<1>12. WaitsBounded'
  <2>1. \A i \in 1 .. Len(data') : data'[i].at \in Nat
    <3>1. \A i \in 1 .. Len(data') : data'[i] \in Record
      BY <1>4, ElementOfSeq
    <3> QED
      BY <3>1 DEF Record
  <2> QED
    BY <1>1, <1>3, <1>9, <2>1, Bounds DEF WaitsBounded
<1>13. Counted'
  <2> SUFFICES ASSUME NEW i \in 1 .. Len(accepted')
               PROVE  accepted'[i].no <= msg_counter'
                      /\ msg_counter' - accepted'[i].no <= seen' - accepted'[i].id
    BY DEF Counted
  <2>1. CASE i \in 1 .. Len(accepted)
    <3>1. accepted[i].no \in Nat /\ accepted[i].id \in Nat
      BY <2>1, RecordTypes DEF IInv
    <3> QED
      BY <1>2, <1>5, <2>1, <3>1
  <2>2. CASE i = Len(accepted) + 1
    BY <1>2, <1>3, <1>5, <2>2
  <2> QED
    BY <1>5, <2>1, <2>2
<1>14. CountersFollow'
  <2> SUFFICES ASSUME NEW i \in 1 .. Len(accepted'), NEW j \in 1 .. Len(accepted'), i < j
               PROVE  accepted'[i].no < accepted'[j].no
                      /\ accepted'[j].no - accepted'[i].no <= accepted'[j].id - accepted'[i].id
    BY DEF CountersFollow
  <2>1. i \in 1 .. Len(accepted) /\ accepted'[i] = accepted[i]
    BY <1>5
  <2>2. accepted[i].no \in Nat /\ accepted[i].id \in Nat
    BY <2>1, RecordTypes DEF IInv
  <2>3. CASE j \in 1 .. Len(accepted)
    BY <1>5, <2>1, <2>3 DEF IInv, CountersFollow
  <2>4. CASE j = Len(accepted) + 1
    <3>1. accepted'[j].no = msg_counter + 1 /\ accepted'[j].id = seen'
      BY <1>3, <1>5, <2>4
    <3>2. accepted[i].no <= msg_counter
          /\ (msg_counter + 1) - accepted[i].no <= seen' - accepted[i].id
      BY <1>2, <2>1
    <3>3. accepted[i].no < msg_counter + 1
      BY <1>2, <2>2, <3>2
    <3> QED
      BY <2>1, <3>1, <3>2, <3>3
  <2> QED
    BY <1>5, <2>3, <2>4
<1> QED
  BY <1>2, <1>6, <1>7, <1>11, <1>12, <1>13, <1>14 DEF IInv

LEMMA RecvNothingKeeps ==
  ASSUME IInv, RecvNothing
  PROVE  IInv'
<1>1. /\ pc = "recv" /\ since' = now /\ pc' = (IF mode = "batch" THEN "check" ELSE "poll")
      /\ UNCHANGED <<mode, now, sent, next_batch_time, stored, data, accepted>>
  BY DEF RecvNothing, Receives
<1>2. /\ Ordered' /\ queue' \in Seq(Message)
      /\ seen' \in Nat /\ msg_counter \in Nat /\ msg_counter' = msg_counter + 1
      /\ \A i \in 1 .. Len(accepted) :
           /\ accepted[i].no <= msg_counter
           /\ (msg_counter + 1) - accepted[i].no <= seen' - accepted[i].id
  BY <1>1, ReceivesFacts DEF RecvNothing
<1>3. TypeOK'
  BY <1>1, <1>2 DEF IInv, TypeOK
<1>4. Counted' /\ CountersFollow'
  <2>1. \A i \in 1 .. Len(accepted) : accepted[i].no \in Nat
    BY RecordTypes DEF IInv
  <2>2. \A i \in 1 .. Len(accepted) :
          /\ accepted[i].no <= msg_counter'
          /\ msg_counter' - accepted[i].no <= seen' - accepted[i].id
    BY <1>2, <2>1
  <2> QED
    BY <1>1, <2>2 DEF IInv, Counted, CountersFollow
<1>5. ASSUME NEW i \in 1 .. Len(data)
      PROVE  mode = "batch" /\ now - data[i].at < 2 * BatchDuration
  <2>1. data # <<>>
    BY <1>5, RecordTypes, EmptySeq DEF IInv, TypeOK
  <2>2. mode = "batch"
    BY <1>1, <2>1 DEF IInv, Timely, TypeOK
  <2>3. now - since <= BatchDuration /\ since < next_batch_time
        /\ next_batch_time <= data[i].at + BatchDuration
    BY <1>1, <2>1, <2>2 DEF IInv, Timely
  <2>4. data[i].at \in Nat /\ now \in Nat /\ since \in Nat /\ next_batch_time \in Nat
    BY <1>5, RecordTypes DEF IInv, TypeOK
  <2> QED
    BY <2>2, <2>3, <2>4, Bounds
<1>6. Timely'
  <2>1. now \in Nat /\ since' <= now' /\ now' - since' <= BatchDuration
    BY <1>1, Bounds DEF IInv, TypeOK
  <2> QED
    BY <1>1, <1>5, <2>1 DEF IInv, Timely
<1>7. Log' /\ WaitsBounded'
  BY <1>1, LogKept DEF IInv, WaitsBounded
<1> QED
  BY <1>2, <1>3, <1>4, <1>6, <1>7 DEF IInv

LEMMA RecvBadKeeps ==
  ASSUME IInv, RecvBad
  PROVE  IInv'
<1>1. /\ pc = "recv" /\ pc' = "dead"
      /\ UNCHANGED <<mode, now, sent, since, next_batch_time, stored, data, accepted>>
  BY DEF RecvBad, Receives
<1>2. /\ Ordered' /\ queue' \in Seq(Message)
      /\ seen' \in Nat /\ msg_counter \in Nat /\ msg_counter' = msg_counter + 1
      /\ \A i \in 1 .. Len(accepted) :
           /\ accepted[i].no <= msg_counter
           /\ (msg_counter + 1) - accepted[i].no <= seen' - accepted[i].id
  BY <1>1, ReceivesFacts DEF RecvBad
<1>3. TypeOK'
  BY <1>1, <1>2 DEF IInv, TypeOK
<1>4. Counted' /\ CountersFollow'
  <2>1. \A i \in 1 .. Len(accepted) : accepted[i].no \in Nat
    BY RecordTypes DEF IInv
  <2>2. \A i \in 1 .. Len(accepted) :
          /\ accepted[i].no <= msg_counter'
          /\ msg_counter' - accepted[i].no <= seen' - accepted[i].id
    BY <1>2, <2>1
  <2> QED
    BY <1>1, <2>2 DEF IInv, Counted, CountersFollow
<1>5. Log' /\ WaitsBounded' /\ Timely'
  BY <1>1, LogKept DEF IInv, WaitsBounded, Timely
<1> QED
  BY <1>2, <1>3, <1>4, <1>5 DEF IInv

-----------------------------------------------------------------------------
(* The test, the writes and the end.                                       *)

LEMMA CheckKeeps ==
  ASSUME IInv, Check
  PROVE  IInv'
<1>1. /\ pc = "check" /\ since' = now /\ pc' = (IF Due THEN "write" ELSE "poll")
      /\ UNCHANGED <<mode, now, sent, queue, data, next_batch_time, stored, msg_counter,
                    accepted, seen>>
  BY DEF Check, socket, batch, received
<1>2. now \in Nat /\ next_batch_time \in Nat
  BY DEF IInv, TypeOK
<1>3. mode = "batch"
  BY <1>1 DEF IInv, Timely, TypeOK
<1>4. Timely'
  <2>1. since' <= now' /\ now' - since' <= BatchDuration /\ now' - since' <= MaxWrite
    BY <1>1, <1>2, Bounds
  <2>2. pc' = "poll" /\ data' # <<>> => since' < next_batch_time'
    BY <1>1, <1>2 DEF Due
  <2> QED
    BY <1>1, <1>3, <2>1, <2>2 DEF IInv, Timely
<1>5. Log' /\ Counted' /\ CountersFollow' /\ WaitsBounded' /\ Ordered' /\ TypeOK'
  BY <1>1, LogKept, CountsKept DEF IInv, WaitsBounded, Ordered, TypeOK
<1> QED
  BY <1>4, <1>5 DEF IInv

LEMMA WriteKeeps ==
  ASSUME IInv, Write
  PROVE  IInv' /\ stored' = accepted
<1>1. /\ pc = "write" /\ pc' = "poll" /\ since' = now
      /\ stored' = stored \o data /\ data' = <<>>
      /\ next_batch_time' = (IF mode = "batch" THEN since + BatchDuration ELSE next_batch_time)
      /\ UNCHANGED <<mode, now, sent, queue, msg_counter, accepted, seen>>
  BY DEF Write, socket, received
<1>2. now \in Nat /\ since \in Nat /\ next_batch_time \in Nat /\ since <= now
      /\ accepted \in Seq(Record)
  BY DEF IInv, TypeOK, Timely
<1>3. stored' = accepted
  BY <1>1 DEF IInv, Log
<1>4. data' \in Seq(Record) /\ Len(data') = 0
  BY <1>1, EmptySeq
<1>5. next_batch_time' \in Nat /\ (mode = "batch" => next_batch_time' <= now' + BatchDuration)
  BY <1>1, <1>2, Bounds
<1>6. Log'
  <2>1. accepted \o <<>> = accepted
    BY <1>2, ConcatEmptySeq
  <2>2. C!Begins(accepted, accepted \o <<>>)
    BY <1>2, <1>4, <1>1, BeginsConcat
  <2> QED
    BY <1>1, <1>3, <2>1, <2>2 DEF Log, C!Begins
<1>7. Timely'
  BY <1>1, <1>2, <1>4, <1>5, Bounds DEF IInv, Timely
<1>8. Counted' /\ CountersFollow' /\ WaitsBounded' /\ Ordered'
  BY <1>1, <1>4, CountsKept DEF IInv, WaitsBounded, Ordered
<1>9. TypeOK'
  BY <1>1, <1>2, <1>3, <1>4, <1>5 DEF IInv, TypeOK
<1> QED
  BY <1>3, <1>6, <1>7, <1>8, <1>9 DEF IInv

LEMMA WriteFailsKeeps ==
  ASSUME IInv, WriteFails
  PROVE  IInv' /\ C!Begins(stored, stored') /\ C!Begins(stored', accepted)
<1>1. /\ pc = "write" /\ pc' = "dead"
      /\ UNCHANGED <<mode, now, sent, queue, since, data, next_batch_time, msg_counter,
                    accepted, seen>>
  BY DEF WriteFails, socket, received
<1>2. PICK n \in 0 .. Len(data) : stored' = stored \o SubSeq(data, 1, n)
  BY DEF WriteFails
<1>3. data \in Seq(Record) /\ stored \in Seq(Record) /\ stored \o data = accepted
  BY <1>1 DEF IInv, TypeOK, Log
<1>4. /\ SubSeq(data, 1, n) \in Seq(Record)
      /\ C!Begins(stored \o SubSeq(data, 1, n), stored \o data)
  BY <1>3, BeginsPart
<1>5. stored' \in Seq(Record)
  BY <1>2, <1>3, <1>4, ConcatProperties
<1>6. C!Begins(stored, stored')
  <2>1. C!Begins(stored, stored \o SubSeq(data, 1, n))
    BY <1>3, <1>4, BeginsConcat
  <2> QED
    BY <1>2, <2>1
<1>7. C!Begins(stored', accepted)
  BY <1>2, <1>3, <1>4
<1>8. Log'
  BY <1>1, <1>7 DEF Log, C!Begins
<1>9. Timely' /\ Counted' /\ CountersFollow' /\ WaitsBounded' /\ Ordered' /\ TypeOK'
  BY <1>1, <1>5, CountsKept DEF IInv, Timely, WaitsBounded, Ordered, TypeOK
<1> QED
  BY <1>6, <1>7, <1>8, <1>9 DEF IInv

LEMMA TerminateKeeps ==
  ASSUME IInv, Terminate
  PROVE  IInv'
<1>1. /\ pc' = "dead"
      /\ UNCHANGED <<mode, now, sent, queue, since, data, next_batch_time, stored, msg_counter,
                    accepted, seen>>
  BY DEF Terminate, socket, batch, received
<1> QED
  BY <1>1, LogKept, CountsKept DEF IInv, Timely, WaitsBounded, Ordered, TypeOK

LEMMA StutterKeeps ==
  ASSUME IInv, UNCHANGED vars
  PROVE  IInv'
<1>1. UNCHANGED <<mode, now, sent, queue, pc, since, data, next_batch_time, stored, msg_counter,
                  accepted, seen>>
  BY DEF vars, socket, batch, received
<1> QED
  BY <1>1, LogKept, CountsKept DEF IInv, Timely, WaitsBounded, Ordered, TypeOK

-----------------------------------------------------------------------------
(* The theorems.                                                           *)

LEMMA InitIInv ==
  ASSUME Init
  PROVE  IInv
<1>1. <<>> \in Seq(Message) /\ <<>> \in Seq(Record) /\ Len(<<>>) = 0
  BY EmptySeq
<1>2. <<>> \o <<>> = <<>> /\ C!Begins(<<>>, <<>>)
  <2>1. <<>> \o <<>> = <<>>
    BY <1>1, ConcatEmptySeq
  <2>2. C!Begins(<<>>, <<>> \o <<>>)
    BY <1>1, BeginsConcat
  <2> QED
    BY <2>1, <2>2
<1>3. TypeOK
  BY <1>1, Bounds DEF Init, TypeOK
<1>4. Log
  BY <1>2 DEF Init, Log
<1>5. Timely
  BY <1>1, Bounds DEF Init, Timely
<1> QED
  BY <1>1, <1>3, <1>4, <1>5 DEF Init, IInv, Ordered, Counted, WaitsBounded, CountersFollow

LEMMA StepIInv ==
  ASSUME IInv, [Next]_vars
  PROVE  IInv'
BY PublishKeeps, TickKeeps, PollKeeps, RecvRecordKeeps, RecvNothingKeeps, RecvBadKeeps,
   CheckKeeps, WriteKeeps, WriteFailsKeeps, TerminateKeeps, StutterKeeps DEF Next

(* Every behaviour keeps the inductive invariant.                          *)
THEOREM Invariance == Spec => []IInv
<1>1. Init => IInv
  BY InitIInv
<1>2. IInv /\ [Next]_vars => IInv'
  BY StepIInv
<1> QED
  BY <1>1, <1>2, PTL DEF Spec

(* The variables keep their types.                                         *)
THEOREM TypeCorrect == Spec => []TypeOK
<1>1. IInv => TypeOK
  BY DEF IInv
<1> QED
  BY <1>1, Invariance, PTL

(* A record waits for less than two batch durations and a write            *)
(* (start_collect_batch).                                                  *)
THEOREM RecordsAreFresh == Spec => []WaitsBounded
<1>1. IInv => WaitsBounded
  BY DEF IInv
<1> QED
  BY <1>1, Invariance, PTL

(* Two msg_counters are no further apart than the messages they count, and *)
(* in their order.                                                         *)
THEOREM CountersAreOrdered == Spec => []CountersFollow
<1>1. IInv => CountersFollow
  BY DEF IInv
<1> QED
  BY <1>1, Invariance, PTL

(* The monitor implements the collector: what it accepted comes to the     *)
(* database in order and once, but for the end of it when it ends.         *)
THEOREM MonitorCollects == Spec => Collects
<1>1. Init => C!Init
  BY DEF Init, C!Init
<1>2. IInv /\ [Next]_vars => [C!Next]_<<accepted, stored, pc # "dead">>
  <2> SUFFICES ASSUME IInv, [Next]_vars
               PROVE  C!Next \/ UNCHANGED <<accepted, stored, pc # "dead">>
    OBVIOUS
  <2>1. CASE Publish \/ Tick \/ Poll \/ Check \/ RecvNothing \/ UNCHANGED vars
    BY <2>1 DEF Publish, Tick, Poll, Check, RecvNothing, Receives, vars, batch, received
  <2>2. CASE RecvRecord
    <3> DEFINE r == [no |-> msg_counter + 1, id |-> Head(queue).id, at |-> now]
    <3>1. accepted' = Append(accepted, r) /\ pc = "recv" /\ pc' # "dead" /\ stored' = stored
      BY <2>2 DEF RecvRecord, Receives
    <3>2. accepted \in Seq(Record) /\ IInv'
      BY <2>2, RecvRecordKeeps DEF IInv, TypeOK
    <3>3. r \in Record
      <4>1. Head(queue) \in Message
        <5>1. queue \in Seq(Message) /\ queue # <<>>
          BY <3>1 DEF IInv, TypeOK, Ordered
        <5> QED
          BY <5>1, HeadTailProperties
      <4> QED
        BY <4>1 DEF Record, Message, IInv, TypeOK
    <3> HIDE DEF r
    <3>4. Len(accepted') = Len(accepted) + 1 /\ accepted' = accepted \o <<r>>
      BY <3>1, <3>2, <3>3, AppendProperties, AppendIsConcat
    <3>5. <<r>> \in Seq(Record)
      BY <3>3
    <3>6. C!Begins(accepted, accepted')
      <4>1. C!Begins(accepted, accepted \o <<r>>)
        BY <3>2, <3>5, BeginsConcat
      <4> QED
        BY <3>4, <4>1
    <3> QED
      BY <3>1, <3>4, <3>6 DEF C!Next, C!Accept
  <2>3. CASE Write
    <3>1. stored' = accepted /\ pc = "write" /\ pc' = "poll" /\ accepted' = accepted
      BY <2>3, WriteKeeps DEF Write, received
    <3> QED
      BY <3>1 DEF C!Next, C!Deliver
  <2>4. CASE WriteFails
    <3>1. /\ C!Begins(stored, stored') /\ C!Begins(stored', accepted)
          /\ pc = "write" /\ pc' = "dead" /\ accepted' = accepted
      BY <2>4, WriteFailsKeeps DEF WriteFails, received
    <3> QED
      BY <3>1 DEF C!Next, C!Die
  <2>5. CASE RecvBad \/ Terminate
    <3>1. pc # "dead" /\ pc' = "dead" /\ accepted' = accepted /\ stored' = stored
      BY <2>5 DEF RecvBad, Receives, Terminate, batch, received
    <3>2. stored \in Seq(Record) /\ <<>> \in Seq(Record)
      BY EmptySeq DEF IInv, TypeOK
    <3>3. C!Begins(stored, stored)
      <4>1. C!Begins(stored, stored \o <<>>) /\ stored \o <<>> = stored
        BY <3>2, BeginsConcat, ConcatEmptySeq
      <4> QED
        BY <4>1
    <3>4. C!Begins(stored, accepted)
      BY DEF IInv, Log
    <3> QED
      BY <3>1, <3>3, <3>4 DEF C!Next, C!Die
  <2> QED
    BY <2>1, <2>2, <2>3, <2>4, <2>5 DEF Next
<1> QED
  BY <1>1, <1>2, Invariance, PTL DEF Spec, Collects, C!Spec, C!cvars

=============================================================================
