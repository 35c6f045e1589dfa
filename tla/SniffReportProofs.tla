------------------------- MODULE SniffReportProofs -------------------------
(* Proofs about SniffReport for every width of the fields and every bound. *)
EXTENDS SniffReport, FiniteSetTheorems, TLAPS

-----------------------------------------------------------------------------
(* The inductive invariant.                                                *)

(* The attributes of the report and the history begin with the first one.  *)
Begun ==
  /\ rep.expected = None <=> hist.count = 0
  /\ hist.first = None <=> hist.count = 0
  /\ hist.count = 0 => rep.lost = 0 /\ rep.intervals = 0

(* The first number that the report has not gone past.                     *)
Low == IF rep.expected = None THEN 0 ELSE rep.expected

(* A fifo link: what is in flight has not been gone past or lost, and has  *)
(* a number of its own; everything sent that was not gone past is in       *)
(* flight or lost.                                                         *)
InFlight ==
  /\ \A p \in net : Low <= p.seq /\ p.seq < next /\ p.seq \notin hist.dropped
  /\ \A p, q \in net : p.seq = q.seq => p = q
  /\ \A s \in Nat : Low <= s /\ s < next =>
       s \in hist.dropped \/ \E p \in net : p.seq = s
  /\ \A s \in hist.dropped : s < next

(* The gaps counted so far fit in what the report has gone past.           *)
Counted ==
  rep.expected # None =>
    /\ hist.first < rep.expected /\ rep.expected <= next
    /\ 0 <= rep.lost /\ rep.lost < rep.expected

Fifo == link = "fifo" => InFlight /\ Counted

IInv ==
  /\ TypeOK /\ Begun /\ Fifo
  /\ LossClosedForm /\ LossExact /\ RateInRange /\ SnifferSurvives /\ WindowFull

-----------------------------------------------------------------------------
(* What a packet that is parsed does to the report.                        *)

LEMMA ReportFields ==
  ASSUME TypeOK, NEW p \in net, Parse(p)
  PROVE  /\ rep'.lost = Lost(p) /\ rep'.expected = p.seq + 1
         /\ rep'.per = Rate(p) /\ rep'.intervals = Intervals
         /\ hist'.count = hist.count + 1 /\ hist'.dropped = hist.dropped
         /\ hist'.first = IF hist.first = None THEN p.seq ELSE hist.first
         /\ hist' \in [count : Nat, first : Nat \cup {None}, dropped : SUBSET Nat]
         /\ p.seq \in Nat /\ p.at \in Nat /\ p.ts \in Nat
<1>1. p.seq \in Nat /\ p.at \in Nat /\ p.ts \in Nat
  BY DEF TypeOK, Packet
<1>2. rep' = [lost |-> Lost(p), expected |-> p.seq + 1, per |-> Rate(p), intervals |-> Intervals]
  BY DEF Parse
<1>3. hist' = [count |-> hist.count + 1,
               first |-> IF hist.first = None THEN p.seq ELSE hist.first,
               dropped |-> hist.dropped]
  BY DEF Parse, TypeOK
<1> QED
  BY <1>1, <1>2, <1>3 DEF TypeOK

LEMMA ReportType ==
  ASSUME TypeOK, Begun, NEW p \in net, Parse(p)
  PROVE  rep' \in Report
<1>1. p.seq \in Nat /\ rep.lost \in Int /\ rep.expected \in Nat \cup {None} /\ rep.intervals \in Nat
  BY DEF TypeOK, Packet, Report
<1>2. Lost(p) \in Int
  BY <1>1 DEF Lost, None
<1>3. Rate(p) \in [num : Int, den : Nat \ {0}]
  <2>1. CASE rep.expected = None \/ p.seq = 0
    BY <2>1 DEF Rate, TypeOK, Report
  <2>2. CASE ~(rep.expected = None \/ p.seq = 0)
    BY <1>1, <1>2, <2>2 DEF Rate
  <2> QED
    BY <2>1, <2>2
<1>4. Intervals \in Nat
  BY <1>1 DEF Intervals
<1>5. p.seq + 1 \in Nat \cup {None}
  BY <1>1
<1> QED
  BY <1>2, <1>3, <1>4, <1>5 DEF Parse, Report

LEMMA ParseType ==
  ASSUME IInv, NEW p \in net, Parse(p)
  PROVE  TypeOK'
<1>1. rep' \in Report
  BY ReportType DEF IInv
<1>2. net' \subseteq Packet /\ IsFiniteSet(net')
  BY FS_Subset DEF IInv, TypeOK, Parse, Arrives
<1>3. record' \in [latency : Int, delay : Int]
  <2>1. p.ts \in Nat /\ p.at \in Nat /\ now \in Nat
    BY DEF IInv, TypeOK, Packet
  <2>2. TsMod \in Nat \ {0} /\ now % TsMod \in Nat
    BY <2>1, SniffReportAssumption
  <2>3. IcmpLatency(p) \in Int /\ L2Latency(p) \in Int /\ now - p.at \in Int
    BY <2>1, <2>2 DEF IcmpLatency, L2Latency
  <2> QED
    BY <2>3 DEF Parse
<1> QED
  BY <1>1, <1>2, <1>3, ReportFields DEF IInv, TypeOK, Parse, Arrives

LEMMA ParseBegun ==
  ASSUME IInv, NEW p \in net, Parse(p)
  PROVE  Begun' /\ LossClosedForm' /\ WindowFull'
<1>1. p.seq \in Nat /\ hist.count \in Nat /\ rep.lost \in Int /\ rep.intervals \in Nat
      /\ rep.expected \in Nat \cup {None} /\ hist.first \in Nat \cup {None} /\ None \notin Nat
  BY DEF IInv, TypeOK, Packet, Report, None
<1>2. Begun'
  BY <1>1, ReportFields DEF IInv, Begun, None
<1>3. LossClosedForm'
  <2>1. /\ rep'.lost = Lost(p) /\ rep'.expected = p.seq + 1
        /\ hist'.count = hist.count + 1
        /\ hist'.first = IF hist.first = None THEN p.seq ELSE hist.first
    BY ReportFields DEF IInv
  <2>2. CASE hist.count = 0
    <3>1. rep'.lost = 0 /\ hist'.first = p.seq /\ hist'.count = 1
      BY <1>1, <2>1, <2>2 DEF IInv, Begun, Lost
    <3> QED
      BY <1>1, <2>1, <3>1 DEF LossClosedForm
  <2>3. CASE hist.count # 0
    <3>1. /\ rep.expected \in Nat /\ hist.first \in Nat
          /\ rep.lost = rep.expected - hist.first - hist.count
      BY <1>1, <2>3 DEF IInv, Begun, LossClosedForm
    <3>2. rep'.lost = rep.lost + p.seq - rep.expected /\ hist'.first = hist.first
      BY <1>1, <2>1, <3>1 DEF Lost
    <3>3. rep'.lost = (p.seq + 1) - hist.first - (hist.count + 1)
      <4> DEFINE l == rep.lost
                 e == rep.expected
                 f == hist.first
                 c == hist.count
                 n == rep'.lost
      <4>1. l = e - f - c /\ n = l + p.seq - e /\ p.seq \in Nat
            /\ e \in Nat /\ f \in Nat /\ c \in Nat
        BY <1>1, <3>1, <3>2
      <4> HIDE DEF l, e, f, c, n
      <4>2. n = (p.seq + 1) - f - (c + 1)
        BY <4>1
      <4> QED
        BY <4>2 DEF n, f, c
    <3> QED
      BY <2>1, <3>2, <3>3 DEF LossClosedForm
  <2> QED
    BY <2>2, <2>3
<1>4. WindowFull'
  <2>1. kind' = kind
    BY DEF Parse, Arrives
  <2>2. Window \in Nat \ {0}
    BY SniffReportAssumption
  <2> QED
    <3>1. CASE hist.count = 0
      BY <1>1, <2>1, <2>2, <3>1, ReportFields DEF IInv, WindowFull, Begun, Intervals
    <3>2. CASE hist.count > 0 /\ kind = "l2"
      <4>1. rep.intervals = IF hist.count < Window THEN hist.count - 1 ELSE Window - 1
        BY <3>2 DEF IInv, WindowFull
      <4>2. rep'.intervals = IF rep.intervals + 1 >= Window THEN rep.intervals ELSE rep.intervals + 1
        BY <1>1, <3>2, ReportFields DEF IInv, Begun, Intervals
      <4>3. hist'.count = hist.count + 1
        BY ReportFields DEF IInv
      <4> QED
        BY <1>1, <2>2, <3>2, <4>1, <4>2, <4>3 DEF WindowFull
    <3>3. CASE kind # "l2"
      BY <2>1, <3>3 DEF WindowFull
    <3> QED
      BY <1>1, <3>1, <3>2, <3>3
<1> QED
  BY <1>2, <1>3, <1>4

LEMMA ParseFifo ==
  ASSUME IInv, NEW p \in net, Parse(p), link = "fifo"
  PROVE  InFlight' /\ Counted' /\ RateInRange'
<1>1. /\ p.seq \in Nat /\ rep.lost \in Int /\ next \in Nat /\ next' = next
      /\ rep.expected \in Nat \cup {None} /\ hist.first \in Nat \cup {None} /\ None \notin Nat
  BY SniffReportAssumption DEF IInv, TypeOK, Packet, Report, None, Parse, Arrives
<1>2. Low <= p.seq /\ p.seq < next
  BY DEF IInv, Fifo, InFlight
<1>3. InFlight'
  <2>1. net' = net \ {p} /\ Oldest(p)
    BY DEF Parse, Arrives
  <2>2. \A q \in net : q.seq \in Nat
    BY DEF IInv, TypeOK, Packet
  <2>3. Low' = p.seq + 1
    BY <1>1, ReportFields DEF IInv, Low
  <2>4. \A q \in net' : Low' <= q.seq /\ q.seq < next' /\ q.seq \notin hist'.dropped
    <3> TAKE q \in net'
    <3>1. p.seq <= q.seq /\ q.seq # p.seq
      BY <2>1 DEF Oldest, IInv, Fifo, InFlight
    <3> QED
      BY <1>1, <2>1, <2>2, <2>3, <3>1, ReportFields DEF IInv, Fifo, InFlight
  <2>5. \A s \in Nat : Low' <= s /\ s < next' => s \in hist'.dropped \/ \E q \in net' : q.seq = s
    <3> SUFFICES ASSUME NEW s \in Nat, Low' <= s, s < next', s \notin hist'.dropped
                 PROVE  \E q \in net' : q.seq = s
      OBVIOUS
    <3>1. s \notin hist.dropped
      BY ReportFields DEF IInv
    <3>2. Low <= s
      BY <1>1, <1>2, <2>3 DEF Low
    <3>3. PICK q \in net : q.seq = s
      BY <1>1, <3>1, <3>2 DEF IInv, Fifo, InFlight
    <3> QED
      BY <1>1, <2>1, <2>3, <3>3
  <2>6. \A q, r \in net' : q.seq = r.seq => q = r
    BY <2>1 DEF IInv, Fifo, InFlight
  <2>7. \A s \in hist'.dropped : s < next'
    BY <1>1, ReportFields DEF IInv, Fifo, InFlight
  <2> QED
    BY <2>4, <2>5, <2>6, <2>7 DEF InFlight
<1>4. Counted'
  BY <1>1, <1>2, ReportFields DEF IInv, Counted, Fifo, Lost, Low, Begun
<1>5. RateInRange'
  <2>1. rep'.per = Rate(p) /\ link' = link
    BY ReportFields DEF IInv, Parse, Arrives
  <2>2. CASE rep.expected = None \/ p.seq = 0
    BY <2>1, <2>2 DEF IInv, RateInRange, Rate
  <2>3. CASE ~(rep.expected = None \/ p.seq = 0)
    <3>1. 0 <= Lost(p) /\ Lost(p) <= p.seq
      BY <1>1, <1>2, <2>3 DEF IInv, Counted, Fifo, Lost, Low
    <3>2. Rate(p) = [num |-> Lost(p), den |-> p.seq]
      BY <2>3 DEF Rate
    <3> QED
      BY <2>1, <3>1, <3>2 DEF RateInRange
  <2> QED
    BY <2>2, <2>3
<1> QED
  BY <1>3, <1>4, <1>5

(* The gap before packet p, on a fifo link, is what has been lost of it.   *)
LEMMA ParseExact ==
  ASSUME IInv, NEW p \in net, Parse(p), link = "fifo"
  PROVE  LossExact'
<1> DEFINE Gap(a, b) == {s \in hist.dropped : a <= s /\ s < b}
<1>1. /\ p.seq \in Nat /\ rep.lost \in Int /\ next \in Nat
      /\ rep.expected \in Nat \cup {None} /\ hist.first \in Nat \cup {None} /\ None \notin Nat
      /\ hist.dropped \subseteq Nat
  BY SniffReportAssumption DEF IInv, TypeOK, Packet, Report, None
<1>2. Low <= p.seq /\ p.seq < next /\ p.seq \notin hist.dropped
  BY DEF IInv, Fifo, InFlight
<1>3. rep'.lost = Cardinality(Gap(hist'.first, p.seq + 1))
  <2>1. CASE rep.expected = None
    <3>1. hist'.first = p.seq /\ rep'.lost = 0
      BY <2>1, ReportFields DEF IInv, Begun, Lost
    <3>2. Gap(p.seq, p.seq + 1) = {}
      BY <1>1, <1>2
    <3> QED
      BY <3>1, <3>2, FS_EmptySet
  <2>2. CASE rep.expected # None
    <3> DEFINE a == hist.first
               e == rep.expected
    <3>1. a \in Nat /\ e \in Nat /\ a < e /\ e <= p.seq /\ hist'.first = a
      BY <1>1, <1>2, <2>2, ReportFields DEF IInv, Begun, Fifo, Counted, Low
    <3>2. rep'.lost = rep.lost + (p.seq - e) /\ rep.lost = Cardinality(Gap(a, e))
      BY <1>1, <2>2, ReportFields DEF IInv, Lost, LossExact, Begun, TypeOK
    <3>3. e .. p.seq - 1 \subseteq hist.dropped
      <4> SUFFICES ASSUME NEW s \in e .. p.seq - 1 PROVE s \in hist.dropped
        OBVIOUS
      <4>1. s \in Nat /\ Low <= s /\ s < p.seq /\ s < next
        BY <1>1, <1>2, <2>2, <3>1 DEF Low
      <4>2. ~\E q \in net : q.seq = s
        <5>1. \A q \in net : q.seq \in Nat /\ p.seq <= q.seq
          BY DEF Parse, Arrives, Oldest, IInv, TypeOK, Packet
        <5> QED
          BY <5>1, <4>1, <1>1
      <4> QED
        BY <4>1, <4>2 DEF IInv, Fifo, InFlight
    <3>4. Gap(a, p.seq + 1) = Gap(a, e) \cup (e .. p.seq - 1)
      <4>1. ASSUME NEW s PROVE s \in Gap(a, p.seq + 1) <=> s \in Gap(a, e) \cup (e .. p.seq - 1)
        BY <1>1, <1>2, <3>1, <3>3
      <4> QED
        BY <4>1
    <3>5. Gap(a, e) \cap (e .. p.seq - 1) = {}
      BY <1>1, <3>1
    <3>6. IsFiniteSet(Gap(a, e))
      <4>1. Gap(a, e) \subseteq a .. e - 1
        BY <1>1, <3>1
      <4>2. IsFiniteSet(a .. e - 1)
        BY <3>1, FS_Interval
      <4> QED
        BY <4>1, <4>2, FS_Subset
    <3>7. IsFiniteSet(e .. p.seq - 1) /\ Cardinality(e .. p.seq - 1) = p.seq - e
      <4>1. e \in Int /\ p.seq - 1 \in Int
        BY <1>1, <3>1
      <4>2. /\ IsFiniteSet(e .. p.seq - 1)
            /\ Cardinality(e .. p.seq - 1) = IF e > p.seq - 1 THEN 0 ELSE p.seq - 1 - e + 1
        BY <4>1, FS_Interval
      <4> QED
        BY <1>1, <3>1, <4>2
    <3>8. Cardinality(Gap(a, e) \cup (e .. p.seq - 1))
            = Cardinality(Gap(a, e)) + Cardinality(e .. p.seq - 1)
              - Cardinality(Gap(a, e) \cap (e .. p.seq - 1))
      BY <3>6, <3>7, FS_Union
    <3>9. Cardinality(Gap(a, e)) \in Nat
      BY <3>6, FS_CardinalityType
    <3>10. Cardinality(Gap(a, p.seq + 1)) = Cardinality(Gap(a, e)) + (p.seq - e)
      <4> HIDE DEF Gap, a, e
      <4>1. Cardinality(Gap(a, e) \cap (e .. p.seq - 1)) = 0
        BY <3>5, FS_EmptySet
      <4>2. Cardinality(Gap(a, p.seq + 1)) = Cardinality(Gap(a, e) \cup (e .. p.seq - 1))
        BY <3>4
      <4>3. Cardinality(e .. p.seq - 1) = p.seq - e /\ p.seq \in Nat /\ e \in Nat
        BY <1>1, <3>1, <3>7
      <4> DEFINE c1 == Cardinality(Gap(a, e))
                 c2 == Cardinality(e .. p.seq - 1)
                 c3 == Cardinality(Gap(a, e) \cap (e .. p.seq - 1))
                 c4 == Cardinality(Gap(a, e) \cup (e .. p.seq - 1))
      <4>4. c4 = c1 + c2 - c3 /\ c3 = 0 /\ c2 = p.seq - e /\ c1 \in Nat
        BY <3>8, <3>9, <4>1, <4>3
      <4>5. Cardinality(Gap(a, p.seq + 1)) = c4
        BY <4>2
      <4> HIDE DEF c1, c2, c3, c4
      <4>6. c4 = c1 + (p.seq - e)
        BY <4>3, <4>4
      <4> USE DEF c1
      <4> QED
        BY <4>5, <4>6
    <3> QED
      BY <3>1, <3>2, <3>10
  <2> QED
    BY <2>1, <2>2
<1> QED
  BY <1>1, <1>3, ReportFields DEF IInv, LossExact

-----------------------------------------------------------------------------
(* The other steps.                                                        *)

LEMMA SendKeeps ==
  ASSUME IInv, Send
  PROVE  IInv'
<1>1. next \in 0 .. SeqMod /\ SeqMod \in Nat /\ now \in Nat /\ now % TsMod \in Nat
  BY SniffReportAssumption DEF IInv, TypeOK
<1>2. UNCHANGED <<kind, link, now, snf, rep, record, hist>>
  BY DEF Send
<1>3. CASE next < SeqMod
  <2> DEFINE new == [seq |-> next, ts |-> now % TsMod, at |-> now]
  <2>1. net' = net \cup {new} /\ next' = next + 1 /\ gen' = gen /\ next' \in 0 .. SeqMod
    BY <1>1, <1>3 DEF Send
  <2>2. new \in Packet
    BY <1>1 DEF Packet
  <2>3. IsFiniteSet(net')
    BY <2>1, FS_AddElement DEF IInv, TypeOK
  <2>4. TypeOK'
    BY <1>2, <2>1, <2>2, <2>3 DEF IInv, TypeOK
  <2>5. ASSUME link = "fifo" PROVE InFlight' /\ Counted'
    <3>1. InFlight /\ Counted /\ Low' = Low /\ \A q \in net : q.seq \in Nat
      BY <1>2, <2>5 DEF IInv, Fifo, Low, TypeOK, Packet
    <3>2. Low <= next /\ Low \in Nat
      BY <1>1, <3>1 DEF Low, Counted, IInv, TypeOK, Report, None
    <3>3. new.seq = next /\ \A s \in hist.dropped : s \in Nat /\ s < next
      BY <3>1 DEF InFlight, IInv, TypeOK
    <3>4. \A q \in net' : Low' <= q.seq /\ q.seq < next' /\ q.seq \notin hist'.dropped
      BY <1>1, <1>2, <2>1, <3>1, <3>2, <3>3 DEF InFlight
    <3>5. \A p, q \in net' : p.seq = q.seq => p = q
      BY <1>1, <2>1, <3>1, <3>3 DEF InFlight
    <3>6. \A s \in Nat : Low' <= s /\ s < next' =>
            s \in hist'.dropped \/ \E p \in net' : p.seq = s
      <4> TAKE s \in Nat
      <4>1. CASE s = next
        BY <2>1, <3>3, <4>1
      <4>2. CASE s # next
        BY <1>1, <1>2, <2>1, <3>1, <4>2 DEF InFlight
      <4> QED
        BY <4>1, <4>2
    <3>7. Counted'
      BY <1>1, <1>2, <2>1, <3>1 DEF Counted, IInv, TypeOK, Report, None
    <3>8. \A s \in hist'.dropped : s < next'
      BY <1>1, <1>2, <2>1, <3>3
    <3> QED
      BY <3>4, <3>5, <3>6, <3>7, <3>8 DEF InFlight
  <2> QED
    BY <1>2, <2>4, <2>5
    DEF IInv, Begun, Fifo, LossClosedForm, LossExact, RateInRange, SnifferSurvives, WindowFull
<1>4. CASE ~(next < SeqMod)
  BY <1>2, <1>4
  DEF Send, IInv, TypeOK, Begun, Fifo, InFlight, Counted, Low, LossClosedForm, LossExact,
      RateInRange, SnifferSurvives, WindowFull
<1> QED
  BY <1>3, <1>4

LEMMA LoseKeeps ==
  ASSUME IInv, NEW p \in net, Lose(p)
  PROVE  IInv'
<1>1. p.seq \in Nat /\ hist.dropped \subseteq Nat /\ hist.first \in Nat \cup {None}
      /\ rep.expected \in Nat \cup {None} /\ \A q \in net : q.seq \in Nat
  BY DEF IInv, TypeOK, Packet, Report
<1>2. UNCHANGED <<kind, link, now, next, gen, snf, rep, record>> /\ net' = net \ {p}
  BY DEF Lose
<1>3. hist' = [count |-> hist.count, first |-> hist.first, dropped |-> hist.dropped \cup {p.seq}]
  BY DEF Lose, IInv, TypeOK
<1>4. TypeOK'
  BY <1>1, <1>2, <1>3, FS_Subset DEF IInv, TypeOK
<1>5. ASSUME link = "fifo" PROVE InFlight' /\ Counted'
  <2>1. InFlight /\ Counted /\ Low' = Low
    BY <1>2, <1>5 DEF IInv, Fifo, Low
  <2>2. \A q \in net' : Low' <= q.seq /\ q.seq < next' /\ q.seq \notin hist'.dropped
    BY <1>2, <1>3, <2>1 DEF InFlight
  <2>3. \A s \in Nat : Low' <= s /\ s < next' =>
          s \in hist'.dropped \/ \E q \in net' : q.seq = s
    BY <1>2, <1>3, <2>1 DEF InFlight
  <2> QED
    BY <1>2, <1>3, <2>1, <2>2, <2>3 DEF InFlight, Counted
<1>6. LossExact'
  <2> SUFFICES ASSUME link = "fifo", hist.count > 0
               PROVE  rep.lost = Cardinality({s \in hist'.dropped :
                                                hist.first <= s /\ s < rep.expected})
    BY <1>2, <1>3 DEF LossExact
  <2>1. rep.expected # None /\ rep.expected <= p.seq /\ rep.expected \in Nat
    BY <1>1 DEF IInv, Begun, Fifo, InFlight, Low, TypeOK
  <2>2. {s \in hist'.dropped : hist.first <= s /\ s < rep.expected}
          = {s \in hist.dropped : hist.first <= s /\ s < rep.expected}
    <3>1. ~(p.seq < rep.expected)
      BY <1>1, <2>1
    <3> QED
      BY <1>3, <3>1
  <2> QED
    BY <2>2 DEF IInv, LossExact
<1> QED
  BY <1>2, <1>3, <1>4, <1>5, <1>6
  DEF IInv, Begun, Fifo, LossClosedForm, RateInRange, SnifferSurvives, WindowFull

LEMMA ParseKeeps ==
  ASSUME IInv, NEW p \in net, Parse(p)
  PROVE  IInv'
<1>1. link' = link /\ snf' = snf
  BY DEF Parse, Arrives
<1>2. CASE link = "fifo"
  BY <1>1, <1>2, ParseType, ParseBegun, ParseFifo, ParseExact DEF IInv, Fifo, SnifferSurvives
<1>3. CASE link # "fifo"
  BY <1>1, <1>3, ParseType, ParseBegun
  DEF IInv, Fifo, LossExact, RateInRange, SnifferSurvives
<1> QED
  BY <1>2, <1>3

(* On a fifo link a division by zero is out of the question: the number    *)
(* that comes is at least the one expected, and no number is expected      *)
(* before the first packet.                                                *)
LEMMA DiesKeeps ==
  ASSUME IInv, NEW p \in net, SnifferDies(p)
  PROVE  IInv'
<1>1. link # "fifo"
  <2> SUFFICES ASSUME link = "fifo" PROVE FALSE
    OBVIOUS
  <2>1. rep.expected # None /\ rep.expected \in Nat /\ p.seq \in Nat
    BY DEF SnifferDies, Raises, IInv, TypeOK, Packet, Report
  <2>2. hist.first \in Nat /\ hist.first < rep.expected /\ rep.expected <= p.seq
    BY <2>1 DEF IInv, TypeOK, Begun, Fifo, InFlight, Counted, Low
  <2> QED
    BY <2>1, <2>2 DEF SnifferDies, Raises
<1>2. UNCHANGED <<kind, link, now, next, gen, rep, record, hist>> /\ net' \subseteq net
      /\ snf' = "dead"
  BY DEF SnifferDies, Arrives
<1>3. TypeOK'
  BY <1>2, FS_Subset DEF IInv, TypeOK
<1> QED
  BY <1>1, <1>2, <1>3
  DEF IInv, Begun, Fifo, LossClosedForm, LossExact, RateInRange, SnifferSurvives, WindowFull

LEMMA OthersKeep ==
  ASSUME IInv, Tick \/ ForeignFrame \/ UNCHANGED vars
  PROVE  IInv'
<1>1. UNCHANGED <<kind, link, next, gen, net, rep, record, hist>> /\ now' \in Nat
  BY DEF IInv, TypeOK, Tick, ForeignFrame, vars, channel
<1>2. snf' = snf \/ (snf' = "dead" /\ link = "any")
  BY DEF Tick, ForeignFrame, vars, channel
<1>3. TypeOK'
  <2>1. snf' \in {"up", "dead"}
    BY <1>2 DEF IInv, TypeOK
  <2> QED
    BY <1>1, <2>1 DEF IInv, TypeOK
<1>4. link' # "fifo" \/ snf' = snf
  BY <1>1, <1>2
<1> QED
  BY <1>1, <1>3, <1>4
  DEF IInv, Begun, Fifo, InFlight, Counted, Low, LossClosedForm, LossExact, RateInRange,
      SnifferSurvives, WindowFull

-----------------------------------------------------------------------------
(* The theorems.                                                           *)

LEMMA InitIInv ==
  ASSUME Init
  PROVE  IInv
<1>1. TypeOK
  <2>1. 0 \in 0 .. SeqMod
    BY SniffReportAssumption
  <2>2. rep \in Report
    BY DEF Init, Report
  <2> QED
    BY <2>1, <2>2, FS_EmptySet DEF Init, TypeOK, None
<1>2. Fifo
  BY DEF Init, Fifo, InFlight, Counted, Low
<1> QED
  BY <1>1, <1>2
  DEF Init, IInv, Begun, LossClosedForm, LossExact, RateInRange, SnifferSurvives, WindowFull, None

(* Every behaviour keeps the inductive invariant.                          *)
THEOREM Invariance == Spec => []IInv
<1>1. Init => IInv
  BY InitIInv
<1>2. IInv /\ [Next]_vars => IInv'
  <2> SUFFICES ASSUME IInv, [Next]_vars PROVE IInv'
    OBVIOUS
  <2>1. CASE Send
    BY <2>1, SendKeeps
  <2>2. CASE Tick \/ ForeignFrame \/ UNCHANGED vars
    BY <2>2, OthersKeep
  <2>3. CASE \E p \in net : Lose(p)
    BY <2>3, LoseKeeps
  <2>4. CASE \E p \in net : Parse(p)
    BY <2>4, ParseKeeps
  <2>5. CASE \E p \in net : SnifferDies(p)
    BY <2>5, DiesKeeps
  <2> QED
    BY <2>1, <2>2, <2>3, <2>4, <2>5 DEF Next
<1> QED
  BY <1>1, <1>2, PTL DEF Spec

(* The variables keep their types; next never passes the field of a seq.   *)
THEOREM TypeCorrect == Spec => []TypeOK
<1>1. IInv => TypeOK
  BY DEF IInv
<1> QED
  BY <1>1, Invariance, PTL

(* lost_packets is the length of the range reported less the packets       *)
(* reported (parse of both reports), on every link.                        *)
THEOREM LossIsClosedForm == Spec => []LossClosedForm
<1>1. IInv => LossClosedForm
  BY DEF IInv
<1> QED
  BY <1>1, Invariance, PTL

(* On a fifo link lost_packets is the number of packets lost between the   *)
(* first and the last one reported.                                        *)
THEOREM LossIsExact == Spec => []LossExact
<1>1. IInv => LossExact
  BY DEF IInv
<1> QED
  BY <1>1, Invariance, PTL

(* On a fifo link the packet error rate lies between 0 and 100.            *)
THEOREM RateIsBounded == Spec => []RateInRange
<1>1. IInv => RateInRange
  BY DEF IInv
<1> QED
  BY <1>1, Invariance, PTL

(* On a fifo link no division by zero ends the sniffer.                    *)
THEOREM FifoSurvives == Spec => []SnifferSurvives
<1>1. IInv => SnifferSurvives
  BY DEF IInv
<1> QED
  BY <1>1, Invariance, PTL

(* The jitter is computed from fewer than Window intervals, and from as    *)
(* many as there are until then.                                           *)
THEOREM WindowIsFull == Spec => []WindowFull
<1>1. IInv => WindowFull
  BY DEF IInv
<1> QED
  BY <1>1, Invariance, PTL

-----------------------------------------------------------------------------
(* The latency.                                                            *)

LEMMA Multiple ==
  ASSUME NEW k \in Int, NEW T \in Nat \ {0}, T * k < 2 * T, 0 - T < T * k
  PROVE  T * k = 0 \/ T * k = T
<1>1. CASE k <= 0 - 1
  <2>1. T * k <= T * (0 - 1)
    BY <1>1
  <2> QED
    BY <2>1
<1>2. CASE k >= 2
  <2>1. T * k >= T * 2
    BY <1>2
  <2> QED
    BY <2>1
<1>3. CASE k = 0
  BY <1>3
<1>4. CASE k = 1
  BY <1>4
<1> QED
  BY <1>1, <1>2, <1>3, <1>4

(* A time stamp goes round at most once while a packet is on its way.      *)
LEMMA RoundOnce ==
  ASSUME NEW a \in Nat, NEW n \in Nat, NEW T \in Nat \ {0}, a <= n, n - a < T
  PROVE  /\ a % T \in Nat /\ n % T \in Nat
         /\ a % T > n % T => T + (n % T) - (a % T) = n - a
         /\ a % T <= n % T => (n % T) - (a % T) = n - a
<1> DEFINE qa == a \div T
           ra == a % T
           qn == n \div T
           rn == n % T
<1>1. qa \in Int /\ ra \in 0 .. T - 1 /\ a = T * qa + ra
  OBVIOUS
<1>2. qn \in Int /\ rn \in 0 .. T - 1 /\ n = T * qn + rn
  OBVIOUS
<1> HIDE DEF qa, ra, qn, rn
<1> DEFINE k == qn - qa
<1>3. k \in Int /\ T * k = T * qn - T * qa
  BY <1>1, <1>2
<1> DEFINE m == T * k
<1>4. m \in Int /\ n - a = m + rn - ra
  <2>1. T * qn \in Int /\ T * qa \in Int
    BY <1>1, <1>2
  <2> QED
    BY <1>1, <1>2, <1>3, <2>1
<1>5. m < 2 * T /\ 0 - T < m
  <2> HIDE DEF m
  <2> QED
    BY <1>1, <1>2, <1>4
<1>6. m = 0 \/ m = T
  <2> HIDE DEF k
  <2> QED
    BY <1>3, <1>5, Multiple
<1> HIDE DEF m
<1>7. /\ ra > rn => T + rn - ra = n - a
      /\ ra <= rn => rn - ra = n - a
  BY <1>1, <1>2, <1>4, <1>6
<1> QED
  BY <1>1, <1>2, <1>7 DEF ra, rn

(* What is in flight is stamped with the time it was sent, less than a     *)
(* round of the time stamp ago.                                            *)
Stamped ==
  \A p \in net : p.ts = p.at % TsMod /\ p.at <= now /\ now - p.at < TsMod

LEMMA StampStep ==
  ASSUME TypeOK, TypeOK', Stamped, [Next]_vars
  PROVE  Stamped'
<1> USE SniffReportAssumption
<1>1. CASE Send
  <2>1. now \in Nat /\ now' = now
    BY <1>1 DEF Send, TypeOK
  <2>2. net' \subseteq net \cup {[seq |-> next, ts |-> now % TsMod, at |-> now]}
    BY <1>1 DEF Send
  <2> QED
    BY <2>1, <2>2 DEF Stamped
<1>2. CASE Tick
  <2>1. /\ now \in Nat /\ now' = now + 1 /\ net' = net
        /\ \A p \in net : p.at \in Nat /\ now + 1 - p.at < TsMod
    BY <1>2 DEF Tick, TypeOK, Packet
  <2> QED
    BY <2>1 DEF Stamped
<1>3. CASE ForeignFrame \/ UNCHANGED vars
  BY <1>3 DEF ForeignFrame, Stamped, vars, channel
<1>4. CASE \E p \in net : Lose(p) \/ Parse(p) \/ SnifferDies(p)
  <2>1. net' \subseteq net /\ now' = now
    BY <1>4 DEF Lose, Parse, SnifferDies, Arrives
  <2> QED
    BY <2>1 DEF Stamped
<1> QED
  BY <1>1, <1>2, <1>3, <1>4 DEF Next

LEMMA LatencyStep ==
  ASSUME TypeOK, Stamped, LatencyExact, [Next]_vars
  PROVE  LatencyExact'
<1> USE SniffReportAssumption
<1>1. CASE \E p \in net : Parse(p)
  <2>1. PICK p \in net : Parse(p)
    BY <1>1
  <2>2. /\ p.at \in Nat /\ now \in Nat /\ TsMod \in Nat \ {0}
        /\ p.ts = p.at % TsMod /\ p.at <= now /\ now - p.at < TsMod
    BY DEF TypeOK, Packet, Stamped
  <2>3. record' = [latency |-> IF kind = "icmp" THEN IcmpLatency(p) ELSE L2Latency(p),
                   delay |-> now - p.at]
    BY <2>1 DEF Parse
  <2>4. kind' = kind /\ kind \in {"icmp", "l2"}
    BY <2>1 DEF Parse, Arrives, TypeOK
  <2> DEFINE s == p.ts
             ts == now % TsMod
             d == now - p.at
  <2>5. /\ s \in Nat /\ ts \in Nat /\ d \in Int
        /\ s > ts => TsMod + ts - s = d
        /\ s <= ts => ts - s = d
    <3> DEFINE a == p.at
    <3>1. s = a % TsMod /\ a \in Nat /\ a <= now /\ now - a < TsMod
      BY <2>2
    <3> HIDE DEF a
    <3>2. /\ a % TsMod \in Nat /\ ts \in Nat
          /\ a % TsMod > ts => TsMod + ts - (a % TsMod) = now - a
          /\ a % TsMod <= ts => ts - (a % TsMod) = now - a
      BY <2>2, <3>1, RoundOnce
    <3>3. d = now - a /\ d \in Int
      BY <2>2, <3>1 DEF a
    <3> HIDE DEF s, ts, d
    <3> QED
      BY <3>1, <3>2, <3>3
  <2>6. IcmpLatency(p) = IF s > ts THEN TsMod + ts - s ELSE ts - s
    BY DEF IcmpLatency
  <2>7. L2Latency(p) = ts - s
    BY DEF L2Latency
  <2>8. record'.delay = d
    BY <2>3
  <2> HIDE DEF s, ts, d
  <2>9. CASE kind = "icmp"
    <3>1. record'.latency = IcmpLatency(p)
      BY <2>3, <2>9
    <3> QED
      BY <2>5, <2>6, <2>8, <3>1 DEF LatencyExact
  <2>10. CASE kind = "l2"
    <3>1. record'.latency = ts - s
      BY <2>3, <2>7, <2>10
    <3>2. ts - s = d \/ ts - s = d - TsMod
      BY <2>2, <2>5
    <3> QED
      BY <2>4, <2>8, <2>10, <3>1, <3>2 DEF LatencyExact
  <2> QED
    BY <2>4, <2>9, <2>10
<1>2. CASE Send \/ Tick \/ ForeignFrame \/ UNCHANGED vars
  <2>1. record' = record /\ kind' = kind
    BY <1>2 DEF Send, Tick, ForeignFrame, vars, channel
  <2> QED
    BY <2>1 DEF LatencyExact
<1>3. CASE \E p \in net : Lose(p) \/ SnifferDies(p)
  <2>1. record' = record /\ kind' = kind
    BY <1>3 DEF Lose, SnifferDies, Arrives
  <2> QED
    BY <2>1 DEF LatencyExact
<1> QED
  BY <1>1, <1>2, <1>3 DEF Next

(* The latency in a record is the time the packet took, also when the time *)
(* stamp goes round, in ICMP records (IcmpSniffReport.parse, lines 34-37); *)
(* in L2 records it may be too low by the range of the time stamp.         *)
THEOREM LatencyIsExact == Spec => []LatencyExact
<1>1. Init => Stamped /\ LatencyExact
  BY DEF Init, Stamped, LatencyExact
<1>2. TypeOK /\ TypeOK' /\ Stamped /\ LatencyExact /\ [Next]_vars => Stamped' /\ LatencyExact'
  BY StampStep, LatencyStep
<1> QED
  BY <1>1, <1>2, TypeCorrect, PTL DEF Spec

=============================================================================
