---------------------------- MODULE SniffReport ----------------------------
(***************************************************************************)
(* What the traffic tools measure of the radio link: a generator           *)
(* (traffic/icmp_gen.py icmp_gen, traffic/l2_gen.py uniform_gen) numbers   *)
(* and stamps its packets, a sniffer (traffic/sniff.py) hands those that   *)
(* come through to IcmpSniffReport or L2SniffReport, which count the lost  *)
(* ones from the gaps in the numbers.                                      *)
(*                                                                         *)
(* The link loses packets; so does the sniffer, whose scapy socket is      *)
(* closed while a report is written.  A "fifo" link does nothing else.     *)
(* "any" link reorders and duplicates too, and carries frames of others;   *)
(* the kernel's answer to an ICMP request, which carries the number of the *)
(* request, is a duplicate on the interface it leaves by.                  *)
(*                                                                         *)
(*   kind, link   which generator and report, which link                   *)
(*   now          the clock both use, in milliseconds                      *)
(*   next, gen    the generator: its seq, whether it lives                 *)
(*   net          the packets in flight: number, time stamp, and the time  *)
(*                they were sent, which only the properties look at        *)
(*   snf, rep     the sniffer and the attributes of its report             *)
(*   record       what was last written: the latency, beside the true one  *)
(*   hist         the packets reported (history): how many, the first one; *)
(*                and the numbers of those that were lost                  *)
(***************************************************************************)
EXTENDS Integers, FiniteSets

CONSTANTS
  SeqMod,       \* numbers a seq field can hold (2^16 for ICMP, 2^32 for L2)
  TsMod,        \* milliseconds a time stamp can hold (2^32)
  Window,       \* intervals kept for the jitter, and one (100)
  MaxInFlight,  \* a bound on the packets in flight
  MaxTime,      \* a bound on now
  MaxReports    \* a bound on the packets reported

ASSUME SniffReportAssumption ==
  /\ SeqMod \in Nat /\ TsMod \in Nat \ {0} /\ Window \in Nat \ {0}
  /\ MaxInFlight \in Nat /\ MaxTime \in Nat /\ MaxReports \in Nat

VARIABLES kind, link, now, next, gen, net, snf, rep, record, hist

channel == <<now, next, gen, net>>
vars == <<kind, link, channel, snf, rep, record, hist>>

(* None, of a number.                                                      *)
None == -1

Packet == [seq : Nat, ts : Nat, at : Nat]

(* per: the packet error rate is num / den.  The jitter is left out, but   *)
(* for the number of intervals it is computed from.                        *)
Report == [lost : Int, expected : Nat \cup {None}, per : [num : Int, den : Nat \ {0}],
           intervals : Nat]

TypeOK ==
  /\ kind \in {"icmp", "l2"} /\ link \in {"fifo", "any"}
  /\ now \in Nat /\ next \in 0 .. SeqMod /\ gen \in {"up", "dead"}
  /\ net \subseteq Packet /\ IsFiniteSet(net)
  /\ snf \in {"up", "dead"}
  /\ rep \in Report
  /\ record \in [latency : Int, delay : Int]
  /\ hist \in [count : Nat, first : Nat \cup {None}, dropped : SUBSET Nat]

Init ==
  /\ kind \in {"icmp", "l2"} /\ link \in {"fifo", "any"}
  /\ now = 0 /\ next = 0 /\ gen = "up" /\ net = {} /\ snf = "up"
  /\ rep = [lost |-> 0, expected |-> None, per |-> [num |-> 0, den |-> 1], intervals |-> 0]
  /\ record = [latency |-> 0, delay |-> 0]
  /\ hist = [count |-> 0, first |-> None, dropped |-> {}]

-----------------------------------------------------------------------------
(* The generator and the link.                                             *)

(* Mutant of Send: one number more than the field holds.                   *)
SendPastField ==
  /\ gen = "up"
  /\ next <= SeqMod
  /\ Cardinality(net) < MaxInFlight
  /\ net' = net \cup {[seq |-> next, ts |-> now % TsMod, at |-> now]}
  /\ next' = next + 1
  /\ UNCHANGED <<gen, kind, link, now, snf, rep, record, hist>>

(* A seq that does not fit its field raises when the packet is built.      *)
Send ==
  /\ gen = "up"
  /\ IF next < SeqMod
     THEN /\ Cardinality(net) < MaxInFlight
          /\ net' = net \cup {[seq |-> next, ts |-> now % TsMod, at |-> now]}
          /\ next' = next + 1
          /\ UNCHANGED gen
     ELSE gen' = "dead" /\ UNCHANGED <<net, next>>
  /\ UNCHANGED <<kind, link, now, snf, rep, record, hist>>

(* No packet is in flight for as long as a time stamp can count.           *)
Tick ==
  /\ now < MaxTime
  /\ \A p \in net : now + 1 - p.at < TsMod
  /\ now' = now + 1
  /\ UNCHANGED <<kind, link, next, gen, net, snf, rep, record, hist>>

Lose(p) ==
  /\ net' = net \ {p}
  /\ hist' = [hist EXCEPT !.dropped = @ \cup {p.seq}]
  /\ UNCHANGED <<kind, link, now, next, gen, snf, rep, record>>

Oldest(p) == \A q \in net : p.seq <= q.seq

(* The link hands packet p to the sniffer, in order and once if it is a    *)
(* fifo link.                                                              *)
Arrives(p) ==
  /\ hist.count < MaxReports
  /\ link = "fifo" => Oldest(p)
  /\ \/ net' = net \ {p}
     \/ link = "any" /\ net' = net
  /\ UNCHANGED <<kind, link, now, next, gen>>

-----------------------------------------------------------------------------
(* The reports.                                                            *)

(* Mutant of IcmpLatency: time stamps that do not wrap.                    *)
IcmpLatencyNoWrap(p) == (now % TsMod) - p.ts

IcmpLatency(p) ==
  LET ts == now % TsMod IN IF p.ts > ts THEN TsMod + ts - p.ts ELSE ts - p.ts

L2Latency(p) == (now % TsMod) - p.ts

(* Mutant of Lost: the packet that is there is counted as lost.            *)
LostInclusive(p) ==
  IF rep.expected = None THEN rep.lost ELSE rep.lost + p.seq - rep.expected + 1

Lost(p) == IF rep.expected = None THEN rep.lost ELSE rep.lost + p.seq - rep.expected

(* Mutant of Rate: the share of the last gap in it.                        *)
RateOfGap(p) ==
  IF rep.expected = None \/ p.seq = 0 THEN rep.per
  ELSE [num |-> Lost(p), den |-> p.seq - rep.expected + 1]

(* IcmpSniffReport divides by a seq of 0 too: see Raises.                  *)
Rate(p) ==
  IF rep.expected = None \/ p.seq = 0 THEN rep.per
  ELSE [num |-> Lost(p), den |-> p.seq]

(* Mutant of Intervals: one more is kept.                                  *)
IntervalsOver ==
  IF kind = "l2" /\ rep.expected # None
  THEN IF rep.intervals + 1 > Window THEN rep.intervals ELSE rep.intervals + 1
  ELSE rep.intervals

Intervals ==
  IF kind = "l2" /\ rep.expected # None
  THEN IF rep.intervals + 1 >= Window THEN rep.intervals ELSE rep.intervals + 1
  ELSE rep.intervals

(* Mutant of Raises: the jitter is divided by the gap.                     *)
RaisesWithoutGap(p) ==
  /\ rep.expected # None
  /\ \/ kind = "icmp" /\ p.seq = 0
     \/ kind = "l2" /\ p.seq - rep.expected = 0

(* The divisions by zero that end the sniffer.                             *)
Raises(p) ==
  /\ rep.expected # None
  /\ \/ kind = "icmp" /\ p.seq = 0
     \/ kind = "l2" /\ p.seq - rep.expected + 1 = 0

Parse(p) ==
  /\ snf = "up"
  /\ ~Raises(p)
  /\ Arrives(p)
  /\ rep' = [lost |-> Lost(p), expected |-> p.seq + 1, per |-> Rate(p),
             intervals |-> Intervals]
  /\ record' = [latency |-> IF kind = "icmp" THEN IcmpLatency(p) ELSE L2Latency(p),
                delay |-> now - p.at]
  /\ hist' = [hist EXCEPT !.count = @ + 1,
                          !.first = IF hist.first = None THEN p.seq ELSE @]
  /\ UNCHANGED snf

SnifferDies(p) ==
  /\ snf = "up"
  /\ Raises(p)
  /\ Arrives(p)
  /\ snf' = "dead"
  /\ UNCHANGED <<rep, record, hist>>

(* A frame of somebody else is no MonitoringInfo and is ignored, unless    *)
(* its bytes say GeneratorType.NOT_SET: then gen_info is None.             *)
ForeignFrame ==
  /\ link = "any" /\ kind = "l2"
  /\ snf = "up" /\ snf' = "dead"
  /\ UNCHANGED <<kind, link, channel, rep, record, hist>>

Next ==
  \/ Send \/ Tick \/ ForeignFrame
  \/ \E p \in net : Lose(p) \/ Parse(p) \/ SnifferDies(p)

Spec == Init /\ [][Next]_vars

-----------------------------------------------------------------------------
(* Properties.                                                             *)

(* Whatever the link does, lost_packets is the length of the range from    *)
(* the first number to the last one less the packets reported: packets     *)
(* before the first are not counted, duplicates and answers count as less  *)
(* than nothing, and so does a packet that comes late (parse of both       *)
(* reports).                                                               *)
LossClosedForm ==
  hist.count > 0 => rep.lost = rep.expected - hist.first - hist.count

(* On a fifo link lost_packets is the number of packets between the first  *)
(* and the last one reported that the link or the sniffer has lost.        *)
LossExact ==
  link = "fifo" /\ hist.count > 0 =>
    rep.lost = Cardinality({s \in hist.dropped : hist.first <= s /\ s < rep.expected})

(* On a fifo link the packet error rate lies between 0 and 100, although   *)
(* it relates the losses since the first packet to the number of the last. *)
RateInRange == link = "fifo" => 0 <= rep.per.num /\ rep.per.num <= rep.per.den

(* On a fifo link no division of a report ends the sniffer.                *)
SnifferSurvives == link = "fifo" => snf = "up"

(* The latency in an ICMP record is the time the packet took, also when    *)
(* the time stamp wraps on the way; that in an L2 record is too low by the *)
(* range of the time stamp then.                                           *)
LatencyExact ==
  \/ record.latency = record.delay
  \/ kind = "l2" /\ record.latency = record.delay - TsMod

(* Fewer than Window intervals are kept for the jitter, and as many as the *)
(* packets allow (L2SniffReport.parse).                                    *)
WindowFull ==
  kind = "l2" /\ hist.count > 0 =>
    rep.intervals = (IF hist.count < Window THEN hist.count - 1 ELSE Window - 1)

=============================================================================
