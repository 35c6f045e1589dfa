----------------------------- MODULE Collector -----------------------------
(***************************************************************************)
(* What the monitor promises, in full: the records it accepts come to the  *)
(* database in the order it accepted them and once.  A write leaves none   *)
(* behind; what is lost when the monitor ends is the last of them.         *)
(***************************************************************************)
EXTENDS Naturals, Sequences

VARIABLES accepted, stored, up

cvars == <<accepted, stored, up>>

Init == accepted = <<>> /\ stored = <<>> /\ up = TRUE

(* Sequence t begins with s.                                               *)
Begins(s, t) == Len(s) <= Len(t) /\ s = SubSeq(t, 1, Len(s))

Accept ==
  /\ up
  /\ Len(accepted') = Len(accepted) + 1 /\ Begins(accepted, accepted')
  /\ UNCHANGED <<stored, up>>

Deliver == up /\ stored' = accepted /\ UNCHANGED <<accepted, up>>

Die ==
  /\ up /\ up' = FALSE
  /\ Begins(stored, stored') /\ Begins(stored', accepted)
  /\ UNCHANGED accepted

Next == Accept \/ Deliver \/ Die

Spec == Init /\ [][Next]_cvars

=============================================================================
