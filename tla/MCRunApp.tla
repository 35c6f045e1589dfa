------------------------------ MODULE MCRunApp ------------------------------
(* Instances of RunApp for TLC: which configurations a run starts with.    *)
EXTENDS RunApp

Usual == [db |-> TRUE, probe |-> TRUE, named |-> TRUE, stop |-> "traffic", gen |-> "ping",
          sniff |-> "good", cpu |-> FALSE]

UntilApp == {[Usual EXCEPT !.stop = "app"]}

OneUsual == {Usual}

(* Every kind of run but for what makes no difference to another one: the  *)
(* CPU load is recorded, and there is no good sniffer, for an awaited ping;*)
(* a probe without a database is none; and a database without a probe is   *)
(* there with a generator and a sniffer.                                   *)
AllKinds ==
  {f \in Flow :
     /\ f.cpu => f.stop = "traffic" /\ f.gen = "ping"
     /\ \/ f.sniff = "good"
        \/ f.stop = "traffic" /\ f.gen = "ping" /\ ~f.cpu
     /\ f.probe => f.db
     /\ f.db /\ ~f.probe => f.gen = "endless"}

=============================================================================
