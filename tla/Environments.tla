---------------------------- MODULE Environments ----------------------------
(***************************************************************************)
(* What dtl_env promises of the environments, whatever its commands find,  *)
(* interrupt or leave behind: a name leads to a namespace made for it and  *)
(* for no other; a process stays in the namespace it has entered, which    *)
(* is there for as long as a name or a process refers to it and keeps what *)
(* it has been given; and a set-up reports what there is.                  *)
(*                                                                         *)
(*   bound[e]  the namespace of name e      home[n]  the name n is for     *)
(*   has[n]    what works in n              holds[p] where process p is    *)
(*   claim[p]  what process p has reported to work there                   *)
(***************************************************************************)
CONSTANTS Env, Proc, NsId, NoEnv, NoNs

VARIABLES bound, home, has, holds, claim

evars == <<bound, home, has, holds, claim>>

(* Both tunnel interfaces with their routes; the veth pair and its address.*)
Feature == {"tunnels", "world"}

Init ==
  /\ bound = [e \in Env |-> NoNs]
  /\ home = [n \in NsId |-> NoEnv]
  /\ has = [n \in NsId |-> {}]
  /\ holds = [p \in Proc |-> NoNs]
  /\ claim = [p \in Proc |-> {}]

(* A process that is in no namespace enters that of a name.                *)
Enter(p) ==
  /\ holds[p] = NoNs
  /\ \E e \in Env : bound[e] # NoNs /\ holds' = [holds EXCEPT ![p] = bound[e]]
  /\ UNCHANGED <<bound, home, has, claim>>

Make(p) ==
  /\ holds[p] = NoNs
  /\ \E e \in Env, n \in NsId :
       /\ bound[e] = NoNs /\ home[n] = NoEnv
       /\ bound' = [bound EXCEPT ![e] = n]
       /\ home' = [home EXCEPT ![n] = e]
       /\ holds' = [holds EXCEPT ![p] = n]
  /\ UNCHANGED <<has, claim>>

(* Namespaces in use are given more, and a process may report it.          *)
Grow ==
  /\ has' \in [NsId -> SUBSET Feature]
  /\ \A n \in NsId : has[n] \subseteq has'[n] /\ (home[n] = NoEnv => has'[n] = has[n])

Report(p) ==
  /\ holds[p] # NoNs /\ claim[p] = {}
  /\ \E C \in SUBSET Feature :
       "tunnels" \in C /\ C \subseteq has'[holds[p]] /\ claim' = [claim EXCEPT ![p] = C]

Work ==
  /\ Grow
  /\ UNCHANGED claim \/ \E p \in Proc : Report(p)
  /\ UNCHANGED <<bound, home, holds>>

Exit(p) ==
  /\ holds' = [holds EXCEPT ![p] = NoNs]
  /\ claim' = [claim EXCEPT ![p] = {}]
  /\ UNCHANGED <<bound, home, has>>

Unname(e) ==
  /\ bound[e] # NoNs
  /\ bound' = [bound EXCEPT ![e] = NoNs]
  /\ UNCHANGED <<home, has, holds, claim>>

(* What nobody refers to may go, with all it has.                          *)
Discard(n) ==
  /\ \A e \in Env : bound[e] # n
  /\ \A p \in Proc : holds[p] # n
  /\ home' = [home EXCEPT ![n] = NoEnv]
  /\ has' = [has EXCEPT ![n] = {}]
  /\ UNCHANGED <<bound, holds, claim>>

Restart ==
  /\ bound' = [e \in Env |-> NoNs]
  /\ home' = [n \in NsId |-> NoEnv]
  /\ has' = [n \in NsId |-> {}]
  /\ holds' = [p \in Proc |-> NoNs]
  /\ claim' = [p \in Proc |-> {}]

Next ==
  \/ \E p \in Proc : Enter(p) \/ Make(p) \/ Exit(p)
  \/ Work
  \/ \E e \in Env : Unname(e)
  \/ \E n \in NsId : Discard(n)
  \/ Restart

Spec == Init /\ [][Next]_evars

=============================================================================
