----------------------------- MODULE MCPingRun -----------------------------
(* Instances of PingRun for TLC.                                           *)
EXTENDS PingRun

(* Two runs in one namespace, as of two shells; in two, as of two tests,   *)
(* where the second asks for more packets than there are sequence numbers; *)
(* in a namespace without tunnel interfaces; and a ping without a limit    *)
(* that another one follows.                                               *)
FourPlans ==
  {<<[space |-> 1, kind |-> "tap", packets |-> 2], [space |-> 1, kind |-> "tap", packets |-> 1]>>,
   <<[space |-> 1, kind |-> "tap", packets |-> 1], [space |-> 2, kind |-> "tun", packets |-> 3]>>,
   <<[space |-> 1, kind |-> "none", packets |-> 1], [space |-> 1, kind |-> "none", packets |-> 1]>>,
   <<[space |-> 1, kind |-> "tun", packets |-> NoLimit], [space |-> 1, kind |-> "tun", packets |-> 1]>>}

=============================================================================
