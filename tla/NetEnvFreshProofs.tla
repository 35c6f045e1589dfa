--------------------------- MODULE NetEnvFreshProofs ---------------------------
(* Proofs about NetEnv with commands that take turns: what a set-up meets  *)
(* in a namespace that it has made itself, and what it can fail at.        *)
EXTENDS NetEnvTurnsProofs

(* The lock of an environment is also held by netns.remove.                *)
DeletesApart ==
  \A p, q \in Proc : cmd[p].env = cmd[q].env => ~(cmd[p].pc \in SetUpOn /\ At(q, "remove"))

(* Nobody is about to remove a name that a command has listed and is still *)
(* to open: netns.remove waits for the scans of other environments too.    *)
ScansApart ==
  \A p, q \in Proc : cmd[p].pc \in Asking /\ cmd[q].env \in cmd[p].todo => ~At(q, "remove")

-----------------------------------------------------------------------------
(* The inductive invariant.                                                *)

(* The labels of the set-up, by what they do.                              *)
NotYet  == {"create", "mkdir", "copy", "logs", "start", "load", "netns"}
Making  == {"lookup", "addlink", "addaddr", "linkup"}
Ruling  == {"rules", "addroute", "addrule"}
Routing == {"routes", "addp2p"}
Joined  == {"wethaddr", "wethup", "attach", "gateway", "arp"}

(* A namespace that is not in use has nothing of an earlier life.          *)
Pristine ==
  \A n \in NsId : home[n] = NoEnv => base[n] = {} /\ \A k \in Tun : tun[n][k] = {}

IsUp(F)     == {"link", "addr", "up"} \subseteq F
Unrouted(F) == "route" \notin F /\ "rule" \notin F /\ "p2p" \notin F

(* The tunnel interfaces of a namespace that the command has made: one     *)
(* stage after the other, and interface 0 before interface 1.              *)
FreshTun(p) ==
  LET l == cmd[p].pc  k == cmd[p].k  T == tun[cmd[p].ns] IN
  /\ l \in Making /\ k = 0 => T[1] = {}
  /\ l \in Making /\ k = 1 => IsUp(T[0]) /\ Unrouted(T[0])
  /\ l \in {"lookup", "addlink"} => T[k] = {}
  /\ l = "addaddr" => T[k] = {"link"}
  /\ l = "linkup" => T[k] = {"link", "addr", "dflt"}
  /\ l = "flush" => Unrouted(T[0]) /\ Unrouted(T[1])
  /\ l \in {"flush"} \cup Ruling \cup Routing => IsUp(T[0]) /\ IsUp(T[1])
  /\ l \in {"rules", "addroute"} => Unrouted(T[k])
  /\ l \in Ruling /\ k = 0 => Unrouted(T[1])
  /\ l \in Ruling => "p2p" \notin T[0] /\ "p2p" \notin T[1]
  /\ l \in Routing => "p2p" \notin T[k] /\ (k = 0 => "p2p" \notin T[1])

(* Its end of the veth pair is made once.                                  *)
FreshBase(p) ==
  /\ cmd[p].pc \in SetUpOn \ Joined => "weth" \notin base[cmd[p].ns]
  /\ At(p, "wethaddr") => "weth" \in base[cmd[p].ns]

(* The names that a command is still to ask are there.                     *)
Listed(p) == cmd[p].pc \in Asking => \A e \in cmd[p].todo : bound[e] # NoNs

FreshKnown(p) ==
  /\ Listed(p)
  /\ At(p, "addbridge") => "link" \notin bridge
  /\ cmd[p].pc \in NotYet => cmd[p].k = 0
  /\ cmd[p].fresh => cmd[p].pc \in SetUpOn \cup {"ok", "failed"}
  /\ cmd[p].fresh /\ cmd[p].pc \in SetUpOn =>
       bound[cmd[p].env] = cmd[p].ns /\ FreshTun(p) /\ FreshBase(p)

FInv == Pristine /\ \A p \in Proc : FreshKnown(p)

-----------------------------------------------------------------------------
(* What the helpers of the model do to a command.                          *)

Stays(p) ==
  cmd'[p].env = cmd[p].env /\ cmd'[p].ns = cmd[p].ns /\ cmd'[p].fresh = cmd[p].fresh

LEMMA Moving ==
  ASSUME NEW p \in Proc, TypeOK, NEW l \in Labels, Goto(p, l)
  PROVE  Stays(p) /\ cmd'[p].pc = l /\ cmd'[p].k = cmd[p].k
BY DEF Goto, Stays, TypeOK, CommandState

LEMMA MovingTo ==
  ASSUME NEW p \in Proc, TypeOK, NEW l \in Labels, NEW j \in Tun, GotoTun(p, l, j)
  PROVE  Stays(p) /\ cmd'[p].pc = l /\ cmd'[p].k = j
<1>1. cmd' = [cmd EXCEPT ![p] = [cmd[p] EXCEPT !.pc = l, !.k = j]]
  BY DEF GotoTun
<1> QED
  BY <1>1 DEF Stays, TypeOK, CommandState

LEMMA MovingTun ==
  ASSUME NEW p \in Proc, TypeOK, NEW l \in Labels, NEW m \in Labels, NextTun(p, l, m)
  PROVE  /\ Stays(p)
         /\ \/ cmd[p].k = 0 /\ cmd'[p].pc = l /\ cmd'[p].k = 1
            \/ cmd[p].k = 1 /\ cmd'[p].pc = m /\ cmd'[p].k = 0
<1>1. 0 \in Tun /\ 1 \in Tun /\ cmd[p].k \in {0, 1}
  BY DEF Tun, CommandState, TypeOK
<1> QED
  BY <1>1, MovingTo DEF NextTun

(* A step within the set-up.                                               *)
LEMMA StaysFresh ==
  ASSUME NEW p \in Proc, FreshKnown(p), Stays(p), bound' = bound,
         cmd[p].pc \in SetUpOn, cmd'[p].pc \in SetUpOn \cup {"ok", "failed"},
         cmd'[p].pc = "addbridge" => "link" \notin bridge', Listed(p)',
         cmd[p].fresh /\ cmd'[p].pc \in SetUpOn => FreshTun(p)' /\ FreshBase(p)'
  PROVE  FreshKnown(p)'
<1>1. cmd'[p].pc \notin NotYet
  BY DEF NotYet, SetUpOn, RoutesOn, ScanOn, WorldOn, ArpOn
<1> QED
  BY <1>1 DEF FreshKnown, Stays, At

(* A step of the tunnel interfaces, once its effect on them is known.      *)
LEMMA TunnelOnward ==
  ASSUME NEW p \in Proc, FreshKnown(p), Stays(p), bound' = bound,
         cmd[p].pc \in SetUpOn \ Joined,
         cmd'[p].pc \in Making \cup {"flush"} \cup Ruling \cup Routing \cup {"lo", "scan", "failed"},
         cmd[p].fresh => ("weth" \in base'[cmd[p].ns] <=> "weth" \in base[cmd[p].ns]),
         cmd[p].fresh /\ cmd'[p].pc # "failed" => FreshTun(p)'
  PROVE  FreshKnown(p)'
<1> USE DEF SetUpOn, RoutesOn, ScanOn, WorldOn, ArpOn, Joined, Making, Ruling, Routing
<1>1. cmd[p].fresh => FreshBase(p)
  BY DEF FreshKnown
<1>2. cmd[p].fresh => FreshBase(p)'
  BY <1>1 DEF FreshBase, Stays, At
<1>3. Listed(p)'
  BY DEF Listed, Asking
<1> QED
  BY <1>2, <1>3, StaysFresh

LEMMA FreshTunnel ==
  ASSUME NEW p \in Proc, TypeOK, Belongs(p), TunnelProgress(p), FreshKnown(p),
         Tunnel(p), ~OpenNetns(p)
  PROVE  FreshKnown(p)'
<1> DEFINE c == cmd[p]  d == cmd'[p]  n == cmd[p].ns
<1> USE DEF Making, Ruling, Routing, Joined, IsUp, Unrouted
<1>a. c.pc \in SetUpOn \ Joined /\ bound' = bound
  BY DEF Tunnel, LookupLink, AddLink, AddAddr, LinkUp, FlushLocal, LookupRules, AddLocalRoute,
     AddRule, LookupRoutes, AddP2PRoute, LoopbackUp, At, SetUpOn, RoutesOn, ScanOn, names
<1>b. n \in NsId /\ c.k \in {0, 1}
  BY <1>a DEF Belongs, Reached, TypeOK, CommandState, Tun
<1>c. c.fresh => FreshTun(p)
  BY <1>a DEF FreshKnown
<1>1. CASE LookupLink(p)
  <2>1. c.pc = "lookup" /\ UNCHANGED <<tun, base>>
    BY <1>1 DEF LookupLink, At, inside
  <2>2. CASE "link" \in TunOf(p)
    <3>1. Stays(p) /\ d.pc \in {"lookup", "flush"}
      BY <1>1, <2>2, MovingTun DEF LookupLink, Labels
    <3>2. ~c.fresh
      BY <1>c, <2>1, <2>2 DEF FreshTun, TunOf
    <3> QED
      BY <1>a, <2>1, <3>1, <3>2, TunnelOnward
  <2>3. CASE "link" \notin TunOf(p)
    <3>1. Stays(p) /\ d.pc = "addlink" /\ d.k = c.k
      BY <1>1, <2>3, Moving DEF LookupLink, Labels
    <3>2. c.fresh => FreshTun(p)'
      BY <1>c, <2>1, <3>1 DEF FreshTun, Stays
    <3> QED
      BY <1>a, <2>1, <3>1, <3>2, TunnelOnward
  <2> QED
    BY <2>2, <2>3
<1>2. CASE AddLink(p)
  <2>1. c.pc = "addlink" /\ base' = base
    BY <1>2 DEF AddLink, At
  <2>2. CASE Fail(p)
    <3>1. Stays(p) /\ d.pc = "failed"
      BY <2>2, Moving DEF Fail, Labels
    <3> QED
      BY <1>a, <2>1, <3>1, TunnelOnward
  <2>3. CASE GiveTun(p, {"link"}) /\ Goto(p, "addaddr")
    <3>1. Stays(p) /\ d.pc = "addaddr" /\ d.k = c.k
      BY <2>3, Moving DEF Labels
    <3>2. /\ tun'[n][c.k] = tun[n][c.k] \cup {"link"}
          /\ \A j \in Tun \ {c.k} : tun'[n][j] = tun[n][j]
      BY <1>b, <2>3, Giving DEF TunFact
    <3>3. c.fresh => FreshTun(p)'
      BY <1>b, <1>c, <2>1, <3>1, <3>2 DEF FreshTun, Stays, Tun
    <3> QED
      BY <1>a, <2>1, <3>1, <3>3, TunnelOnward
  <2> QED
    BY <1>2, <2>2, <2>3 DEF AddLink
<1>3. CASE AddAddr(p)
  <2>1. c.pc = "addaddr" /\ base' = base
    BY <1>3 DEF AddAddr, At
  <2>2. Stays(p) /\ d.pc = "linkup" /\ d.k = c.k
    BY <1>3, Moving DEF AddAddr, Labels
  <2>3. /\ tun'[n][c.k] = tun[n][c.k] \cup {"addr", "dflt"}
        /\ \A j \in Tun \ {c.k} : tun'[n][j] = tun[n][j]
    BY <1>3, <1>b, Giving DEF AddAddr, TunFact
  <2>4. c.fresh => FreshTun(p)'
    BY <1>b, <1>c, <2>1, <2>2, <2>3 DEF FreshTun, Stays, Tun
  <2> QED
    BY <1>a, <2>1, <2>2, <2>4, TunnelOnward
<1>4. CASE LinkUp(p)
  <2>1. c.pc = "linkup" /\ base' = base
    BY <1>4 DEF LinkUp, At
  <2>2. /\ Stays(p)
        /\ \/ c.k = 0 /\ d.pc = "lookup" /\ d.k = 1
           \/ c.k = 1 /\ d.pc = "flush" /\ d.k = 0
    BY <1>4, MovingTun DEF LinkUp, Labels
  <2>3. /\ tun'[n][c.k] = tun[n][c.k] \cup {"up", "dflt"}
        /\ \A j \in Tun \ {c.k} : tun'[n][j] = tun[n][j]
    BY <1>4, <1>b, Giving DEF LinkUp, TunFact
  <2>4. c.fresh => FreshTun(p)'
    BY <1>b, <1>c, <2>1, <2>2, <2>3 DEF FreshTun, Stays, Tun
  <2> QED
    BY <1>a, <2>1, <2>2, <2>4, TunnelOnward
<1>5. CASE FlushLocal(p)
  <2>1. c.pc = "flush"
    BY <1>5 DEF FlushLocal, At
  <2>2. Stays(p) /\ d.pc = "rules" /\ d.k = c.k
    BY <1>5, Moving DEF FlushLocal, Labels
  <2>3. /\ base'[n] = base[n] \ {"lolocal", "wlocal"}
        /\ \A j \in Tun : tun'[n][j] = tun[n][j] \ {"dflt"}
    BY <1>5, <1>b DEF FlushLocal, TypeOK
  <2>4. c.fresh => FreshTun(p)'
    BY <1>b, <1>c, <2>1, <2>2, <2>3 DEF FreshTun, Stays, Tun
  <2> QED
    BY <1>a, <2>1, <2>2, <2>3, <2>4, TunnelOnward
<1>6. CASE LookupRules(p)
  <2>1. c.pc = "rules" /\ UNCHANGED <<tun, base>>
    BY <1>6 DEF LookupRules, At, inside
  <2>2. CASE Fail(p)
    <3>1. Stays(p) /\ d.pc = "failed"
      BY <2>2, Moving DEF Fail, Labels
    <3> QED
      BY <1>a, <2>1, <3>1, TunnelOnward
  <2>3. CASE "rule" \in TunOf(p) /\ NextTun(p, "rules", "routes")
    <3>1. Stays(p) /\ d.pc \in {"rules", "routes"}
      BY <2>3, MovingTun DEF Labels
    <3>2. ~c.fresh
      BY <1>c, <2>1, <2>3 DEF FreshTun, TunOf
    <3> QED
      BY <1>a, <2>1, <3>1, <3>2, TunnelOnward
  <2>4. CASE Goto(p, "addroute")
    <3>1. Stays(p) /\ d.pc = "addroute" /\ d.k = c.k
      BY <2>4, Moving DEF Labels
    <3>2. c.fresh => FreshTun(p)'
      BY <1>c, <2>1, <3>1 DEF FreshTun, Stays
    <3> QED
      BY <1>a, <2>1, <3>1, <3>2, TunnelOnward
  <2> QED
    BY <1>6, <2>2, <2>3, <2>4 DEF LookupRules
<1>7. CASE AddLocalRoute(p)
  <2>1. c.pc = "addroute" /\ base' = base
    BY <1>7 DEF AddLocalRoute, At
  <2>2. CASE Fail(p)
    <3>1. Stays(p) /\ d.pc = "failed"
      BY <2>2, Moving DEF Fail, Labels
    <3> QED
      BY <1>a, <2>1, <3>1, TunnelOnward
  <2>3. CASE GiveTun(p, {"route"}) /\ Goto(p, "addrule")
    <3>1. Stays(p) /\ d.pc = "addrule" /\ d.k = c.k
      BY <2>3, Moving DEF Labels
    <3>2. /\ tun'[n][c.k] = tun[n][c.k] \cup {"route"}
          /\ \A j \in Tun \ {c.k} : tun'[n][j] = tun[n][j]
      BY <1>b, <2>3, Giving DEF TunFact
    <3>3. c.fresh => FreshTun(p)'
      BY <1>b, <1>c, <2>1, <3>1, <3>2 DEF FreshTun, Stays, Tun
    <3> QED
      BY <1>a, <2>1, <3>1, <3>3, TunnelOnward
  <2> QED
    BY <1>7, <2>2, <2>3 DEF AddLocalRoute
<1>8. CASE AddRule(p)
  <2>1. c.pc = "addrule" /\ base' = base
    BY <1>8 DEF AddRule, At
  <2>2. /\ Stays(p)
        /\ \/ c.k = 0 /\ d.pc = "rules" /\ d.k = 1
           \/ c.k = 1 /\ d.pc = "routes" /\ d.k = 0
    BY <1>8, MovingTun DEF AddRule, Labels
  <2>3. /\ tun'[n][c.k] = tun[n][c.k] \cup {"rule"}
        /\ \A j \in Tun \ {c.k} : tun'[n][j] = tun[n][j]
    BY <1>8, <1>b, Giving DEF AddRule, TunFact
  <2>4. c.fresh => FreshTun(p)'
    BY <1>b, <1>c, <2>1, <2>2, <2>3 DEF FreshTun, Stays, Tun
  <2> QED
    BY <1>a, <2>1, <2>2, <2>4, TunnelOnward
<1>9. CASE LookupRoutes(p)
  <2>1. c.pc = "routes" /\ UNCHANGED <<tun, base>>
    BY <1>9 DEF LookupRoutes, At, inside
  <2>2. CASE "p2p" \in TunOf(p)
    <3>1. Stays(p) /\ d.pc \in {"routes", "lo"}
      BY <1>9, <2>2, MovingTun DEF LookupRoutes, Labels
    <3>2. ~c.fresh
      BY <1>c, <2>1, <2>2 DEF FreshTun, TunOf
    <3> QED
      BY <1>a, <2>1, <3>1, <3>2, TunnelOnward
  <2>3. CASE "p2p" \notin TunOf(p)
    <3>1. Stays(p) /\ d.pc = "addp2p" /\ d.k = c.k
      BY <1>9, <2>3, Moving DEF LookupRoutes, Labels
    <3>2. c.fresh => FreshTun(p)'
      BY <1>c, <2>1, <3>1 DEF FreshTun, Stays
    <3> QED
      BY <1>a, <2>1, <3>1, <3>2, TunnelOnward
  <2> QED
    BY <2>2, <2>3
<1>10. CASE AddP2PRoute(p)
  <2>1. c.pc = "addp2p" /\ base' = base
    BY <1>10 DEF AddP2PRoute, At
  <2>2. CASE Fail(p)
    <3>1. Stays(p) /\ d.pc = "failed"
      BY <2>2, Moving DEF Fail, Labels
    <3> QED
      BY <1>a, <2>1, <3>1, TunnelOnward
  <2>3. CASE GiveTun(p, {"p2p"}) /\ NextTun(p, "routes", "lo")
    <3>1. /\ Stays(p)
          /\ \/ c.k = 0 /\ d.pc = "routes" /\ d.k = 1
             \/ c.k = 1 /\ d.pc = "lo" /\ d.k = 0
      BY <2>3, MovingTun DEF Labels
    <3>2. /\ tun'[n][c.k] = tun[n][c.k] \cup {"p2p"}
          /\ \A j \in Tun \ {c.k} : tun'[n][j] = tun[n][j]
      BY <1>b, <2>3, Giving DEF TunFact
    <3>3. c.fresh => FreshTun(p)'
      BY <1>b, <1>c, <2>1, <3>1, <3>2 DEF FreshTun, Stays, Tun
    <3> QED
      BY <1>a, <2>1, <3>1, <3>3, TunnelOnward
  <2> QED
    BY <1>10, <2>2, <2>3 DEF AddP2PRoute
<1>11. CASE LoopbackUp(p)
  <2>1. c.pc = "lo"
    BY <1>11 DEF LoopbackUp, At
  <2>2. Stays(p) /\ d.pc = "scan"
    BY <1>11, Moving DEF LoopbackUp, Labels
  <2>3. "weth" \in base'[n] <=> "weth" \in base[n]
    BY <1>11, <1>b DEF LoopbackUp, GiveBase, TypeOK
  <2>4. FreshTun(p)'
    BY <2>2 DEF FreshTun
  <2> QED
    BY <1>a, <2>1, <2>2, <2>3, <2>4, TunnelOnward
<1> QED
  BY <1>1, <1>2, <1>3, <1>4, <1>5, <1>6, <1>7, <1>8, <1>9, <1>10, <1>11 DEF Tunnel

-----------------------------------------------------------------------------
(* The rest of the set-up.                                                 *)

LEMMA WorldOnward ==
  ASSUME NEW p \in Proc, FreshKnown(p), Stays(p), bound' = bound,
         cmd[p].pc \in ScanOn,
         cmd'[p].pc \in WorldOn \cup ArpOn \cup {"ok", "failed"},
         cmd'[p].pc = "addbridge" => "link" \notin bridge',
         cmd[p].fresh => FreshBase(p)'
  PROVE  FreshKnown(p)'
<1>1. FreshTun(p)' \/ cmd'[p].pc \notin SetUpOn
  BY DEF FreshTun, WorldOn, ArpOn, Making, Ruling, Routing
<1>2. Listed(p)'
  BY DEF Listed, Asking, WorldOn, ArpOn
<1> QED
  BY <1>1, <1>2, StaysFresh DEF SetUpOn, RoutesOn, ScanOn

(* A request of the scan.                                                  *)
LEMMA FreshScan ==
  ASSUME NEW p \in Proc, TypeOK, Belongs(p), FreshKnown(p),
         ListNetns(p) \/ OpenListed(p) \/ QueryListed(p)
  PROVE  FreshKnown(p)'
<1> DEFINE c == cmd[p]  d == cmd'[p]
<1>a. UNCHANGED <<bound, base, bridge>> /\ cmd \in [Proc -> CommandState]
  BY DEF ListNetns, OpenListed, QueryListed, names, inside, TypeOK
<1>b. Stays(p) /\ c.pc \in {"scan", "open", "query"} /\ d.pc \in {"open", "query", "failed"}
  BY Scans DEF Same, Stays
<1>1. Listed(p)'
  <2>1. CASE ListNetns(p)
    <3>1. cmd' = [cmd EXCEPT ![p] = [cmd[p] EXCEPT !.todo = {e \in Env : bound[e] # NoNs},
                                                   !.pc = "open"]]
      BY <2>1 DEF ListNetns
    <3>2. d.todo = {e \in Env : bound[e] # NoNs}
      BY <3>1, <1>a DEF CommandState
    <3> QED
      BY <3>2, <1>a DEF Listed
  <2>2. CASE OpenListed(p) /\ ~Fail(p)
    <3>1. PICK e \in c.todo :
            cmd' = [cmd EXCEPT ![p] = [cmd[p] EXCEPT !.todo = @ \ {e}, !.look = bound[e],
                                                     !.pc = "query"]]
      BY <2>2 DEF OpenListed
    <3>2. d.todo = c.todo \ {e}
      BY <3>1, <1>a DEF CommandState
    <3> QED
      BY <2>2, <3>2, <1>a DEF OpenListed, At, FreshKnown, Listed, Asking
  <2>3. CASE QueryListed(p)
    <3>1. cmd' = [cmd EXCEPT ![p] = [cmd[p] EXCEPT !.seen = @ \cup {waddr[cmd[p].look]},
                                                   !.look = NoNs, !.pc = "open"]]
      BY <2>3 DEF QueryListed
    <3>2. d.todo = c.todo
      BY <3>1, <1>a DEF CommandState
    <3> QED
      BY <2>3, <3>2, <1>a DEF QueryListed, At, FreshKnown, Listed, Asking
  <2>4. CASE Fail(p)
    <3>1. d.pc = "failed"
      BY <2>4, Moving DEF Fail, Labels
    <3> QED
      BY <3>1 DEF Listed, Asking
  <2> QED
    BY <2>1, <2>2, <2>3, <2>4
<1>2. c.fresh => FreshTun(p)' /\ FreshBase(p)'
  BY <1>a, <1>b DEF FreshKnown, FreshTun, FreshBase, Stays, At, Making, Ruling, Routing, Joined,
     SetUpOn, RoutesOn, ScanOn, WorldOn, ArpOn
<1> QED
  BY <1>a, <1>b, <1>1, <1>2, StaysFresh DEF SetUpOn, RoutesOn, ScanOn

LEMMA FreshWorld ==
  ASSUME NEW p \in Proc, TypeOK, Belongs(p), FreshKnown(p), World(p) \/ SetArp(p)
  PROVE  FreshKnown(p)'
<1> DEFINE c == cmd[p]  d == cmd'[p]  n == cmd[p].ns
<1> USE DEF WorldOn, ArpOn, Joined
<1>a. c.pc \in ScanOn /\ bound' = bound
  BY DEF World, ListNetns, OpenListed, QueryListed, PickAddress, LookupBridge, AddBridge,
     BridgeAddr, BridgeUp, BridgeNat, AddVeth, WethAddr, WethUp, AttachPeer, AddGateway, SetArp, At,
     names, ScanOn
<1>b. n \in NsId /\ c.pc \in SetUpOn
  BY <1>a DEF Belongs, Reached, SetUpOn, RoutesOn, ScanOn
<1>c. c.fresh => bound[c.env] = n /\ FreshBase(p)
  BY <1>b DEF FreshKnown
<1>1. CASE PickAddress(p) \/ LookupBridge(p)
  <2>1. UNCHANGED <<base, bridge>> /\ c.pc \in {"open", "bridge"}
    BY <1>1 DEF PickAddress, LookupBridge, At, inside
  <2>2. Stays(p) /\ d.pc \in {"bridge", "addbridge", "veth", "arp", "ok"}
    BY <1>1, Moving, Picks DEF LookupBridge, AfterWorld, Stays, Labels
  <2>3. d.pc = "addbridge" => "link" \notin bridge'
    <3>1. CASE PickAddress(p)
      BY <3>1, Picks DEF AfterWorld
    <3>2. CASE LookupBridge(p)
      BY <3>2, <2>1, Moving DEF LookupBridge, Labels
    <3> QED
      BY <1>1, <3>1, <3>2
  <2>4. c.fresh => FreshBase(p)'
    BY <1>b, <1>c, <2>1, <2>2 DEF FreshBase, Stays, At
  <2> QED
    BY <1>a, <2>2, <2>3, <2>4, WorldOnward
<1>2. CASE AddBridge(p) \/ BridgeAddr(p) \/ BridgeUp(p) \/ BridgeNat(p)
  <2>1. base' = base /\ c.pc \in {"addbridge", "bridgeaddr", "bridgeup", "bridgenat"}
    BY <1>2 DEF AddBridge, BridgeAddr, BridgeUp, BridgeNat, At, inside
  <2>2. Stays(p) /\ d.pc \in {"bridgeaddr", "bridgeup", "bridgenat", "veth", "failed"}
    BY <1>2, Moving DEF AddBridge, BridgeAddr, BridgeUp, BridgeNat, Fail, Labels
  <2>3. c.fresh => FreshBase(p)'
    BY <1>b, <1>c, <2>1, <2>2 DEF FreshBase, Stays, At
  <2> QED
    BY <1>a, <2>2, <2>3, WorldOnward
<1>3. CASE AddVeth(p)
  <2>1. Stays(p) /\ d.pc \in {"wethaddr", "failed"}
    BY <1>3, Moving DEF AddVeth, Fail, Labels
  <2>2. c.fresh => FreshBase(p)'
    <3> SUFFICES ASSUME c.fresh, d.pc = "wethaddr"
                 PROVE  "weth" \in base'[n]
      BY <2>1 DEF FreshBase, Stays, At, SetUpOn, RoutesOn, ScanOn
    <3>1. ~Fail(p)
      BY Moving DEF Fail, Labels
    <3>2. base' = [base EXCEPT ![n] = @ \cup {"weth"}]
      BY <1>3, <1>c, <3>1 DEF AddVeth
    <3> QED
      BY <1>b, <3>2 DEF TypeOK
  <2> QED
    BY <1>a, <2>1, <2>2, WorldOnward
<1>4. CASE WethAddr(p) \/ WethUp(p) \/ AttachPeer(p) \/ AddGateway(p) \/ SetArp(p)
  <2>1. Stays(p) /\ d.pc \in {"wethup", "attach", "gateway", "arp", "ok", "failed"}
    BY <1>4, Moving DEF WethAddr, WethUp, AttachPeer, AddGateway, SetArp, AfterWorld, Fail, Labels
  <2>2. FreshBase(p)'
    BY <2>1 DEF FreshBase, At, SetUpOn, RoutesOn, ScanOn
  <2> QED
    BY <1>a, <2>1, <2>2, WorldOnward
<1>5. CASE ListNetns(p) \/ OpenListed(p) \/ QueryListed(p)
  BY <1>5, FreshScan
<1> QED
  BY <1>1, <1>2, <1>3, <1>4, <1>5 DEF World

-----------------------------------------------------------------------------
(* The steps before and outside of the set-up.                             *)

LEMMA IssuingFresh ==
  ASSUME NEW p \in Proc, TypeOK, Issue(p) \/ Return(p) \/ Die(p)
  PROVE  cmd'[p].k = 0 /\ ~cmd'[p].fresh
<1>1. CASE Issue(p)
  <2>1. PICK op \in Ops, e \in Env, c \in ConfigKind :
          cmd' = [cmd EXCEPT ![p] = [Idle EXCEPT !.op = op, !.pc = op, !.env = e, !.cfg = c]]
    BY <1>1, NetEnvAssumption DEF Issue, ConfigKind
  <2> QED
    BY <2>1, NetEnvAssumption DEF Idle, TypeOK
<1>2. CASE Return(p) \/ Die(p)
  BY <1>2 DEF Return, Die, Idle, TypeOK
<1> QED
  BY <1>1, <1>2

LEMMA LoadingFresh ==
  ASSUME NEW p \in Proc, TypeOK, LoadConfig(p)
  PROVE  Stays(p) /\ cmd'[p].k = cmd[p].k
<1>1. CASE Fail(p)
  BY <1>1, Moving DEF Fail, Labels
<1>2. CASE ~Fail(p)
  <2>1. cmd' = [cmd EXCEPT ![p] = [cmd[p] EXCEPT !.cfg = Folder(p).cfg, !.pc = "netns"]]
    BY <1>2 DEF LoadConfig
  <2> QED
    BY <2>1 DEF Stays, TypeOK, CommandState
<1> QED
  BY <1>1, <1>2

LEMMA EnteringFresh ==
  ASSUME NEW p \in Proc, TypeOK, Run(p)
  PROVE  cmd'[p].fresh = cmd[p].fresh
<1>1. CASE EnterNetns(p) /\ ~Fail(p)
  <2>1. cmd' = [cmd EXCEPT ![p] = [cmd[p] EXCEPT !.ns = bound[cmd[p].env], !.pc = "loadrun"]]
    BY <1>1 DEF EnterNetns
  <2> QED
    BY <2>1 DEF TypeOK, CommandState
<1>2. CASE Fail(p) \/ LoadRunConfig(p) \/ FinishRun(p)
  BY <1>2, Moving DEF Fail, LoadRunConfig, FinishRun, Labels, Stays
<1> QED
  BY <1>1, <1>2 DEF Run

LEMMA FreshOutside ==
  ASSUME NEW p \in Proc, TypeOK, FreshKnown(p),
         \/ Issue(p) \/ Return(p) \/ Die(p) \/ Create(p) \/ StartCheck(p) \/ LoadConfig(p)
         \/ Delete(p) \/ Run(p)
  PROVE  FreshKnown(p)'
<1> USE DEF NotYet, SetUpOn, RoutesOn, ScanOn, WorldOn, ArpOn, At, Listed, Asking
<1>1. CASE Issue(p) \/ Return(p) \/ Die(p)
  <2>1. cmd'[p].pc \in Commands \cup {"idle"} /\ cmd'[p].k = 0 /\ ~cmd'[p].fresh
    BY <1>1, Issuing, IssuingFresh
  <2> QED
    BY <2>1 DEF FreshKnown, Commands
<1>2. CASE Create(p) \/ StartCheck(p) \/ LoadConfig(p)
  <2>1. cmd[p].pc \in NotYet
    BY <1>2 DEF Create, CreateCheck, MakeFolder, CopyConfig, MakeLogs, StartCheck, LoadConfig
  <2>2. cmd'[p].pc \in NotYet \cup {"exists", "failed"}
    BY <1>2, Moving, Loading
       DEF Create, CreateCheck, MakeFolder, CopyConfig, MakeLogs, StartCheck, Fail, Labels
  <2>3. cmd'[p].fresh = cmd[p].fresh /\ cmd'[p].k = cmd[p].k
    BY <1>2, Moving, LoadingFresh
       DEF Create, CreateCheck, MakeFolder, CopyConfig, MakeLogs, StartCheck, Fail, Labels, Stays
  <2> QED
    BY <2>1, <2>2, <2>3 DEF FreshKnown
<1>3. CASE Delete(p) \/ Run(p)
  <2>1. cmd[p].pc \in {"delete", "remove", "rmtree", "run", "loadrun", "running"}
    BY <1>3 DEF Delete, DeleteCheck, RemoveNetns, RemoveFolder, Run, EnterNetns, LoadRunConfig,
         FinishRun
  <2>2. cmd'[p].pc \in {"failed", "remove", "rmtree", "ok", "loadrun", "running"}
    BY <1>3, Moving, Entering DEF Delete, DeleteCheck, RemoveNetns, RemoveFolder, Fail, Labels
  <2>3. cmd'[p].fresh = cmd[p].fresh
    BY <1>3, Moving, EnteringFresh
       DEF Delete, DeleteCheck, RemoveNetns, RemoveFolder, Fail, Labels, Stays
  <2> QED
    BY <2>1, <2>2, <2>3 DEF FreshKnown
<1> QED
  BY <1>1, <1>2, <1>3

(* The namespace that a command makes is one that was not in use.          *)
LEMMA FreshOpening ==
  ASSUME NEW p \in Proc, TypeOK, Belongs(p), Pristine, FreshKnown(p), OpenNetns(p)
  PROVE  FreshKnown(p)'
<1>1. cmd[p].pc = "netns" /\ cmd[p].env \in Env
  BY DEF OpenNetns, At, Belongs
<1>2. cmd[p].k = 0 /\ ~cmd[p].fresh
  BY <1>1 DEF FreshKnown, NotYet, SetUpOn, RoutesOn, ScanOn, WorldOn, ArpOn
<1>3. CASE bound[cmd[p].env] # NoNs
  <2>1. cmd' = [cmd EXCEPT ![p] = [cmd[p] EXCEPT !.ns = bound[cmd[p].env], !.pc = "lookup"]]
    BY <1>3 DEF OpenNetns
  <2>2. cmd'[p].pc = "lookup" /\ ~cmd'[p].fresh
    BY <1>2, <2>1 DEF TypeOK, CommandState
  <2> QED
    BY <2>2 DEF FreshKnown, NotYet, At, Listed, Asking
<1>4. CASE bound[cmd[p].env] = NoNs
  <2>1. PICK m \in NsId :
          /\ home[m] = NoEnv
          /\ bound' = [bound EXCEPT ![cmd[p].env] = m]
          /\ cmd' = [cmd EXCEPT ![p] = [cmd[p] EXCEPT !.ns = m, !.fresh = TRUE, !.pc = "lookup"]]
    BY <1>4, ZenonT(30) DEF OpenNetns
  <2>2. /\ cmd'[p].pc = "lookup" /\ cmd'[p].ns = m /\ cmd'[p].k = 0
        /\ cmd'[p].env = cmd[p].env
    BY <1>2, <2>1 DEF TypeOK, CommandState
  <2>3. bound'[cmd'[p].env] = m
    BY <1>1, <2>1, <2>2 DEF TypeOK
  <2>4. tun' = tun /\ base' = base
    BY DEF OpenNetns, inside
  <2>5. tun'[m][0] = {} /\ tun'[m][1] = {} /\ base'[m] = {}
    BY <2>1, <2>4 DEF Pristine, Tun
  <2>6. FreshTun(p)' /\ FreshBase(p)'
    BY <2>2, <2>5 DEF FreshTun, FreshBase, At, Making, Ruling, Routing
  <2> QED
    BY <2>2, <2>3, <2>6 DEF FreshKnown, NotYet, At, SetUpOn, Listed, Asking
<1> QED
  BY <1>3, <1>4

-----------------------------------------------------------------------------
(* Namespaces that are not in use.                                         *)

LEMMA PristineStays ==
  ASSUME Pristine, home' = home, NEW n \in NsId, home[n] # NoEnv,
         \A m \in NsId \ {n} : tun'[m] = tun[m] /\ base'[m] = base[m]
  PROVE  Pristine'
BY DEF Pristine

LEMMA PristineStep ==
  ASSUME NEW p \in Proc, TypeOK, Names, Belongs(p), Pristine, Step(p)
  PROVE  Pristine'
<1> DEFINE n == cmd[p].ns
<1>1. CASE UNCHANGED <<home, tun, base>>
  BY <1>1 DEF Pristine
<1>2. CASE OpenNetns(p)
  <2>1. cmd[p].env \in Env /\ UNCHANGED <<tun, base>>
    BY <1>2 DEF OpenNetns, At, Belongs, inside
  <2>2. CASE home' = home
    BY <2>1, <2>2 DEF Pristine
  <2>3. CASE home' # home
    <3>1. PICK m \in NsId : home' = [home EXCEPT ![m] = cmd[p].env]
      BY <1>2, <2>3 DEF OpenNetns, names
    <3>2. \A i \in NsId : home'[i] = NoEnv => home[i] = NoEnv
      BY <2>1, <3>1, NetEnvAssumption DEF TypeOK
    <3> QED
      BY <2>1, <3>2 DEF Pristine
  <2> QED
    BY <2>2, <2>3
<1>3. CASE \/ AddLink(p) \/ AddAddr(p) \/ LinkUp(p) \/ FlushLocal(p) \/ AddLocalRoute(p)
           \/ AddRule(p) \/ AddP2PRoute(p) \/ LoopbackUp(p) \/ WethAddr(p) \/ WethUp(p)
           \/ AttachPeer(p) \/ AddGateway(p)
  <2>1. n \in NsId
    BY <1>3 DEF AddLink, AddAddr, LinkUp, FlushLocal, AddLocalRoute, AddRule, AddP2PRoute,
       LoopbackUp, WethAddr, WethUp, AttachPeer, AddGateway, At, Belongs, Reached, SetUpOn,
       RoutesOn, ScanOn, WorldOn
  <2>2. home[n] # NoEnv
    BY <2>1, NetEnvAssumption DEF Names
  <2>3. home' = home
    BY <1>3 DEF AddLink, AddAddr, LinkUp, FlushLocal, AddLocalRoute, AddRule, AddP2PRoute,
       LoopbackUp, WethAddr, WethUp, AttachPeer, AddGateway, names
  <2>4. \A m \in NsId \ {n} : tun'[m] = tun[m] /\ base'[m] = base[m]
    <3>1. CASE AddLink(p) \/ AddAddr(p) \/ LinkUp(p) \/ AddLocalRoute(p) \/ AddRule(p) \/ AddP2PRoute(p)
      BY <3>1, <2>1, Giving DEF AddLink, AddAddr, LinkUp, AddLocalRoute, AddRule, AddP2PRoute, TunFact
    <3>2. CASE FlushLocal(p)
      BY <3>2 DEF FlushLocal, TypeOK
    <3>3. CASE \/ LoopbackUp(p) \/ WethAddr(p) \/ WethUp(p) \/ AttachPeer(p) \/ AddGateway(p)
      BY <3>3 DEF LoopbackUp, WethAddr, WethUp, AttachPeer, AddGateway, GiveBase, TypeOK
    <3> QED
      BY <1>3, <3>1, <3>2, <3>3
  <2> QED
    BY <2>1, <2>2, <2>3, <2>4, PristineStays
<1>4. CASE AddVeth(p) \/ SetArp(p)
  <2> DEFINE m == bound[cmd[p].env]
  <2>1. CASE m = NoNs
    BY <1>1, <1>4, <2>1 DEF AddVeth, SetArp, names
  <2>2. CASE m # NoNs
    <3>1. cmd[p].env \in Env
      BY <1>4 DEF AddVeth, SetArp, At, Belongs
    <3>2. m \in NsId /\ home[m] # NoEnv
      BY <2>2, <3>1, NetEnvAssumption DEF Names, TypeOK
    <3>3. home' = home /\ \A i \in NsId \ {m} : tun'[i] = tun[i] /\ base'[i] = base[i]
      BY <1>4 DEF AddVeth, SetArp, TypeOK, names
    <3> QED
      BY <3>2, <3>3, PristineStays
  <2> QED
    BY <2>1, <2>2
<1>5. CASE \/ Issue(p) \/ Return(p) \/ Die(p) \/ Create(p) \/ StartCheck(p) \/ LoadConfig(p)
           \/ LookupLink(p) \/ LookupRules(p) \/ LookupRoutes(p)
           \/ ListNetns(p) \/ OpenListed(p) \/ QueryListed(p) \/ PickAddress(p)
           \/ LookupBridge(p) \/ AddBridge(p) \/ BridgeAddr(p) \/ BridgeUp(p) \/ BridgeNat(p)
           \/ Delete(p) \/ Run(p)
  BY <1>1, <1>5 DEF Issue, Return, Die, Create, CreateCheck, MakeFolder, CopyConfig, MakeLogs,
     StartCheck, LoadConfig, LookupLink, LookupRules, LookupRoutes, ListNetns, OpenListed,
     QueryListed, PickAddress, LookupBridge, AddBridge, BridgeAddr, BridgeUp, BridgeNat, Delete,
     DeleteCheck, RemoveNetns, RemoveFolder, Run, EnterNetns, LoadRunConfig, FinishRun, names, inside
<1> QED
  BY <1>2, <1>3, <1>4, <1>5 DEF Step, Tunnel, World

-----------------------------------------------------------------------------
(* The theorem.                                                            *)

LEMMA FreshInit == Init => FInv
<1> SUFFICES ASSUME Init
             PROVE  FInv
  OBVIOUS
<1>1. Pristine
  BY DEF Init, Pristine
<1>2. \A p \in Proc : cmd[p].pc = "idle" /\ cmd[p].fresh = FALSE
  BY DEF Init, Idle
<1>3. \A p \in Proc : FreshKnown(p)
  BY <1>2 DEF FreshKnown, At, NotYet, Listed, Asking
<1> QED
  BY <1>1, <1>3 DEF FInv

(* The kernel takes nothing away that a name refers to.                    *)
LEMMA FreshReap ==
  ASSUME IInv, FInv, NEW n \in NsId, Reap(n)
  PROVE  FInv'
<1>1. /\ \A m \in NsId \ {n} : home'[m] = home[m] /\ tun'[m] = tun[m] /\ base'[m] = base[m]
      /\ bound' = bound /\ cmd' = cmd /\ bridge' = bridge
      /\ base'[n] = {} /\ \A j \in Tun : tun'[n][j] = {}
  BY DEF Reap, IInv, TypeOK
<1>2. Pristine'
  BY <1>1 DEF FInv, Pristine
<1>3. ASSUME NEW p \in Proc
      PROVE  FreshKnown(p)'
  <2>1. FreshKnown(p)
    BY DEF FInv
  <2>2. cmd[p].ns # n
    BY DEF Reap, Held
  <2>3. cmd[p].pc \in SetUpOn => cmd[p].ns \in NsId
    BY DEF IInv, Progress, Belongs, Reached
  <2>4. cmd[p].pc \in SetUpOn => (FreshTun(p) <=> FreshTun(p)') /\ (FreshBase(p) <=> FreshBase(p)')
    <3> SUFFICES ASSUME cmd[p].pc \in SetUpOn
                 PROVE  (FreshTun(p) <=> FreshTun(p)') /\ (FreshBase(p) <=> FreshBase(p)')
      OBVIOUS
    <3>1. tun'[cmd[p].ns] = tun[cmd[p].ns] /\ base'[cmd[p].ns] = base[cmd[p].ns] /\ cmd' = cmd
      BY <1>1, <2>2, <2>3
    <3> QED
      BY <3>1 DEF FreshTun, FreshBase, At
  <2> QED
    BY <1>1, <2>1, <2>4 DEF FreshKnown, At, Listed
<1> QED
  BY <1>2, <1>3 DEF FInv

(* A step leaves another environment its name.                             *)
LEMMA NameStays ==
  ASSUME NEW q \in Proc, TypeOK, Step(q), NEW e \in Env, bound[e] # NoNs,
         e = cmd[q].env => ~At(q, "remove")
  PROVE  bound'[e] = bound[e]
<1>1. CASE OpenNetns(q)
  BY <1>1 DEF OpenNetns, TypeOK, names
<1>2. CASE RemoveNetns(q)
  BY <1>2 DEF RemoveNetns, TypeOK
<1>3. CASE ~(OpenNetns(q) \/ RemoveNetns(q))
  BY <1>3 DEF Step, Issue, Return, Die, Create, CreateCheck, MakeFolder, CopyConfig, MakeLogs,
     StartCheck, LoadConfig, Tunnel, LookupLink, AddLink, AddAddr, LinkUp, FlushLocal, LookupRules,
     AddLocalRoute, AddRule, LookupRoutes, AddP2PRoute, LoopbackUp, World, ListNetns, OpenListed,
     QueryListed, PickAddress, LookupBridge, AddBridge, BridgeAddr, BridgeUp, BridgeNat, AddVeth,
     WethAddr, WethUp, AttachPeer, AddGateway, SetArp, Delete, DeleteCheck, RemoveFolder, Run, EnterNetns, LoadRunConfig,
     FinishRun, names
<1> QED
  BY <1>1, <1>2, <1>3

LEMMA BridgeLink ==
  ASSUME NEW q \in Proc, Step(q), ~At(q, "addbridge"), "link" \notin bridge
  PROVE  "link" \notin bridge'
<1>1. CASE BridgeAddr(q) \/ BridgeUp(q) \/ BridgeNat(q)
  BY <1>1 DEF BridgeAddr, BridgeUp, BridgeNat
<1>2. CASE AddBridge(q)
  BY <1>2 DEF AddBridge
<1>3. CASE ~(AddBridge(q) \/ BridgeAddr(q) \/ BridgeUp(q) \/ BridgeNat(q))
  <2>1. bridge' = bridge
    BY <1>3 DEF Step, Issue, Return, Die, Create, CreateCheck, MakeFolder, CopyConfig, MakeLogs,
       StartCheck, LoadConfig, Tunnel, OpenNetns, LookupLink, AddLink, AddAddr, LinkUp, FlushLocal,
       LookupRules, AddLocalRoute, AddRule, LookupRoutes, AddP2PRoute, LoopbackUp, World,
       ListNetns, OpenListed, QueryListed, PickAddress, LookupBridge, AddVeth, WethAddr, WethUp, AttachPeer, AddGateway, SetArp, Delete,
       DeleteCheck, RemoveNetns, RemoveFolder, Run, EnterNetns, LoadRunConfig, FinishRun
  <2> QED
    BY <2>1
<1> QED
  BY <1>1, <1>2, <1>3

LEMMA FreshOther ==
  ASSUME NEW p \in Proc, NEW q \in Proc, p # q, TypeOK, Names, Belongs(p), Belongs(q),
         SetUpsApart, DeletesApart, ScansApart, OneConfigures, FreshKnown(p), Step(q)
  PROVE  FreshKnown(p)'
<1> DEFINE n == cmd[p].ns  e == cmd[p].env
<1>1. cmd'[p] = cmd[p]
  BY StepOfOne
<1>2. At(p, "addbridge") => "link" \notin bridge'
  BY BridgeLink DEF FreshKnown, OneConfigures, TakeTurns, Configuring, At
<1>3. ASSUME cmd[p].fresh, cmd[p].pc \in SetUpOn
      PROVE  bound'[e] = n /\ FreshTun(p)' /\ FreshBase(p)'
  <2>1. n \in NsId /\ e \in Env /\ bound[e] = n /\ home[n] = e
    BY <1>3, NetEnvAssumption DEF FreshKnown, Belongs, Reached, Names
  <2>2. cmd[q].pc \in SetUpOn => cmd[q].env # e
    BY <1>3 DEF SetUpsApart
  <2>3. cmd[q].pc \in SetUpOn => n # cmd[q].ns /\ n # bound[cmd[q].env]
    BY <2>1, <2>2, NetEnvAssumption DEF Names, Belongs, Reached, TypeOK, SetUpOn, RoutesOn, ScanOn,
       WorldOn, ArpOn
  <2>4. tun'[n] = tun[n] /\ base'[n] = base[n]
    BY <2>1, <2>3, Confined
  <2>5. bound'[e] = n
    BY <1>3, <2>1, NameStays, NetEnvAssumption DEF DeletesApart
  <2> QED
    BY <1>1, <1>3, <2>4, <2>5 DEF FreshKnown, FreshTun, FreshBase, At
<1>4. ASSUME cmd[p].pc \in Asking, NEW f \in cmd[p].todo
      PROVE  bound'[f] # NoNs
  <2>1. f \in Env /\ bound[f] # NoNs
    BY <1>4 DEF FreshKnown, Listed, TypeOK, CommandState
  <2>2. f = cmd[q].env => ~At(q, "remove")
    BY <1>4 DEF ScansApart
  <2> QED
    BY <2>1, <2>2, NameStays
<1>5. Listed(p)'
  BY <1>1, <1>4 DEF Listed
<1> QED
  BY <1>1, <1>2, <1>3, <1>5 DEF FreshKnown, At

Apart == SetUpsApart /\ DeletesApart /\ ScansApart /\ OneConfigures

LEMMA FreshStep == Apart /\ IInv /\ FInv /\ [Next]_vars => FInv'
<1> SUFFICES ASSUME Apart, IInv, FInv, [Next]_vars
             PROVE  FInv'
  OBVIOUS
<1>1. TypeOK /\ Names /\ Pristine
  BY DEF IInv, FInv
<1>2. CASE \E p \in Proc : Step(p)
  <2>1. PICK p \in Proc : Step(p)
    BY <1>2
  <2>2. Belongs(p) /\ TunnelProgress(p) /\ FreshKnown(p)
    BY DEF IInv, Progress, FInv
  <2>3. Pristine'
    BY <1>1, <2>1, <2>2, PristineStep
  <2>4. FreshKnown(p)'
    <3>1. CASE OpenNetns(p)
      BY <1>1, <2>2, <3>1, FreshOpening
    <3>2. CASE Tunnel(p) /\ ~OpenNetns(p)
      BY <1>1, <2>2, <3>2, FreshTunnel
    <3>3. CASE World(p) \/ SetArp(p)
      BY <1>1, <2>2, <3>3, FreshWorld
    <3>4. CASE \/ Issue(p) \/ Return(p) \/ Die(p) \/ Create(p) \/ StartCheck(p) \/ LoadConfig(p)
               \/ Delete(p) \/ Run(p)
      BY <1>1, <2>2, <3>4, FreshOutside
    <3> QED
      BY <2>1, <3>1, <3>2, <3>3, <3>4 DEF Step
  <2>5. ASSUME NEW q \in Proc, q # p
        PROVE  FreshKnown(q)'
    <3>1. Belongs(q) /\ FreshKnown(q)
      BY DEF IInv, Progress, FInv
    <3> QED
      BY <1>1, <2>1, <2>2, <2>5, <3>1, FreshOther DEF Apart
  <2> QED
    BY <2>3, <2>4, <2>5 DEF FInv
<1>3. CASE \E n \in NsId : Reap(n)
  BY <1>3, FreshReap
<1>4. CASE Reboot
  <2>1. \A p \in Proc : cmd'[p].pc = "idle" /\ cmd'[p].fresh = FALSE
    BY <1>4 DEF Reboot, Idle
  <2>2. \A p \in Proc : FreshKnown(p)'
    BY <2>1 DEF FreshKnown, At, NotYet, Listed, Asking
  <2>3. Pristine'
    BY <1>4 DEF Reboot, Pristine
  <2> QED
    BY <2>2, <2>3 DEF FInv
<1>5. CASE UNCHANGED vars
  <2>1. UNCHANGED <<home, bound, tun, base, bridge, cmd>>
    BY <1>5 DEF vars, names, inside
  <2> QED
    BY <2>1 DEF FInv, Pristine, FreshKnown, FreshTun, FreshBase, At, Listed
<1> QED
  BY <1>2, <1>3, <1>4, <1>5 DEF Next

(* What a step of a set-up in a namespace of its own can fail at.          *)
LEMMA FailsOnLeftovers ==
  ASSUME NEW p \in Proc, IInv, FInv, Step(p),
         cmd[p].fresh, cmd[p].pc # "failed", cmd'[p].pc = "failed"
  PROVE  \E n \in NsId \ {cmd[p].ns} : home[n] = cmd[p].env /\ "weth" \in base[n]
<1> DEFINE c == cmd[p]  n == cmd[p].ns
<1> USE DEF At, IsUp, Unrouted
<1>a. TypeOK /\ Belongs(p) /\ FreshKnown(p)
  BY DEF IInv, Progress, FInv
<1>b. c.pc \in SetUpOn \cup {"ok"} /\ c.k \in {0, 1}
  BY <1>a DEF FreshKnown, TypeOK, CommandState, Tun
<1>c. c.pc \in SetUpOn => bound[c.env] = n /\ n \in NsId /\ FreshTun(p) /\ FreshBase(p)
  BY <1>a DEF FreshKnown, Belongs, Reached
<1>1. CASE \/ Issue(p) \/ Return(p) \/ Die(p) \/ OpenNetns(p) \/ PickAddress(p)
  <2>1. cmd'[p].pc \in Commands \cup {"idle", "lookup", "bridge", "arp", "ok"}
    BY <1>1, <1>a, Issuing, Opening, Picks DEF AfterWorld
  <2> QED
    BY <2>1 DEF Commands
<1>2. CASE Create(p) \/ StartCheck(p) \/ LoadConfig(p) \/ Delete(p) \/ Run(p)
  <2>1. c.pc \in {"create", "mkdir", "copy", "logs", "start", "load", "delete", "remove", "rmtree",
                  "run", "loadrun", "running"}
    BY <1>2 DEF Create, CreateCheck, MakeFolder, CopyConfig, MakeLogs, StartCheck, LoadConfig,
       Delete, DeleteCheck, RemoveNetns, RemoveFolder, Run, EnterNetns, LoadRunConfig, FinishRun
  <2> QED
    BY <1>b, <2>1 DEF SetUpOn, RoutesOn, ScanOn, WorldOn, ArpOn
<1>3. CASE \/ AddAddr(p) \/ FlushLocal(p) \/ LoopbackUp(p) \/ LookupBridge(p) \/ BridgeAddr(p)
           \/ BridgeUp(p) \/ BridgeNat(p) \/ WethUp(p) \/ AttachPeer(p) \/ AddGateway(p)
  BY <1>3, <1>a, Moving DEF AddAddr, FlushLocal, LoopbackUp, LookupBridge, BridgeAddr, BridgeUp,
     BridgeNat, WethUp, AttachPeer, AddGateway, AfterWorld, Labels
<1>4. CASE LookupLink(p) \/ LinkUp(p) \/ AddRule(p) \/ LookupRoutes(p)
  BY <1>4, <1>a, Moving, MovingTun DEF LookupLink, LinkUp, AddRule, LookupRoutes, Labels
<1>5. CASE AddLink(p)
  <2>1. c.pc = "addlink" /\ "link" \notin TunOf(p)
    BY <1>5, <1>c DEF AddLink, FreshTun, TunOf, SetUpOn
  <2> QED
    BY <1>5, <2>1, <1>a, Moving DEF AddLink, Labels
<1>6. CASE LookupRules(p)
  <2>1. c.pc = "rules" /\ {"link", "addr"} \subseteq TunOf(p)
    BY <1>6, <1>b, <1>c DEF LookupRules, FreshTun, TunOf, SetUpOn, Ruling
  <2> QED
    BY <1>6, <2>1, <1>a, Moving, MovingTun DEF LookupRules, Labels
<1>7. CASE AddLocalRoute(p)
  <2>1. "route" \notin TunOf(p)
    BY <1>7, <1>c DEF AddLocalRoute, FreshTun, TunOf, SetUpOn
  <2> QED
    BY <1>7, <2>1, <1>a, Moving DEF AddLocalRoute, Labels
<1>8. CASE AddP2PRoute(p)
  <2>1. "up" \in TunOf(p) /\ "p2p" \notin TunOf(p)
    BY <1>8, <1>b, <1>c DEF AddP2PRoute, FreshTun, TunOf, SetUpOn, RoutesOn, Routing
  <2> QED
    BY <1>8, <2>1, <1>a, MovingTun DEF AddP2PRoute, Labels
<1>9. CASE AddBridge(p)
  <2>1. "link" \notin bridge
    BY <1>9, <1>a DEF AddBridge, FreshKnown
  <2> QED
    BY <1>9, <2>1, <1>a, Moving DEF AddBridge, Labels
<1>10. CASE AddVeth(p)
  <2>1. c.pc = "veth"
    BY <1>10 DEF AddVeth
  <2>2. bound[c.env] = n /\ n \in NsId /\ "weth" \notin base[n]
    BY <1>c, <2>1 DEF FreshBase, SetUpOn, RoutesOn, ScanOn, WorldOn, Joined
  <2>3. PeerExists(c.env)
    BY <1>10, <1>a, <2>2, NetEnvAssumption, Moving DEF AddVeth, Labels
  <2> QED
    BY <2>2, <2>3 DEF PeerExists
<1>11. CASE WethAddr(p)
  <2>1. "weth" \in base[n]
    BY <1>11, <1>c DEF WethAddr, FreshBase, SetUpOn, RoutesOn, ScanOn, WorldOn
  <2> QED
    BY <1>11, <2>1, <1>a, Moving DEF WethAddr, Labels
<1>12. CASE SetArp(p)
  <2>1. bound[c.env] # NoNs
    BY <1>12, <1>c, NetEnvAssumption DEF SetArp, SetUpOn, RoutesOn, ScanOn, ArpOn
  <2> QED
    BY <1>12, <2>1, <1>a, Moving DEF SetArp, Labels
<1>13. CASE ListNetns(p) \/ QueryListed(p)
  <2>1. cmd'[p].pc = "open"
    <3>1. CASE ListNetns(p)
      <4>1. cmd' = [cmd EXCEPT ![p] = [c EXCEPT !.todo = {e \in Env : bound[e] # NoNs},
                                                !.pc = "open"]]
        BY <3>1 DEF ListNetns
      <4> QED
        BY <4>1, <1>a DEF TypeOK, CommandState
    <3>2. CASE QueryListed(p)
      <4>1. cmd' = [cmd EXCEPT ![p] = [c EXCEPT !.seen = @ \cup {waddr[c.look]}, !.look = NoNs,
                                                !.pc = "open"]]
        BY <3>2 DEF QueryListed
      <4> QED
        BY <4>1, <1>a DEF TypeOK, CommandState
    <3> QED
      BY <1>13, <3>1, <3>2
  <2> QED
    BY <2>1
<1>14. CASE OpenListed(p)
  <2>1. \A e \in c.todo : bound[e] # NoNs
    BY <1>14, <1>a DEF OpenListed, FreshKnown, Listed, Asking
  <2>2. PICK e \in c.todo :
          cmd' = [cmd EXCEPT ![p] = [c EXCEPT !.todo = @ \ {e}, !.look = bound[e], !.pc = "query"]]
    BY <1>14, <2>1 DEF OpenListed
  <2>3. cmd'[p].pc = "query"
    BY <2>2, <1>a DEF TypeOK, CommandState
  <2> QED
    BY <2>3
<1> QED
  BY <1>1, <1>2, <1>3, <1>4, <1>5, <1>6, <1>7, <1>8, <1>9, <1>10, <1>11, <1>12, <1>13, <1>14
     DEF Step, Tunnel, World

(* If no other set-up and no delete of the same environment comes between, *)
(* no name is removed between its listing and its turn in a scan, and one  *)
(* command at a time configures the bridge, a create or start that made    *)
(* its namespace itself fails at nothing but the veth peer of an earlier   *)
(* namespace of the same name, whatever died or was rebooted before it     *)
(* (ns.create_tap_env, ns.create_tun_env, ns._get_available_address,       *)
(* ns._setup_world_connection).                                            *)
THEOREM TurnsLeaveFreshSetUpAlone ==
  Spec /\ []SetUpsApart /\ []DeletesApart /\ []ScansApart /\ []OneConfigures
    => FreshSetUpFailsOnLeftoversOnly
<1> DEFINE Fails(p) == cmd[p].fresh /\ cmd[p].pc # "failed" /\ cmd'[p].pc = "failed"
           Leftover(p) == \E n \in NsId \ {cmd[p].ns} : home[n] = cmd[p].env /\ "weth" \in base[n]
<1>1. IInv /\ FInv /\ [Next]_vars => [\A p \in Proc : Fails(p) => Leftover(p)]_vars
  <2> SUFFICES ASSUME IInv, FInv, [Next]_vars, NEW p \in Proc, Fails(p)
               PROVE  Leftover(p)
    OBVIOUS
  <2>1. CASE Step(p)
    BY <2>1, FailsOnLeftovers
  <2>2. CASE (\E n \in NsId : Reap(n)) \/ UNCHANGED vars
    BY <2>2 DEF Reap, vars
  <2>3. CASE Reboot
    BY <2>3 DEF Reboot, Idle
  <2>4. ASSUME NEW q \in Proc, q # p, Step(q) PROVE FALSE
    BY <2>4, StepOfOne DEF IInv
  <2> QED
    BY <2>1, <2>2, <2>3, <2>4 DEF Next
<1>2. SetUpsApart /\ DeletesApart /\ ScansApart /\ OneConfigures => Apart
  BY DEF Apart
<1> QED
  BY <1>1, <1>2, FreshInit, FreshStep, Invariance, PTL DEF Spec, FreshSetUpFailsOnLeftoversOnly

(* So it is when all commands follow each other.                           *)
THEOREM FreshSetUpIsUndisturbed ==
  ASSUME Alone
  PROVE  Spec => FreshSetUpFailsOnLeftoversOnly
<1>1. SetUpsApart /\ DeletesApart /\ ScansApart /\ OneConfigures
  BY DEF Alone, SetUpsApart, DeletesApart, ScansApart, OneConfigures, TakeTurns, At, SetUpOn,
     RoutesOn, ScanOn, WorldOn, ArpOn, Asking
<1> QED
  BY <1>1, TurnsLeaveFreshSetUpAlone, PTL

================================================================================
