-------------------------- MODULE NetEnvTurnsProofs --------------------------
(* Proofs about NetEnv with commands that take turns where they have to,   *)
(* for every number of environments, of processes, of namespaces and of    *)
(* addresses.  Nothing in the code makes them take turns, and two commands *)
(* at the same time break each of the properties below (README); what is   *)
(* proved is how much a lock around a few lines would be worth.            *)
EXTENDS NetEnvProofs

(* Commands that follow each other: one process issues all of them.        *)
Alone == \E p \in Proc : Proc = {p}

Configuring == {"addbridge", "bridgeaddr", "bridgeup", "bridgenat"}
Attaching   == {"veth", "wethaddr", "wethup", "attach", "gateway"}

(* From listnetns to the choice of an address, and until the veth has it.  *)
(* At "scan" a command is about to call listnetns and knows nothing yet:   *)
(* that is where it would wait for a lock.                                 *)
Asking  == {"open", "query"}
Chosen  == {"bridge", "addbridge", "bridgeaddr", "bridgeup", "bridgenat", "veth", "wethaddr"}
Holding == Asking \cup Chosen

(* The labels at which the default local routes come.                      *)
Adding == {"addaddr", "linkup"}

TakeTurns(S) == \A p, q \in Proc : p # q => ~(cmd[p].pc \in S /\ cmd[q].pc \in S)

(* A lock for each environment, held from NetNS(env_name) to the end of    *)
(* the set-up.                                                             *)
SetUpsApart ==
  \A p, q \in Proc : p # q /\ cmd[p].env = cmd[q].env =>
    ~(cmd[p].pc \in SetUpOn /\ cmd[q].pc \in SetUpOn)

(* A lock from the listnetns of _get_available_address to the add_addr of  *)
(* what it returned.                                                       *)
OneHolds == TakeTurns(Holding)

(* A lock around _setup_bridge.                                            *)
OneConfigures == TakeTurns({"bridge"} \cup Configuring)

(* No command ends while it configures the bridge, except together with    *)
(* the machine.                                                            *)
Configured == \A p \in Proc : cmd[p].pc \in Configuring => cmd'[p].pc # "idle" \/ bridge' = {}

-----------------------------------------------------------------------------
(* The steps that change more of a command than its label.                 *)

LEMMA Issuing ==
  ASSUME NEW p \in Proc, TypeOK, Issue(p) \/ Return(p) \/ Die(p)
  PROVE  cmd'[p].pc \in Commands \cup {"idle"} /\ cmd'[p].addr = 0
<1>1. CASE Issue(p)
  <2>1. PICK op \in Ops, e \in Env, c \in ConfigKind :
          cmd' = [cmd EXCEPT ![p] = [Idle EXCEPT !.op = op, !.pc = op, !.env = e, !.cfg = c]]
    BY <1>1, NetEnvAssumption DEF Issue, ConfigKind
  <2> QED
    BY <2>1, NetEnvAssumption DEF Idle, TypeOK
<1>2. CASE Return(p) \/ Die(p)
  BY <1>2 DEF Return, Die, Idle, TypeOK
<1> QED
  BY <1>1, <1>2

LEMMA Loading ==
  ASSUME NEW p \in Proc, TypeOK, LoadConfig(p)
  PROVE  cmd'[p].pc \in {"netns", "failed"} /\ cmd'[p].addr = cmd[p].addr
<1>1. CASE Fail(p)
  BY <1>1, Going DEF Fail, Labels, TypeOK, Same
<1>2. CASE ~Fail(p)
  <2>1. cmd' = [cmd EXCEPT ![p] = [cmd[p] EXCEPT !.cfg = Folder(p).cfg, !.pc = "netns"]]
    BY <1>2 DEF LoadConfig
  <2> QED
    BY <2>1 DEF TypeOK, CommandState
<1> QED
  BY <1>1, <1>2

LEMMA Opening ==
  ASSUME NEW p \in Proc, TypeOK, OpenNetns(p)
  PROVE  cmd'[p].pc = "lookup" /\ cmd'[p].addr = cmd[p].addr
<1>1. CASE bound[cmd[p].env] # NoNs
  <2>1. cmd' = [cmd EXCEPT ![p] = [cmd[p] EXCEPT !.ns = bound[cmd[p].env], !.pc = "lookup"]]
    BY <1>1 DEF OpenNetns
  <2> QED
    BY <2>1 DEF TypeOK, CommandState
<1>2. CASE bound[cmd[p].env] = NoNs
  <2>1. PICK m \in NsId :
          cmd' = [cmd EXCEPT ![p] = [cmd[p] EXCEPT !.ns = m, !.fresh = TRUE, !.pc = "lookup"]]
    BY <1>2 DEF OpenNetns
  <2> QED
    BY <2>1 DEF TypeOK, CommandState
<1> QED
  BY <1>1, <1>2

LEMMA Entering ==
  ASSUME NEW p \in Proc, TypeOK, Run(p)
  PROVE  /\ cmd'[p].pc \in {"failed", "loadrun", "running", "ok"}
         /\ cmd'[p].op = cmd[p].op /\ cmd'[p].addr = cmd[p].addr
<1>1. CASE EnterNetns(p) /\ ~Fail(p)
  <2>1. cmd' = [cmd EXCEPT ![p] = [cmd[p] EXCEPT !.ns = bound[cmd[p].env], !.pc = "loadrun"]]
    BY <1>1 DEF EnterNetns
  <2> QED
    BY <2>1 DEF TypeOK, CommandState
<1>2. CASE Fail(p) \/ LoadRunConfig(p) \/ FinishRun(p)
  BY <1>2, Going DEF Fail, LoadRunConfig, FinishRun, Labels, TypeOK, Same
<1> QED
  BY <1>1, <1>2 DEF Run

(* What a step of a command comes from.                                    *)
LEMMA ComingTo ==
  ASSUME NEW p \in Proc, TypeOK, Belongs(p), Step(p)
  PROVE  /\ cmd'[p].pc = "addaddr" => AddLink(p)
         /\ cmd'[p].pc = "linkup" => AddAddr(p)
         /\ cmd'[p].pc = "idle" => Return(p) \/ Die(p)
         /\ Succeeded(p)' => PickAddress(p) \/ AddGateway(p) \/ SetArp(p)
<1> USE DEF Succeeded, At
<1>a. cmd \in [Proc -> CommandState]
  BY DEF TypeOK
<1>1. CASE Issue(p) \/ Return(p) \/ Die(p)
  <2>1. CASE Issue(p)
    <3>1. PICK op \in Ops, e \in Env, c \in ConfigKind :
            cmd' = [cmd EXCEPT ![p] = [Idle EXCEPT !.op = op, !.pc = op, !.env = e, !.cfg = c]]
      BY <2>1, NetEnvAssumption DEF Issue, ConfigKind
    <3>2. cmd'[p].pc \in Commands
      BY <3>1, <1>a, NetEnvAssumption DEF Idle
    <3> QED
      BY <3>2 DEF Commands
  <2>2. CASE Return(p) \/ Die(p)
    BY <2>2, <1>a DEF Return, Die, Idle
  <2> QED
    BY <1>1, <2>1, <2>2
<1>2. CASE Create(p) \/ StartCheck(p) \/ LoadConfig(p) \/ OpenNetns(p)
  BY <1>2, <1>a, Going, Loading, Opening
     DEF Create, CreateCheck, MakeFolder, CopyConfig, MakeLogs, StartCheck, Fail, Labels
<1>3. CASE AddLink(p) \/ AddAddr(p) \/ FlushLocal(p)
  BY <1>3, <1>a, Going DEF AddLink, AddAddr, FlushLocal, Fail, Labels
<1>4. CASE \/ LookupLink(p) \/ LinkUp(p) \/ LookupRules(p) \/ AddLocalRoute(p) \/ AddRule(p)
           \/ LookupRoutes(p) \/ AddP2PRoute(p) \/ LoopbackUp(p)
  <2>1. cmd'[p].pc \in {"lookup", "addlink", "flush", "rules", "addroute", "addrule", "routes",
                        "addp2p", "lo", "scan", "failed"}
    <3>1. CASE LookupLink(p) \/ LinkUp(p) \/ AddRule(p) \/ LoopbackUp(p)
      BY <1>a, <3>1, Going, NextingTun DEF LookupLink, LinkUp, AddRule, LoopbackUp, Labels
    <3>2. CASE LookupRules(p) \/ AddLocalRoute(p)
      BY <1>a, <3>2, Going, NextingTun DEF LookupRules, AddLocalRoute, Fail, Labels
    <3>3. CASE LookupRoutes(p) \/ AddP2PRoute(p)
      BY <1>a, <3>3, Going, NextingTun DEF LookupRoutes, AddP2PRoute, Fail, Labels
    <3> QED
      BY <1>4, <3>1, <3>2, <3>3
  <2> QED
    BY <2>1
<1>5. CASE PickAddress(p)
  BY <1>5, Picks DEF AfterWorld
<1>9. CASE ListNetns(p) \/ OpenListed(p) \/ QueryListed(p)
  BY <1>9, Scans
<1>6. CASE LookupBridge(p) \/ AddBridge(p) \/ BridgeAddr(p) \/ BridgeUp(p) \/ BridgeNat(p)
  BY <1>6, <1>a, Going DEF LookupBridge, AddBridge, BridgeAddr, BridgeUp, BridgeNat, Fail, Labels
<1>7. CASE AddVeth(p) \/ WethAddr(p) \/ WethUp(p) \/ AttachPeer(p) \/ AddGateway(p) \/ SetArp(p)
  BY <1>7, <1>a, Going DEF AddVeth, WethAddr, WethUp, AttachPeer, AddGateway, SetArp, AfterWorld,
     Fail, Labels
<1>8. CASE Delete(p) \/ Run(p)
  <2>1. cmd'[p].pc \in {"failed", "remove", "rmtree", "ok", "loadrun", "running"}
    BY <1>8, <1>a, Going, Entering DEF Delete, DeleteCheck, RemoveNetns, RemoveFolder, Fail, Labels
  <2>2. cmd'[p].op = cmd[p].op
    BY <1>8, <1>a, Going, Entering DEF Delete, DeleteCheck, RemoveNetns, RemoveFolder, Fail, Labels,
         Same
  <2>3. cmd[p].op \in {"delete", "run"}
    BY <1>8 DEF Delete, DeleteCheck, RemoveNetns, RemoveFolder, Run, EnterNetns,
         LoadRunConfig, FinishRun, Belongs
  <2> QED
    BY <2>1, <2>2, <2>3
<1> QED
  BY <1>1, <1>2, <1>3, <1>4, <1>5, <1>6, <1>7, <1>8, <1>9 DEF Step, Tunnel, World

(* The set-ups of two environments have different namespaces.              *)
LEMMA SpacesApart ==
  ASSUME Names, NEW p \in Proc, NEW q \in Proc, cmd[p].env # cmd[q].env,
         cmd[p].ns \in NsId
  PROVE  cmd[p].ns # cmd[q].ns
BY NetEnvAssumption DEF Names

-----------------------------------------------------------------------------
(* Local traffic.                                                          *)

(* The labels of the set-up after the flush of the local routes.           *)
FlushedOn == {"rules", "addroute", "addrule"} \cup RoutesOn

NoNewDefault ==
  \A n \in NsId, k \in Tun : "dflt" \in tun'[n][k] => "dflt" \in tun[n][k]

(* A command past the flush has left no default local route.               *)
Flushed(p) ==
  Reached(p, FlushedOn) => \A k \in Tun : "dflt" \notin tun[cmd[p].ns][k]

LEMMA GivesNoDefault ==
  ASSUME NEW p \in Proc, TypeOK, NEW S \in SUBSET (TunFact \ {"dflt"}), GiveTun(p, S)
  PROVE  NoNewDefault
<1>1. \A n \in NsId, k \in Tun : tun'[n][k] \subseteq tun[n][k] \cup S
  BY DEF GiveTun, TypeOK
<1> QED
  BY <1>1 DEF NoNewDefault

LEMMA ArpGivesNoDefault ==
  ASSUME NEW p \in Proc, TypeOK, Belongs(p), SetArp(p)
  PROVE  NoNewDefault
<1> DEFINE n == bound[cmd[p].env]
           WithArp(k) == IF "p2p" \in tun[n][1 - k] THEN tun[n][k] \cup {"arp"} ELSE tun[n][k]
<1>1. CASE tun' = tun
  BY <1>1 DEF NoNewDefault
<1>2. CASE tun' = [tun EXCEPT ![n] = [k \in Tun |-> WithArp(k)]]
  <2>1. \A m \in NsId, k \in Tun : tun'[m][k] \subseteq tun[m][k] \cup {"arp"}
    BY <1>2 DEF TypeOK
  <2> QED
    BY <2>1 DEF NoNewDefault
<1> QED
  BY <1>1, <1>2 DEF SetArp

(* Between the flush and the end of the set-up.                            *)
LEMMA PastFlush ==
  ASSUME NEW p \in Proc, TypeOK, Belongs(p), Flushed(p), NoNewDefault,
         Reached(p, FlushedOn), cmd'[p].ns = cmd[p].ns
  PROVE  Flushed(p)'
<1>1. cmd[p].ns \in NsId
  BY DEF Belongs, Reached, FlushedOn, SetUpOn
<1> QED
  BY <1>1 DEF Flushed, NoNewDefault

LEMMA BeforeFlush ==
  ASSUME NEW p \in Proc, cmd'[p].pc \notin FlushedOn, ~Succeeded(p)'
  PROVE  Flushed(p)'
BY DEF Flushed, Reached

LEMMA FlushedStep ==
  ASSUME NEW p \in Proc, TypeOK, Belongs(p), Flushed(p), Step(p)
  PROVE  Flushed(p)'
<1> USE DEF FlushedOn, RoutesOn, ScanOn, WorldOn, ArpOn
<1>a. cmd \in [Proc -> CommandState]
  BY DEF TypeOK
<1>1. CASE Issue(p) \/ Return(p) \/ Die(p)
  <2>1. cmd'[p].pc \in Commands \cup {"idle"}
    BY <1>1, Issuing
  <2> QED
    BY <2>1, BeforeFlush DEF Commands, Succeeded, At
<1>2. CASE Create(p) \/ StartCheck(p) \/ LoadConfig(p)
  <2>1. cmd'[p].pc \in {"exists", "mkdir", "failed", "copy", "logs", "load", "netns"}
    BY <1>2, <1>a, Going, Loading DEF Create, CreateCheck, MakeFolder, CopyConfig, MakeLogs,
         StartCheck, Fail, Labels
  <2> QED
    BY <2>1, BeforeFlush DEF Succeeded, At
<1>3. CASE OpenNetns(p)
  <2>1. cmd'[p].pc = "lookup"
    BY <1>3, Opening
  <2> QED
    BY <2>1, BeforeFlush DEF Succeeded, At
<1>4. CASE LookupLink(p) \/ AddLink(p) \/ AddAddr(p) \/ LinkUp(p)
  <2>1. cmd'[p].pc \in {"lookup", "flush", "addlink", "addaddr", "linkup", "failed"}
    BY <1>4, <1>a, Going, NextingTun DEF LookupLink, AddLink, AddAddr, LinkUp, Fail, Labels
  <2> QED
    BY <2>1, BeforeFlush DEF Succeeded, At
<1>5. CASE FlushLocal(p)
  <2>1. cmd'[p].ns = cmd[p].ns
    BY <1>5, <1>a, Going DEF FlushLocal, Same, Labels
  <2>2. cmd[p].ns \in NsId
    BY <1>5 DEF FlushLocal, At, Belongs, Reached, SetUpOn
  <2>3. \A k \in Tun : "dflt" \notin tun'[cmd[p].ns][k]
    BY <1>5, <2>2 DEF FlushLocal, TypeOK
  <2> QED
    BY <2>1, <2>3 DEF Flushed
<1>6. CASE \/ LookupRules(p) \/ LookupRoutes(p) \/ LoopbackUp(p)
           \/ ListNetns(p) \/ OpenListed(p) \/ QueryListed(p) \/ PickAddress(p)
           \/ LookupBridge(p) \/ AddBridge(p) \/ BridgeAddr(p) \/ BridgeUp(p) \/ BridgeNat(p)
           \/ AddVeth(p) \/ WethAddr(p) \/ WethUp(p) \/ AttachPeer(p) \/ AddGateway(p)
  <2>1. NoNewDefault
    BY <1>6 DEF NoNewDefault, LookupRules, LookupRoutes, LoopbackUp, ListNetns, OpenListed,
         QueryListed, PickAddress, LookupBridge, AddBridge, BridgeAddr, BridgeUp, BridgeNat, AddVeth, WethAddr, WethUp, AttachPeer,
         AddGateway, inside
  <2>2. Reached(p, FlushedOn)
    BY <1>6 DEF Reached, At, LookupRules, LookupRoutes, LoopbackUp, ListNetns, OpenListed,
         QueryListed, PickAddress, LookupBridge, AddBridge, BridgeAddr, BridgeUp, BridgeNat, AddVeth, WethAddr, WethUp, AttachPeer,
         AddGateway
  <2>3. cmd'[p].ns = cmd[p].ns
    <3>1. CASE ListNetns(p) \/ OpenListed(p) \/ QueryListed(p) \/ PickAddress(p)
      BY <3>1, Scans, Picks DEF Same
    <3>2. CASE LookupRules(p) \/ LookupRoutes(p)
      BY <3>2, <1>a, Going, NextingTun DEF LookupRules, LookupRoutes, Fail, Labels, Same
    <3>3. CASE \/ LoopbackUp(p) \/ LookupBridge(p) \/ AddBridge(p) \/ BridgeAddr(p)
               \/ BridgeUp(p) \/ BridgeNat(p)
      BY <3>3, <1>a, Going DEF LoopbackUp, LookupBridge, AddBridge, BridgeAddr, BridgeUp,
           BridgeNat, Fail, Labels, Same
    <3>4. CASE AddVeth(p) \/ WethAddr(p) \/ WethUp(p) \/ AttachPeer(p) \/ AddGateway(p)
      BY <3>4, <1>a, Going DEF AddVeth, WethAddr, WethUp, AttachPeer, AddGateway, AfterWorld,
           Fail, Labels, Same
    <3> QED
      BY <1>6, <3>1, <3>2, <3>3, <3>4
  <2> QED
    BY <2>1, <2>2, <2>3, PastFlush
<1>7. CASE AddLocalRoute(p) \/ AddRule(p) \/ AddP2PRoute(p) \/ SetArp(p)
  <2>1. NoNewDefault
    <3>1. CASE tun' = tun
      BY <3>1 DEF NoNewDefault
    <3>2. CASE tun' # tun
      BY <1>7, <3>2, GivesNoDefault, ArpGivesNoDefault
         DEF AddLocalRoute, AddRule, AddP2PRoute, TunFact
    <3> QED
      BY <3>1, <3>2
  <2>2. Reached(p, FlushedOn)
    BY <1>7 DEF Reached, At, AddLocalRoute, AddRule, AddP2PRoute, SetArp
  <2>3. cmd'[p].ns = cmd[p].ns
    BY <1>7, <1>a, Going, NextingTun DEF AddLocalRoute, AddRule, AddP2PRoute, SetArp, Fail,
         Labels, Same
  <2> QED
    BY <2>1, <2>2, <2>3, PastFlush
<1>8. CASE Delete(p) \/ Run(p)
  <2>1. cmd'[p].pc \in {"failed", "remove", "rmtree", "ok", "loadrun", "running"}
    BY <1>8, <1>a, Going, Entering DEF Delete, DeleteCheck, RemoveNetns, RemoveFolder, Fail, Labels
  <2>2. cmd'[p].op = cmd[p].op
    BY <1>8, <1>a, Going, Entering DEF Delete, DeleteCheck, RemoveNetns, RemoveFolder, Fail, Labels,
         Same
  <2>3. cmd[p].op \in {"delete", "run"}
    BY <1>8 DEF Delete, DeleteCheck, RemoveNetns, RemoveFolder, Run, EnterNetns,
         LoadRunConfig, FinishRun, At, Belongs
  <2> QED
    BY <2>1, <2>2, <2>3, BeforeFlush DEF Succeeded, At
<1> QED
  BY <1>1, <1>2, <1>3, <1>4, <1>5, <1>6, <1>7, <1>8 DEF Step, Tunnel, World

(* A set-up that begins after another one succeeded finds its interfaces.  *)
QuietAfter ==
  \A p, q \in Proc : p # q /\ Succeeded(p) /\ cmd[q].pc \in Adding => cmd[q].ns # cmd[p].ns

LocalInv == QuietAfter /\ \A p \in Proc : Flushed(p)

LEMMA NewDefaults ==
  ASSUME NEW q \in Proc, TypeOK, Belongs(q), Step(q)
  PROVE  NoNewDefault \/ AddAddr(q) \/ LinkUp(q)
<1>1. CASE tun' = tun
  BY <1>1 DEF NoNewDefault
<1>2. CASE \/ Issue(q) \/ Return(q) \/ Die(q) \/ Create(q) \/ StartCheck(q) \/ LoadConfig(q)
           \/ OpenNetns(q) \/ LookupLink(q) \/ LookupRules(q) \/ LookupRoutes(q) \/ LoopbackUp(q)
           \/ World(q) \/ Delete(q) \/ Run(q)
  BY <1>1, <1>2 DEF Issue, Return, Die, Create, CreateCheck, MakeFolder, CopyConfig, MakeLogs,
     StartCheck, LoadConfig, OpenNetns, LookupLink, LookupRules, LookupRoutes, LoopbackUp, World,
     ListNetns, OpenListed, QueryListed, PickAddress, LookupBridge, AddBridge, BridgeAddr,
     BridgeUp, BridgeNat, AddVeth, WethAddr, WethUp, AttachPeer, AddGateway, Delete, DeleteCheck, RemoveNetns, RemoveFolder,
     Run, EnterNetns, LoadRunConfig, FinishRun, inside
<1>3. CASE AddLink(q) \/ AddLocalRoute(q) \/ AddRule(q) \/ AddP2PRoute(q)
  BY <1>1, <1>3, GivesNoDefault DEF AddLink, AddLocalRoute, AddRule, AddP2PRoute, TunFact
<1>4. CASE SetArp(q)
  BY <1>4, ArpGivesNoDefault
<1>5. CASE FlushLocal(q)
  BY <1>5 DEF FlushLocal, NoNewDefault, TypeOK
<1> QED
  BY <1>2, <1>3, <1>4, <1>5 DEF Step, Tunnel

LEMMA FlushedOther ==
  ASSUME NEW p \in Proc, NEW q \in Proc, p # q, TypeOK, Names, Belongs(p), Belongs(q),
         SetUpsApart, QuietAfter, Flushed(p), Step(q)
  PROVE  Flushed(p)'
<1>1. cmd'[p] = cmd[p]
  BY StepOfOne
<1> SUFFICES ASSUME Reached(p, FlushedOn), NEW k \in Tun
             PROVE  "dflt" \notin tun'[cmd[p].ns][k]
  BY <1>1 DEF Flushed, Reached, Succeeded, At
<1>2. cmd[p].ns \in NsId /\ "dflt" \notin tun[cmd[p].ns][k]
  BY DEF Belongs, Reached, FlushedOn, SetUpOn, Flushed
<1>3. CASE NoNewDefault
  BY <1>2, <1>3 DEF NoNewDefault
<1>4. CASE AddAddr(q) \/ LinkUp(q)
  <2>1. cmd[q].pc \in Adding
    BY <1>4 DEF AddAddr, LinkUp, At, Adding
  <2>2. cmd[q].ns # cmd[p].ns
    <3>1. CASE Succeeded(p)
      BY <2>1, <3>1 DEF QuietAfter
    <3>2. CASE cmd[p].pc \in FlushedOn
      <4>1. cmd[p].pc \in SetUpOn /\ cmd[q].pc \in SetUpOn
        BY <2>1, <3>2 DEF FlushedOn, SetUpOn, Adding
      <4>2. cmd[p].env # cmd[q].env
        BY <4>1 DEF SetUpsApart
      <4> QED
        BY <1>2, <4>2, SpacesApart
    <3> QED
      BY <3>1, <3>2 DEF Reached
  <2>3. tun'[cmd[p].ns] = tun[cmd[p].ns]
    BY <1>2, <1>4, <2>2 DEF AddAddr, LinkUp, GiveTun, TypeOK
  <2> QED
    BY <1>2, <2>3
<1> QED
  BY <1>3, <1>4, NewDefaults

LEMMA QuietStep ==
  ASSUME IInv, SetUpsApart, QuietAfter, NEW x \in Proc, Step(x)
  PROVE  QuietAfter'
<1>a. TypeOK /\ Names /\ Belongs(x) /\ cmd \in [Proc -> CommandState]
  BY DEF IInv, Progress, TypeOK
<1> SUFFICES ASSUME NEW p \in Proc, NEW q \in Proc, p # q, Succeeded(p)', cmd'[q].pc \in Adding,
                    cmd'[q].ns = cmd'[p].ns
             PROVE  FALSE
  BY DEF QuietAfter
<1>b. \A y \in Proc \ {x} : cmd'[y] = cmd[y] /\ (Succeeded(y)' <=> Succeeded(y))
  BY <1>a, StepOfOne DEF Succeeded, At
<1>1. CASE x \notin {p, q}
  BY <1>1, <1>b DEF QuietAfter
<1>2. CASE x = q
  <2>1. Succeeded(p) /\ cmd'[p] = cmd[p]
    BY <1>2, <1>b
  <2>2. CASE AddLink(q)
    <3>1. "link" \notin TunOf(q) /\ cmd'[q].ns = cmd[q].ns
      BY <1>a, <2>2, Going DEF AddLink, Fail, Labels, Same, Adding
    <3>2. cmd[p].ns \in NsId /\ \A k \in Tun : "rule" \in tun[cmd[p].ns][k]
      BY <2>1 DEF IInv, Progress, Belongs, TunnelProgress, Reached
    <3>3. \A k \in Tun : "link" \in tun[cmd[p].ns][k]
      BY <3>2 DEF IInv, Ordered, InOrder
    <3> QED
      BY <1>a, <2>1, <3>1, <3>3 DEF TunOf, CommandState
  <2>3. CASE AddAddr(q)
    <3>1. cmd[q].pc \in Adding /\ cmd'[q].ns = cmd[q].ns
      BY <1>a, <2>3, Going DEF AddAddr, At, Adding, Labels, Same
    <3> QED
      BY <2>1, <3>1 DEF QuietAfter
  <2> QED
    BY <1>2, <1>a, <2>2, <2>3, ComingTo DEF Adding
<1>3. CASE x = p
  <2>1. cmd'[q] = cmd[q] /\ cmd[q].pc \in SetUpOn
    BY <1>3, <1>b DEF Adding, SetUpOn
  <2>2. PickAddress(p) \/ AddGateway(p) \/ SetArp(p)
    BY <1>3, <1>a, ComingTo
  <2>3. cmd[p].pc \in SetUpOn /\ cmd'[p].ns = cmd[p].ns
    BY <1>a, <2>2, Picks, Going DEF AddGateway, SetArp, Fail, AfterWorld, Labels, Same,
       At, SetUpOn, RoutesOn, ScanOn, WorldOn, ArpOn
  <2>4. cmd[p].env # cmd[q].env /\ cmd[p].ns \in NsId
    BY <2>1, <2>3 DEF SetUpsApart, IInv, Progress, Belongs, Reached
  <2> QED
    BY <1>a, <2>1, <2>3, <2>4, SpacesApart
<1> QED
  BY <1>1, <1>2, <1>3

LEMMA LocalStep ==
  ASSUME IInv, SetUpsApart, LocalInv, NEW x \in Proc, Step(x)
  PROVE  LocalInv'
<1>1. QuietAfter'
  BY QuietStep DEF LocalInv
<1>2. ASSUME NEW p \in Proc
      PROVE  Flushed(p)'
  <2>1. TypeOK /\ Names /\ Belongs(p) /\ Belongs(x) /\ Flushed(p) /\ QuietAfter
    BY DEF IInv, Progress, LocalInv
  <2> QED
    BY <2>1, FlushedStep, FlushedOther
<1> QED
  BY <1>1, <1>2 DEF LocalInv

(* The kernel takes nothing away that a command refers to.                 *)
LEMMA LocalReap ==
  ASSUME IInv, LocalInv, NEW n \in NsId, Reap(n)
  PROVE  LocalInv'
<1>1. /\ \A m \in NsId \ {n} : tun'[m] = tun[m]
      /\ cmd' = cmd
      /\ \A j \in Tun : tun'[n][j] = {}
  BY DEF Reap, IInv, TypeOK
<1>2. ASSUME NEW p \in Proc
      PROVE  Flushed(p)'
  <2>1. Reached(p, FlushedOn) => cmd[p].ns \in NsId
    BY DEF IInv, Progress, Belongs, Reached, FlushedOn, SetUpOn
  <2>2. (Reached(p, FlushedOn)' <=> Reached(p, FlushedOn)) /\ Flushed(p)
    BY <1>1 DEF Reached, Succeeded, At, FlushedOn, LocalInv
  <2> QED
    BY <1>1, <2>1, <2>2 DEF Flushed
<1> QED
  BY <1>1, <1>2 DEF LocalInv, QuietAfter, Succeeded, At

LEMMA LocalInvariance == Spec /\ []SetUpsApart => []LocalInv
<1>1. Init => LocalInv
  BY DEF Init, Idle, LocalInv, QuietAfter, Flushed, Reached, Succeeded, At, FlushedOn, RoutesOn,
     ScanOn, WorldOn, ArpOn
<1>2. IInv /\ SetUpsApart /\ LocalInv /\ [Next]_vars => LocalInv'
  <2> SUFFICES ASSUME IInv, SetUpsApart, LocalInv, [Next]_vars
               PROVE  LocalInv'
    OBVIOUS
  <2>1. CASE \E x \in Proc : Step(x)
    BY <2>1, LocalStep
  <2>2. CASE \E n \in NsId : Reap(n)
    BY <2>2, LocalReap
  <2>3. CASE Reboot
    <3>1. \A p \in Proc : cmd'[p].pc = "idle"
      BY <2>3 DEF Reboot, Idle
    <3> QED
      BY <3>1 DEF LocalInv, QuietAfter, Flushed, Reached, Succeeded, At, FlushedOn, RoutesOn,
         ScanOn, WorldOn, ArpOn
  <2>4. CASE UNCHANGED vars
    <3>1. UNCHANGED <<tun, cmd>>
      BY <2>4 DEF vars, inside
    <3> QED
      BY <3>1 DEF LocalInv, QuietAfter, Flushed, Reached, Succeeded, At
  <2> QED
    BY <2>1, <2>2, <2>3, <2>4 DEF Next
<1> QED
  BY <1>1, <1>2, Invariance, PTL DEF Spec

(* If no two set-ups of one environment overlap, a create or start that    *)
(* reports success leaves no default local route of a tunnel interface,    *)
(* whatever died before it and whatever else runs beside it                *)
(* (ns.create_tap_env and ns.create_tun_env, the flush).                   *)
THEOREM TurnsTunnelLocalTraffic == Spec /\ []SetUpsApart => []LocalTrafficUsesTunnels
<1>1. LocalInv => LocalTrafficUsesTunnels
  BY DEF LocalInv, Flushed, Reached, LocalTrafficUsesTunnels
<1> QED
  BY <1>1, LocalInvariance, PTL

(* So none is left when all commands follow each other.                    *)
THEOREM LocalTrafficIsTunnelled ==
  ASSUME Alone
  PROVE  Spec => []LocalTrafficUsesTunnels
<1>1. SetUpsApart
  BY DEF Alone, SetUpsApart
<1> QED
  BY <1>1, TurnsTunnelLocalTraffic, PTL

-----------------------------------------------------------------------------
(* The bridge.                                                             *)

(* The bridge is half-way when a command is, and at no other time; and a   *)
(* command with an address has seen it configured.                         *)
BridgeKnown(p) ==
  /\ At(p, "addbridge") => bridge = {}
  /\ At(p, "bridgeaddr") => bridge = {"link"}
  /\ At(p, "bridgeup") => bridge = {"link", "addr"}
  /\ At(p, "bridgenat") => bridge = {"link", "addr", "up"}
  /\ cmd[p].pc \in Attaching => bridge = BridgeFact
  /\ Reached(p, ArpOn) /\ cmd[p].addr # 0 => bridge = BridgeFact

Whole == bridge = {} \/ bridge = BridgeFact

BridgeInv ==
  /\ (\A p \in Proc : cmd[p].pc \notin Configuring) => Whole
  /\ \A p \in Proc : BridgeKnown(p)

(* What a step makes of the bridge, if its command is not done with it.    *)
BridgeMade(p) ==
  /\ cmd[p].pc \notin Configuring => bridge' = bridge
  /\ cmd[p].pc \in Configuring /\ cmd'[p].pc \notin Configuring => Whole'

LEMMA Elsewhere ==
  ASSUME NEW p \in Proc, BridgeKnown(p), bridge' = bridge,
         cmd[p].pc \notin Configuring, cmd'[p].pc \notin Configuring \cup Attaching,
         Reached(p, ArpOn)' /\ cmd'[p].addr # 0 =>
           bridge = BridgeFact
  PROVE  BridgeKnown(p)' /\ BridgeMade(p)
BY DEF BridgeKnown, BridgeMade, At, Configuring

LEMMA BridgeStep ==
  ASSUME NEW p \in Proc, TypeOK, Belongs(p), BridgeKnown(p), Step(p), Configured,
         At(p, "bridge") => Whole
  PROVE  BridgeKnown(p)' /\ BridgeMade(p)
<1> USE DEF Configuring, Attaching, ArpOn, Reached, Succeeded, At
<1>a. cmd \in [Proc -> CommandState]
  BY DEF TypeOK
<1>1. CASE Issue(p) \/ Return(p) \/ Die(p)
  <2>1. cmd'[p].pc \in Commands \cup {"idle"}
    BY <1>1, Issuing
  <2>2. bridge' = bridge
    BY <1>1 DEF Issue, Return, Die
  <2>3. CASE cmd[p].pc \notin Configuring
    BY <2>1, <2>2, <2>3, Elsewhere DEF Commands
  <2>4. CASE cmd[p].pc \in Configuring
    <3>1. Die(p)
      BY <1>1, <2>4 DEF Issue, Return
    <3>2. cmd'[p].pc = "idle"
      BY <1>a, <3>1 DEF Die, Idle
    <3>3. bridge' = {}
      BY <2>4, <3>2 DEF Configured
    <3> QED
      BY <2>4, <3>2, <3>3 DEF BridgeKnown, BridgeMade, Whole
  <2> QED
    BY <2>3, <2>4
<1>2. CASE Create(p) \/ StartCheck(p) \/ LoadConfig(p) \/ OpenNetns(p)
  <2>1. cmd'[p].pc \in {"exists", "mkdir", "failed", "copy", "logs", "load", "netns", "lookup"}
    BY <1>2, <1>a, Going, Loading, Opening
       DEF Create, CreateCheck, MakeFolder, CopyConfig, MakeLogs, StartCheck, Fail, Labels
  <2>2. bridge' = bridge /\ cmd[p].pc \notin Configuring
    BY <1>2 DEF Create, CreateCheck, MakeFolder, CopyConfig, MakeLogs, StartCheck, LoadConfig,
         OpenNetns
  <2> QED
    BY <2>1, <2>2, Elsewhere
<1>3. CASE LookupLink(p) \/ AddLink(p) \/ AddAddr(p) \/ LinkUp(p) \/ FlushLocal(p)
  <2>1. cmd'[p].pc \in {"lookup", "flush", "addlink", "addaddr", "linkup", "rules", "failed"}
    BY <1>3, <1>a, Going, NextingTun
       DEF LookupLink, AddLink, AddAddr, LinkUp, FlushLocal, Fail, Labels
  <2>2. bridge' = bridge /\ cmd[p].pc \notin Configuring
    BY <1>3 DEF LookupLink, AddLink, AddAddr, LinkUp, FlushLocal
  <2> QED
    BY <2>1, <2>2, Elsewhere
<1>4. CASE \/ LookupRules(p) \/ AddLocalRoute(p) \/ AddRule(p) \/ LookupRoutes(p)
           \/ AddP2PRoute(p) \/ LoopbackUp(p)
  <2>1. cmd'[p].pc \in {"rules", "addroute", "addrule", "routes", "addp2p", "lo", "scan", "failed"}
    BY <1>4, <1>a, Going, NextingTun DEF LookupRules, AddLocalRoute, AddRule, LookupRoutes,
         AddP2PRoute, LoopbackUp, Fail, Labels
  <2>2. bridge' = bridge /\ cmd[p].pc \notin Configuring
    BY <1>4 DEF LookupRules, AddLocalRoute, AddRule, LookupRoutes, AddP2PRoute, LoopbackUp
  <2> QED
    BY <2>1, <2>2, Elsewhere
<1>5. CASE PickAddress(p)
  <2>1. bridge' = bridge /\ At(p, "open")
    BY <1>5 DEF PickAddress
  <2>2. cmd[p].addr = 0
    BY <2>1 DEF Belongs, NoAddrOn
  <2>3. (cmd'[p].pc \in {"arp", "ok"} /\ cmd'[p].addr = 0) \/ cmd'[p].pc = "bridge"
    BY <1>5, <2>2, Picks DEF AfterWorld
  <2> QED
    BY <2>1, <2>3, Elsewhere
<1>9. CASE ListNetns(p) \/ OpenListed(p) \/ QueryListed(p)
  <2>1. bridge' = bridge
    BY <1>9 DEF ListNetns, OpenListed, QueryListed
  <2>2. cmd[p].pc \in {"scan", "open", "query"} /\ cmd'[p].pc \in {"open", "query", "failed"}
    BY <1>9, Scans
  <2> QED
    BY <2>1, <2>2, Elsewhere
<1>6. CASE LookupBridge(p) \/ AddBridge(p) \/ BridgeAddr(p) \/ BridgeUp(p) \/ BridgeNat(p)
  <2>1. CASE LookupBridge(p)
    <3>1. /\ bridge' = bridge /\ cmd[p].pc = "bridge"
          /\ cmd'[p].pc = (IF "link" \in bridge THEN "veth" ELSE "addbridge")
      BY <2>1, <1>a, Going DEF LookupBridge, Labels
    <3> QED
      BY <3>1 DEF BridgeKnown, BridgeMade, Whole, BridgeFact
  <2>2. CASE AddBridge(p)
    <3>1. bridge = {}
      BY <2>2 DEF AddBridge, BridgeKnown
    <3>2. bridge' = {"link"} /\ cmd'[p].pc = "bridgeaddr"
      BY <2>2, <3>1, <1>a, Going DEF AddBridge, Labels
    <3> QED
      BY <2>2, <3>2 DEF BridgeKnown, BridgeMade, Whole, AddBridge
  <2>3. CASE BridgeAddr(p)
    <3>1. bridge' = {"link", "addr"} /\ cmd'[p].pc = "bridgeup"
      BY <2>3, <1>a, Going DEF BridgeAddr, BridgeKnown, Labels
    <3> QED
      BY <2>3, <3>1 DEF BridgeKnown, BridgeMade, Whole, BridgeAddr
  <2>4. CASE BridgeUp(p)
    <3>1. bridge' = {"link", "addr", "up"} /\ cmd'[p].pc = "bridgenat"
      BY <2>4, <1>a, Going DEF BridgeUp, BridgeKnown, Labels
    <3> QED
      BY <2>4, <3>1 DEF BridgeKnown, BridgeMade, Whole, BridgeUp
  <2>5. CASE BridgeNat(p)
    <3>1. bridge' = BridgeFact /\ cmd'[p].pc = "veth"
      BY <2>5, <1>a, Going DEF BridgeNat, BridgeKnown, BridgeFact, Labels
    <3> QED
      BY <2>5, <3>1 DEF BridgeKnown, BridgeMade, Whole, BridgeNat
  <2> QED
    BY <1>6, <2>1, <2>2, <2>3, <2>4, <2>5
<1>7. CASE AddVeth(p) \/ WethAddr(p) \/ WethUp(p) \/ AttachPeer(p) \/ AddGateway(p) \/ SetArp(p)
  <2>1. cmd'[p].pc \in Attaching \cup {"arp", "ok", "failed"}
    BY <1>7, <1>a, Going DEF AddVeth, WethAddr, WethUp, AttachPeer, AddGateway, SetArp, AfterWorld,
         Fail, Labels
  <2>2. bridge' = bridge /\ cmd[p].pc \in Attaching \cup {"arp"}
    BY <1>7 DEF AddVeth, WethAddr, WethUp, AttachPeer, AddGateway, SetArp
  <2>3. cmd'[p].addr = cmd[p].addr
    BY <1>7, <1>a, Going DEF AddVeth, WethAddr, WethUp, AttachPeer, AddGateway, SetArp, AfterWorld,
         Fail, Labels, Same
  <2>4. cmd[p].pc = "arp" => cmd'[p].pc \in {"ok", "failed"}
    BY <1>7, <1>a, Going DEF AddVeth, WethAddr, WethUp, AttachPeer, AddGateway, SetArp, Fail, Labels
  <2> QED
    BY <2>1, <2>2, <2>3, <2>4 DEF BridgeKnown, BridgeMade
<1>8. CASE Delete(p) \/ Run(p)
  <2>1. cmd'[p].pc \in {"failed", "remove", "rmtree", "ok", "loadrun", "running"}
    BY <1>8, <1>a, Going, Entering DEF Delete, DeleteCheck, RemoveNetns, RemoveFolder, Fail, Labels
  <2>2. cmd'[p].op = cmd[p].op
    BY <1>8, <1>a, Going, Entering DEF Delete, DeleteCheck, RemoveNetns, RemoveFolder, Fail, Labels,
         Same
  <2>3. cmd[p].op \in {"delete", "run"}
    BY <1>8 DEF Delete, DeleteCheck, RemoveNetns, RemoveFolder, Run, EnterNetns,
         LoadRunConfig, FinishRun, Belongs
  <2>4. bridge' = bridge /\ cmd[p].pc \notin Configuring
    BY <1>8 DEF Delete, DeleteCheck, RemoveNetns, RemoveFolder, Run, EnterNetns,
         LoadRunConfig, FinishRun
  <2> QED
    BY <2>1, <2>2, <2>3, <2>4, Elsewhere
<1> QED
  BY <1>1, <1>2, <1>3, <1>4, <1>5, <1>6, <1>7, <1>8, <1>9 DEF Step, Tunnel, World

LEMMA BridgeOther ==
  ASSUME NEW p \in Proc, NEW q \in Proc, p # q, TypeOK, OneConfigures,
         BridgeKnown(p), BridgeKnown(q), BridgeMade(q), Step(q)
  PROVE  BridgeKnown(p)'
<1>1. cmd'[p] = cmd[p]
  BY StepOfOne
<1>2. CASE bridge' = bridge
  BY <1>1, <1>2 DEF BridgeKnown, Reached, Succeeded, At
<1>3. CASE cmd[q].pc \in Configuring
  <2>1. cmd[p].pc \notin Configuring
    BY <1>3 DEF OneConfigures, TakeTurns
  <2>2. bridge # BridgeFact
    BY <1>3 DEF BridgeKnown, BridgeFact, Configuring, At
  <2> QED
    BY <1>1, <2>1, <2>2 DEF BridgeKnown, Reached, Succeeded, At, Configuring
<1> QED
  BY <1>2, <1>3 DEF BridgeMade

LEMMA BridgeInvStep ==
  ASSUME IInv, OneConfigures, Configured, BridgeInv, NEW x \in Proc, Step(x)
  PROVE  BridgeInv'
<1>a. TypeOK /\ Belongs(x) /\ BridgeKnown(x)
  BY DEF IInv, Progress, BridgeInv
<1>b. \A q \in Proc \ {x} : cmd'[q] = cmd[q]
  BY <1>a, StepOfOne
<1>1. At(x, "bridge") => Whole
  BY DEF OneConfigures, TakeTurns, BridgeInv, At, Configuring
<1>2. BridgeKnown(x)' /\ BridgeMade(x)
  BY <1>a, <1>1, BridgeStep
<1>3. \A p \in Proc : BridgeKnown(p)'
  BY <1>a, <1>2, BridgeOther DEF BridgeInv
<1>4. ASSUME \A p \in Proc : cmd'[p].pc \notin Configuring
      PROVE  Whole'
  <2>1. CASE cmd[x].pc \in Configuring
    BY <1>2, <1>4, <2>1 DEF BridgeMade
  <2>2. CASE cmd[x].pc \notin Configuring
    <3>1. \A p \in Proc : cmd[p].pc \notin Configuring
      BY <1>b, <1>4, <2>2
    <3> QED
      BY <1>2, <2>2, <3>1 DEF BridgeMade, BridgeInv, Whole
  <2> QED
    BY <2>1, <2>2
<1> QED
  BY <1>3, <1>4 DEF BridgeInv

LEMMA BridgeInvariance == Spec /\ []OneConfigures /\ [][Configured]_vars => []BridgeInv
<1>1. Init => BridgeInv
  BY DEF Init, Idle, BridgeInv, BridgeKnown, Whole, Reached, Succeeded, At, Attaching, ArpOn
<1>2. IInv /\ OneConfigures /\ BridgeInv /\ [Next]_vars /\ [Configured]_vars => BridgeInv'
  <2> SUFFICES ASSUME IInv, OneConfigures, BridgeInv, [Next]_vars, [Configured]_vars
               PROVE  BridgeInv'
    OBVIOUS
  <2>1. CASE (\E n \in NsId : Reap(n)) \/ UNCHANGED vars
    <3>1. bridge' = bridge /\ cmd' = cmd
      BY <2>1 DEF Reap, vars
    <3> QED
      BY <3>1 DEF BridgeInv, BridgeKnown, Whole, Reached, Succeeded, At
  <2>2. CASE Reboot
    <3>1. bridge' = {} /\ \A p \in Proc : cmd'[p].pc = "idle"
      BY <2>2 DEF Reboot, Idle
    <3> QED
      BY <3>1 DEF BridgeInv, BridgeKnown, Whole, Reached, Succeeded, At, Attaching, ArpOn
  <2>3. CASE Configured /\ \E x \in Proc : Step(x)
    BY <2>3, BridgeInvStep
  <2> QED
    BY <2>1, <2>2, <2>3 DEF Next
<1> QED
  BY <1>1, <1>2, Invariance, PTL DEF Spec

(* If one command at a time looks at the bridge and configures it, and     *)
(* none dies while it does, the veth of an environment that was set up     *)
(* reaches a configured bridge, whatever dies elsewhere (ns._setup_bridge).*)
THEOREM TurnsReachInternet ==
  Spec /\ []OneConfigures /\ [][Configured]_vars => []SuccessReachesInternet
<1>1. BridgeInv => SuccessReachesInternet
  BY DEF BridgeInv, BridgeKnown, Reached, SuccessReachesInternet
<1> QED
  BY <1>1, BridgeInvariance, PTL

(* So it does when all commands follow each other and none dies.           *)
THEOREM InternetIsReached ==
  ASSUME Alone, ~Failures
  PROVE  Spec => []SuccessReachesInternet
<1>1. OneConfigures
  BY DEF Alone, OneConfigures, TakeTurns
<1>2. IInv /\ [Next]_vars => [Configured]_vars
  <2> SUFFICES ASSUME IInv, [Next]_vars, NEW p \in Proc, cmd[p].pc \in Configuring,
                      cmd'[p].pc = "idle"
               PROVE  bridge' = {} \/ UNCHANGED vars
    BY DEF Configured
  <2>1. ASSUME NEW q \in Proc, Step(q) PROVE FALSE
    <3>1. q = p
      BY DEF Alone
    <3>2. Return(p) \/ Die(p)
      BY <2>1, <3>1, ComingTo DEF IInv, Progress
    <3> QED
      BY <3>2 DEF Return, Die, Configuring
  <2>2. CASE \E n \in NsId : Reap(n)
    BY <2>2 DEF Reap, Configuring
  <2> QED
    BY <2>1, <2>2 DEF Next, Reboot
<1> QED
  BY <1>1, <1>2, Invariance, TurnsReachInternet, PTL DEF Spec

-----------------------------------------------------------------------------
(* The addresses.                                                          *)

Unknown(a) == \A e \in Env : bound[e] # NoNs => waddr[bound[e]] # a

(* What a command that asks the namespaces has seen, or is still to see.   *)
Accounted(p, e) ==
  \/ e \in cmd[p].todo
  \/ waddr[bound[e]] \in cmd[p].seen
  \/ At(p, "query") /\ cmd[p].look = bound[e]

ScanKnown(p) ==
  \A e \in Env : bound[e] # NoNs /\ waddr[bound[e]] # 0 => Accounted(p, e)

(* A namespace that is not in use has no address, no address in use is     *)
(* missed, and nobody has the one that a command has chosen.               *)
AddressesKnown(p) ==
  /\ WorldAddressesUnique
  /\ \A n \in NsId : home[n] = NoEnv => waddr[n] = 0
  /\ cmd[p].pc \in Asking => ScanKnown(p)
  /\ cmd[p].pc \in Chosen => Unknown(cmd[p].addr)

LEMMA AddressesStay ==
  ASSUME NEW p \in Proc, AddressesKnown(p), UNCHANGED <<bound, home, waddr>>,
         cmd'[p].pc \in Asking => cmd'[p] = cmd[p],
         cmd'[p].pc \in Chosen => cmd[p].pc \in Chosen /\ cmd'[p].addr = cmd[p].addr
  PROVE  AddressesKnown(p)'
<1>1. bound' = bound /\ home' = home /\ waddr' = waddr
  OBVIOUS
<1>2. WorldAddressesUnique'
  BY <1>1 DEF AddressesKnown, WorldAddressesUnique
<1>3. cmd'[p].pc \in Asking => ScanKnown(p)'
  BY <1>1 DEF AddressesKnown, ScanKnown, Accounted, At
<1>4. cmd'[p].pc \in Chosen => Unknown(cmd[p].addr)'
  <2> SUFFICES ASSUME cmd'[p].pc \in Chosen
               PROVE  \A e \in Env : bound'[e] # NoNs => waddr'[bound'[e]] # cmd'[p].addr
    BY DEF Unknown
  <2> QED
    BY <1>1 DEF AddressesKnown, Unknown
<1> QED
  BY <1>1, <1>2, <1>3, <1>4 DEF AddressesKnown

(* One request of the scan.                                                *)
LEMMA AddressesScan ==
  ASSUME NEW p \in Proc, TypeOK, Belongs(p), AddressesKnown(p),
         ListNetns(p) \/ OpenListed(p) \/ QueryListed(p)
  PROVE  AddressesKnown(p)'
<1> USE DEF Asking, Chosen
<1>a. cmd[p] \in CommandState /\ UNCHANGED <<bound, home, waddr>>
  BY DEF TypeOK, ListNetns, OpenListed, QueryListed, names, inside
<1>b. WorldAddressesUnique'
  BY <1>a DEF AddressesKnown, WorldAddressesUnique
<1>c. cmd'[p].pc \notin Chosen
  BY Scans
<1>d. ASSUME \A e \in Env : bound[e] # NoNs /\ waddr[bound[e]] # 0 =>
               \/ e \in cmd'[p].todo
               \/ waddr[bound[e]] \in cmd'[p].seen
               \/ cmd'[p].pc = "query" /\ cmd'[p].look = bound[e]
      PROVE  AddressesKnown(p)'
  <2>1. ScanKnown(p)'
    BY <1>a, <1>d DEF ScanKnown, Accounted, At
  <2> QED
    BY <1>a, <1>b, <1>c, <2>1 DEF AddressesKnown
<1>1. CASE ListNetns(p)
  <2>1. cmd' = [cmd EXCEPT ![p] = [cmd[p] EXCEPT !.todo = {e \in Env : bound[e] # NoNs},
                                                 !.pc = "open"]]
    BY <1>1 DEF ListNetns
  <2>2. cmd'[p].todo = {e \in Env : bound[e] # NoNs}
    BY <2>1, <1>a DEF TypeOK, CommandState
  <2> QED
    BY <2>2, <1>d
<1>2. CASE OpenListed(p) /\ ~Fail(p)
  <2>1. PICK e \in cmd[p].todo :
          cmd' = [cmd EXCEPT ![p] = [cmd[p] EXCEPT !.todo = @ \ {e}, !.look = bound[e],
                                                   !.pc = "query"]]
    BY <1>2 DEF OpenListed
  <2>2. /\ cmd'[p].todo = cmd[p].todo \ {e} /\ cmd'[p].look = bound[e]
        /\ cmd'[p].pc = "query" /\ cmd'[p].seen = cmd[p].seen
    BY <2>1, <1>a DEF TypeOK, CommandState
  <2>3. ScanKnown(p) /\ ~At(p, "query")
    BY <1>2 DEF OpenListed, At, AddressesKnown
  <2> QED
    BY <2>2, <2>3, <1>d DEF ScanKnown, Accounted
<1>3. CASE QueryListed(p)
  <2>1. cmd' = [cmd EXCEPT ![p] = [cmd[p] EXCEPT !.seen = @ \cup {waddr[cmd[p].look]},
                                                 !.look = NoNs, !.pc = "open"]]
    BY <1>3 DEF QueryListed
  <2>2. cmd'[p].todo = cmd[p].todo /\ cmd'[p].seen = cmd[p].seen \cup {waddr[cmd[p].look]}
    BY <2>1, <1>a DEF TypeOK, CommandState
  <2>3. ScanKnown(p)
    BY <1>3 DEF QueryListed, At, AddressesKnown
  <2> QED
    BY <2>2, <2>3, <1>d DEF ScanKnown, Accounted
<1>4. CASE Fail(p)
  <2>1. cmd'[p].pc = "failed"
    BY <1>4, Going DEF Fail, Labels, TypeOK
  <2> QED
    BY <2>1, <1>a, AddressesStay
<1> QED
  BY <1>1, <1>2, <1>3, <1>4

LEMMA AddressesStep ==
  ASSUME NEW p \in Proc, TypeOK, Names, Belongs(p), AddressesKnown(p), Step(p)
  PROVE  AddressesKnown(p)'
<1> USE NetEnvAssumption DEF Asking, Chosen, names, inside
<1>a. cmd \in [Proc -> CommandState]
  BY DEF TypeOK
<1>1. CASE Issue(p) \/ Return(p) \/ Die(p)
  <2>1. cmd'[p].pc \in Commands \cup {"idle"}
    BY <1>1, Issuing
  <2>2. UNCHANGED <<bound, home, waddr>>
    BY <1>1 DEF Issue, Return, Die
  <2> QED
    BY <2>1, <2>2, AddressesStay DEF Commands
<1>2. CASE Create(p) \/ StartCheck(p) \/ LoadConfig(p)
  <2>1. cmd'[p].pc \in {"exists", "mkdir", "failed", "copy", "logs", "load", "netns"}
    BY <1>2, <1>a, Going, Loading
       DEF Create, CreateCheck, MakeFolder, CopyConfig, MakeLogs, StartCheck, Fail, Labels
  <2>2. UNCHANGED <<bound, home, waddr>>
    BY <1>2 DEF Create, CreateCheck, MakeFolder, CopyConfig, MakeLogs, StartCheck, LoadConfig
  <2> QED
    BY <2>1, <2>2, AddressesStay
<1>3. CASE OpenNetns(p)
  <2>1. cmd'[p].pc = "lookup" /\ waddr' = waddr
    BY <1>3, Opening DEF OpenNetns
  <2>2. CASE bound[cmd[p].env] # NoNs
    <3>1. UNCHANGED <<bound, home, waddr>>
      BY <1>3, <2>2 DEF OpenNetns
    <3> QED
      BY <2>1, <3>1, AddressesStay
  <2>3. CASE bound[cmd[p].env] = NoNs
    <3>1. PICK m \in NsId :
            /\ home[m] = NoEnv
            /\ home' = [home EXCEPT ![m] = cmd[p].env]
            /\ bound' = [bound EXCEPT ![cmd[p].env] = m]
      BY <1>3, <2>3, ZenonT(30) DEF OpenNetns
    <3>2. waddr[m] = 0
      BY <3>1 DEF AddressesKnown
    <3>3. \A e \in Env : bound'[e] = bound[e] \/ waddr[bound'[e]] = 0
      BY <3>1, <3>2 DEF TypeOK
    <3>4. WorldAddressesUnique'
      BY <2>1, <3>3 DEF AddressesKnown, WorldAddressesUnique
    <3>5. cmd[p].env \in Env
      BY <1>3 DEF OpenNetns, At, Belongs
    <3>6. \A n \in NsId : home'[n] = NoEnv => waddr'[n] = 0
      BY <2>1, <3>1, <3>5 DEF AddressesKnown, TypeOK
    <3> QED
      BY <2>1, <3>4, <3>6 DEF AddressesKnown
  <2> QED
    BY <2>2, <2>3
<1>4. CASE \/ LookupLink(p) \/ AddLink(p) \/ AddAddr(p) \/ LinkUp(p) \/ FlushLocal(p)
           \/ LookupRules(p) \/ AddLocalRoute(p) \/ AddRule(p)
  <2>1. cmd'[p].pc \in {"lookup", "flush", "addlink", "addaddr", "linkup", "rules", "failed",
                        "addroute", "addrule", "routes"}
    <3>1. CASE LookupLink(p) \/ AddLink(p) \/ AddAddr(p) \/ LinkUp(p) \/ FlushLocal(p)
      BY <3>1, <1>a, Going, NextingTun
         DEF LookupLink, AddLink, AddAddr, LinkUp, FlushLocal, Fail, Labels
    <3>2. CASE LookupRules(p) \/ AddLocalRoute(p) \/ AddRule(p)
      BY <3>2, <1>a, Going, NextingTun DEF LookupRules, AddLocalRoute, AddRule, Fail, Labels
    <3> QED
      BY <1>4, <3>1, <3>2
  <2>2. UNCHANGED <<bound, home, waddr>>
    BY <1>4 DEF LookupLink, AddLink, AddAddr, LinkUp, FlushLocal, LookupRules, AddLocalRoute, AddRule
  <2> QED
    BY <2>1, <2>2, AddressesStay
<1>5. CASE LookupRoutes(p) \/ AddP2PRoute(p) \/ LoopbackUp(p)
  <2>1. cmd'[p].pc \in {"routes", "addp2p", "lo", "scan", "failed"}
    BY <1>5, <1>a, Going, NextingTun DEF LookupRoutes, AddP2PRoute, LoopbackUp, Fail, Labels
  <2>2. UNCHANGED <<bound, home, waddr>>
    BY <1>5 DEF LookupRoutes, AddP2PRoute, LoopbackUp
  <2> QED
    BY <2>1, <2>2, AddressesStay
<1>6. CASE PickAddress(p)
  <2>1. UNCHANGED <<bound, home, waddr>> /\ At(p, "open") /\ cmd[p].todo = {}
    BY <1>6 DEF PickAddress
  <2>2. CASE cmd'[p].pc = AfterWorld(p)
    BY <2>1, <2>2, AddressesStay DEF AfterWorld
  <2>3. CASE cmd'[p].pc = "bridge" /\ cmd'[p].addr \in Addr \ cmd[p].seen
    <3>1. ScanKnown(p) /\ cmd'[p].addr # 0
      BY <2>1, <2>3 DEF AddressesKnown, At, Addr
    <3>2. \A e \in Env : bound'[e] # NoNs => waddr'[bound'[e]] # cmd'[p].addr
      BY <2>1, <2>3, <3>1 DEF ScanKnown, Accounted, At
    <3>3. WorldAddressesUnique'
      BY <2>1 DEF AddressesKnown, WorldAddressesUnique
    <3> QED
      BY <2>1, <2>3, <3>2, <3>3 DEF AddressesKnown, Unknown
  <2> QED
    BY <1>6, <2>2, <2>3, Picks
<1>12. CASE ListNetns(p) \/ OpenListed(p) \/ QueryListed(p)
  BY <1>12, AddressesScan
<1>7. CASE \/ LookupBridge(p) \/ AddBridge(p) \/ BridgeAddr(p) \/ BridgeUp(p) \/ BridgeNat(p)
           \/ AddVeth(p)
  <2>1. UNCHANGED <<bound, home, waddr>> /\ cmd[p].pc \in Chosen
    BY <1>7 DEF At, LookupBridge, AddBridge, BridgeAddr, BridgeUp, BridgeNat, AddVeth
  <2>2. cmd'[p].addr = cmd[p].addr /\ cmd'[p].pc \notin Asking
    BY <1>7, <1>a, Going DEF LookupBridge, AddBridge, BridgeAddr, BridgeUp, BridgeNat, AddVeth,
         Fail, Labels, Same
  <2> QED
    BY <2>1, <2>2, AddressesStay
<1>8. CASE WethAddr(p)
  <2>1. UNCHANGED <<bound, home>> /\ cmd'[p].pc \notin Asking \cup Chosen
    BY <1>8, <1>a, Going DEF WethAddr, Fail, Labels
  <2>2. cmd[p].ns \in NsId /\ home[cmd[p].ns] = cmd[p].env /\ cmd[p].env \in Env
    BY <1>8 DEF WethAddr, At, Belongs, Reached, SetUpOn, RoutesOn, ScanOn, WorldOn, Names
  <2>3. CASE waddr' = waddr
    BY <2>1, <2>3, AddressesStay
  <2>4. CASE waddr' # waddr
    <3> DEFINE a == cmd[p].addr
    <3>1. waddr' = [waddr EXCEPT ![cmd[p].ns] = a]
      BY <1>8, <2>4 DEF WethAddr
    <3>2. Unknown(a)
      BY <1>8 DEF WethAddr, At, AddressesKnown
    <3> HIDE DEF a
    <3>3. \A e \in Env : bound[e] # NoNs =>
            waddr'[bound[e]] = (IF bound[e] = cmd[p].ns THEN a ELSE waddr[bound[e]])
      BY <3>1 DEF TypeOK
    <3>4. \A e, f \in Env : e # f /\ bound[e] # NoNs /\ bound[f] # NoNs => bound[e] # bound[f]
      BY DEF Names
    <3>5. WorldAddressesUnique'
      BY <2>1, <3>2, <3>3, <3>4 DEF AddressesKnown, WorldAddressesUnique, Unknown
    <3>6. \A n \in NsId : home'[n] = NoEnv => waddr'[n] = 0
      BY <2>1, <2>2, <3>1 DEF AddressesKnown, TypeOK
    <3> QED
      BY <2>1, <3>5, <3>6 DEF AddressesKnown
  <2> QED
    BY <2>3, <2>4
<1>9. CASE WethUp(p) \/ AttachPeer(p) \/ AddGateway(p) \/ SetArp(p)
  <2>1. cmd'[p].pc \in {"attach", "gateway", "arp", "ok", "failed"}
    BY <1>9, <1>a, Going DEF WethUp, AttachPeer, AddGateway, SetArp, AfterWorld, Fail, Labels
  <2>2. UNCHANGED <<bound, home, waddr>>
    BY <1>9 DEF WethUp, AttachPeer, AddGateway, SetArp
  <2> QED
    BY <2>1, <2>2, AddressesStay
<1>10. CASE Delete(p)
  <2>1. cmd'[p].pc \in {"failed", "remove", "rmtree", "ok"}
    BY <1>10, <1>a, Going DEF Delete, DeleteCheck, RemoveNetns, RemoveFolder, Fail, Labels
  <2>2. home' = home /\ waddr' = waddr /\ \A e \in Env : bound'[e] \in {bound[e], NoNs}
    BY <1>10 DEF Delete, DeleteCheck, RemoveNetns, RemoveFolder, TypeOK
  <2>3. WorldAddressesUnique'
    BY <2>2 DEF AddressesKnown, WorldAddressesUnique
  <2> QED
    BY <2>1, <2>2, <2>3 DEF AddressesKnown
<1>11. CASE Run(p)
  <2>1. cmd'[p].pc \in {"failed", "loadrun", "running", "ok"}
    BY <1>11, Entering
  <2>2. UNCHANGED <<bound, home, waddr>>
    BY <1>11 DEF Run, EnterNetns, LoadRunConfig, FinishRun
  <2> QED
    BY <2>1, <2>2, AddressesStay
<1> QED
  BY <1>1, <1>2, <1>3, <1>4, <1>5, <1>6, <1>7, <1>8, <1>9, <1>10, <1>11, <1>12
     DEF Step, Tunnel, World

(* While a command asks or holds an address, nobody else sets one.         *)
LEMMA AddressesOther ==
  ASSUME NEW p \in Proc, NEW q \in Proc, p # q, TypeOK, Belongs(p), Belongs(q), OneHolds,
         AddressesKnown(p), AddressesKnown(q)', Step(q)
  PROVE  AddressesKnown(p)'
<1>1. cmd'[p] = cmd[p]
  BY StepOfOne
<1> SUFFICES ASSUME cmd[p].pc \in Holding
             PROVE  \A e \in Env : bound'[e] # NoNs =>
                      \/ waddr'[bound'[e]] = 0
                      \/ bound'[e] = bound[e] /\ waddr'[bound[e]] = waddr[bound[e]]
  <2>1. (cmd[p].pc \in Asking => ScanKnown(p)) /\ (cmd[p].pc \in Chosen => Unknown(cmd[p].addr))
    BY DEF AddressesKnown
  <2>2. cmd[p].pc \in Chosen => cmd[p].addr # 0
    BY DEF Belongs, Chosen, WorldOn
  <2> DEFINE Kept == \A e \in Env : bound'[e] # NoNs =>
                      \/ waddr'[bound'[e]] = 0
                      \/ bound'[e] = bound[e] /\ waddr'[bound[e]] = waddr[bound[e]]
  <2>3. ASSUME cmd[p].pc \in Asking, Kept
        PROVE  ScanKnown(p)'
    BY <1>1, <2>1, <2>3 DEF ScanKnown, Accounted, At
  <2>4. ASSUME cmd[p].pc \in Chosen, Kept
        PROVE  \A e \in Env : bound'[e] # NoNs => waddr'[bound'[e]] # cmd[p].addr
    BY <2>1, <2>2, <2>4 DEF Unknown
  <2>5. ASSUME cmd[p].pc \in Chosen, Kept
        PROVE  Unknown(cmd[p].addr)'
    BY <1>1, <2>4, <2>5 DEF Unknown
  <2> QED
    BY <1>1, <2>3, <2>5 DEF AddressesKnown, Holding
<1>3. CASE OpenNetns(q)
  <2>1. CASE bound' = bound
    BY <1>3, <2>1 DEF OpenNetns, inside
  <2>2. CASE bound' # bound
    <3>1. PICK m \in NsId : /\ home[m] = NoEnv
                            /\ bound' = [bound EXCEPT ![cmd[q].env] = m]
      BY <1>3, <2>2, ZenonT(30) DEF OpenNetns, names
    <3>2. waddr' = waddr /\ waddr[m] = 0
      BY <1>3, <3>1 DEF OpenNetns, inside, AddressesKnown
    <3> QED
      BY <3>1, <3>2 DEF TypeOK
  <2> QED
    BY <2>1, <2>2
<1>4. CASE WethAddr(q)
  BY <1>4 DEF OneHolds, TakeTurns, WethAddr, At, Holding, Chosen
<1>5. CASE RemoveNetns(q)
  <2>1. waddr' = waddr /\ \A e \in Env : bound'[e] \in {bound[e], NoNs}
    BY <1>5 DEF RemoveNetns, TypeOK, inside
  <2> QED
    BY <2>1
<1>6. CASE ~(OpenNetns(q) \/ WethAddr(q) \/ RemoveNetns(q))
  <2>1. bound' = bound /\ waddr' = waddr
    BY <1>6 DEF Step, Issue, Return, Die, Create, CreateCheck, MakeFolder, CopyConfig, MakeLogs,
     StartCheck, LoadConfig, Tunnel, LookupLink, AddLink, AddAddr, LinkUp, FlushLocal, LookupRules,
     AddLocalRoute, AddRule, LookupRoutes, AddP2PRoute, LoopbackUp, World, ListNetns, OpenListed,
     QueryListed, PickAddress, LookupBridge, AddBridge, BridgeAddr, BridgeUp, BridgeNat, AddVeth,
     WethUp, AttachPeer, AddGateway, SetArp, Delete, DeleteCheck, RemoveFolder, Run, EnterNetns,
     LoadRunConfig, FinishRun, names, inside
  <2> QED
    BY <2>1
<1> QED
  BY <1>3, <1>4, <1>5, <1>6

(* The kernel takes nothing away that a name refers to.                    *)
LEMMA AddressesReap ==
  ASSUME IInv, NEW n \in NsId, Reap(n), NEW p \in Proc, AddressesKnown(p)
  PROVE  AddressesKnown(p)'
<1>1. /\ \A m \in NsId \ {n} : home'[m] = home[m] /\ waddr'[m] = waddr[m]
      /\ bound' = bound /\ cmd' = cmd /\ waddr'[n] = 0
  BY DEF Reap, IInv, TypeOK
<1>2. \A e \in Env : bound[e] # n
  BY DEF Reap, Held
<1>3. bound \in [Env -> NsId \cup {NoNs}]
  BY DEF IInv, TypeOK
<1>4. \A e \in Env : bound[e] # NoNs => waddr'[bound[e]] = waddr[bound[e]]
  BY <1>1, <1>2, <1>3
<1>5. WorldAddressesUnique'
  BY <1>1, <1>4 DEF AddressesKnown, WorldAddressesUnique
<1>6. \A m \in NsId : home'[m] = NoEnv => waddr'[m] = 0
  BY <1>1 DEF AddressesKnown
<1>7. cmd'[p].pc \in Asking => ScanKnown(p)'
  BY <1>1, <1>4 DEF AddressesKnown, ScanKnown, Accounted, At
<1>8. cmd'[p].pc \in Chosen => Unknown(cmd[p].addr)'
  <2> SUFFICES ASSUME cmd'[p].pc \in Chosen
               PROVE  \A e \in Env : bound'[e] # NoNs => waddr'[bound'[e]] # cmd'[p].addr
    BY DEF Unknown
  <2> QED
    BY <1>1, <1>4 DEF AddressesKnown, Unknown
<1> QED
  BY <1>5, <1>6, <1>7, <1>8 DEF AddressesKnown

LEMMA AddressesInvariance == Spec /\ []OneHolds => [](\A p \in Proc : AddressesKnown(p))
<1>1. Init => \A p \in Proc : AddressesKnown(p)
  BY DEF Init, Idle, AddressesKnown, WorldAddressesUnique, Asking, Chosen
<1>2. IInv /\ OneHolds /\ (\A p \in Proc : AddressesKnown(p)) /\ [Next]_vars
        => (\A p \in Proc : AddressesKnown(p))'
  <2> SUFFICES ASSUME IInv, OneHolds, \A p \in Proc : AddressesKnown(p), [Next]_vars,
                      NEW p \in Proc
               PROVE  AddressesKnown(p)'
    OBVIOUS
  <2>1. ASSUME NEW x \in Proc, Step(x) PROVE AddressesKnown(p)'
    <3>1. AddressesKnown(x)'
      BY <2>1, AddressesStep DEF IInv, Progress
    <3>2. CASE p # x
      BY <2>1, <3>1, <3>2, AddressesOther DEF IInv, Progress
    <3> QED
      BY <3>1, <3>2
  <2>2. CASE \E n \in NsId : Reap(n)
    BY <2>2, AddressesReap
  <2>3. CASE Reboot
    <3>1. /\ cmd'[p].pc = "idle" /\ \A e \in Env : bound'[e] = NoNs
          /\ \A n \in NsId : waddr'[n] = 0
      BY <2>3 DEF Reboot, Idle
    <3> QED
      BY <3>1 DEF AddressesKnown, WorldAddressesUnique, Asking, Chosen
  <2>4. CASE UNCHANGED vars
    <3>1. UNCHANGED <<bound, home, waddr, cmd>>
      BY <2>4 DEF vars, names, inside
    <3> QED
      BY <3>1, AddressesStay
  <2> QED
    BY <2>1, <2>2, <2>3, <2>4 DEF Next
<1> QED
  BY <1>1, <1>2, Invariance, PTL DEF Spec

(* If one command at a time is anywhere between listnetns and the moment   *)
(* its veth has the address it chose, no two environments have the same    *)
(* address on dtl-br, whichever died on that way and whatever is deleted   *)
(* or opened meanwhile (ns._get_available_address).                        *)
THEOREM TurnsKeepAddressesUnique ==
  ASSUME Proc # {}
  PROVE  Spec /\ []OneHolds => []WorldAddressesUnique
<1>1. (\A p \in Proc : AddressesKnown(p)) => WorldAddressesUnique
  BY DEF AddressesKnown
<1> QED
  BY <1>1, AddressesInvariance, PTL

(* So they are unique when all commands follow each other.                 *)
THEOREM AddressesAreUnique ==
  ASSUME Alone
  PROVE  Spec => []WorldAddressesUnique
<1>1. OneHolds /\ Proc # {}
  BY DEF Alone, OneHolds, TakeTurns
<1> QED
  BY <1>1, TurnsKeepAddressesUnique, PTL

=============================================================================
