---------------------------- MODULE NetEnvProofs ----------------------------
(* Proofs about NetEnv for every number of environments, of processes, of  *)
(* namespaces and of addresses, with crashes and reboots.                  *)
EXTENDS NetEnv, TLAPS

-----------------------------------------------------------------------------
(* The inductive invariant.                                                *)

(* The labels of the set-up from a point on, in the order of the code.     *)
ArpOn    == {"arp"}
WorldOn  == {"bridge", "addbridge", "bridgeaddr", "bridgeup", "bridgenat",
             "veth", "wethaddr", "wethup", "attach", "gateway"}
ScanOn   == {"scan", "open", "query"} \cup WorldOn \cup ArpOn
RoutesOn == {"routes", "addp2p", "lo"} \cup ScanOn
SetUpOn  == {"lookup", "addlink", "addaddr", "linkup", "flush",
             "rules", "addroute", "addrule"} \cup RoutesOn
NoAddrOn == {"netns", "lookup", "addlink", "addaddr", "linkup", "flush", "rules", "addroute",
             "addrule", "routes", "addp2p", "lo", "scan", "open", "query",
             "create", "mkdir", "copy", "logs", "start", "load"}

Reached(p, S) == cmd[p].pc \in S \/ Succeeded(p)

(* A namespace that a name or a process refers to is that of its name.     *)
Names ==
  /\ \A e \in Env : bound[e] # NoNs => home[bound[e]] = e
  /\ \A p \in Proc :
       cmd[p].ns # NoNs => cmd[p].env \in Env /\ home[cmd[p].ns] = cmd[p].env

(* What a tunnel interface has been given comes in order.                  *)
InOrder(F) ==
  /\ "up" \in F => {"link", "addr"} \subseteq F
  /\ "addr" \in F => "link" \in F
  /\ "rule" \in F => "route" \in F
  /\ "route" \in F => {"link", "addr"} \subseteq F
  /\ "p2p" \in F => "up" \in F

Ordered == \A n \in NsId, k \in Tun : InOrder(tun[n][k])

(* Where a command is tells whose command it is.                           *)
Belongs(p) ==
  /\ cmd[p].pc # "idle" => cmd[p].env \in Env
  /\ cmd[p].pc \in {"delete", "remove", "rmtree"} => cmd[p].op = "delete"
  /\ cmd[p].pc \in {"run", "loadrun", "running"} => cmd[p].op = "run"
  /\ Reached(p, SetUpOn) => cmd[p].ns \in NsId
  /\ cmd[p].pc \in NoAddrOn => cmd[p].addr = 0
  /\ cmd[p].pc \in WorldOn => cmd[p].addr # 0
  /\ At(p, "query") => cmd[p].look \in NsId

(* Where a command is tells what it has found or done so far.              *)
TunnelProgress(p) ==
  /\ At(p, "flush") => cmd[p].k = 0
  /\ cmd[p].pc \in {"addaddr", "linkup"} => "link" \in TunOf(p)
  /\ cmd[p].pc \in {"linkup", "addroute"} => "addr" \in TunOf(p)
  /\ At(p, "addroute") => "link" \in TunOf(p)
  /\ At(p, "addrule") => "route" \in TunOf(p)
  /\ cmd[p].pc \in {"rules", "addroute", "addrule"} /\ cmd[p].k = 1 =>
       "rule" \in tun[cmd[p].ns][0]
  /\ Reached(p, RoutesOn) => \A k \in Tun : "rule" \in tun[cmd[p].ns][k]
  /\ cmd[p].pc \in {"routes", "addp2p"} /\ cmd[p].k = 1 => "p2p" \in tun[cmd[p].ns][0]
  /\ Reached(p, {"lo"} \cup ScanOn) => \A k \in Tun : "p2p" \in tun[cmd[p].ns][k]
  /\ Reached(p, ScanOn) => "lo" \in base[cmd[p].ns]

WorldProgress(p) ==
  /\ cmd[p].pc \in {"wethup", "attach", "gateway"} =>
       "weth" \in base[cmd[p].ns] /\ waddr[cmd[p].ns] # 0
  /\ cmd[p].pc \in {"attach", "gateway"} => "wup" \in base[cmd[p].ns]
  /\ At(p, "gateway") => "master" \in base[cmd[p].ns]
  /\ Reached(p, ArpOn) /\ cmd[p].addr # 0 => Connected(cmd[p].ns)
  /\ Succeeded(p) /\ cmd[p].cfg = "tap" /\ bound[cmd[p].env] = cmd[p].ns =>
       \A k \in Tun : "arp" \in tun[cmd[p].ns][k]

Progress(p) == Belongs(p) /\ TunnelProgress(p) /\ WorldProgress(p)

(* SetUpComplete is the last line of Progress, read at the label "ok";     *)
(* the lines before it say how each stage of the set-up gets there.        *)
IInv == TypeOK /\ Names /\ Ordered /\ \A p \in Proc : Progress(p)

-----------------------------------------------------------------------------
(* What the helpers of the model do to a command.                          *)

Same(p) ==
  /\ cmd'[p].op = cmd[p].op /\ cmd'[p].env = cmd[p].env /\ cmd'[p].cfg = cmd[p].cfg
  /\ cmd'[p].ns = cmd[p].ns /\ cmd'[p].addr = cmd[p].addr

LEMMA Going ==
  ASSUME NEW p \in Proc, cmd \in [Proc -> CommandState], NEW l \in Labels, Goto(p, l)
  PROVE  /\ cmd' \in [Proc -> CommandState]
         /\ Same(p) /\ cmd'[p].pc = l /\ cmd'[p].k = cmd[p].k
BY DEF Goto, CommandState, Same

LEMMA GoingTun ==
  ASSUME NEW p \in Proc, cmd \in [Proc -> CommandState], NEW l \in Labels, NEW j \in Tun,
         GotoTun(p, l, j)
  PROVE  /\ cmd' \in [Proc -> CommandState]
         /\ Same(p) /\ cmd'[p].pc = l /\ cmd'[p].k = j
<1>1. cmd' = [cmd EXCEPT ![p] = [cmd[p] EXCEPT !.pc = l, !.k = j]]
  BY DEF GotoTun
<1>2. [cmd[p] EXCEPT !.pc = l, !.k = j] \in CommandState
  BY DEF CommandState
<1> QED
  BY <1>1, <1>2 DEF Same, CommandState

LEMMA NextingTun ==
  ASSUME NEW p \in Proc, cmd \in [Proc -> CommandState],
         NEW l \in Labels, NEW m \in Labels, NextTun(p, l, m)
  PROVE  /\ cmd' \in [Proc -> CommandState]
         /\ Same(p)
         /\ \/ cmd[p].k = 0 /\ cmd'[p].pc = l /\ cmd'[p].k = 1
            \/ cmd[p].k = 1 /\ cmd'[p].pc = m /\ cmd'[p].k = 0
<1>1. 0 \in Tun /\ 1 \in Tun /\ cmd[p].k \in {0, 1}
  BY DEF Tun, CommandState
<1> QED
  BY <1>1, GoingTun DEF NextTun

LEMMA IdleType == Idle \in CommandState
BY NetEnvAssumption DEF Idle, CommandState, Labels, ConfigKind, Tun

(* What a step of a process keeps of a namespace in use.                   *)
Keeps(n) ==
  /\ home'[n] = home[n]
  /\ \A j \in Tun : tun[n][j] \ {"dflt"} \subseteq tun'[n][j]
  /\ base[n] \ {"lolocal", "wlocal"} \subseteq base'[n]
  /\ waddr[n] # 0 => waddr'[n] # 0

-----------------------------------------------------------------------------
(* Type correctness.                                                       *)

LEMMA GiveTunType ==
  ASSUME NEW p \in Proc, NEW S \in SUBSET TunFact, TypeOK, GiveTun(p, S)
  PROVE  tun' \in [NsId -> [Tun -> SUBSET TunFact]]
<1> DEFINE n == cmd[p].ns  f == [tun[n] EXCEPT ![cmd[p].k] = @ \cup S]
<1>1. tun' = [tun EXCEPT ![n] = f]
  BY DEF GiveTun
<1>2. ASSUME n \in NsId
      PROVE  f \in [Tun -> SUBSET TunFact]
  <2>1. tun[n] \in [Tun -> SUBSET TunFact]
    BY <1>2 DEF TypeOK
  <2> HIDE DEF n
  <2> QED
    BY <2>1
<1> QED
  BY <1>1, <1>2 DEF TypeOK

LEMMA IssueType ==
  ASSUME NEW p \in Proc, TypeOK, Issue(p)
  PROVE  cmd' \in [Proc -> CommandState]
<1>1. PICK op \in Ops, e \in Env, c \in ConfigKind :
        cmd' = [cmd EXCEPT ![p] = [Idle EXCEPT !.op = op, !.pc = op, !.env = e, !.cfg = c]]
  BY NetEnvAssumption DEF Issue, ConfigKind
<1>2. [Idle EXCEPT !.op = op, !.pc = op, !.env = e, !.cfg = c] \in CommandState
  BY IdleType, NetEnvAssumption DEF CommandState, Commands, Labels
<1> QED
  BY <1>1, <1>2 DEF TypeOK

LEMMA LoadConfigType ==
  ASSUME NEW p \in Proc, TypeOK, LoadConfig(p)
  PROVE  cmd' \in [Proc -> CommandState]
<1>1. CASE Fail(p)
  BY <1>1, Going DEF Fail, Labels, TypeOK
<1>2. CASE ~Fail(p)
  <2>1. PICK x \in ConfigKind : cmd' = [cmd EXCEPT ![p] = [cmd[p] EXCEPT !.cfg = x, !.pc = "netns"]]
    BY <1>2 DEF LoadConfig, ConfigKind
  <2>2. "netns" \in Labels /\ cmd[p] \in CommandState
    BY DEF Labels, TypeOK
  <2>3. [cmd[p] EXCEPT !.cfg = x, !.pc = "netns"] \in CommandState
    BY <2>2 DEF CommandState
  <2> QED
    BY <2>1, <2>3 DEF TypeOK
<1> QED
  BY <1>1, <1>2

LEMMA OpenNetnsType ==
  ASSUME NEW p \in Proc, TypeOK, Belongs(p), OpenNetns(p)
  PROVE  /\ cmd' \in [Proc -> CommandState]
         /\ bound' \in [Env -> NsId \cup {NoNs}]
         /\ home' \in [NsId -> Env \cup {NoEnv}]
<1>1. cmd[p].env \in Env /\ cmd[p] \in CommandState
  BY DEF OpenNetns, At, Belongs, TypeOK
<1>2. "lookup" \in Labels
  BY DEF Labels
<1>3. CASE bound[cmd[p].env] # NoNs
  <2>1. [cmd[p] EXCEPT !.ns = bound[cmd[p].env], !.pc = "lookup"] \in CommandState
    BY <1>1, <1>2 DEF CommandState, TypeOK
  <2> QED
    BY <2>1, <1>3 DEF OpenNetns, TypeOK, names
<1>4. CASE bound[cmd[p].env] = NoNs
  <2>1. PICK m \in NsId :
          /\ home' = [home EXCEPT ![m] = cmd[p].env]
          /\ bound' = [bound EXCEPT ![cmd[p].env] = m]
          /\ cmd' = [cmd EXCEPT ![p] = [cmd[p] EXCEPT !.ns = m, !.fresh = TRUE, !.pc = "lookup"]]
    BY <1>4, ZenonT(30) DEF OpenNetns
  <2>2. [cmd[p] EXCEPT !.ns = m, !.fresh = TRUE, !.pc = "lookup"] \in CommandState
    BY <1>1, <1>2 DEF CommandState
  <2> QED
    BY <2>1, <2>2, <1>1 DEF TypeOK
<1> QED
  BY <1>3, <1>4

(* A request of the scan for addresses keeps the command where it is.      *)
LEMMA Scans ==
  ASSUME NEW p \in Proc, TypeOK, Belongs(p), ListNetns(p) \/ OpenListed(p) \/ QueryListed(p)
  PROVE  /\ cmd' \in [Proc -> CommandState]
         /\ Same(p) /\ cmd'[p].fresh = cmd[p].fresh /\ cmd'[p].k = cmd[p].k
         /\ cmd[p].pc \in {"scan", "open", "query"}
         /\ \/ Fail(p) /\ cmd'[p].pc = "failed"
            \/ cmd'[p].pc = "open"
            \/ cmd'[p].pc = "query" /\ cmd'[p].look \in NsId
<1>a. cmd[p] \in CommandState /\ {"open", "query"} \subseteq Labels
  BY DEF TypeOK, Labels
<1>1. CASE ListNetns(p)
  <2>1. PICK T \in SUBSET Env : cmd' = [cmd EXCEPT ![p] = [cmd[p] EXCEPT !.todo = T, !.pc = "open"]]
    BY <1>1 DEF ListNetns
  <2>2. [cmd[p] EXCEPT !.todo = T, !.pc = "open"] \in CommandState
    BY <1>a DEF CommandState
  <2>3. cmd' \in [Proc -> CommandState]
    BY <2>1, <2>2 DEF TypeOK
  <2>4. cmd'[p] = [cmd[p] EXCEPT !.todo = T, !.pc = "open"]
    BY <2>1 DEF TypeOK
  <2> QED
    BY <1>1, <1>a, <2>3, <2>4 DEF ListNetns, At, Same, CommandState
<1>2. CASE OpenListed(p)
  <2>1. CASE Fail(p)
    <3>1. cmd'[p] = [cmd[p] EXCEPT !.pc = "failed"]
      BY <2>1 DEF Fail, Goto, TypeOK
    <3>2. cmd' \in [Proc -> CommandState]
      BY <2>1, Going DEF Fail, Labels, TypeOK
    <3> QED
      BY <1>2, <1>a, <2>1, <3>1, <3>2 DEF OpenListed, At, Same, CommandState
  <2>2. CASE ~Fail(p)
    <3>1. PICK e \in Env :
            /\ bound[e] # NoNs
            /\ cmd' = [cmd EXCEPT ![p] = [cmd[p] EXCEPT !.todo = @ \ {e}, !.look = bound[e],
                                                        !.pc = "query"]]
      BY <1>2, <1>a, <2>2 DEF OpenListed, CommandState
    <3>2. bound[e] \in NsId
      BY <3>1 DEF TypeOK
    <3>3. [cmd[p] EXCEPT !.todo = @ \ {e}, !.look = bound[e], !.pc = "query"] \in CommandState
      BY <1>a, <3>2 DEF CommandState
    <3> QED
      BY <1>2, <1>a, <3>1, <3>2, <3>3 DEF OpenListed, At, TypeOK, Same, CommandState
  <2> QED
    BY <2>1, <2>2
<1>3. CASE QueryListed(p)
  <2>1. cmd' = [cmd EXCEPT ![p] = [cmd[p] EXCEPT !.seen = @ \cup {waddr[cmd[p].look]},
                                                 !.look = NoNs, !.pc = "open"]]
    BY <1>3 DEF QueryListed
  <2>2. waddr[cmd[p].look] \in 0 .. NAddr
    BY <1>3 DEF QueryListed, At, Belongs, TypeOK
  <2>3. [cmd[p] EXCEPT !.seen = @ \cup {waddr[cmd[p].look]}, !.look = NoNs, !.pc = "open"]
          \in CommandState
    BY <1>a, <2>2 DEF CommandState
  <2> QED
    BY <1>3, <1>a, <2>1, <2>3 DEF QueryListed, At, TypeOK, Same, CommandState
<1> QED
  BY <1>1, <1>2, <1>3

(* The choice changes the address at most.                                 *)
LEMMA Picks ==
  ASSUME NEW p \in Proc, TypeOK, PickAddress(p)
  PROVE  /\ cmd' \in [Proc -> CommandState]
         /\ cmd'[p].op = cmd[p].op /\ cmd'[p].env = cmd[p].env /\ cmd'[p].cfg = cmd[p].cfg
         /\ cmd'[p].ns = cmd[p].ns /\ cmd'[p].fresh = cmd[p].fresh
         /\ cmd[p].pc = "open" /\ cmd[p].todo = {}
         /\ \/ cmd'[p].pc = AfterWorld(p) /\ cmd'[p].addr = cmd[p].addr
            \/ cmd'[p].pc = "bridge" /\ cmd'[p].addr \in Addr \ cmd[p].seen
<1>a. cmd[p] \in CommandState /\ {"bridge", "arp", "ok"} \subseteq Labels
  BY DEF TypeOK, Labels
<1>b. cmd[p].pc = "open" /\ cmd[p].todo = {}
  BY DEF PickAddress, At
<1>1. CASE cmd' = [cmd EXCEPT ![p].seen = {}, ![p].pc = AfterWorld(p)]
  <2>1. cmd' = [cmd EXCEPT ![p] = [cmd[p] EXCEPT !.seen = {}, !.pc = AfterWorld(p)]]
    BY <1>1
  <2>2. [cmd[p] EXCEPT !.seen = {}, !.pc = AfterWorld(p)] \in CommandState
    BY <1>a DEF AfterWorld, CommandState
  <2> HIDE DEF AfterWorld
  <2> QED
    BY <1>a, <1>b, <2>1, <2>2 DEF TypeOK, CommandState
<1>2. CASE cmd' # [cmd EXCEPT ![p].seen = {}, ![p].pc = AfterWorld(p)]
  <2>1. PICK a \in Addr \ cmd[p].seen :
          cmd' = [cmd EXCEPT ![p] = [cmd[p] EXCEPT !.seen = {}, !.addr = a, !.pc = "bridge"]]
    BY <1>2 DEF PickAddress
  <2>2. a \in 0 .. NAddr
    BY NetEnvAssumption DEF Addr
  <2>3. [cmd[p] EXCEPT !.seen = {}, !.addr = a, !.pc = "bridge"] \in CommandState
    BY <1>a, <2>2 DEF CommandState
  <2> QED
    BY <1>a, <1>b, <2>1, <2>3 DEF TypeOK, CommandState
<1> QED
  BY <1>1, <1>2

LEMMA EnterNetnsType ==
  ASSUME NEW p \in Proc, TypeOK, Belongs(p), EnterNetns(p)
  PROVE  cmd' \in [Proc -> CommandState]
<1>1. CASE Fail(p)
  BY <1>1, Going DEF Fail, Labels, TypeOK
<1>2. CASE ~Fail(p)
  <2>1. PICK m \in NsId : cmd' = [cmd EXCEPT ![p] = [cmd[p] EXCEPT !.ns = m, !.pc = "loadrun"]]
    BY <1>2 DEF EnterNetns, TypeOK, Belongs, At
  <2>2. "loadrun" \in Labels /\ cmd[p] \in CommandState
    BY DEF Labels, TypeOK
  <2>3. [cmd[p] EXCEPT !.ns = m, !.pc = "loadrun"] \in CommandState
    BY <2>2 DEF CommandState
  <2> QED
    BY <2>1, <2>3 DEF TypeOK
<1> QED
  BY <1>1, <1>2

LEMMA CommandType ==
  ASSUME NEW p \in Proc, TypeOK, Belongs(p), Step(p)
  PROVE  cmd' \in [Proc -> CommandState]
<1>a. cmd \in [Proc -> CommandState]
  BY DEF TypeOK
<1>1. CASE Issue(p) \/ LoadConfig(p) \/ OpenNetns(p) \/ EnterNetns(p)
  BY <1>1, IssueType, LoadConfigType, OpenNetnsType, EnterNetnsType
<1>9. CASE ListNetns(p) \/ OpenListed(p) \/ QueryListed(p) \/ PickAddress(p)
  BY <1>9, Scans, Picks
<1>2. CASE Return(p) \/ Die(p)
  BY <1>2, <1>a, IdleType DEF Return, Die
<1>3. CASE Create(p) \/ StartCheck(p) \/ Delete(p) \/ LoadRunConfig(p) \/ FinishRun(p)
  BY <1>3, <1>a, Going DEF Create, CreateCheck, MakeFolder, CopyConfig, MakeLogs, StartCheck, Delete,
       DeleteCheck, RemoveNetns, RemoveFolder, LoadRunConfig, FinishRun, Fail, Labels
<1>4. CASE LookupLink(p) \/ AddLink(p) \/ AddAddr(p) \/ LinkUp(p) \/ FlushLocal(p)
  BY <1>4, <1>a, Going, NextingTun DEF LookupLink, AddLink, AddAddr, LinkUp, FlushLocal, Fail, Labels
<1>5. CASE LookupRules(p) \/ AddLocalRoute(p) \/ AddRule(p)
  BY <1>5, <1>a, Going, NextingTun DEF LookupRules, AddLocalRoute, AddRule, Fail, Labels
<1>6. CASE LookupRoutes(p) \/ AddP2PRoute(p) \/ LoopbackUp(p)
  BY <1>6, <1>a, Going, NextingTun DEF LookupRoutes, AddP2PRoute, LoopbackUp, Fail, Labels
<1>7. CASE LookupBridge(p) \/ AddBridge(p) \/ BridgeAddr(p) \/ BridgeUp(p) \/ BridgeNat(p)
  BY <1>7, <1>a, Going DEF LookupBridge, AddBridge, BridgeAddr, BridgeUp, BridgeNat, Fail, Labels
<1>8. CASE AddVeth(p) \/ WethAddr(p) \/ WethUp(p) \/ AttachPeer(p) \/ AddGateway(p) \/ SetArp(p)
  BY <1>8, <1>a, Going DEF AddVeth, WethAddr, WethUp, AttachPeer, AddGateway, SetArp, AfterWorld,
       Fail, Labels
<1> QED
  BY <1>1, <1>2, <1>3, <1>4, <1>5, <1>6, <1>7, <1>8, <1>9 DEF Step, Tunnel, World, Run

LEMMA StepType ==
  ASSUME NEW p \in Proc, TypeOK, Belongs(p), Step(p)
  PROVE  TypeOK'
<1> USE DEF TypeOK, names, inside
<1>a. cmd' \in [Proc -> CommandState]
  BY CommandType
<1>1. CASE \/ Issue(p) \/ Return(p) \/ Die(p) \/ StartCheck(p) \/ LoadConfig(p) \/ Run(p)
           \/ CreateCheck(p) \/ DeleteCheck(p) \/ LookupBridge(p)
           \/ ListNetns(p) \/ OpenListed(p) \/ QueryListed(p) \/ PickAddress(p)
           \/ LookupLink(p) \/ LookupRules(p) \/ LookupRoutes(p)
  BY <1>1, <1>a DEF Issue, Return, Die, StartCheck, LoadConfig, Run, EnterNetns, LoadRunConfig,
       FinishRun, CreateCheck, DeleteCheck, LookupBridge,
       ListNetns, OpenListed, QueryListed, PickAddress, LookupLink, LookupRules, LookupRoutes
<1>2. CASE MakeFolder(p) \/ CopyConfig(p) \/ MakeLogs(p) \/ RemoveFolder(p)
  <2>1. cmd[p].cfg \in ConfigKind
    BY DEF CommandState
  <2>2. disk' \in [Env -> FolderState]
    <3>1. CASE MakeFolder(p)
      <4>1. disk' = disk \/ disk' = [disk EXCEPT ![cmd[p].env].dir = TRUE]
        BY <3>1 DEF MakeFolder
      <4> QED
        BY <4>1 DEF FolderState
    <3>2. CASE CopyConfig(p)
      <4>1. PICK x \in ConfigKind :
              disk' = disk \/ disk' = [disk EXCEPT ![cmd[p].env].cfg = x]
        BY <3>2, <2>1 DEF CopyConfig
      <4>2. \A f \in FolderState : [f EXCEPT !.cfg = x] \in FolderState
        BY DEF FolderState
      <4>3. disk' = disk \/ disk' = [disk EXCEPT ![cmd[p].env] = [disk[cmd[p].env] EXCEPT !.cfg = x]]
        BY <4>1
      <4> QED
        BY <4>2, <4>3
    <3>3. CASE MakeLogs(p)
      <4>1. disk' = disk \/ disk' = [disk EXCEPT ![cmd[p].env].logs = TRUE]
        BY <3>3 DEF MakeLogs
      <4>2. \A f \in FolderState : [f EXCEPT !.logs = TRUE] \in FolderState
        BY DEF FolderState
      <4>3. disk' = disk \/ disk' = [disk EXCEPT ![cmd[p].env] = [disk[cmd[p].env] EXCEPT !.logs = TRUE]]
        BY <4>1
      <4> QED
        BY <4>2, <4>3
    <3>4. CASE RemoveFolder(p)
      BY <3>4 DEF RemoveFolder, NoFolder, FolderState, ConfigKind
    <3> QED
      BY <1>2, <3>1, <3>2, <3>3, <3>4
  <2> QED
    BY <1>2, <1>a, <2>2 DEF MakeFolder, CopyConfig, MakeLogs, RemoveFolder
<1>3. CASE OpenNetns(p)
  BY <1>3, OpenNetnsType DEF OpenNetns
<1>4. CASE RemoveNetns(p)
  BY <1>4, <1>a DEF RemoveNetns
<1>5. CASE \/ AddLink(p) \/ AddAddr(p) \/ LinkUp(p) \/ AddLocalRoute(p)
           \/ AddRule(p) \/ AddP2PRoute(p)
  <2>1. PICK S \in SUBSET TunFact : tun' = tun \/ GiveTun(p, S)
    BY <1>5 DEF AddLink, AddAddr, LinkUp, AddLocalRoute, AddRule, AddP2PRoute, TunFact
  <2>2. tun' \in [NsId -> [Tun -> SUBSET TunFact]]
    BY <2>1, GiveTunType
  <2> QED
    BY <1>5, <1>a, <2>2 DEF AddLink, AddAddr, LinkUp, AddLocalRoute, AddRule, AddP2PRoute
<1>6. CASE FlushLocal(p)
  <2>1. tun' \in [NsId -> [Tun -> SUBSET TunFact]]
    BY <1>6 DEF FlushLocal
  <2>2. base' \in [NsId -> SUBSET BaseFact]
    BY <1>6 DEF FlushLocal
  <2> QED
    BY <1>6, <1>a, <2>1, <2>2 DEF FlushLocal
<1>7. CASE SetArp(p)
  <2>1. CASE tun' = tun
    BY <1>7, <1>a, <2>1 DEF SetArp
  <2>2. CASE tun' # tun
    <3>1. PICK f \in [Tun -> SUBSET TunFact] : tun' = [tun EXCEPT ![bound[cmd[p].env]] = f]
      <4> DEFINE m == bound[cmd[p].env]
                 f == [j \in Tun |-> IF "p2p" \in tun[m][1 - j] THEN tun[m][j] \cup {"arp"} ELSE tun[m][j]]
      <4>1. tun' = [tun EXCEPT ![m] = f]
        BY <1>7, <2>2 DEF SetArp
      <4>2. m \in NsId
        BY <4>1, <2>2
      <4>3. f \in [Tun -> SUBSET TunFact]
        BY <4>2 DEF TunFact
      <4> QED
        BY <4>1, <4>3
    <3> QED
      BY <1>7, <1>a, <3>1 DEF SetArp
  <2> QED
    BY <2>1, <2>2
<1>8. CASE AddBridge(p) \/ BridgeAddr(p) \/ BridgeUp(p) \/ BridgeNat(p)
  BY <1>8, <1>a DEF AddBridge, BridgeAddr, BridgeUp, BridgeNat, BridgeFact
<1>9. CASE LoopbackUp(p) \/ WethUp(p) \/ AttachPeer(p) \/ AddGateway(p)
  <2>1. PICK S \in SUBSET BaseFact : GiveBase(p, S)
    BY <1>9 DEF LoopbackUp, WethUp, AttachPeer, AddGateway, BaseFact
  <2>2. base' \in [NsId -> SUBSET BaseFact]
    BY <2>1 DEF GiveBase
  <2> QED
    BY <1>9, <1>a, <2>2 DEF LoopbackUp, WethUp, AttachPeer, AddGateway
<1>10. CASE AddVeth(p)
  <2>1. base' \in [NsId -> SUBSET BaseFact]
    BY <1>10 DEF AddVeth, BaseFact
  <2> QED
    BY <1>10, <1>a, <2>1 DEF AddVeth
<1>11. CASE WethAddr(p)
  <2>1. base' \in [NsId -> SUBSET BaseFact]
    BY <1>11 DEF WethAddr, GiveBase, BaseFact
  <2>2. cmd[p].addr \in 0 .. NAddr
    BY DEF CommandState
  <2>3. waddr' \in [NsId -> 0 .. NAddr]
    BY <1>11, <2>2 DEF WethAddr
  <2> QED
    BY <1>11, <1>a, <2>1, <2>3 DEF WethAddr
<1> QED
  BY <1>1, <1>2, <1>3, <1>4, <1>5, <1>6, <1>7, <1>8, <1>9, <1>10, <1>11
     DEF Step, Create, Tunnel, World, Delete

-----------------------------------------------------------------------------
(* Progress of the process that takes the step.                            *)

LEMMA OutOfSetUp ==
  ASSUME NEW p \in Proc, cmd'[p].pc \notin SetUpOn, ~Succeeded(p)'
  PROVE  TunnelProgress(p)' /\ WorldProgress(p)'
BY DEF TunnelProgress, WorldProgress, Reached, At, SetUpOn, RoutesOn, ScanOn, WorldOn, ArpOn

LEMMA BeforeWorld ==
  ASSUME NEW p \in Proc, cmd'[p].pc \in SetUpOn \ (WorldOn \cup ArpOn)
  PROVE  WorldProgress(p)'
BY DEF WorldProgress, Reached, Succeeded, At, SetUpOn, RoutesOn, ScanOn, WorldOn, ArpOn

LEMMA Onward ==
  ASSUME NEW p \in Proc, Belongs(p), Same(p),
         cmd[p].pc \in SetUpOn, cmd'[p].pc \in SetUpOn,
         cmd'[p].pc \in NoAddrOn => cmd[p].pc \in NoAddrOn,
         cmd'[p].pc \in WorldOn => cmd[p].addr # 0,
         cmd'[p].pc = "query" => cmd'[p].look \in NsId
  PROVE  Belongs(p)'
<1>1. cmd[p].env \in Env /\ cmd[p].ns \in NsId /\ cmd[p].pc # "idle"
  BY DEF Belongs, Reached, SetUpOn, RoutesOn, ScanOn, WorldOn, ArpOn
<1> QED
  BY <1>1 DEF Belongs, Same, At, SetUpOn, RoutesOn, ScanOn, WorldOn, ArpOn

LEMMA Failing ==
  ASSUME NEW p \in Proc, TypeOK, Belongs(p), cmd[p].pc # "idle", Fail(p)
  PROVE  Progress(p)'
<1>1. Same(p) /\ cmd'[p].pc = "failed"
  BY Going DEF Fail, TypeOK, Labels
<1>2. Belongs(p)'
  BY <1>1 DEF Belongs, Same, Reached, Succeeded, At,
              SetUpOn, RoutesOn, ScanOn, WorldOn, ArpOn, NoAddrOn
<1>3. TunnelProgress(p)' /\ WorldProgress(p)'
  BY <1>1, OutOfSetUp DEF Succeeded, At, SetUpOn, RoutesOn, ScanOn, WorldOn, ArpOn
<1> QED
  BY <1>2, <1>3 DEF Progress

(* The set-up of the tunnel interfaces, from the namespace to lo.          *)
LEMMA TunnelStep ==
  ASSUME NEW p \in Proc, TypeOK, Progress(p), Tunnel(p),
         cmd[p].ns \in NsId => Keeps(cmd[p].ns)
  PROVE  Progress(p)'
<1> DEFINE c == cmd[p]  d == cmd'[p]  n == cmd[p].ns
<1>a. cmd \in [Proc -> CommandState] /\ c.k \in Tun /\ Belongs(p)
  BY DEF TypeOK, CommandState, Progress
<1>b. c.pc \in SetUpOn => n \in NsId
  BY <1>a DEF Belongs, Reached
<1>c. ASSUME d.pc \in SetUpOn \ (WorldOn \cup ArpOn), Belongs(p)', TunnelProgress(p)'
      PROVE  Progress(p)'
  BY <1>c, BeforeWorld DEF Progress
<1>1. CASE OpenNetns(p)
  <2>1. c.pc = "netns" /\ c.env \in Env
    BY <1>1, <1>a DEF OpenNetns, At, Belongs
  <2>2. d.pc = "lookup" /\ d.env = c.env /\ d.ns \in NsId /\ d.addr = c.addr
    <3>1. CASE bound[c.env] # NoNs
      <4>1. cmd' = [cmd EXCEPT ![p] = [c EXCEPT !.ns = bound[c.env], !.pc = "lookup"]]
        BY <1>1, <3>1 DEF OpenNetns
      <4> QED
        BY <4>1, <3>1, <2>1, <1>a DEF TypeOK, CommandState
    <3>2. CASE bound[c.env] = NoNs
      <4>1. PICK m \in NsId :
              cmd' = [cmd EXCEPT ![p] = [c EXCEPT !.ns = m, !.fresh = TRUE, !.pc = "lookup"]]
        BY <1>1, <3>2 DEF OpenNetns
      <4> QED
        BY <4>1, <1>a DEF CommandState
    <3> QED
      BY <3>1, <3>2
  <2>3. Belongs(p)'
    BY <2>1, <2>2, <1>a DEF Belongs, At, NoAddrOn, WorldOn
  <2>4. TunnelProgress(p)'
    BY <2>2 DEF TunnelProgress, Reached, Succeeded, At, RoutesOn, ScanOn, WorldOn, ArpOn
  <2> QED
    BY <2>2, <2>3, <2>4, <1>c DEF SetUpOn, WorldOn, ArpOn
<1>2. CASE LookupLink(p)
  <2>1. /\ c.pc = "lookup" /\ d.pc \in {"lookup", "addlink", "flush"} /\ Same(p)
        /\ d.pc = "flush" => d.k = 0
    BY <1>2, <1>a, Going, NextingTun DEF LookupLink, At, Labels
  <2>2. Belongs(p)'
    BY <2>1, <1>a, Onward DEF SetUpOn, NoAddrOn, WorldOn
  <2>3. TunnelProgress(p)'
    BY <2>1 DEF TunnelProgress, Reached, Succeeded, At, RoutesOn, ScanOn, WorldOn, ArpOn
  <2> QED
    BY <2>1, <2>2, <2>3, <1>c DEF SetUpOn, WorldOn, ArpOn
<1>3. CASE AddLink(p)
  <2>1. CASE Fail(p)
    BY <2>1, <1>3, <1>a, Failing DEF AddLink, At
  <2>2. CASE ~Fail(p)
    <3>1. c.pc = "addlink" /\ d.pc = "addaddr" /\ Same(p) /\ d.k = c.k
      BY <2>2, <1>3, <1>a, Going DEF AddLink, At, Labels
    <3>2. Belongs(p)'
      BY <3>1, <1>a, Onward DEF SetUpOn, NoAddrOn, WorldOn
    <3>3. "link" \in tun'[n][c.k]
      BY <2>2, <3>1, <1>3, <1>a, <1>b DEF AddLink, GiveTun, TypeOK, SetUpOn
    <3>4. TunnelProgress(p)'
      BY <3>1, <3>3 DEF TunnelProgress, Same, TunOf, Reached, Succeeded, At,
                        RoutesOn, ScanOn, WorldOn, ArpOn
    <3> QED
      BY <3>1, <3>2, <3>4, <1>c DEF SetUpOn, WorldOn, ArpOn
  <2> QED
    BY <2>1, <2>2
<1>4. CASE AddAddr(p)
  <2>1. c.pc = "addaddr" /\ d.pc = "linkup" /\ Same(p) /\ d.k = c.k
    BY <1>4, <1>a, Going DEF AddAddr, At, Labels
  <2>2. Belongs(p)'
    BY <2>1, <1>a, Onward DEF SetUpOn, NoAddrOn, WorldOn
  <2>3. {"link", "addr"} \subseteq tun'[n][c.k]
    BY <2>1, <1>4, <1>a, <1>b
       DEF AddAddr, GiveTun, TypeOK, SetUpOn, Progress, TunnelProgress, TunOf
  <2>4. TunnelProgress(p)'
    BY <2>1, <2>3 DEF TunnelProgress, Same, TunOf, Reached, Succeeded, At,
                      RoutesOn, ScanOn, WorldOn, ArpOn
  <2> QED
    BY <2>1, <2>2, <2>4, <1>c DEF SetUpOn, WorldOn, ArpOn
<1>5. CASE LinkUp(p)
  <2>1. /\ c.pc = "linkup" /\ d.pc \in {"lookup", "flush"} /\ Same(p)
        /\ d.pc = "flush" => d.k = 0
    BY <1>5, <1>a, NextingTun DEF LinkUp, At, Labels
  <2>2. Belongs(p)'
    BY <2>1, <1>a, Onward DEF SetUpOn, NoAddrOn, WorldOn
  <2>3. TunnelProgress(p)'
    BY <2>1 DEF TunnelProgress, Reached, Succeeded, At, RoutesOn, ScanOn, WorldOn, ArpOn
  <2> QED
    BY <2>1, <2>2, <2>3, <1>c DEF SetUpOn, WorldOn, ArpOn
<1>6. CASE FlushLocal(p)
  <2>1. c.pc = "flush" /\ d.pc = "rules" /\ Same(p) /\ d.k = c.k
    BY <1>6, <1>a, Going DEF FlushLocal, At, Labels
  <2>2. Belongs(p)'
    BY <2>1, <1>a, Onward DEF SetUpOn, NoAddrOn, WorldOn
  <2>3. c.k = 0
    BY <2>1 DEF Progress, TunnelProgress, At
  <2>4. TunnelProgress(p)'
    BY <2>1, <2>3 DEF TunnelProgress, Reached, Succeeded, At, RoutesOn, ScanOn, WorldOn, ArpOn
  <2> QED
    BY <2>1, <2>2, <2>4, <1>c DEF SetUpOn, WorldOn, ArpOn
<1>7. CASE LookupRules(p)
  <2>1. CASE Fail(p)
    BY <2>1, <1>7, <1>a, Failing DEF LookupRules, At
  <2>2. CASE ~Fail(p) /\ "rule" \in TunOf(p)
    <3>1. /\ c.pc = "rules" /\ Same(p)
          /\ \/ c.k = 0 /\ d.pc = "rules" /\ d.k = 1
             \/ c.k = 1 /\ d.pc = "routes" /\ d.k = 0
      BY <2>2, <1>7, <1>a, NextingTun DEF LookupRules, At, Labels
    <3>2. Belongs(p)'
      BY <3>1, <1>a, Onward DEF SetUpOn, NoAddrOn, WorldOn, RoutesOn
    <3>3. "rule" \in tun'[n][c.k] /\ (c.k = 1 => "rule" \in tun'[n][0])
      BY <2>2, <3>1, <1>7, <1>a, <1>b
         DEF LookupRules, inside, TunOf, Progress, TunnelProgress, Tun
    <3>4. TunnelProgress(p)'
      BY <3>1, <3>3 DEF TunnelProgress, Same, Reached, Succeeded, At,
                        RoutesOn, ScanOn, WorldOn, ArpOn, Tun
    <3> QED
      BY <3>1, <3>2, <3>4, <1>c DEF SetUpOn, RoutesOn, WorldOn, ArpOn
  <2>3. CASE ~Fail(p) /\ "rule" \notin TunOf(p)
    <3>1. c.pc = "rules" /\ Same(p) /\ d.k = c.k /\ d.pc = "addroute"
      BY <2>3, <1>7, <1>a, Going DEF LookupRules, At, Labels
    <3>2. Belongs(p)'
      BY <3>1, <1>a, Onward DEF SetUpOn, NoAddrOn, WorldOn
    <3>3. {"link", "addr"} \subseteq tun'[n][c.k] /\ (c.k = 1 => "rule" \in tun'[n][0])
      BY <2>3, <3>1, <1>7, <1>a, <1>b
         DEF LookupRules, inside, TunOf, Progress, TunnelProgress
    <3>4. TunnelProgress(p)'
      BY <3>1, <3>3 DEF TunnelProgress, Same, TunOf, Reached, Succeeded, At,
                        RoutesOn, ScanOn, WorldOn, ArpOn
    <3> QED
      BY <3>1, <3>2, <3>4, <1>c DEF SetUpOn, WorldOn, ArpOn
  <2> QED
    BY <2>1, <2>2, <2>3
<1>8. CASE AddLocalRoute(p)
  <2>1. CASE Fail(p)
    BY <2>1, <1>8, <1>a, Failing DEF AddLocalRoute, At
  <2>2. CASE ~Fail(p)
    <3>1. c.pc = "addroute" /\ Same(p) /\ d.k = c.k /\ d.pc = "addrule"
      BY <2>2, <1>8, <1>a, Going DEF AddLocalRoute, At, Labels
    <3>2. Belongs(p)'
      BY <3>1, <1>a, Onward DEF SetUpOn, NoAddrOn, WorldOn
    <3>3. "route" \in tun'[n][c.k]
      BY <2>2, <3>1, <1>8, <1>a, <1>b DEF AddLocalRoute, GiveTun, TypeOK, SetUpOn
    <3>4. c.k = 1 => "rule" \in tun'[n][0]
      BY <3>1, <1>b DEF Progress, TunnelProgress, SetUpOn, Keeps, Tun
    <3>5. TunnelProgress(p)'
      BY <3>1, <3>3, <3>4 DEF TunnelProgress, Same, TunOf, Reached, Succeeded, At,
                              RoutesOn, ScanOn, WorldOn, ArpOn
    <3> QED
      BY <3>1, <3>2, <3>5, <1>c DEF SetUpOn, WorldOn, ArpOn
  <2> QED
    BY <2>1, <2>2
<1>9. CASE AddRule(p)
  <2>1. /\ c.pc = "addrule" /\ Same(p)
        /\ \/ c.k = 0 /\ d.pc = "rules" /\ d.k = 1
           \/ c.k = 1 /\ d.pc = "routes" /\ d.k = 0
    BY <1>9, <1>a, NextingTun DEF AddRule, At, Labels
  <2>2. Belongs(p)'
    BY <2>1, <1>a, Onward DEF SetUpOn, NoAddrOn, WorldOn, RoutesOn
  <2>3. "rule" \in tun'[n][c.k]
    BY <2>1, <1>9, <1>a, <1>b DEF AddRule, GiveTun, TypeOK, SetUpOn
  <2>4. c.k = 1 => "rule" \in tun'[n][0]
    BY <2>1, <1>b DEF Progress, TunnelProgress, SetUpOn, Keeps, Tun
  <2>5. TunnelProgress(p)'
    BY <2>1, <2>3, <2>4 DEF TunnelProgress, Same, Reached, Succeeded, At,
                            RoutesOn, ScanOn, WorldOn, ArpOn, Tun
  <2> QED
    BY <2>1, <2>2, <2>5, <1>c DEF SetUpOn, RoutesOn, WorldOn, ArpOn
<1>10. ASSUME c.pc \in RoutesOn
       PROVE  \A j \in Tun : "rule" \in tun'[n][j]
  BY <1>10, <1>b DEF SetUpOn, Progress, TunnelProgress, Reached, Keeps
<1>11. CASE LookupRoutes(p)
  <2>1. /\ c.pc = "routes" /\ Same(p)
        /\ \/ "p2p" \in TunOf(p) /\ c.k = 0 /\ d.pc = "routes" /\ d.k = 1
           \/ "p2p" \in TunOf(p) /\ c.k = 1 /\ d.pc = "lo" /\ d.k = 0
           \/ d.k = c.k /\ d.pc = "addp2p"
    <3>1. CASE "p2p" \in TunOf(p)
      <4>1. c.pc = "routes" /\ NextTun(p, "routes", "lo")
        BY <3>1, <1>11 DEF LookupRoutes, At
      <4>2. "routes" \in Labels /\ "lo" \in Labels
        BY DEF Labels
      <4>3. Same(p) /\ \/ c.k = 0 /\ d.pc = "routes" /\ d.k = 1
                       \/ c.k = 1 /\ d.pc = "lo" /\ d.k = 0
        BY <4>1, <4>2, <1>a, NextingTun
      <4> QED
        BY <4>1, <4>3, <3>1
    <3>2. CASE "p2p" \notin TunOf(p)
      BY <3>2, <1>11, <1>a, Going DEF LookupRoutes, At, Labels
    <3> QED
      BY <3>1, <3>2
  <2>2. Belongs(p)'
    BY <2>1, <1>a, Onward DEF SetUpOn, NoAddrOn, WorldOn, RoutesOn
  <2>3. /\ "p2p" \in TunOf(p) => "p2p" \in tun'[n][c.k]
        /\ c.k = 1 => "p2p" \in tun'[n][0]
    BY <2>1, <1>a, <1>b DEF Progress, TunnelProgress, SetUpOn, RoutesOn, Keeps, TunOf, Tun
  <2>4. TunnelProgress(p)'
    BY <2>1, <2>3, <1>10 DEF TunnelProgress, Same, Reached, Succeeded, At,
                             RoutesOn, ScanOn, WorldOn, ArpOn, Tun
  <2> QED
    BY <2>1, <2>2, <2>4, <1>c DEF SetUpOn, RoutesOn, WorldOn, ArpOn
<1>12. CASE AddP2PRoute(p)
  <2>1. CASE Fail(p)
    BY <2>1, <1>12, <1>a, Failing DEF AddP2PRoute, At
  <2>2. CASE ~Fail(p)
    <3>1. /\ c.pc = "addp2p" /\ Same(p)
          /\ \/ c.k = 0 /\ d.pc = "routes" /\ d.k = 1
             \/ c.k = 1 /\ d.pc = "lo" /\ d.k = 0
      BY <2>2, <1>12, <1>a, NextingTun DEF AddP2PRoute, At, Labels
    <3>2. Belongs(p)'
      BY <3>1, <1>a, Onward DEF SetUpOn, NoAddrOn, WorldOn, RoutesOn
    <3>3. "p2p" \in tun'[n][c.k]
      BY <2>2, <3>1, <1>12, <1>a, <1>b DEF AddP2PRoute, GiveTun, TypeOK, SetUpOn, RoutesOn
    <3>4. c.k = 1 => "p2p" \in tun'[n][0]
      BY <3>1, <1>b DEF Progress, TunnelProgress, SetUpOn, RoutesOn, Keeps, Tun
    <3>5. TunnelProgress(p)'
      BY <3>1, <3>3, <3>4, <1>10 DEF TunnelProgress, Same, Reached, Succeeded, At,
                                     RoutesOn, ScanOn, WorldOn, ArpOn, Tun
    <3> QED
      BY <3>1, <3>2, <3>5, <1>c DEF SetUpOn, RoutesOn, WorldOn, ArpOn
  <2> QED
    BY <2>1, <2>2
<1>13. CASE LoopbackUp(p)
  <2>1. c.pc = "lo" /\ d.pc = "scan" /\ Same(p)
    BY <1>13, <1>a, Going DEF LoopbackUp, At, Labels
  <2>2. Belongs(p)'
    BY <2>1, <1>a, Onward DEF SetUpOn, NoAddrOn, WorldOn, RoutesOn, ScanOn
  <2>3. "lo" \in base'[n]
    BY <2>1, <1>13, <1>a, <1>b DEF LoopbackUp, GiveBase, TypeOK, SetUpOn, RoutesOn
  <2>4. \A j \in Tun : "p2p" \in tun'[n][j]
    BY <2>1, <1>b DEF Progress, TunnelProgress, Reached, SetUpOn, RoutesOn, Keeps
  <2>5. TunnelProgress(p)'
    BY <2>1, <2>3, <2>4, <1>10 DEF TunnelProgress, Same, Reached, Succeeded, At,
                                   RoutesOn, ScanOn, WorldOn, ArpOn
  <2> QED
    BY <2>1, <2>2, <2>5, <1>c DEF SetUpOn, RoutesOn, ScanOn, WorldOn, ArpOn
<1> QED
  BY <1>1, <1>2, <1>3, <1>4, <1>5, <1>6, <1>7, <1>8, <1>9, <1>11, <1>12, <1>13 DEF Tunnel

(* The connection to the bridge, and the ARP entries.                      *)
LEMMA StaysSetUp ==
  ASSUME NEW p \in Proc, TypeOK, Belongs(p), TunnelProgress(p), Same(p),
         cmd[p].pc \in ScanOn, cmd'[p].pc \in ScanOn \cup {"ok"},
         Keeps(cmd[p].ns)
  PROVE  TunnelProgress(p)'
<1>1. /\ \A j \in Tun : {"rule", "p2p"} \subseteq tun[cmd[p].ns][j]
      /\ "lo" \in base[cmd[p].ns]
  BY DEF TunnelProgress, Reached, RoutesOn
<1>2. /\ \A j \in Tun : {"rule", "p2p"} \subseteq tun'[cmd[p].ns][j]
      /\ "lo" \in base'[cmd[p].ns]
  BY <1>1 DEF Keeps
<1> QED
  BY <1>2 DEF TunnelProgress, Same, At, RoutesOn, ScanOn, WorldOn, ArpOn

LEMMA WorldStep ==
  ASSUME NEW p \in Proc, TypeOK, Progress(p), World(p) \/ SetArp(p),
         cmd[p].ns \in NsId => Keeps(cmd[p].ns)
  PROVE  Progress(p)'
<1> DEFINE c == cmd[p]  d == cmd'[p]  n == cmd[p].ns
<1>a. cmd \in [Proc -> CommandState] /\ Belongs(p) /\ TunnelProgress(p) /\ WorldProgress(p)
  BY DEF TypeOK, Progress
<1>b. c.pc \in ScanOn
  BY DEF World, ListNetns, OpenListed, QueryListed, PickAddress, LookupBridge, AddBridge,
         BridgeAddr, BridgeUp, BridgeNat, AddVeth, WethAddr, WethUp, AttachPeer, AddGateway, SetArp, At, ScanOn, WorldOn, ArpOn
<1>c. n \in NsId /\ c.env \in Env /\ c.pc # "idle" /\ Keeps(n)
  BY <1>a, <1>b DEF Belongs, Reached, SetUpOn, RoutesOn, ScanOn, WorldOn, ArpOn
<1>d. ASSUME Same(p), d.pc \in WorldOn, c.pc \in WorldOn, WorldProgress(p)'
      PROVE  Progress(p)'
  <2>1. Belongs(p)'
    BY <1>d, <1>a, Onward DEF Belongs, SetUpOn, RoutesOn, ScanOn, NoAddrOn, WorldOn
  <2> QED
    BY <2>1, <1>a, <1>b, <1>c, <1>d, StaysSetUp DEF Progress, ScanOn
<1>e. ASSUME Same(p), d.pc \in {"arp", "ok"}, WorldProgress(p)'
      PROVE  Progress(p)'
  <2>1. Belongs(p)'
    BY <1>e, <1>c DEF Belongs, Same, At, NoAddrOn, WorldOn
  <2> QED
    BY <2>1, <1>a, <1>b, <1>c, <1>e, StaysSetUp DEF Progress, ScanOn, ArpOn
<1>f. ASSUME Same(p), d.pc = AfterWorld(p), c.addr # 0 => Connected(n)'
      PROVE  Progress(p)'
  <2>1. d.pc \in {"arp", "ok"} /\ (d.pc = "ok" => d.cfg # "tap")
    BY <1>f DEF AfterWorld, Same
  <2>2. WorldProgress(p)'
    BY <2>1, <1>f DEF WorldProgress, Same, Succeeded, At, Connected
  <2> QED
    BY <2>1, <2>2, <1>e, <1>f
<1>1. CASE PickAddress(p)
  <2>1. /\ d.ns = n /\ d.env = c.env /\ d.cfg = c.cfg /\ d.op = c.op /\ c.pc = "open"
        /\ \/ d.pc = AfterWorld(p) /\ d.addr = c.addr
           \/ d.pc = "bridge" /\ d.addr \in Addr
    BY <1>1, Picks
  <2>2. c.addr = 0
    BY <2>1, <1>a DEF Belongs, NoAddrOn
  <2>3. CASE d.pc = AfterWorld(p) /\ d.addr = c.addr
    BY <2>1, <2>2, <2>3, <1>f DEF Same
  <2>4. CASE d.pc = "bridge" /\ d.addr \in Addr
    <3>1. d.addr # 0
      BY <2>4, NetEnvAssumption DEF Addr
    <3>2. Belongs(p)'
      BY <2>1, <2>4, <3>1, <1>c DEF Belongs, NoAddrOn, At
    <3>3. /\ \A j \in Tun : {"rule", "p2p"} \subseteq tun'[n][j]
          /\ "lo" \in base'[n]
      BY <1>a, <1>b, <1>c DEF TunnelProgress, Reached, RoutesOn, Keeps
    <3>4. TunnelProgress(p)'
      BY <2>1, <2>4, <3>3 DEF TunnelProgress, At
    <3>5. WorldProgress(p)'
      BY <2>4 DEF WorldProgress, Reached, Succeeded, At, ArpOn
    <3> QED
      BY <3>2, <3>4, <3>5 DEF Progress
  <2> QED
    BY <2>1, <2>3, <2>4
<1>10. CASE ListNetns(p) \/ OpenListed(p) \/ QueryListed(p)
  <2>1. CASE Fail(p)
    BY <2>1, <1>a, <1>c, Failing
  <2>2. CASE ~Fail(p)
    <3>1. /\ Same(p) /\ c.pc \in {"scan", "open", "query"} /\ d.pc \in {"open", "query"}
          /\ d.pc = "query" => d.look \in NsId
      BY <1>10, <1>a, <2>2, Scans
    <3>2. Belongs(p)'
      BY <3>1, <1>a, Onward DEF SetUpOn, RoutesOn, ScanOn, NoAddrOn, WorldOn
    <3>3. TunnelProgress(p)'
      BY <3>1, <1>a, <1>b, <1>c, StaysSetUp DEF ScanOn
    <3> QED
      BY <3>1, <3>2, <3>3, BeforeWorld DEF Progress, SetUpOn, RoutesOn, ScanOn, WorldOn, ArpOn
  <2> QED
    BY <2>1, <2>2
<1>2. CASE LookupBridge(p) \/ BridgeAddr(p) \/ BridgeUp(p) \/ BridgeNat(p)
  <2>1. /\ Same(p) /\ c.pc \in WorldOn
        /\ d.pc \in {"veth", "addbridge", "bridgeup", "bridgenat"}
    BY <1>2, <1>a, Going DEF LookupBridge, BridgeAddr, BridgeUp, BridgeNat, At, Labels, WorldOn
  <2>2. WorldProgress(p)'
    BY <2>1 DEF WorldProgress, Reached, Succeeded, At, ArpOn
  <2> QED
    BY <2>1, <2>2, <1>d DEF WorldOn
<1>3. CASE AddBridge(p)
  <2>1. CASE Fail(p)
    BY <2>1, <1>a, <1>c, Failing
  <2>2. CASE ~Fail(p)
    <3>1. Same(p) /\ c.pc = "addbridge" /\ d.pc = "bridgeaddr"
      BY <2>2, <1>3, <1>a, Going DEF AddBridge, At, Labels
    <3>2. WorldProgress(p)'
      BY <3>1 DEF WorldProgress, Reached, Succeeded, At, ArpOn
    <3> QED
      BY <3>1, <3>2, <1>d DEF WorldOn
  <2> QED
    BY <2>1, <2>2
<1>4. CASE AddVeth(p)
  <2>1. CASE Fail(p)
    BY <2>1, <1>a, <1>c, Failing
  <2>2. CASE ~Fail(p)
    <3>1. Same(p) /\ c.pc = "veth" /\ d.pc = "wethaddr"
      BY <2>2, <1>4, <1>a, Going DEF AddVeth, At, Labels
    <3>2. WorldProgress(p)'
      BY <3>1 DEF WorldProgress, Reached, Succeeded, At, ArpOn
    <3> QED
      BY <3>1, <3>2, <1>d DEF WorldOn
  <2> QED
    BY <2>1, <2>2
<1>5. CASE WethAddr(p)
  <2>1. CASE Fail(p)
    BY <2>1, <1>a, <1>c, Failing
  <2>2. CASE ~Fail(p)
    <3>1. Same(p) /\ c.pc = "wethaddr" /\ d.pc = "wethup" /\ c.addr # 0
      BY <2>2, <1>5, <1>a, Going DEF WethAddr, At, Labels, Belongs, WorldOn
    <3>2. "weth" \in base'[n] /\ waddr'[n] # 0
      BY <2>2, <3>1, <1>5, <1>c DEF WethAddr, GiveBase, TypeOK
    <3>3. WorldProgress(p)'
      BY <3>1, <3>2 DEF WorldProgress, Same, Reached, Succeeded, At, ArpOn
    <3> QED
      BY <3>1, <3>3, <1>d DEF WorldOn
  <2> QED
    BY <2>1, <2>2
<1>6. CASE WethUp(p)
  <2>1. Same(p) /\ c.pc = "wethup" /\ d.pc = "attach"
    BY <1>6, <1>a, Going DEF WethUp, At, Labels
  <2>2. {"weth", "wup"} \subseteq base'[n] /\ waddr'[n] # 0
    BY <2>1, <1>6, <1>a, <1>c DEF WethUp, GiveBase, TypeOK, WorldProgress, Keeps
  <2>3. WorldProgress(p)'
    BY <2>1, <2>2 DEF WorldProgress, Same, Reached, Succeeded, At, ArpOn
  <2> QED
    BY <2>1, <2>3, <1>d DEF WorldOn
<1>7. CASE AttachPeer(p)
  <2>1. Same(p) /\ c.pc = "attach" /\ d.pc = "gateway"
    BY <1>7, <1>a, Going DEF AttachPeer, At, Labels
  <2>2. {"weth", "wup", "master"} \subseteq base'[n] /\ waddr'[n] # 0
    BY <2>1, <1>7, <1>a, <1>c DEF AttachPeer, GiveBase, TypeOK, WorldProgress, Keeps
  <2>3. WorldProgress(p)'
    BY <2>1, <2>2 DEF WorldProgress, Same, Reached, Succeeded, At, ArpOn
  <2> QED
    BY <2>1, <2>3, <1>d DEF WorldOn
<1>8. CASE AddGateway(p)
  <2>1. Same(p) /\ c.pc = "gateway" /\ d.pc = AfterWorld(p)
    BY <1>8, <1>a, Going DEF AddGateway, At, AfterWorld, Labels
  <2>2. Connected(n)'
    <3>1. {"weth", "wup", "master", "gw"} \subseteq base'[n] /\ waddr'[n] # 0
      BY <2>1, <1>8, <1>a, <1>c DEF AddGateway, GiveBase, TypeOK, WorldProgress, At, Keeps
    <3> QED
      BY <2>1, <3>1 DEF Same, Connected
  <2> QED
    BY <2>1, <2>2, <1>f
<1>9. CASE SetArp(p)
  <2>1. CASE Fail(p)
    BY <2>1, <1>a, <1>c, Failing
  <2>2. CASE ~Fail(p)
    <3>1. Same(p) /\ c.pc = "arp" /\ d.pc = "ok" /\ bound' = bound
      BY <2>2, <1>9, <1>a, Going DEF SetArp, At, Labels, names
    <3>2. \A j \in Tun : "p2p" \in tun[n][j]
      BY <3>1, <1>a DEF TunnelProgress, Reached, ScanOn, ArpOn
    <3>3. bound[c.env] = n => \A j \in Tun : "arp" \in tun'[n][j]
      BY <2>2, <3>2, <1>9, <1>c, NetEnvAssumption DEF SetArp, TypeOK, Tun
    <3>4. c.addr # 0 => Connected(n)'
      BY <3>1, <1>a, <1>c DEF WorldProgress, Reached, ArpOn, Connected, Keeps, Same
    <3>5. WorldProgress(p)'
      BY <3>1, <3>3, <3>4 DEF WorldProgress, Same, At, Connected
    <3> QED
      BY <3>1, <3>5, <1>e
  <2> QED
    BY <2>1, <2>2
<1> QED
  BY <1>1, <1>2, <1>3, <1>4, <1>5, <1>6, <1>7, <1>8, <1>9, <1>10 DEF World

(* The commands outside of the set-up.                                     *)
LEMMA CommandStep ==
  ASSUME NEW p \in Proc, TypeOK, Progress(p),
         \/ Issue(p) \/ Return(p) \/ Die(p) \/ Create(p) \/ StartCheck(p) \/ LoadConfig(p)
         \/ Delete(p) \/ Run(p)
  PROVE  Progress(p)'
<1> DEFINE c == cmd[p]  d == cmd'[p]
<1>a. cmd \in [Proc -> CommandState] /\ c \in CommandState /\ Belongs(p)
  BY DEF TypeOK, Progress
<1>b. ASSUME d.pc \notin SetUpOn, d.pc = "ok" => d.op \notin {"create", "start"}, Belongs(p)'
      PROVE  Progress(p)'
  BY <1>b, OutOfSetUp DEF Succeeded, At, Progress
<1>c. ASSUME Same(p), c.pc \notin {"idle", "ok"}, c.pc \notin SetUpOn,
             d.pc \in {"exists", "failed", "mkdir", "copy", "logs", "load", "remove", "rmtree",
                       "loadrun", "running", "ok", "netns"},
             d.pc \in {"mkdir", "copy", "logs", "load", "netns"} => c.pc \in NoAddrOn,
             d.pc \in {"remove", "rmtree"} => c.op = "delete",
             d.pc \in {"loadrun", "running"} => c.op = "run",
             d.pc = "ok" => c.op \notin {"create", "start"}
      PROVE  Progress(p)'
  <2>1. Belongs(p)'
    BY <1>c, <1>a DEF Belongs, Same, Reached, Succeeded, At, NoAddrOn,
                      SetUpOn, RoutesOn, ScanOn, WorldOn, ArpOn
  <2> QED
    BY <2>1, <1>c, <1>b DEF Same, SetUpOn, RoutesOn, ScanOn, WorldOn, ArpOn
<1>1. CASE Issue(p)
  <2>1. PICK op \in Ops, e \in Env, x \in ConfigKind :
          cmd' = [cmd EXCEPT ![p] = [Idle EXCEPT !.op = op, !.pc = op, !.env = e, !.cfg = x]]
    BY <1>1, NetEnvAssumption DEF Issue, ConfigKind
  <2>2. /\ d.op = op /\ d.pc = op /\ d.env = e /\ d.addr = 0
        /\ op \in {"create", "start", "delete", "run"}
    BY <2>1, <1>a, NetEnvAssumption DEF Idle, Commands
  <2>3. Belongs(p)'
    BY <2>2 DEF Belongs, Reached, Succeeded, At, SetUpOn, RoutesOn, ScanOn, WorldOn, ArpOn
  <2> QED
    BY <2>2, <2>3, <1>b DEF SetUpOn, RoutesOn, ScanOn, WorldOn, ArpOn
<1>2. CASE Return(p) \/ Die(p)
  <2>1. d = Idle
    BY <1>2, <1>a DEF Return, Die
  <2>2. d.pc = "idle" /\ d.addr = 0
    BY <2>1 DEF Idle
  <2>3. Belongs(p)'
    BY <2>2 DEF Belongs, Reached, Succeeded, At, SetUpOn, RoutesOn, ScanOn, WorldOn, ArpOn
  <2> QED
    BY <2>2, <2>3, <1>b DEF SetUpOn, RoutesOn, ScanOn, WorldOn, ArpOn
<1>3. CASE Create(p) \/ StartCheck(p)
  <2>1. /\ Same(p) /\ c.pc \in {"create", "mkdir", "copy", "logs", "start"}
        /\ d.pc \in {"exists", "failed", "mkdir", "copy", "logs", "load"}
    BY <1>3, <1>a, Going DEF Create, CreateCheck, MakeFolder, CopyConfig, MakeLogs, StartCheck,
                             Fail, At, Labels
  <2> QED
    BY <2>1, <1>c DEF NoAddrOn, SetUpOn, RoutesOn, ScanOn, WorldOn, ArpOn
<1>4. CASE LoadConfig(p)
  <2>1. CASE Fail(p)
    BY <2>1, <1>4, <1>a, Failing DEF LoadConfig, At
  <2>2. CASE ~Fail(p)
    <3>1. PICK x \in ConfigKind : cmd' = [cmd EXCEPT ![p] = [c EXCEPT !.cfg = x, !.pc = "netns"]]
      BY <2>2, <1>4 DEF LoadConfig, ConfigKind
    <3>2. /\ c.pc = "load" /\ d.pc = "netns" /\ d.env = c.env /\ d.addr = c.addr
      BY <1>4, <3>1, <1>a DEF LoadConfig, At, CommandState
    <3>3. Belongs(p)'
      BY <3>2, <1>a DEF Belongs, Reached, Succeeded, At, NoAddrOn,
                        SetUpOn, RoutesOn, ScanOn, WorldOn, ArpOn
    <3> QED
      BY <3>2, <3>3, <1>b DEF SetUpOn, RoutesOn, ScanOn, WorldOn, ArpOn
  <2> QED
    BY <2>1, <2>2
<1>5. CASE Delete(p)
  <2>1. /\ Same(p) /\ c.pc \in {"delete", "remove", "rmtree"}
        /\ d.pc \in {"failed", "remove", "rmtree", "ok"}
    BY <1>5, <1>a, Going DEF Delete, DeleteCheck, RemoveNetns, RemoveFolder, Fail, At, Labels
  <2> QED
    BY <2>1, <1>a, <1>c DEF Belongs, SetUpOn, RoutesOn, ScanOn, WorldOn, ArpOn
<1>6. CASE EnterNetns(p)
  <2>1. CASE Fail(p)
    BY <2>1, <1>6, <1>a, Failing DEF EnterNetns, At
  <2>2. CASE ~Fail(p)
    <3>1. cmd' = [cmd EXCEPT ![p] = [c EXCEPT !.ns = bound[c.env], !.pc = "loadrun"]]
      BY <2>2, <1>6 DEF EnterNetns
    <3>2. c.pc = "run" /\ d.pc = "loadrun" /\ d.env = c.env /\ d.op = c.op
      BY <1>6, <3>1, <1>a DEF EnterNetns, At, CommandState
    <3>3. Belongs(p)'
      BY <3>2, <1>a DEF Belongs, Reached, Succeeded, At, NoAddrOn,
                        SetUpOn, RoutesOn, ScanOn, WorldOn, ArpOn
    <3> QED
      BY <3>2, <3>3, <1>b DEF SetUpOn, RoutesOn, ScanOn, WorldOn, ArpOn
  <2> QED
    BY <2>1, <2>2
<1>7. CASE LoadRunConfig(p) \/ FinishRun(p)
  <2>1. /\ Same(p) /\ c.pc \in {"loadrun", "running"}
        /\ d.pc \in {"failed", "running", "ok"}
    BY <1>7, <1>a, Going DEF LoadRunConfig, FinishRun, At, Labels
  <2> QED
    BY <2>1, <1>a, <1>c DEF Belongs, SetUpOn, RoutesOn, ScanOn, WorldOn, ArpOn
<1> QED
  BY <1>1, <1>2, <1>3, <1>4, <1>5, <1>6, <1>7 DEF Run

-----------------------------------------------------------------------------
(* What a step of one process leaves of the progress of the others.        *)

LEMMA StepKeeps ==
  ASSUME NEW p \in Proc, TypeOK, Belongs(p), Step(p), NEW n \in NsId, home[n] # NoEnv
  PROVE  Keeps(n)
<1> USE DEF Keeps, names, inside, TypeOK
<1>1. CASE Issue(p) \/ Return(p) \/ Die(p) \/ Create(p) \/ StartCheck(p) \/ LoadConfig(p)
  BY <1>1 DEF Issue, Return, Die, Create, CreateCheck, MakeFolder, CopyConfig, MakeLogs,
              StartCheck, LoadConfig
<1>2. CASE OpenNetns(p)
  BY <1>2 DEF OpenNetns
<1>3. CASE LookupLink(p) \/ LookupRules(p) \/ LookupRoutes(p) \/ FlushLocal(p)
  BY <1>3 DEF LookupLink, LookupRules, LookupRoutes, FlushLocal
<1>4. CASE \/ AddLink(p) \/ AddAddr(p) \/ LinkUp(p) \/ AddLocalRoute(p)
           \/ AddRule(p) \/ AddP2PRoute(p)
  BY <1>4 DEF AddLink, AddAddr, LinkUp, AddLocalRoute, AddRule, AddP2PRoute, GiveTun
<1>5. CASE LoopbackUp(p) \/ WethUp(p) \/ AttachPeer(p) \/ AddGateway(p)
  BY <1>5 DEF LoopbackUp, WethUp, AttachPeer, AddGateway, GiveBase
<1>6. CASE \/ ListNetns(p) \/ OpenListed(p) \/ QueryListed(p) \/ PickAddress(p)
           \/ LookupBridge(p) \/ AddBridge(p) \/ BridgeAddr(p) \/ BridgeUp(p) \/ BridgeNat(p)
  BY <1>6 DEF ListNetns, OpenListed, QueryListed, PickAddress, LookupBridge, AddBridge, BridgeAddr, BridgeUp, BridgeNat
<1>7. CASE AddVeth(p)
  BY <1>7 DEF AddVeth
<1>8. CASE WethAddr(p)
  <2>1. cmd[p].addr # 0
    BY <1>8 DEF WethAddr, At, Belongs, WorldOn
  <2> QED
    BY <1>8, <2>1 DEF WethAddr, GiveBase
<1>9. CASE SetArp(p)
  BY <1>9 DEF SetArp
<1>10. CASE Delete(p) \/ Run(p)
  BY <1>10 DEF Delete, DeleteCheck, RemoveNetns, RemoveFolder,
               Run, EnterNetns, LoadRunConfig, FinishRun
<1> QED
  BY <1>1, <1>2, <1>3, <1>4, <1>5, <1>6, <1>7, <1>8, <1>9, <1>10 DEF Step, Tunnel, World

LEMMA StepOfOne ==
  ASSUME NEW p \in Proc, TypeOK, Step(p), NEW q \in Proc \ {p}
  PROVE  cmd'[q] = cmd[q]
<1> USE DEF TypeOK, Goto, GotoTun, NextTun, Fail
<1>1. CASE Issue(p) \/ Return(p) \/ Die(p) \/ Create(p) \/ StartCheck(p) \/ LoadConfig(p)
  BY <1>1 DEF Issue, Return, Die, Create, CreateCheck, MakeFolder, CopyConfig, MakeLogs,
              StartCheck, LoadConfig
<1>2. CASE OpenNetns(p) \/ ListNetns(p) \/ OpenListed(p) \/ QueryListed(p) \/ PickAddress(p)
  BY <1>2 DEF OpenNetns, ListNetns, OpenListed, QueryListed, PickAddress
<1>3. CASE LookupLink(p) \/ LookupRules(p) \/ LookupRoutes(p) \/ FlushLocal(p)
  BY <1>3 DEF LookupLink, LookupRules, LookupRoutes, FlushLocal
<1>4. CASE \/ AddLink(p) \/ AddAddr(p) \/ LinkUp(p) \/ AddLocalRoute(p)
           \/ AddRule(p) \/ AddP2PRoute(p)
  BY <1>4 DEF AddLink, AddAddr, LinkUp, AddLocalRoute, AddRule, AddP2PRoute
<1>5. CASE LoopbackUp(p) \/ WethUp(p) \/ AttachPeer(p) \/ AddGateway(p)
  BY <1>5 DEF LoopbackUp, WethUp, AttachPeer, AddGateway
<1>6. CASE LookupBridge(p) \/ AddBridge(p) \/ BridgeAddr(p) \/ BridgeUp(p) \/ BridgeNat(p)
  BY <1>6 DEF LookupBridge, AddBridge, BridgeAddr, BridgeUp, BridgeNat
<1>7. CASE AddVeth(p) \/ WethAddr(p) \/ SetArp(p)
  BY <1>7 DEF AddVeth, WethAddr, SetArp
<1>8. CASE Delete(p) \/ Run(p)
  BY <1>8 DEF Delete, DeleteCheck, RemoveNetns, RemoveFolder,
              Run, EnterNetns, LoadRunConfig, FinishRun
<1> QED
  BY <1>1, <1>2, <1>3, <1>4, <1>5, <1>6, <1>7, <1>8 DEF Step, Tunnel, World

LEMMA OtherProgress ==
  ASSUME NEW q \in Proc, TypeOK, Progress(q), cmd'[q] = cmd[q],
         cmd[q].ns \in NsId => Keeps(cmd[q].ns),
         cmd[q].ns \in NsId /\ bound'[cmd[q].env] = cmd[q].ns => bound[cmd[q].env] = cmd[q].ns
  PROVE  Progress(q)'
<1>1. Belongs(q)'
  BY DEF Progress, Belongs, Reached, Succeeded, At
<1>2. TunnelProgress(q)'
  BY DEF Progress, Belongs, TunnelProgress, Reached, Succeeded, At, Keeps, TypeOK, CommandState,
         Tun, TunOf, SetUpOn, RoutesOn, ScanOn, WorldOn, ArpOn
<1>3. WorldProgress(q)'
  BY DEF Progress, Belongs, WorldProgress, Reached, Succeeded, At, Keeps, TypeOK, CommandState,
         Tun, Connected, SetUpOn, RoutesOn, ScanOn, WorldOn, ArpOn
<1> QED
  BY <1>1, <1>2, <1>3 DEF Progress

-----------------------------------------------------------------------------
(* Names and Ordered.                                                      *)

LEMMA StepNames ==
  ASSUME NEW p \in Proc, TypeOK, Names, Belongs(p), Step(p)
  PROVE  /\ Names'
         /\ \A e \in Env : \/ bound'[e] = bound[e] \/ bound'[e] = NoNs
                           \/ bound'[e] \in NsId /\ home[bound'[e]] = NoEnv
<1> USE NetEnvAssumption DEF Names, names
<1>a. cmd \in [Proc -> CommandState] /\ cmd[p] \in CommandState
  BY DEF TypeOK
<1>b. \A q \in Proc \ {p} : cmd'[q] = cmd[q]
  BY StepOfOne
<1>c. ASSUME home' = home, \A e \in Env : bound'[e] \in {bound[e], NoNs},
             cmd'[p].ns # NoNs => cmd'[p].ns = cmd[p].ns /\ cmd'[p].env = cmd[p].env
      PROVE  /\ Names'
             /\ \A e \in Env : \/ bound'[e] = bound[e] \/ bound'[e] = NoNs
                               \/ bound'[e] \in NsId /\ home[bound'[e]] = NoEnv
  BY <1>b, <1>c
<1>1. CASE OpenNetns(p)
  <2>1. cmd[p].env \in Env
    BY <1>1 DEF OpenNetns, At, Belongs
  <2>2. CASE bound[cmd[p].env] # NoNs
    <3>1. cmd' = [cmd EXCEPT ![p] = [cmd[p] EXCEPT !.ns = bound[cmd[p].env], !.pc = "lookup"]]
      BY <1>1, <2>2 DEF OpenNetns
    <3>2. cmd'[p].ns = bound[cmd[p].env] /\ cmd'[p].env = cmd[p].env
      BY <3>1, <1>a DEF CommandState
    <3>3. bound' = bound /\ home' = home
      BY <1>1, <2>2 DEF OpenNetns
    <3> QED
      BY <3>2, <3>3, <2>1, <2>2, <1>b
  <2>3. CASE bound[cmd[p].env] = NoNs
    <3>1. PICK m \in NsId :
            /\ home[m] = NoEnv
            /\ home' = [home EXCEPT ![m] = cmd[p].env]
            /\ bound' = [bound EXCEPT ![cmd[p].env] = m]
            /\ cmd' = [cmd EXCEPT ![p] = [cmd[p] EXCEPT !.ns = m, !.fresh = TRUE, !.pc = "lookup"]]
      BY <1>1, <2>3, ZenonT(30) DEF OpenNetns
    <3>2. cmd'[p].ns = m /\ cmd'[p].env = cmd[p].env
      BY <3>1, <1>a DEF CommandState
    <3>3. \A e \in Env : bound'[e] # NoNs => home'[bound'[e]] = e
      BY <3>1, <2>1 DEF TypeOK
    <3>4. \A q \in Proc : cmd'[q].ns # NoNs =>
            cmd'[q].env \in Env /\ home'[cmd'[q].ns] = cmd'[q].env
      <4> TAKE q \in Proc
      <4>1. CASE q = p
        BY <4>1, <3>1, <3>2, <2>1 DEF TypeOK
      <4>2. CASE q # p
        <5>1. cmd[q].ns \in NsId \cup {NoNs}
          BY DEF TypeOK, CommandState
        <5>2. cmd'[q] = cmd[q]
          BY <4>2, <1>b
        <5> QED
          BY <5>1, <5>2, <3>1 DEF TypeOK
      <4> QED
        BY <4>1, <4>2
    <3> QED
      BY <3>1, <3>3, <3>4, <2>1 DEF TypeOK
  <2> QED
    BY <2>2, <2>3
<1>2. CASE Issue(p) \/ Return(p) \/ Die(p)
  <2>1. cmd'[p].ns = NoNs
    <3>1. CASE Issue(p)
      <4>1. PICK op \in Ops, e \in Env, x \in ConfigKind :
              cmd' = [cmd EXCEPT ![p] = [Idle EXCEPT !.op = op, !.pc = op, !.env = e, !.cfg = x]]
        BY <3>1 DEF Issue, ConfigKind
      <4> QED
        BY <4>1, <1>a DEF Idle
    <3>2. CASE Return(p) \/ Die(p)
      BY <3>2, <1>a DEF Return, Die, Idle
    <3> QED
      BY <1>2, <3>1, <3>2
  <2>2. bound' = bound /\ home' = home
    BY <1>2 DEF Issue, Return, Die
  <2> QED
    BY <2>1, <2>2, <1>c
<1>3. CASE EnterNetns(p)
  <2>1. bound' = bound /\ home' = home /\ cmd[p].env \in Env
    BY <1>3 DEF EnterNetns, At, Belongs
  <2>2. CASE Fail(p)
    BY <2>1, <2>2, <1>a, <1>c, Going DEF Fail, Same, Labels
  <2>3. CASE ~Fail(p)
    <3>1. /\ bound[cmd[p].env] # NoNs
          /\ cmd' = [cmd EXCEPT ![p] = [cmd[p] EXCEPT !.ns = bound[cmd[p].env], !.pc = "loadrun"]]
      BY <1>3, <2>3 DEF EnterNetns
    <3>2. cmd'[p].ns = bound[cmd[p].env] /\ cmd'[p].env = cmd[p].env
      BY <3>1, <1>a DEF CommandState
    <3> QED
      BY <3>1, <3>2, <2>1, <1>b
  <2> QED
    BY <2>2, <2>3
<1>4. CASE LoadConfig(p)
  <2>1. bound' = bound /\ home' = home
    BY <1>4 DEF LoadConfig
  <2>2. cmd'[p].ns = cmd[p].ns /\ cmd'[p].env = cmd[p].env
    <3>1. CASE Fail(p)
      BY <3>1, <1>a, Going DEF Fail, Same, Labels
    <3>2. CASE ~Fail(p)
      <4>1. PICK x \in ConfigKind :
              cmd' = [cmd EXCEPT ![p] = [cmd[p] EXCEPT !.cfg = x, !.pc = "netns"]]
        BY <3>2, <1>4 DEF LoadConfig, ConfigKind
      <4> QED
        BY <4>1, <1>a DEF CommandState
    <3> QED
      BY <3>1, <3>2
  <2> QED
    BY <2>1, <2>2, <1>c
<1>5. CASE ListNetns(p) \/ OpenListed(p) \/ QueryListed(p) \/ PickAddress(p)
  <2>1. bound' = bound /\ home' = home
    BY <1>5 DEF ListNetns, OpenListed, QueryListed, PickAddress
  <2>2. cmd'[p].ns = cmd[p].ns /\ cmd'[p].env = cmd[p].env
    BY <1>5, Scans, Picks DEF Same
  <2> QED
    BY <2>1, <2>2, <1>c
<1>6. CASE RemoveNetns(p)
  <2>1. Same(p)
    BY <1>6, <1>a, Going DEF RemoveNetns, Fail, Labels
  <2>2. home' = home /\ \A e \in Env : bound'[e] \in {bound[e], NoNs}
    BY <1>6 DEF RemoveNetns, TypeOK
  <2> QED
    BY <2>1, <2>2, <1>c DEF Same
<1>7. CASE \/ Create(p) \/ StartCheck(p) \/ DeleteCheck(p) \/ RemoveFolder(p)
           \/ LoadRunConfig(p) \/ FinishRun(p)
  <2>1. Same(p)
    BY <1>7, <1>a, Going DEF Create, CreateCheck, MakeFolder, CopyConfig, MakeLogs, StartCheck,
       DeleteCheck, RemoveFolder, LoadRunConfig, FinishRun, Fail, Labels
  <2>2. bound' = bound /\ home' = home
    BY <1>7 DEF Create, CreateCheck, MakeFolder, CopyConfig, MakeLogs, StartCheck,
       DeleteCheck, RemoveFolder, LoadRunConfig, FinishRun
  <2> QED
    BY <2>1, <2>2, <1>c DEF Same
<1>8. CASE \/ LookupLink(p) \/ AddLink(p) \/ AddAddr(p) \/ LinkUp(p) \/ FlushLocal(p)
           \/ LookupRules(p) \/ AddLocalRoute(p) \/ AddRule(p)
           \/ LookupRoutes(p) \/ AddP2PRoute(p) \/ LoopbackUp(p)
  <2>1. Same(p)
    <3>1. CASE LookupLink(p) \/ AddLink(p) \/ AddAddr(p) \/ LinkUp(p) \/ FlushLocal(p)
      BY <3>1, <1>a, Going, NextingTun DEF LookupLink, AddLink, AddAddr, LinkUp, FlushLocal,
         Fail, Labels
    <3>2. CASE LookupRules(p) \/ AddLocalRoute(p) \/ AddRule(p)
      BY <3>2, <1>a, Going, NextingTun DEF LookupRules, AddLocalRoute, AddRule, Fail, Labels
    <3>3. CASE LookupRoutes(p) \/ AddP2PRoute(p) \/ LoopbackUp(p)
      BY <3>3, <1>a, Going, NextingTun DEF LookupRoutes, AddP2PRoute, LoopbackUp, Fail, Labels
    <3> QED
      BY <1>8, <3>1, <3>2, <3>3
  <2>2. bound' = bound /\ home' = home
    BY <1>8 DEF LookupLink, AddLink, AddAddr, LinkUp, FlushLocal, LookupRules, AddLocalRoute,
       AddRule, LookupRoutes, AddP2PRoute, LoopbackUp
  <2> QED
    BY <2>1, <2>2, <1>c DEF Same
<1>9. CASE \/ LookupBridge(p) \/ AddBridge(p) \/ BridgeAddr(p) \/ BridgeUp(p) \/ BridgeNat(p)
           \/ AddVeth(p) \/ WethAddr(p) \/ WethUp(p) \/ AttachPeer(p) \/ AddGateway(p) \/ SetArp(p)
  <2>1. Same(p)
    <3>1. CASE LookupBridge(p) \/ AddBridge(p) \/ BridgeAddr(p) \/ BridgeUp(p) \/ BridgeNat(p)
      BY <3>1, <1>a, Going DEF LookupBridge, AddBridge, BridgeAddr, BridgeUp, BridgeNat, Fail, Labels
    <3>2. CASE AddVeth(p) \/ WethAddr(p) \/ WethUp(p) \/ AttachPeer(p) \/ AddGateway(p) \/ SetArp(p)
      BY <3>2, <1>a, Going DEF AddVeth, WethAddr, WethUp, AttachPeer, AddGateway, SetArp, AfterWorld,
         Fail, Labels
    <3> QED
      BY <1>9, <3>1, <3>2
  <2>2. bound' = bound /\ home' = home
    BY <1>9 DEF LookupBridge, AddBridge, BridgeAddr, BridgeUp, BridgeNat,
       AddVeth, WethAddr, WethUp, AttachPeer, AddGateway, SetArp
  <2> QED
    BY <2>1, <2>2, <1>c DEF Same
<1> QED
  BY <1>1, <1>2, <1>3, <1>4, <1>5, <1>6, <1>7, <1>8, <1>9 DEF Step, Tunnel, World, Delete, Run

LEMMA StepOrdered ==
  ASSUME NEW p \in Proc, TypeOK, Ordered, Progress(p), Step(p)
  PROVE  Ordered'
<1> DEFINE c == cmd[p]  n == cmd[p].ns
<1> USE DEF Ordered
<1>a. c \in CommandState /\ c.k \in Tun
  BY DEF TypeOK, CommandState
<1>b. c.pc \in SetUpOn => n \in NsId
  BY DEF Progress, Belongs, Reached
<1>c. ASSUME tun' = tun
      PROVE  Ordered'
  BY <1>c
<1>1. CASE \/ Issue(p) \/ Return(p) \/ Die(p) \/ Create(p) \/ StartCheck(p) \/ LoadConfig(p)
           \/ Delete(p) \/ Run(p)
  BY <1>1, <1>c DEF Issue, Return, Die, Create, CreateCheck, MakeFolder, CopyConfig, MakeLogs,
     StartCheck, LoadConfig, Delete, DeleteCheck, RemoveNetns, RemoveFolder,
     Run, EnterNetns, LoadRunConfig, FinishRun, inside
<1>2. CASE World(p)
  BY <1>2, <1>c DEF World, ListNetns, OpenListed, QueryListed, PickAddress, LookupBridge, AddBridge, BridgeAddr, BridgeUp, BridgeNat,
     AddVeth, WethAddr, WethUp, AttachPeer, AddGateway, inside
<1>3. CASE OpenNetns(p) \/ LookupLink(p) \/ LookupRules(p) \/ LookupRoutes(p) \/ LoopbackUp(p)
  BY <1>3, <1>c DEF OpenNetns, LookupLink, LookupRules, LookupRoutes, LoopbackUp, inside
<1>4. CASE FlushLocal(p)
  BY <1>4 DEF FlushLocal, TypeOK, InOrder
<1>5. CASE SetArp(p)
  <2>1. \A m \in NsId, j \in Tun : tun[m][j] \subseteq tun'[m][j]
                                   /\ tun'[m][j] \subseteq tun[m][j] \cup {"arp"}
    BY <1>5 DEF SetArp, TypeOK
  <2> QED
    BY <2>1 DEF InOrder
<1>d. ASSUME NEW S \in SUBSET TunFact, GiveTun(p, S), c.pc \in SetUpOn,
             InOrder(tun[n][c.k]) => InOrder(tun[n][c.k] \cup S)
      PROVE  Ordered'
  <2>1. \A m \in NsId, j \in Tun :
          tun'[m][j] = IF m = n /\ j = c.k THEN tun[n][c.k] \cup S ELSE tun[m][j]
    BY <1>a, <1>b, <1>d DEF GiveTun, TypeOK
  <2> QED
    BY <2>1, <1>a, <1>b, <1>d
<1>e. CASE tun' = tun
  BY <1>e, <1>c
<1>6. CASE AddLink(p)
  <2>1. CASE tun' # tun
    <3>1. c.pc \in SetUpOn /\ GiveTun(p, {"link"})
      BY <1>6, <2>1 DEF AddLink, At, SetUpOn
    <3> QED
      BY <3>1, <1>d DEF TunFact, InOrder
  <2> QED
    BY <2>1, <1>e
<1>7. CASE AddAddr(p)
  <2>1. "link" \in tun[n][c.k]
    BY <1>7 DEF AddAddr, At, Progress, TunnelProgress, TunOf
  <2>2. c.pc \in SetUpOn /\ GiveTun(p, {"addr", "dflt"})
    BY <1>7 DEF AddAddr, At, SetUpOn
  <2> QED
    BY <2>1, <2>2, <1>d DEF TunFact, InOrder
<1>8. CASE LinkUp(p)
  <2>1. {"link", "addr"} \subseteq tun[n][c.k]
    BY <1>8 DEF LinkUp, At, Progress, TunnelProgress, TunOf
  <2>2. c.pc \in SetUpOn /\ GiveTun(p, {"up", "dflt"})
    BY <1>8 DEF LinkUp, At, SetUpOn
  <2> QED
    BY <2>1, <2>2, <1>d DEF TunFact, InOrder
<1>9. CASE AddLocalRoute(p)
  <2>1. CASE tun' # tun
    <3>1. {"link", "addr"} \subseteq tun[n][c.k]
      BY <1>9 DEF AddLocalRoute, At, Progress, TunnelProgress, TunOf
    <3>2. c.pc \in SetUpOn /\ GiveTun(p, {"route"})
      BY <1>9, <2>1 DEF AddLocalRoute, At, SetUpOn
    <3> QED
      BY <3>1, <3>2, <1>d DEF TunFact, InOrder
  <2> QED
    BY <2>1, <1>e
<1>10. CASE AddRule(p)
  <2>1. "route" \in tun[n][c.k]
    BY <1>10 DEF AddRule, At, Progress, TunnelProgress, TunOf
  <2>2. c.pc \in SetUpOn /\ GiveTun(p, {"rule"})
    BY <1>10 DEF AddRule, At, SetUpOn
  <2> QED
    BY <2>1, <2>2, <1>d DEF TunFact, InOrder
<1>11. CASE AddP2PRoute(p)
  <2>1. CASE tun' # tun
    <3>1. c.pc \in SetUpOn /\ GiveTun(p, {"p2p"}) /\ "up" \in tun[n][c.k]
      BY <1>11, <2>1 DEF AddP2PRoute, At, SetUpOn, RoutesOn, TunOf
    <3> QED
      BY <3>1, <1>d DEF TunFact, InOrder
  <2> QED
    BY <2>1, <1>e
<1> QED
  BY <1>1, <1>2, <1>3, <1>4, <1>5, <1>6, <1>7, <1>8, <1>9, <1>10, <1>11 DEF Step, Tunnel

-----------------------------------------------------------------------------
(* The theorems.                                                           *)

LEMMA Initially == Init => IInv
<1> SUFFICES ASSUME Init PROVE IInv
  OBVIOUS
<1> USE DEF Init
<1>1. NoFolder \in FolderState
  BY DEF NoFolder, FolderState, ConfigKind
<1>2. TypeOK
  BY <1>1, IdleType, NetEnvAssumption DEF TypeOK
<1>3. Names
  BY NetEnvAssumption DEF Names, Idle
<1>4. Ordered
  BY DEF Ordered, InOrder
<1>5. ASSUME NEW p \in Proc
      PROVE  Progress(p)
  <2>1. cmd[p].pc = "idle" /\ cmd[p].op = "none" /\ cmd[p].addr = 0
    BY DEF Idle
  <2>2. Belongs(p)
    BY <2>1 DEF Belongs, Reached, Succeeded, At, SetUpOn, RoutesOn, ScanOn, WorldOn, ArpOn
  <2>3. TunnelProgress(p)
    BY <2>1 DEF TunnelProgress, Reached, Succeeded, At, RoutesOn, ScanOn, WorldOn, ArpOn
  <2>4. WorldProgress(p)
    BY <2>1 DEF WorldProgress, Reached, Succeeded, At, ArpOn
  <2> QED
    BY <2>2, <2>3, <2>4 DEF Progress
<1> QED
  BY <1>2, <1>3, <1>4, <1>5 DEF IInv

LEMMA StepInvariant ==
  ASSUME IInv, NEW p \in Proc, Step(p)
  PROVE  IInv'
<1> USE DEF IInv
<1>1. Belongs(p)
  BY DEF Progress
<1>2. TypeOK'
  BY <1>1, StepType
<1>3. Names'
  BY <1>1, StepNames
<1>4. Ordered'
  BY StepOrdered
<1>5. ASSUME NEW q \in Proc, cmd[q].ns \in NsId
      PROVE  home[cmd[q].ns] = cmd[q].env /\ cmd[q].env \in Env /\ Keeps(cmd[q].ns)
  <2>1. home[cmd[q].ns] = cmd[q].env /\ cmd[q].env \in Env
    BY <1>5, NetEnvAssumption DEF Names
  <2> QED
    BY <1>1, <1>5, <2>1, StepKeeps, NetEnvAssumption
<1>6. Progress(p)'
  BY <1>5, CommandStep, TunnelStep, WorldStep DEF Step
<1>7. ASSUME NEW q \in Proc \ {p}
      PROVE  Progress(q)'
  <2>1. cmd'[q] = cmd[q]
    BY StepOfOne
  <2>2. cmd[q].ns \in NsId /\ bound'[cmd[q].env] = cmd[q].ns => bound[cmd[q].env] = cmd[q].ns
    BY <1>1, <1>5, StepNames, NetEnvAssumption
  <2> QED
    BY <1>5, <2>1, <2>2, OtherProgress
<1> QED
  BY <1>2, <1>3, <1>4, <1>6, <1>7

(* A namespace that goes away is nobody's.                                 *)
LEMMA ReapInvariant ==
  ASSUME IInv, NEW n \in NsId, Reap(n)
  PROVE  IInv'
<1> USE DEF IInv
<1>1. /\ \A m \in NsId \ {n} : /\ home'[m] = home[m] /\ tun'[m] = tun[m]
                               /\ base'[m] = base[m] /\ waddr'[m] = waddr[m]
      /\ bound' = bound /\ cmd' = cmd
      /\ \A j \in Tun : tun'[n][j] = {}
  BY DEF Reap, TypeOK
<1>2. /\ \A e \in Env : bound[e] # n
      /\ \A p \in Proc : cmd[p].ns # n
  BY DEF Reap, Held
<1>3. TypeOK'
  BY NetEnvAssumption DEF Reap, TypeOK
<1>4. Names'
  BY <1>1, <1>2 DEF Names, TypeOK, CommandState
<1>5. Ordered'
  BY <1>1 DEF Ordered, InOrder
<1>6. ASSUME NEW p \in Proc
      PROVE  Progress(p)'
  <2>1. cmd[p].ns \in NsId => Keeps(cmd[p].ns)
    BY <1>1, <1>2 DEF Keeps
  <2> QED
    BY <1>1, <2>1, OtherProgress
<1> QED
  BY <1>3, <1>4, <1>5, <1>6

LEMMA RebootInvariant ==
  ASSUME IInv, Reboot
  PROVE  IInv'
<1> USE DEF Reboot
<1>1. TypeOK'
  BY IdleType, NetEnvAssumption DEF IInv, TypeOK
<1>2. Names'
  BY NetEnvAssumption DEF Names, Idle
<1>3. Ordered'
  BY DEF Ordered, InOrder
<1>4. ASSUME NEW p \in Proc
      PROVE  Progress(p)'
  <2>1. cmd'[p].pc = "idle" /\ cmd'[p].op = "none" /\ cmd'[p].addr = 0
    BY DEF Idle
  <2>2. Belongs(p)'
    BY <2>1 DEF Belongs, Reached, Succeeded, At, SetUpOn, RoutesOn, ScanOn, WorldOn, ArpOn
  <2>3. TunnelProgress(p)'
    BY <2>1 DEF TunnelProgress, Reached, Succeeded, At, RoutesOn, ScanOn, WorldOn, ArpOn
  <2>4. WorldProgress(p)'
    BY <2>1 DEF WorldProgress, Reached, Succeeded, At, ArpOn
  <2> QED
    BY <2>2, <2>3, <2>4 DEF Progress
<1> QED
  BY <1>1, <1>2, <1>3, <1>4 DEF IInv

LEMMA StutterInvariant ==
  ASSUME IInv, UNCHANGED vars
  PROVE  IInv'
<1>1. TypeOK' /\ Names' /\ Ordered'
  BY DEF IInv, vars, names, inside, TypeOK, Names, Ordered
<1>2. ASSUME NEW p \in Proc
      PROVE  Progress(p)'
  BY <1>2, OtherProgress DEF IInv, vars, names, inside, Keeps
<1> QED
  BY <1>1, <1>2 DEF IInv

(* Every dtl_env command keeps the inductive invariant, whatever the other *)
(* commands, the kernel and a reboot do (env.py, ns.py, arp.py).           *)
THEOREM Invariance == Spec => []IInv
<1>1. ASSUME IInv, [Next]_vars PROVE IInv'
  BY <1>1, StepInvariant, ReapInvariant, RebootInvariant, StutterInvariant DEF Next
<1> QED
  BY <1>1, Initially, PTL DEF Spec

(* The variables keep their types: no command writes a fact, an address or *)
(* a label that the model does not know (env.py, ns.py).                   *)
THEOREM TypeCorrect == Spec => []TypeOK
BY Invariance, PTL DEF IInv

LEMMA DoneIsComplete == IInv => SetUpComplete
<1> SUFFICES ASSUME IInv, NEW p \in Proc, Succeeded(p)
             PROVE  /\ TunnelReady(cmd[p].ns)
                    /\ cmd[p].addr # 0 => Connected(cmd[p].ns)
                    /\ cmd[p].cfg = "tap" /\ bound[cmd[p].env] = cmd[p].ns =>
                         \A k \in Tun : "arp" \in tun[cmd[p].ns][k]
  BY DEF SetUpComplete
<1>1. /\ cmd[p].ns \in NsId /\ "lo" \in base[cmd[p].ns]
      /\ \A k \in Tun : {"rule", "p2p"} \subseteq tun[cmd[p].ns][k]
  BY DEF IInv, Progress, Belongs, TunnelProgress, Reached
<1>2. TunnelReady(cmd[p].ns)
  BY <1>1 DEF IInv, Ordered, InOrder, TunnelReady
<1> QED
  BY <1>2 DEF IInv, Progress, WorldProgress, Reached

(* A create or start that reports success has left nothing of the set-up   *)
(* undone, although it skips what it finds there: for any number of        *)
(* commands that run beside it, died before it or were cut short by a      *)
(* reboot (ns.create_tap_env, ns.create_tun_env).                          *)
THEOREM SuccessIsComplete == Spec => []SetUpComplete
BY Invariance, DoneIsComplete, PTL

-----------------------------------------------------------------------------
(* NetEnv implements Environments.                                         *)

LEMMA Giving ==
  ASSUME NEW p \in Proc, TypeOK, cmd[p].ns \in NsId, NEW S \in SUBSET TunFact, GiveTun(p, S)
  PROVE  /\ tun'[cmd[p].ns][cmd[p].k] = tun[cmd[p].ns][cmd[p].k] \cup S
         /\ \A j \in Tun \ {cmd[p].k} : tun'[cmd[p].ns][j] = tun[cmd[p].ns][j]
         /\ \A n \in NsId \ {cmd[p].ns} : tun'[n] = tun[n]
<1> DEFINE n == cmd[p].ns  k == cmd[p].k
<1>1. tun' = [tun EXCEPT ![n] = [tun[n] EXCEPT ![k] = @ \cup S]]
  BY DEF GiveTun
<1>2. k \in Tun /\ n \in NsId
  BY DEF TypeOK, CommandState
<1>3. tun[n] \in [Tun -> SUBSET TunFact] /\ tun \in [NsId -> [Tun -> SUBSET TunFact]]
  BY <1>2 DEF TypeOK
<1> HIDE DEF n, k
<1>4. /\ tun'[n] = [tun[n] EXCEPT ![k] = @ \cup S]
      /\ \A m \in NsId \ {n} : tun'[m] = tun[m]
  BY <1>1, <1>2, <1>3
<1>5. tun'[n][k] = tun[n][k] \cup S /\ \A j \in Tun \ {k} : tun'[n][j] = tun[n][j]
  BY <1>2, <1>3, <1>4
<1> QED
  BY <1>4, <1>5 DEF n, k

(* A step changes no namespace but its command's and the one that has its  *)
(* name.                                                                   *)
LEMMA Confined ==
  ASSUME NEW q \in Proc, TypeOK, Belongs(q), Step(q), NEW n \in NsId,
         cmd[q].pc \in SetUpOn => n # cmd[q].ns /\ n # bound[cmd[q].env]
  PROVE  tun'[n] = tun[n] /\ base'[n] = base[n] /\ waddr'[n] = waddr[n]
<1>1. CASE \/ AddLink(q) \/ AddAddr(q) \/ LinkUp(q) \/ FlushLocal(q) \/ AddLocalRoute(q)
           \/ AddRule(q) \/ AddP2PRoute(q) \/ LoopbackUp(q) \/ WethAddr(q) \/ WethUp(q)
           \/ AttachPeer(q) \/ AddGateway(q)
  <2>1. cmd[q].pc \in SetUpOn
    BY <1>1 DEF AddLink, AddAddr, LinkUp, FlushLocal, AddLocalRoute, AddRule, AddP2PRoute,
       LoopbackUp, WethAddr, WethUp, AttachPeer, AddGateway, At, SetUpOn, RoutesOn, ScanOn, WorldOn
  <2>2. cmd[q].ns \in NsId /\ n # cmd[q].ns
    BY <2>1 DEF Belongs, Reached
  <2>3. CASE AddLink(q) \/ AddAddr(q) \/ LinkUp(q) \/ AddLocalRoute(q) \/ AddRule(q) \/ AddP2PRoute(q)
    BY <2>2, <2>3, Giving DEF AddLink, AddAddr, LinkUp, AddLocalRoute, AddRule, AddP2PRoute, TunFact
  <2>4. CASE FlushLocal(q)
    BY <2>2, <2>4 DEF FlushLocal, TypeOK
  <2>5. CASE LoopbackUp(q) \/ WethAddr(q) \/ WethUp(q) \/ AttachPeer(q) \/ AddGateway(q)
    BY <2>2, <2>5 DEF LoopbackUp, WethAddr, WethUp, AttachPeer, AddGateway, GiveBase, TypeOK
  <2> QED
    BY <1>1, <2>3, <2>4, <2>5
<1>2. CASE AddVeth(q) \/ SetArp(q)
  <2>1. cmd[q].pc \in SetUpOn
    BY <1>2 DEF AddVeth, SetArp, At, SetUpOn, RoutesOn, ScanOn, WorldOn, ArpOn
  <2> QED
    BY <1>2, <2>1 DEF AddVeth, SetArp, TypeOK
<1>3. CASE \/ Issue(q) \/ Return(q) \/ Die(q) \/ Create(q) \/ StartCheck(q) \/ LoadConfig(q)
           \/ OpenNetns(q) \/ LookupLink(q) \/ LookupRules(q) \/ LookupRoutes(q)
           \/ ListNetns(q) \/ OpenListed(q) \/ QueryListed(q) \/ PickAddress(q) \/ LookupBridge(q) \/ AddBridge(q) \/ BridgeAddr(q) \/ BridgeUp(q) \/ BridgeNat(q)
           \/ Delete(q) \/ Run(q)
  BY <1>3 DEF Issue, Return, Die, Create, CreateCheck, MakeFolder, CopyConfig, MakeLogs,
     StartCheck, LoadConfig, OpenNetns, LookupLink, LookupRules, LookupRoutes, ListNetns,
     OpenListed, QueryListed, PickAddress, LookupBridge, AddBridge, BridgeAddr, BridgeUp, BridgeNat,
     Delete, DeleteCheck, RemoveNetns, RemoveFolder, Run, EnterNetns, LoadRunConfig, FinishRun, inside
<1> QED
  BY <1>1, <1>2, <1>3 DEF Step, Tunnel, World

(* The labels of a command that has not entered a namespace.               *)
NotInside == {"idle", "create", "mkdir", "copy", "logs", "start", "load", "netns",
              "delete", "remove", "rmtree", "run", "exists"}

Outside(p) == cmd[p].pc \in NotInside => cmd[p].ns = NoNs

LEMMA GoesTo ==
  ASSUME NEW p \in Proc, cmd \in [Proc -> CommandState], NEW l, Goto(p, l)
  PROVE  cmd'[p].ns = cmd[p].ns /\ cmd'[p].pc = l
BY DEF Goto, CommandState

LEMMA GoesToTun ==
  ASSUME NEW p \in Proc, cmd \in [Proc -> CommandState], NEW l, NEW j, GotoTun(p, l, j)
  PROVE  cmd'[p].ns = cmd[p].ns /\ cmd'[p].pc = l
<1>1. cmd' = [cmd EXCEPT ![p] = [cmd[p] EXCEPT !.pc = l, !.k = j]]
  BY DEF GotoTun
<1> QED
  BY <1>1 DEF CommandState

LEMMA NextsTun ==
  ASSUME NEW p \in Proc, cmd \in [Proc -> CommandState], NEW l, NEW m, NextTun(p, l, m)
  PROVE  cmd'[p].ns = cmd[p].ns /\ cmd'[p].pc \in {l, m}
BY GoesToTun DEF NextTun

(* A request of the set-up but the first keeps the names, and the command  *)
(* in its namespace.                                                       *)
LEMMA SetUpStays ==
  ASSUME NEW p \in Proc, TypeOK, Belongs(p), Tunnel(p) \/ World(p) \/ SetArp(p), ~OpenNetns(p)
  PROVE  /\ bound' = bound /\ home' = home
         /\ cmd'[p].ns = cmd[p].ns /\ cmd'[p].pc \notin NotInside /\ cmd[p].pc # "ok"
<1>a. cmd \in [Proc -> CommandState]
  BY DEF TypeOK
<1> USE <1>a, GoesTo, NextsTun DEF Fail, At, names, NotInside
<1>1. CASE LookupLink(p)
  BY <1>1 DEF LookupLink
<1>2. CASE AddLink(p)
  BY <1>2 DEF AddLink
<1>3. CASE AddAddr(p)
  BY <1>3 DEF AddAddr
<1>4. CASE LinkUp(p)
  BY <1>4 DEF LinkUp
<1>5. CASE FlushLocal(p)
  BY <1>5 DEF FlushLocal
<1>6. CASE LookupRules(p)
  BY <1>6 DEF LookupRules
<1>7. CASE AddLocalRoute(p)
  BY <1>7 DEF AddLocalRoute
<1>8. CASE AddRule(p)
  BY <1>8 DEF AddRule
<1>9. CASE LookupRoutes(p)
  BY <1>9 DEF LookupRoutes
<1>10. CASE AddP2PRoute(p)
  BY <1>10 DEF AddP2PRoute
<1>11. CASE LoopbackUp(p)
  BY <1>11 DEF LoopbackUp
<1>12. CASE PickAddress(p)
  BY <1>12, Picks DEF PickAddress, AfterWorld
<1>21. CASE ListNetns(p) \/ OpenListed(p) \/ QueryListed(p)
  BY <1>21, Scans DEF ListNetns, OpenListed, QueryListed, Same
<1>13. CASE LookupBridge(p)
  BY <1>13 DEF LookupBridge
<1>14. CASE AddBridge(p)
  BY <1>14 DEF AddBridge
<1>15. CASE BridgeAddr(p) \/ BridgeUp(p) \/ BridgeNat(p)
  BY <1>15 DEF BridgeAddr, BridgeUp, BridgeNat
<1>16. CASE AddVeth(p)
  BY <1>16 DEF AddVeth
<1>17. CASE WethAddr(p)
  BY <1>17 DEF WethAddr
<1>18. CASE WethUp(p) \/ AttachPeer(p)
  BY <1>18 DEF WethUp, AttachPeer
<1>19. CASE AddGateway(p)
  BY <1>19 DEF AddGateway, AfterWorld
<1>20. CASE SetArp(p)
  BY <1>20 DEF SetArp
<1> QED
  BY <1>1, <1>2, <1>3, <1>4, <1>5, <1>6, <1>7, <1>8, <1>9, <1>10, <1>11, <1>12, <1>13, <1>14,
     <1>15, <1>16, <1>17, <1>18, <1>19, <1>20, <1>21 DEF Tunnel, World

(* So does a request about the folder.                                     *)
LEMMA FolderStays ==
  ASSUME NEW p \in Proc, TypeOK,
         \/ Create(p) \/ StartCheck(p) \/ LoadConfig(p) \/ DeleteCheck(p) \/ RemoveFolder(p)
         \/ LoadRunConfig(p) \/ FinishRun(p)
  PROVE  /\ bound' = bound /\ home' = home
         /\ cmd'[p].ns = cmd[p].ns /\ cmd[p].pc # "ok"
         /\ cmd'[p].pc \in NotInside => cmd[p].pc \in NotInside
<1>a. cmd \in [Proc -> CommandState]
  BY DEF TypeOK
<1> USE <1>a, GoesTo DEF Fail, At, names, NotInside
<1>1. CASE CreateCheck(p)
  BY <1>1 DEF CreateCheck
<1>2. CASE MakeFolder(p)
  BY <1>2 DEF MakeFolder
<1>3. CASE CopyConfig(p)
  BY <1>3 DEF CopyConfig
<1>4. CASE MakeLogs(p)
  BY <1>4 DEF MakeLogs
<1>5. CASE StartCheck(p)
  BY <1>5 DEF StartCheck
<1>6. CASE LoadConfig(p)
  <2>1. CASE Goto(p, "failed")
    BY <1>6, <2>1 DEF LoadConfig
  <2>2. CASE ~Goto(p, "failed")
    <3>1. cmd' = [cmd EXCEPT ![p] = [cmd[p] EXCEPT !.cfg = Folder(p).cfg, !.pc = "netns"]]
      BY <1>6, <2>2 DEF LoadConfig
    <3>2. cmd'[p].ns = cmd[p].ns
      BY <3>1 DEF CommandState
    <3> QED
      BY <1>6, <3>2 DEF LoadConfig
  <2> QED
    BY <2>1, <2>2
<1>7. CASE DeleteCheck(p)
  BY <1>7 DEF DeleteCheck
<1>8. CASE RemoveFolder(p)
  BY <1>8 DEF RemoveFolder
<1>9. CASE LoadRunConfig(p)
  BY <1>9 DEF LoadRunConfig
<1>10. CASE FinishRun(p)
  BY <1>10 DEF FinishRun
<1> QED
  BY <1>1, <1>2, <1>3, <1>4, <1>5, <1>6, <1>7, <1>8, <1>9, <1>10 DEF Create

LEMMA Leaving ==
  ASSUME NEW p \in Proc, TypeOK, Issue(p) \/ Return(p) \/ Die(p)
  PROVE  cmd'[p].ns = NoNs /\ ~Succeeded(p)' /\ UNCHANGED <<names, inside>>
<1>1. CASE Issue(p)
  <2>1. PICK op \in Ops, e \in Env, c \in ConfigKind :
          cmd' = [cmd EXCEPT ![p] = [Idle EXCEPT !.op = op, !.pc = op, !.env = e, !.cfg = c]]
    BY <1>1, NetEnvAssumption DEF Issue, ConfigKind
  <2>2. cmd'[p].ns = NoNs /\ cmd'[p].pc = op
    BY <2>1 DEF TypeOK, Idle
  <2>3. op # "ok"
    BY NetEnvAssumption DEF Commands
  <2> QED
    BY <1>1, <2>2, <2>3 DEF Issue, Succeeded, At
<1>2. CASE Return(p) \/ Die(p)
  BY <1>2 DEF Return, Die, Idle, Succeeded, At, TypeOK
<1> QED
  BY <1>1, <1>2

(* The namespace a command opens is the one of its name, or a new one.     *)
LEMMA Opens ==
  ASSUME NEW p \in Proc, TypeOK, Belongs(p), OpenNetns(p)
  PROVE  /\ At(p, "netns") /\ cmd[p].env \in Env /\ cmd'[p].pc = "lookup"
         /\ \/ /\ bound[cmd[p].env] # NoNs /\ cmd'[p].ns = bound[cmd[p].env]
               /\ UNCHANGED names
            \/ /\ bound[cmd[p].env] = NoNs
               /\ \E n \in NsId :
                    /\ home[n] = NoEnv /\ cmd'[p].ns = n
                    /\ home' = [home EXCEPT ![n] = cmd[p].env]
                    /\ bound' = [bound EXCEPT ![cmd[p].env] = n]
<1>1. cmd[p].env \in Env /\ cmd[p] \in CommandState /\ At(p, "netns")
  BY DEF OpenNetns, At, Belongs, TypeOK
<1>2. CASE bound[cmd[p].env] # NoNs
  <2>1. /\ cmd' = [cmd EXCEPT ![p] = [cmd[p] EXCEPT !.ns = bound[cmd[p].env], !.pc = "lookup"]]
        /\ UNCHANGED names
    BY <1>2 DEF OpenNetns
  <2> QED
    BY <1>1, <1>2, <2>1 DEF CommandState, TypeOK
<1>3. CASE bound[cmd[p].env] = NoNs
  <2>1. PICK n \in NsId :
          /\ home[n] = NoEnv
          /\ home' = [home EXCEPT ![n] = cmd[p].env]
          /\ bound' = [bound EXCEPT ![cmd[p].env] = n]
          /\ cmd' = [cmd EXCEPT ![p] = [cmd[p] EXCEPT !.ns = n, !.fresh = TRUE, !.pc = "lookup"]]
    BY <1>3, ZenonT(30) DEF OpenNetns
  <2>2. cmd'[p].ns = n /\ cmd'[p].pc = "lookup"
    BY <1>1, <2>1 DEF CommandState, TypeOK
  <2> QED
    BY <1>1, <1>3, <2>1, <2>2
<1> QED
  BY <1>2, <1>3

(* dtl_env run goes on in the namespace of the name, or fails.             *)
LEMMA Enters ==
  ASSUME NEW p \in Proc, TypeOK, Belongs(p), EnterNetns(p)
  PROVE  /\ At(p, "run") /\ cmd[p].env \in Env /\ UNCHANGED <<names, inside>>
         /\ \/ /\ bound[cmd[p].env] # NoNs /\ cmd'[p].ns = bound[cmd[p].env]
               /\ cmd'[p].pc = "loadrun"
            \/ cmd'[p].ns = cmd[p].ns /\ cmd'[p].pc = "failed"
<1>1. cmd[p].env \in Env /\ cmd[p] \in CommandState /\ At(p, "run")
  BY DEF EnterNetns, At, Belongs, TypeOK
<1>2. CASE bound[cmd[p].env] = NoNs
  BY <1>1, <1>2, GoesTo DEF EnterNetns, Fail, TypeOK
<1>3. CASE bound[cmd[p].env] # NoNs
  <2>1. cmd' = [cmd EXCEPT ![p] = [cmd[p] EXCEPT !.ns = bound[cmd[p].env], !.pc = "loadrun"]]
    BY <1>3 DEF EnterNetns
  <2> QED
    BY <1>1, <1>3, <2>1 DEF EnterNetns, CommandState, TypeOK
<1> QED
  BY <1>2, <1>3

LEMMA OutsideStep ==
  ASSUME NEW p \in Proc, TypeOK, Belongs(p), Outside(p), Step(p)
  PROVE  Outside(p)'
<1>1. CASE Issue(p) \/ Return(p) \/ Die(p)
  BY <1>1, Leaving DEF Outside
<1>2. CASE OpenNetns(p)
  BY <1>2, Opens DEF Outside, NotInside
<1>3. CASE (Tunnel(p) \/ World(p) \/ SetArp(p)) /\ ~OpenNetns(p)
  BY <1>3, SetUpStays DEF Outside
<1>4. CASE EnterNetns(p)
  BY <1>4, Enters DEF At, Outside, NotInside
<1>5. CASE RemoveNetns(p)
  BY <1>5, GoesTo DEF RemoveNetns, Fail, At, TypeOK, Outside, NotInside
<1>6. CASE \/ Create(p) \/ StartCheck(p) \/ LoadConfig(p) \/ DeleteCheck(p) \/ RemoveFolder(p)
           \/ LoadRunConfig(p) \/ FinishRun(p)
  BY <1>6, FolderStays DEF Outside
<1> QED
  BY <1>1, <1>2, <1>3, <1>4, <1>5, <1>6 DEF Step, Delete, Run

(* A command is in no namespace until it opens or enters one, and in the   *)
(* same one from then on.                                                  *)
LEMMA StaysOutside == Spec => [](\A p \in Proc : Outside(p))
<1>1. Init => \A p \in Proc : Outside(p)
  BY DEF Init, Idle, Outside
<1>2. ASSUME IInv, \A p \in Proc : Outside(p), [Next]_vars
      PROVE  (\A p \in Proc : Outside(p))'
  <2>1. CASE \E p \in Proc : Step(p)
    <3>1. PICK p \in Proc : Step(p)
      BY <2>1
    <3>2. Outside(p)'
      BY <1>2, <3>1, OutsideStep DEF IInv, Progress
    <3>3. ASSUME NEW q \in Proc, q # p PROVE Outside(q)'
      BY <1>2, <3>1, <3>3, StepOfOne DEF IInv, Outside
    <3> QED
      BY <3>2, <3>3
  <2>2. CASE (\E n \in NsId : Reap(n)) \/ UNCHANGED vars
    BY <1>2, <2>2 DEF Reap, vars, Outside
  <2>3. CASE Reboot
    BY <2>3 DEF Reboot, Idle, Outside
  <2> QED
    BY <1>2, <2>1, <2>2, <2>3 DEF Next
<1> QED
  BY <1>1, <1>2, Invariance, PTL DEF Spec

(* A step moves one process, and changes what it claims, only.             *)
LEMMA OneMoves ==
  ASSUME NEW p \in Proc, TypeOK, Step(p)
  PROVE  /\ Holds' = [Holds EXCEPT ![p] = cmd'[p].ns]
         /\ Claim' = [Claim EXCEPT ![p] = Claim'[p]]
<1>1. \A q \in Proc \ {p} : cmd'[q] = cmd[q]
  BY StepOfOne
<1>2. \A q \in Proc \ {p} : Claim'[q] = Claim[q]
  BY <1>1 DEF Claim, Succeeded, At
<1>3. Claim' \in [Proc -> SUBSET {"tunnels", "world"}] /\ Claim \in [Proc -> SUBSET {"tunnels", "world"}]
  BY DEF Claim
<1>4. Claim' = [Claim EXCEPT ![p] = Claim'[p]]
  BY <1>2, <1>3
<1> QED
  BY <1>1, <1>4 DEF Holds

(* What works in a namespace in use goes on working, and nothing works in  *)
(* one that is not.                                                        *)
LEMMA StepGrows ==
  ASSUME NEW p \in Proc, IInv, Step(p)
  PROVE  E!Grow
<1>1. ASSUME NEW n \in NsId, home[n] # NoEnv
      PROVE  Has[n] \subseteq Has'[n]
  <2>1. Keeps(n)
    BY <1>1, StepKeeps DEF IInv, Progress
  <2>2. TunnelReady(n) => TunnelReady(n)'
    BY <2>1 DEF Keeps, TunnelReady
  <2>3. Connected(n) => Connected(n)'
    BY <2>1 DEF Keeps, Connected
  <2> QED
    BY <2>2, <2>3 DEF Has
<1>2. ASSUME NEW n \in NsId, home[n] = NoEnv
      PROVE  Has'[n] = Has[n]
  <2>1. cmd[p].pc \in SetUpOn => n # cmd[p].ns /\ n # bound[cmd[p].env]
    <3>1. cmd[p].pc \in SetUpOn => cmd[p].ns \in NsId /\ cmd[p].env \in Env
      BY DEF IInv, Progress, Belongs, Reached, SetUpOn, RoutesOn, ScanOn, WorldOn, ArpOn
    <3> QED
      BY <1>2, <3>1, NetEnvAssumption DEF IInv, Names
  <2>2. tun'[n] = tun[n] /\ base'[n] = base[n] /\ waddr'[n] = waddr[n]
    BY <2>1, Confined DEF IInv, Progress
  <2>3. (TunnelReady(n)' <=> TunnelReady(n)) /\ (Connected(n)' <=> Connected(n))
    BY <2>2 DEF TunnelReady, Connected
  <2> QED
    BY <2>3 DEF Has
<1>3. Has' \in [NsId -> SUBSET {"tunnels", "world"}]
  BY DEF Has
<1> QED
  BY <1>1, <1>2, <1>3 DEF E!Grow, E!Feature

(* A command goes on working in its namespace, or reports that it is done. *)
LEMMA WorkStep ==
  ASSUME NEW p \in Proc, IInv, IInv', Step(p), bound' = bound, home' = home,
         cmd'[p].ns = cmd[p].ns, cmd[p].pc # "ok"
  PROVE  E!Work
<1>1. E!Grow
  BY StepGrows
<1>2. Holds' = Holds
  <2>1. \A q \in Proc : cmd'[q].ns = cmd[q].ns
    BY StepOfOne DEF IInv
  <2> QED
    BY <2>1 DEF Holds
<1>3. Claim[p] = {} /\ Claim' = [Claim EXCEPT ![p] = Claim'[p]]
  BY OneMoves DEF IInv, Claim, Succeeded, At
<1>4. CASE ~Succeeded(p)'
  <2>1. Claim'[p] = {}
    BY <1>4 DEF Claim
  <2>2. Claim' = Claim
    BY <1>3, <2>1 DEF Claim
  <2> QED
    BY <1>1, <1>2, <2>2 DEF E!Work
<1>5. CASE Succeeded(p)'
  <2>1. PICK n \in NsId : n = cmd'[p].ns
    BY <1>5 DEF IInv, Progress, Belongs, Reached
  <2>2. TunnelReady(n)' /\ (cmd'[p].addr # 0 => Connected(n)')
    <3>1. TunnelReady(cmd[p].ns)' /\ (cmd[p].addr # 0 => Connected(cmd[p].ns))'
      <4>1. SetUpComplete'
        BY DoneIsComplete, PTL
      <4> QED
        BY <1>5, <4>1 DEF SetUpComplete
    <3> QED
      BY <2>1, <3>1 DEF TunnelReady, Connected
  <2>4. /\ "tunnels" \in Claim'[p]
        /\ Claim'[p] \in SUBSET {"tunnels", "world"}
        /\ Claim'[p] \subseteq Has'[cmd'[p].ns]
    <3>1. Claim'[p] = IF cmd'[p].addr = 0 THEN {"tunnels"} ELSE {"tunnels", "world"}
      BY <1>5 DEF Claim
    <3>2. "tunnels" \in Has'[n] /\ (cmd'[p].addr # 0 => "world" \in Has'[n])
      BY <2>2 DEF Has
    <3> QED
      BY <2>1, <3>1, <3>2
  <2>3. Holds[p] = cmd'[p].ns /\ Holds[p] # NoNs
    BY <2>1, NetEnvAssumption DEF Holds
  <2>5. E!Report(p)
    BY <1>3, <2>3, <2>4 DEF E!Report, E!Feature
  <2> QED
    BY <1>1, <1>2, <2>5 DEF E!Work
<1> QED
  BY <1>4, <1>5

(* What a step that gives no namespace anything leaves of the rest.        *)
LEMMA HasStays ==
  ASSUME UNCHANGED inside
  PROVE  Has' = Has
BY DEF inside, Has, TunnelReady, Connected

LEMMA ProcessProvides ==
  ASSUME NEW p \in Proc, IInv, IInv', Outside(p), Step(p)
  PROVE  [E!Next]_(E!evars)
<1>1. TypeOK /\ Belongs(p) /\ Names
  BY DEF IInv, Progress
<1>2. /\ Holds' = [Holds EXCEPT ![p] = cmd'[p].ns]
      /\ Claim' = [Claim EXCEPT ![p] = Claim'[p]]
  BY <1>1, OneMoves
<1>3. ASSUME ~Succeeded(p), ~Succeeded(p)'
      PROVE  Claim' = Claim
  <2>1. Claim[p] = {} /\ Claim'[p] = {}
    BY <1>3 DEF Claim
  <2> QED
    BY <1>2, <2>1 DEF Claim
<1>4. CASE Issue(p) \/ Return(p) \/ Die(p)
  <2>1. cmd'[p].ns = NoNs /\ ~Succeeded(p)' /\ UNCHANGED <<names, inside>>
    BY <1>1, <1>4, Leaving
  <2>2. Claim'[p] = {} /\ Has' = Has
    BY <2>1, HasStays DEF Claim
  <2> QED
    BY <1>2, <2>1, <2>2 DEF E!Exit, E!Next, names
<1>5. CASE OpenNetns(p)
  <2>1. /\ At(p, "netns") /\ cmd[p].env \in Env /\ cmd'[p].pc = "lookup"
    BY <1>1, <1>5, Opens
  <2>2. Claim' = Claim
    BY <1>3, <2>1 DEF Succeeded, At
  <2>3. Has' = Has
    BY <1>5, HasStays DEF OpenNetns
  <2>4. Holds[p] = NoNs
    BY <2>1 DEF Outside, NotInside, At, Holds
  <2>5. CASE bound[cmd[p].env] # NoNs
    <3>1. cmd'[p].ns = bound[cmd[p].env] /\ UNCHANGED names
      BY <1>1, <1>5, <2>5, Opens
    <3> QED
      BY <1>2, <2>1, <2>2, <2>3, <2>4, <2>5, <3>1 DEF E!Enter, E!Next, names
  <2>6. CASE bound[cmd[p].env] = NoNs
    <3>1. PICK n \in NsId :
            /\ home[n] = NoEnv /\ cmd'[p].ns = n
            /\ home' = [home EXCEPT ![n] = cmd[p].env]
            /\ bound' = [bound EXCEPT ![cmd[p].env] = n]
      BY <1>1, <1>5, <2>6, Opens
    <3>2. E!Make(p)
      BY <1>2, <2>1, <2>2, <2>3, <2>4, <2>6, <3>1 DEF E!Make
    <3> QED
      BY <3>2 DEF E!Next
  <2> QED
    BY <2>5, <2>6
<1>6. CASE EnterNetns(p)
  <2>1. At(p, "run") /\ cmd[p].env \in Env /\ UNCHANGED <<names, inside>>
    BY <1>1, <1>6, Enters
  <2>2. Claim' = Claim
    BY <1>1, <1>3, <1>6, Enters DEF Succeeded, At
  <2>3. Has' = Has
    BY <2>1, HasStays
  <2>4. Holds[p] = NoNs
    BY <2>1 DEF Outside, NotInside, At, Holds
  <2>5. CASE bound[cmd[p].env] # NoNs /\ cmd'[p].ns = bound[cmd[p].env]
    BY <1>2, <2>1, <2>2, <2>3, <2>4, <2>5 DEF E!Enter, E!Next, names
  <2>6. CASE cmd'[p].ns = cmd[p].ns
    <3>1. Holds' = Holds
      BY <1>2, <2>6 DEF Holds
    <3> QED
      BY <2>1, <2>2, <2>3, <3>1 DEF E!evars, names
  <2> QED
    BY <1>1, <1>6, <2>5, <2>6, Enters
<1>7. CASE RemoveNetns(p)
  <2>1. /\ At(p, "remove") /\ cmd[p].env \in Env /\ UNCHANGED <<home, inside>>
        /\ cmd'[p].ns = cmd[p].ns /\ cmd'[p].pc \in {"failed", "rmtree"}
        /\ \/ bound' = bound
           \/ bound[cmd[p].env] # NoNs /\ bound' = [bound EXCEPT ![cmd[p].env] = NoNs]
    BY <1>1, <1>7, GoesTo DEF RemoveNetns, Fail, At, TypeOK, Belongs
  <2>2. Claim' = Claim
    BY <1>3, <2>1 DEF Succeeded, At
  <2>3. Has' = Has
    BY <2>1, HasStays
  <2>4. Holds' = Holds
    BY <1>2, <2>1 DEF Holds
  <2> QED
    BY <2>1, <2>2, <2>3, <2>4 DEF E!Unname, E!Next, E!evars
<1>8. CASE \/ (Tunnel(p) \/ World(p) \/ SetArp(p)) /\ ~OpenNetns(p)
           \/ Create(p) \/ StartCheck(p) \/ LoadConfig(p) \/ DeleteCheck(p) \/ RemoveFolder(p)
           \/ LoadRunConfig(p) \/ FinishRun(p)
  <2>1. bound' = bound /\ home' = home /\ cmd'[p].ns = cmd[p].ns /\ cmd[p].pc # "ok"
    BY <1>1, <1>8, SetUpStays, FolderStays
  <2>2. E!Work
    BY <2>1, WorkStep
  <2> QED
    BY <2>2 DEF E!Next
<1> QED
  BY <1>4, <1>5, <1>6, <1>7, <1>8 DEF Step, Delete, Run

(* Every step of a command, of the kernel and of a reboot is one that      *)
(* Environments allows, for any number of commands at the same time, of    *)
(* deaths and of reboots (bin/dtl_env, env.py, ns.py).                     *)
THEOREM EnvironmentsAreProvided == Spec => Provides
<1>1. Init => E!Init
  <2> SUFFICES ASSUME Init PROVE E!Init
    OBVIOUS
  <2>1. \A n \in NsId : ~TunnelReady(n) /\ ~Connected(n)
    BY DEF Init, TunnelReady, Connected
  <2>2. Has = [n \in NsId |-> {}]
    BY <2>1 DEF Has
  <2>3. Holds = [p \in Proc |-> NoNs] /\ Claim = [p \in Proc |-> {}]
    BY DEF Init, Idle, Holds, Claim, Succeeded, At
  <2> QED
    BY <2>2, <2>3 DEF Init, E!Init
<1>2. ASSUME IInv, IInv', \A p \in Proc : Outside(p), [Next]_vars
      PROVE  [E!Next]_(E!evars)
  <2>1. CASE \E p \in Proc : Step(p)
    BY <1>2, <2>1, ProcessProvides
  <2>2. ASSUME NEW n \in NsId, Reap(n) PROVE E!Next
    <3>1. /\ UNCHANGED <<bound, cmd>> /\ home' = [home EXCEPT ![n] = NoEnv]
          /\ base'[n] = {}
          /\ \A m \in NsId \ {n} : tun'[m] = tun[m] /\ base'[m] = base[m] /\ waddr'[m] = waddr[m]
      BY <1>2, <2>2 DEF Reap, IInv, TypeOK
    <3>2. Has'[n] = {}
      BY <3>1 DEF Has, TunnelReady, Connected
    <3>3. \A m \in NsId \ {n} : Has'[m] = Has[m]
      BY <3>1 DEF Has, TunnelReady, Connected
    <3>4. Has' = [Has EXCEPT ![n] = {}]
      BY <3>2, <3>3 DEF Has
    <3>5. Holds' = Holds /\ Claim' = Claim
      BY <3>1 DEF Holds, Claim, Succeeded, At
    <3>6. (\A e \in Env : bound[e] # n) /\ (\A p \in Proc : Holds[p] # n)
      BY <2>2 DEF Reap, Held, Holds
    <3> QED
      BY <3>1, <3>4, <3>5, <3>6 DEF E!Discard, E!Next
  <2>3. CASE Reboot
    <3>1. \A n \in NsId : ~TunnelReady(n)' /\ ~Connected(n)'
      BY <2>3 DEF Reboot, TunnelReady, Connected
    <3>2. Has' = [n \in NsId |-> {}]
      BY <3>1 DEF Has
    <3>3. Holds' = [p \in Proc |-> NoNs] /\ Claim' = [p \in Proc |-> {}]
      BY <2>3 DEF Reboot, Idle, Holds, Claim, Succeeded, At
    <3> QED
      BY <2>3, <3>2, <3>3 DEF Reboot, E!Restart, E!Next
  <2>4. CASE UNCHANGED vars
    BY <2>4, HasStays DEF vars, names, Holds, Claim, Succeeded, At, E!evars
  <2> QED
    BY <1>2, <2>1, <2>2, <2>3, <2>4 DEF Next
<1> QED
  BY <1>1, <1>2, Invariance, StaysOutside, PTL DEF Spec, Provides, E!Spec

=============================================================================
