------------------------------- MODULE NetEnv -------------------------------
(***************************************************************************)
(* The life cycle of a DTL environment: `dtl_env create | start | delete | *)
(* run` (bin/dtl_env, testbed/env.py) and the network set-up behind it     *)
(* (testbed/ns.py, testbed/arp.py).  An environment is a folder under      *)
(* ~/.dtl_envs and a named network namespace; the folder survives a        *)
(* reboot, the namespace does not.                                         *)
(*                                                                         *)
(* Every dtl_env command is a process of its own.  Nothing serializes two  *)
(* of them, and each makes one file-system or netlink request after the    *)
(* other, so an action below is one request (or one look at the state) and *)
(* commands interleave, die or see the machine reboot between any two.     *)
(*                                                                         *)
(*   disk[e]    the folder of environment e, and what its config.json says *)
(*   bound[e]   the namespace that /var/run/netns/e is mounted on          *)
(*   home[n]    the name namespace n was created for, NoEnv if n is unused *)
(*   tun[n][k]  what tunnel interface k (tap0/tap1 or tun0/tun1) of        *)
(*              namespace n has been given                                 *)
(*   base[n]    the same for lo and for the veth pair to the bridge        *)
(*   waddr[n]   the address of the <name>-weth interface, 0 for none       *)
(*   bridge     what dtl-br has been given                                 *)
(*   cmd[p]     the command process p executes, and where it is            *)
(***************************************************************************)
EXTENDS Naturals, FiniteSets

CONSTANTS
  Env,      \* names of environments
  Proc,     \* processes that execute dtl_env commands
  NsId,     \* kernel namespaces, a bound on those alive at one time
  NAddr,    \* host addresses of DTL_BR_SUBNET that ns.py gives out (253)
  Ops,      \* commands issued, a subset of Commands
  Configs,  \* what the file given to --config may be, a subset of ConfigKind
  Failures, \* TRUE if commands may be killed and the machine may reboot
  NoEnv, NoNs

Commands == {"create", "start", "delete", "run"}

(* "missing": there is no such file.  "real": a type without an entry in   *)
(* _env_create; a tunnel list of fewer than two entries fails at the same  *)
(* place.  "tap" and "tun": the two modes of type "sim".                   *)
ConfigKind == {"missing", "real", "tap", "tun"}

ASSUME NetEnvAssumption ==
  /\ NoEnv \notin Env
  /\ NoNs \notin NsId
  /\ NAddr \in Nat
  /\ Ops \subseteq Commands
  /\ Configs \subseteq ConfigKind
  /\ Failures \in BOOLEAN

VARIABLES disk, bound, home, tun, base, waddr, bridge, cmd

names  == <<bound, home>>
inside == <<tun, base, waddr>>
vars   == <<disk, names, inside, bridge, cmd>>

Tun == {0, 1}

(* Mutant of Addr: one candidate too many.                                 *)
AddrOneMore == 1 .. NAddr + 1

Addr == 1 .. NAddr

TunFact    == {"link", "addr", "up", "dflt", "route", "rule", "p2p", "arp"}
BaseFact   == {"lo", "lolocal", "weth", "wlocal", "wup", "master", "gw"}
BridgeFact == {"link", "addr", "up", "nat"}

NoFolder == [dir |-> FALSE, cfg |-> "missing", logs |-> FALSE]
Idle == [op |-> "none", pc |-> "idle", env |-> NoEnv, cfg |-> "missing",
         ns |-> NoNs, fresh |-> FALSE, k |-> 0, addr |-> 0,
         todo |-> {}, look |-> NoNs, seen |-> {}]

Labels == {"idle", "ok", "failed", "exists",
           "create", "mkdir", "copy", "logs", "start", "load",
           "delete", "remove", "rmtree", "run", "loadrun", "running",
           "netns", "lookup", "addlink", "addaddr", "linkup", "flush",
           "rules", "addroute", "addrule", "routes", "addp2p", "lo",
           "scan", "open", "query",
           "bridge", "addbridge", "bridgeaddr", "bridgeup", "bridgenat",
           "veth", "wethaddr", "wethup", "attach", "gateway", "arp"}

FolderState == [dir : BOOLEAN, cfg : ConfigKind, logs : BOOLEAN]

CommandState == [op : Commands \cup {"none"}, pc : Labels, env : Env \cup {NoEnv},
                 cfg : ConfigKind, ns : NsId \cup {NoNs}, fresh : BOOLEAN,
                 k : Tun, addr : 0 .. NAddr,
                 todo : SUBSET Env, look : NsId \cup {NoNs}, seen : SUBSET (0 .. NAddr)]

TypeOK ==
  /\ disk \in [Env -> FolderState]
  /\ bound \in [Env -> NsId \cup {NoNs}]
  /\ home \in [NsId -> Env \cup {NoEnv}]
  /\ tun \in [NsId -> [Tun -> SUBSET TunFact]]
  /\ base \in [NsId -> SUBSET BaseFact]
  /\ waddr \in [NsId -> 0 .. NAddr]
  /\ bridge \in SUBSET BridgeFact
  /\ cmd \in [Proc -> CommandState]

Init ==
  /\ disk = [e \in Env |-> NoFolder]
  /\ bound = [e \in Env |-> NoNs]
  /\ home = [n \in NsId |-> NoEnv]
  /\ tun = [n \in NsId |-> [k \in Tun |-> {}]]
  /\ base = [n \in NsId |-> {}]
  /\ waddr = [n \in NsId |-> 0]
  /\ bridge = {}
  /\ cmd = [p \in Proc |-> Idle]

-----------------------------------------------------------------------------
(* Where a command is and where it goes next.                              *)

At(p, l) == cmd[p].pc = l

Goto(p, l) == cmd' = [cmd EXCEPT ![p].pc = l]

GotoTun(p, l, k) == cmd' = [cmd EXCEPT ![p].pc = l, ![p].k = k]

Fail(p) == Goto(p, "failed")

(* The same steps for interface 0 and then for interface 1.                *)
NextTun(p, again, then) ==
  IF cmd[p].k = 0 THEN GotoTun(p, again, 1) ELSE GotoTun(p, then, 0)

Folder(p) == disk[cmd[p].env]

TunOf(p) == tun[cmd[p].ns][cmd[p].k]

GiveTun(p, S) == tun' = [tun EXCEPT ![cmd[p].ns][cmd[p].k] = @ \cup S]

GiveBase(p, S) == base' = [base EXCEPT ![cmd[p].ns] = @ \cup S]

(* A namespace lives while a name or a process refers to it.               *)
Held(n) ==
  \/ \E e \in Env : bound[e] = n
  \/ \E p \in Proc : cmd[p].ns = n \/ cmd[p].look = n

-----------------------------------------------------------------------------
(* bin/dtl_env: one process per command line.                              *)

Issue(p) ==
  /\ At(p, "idle")
  /\ \E op \in Ops, e \in Env :
       \E c \in (IF op = "create" THEN Configs ELSE {"missing"}) :
         cmd' = [cmd EXCEPT ![p] = [Idle EXCEPT !.op = op, !.pc = op, !.env = e, !.cfg = c]]
  /\ UNCHANGED <<disk, names, inside, bridge>>

(* The process exits: its namespace handle is gone.                        *)
Return(p) ==
  /\ cmd[p].pc \in {"ok", "failed", "exists"}
  /\ cmd' = [cmd EXCEPT ![p] = Idle]
  /\ UNCHANGED <<disk, names, inside, bridge>>

-----------------------------------------------------------------------------
(* env.create: the folder, a copy of the config, the log folder.           *)

CreateCheck(p) ==
  /\ At(p, "create")
  /\ Goto(p, IF Folder(p).dir THEN "exists" ELSE "mkdir")
  /\ UNCHANGED <<disk, names, inside, bridge>>

MakeFolder(p) ==
  /\ At(p, "mkdir")
  /\ IF Folder(p).dir
     THEN Fail(p) /\ UNCHANGED disk
     ELSE /\ disk' = [disk EXCEPT ![cmd[p].env].dir = TRUE]
          /\ Goto(p, "copy")
  /\ UNCHANGED <<names, inside, bridge>>

CopyConfig(p) ==
  /\ At(p, "copy")
  /\ IF Folder(p).dir /\ cmd[p].cfg # "missing"
     THEN /\ disk' = [disk EXCEPT ![cmd[p].env].cfg = cmd[p].cfg]
          /\ Goto(p, "logs")
     ELSE Fail(p) /\ UNCHANGED disk
  /\ UNCHANGED <<names, inside, bridge>>

MakeLogs(p) ==
  /\ At(p, "logs")
  /\ IF Folder(p).dir /\ ~Folder(p).logs
     THEN /\ disk' = [disk EXCEPT ![cmd[p].env].logs = TRUE]
          /\ Goto(p, "load")
     ELSE Fail(p) /\ UNCHANGED disk
  /\ UNCHANGED <<names, inside, bridge>>

StartCheck(p) ==
  /\ At(p, "start")
  /\ Goto(p, IF Folder(p).dir THEN "load" ELSE "failed")
  /\ UNCHANGED <<disk, names, inside, bridge>>

(* create and start read the copied config.json and look the set-up        *)
(* function up in _env_create.                                             *)
LoadConfig(p) ==
  /\ At(p, "load")
  /\ IF Folder(p).cfg \in {"tap", "tun"}
     THEN cmd' = [cmd EXCEPT ![p].cfg = Folder(p).cfg, ![p].pc = "netns"]
     ELSE Fail(p)
  /\ UNCHANGED <<disk, names, inside, bridge>>

-----------------------------------------------------------------------------
(* ns.create_tap_env and ns.create_tun_env, from the namespace down to the *)
(* static ARP entries.                                                     *)

(* NetNS(env_name, O_CREAT): enter the named namespace, or make one.       *)
OpenNetns(p) ==
  /\ At(p, "netns")
  /\ LET e == cmd[p].env IN
     \/ /\ bound[e] # NoNs
        /\ cmd' = [cmd EXCEPT ![p].ns = bound[e], ![p].pc = "lookup"]
        /\ UNCHANGED names
     \/ /\ bound[e] = NoNs
        /\ \E n \in NsId :
             /\ home[n] = NoEnv
             /\ home' = [home EXCEPT ![n] = e]
             /\ bound' = [bound EXCEPT ![e] = n]
             /\ cmd' = [cmd EXCEPT ![p].ns = n, ![p].fresh = TRUE, ![p].pc = "lookup"]
  /\ UNCHANGED <<disk, inside, bridge>>

(* _create_tuntap: an interface that exists is taken to be configured.     *)
LookupLink(p) ==
  /\ At(p, "lookup")
  /\ IF "link" \in TunOf(p) THEN NextTun(p, "lookup", "flush") ELSE Goto(p, "addlink")
  /\ UNCHANGED <<disk, names, inside, bridge>>

AddLink(p) ==
  /\ At(p, "addlink")
  /\ IF "link" \in TunOf(p)
     THEN Fail(p) /\ UNCHANGED tun
     ELSE GiveTun(p, {"link"}) /\ Goto(p, "addaddr")
  /\ UNCHANGED <<disk, names, base, waddr, bridge>>

(* The kernel adds a default local route together with the address.        *)
AddAddr(p) ==
  /\ At(p, "addaddr")
  /\ GiveTun(p, {"addr", "dflt"})
  /\ Goto(p, "linkup")
  /\ UNCHANGED <<disk, names, base, waddr, bridge>>

LinkUp(p) ==
  /\ At(p, "linkup")
  /\ GiveTun(p, {"up", "dflt"})
  /\ NextTun(p, "lookup", "flush")
  /\ UNCHANGED <<disk, names, base, waddr, bridge>>

(* Mutant of FlushLocal: the default local routes stay.                    *)
FlushNothing(p) ==
  /\ At(p, "flush")
  /\ Goto(p, "rules")
  /\ UNCHANGED <<disk, names, inside, bridge>>

(* flush_routes(table=LOCAL_ROUTING_TABLE) empties the whole table: the    *)
(* default routes of the tunnel, and those of lo and the veth if they are  *)
(* there already.                                                          *)
FlushLocal(p) ==
  /\ At(p, "flush")
  /\ LET n == cmd[p].ns IN
     /\ tun' = [tun EXCEPT ![n] = [k \in Tun |-> tun[n][k] \ {"dflt"}]]
     /\ base' = [base EXCEPT ![n] = @ \ {"lolocal", "wlocal"}]
  /\ Goto(p, "rules")
  /\ UNCHANGED <<disk, names, waddr, bridge>>

(* Mutant of LookupRules: it looks for the route instead of the rule.      *)
LookupRulesByRoute(p) ==
  /\ At(p, "rules")
  /\ IF {"link", "addr"} \subseteq TunOf(p)
     THEN IF "route" \in TunOf(p) THEN NextTun(p, "rules", "routes") ELSE Goto(p, "addroute")
     ELSE Fail(p)
  /\ UNCHANGED <<disk, names, inside, bridge>>

(* _setup_local_route: get_addr(...)[0] raises on an interface without an  *)
(* address; route and rule are skipped when the rule is there.             *)
LookupRules(p) ==
  /\ At(p, "rules")
  /\ IF {"link", "addr"} \subseteq TunOf(p)
     THEN IF "rule" \in TunOf(p) THEN NextTun(p, "rules", "routes") ELSE Goto(p, "addroute")
     ELSE Fail(p)
  /\ UNCHANGED <<disk, names, inside, bridge>>

AddLocalRoute(p) ==
  /\ At(p, "addroute")
  /\ IF "route" \in TunOf(p)
     THEN Fail(p) /\ UNCHANGED tun
     ELSE GiveTun(p, {"route"}) /\ Goto(p, "addrule")
  /\ UNCHANGED <<disk, names, base, waddr, bridge>>

AddRule(p) ==
  /\ At(p, "addrule")
  /\ GiveTun(p, {"rule"})
  /\ NextTun(p, "rules", "routes")
  /\ UNCHANGED <<disk, names, base, waddr, bridge>>

(* Mutant of LookupRoutes: the route of one direction only.                *)
LookupRouteOneWay(p) ==
  /\ At(p, "routes")
  /\ Goto(p, IF "p2p" \in TunOf(p) THEN "lo" ELSE "addp2p")
  /\ UNCHANGED <<disk, names, inside, bridge>>

(* _setup_p2p_routes, _setup_one_way_route: the kernel refuses a route     *)
(* over an interface that is down, and a second route to the same peer.    *)
LookupRoutes(p) ==
  /\ At(p, "routes")
  /\ IF "p2p" \in TunOf(p) THEN NextTun(p, "routes", "lo") ELSE Goto(p, "addp2p")
  /\ UNCHANGED <<disk, names, inside, bridge>>

AddP2PRoute(p) ==
  /\ At(p, "addp2p")
  /\ IF "up" \in TunOf(p) /\ "p2p" \notin TunOf(p)
     THEN GiveTun(p, {"p2p"}) /\ NextTun(p, "routes", "lo")
     ELSE Fail(p) /\ UNCHANGED tun
  /\ UNCHANGED <<disk, names, base, waddr, bridge>>

(* The local routes of 127.0.0.1 come with lo going up, not with lo being  *)
(* set up again.                                                           *)
LoopbackUp(p) ==
  /\ At(p, "lo")
  /\ GiveBase(p, IF "lo" \in base[cmd[p].ns] THEN {} ELSE {"lo", "lolocal"})
  /\ Goto(p, "scan")
  /\ UNCHANGED <<disk, names, tun, waddr, bridge>>

-----------------------------------------------------------------------------
(* ns._setup_world_connection and ns._setup_bridge.                        *)

AfterWorld(p) == IF cmd[p].cfg = "tap" THEN "arp" ELSE "ok"

(* _get_available_address: listnetns, and then one namespace after the     *)
(* other, todo being the names still to ask and seen the addresses found.  *)
ListNetns(p) ==
  /\ At(p, "scan")
  /\ cmd' = [cmd EXCEPT ![p].todo = {e \in Env : bound[e] # NoNs}, ![p].pc = "open"]
  /\ UNCHANGED <<disk, names, inside, bridge>>

(* NetNS(ns_name, O_RDONLY): a name that is gone by now raises.            *)
OpenListed(p) ==
  /\ At(p, "open")
  /\ \E e \in cmd[p].todo :
       IF bound[e] = NoNs
       THEN Fail(p)
       ELSE cmd' = [cmd EXCEPT ![p].todo = @ \ {e}, ![p].look = bound[e], ![p].pc = "query"]
  /\ UNCHANGED <<disk, names, inside, bridge>>

(* Mutant of QueryListed: the label filter matches no interface.           *)
QueryNothing(p) ==
  /\ At(p, "query")
  /\ cmd' = [cmd EXCEPT ![p].look = NoNs, ![p].pc = "open"]
  /\ UNCHANGED <<disk, names, inside, bridge>>

(* get_addr for <name>-weth; a namespace without one adds 0, which is no   *)
(* address of the subnet.                                                  *)
QueryListed(p) ==
  /\ At(p, "query")
  /\ cmd' = [cmd EXCEPT ![p].seen = @ \cup {waddr[cmd[p].look]},
                        ![p].look = NoNs, ![p].pc = "open"]
  /\ UNCHANGED <<disk, names, inside, bridge>>

(* The lowest address that was not seen; without one the set-up goes on    *)
(* and leaves the environment unconnected.                                 *)
PickAddress(p) ==
  /\ At(p, "open")
  /\ cmd[p].todo = {}
  /\ LET free == Addr \ cmd[p].seen IN
     \/ /\ free = {}
        /\ cmd' = [cmd EXCEPT ![p].seen = {}, ![p].pc = AfterWorld(p)]
     \/ \E a \in free :
          /\ \A b \in free : a <= b
          /\ cmd' = [cmd EXCEPT ![p].seen = {}, ![p].addr = a, ![p].pc = "bridge"]
  /\ UNCHANGED <<disk, names, inside, bridge>>

(* Mutant of LookupBridge: the bridge is added without a look for it.      *)
SkipLookupBridge(p) ==
  /\ At(p, "bridge")
  /\ Goto(p, "addbridge")
  /\ UNCHANGED <<disk, names, inside, bridge>>

(* A bridge that exists is taken to be configured.                         *)
LookupBridge(p) ==
  /\ At(p, "bridge")
  /\ Goto(p, IF "link" \in bridge THEN "veth" ELSE "addbridge")
  /\ UNCHANGED <<disk, names, inside, bridge>>

AddBridge(p) ==
  /\ At(p, "addbridge")
  /\ IF "link" \in bridge
     THEN Fail(p) /\ UNCHANGED bridge
     ELSE bridge' = bridge \cup {"link"} /\ Goto(p, "bridgeaddr")
  /\ UNCHANGED <<disk, names, inside>>

BridgeAddr(p) ==
  /\ At(p, "bridgeaddr")
  /\ bridge' = bridge \cup {"addr"}
  /\ Goto(p, "bridgeup")
  /\ UNCHANGED <<disk, names, inside>>

(* Mutant of BridgeUp: it is the last thing done to the bridge.            *)
BridgeOnlyUp(p) ==
  /\ At(p, "bridgeup")
  /\ bridge' = bridge \cup {"up"}
  /\ Goto(p, "veth")
  /\ UNCHANGED <<disk, names, inside>>

BridgeUp(p) ==
  /\ At(p, "bridgeup")
  /\ bridge' = bridge \cup {"up"}
  /\ Goto(p, "bridgenat")
  /\ UNCHANGED <<disk, names, inside>>

(* The stale rules of the subnet go, one MASQUERADE rule is inserted.      *)
BridgeNat(p) ==
  /\ At(p, "bridgenat")
  /\ bridge' = bridge \cup {"nat"}
  /\ Goto(p, "veth")
  /\ UNCHANGED <<disk, names, inside>>

(* The root namespace holds <name>-wpeer for as long as a namespace, named *)
(* or not, holds the other end.                                            *)
PeerExists(e) == \E n \in NsId : home[n] = e /\ "weth" \in base[n]

(* The other end goes to the namespace that has the name by now, which is  *)
(* not the one this command opened if it was deleted and created anew.     *)
AddVeth(p) ==
  /\ At(p, "veth")
  /\ LET e == cmd[p].env IN
     IF bound[e] = NoNs \/ PeerExists(e)
     THEN Fail(p) /\ UNCHANGED base
     ELSE base' = [base EXCEPT ![bound[e]] = @ \cup {"weth"}] /\ Goto(p, "wethaddr")
  /\ UNCHANGED <<disk, names, tun, waddr, bridge>>

WethAddr(p) ==
  /\ At(p, "wethaddr")
  /\ IF "weth" \in base[cmd[p].ns]
     THEN /\ waddr' = [waddr EXCEPT ![cmd[p].ns] = cmd[p].addr]
          /\ GiveBase(p, {"wlocal"})
          /\ Goto(p, "wethup")
     ELSE Fail(p) /\ UNCHANGED <<waddr, base>>
  /\ UNCHANGED <<disk, names, tun, bridge>>

WethUp(p) ==
  /\ At(p, "wethup")
  /\ GiveBase(p, {"wup", "wlocal"})
  /\ Goto(p, "attach")
  /\ UNCHANGED <<disk, names, tun, waddr, bridge>>

(* The peer gets dtl-br as its master and goes up.                         *)
AttachPeer(p) ==
  /\ At(p, "attach")
  /\ GiveBase(p, {"master"})
  /\ Goto(p, "gateway")
  /\ UNCHANGED <<disk, names, tun, waddr, bridge>>

AddGateway(p) ==
  /\ At(p, "gateway")
  /\ GiveBase(p, {"gw"})
  /\ Goto(p, AfterWorld(p))
  /\ UNCHANGED <<disk, names, tun, waddr, bridge>>

(* arp.set_arp_entry for both tap interfaces, in the namespace that has    *)
(* the name by now.  arp(8) finds the interface by the route to the        *)
(* address, which runs over the other one; nobody looks at its exit code.  *)
SetArp(p) ==
  /\ At(p, "arp")
  /\ LET n == bound[cmd[p].env]
         WithArp(k) == IF "p2p" \in tun[n][1 - k] THEN tun[n][k] \cup {"arp"} ELSE tun[n][k]
     IN IF n = NoNs
        THEN Fail(p) /\ UNCHANGED tun
        ELSE tun' = [tun EXCEPT ![n] = [k \in Tun |-> WithArp(k)]] /\ Goto(p, "ok")
  /\ UNCHANGED <<disk, names, base, waddr, bridge>>

-----------------------------------------------------------------------------
(* env.delete and env.run.                                                 *)

DeleteCheck(p) ==
  /\ At(p, "delete")
  /\ Goto(p, IF Folder(p).dir THEN "remove" ELSE "failed")
  /\ UNCHANGED <<disk, names, inside, bridge>>

(* netns.remove unmounts and unlinks /var/run/netns/<name>: it raises when *)
(* there is no such name, and leaves a namespace in use alive.             *)
RemoveNetns(p) ==
  /\ At(p, "remove")
  /\ IF bound[cmd[p].env] = NoNs
     THEN Fail(p) /\ UNCHANGED bound
     ELSE bound' = [bound EXCEPT ![cmd[p].env] = NoNs] /\ Goto(p, "rmtree")
  /\ UNCHANGED <<disk, home, inside, bridge>>

RemoveFolder(p) ==
  /\ At(p, "rmtree")
  /\ disk' = [disk EXCEPT ![cmd[p].env] = NoFolder]
  /\ Goto(p, IF Folder(p).dir THEN "ok" ELSE "failed")
  /\ UNCHANGED <<names, inside, bridge>>

(* env.run moves its process into the namespace, then reads the config and *)
(* runs the application (module RunApp) until it is done.                  *)
EnterNetns(p) ==
  /\ At(p, "run")
  /\ IF bound[cmd[p].env] = NoNs
     THEN Fail(p)
     ELSE cmd' = [cmd EXCEPT ![p].ns = bound[cmd[p].env], ![p].pc = "loadrun"]
  /\ UNCHANGED <<disk, names, inside, bridge>>

LoadRunConfig(p) ==
  /\ At(p, "loadrun")
  /\ Goto(p, IF Folder(p).cfg = "missing" THEN "failed" ELSE "running")
  /\ UNCHANGED <<disk, names, inside, bridge>>

FinishRun(p) ==
  /\ At(p, "running")
  /\ Goto(p, "ok")
  /\ UNCHANGED <<disk, names, inside, bridge>>

-----------------------------------------------------------------------------
(* The kernel, and what may go wrong.                                      *)

(* The last reference is gone: the kernel tears the namespace down, some   *)
(* time later, and both ends of its veth pair with it.                     *)
Reap(n) ==
  /\ home[n] # NoEnv
  /\ ~Held(n)
  /\ home' = [home EXCEPT ![n] = NoEnv]
  /\ tun' = [tun EXCEPT ![n] = [k \in Tun |-> {}]]
  /\ base' = [base EXCEPT ![n] = {}]
  /\ waddr' = [waddr EXCEPT ![n] = 0]
  /\ UNCHANGED <<disk, bound, bridge, cmd>>

(* Ctrl-C, a kill, a netlink error: the process is gone between two steps. *)
Die(p) ==
  /\ Failures
  /\ cmd[p].pc \notin {"idle", "ok", "failed", "exists"}
  /\ cmd' = [cmd EXCEPT ![p] = Idle]
  /\ UNCHANGED <<disk, names, inside, bridge>>

(* Only the folders are on disk.                                           *)
Reboot ==
  /\ Failures
  /\ bound' = [e \in Env |-> NoNs]
  /\ home' = [n \in NsId |-> NoEnv]
  /\ tun' = [n \in NsId |-> [k \in Tun |-> {}]]
  /\ base' = [n \in NsId |-> {}]
  /\ waddr' = [n \in NsId |-> 0]
  /\ bridge' = {}
  /\ cmd' = [p \in Proc |-> Idle]
  /\ UNCHANGED disk

Create(p) == CreateCheck(p) \/ MakeFolder(p) \/ CopyConfig(p) \/ MakeLogs(p)

Tunnel(p) ==
  \/ OpenNetns(p) \/ LookupLink(p) \/ AddLink(p) \/ AddAddr(p) \/ LinkUp(p)
  \/ FlushLocal(p) \/ LookupRules(p) \/ AddLocalRoute(p) \/ AddRule(p)
  \/ LookupRoutes(p) \/ AddP2PRoute(p) \/ LoopbackUp(p)

World(p) ==
  \/ ListNetns(p) \/ OpenListed(p) \/ QueryListed(p) \/ PickAddress(p)
  \/ LookupBridge(p) \/ AddBridge(p) \/ BridgeAddr(p) \/ BridgeUp(p) \/ BridgeNat(p)
  \/ AddVeth(p) \/ WethAddr(p) \/ WethUp(p) \/ AttachPeer(p) \/ AddGateway(p)

Delete(p) == DeleteCheck(p) \/ RemoveNetns(p) \/ RemoveFolder(p)

Run(p) == EnterNetns(p) \/ LoadRunConfig(p) \/ FinishRun(p)

Step(p) ==
  \/ Issue(p) \/ Return(p) \/ Die(p)
  \/ Create(p) \/ StartCheck(p) \/ LoadConfig(p)
  \/ Tunnel(p) \/ World(p) \/ SetArp(p)
  \/ Delete(p) \/ Run(p)

Next ==
  \/ \E p \in Proc : Step(p)
  \/ \E n \in NsId : Reap(n)
  \/ Reboot

Spec == Init /\ [][Next]_vars

-----------------------------------------------------------------------------
(* Properties.                                                             *)

TunnelReady(n) ==
  /\ \A k \in Tun : {"link", "addr", "up", "route", "rule", "p2p"} \subseteq tun[n][k]
  /\ "lo" \in base[n]

Connected(n) == {"weth", "wup", "master", "gw"} \subseteq base[n] /\ waddr[n] # 0

Succeeded(p) == cmd[p].op \in {"create", "start"} /\ At(p, "ok")

(* What the commands do is what is promised of the environments, at every  *)
(* step of every one of them (env.py, ns.py and bin/dtl_env).              *)
Has == [n \in NsId |-> {f \in {"tunnels", "world"} :
                           \/ f = "tunnels" /\ TunnelReady(n)
                           \/ f = "world" /\ Connected(n)}]

Holds == [p \in Proc |-> cmd[p].ns]

Claim == [p \in Proc |->
           IF ~Succeeded(p) THEN {}
           ELSE IF cmd[p].addr = 0 THEN {"tunnels"} ELSE {"tunnels", "world"}]

E == INSTANCE Environments WITH has <- Has, holds <- Holds, claim <- Claim

Provides == E!Spec

(* A create or start that reports success leaves nothing of the set-up     *)
(* undone, although it skips whatever it finds: whichever commands died    *)
(* half-way before it or run beside it, both interfaces are up, addressed  *)
(* and routed, lo is up, the veth is connected if an address was free, and *)
(* a tap environment that still has its name has its ARP entries           *)
(* (ns.create_tap_env, ns.create_tun_env and their "if it exists" tests).  *)
SetUpComplete ==
  \A p \in Proc : Succeeded(p) =>
    /\ TunnelReady(cmd[p].ns)
    /\ cmd[p].addr # 0 => Connected(cmd[p].ns)
    /\ cmd[p].cfg = "tap" /\ bound[cmd[p].env] = cmd[p].ns =>
         \A k \in Tun : "arp" \in tun[cmd[p].ns][k]

(* No two environments have the same address on dtl-br, whichever commands *)
(* follow each other and whether or not an address is left for all.  Two   *)
(* commands at the same time may both choose the one they see unused       *)
(* (ns._get_available_address).                                            *)
WorldAddressesUnique ==
  \A e, f \in Env :
    e # f /\ bound[e] # NoNs /\ bound[f] # NoNs /\ waddr[bound[e]] # 0 =>
      waddr[bound[e]] # waddr[bound[f]]

(* After a successful create or start no default local route of a tunnel   *)
(* interface is left, so that local traffic crosses the radio link instead *)
(* of lo (ns.py, "delete local routes created by default").                *)
LocalTrafficUsesTunnels ==
  \A p \in Proc : Succeeded(p) => \A k \in Tun : "dflt" \notin tun[cmd[p].ns][k]

(* A create or start that made its namespace itself fails at nothing but   *)
(* the peer of an earlier namespace of the same name that the kernel has   *)
(* not torn down yet: nothing else of an earlier life of the environment   *)
(* gets in its way (ns._setup_world_connection).  Beside other commands it *)
(* may fail at more, such as a listed name that is gone when it is opened. *)
FreshSetUpFailsOnLeftoversOnly ==
  [][\A p \in Proc :
       cmd[p].fresh /\ cmd[p].pc # "failed" /\ cmd'[p].pc = "failed" =>
         \E n \in NsId \ {cmd[p].ns} : home[n] = cmd[p].env /\ "weth" \in base[n]]_vars

(* Starting an environment that exists succeeds (env.create: "already      *)
(* exists. Use start command to activate it").                             *)
StartActivates ==
  \A p \in Proc : cmd[p].op = "start" /\ At(p, "failed") => ~Folder(p).dir

(* Deleting an environment that exists succeeds (README.md: "Delete a DTL  *)
(* environment").                                                          *)
DeleteDeletes ==
  \A p \in Proc : cmd[p].op = "delete" /\ At(p, "failed") => ~Folder(p).dir

(* The veth of an environment that was set up successfully reaches a       *)
(* configured bridge (ns.py, "Connect the env to the Internet"), if no     *)
(* command has died on the way or runs beside another: _setup_bridge does  *)
(* not look at what the bridge it finds has been given.                    *)
SuccessReachesInternet ==
  \A p \in Proc : Succeeded(p) /\ cmd[p].addr # 0 => bridge = BridgeFact

=============================================================================
