# A verification project for the DTL testbed

The repository is a test bed for GNU Radio applications: it makes network
environments (a namespace with two tunnel interfaces that are connected to each
other by a radio link only), runs an application in one, sends traffic through
it, and collects what the application and the traffic tools report in a
database.  This directory holds TLA+ models of it, the TLC runs that check them
on small instances, and proofs checked by TLAPS.

## The system

| Component | Source | State | Operations |
|---|---|---|---|
| environment life cycle | `bin/dtl_env`, `testbed/env.py` | `~/.dtl_envs/<name>` (config, logs), the named namespace | create, start, delete, run; every one a process of its own |
| network set-up | `testbed/ns.py`, `testbed/arp.py` | interfaces, addresses, routes, rules of a namespace; the bridge `dtl-br`; ARP entries | one netlink request after the other, each set-up step guarded by a look at what exists |
| run controller | `testbed/run.py` | handles of the monitor, application, generator and sniffer processes | start them, wait for a stop condition, terminate them |
| application shell | `testbed/app.py`, `apps/sim.py`, `apps/simplex.py` | the flow graph, its live parameters | run; SIGINT/SIGTERM stop it, SIGHUP reloads the live parameters |
| monitor | `testbed/monitoring.py` | a batch of records, the time of the next write, a message counter | receive, parse, batch, write |
| database access | `testbed/db.py` | one collection per run | drop, insert, query |
| traffic generators | `testbed/traffic/icmp_gen.py`, `l2_gen.py` | the sequence number | send one packet per period, or wait for its answer |
| traffic reports | `testbed/traffic/icmp_sniff_reports.py`, `l2_sniff_reports.py`, `sniff.py` | first and last sequence number, counts, last arrival | one update and one record per packet |
| layers | `testbed/traffic/layers.py`, `utils.py` | none | packet formats |
| application wiring | `testbed/wrap.py`, `testbed/testbed_io.py` | the blocks and connections of the flow graph | construction |
| tests, tools, shell script | `tests/`, `tools/`, `setup_tun_env.sh` | none of their own | call the parts above |

How they interact: `dtl_env run` enters the namespace and calls the run
controller, which forks one process per part (`multiprocessing`); the monitor
receives the application's messages over ZeroMQ and shares the database
collection with the traffic reports; the controller stops the others with
SIGTERM.  Two `dtl_env` commands share the file system, the names of the
namespaces, the bridge and the addresses of its subnet, without a lock.

What is hard here: set-up scripts that are interrupted, repeated or run at the
same time; signals that arrive before a handler or a loop is ready for them;
processes that are left behind or waited for forever; packets that are lost,
duplicated or reordered under counters that wrap; records that are in a buffer
when the process is told to stop.

## Plan

The order in which the modules were written, the most important behaviour first:
`NetEnv` (set-up with deaths, reboots and races) and its completeness theorem;
`RunApp` (processes and signals); `SniffReport` (counters over a bad link);
`Collector` and `Monitor` (batching, and the refinement); `LiveConfig` (nested
signal handlers); `FlowGraph` and `PingRun`, which composes the controller, the
ping, the application's graph and the collection into whole runs that follow or
overlap each other; the theorems about commands that take turns,
`NetEnvTurnsProofs` and `NetEnvFreshProofs`; and `Environments`, the promise that
`NetEnv` keeps whatever its commands do to each other.  What is left is at the end.

## Modules

| Component | Model | Run by | Proofs |
|---|---|---|---|
| environment life cycle, network set-up | `NetEnv`, which implements `Environments` | `MCNetEnv` with `NetEnvRecovery`, `NetEnvAddresses`, `NetEnvStart`, `NetEnvDelete` | `NetEnvProofs`, `NetEnvTurnsProofs`, `NetEnvFreshProofs` |
| run controller, stop of the application | `RunApp` | `MCRunApp` with `RunAppRuns`, `RunAppAppDone`, `RunAppCtrlC` | `RunAppProofs` |
| traffic generators of a flow, their reports, sniffer | `SniffReport` | `SniffReport` | `SniffReportProofs` |
| monitor | `Monitor`, which implements `Collector` | `Monitor` | `MonitorProofs` |
| live parameters | `LiveConfig` | `MCLiveConfig` with `LiveConfig`, `LiveConfigZero` | `LiveConfigProofs` |
| flow graph wiring | `FlowGraph` (operators) | as part of `PingRun` | |
| runs with a ping, its report, the collection of a name, the tests | `PingRun` | `MCPingRun` with `PingRun` | `PingRunProofs` |

The parts that are not modelled, and why, are listed with the others in
`PROJECT.json`.

### NetEnv

An environment is a folder (`disk`) and a name for a kernel namespace (`bound`,
`home`); the folder survives a reboot, the rest does not.  The interfaces of a
namespace are sets of facts: `tun[n][k]` has `"addr"` when `AddAddr` has run on
tunnel interface k, `base[n]` has those of `lo` and the veth pair, `bridge` those
of `dtl-br`.  Every command is a process (`cmd[p]`) with a label for each request
it makes to the file system or over netlink; the request is the action:
`LookupLink`, `AddLink`, `AddAddr`, `LinkUp` are `_create_tuntap`, `FlushLocal`
the flush of table 255, `LookupRules`, `AddLocalRoute`, `AddRule` are
`_setup_local_route`, and so on to `AddGateway` and `SetArp`.  The scan for an
address is one request after the other too: `ListNetns` takes the names (`todo`),
`OpenListed` opens one of them and raises if it is gone by now, `QueryListed` adds
its address to those `seen`, and `PickAddress` takes the lowest other one.  The
model gives the handle of a scanned namespace back at once, so that the kernel may
tear it down at every moment it may in the code, and some earlier.  Between any two of
them another command may take a step, the process may die (`Die`) or the machine
reboot (`Reboot`); a namespace without a name and without a process is torn down
by the kernel at some later time (`Reap`).

Not in the model: `overwrite=True`, which no command passes; the length of names;
what else is in the namespace; `real` environments beyond their failure at
`_env_create` (env.py:41), which has no entry for the type that
docs/testing_environments.md:25 describes.  A netlink error that is not the
consequence of the state is `Die`.

### Environments

What is left of NetEnv for somebody who uses an environment: names (`bound`),
what each namespace was made for (`home`) and what works in it (`has`: the tunnels,
the way to the world), where each process is (`holds`) and what it has reported to
work there (`claim`).  It promises that a name leads to a namespace made for it and
no other; that a process stays in the namespace it has entered; that a namespace
which a name or a process refers to is there and keeps what it has been given, so
that *delete* under a *run* leaves the run its network; and that a report is of
what is there.  `NetEnv!Provides` is this specification with `has`, `holds` and
`claim` computed from interfaces, labels and results (`Has`, `Holds`, `Claim`):
"tunnels" is both tunnels complete, "world" the veth pair with its address.

### RunApp

`pc` is a place in `run_app`; `handle[c]` its local variable for child c, which is
*unbound* until it is assigned; `child[c]` the process: it boots, arms its
handlers, runs, and is a zombie until something waits for it.  What waits for it
is part of the model because the code depends on it without saying so: the start
of a process reaps those that have ended, `is_alive` does, psutil's `is_running`
does not.  Ctrl-C (`CtrlC`) reaches the controller, in which it is an exception
wherever it is, and every child.  A sleep takes any time.  `flow` is the
configuration, with the entries that make `run_app` fail half-way: `db.db` may raise
wherever a database is configured, with a probe or without, and a generator, a
report or an interface that does not exist ends the run in "App failed" with the
children started so far left running (`StartGenerator`, `StartSniffer`).

`NobodyForgotten` asks for a signal that is still to be acted on.  Two processes can
be alive without one when a run has been stopped, and `MayBeLost` names them: the
application that a stop reached between its handlers and its flow graph, and a ping
that swallowed the Ctrl-C in `sndrcv` before `run_app` had its handle.  TLC finds the
property violated without either of the two.

### SniffReport

A generator numbers and stamps packets; the link loses them (`fifo`), or reorders
and repeats them as well and carries frames of others (`any`); `Parse` is one call
of the report with every field it computes from the number: the loss, the error
rate as a fraction, the latency with the wrap of the time stamp, the number of
intervals in the jitter's window.  The divisions by zero in the code are
`Raises`, and end the sniffer (`SnifferDies`).

### Monitor and Collector

`Monitor` has both loops of monitoring.py: poll, receive, look whether the batch
is due, write.  Time passes only where the code waits: in a poll, for a batch
duration at most, and in a write, for `MaxWrite` at most.  Messages are lost by
the socket at its limit; one may make no record, or raise; a write may fail after
part of the batch; SIGTERM ends the process anywhere.  `Collector` is the
promise: records come to the database in order, once, and only the last ones may
be missing when it ends.

### LiveConfig

`frames` is the stack of calls of `update_live_config`: Python starts a handler
between two instructions, those of another run of it included, so a SIGHUP pushes
a call that ends before the interrupted one goes on.  A call reads the file
(`Read`), goes through the items (`Loop`), and for one whose attribute is true
calls the setter in its three steps: the attribute (`SetAttr`), the attribute read
again (`Load`), the block (`SetBlock`).  An exception is caught in
`config_update` and not at the start (`Fail`).  Parameters that have a setter and
no attribute, or no block, are left out.

### FlowGraph

Operators without a state: the connections that `tun_io` and `tap_io` make with
`>>` (`Streams`, `Messages`, accepted if `Fits`), those of `wire_it` (`Wires`),
and what goes through the blocks in between (`Through`, which is GNU Radio's).
`Ways` joins ways of up to 32 steps out of these, no fewer than the graph has ends.
`LeadsTo[k]` are the tunnel interfaces to which the application writes the frames
it reads from interface k.  `D` looks at the signature of a hierarchical block
from outside and connects it from inside, where its inputs are where data comes
from: `Source` and `Sink` turn it round.

### PingRun

Runs of one name that stop when their ping is done, as the tests of the
repository make them, one after the other or at the same time, in one namespace
or several.  `pc[r]` is `run_app` of run r from `db.db` (`Connect`, which drops the
collection) to its end; in `Abandon` it fails and leaves its children as they
are.  `app[r]` has its tunnel interfaces (`Construct`: `tuntap`, the graph) or has
ended, at any time and without a reason.  `gen[r]` is `icmp_ping` line by line:
`OpenSocket`, then per packet `Send`, `Receive` or `Timeout`, `Report`, and in the
end `Finish`.  A packet whose number outgrows the field is packed nowhere but in
`sndrcv`, whose sender logs the exception: no frame is sent (`Frames`), and the ping
goes on to its packet count, or for ever without one (`NoLimit`).  A frame
is in `air` while an application has it; when it `Arrive`s, every socket of the
namespace gets the answer, in time or not, and `sndrcv` takes whatever has the
number it waits for.  An answer carries the packet it answers for the properties
only.  `mixed` and `shared` are histories: the runs that shared the collection, or
a namespace, in time with another one, which the properties excuse.

A run connects in the order of its number: a name for it, and no restriction.
`RunApp` has the controller in detail (handles, zombies, psutil, Ctrl-C at every
line); here it is what the collection can tell apart, and there is no monitor.

## What each run checks

| Run | Instance | Distinct states | What it shows |
|---|---|---|---|
| `env_recovery` | one environment, one process, two namespaces, one address; tap, real and missing configurations; deaths, reboots | 1.8 M | `SetUpComplete`: a set-up that reports success is complete, whatever died before it; `LocalTrafficUsesTunnels`; `FreshSetUpFailsOnLeftoversOnly`; the refinement `Provides` |
| `env_addresses` | two environments, one process, three namespaces, two addresses, no deaths | 159 k | `WorldAddressesUnique`, `SuccessReachesInternet` for commands that follow each other |
| `env_start` | one environment | violation | `StartActivates` does not hold |
| `env_delete` | one environment, deaths, reboots | violation | `DeleteDeletes` does not hold |
| `run_all` | every kind of run, children that die, a database that fails, a generator or a report that does not exist, one Ctrl-C | 0.47 M | `NobodyForgotten`, `StopsForAReason`; `StopEnds`, `TrafficDoneStops` under fairness |
| `run_app_done` | a run until the application ends, under fairness | violation | `AppDoneStops` does not hold |
| `run_ctrl_c` | the usual run, one Ctrl-C | violation | `InterruptIsHandled` does not hold |
| `sniff` | both reports, both links, numbers to 5, time stamps to 3, a window of 3, three packets in flight | 4.0 M | `LossClosedForm`, `LossExact`, `RateInRange`, `SnifferSurvives`, `LatencyExact`, `WindowFull` |
| `monitor` | both loops, a batch duration of 2, writes of 1, a queue of 2, five messages | 2.1 M | `WaitsBounded`, `CountersFollow`, and the refinement `Collects` |
| `live_config` | three parameters with setters and one without, five contents and a broken file, two SIGHUPs | 0.2 M | `LastReadHolds`, `Survives`; `HupEnds` under fairness |
| `live_zero` | the same | violation | `SettersUpdate` does not hold |
| `ping_runs` | two runs: in one namespace, in two (one of them with more packets than numbers), without tunnel interfaces, one without a limit (three packets of it); numbers to 1 | 0.68 M | `OwnAnswers`, `CountIsAnswered`, `Crosswise`, `PingRunsOut`; `PingRunEnds` under fairness |

Why the bounds are enough.  *NetEnv*: a command looks only at its own namespace,
the bridge and the addresses in use, so one environment shows recovery, a second
namespace the leftovers of the first one; two addresses for two environments and a
namespace that is not torn down yet use the pool up.  That `SetUpComplete` holds
for commands that interleave request by request is not run but proved, for any
number of processes.  *RunApp*: the children are the four of the code and the
configurations all but what makes no difference to another; a second Ctrl-C is
the same step again, from the handler.  *SniffReport*: five numbers give a first
packet, a gap, a duplicate or late one, a further one, and the number that does
not fit; the window of three fills and moves.  *Monitor*: `WaitsBounded` is tight
at these values (TLC finds it violated with one millisecond less).
*LiveConfig*: two SIGHUPs give every way two calls interrupt one another, and a
third one waiting changes nothing that either of them sees.  *PingRun*: two runs
give a predecessor that is over, one that has failed and lives on, and one at the
same time; two packets a late answer and its successor; three packets for two
numbers the one that cannot be sent.  Its safety properties are proved for every
instance.

Deadlock is checked for NetEnv and LiveConfig.  The runs of RunApp and PingRun end,
and so do the clocks of SniffReport and Monitor at their bounds, so there it is not.

### Fairness

NetEnv, SniffReport and Monitor state safety only and assume none.  RunApp's
`Fairness` is what an operating system gives: the controller goes on when it can,
each child boots and acts on its signals, the flow graph starts, and `icmp_ping`,
which waits three seconds at most for each of its packets, ends.  Nobody is
obliged to press Ctrl-C, to die, or to stop an `endless` generator.  LiveConfig
assumes that the main thread runs; nobody need edit or send a SIGHUP.  PingRun's
`Fairness` is that the process of a ping runs, its wait of 3 seconds included
(`timeout=3`, icmp_gen.py:88), and that the loop of `run_app` looks at it again; no
application need live, and no frame arrive.

## What is proved

TLAPS proves, for every value of the constants:

| Module | Theorems |
|---|---|
| `NetEnvProofs` | for any number of processes: `TypeCorrect`, `SuccessIsComplete` (`SetUpComplete`), `EnvironmentsAreProvided` (`Spec => Provides`) |
| `NetEnvTurnsProofs` | for processes that take turns where a lock would make them: `TurnsTunnelLocalTraffic`, `TurnsKeepAddressesUnique`, `TurnsReachInternet`; and as corollaries for commands that follow each other `LocalTrafficIsTunnelled`, `AddressesAreUnique`, `InternetIsReached` |
| `NetEnvFreshProofs` | `TurnsLeaveFreshSetUpAlone`, a set-up in a namespace it made itself fails at nothing but the veth peer of an earlier one, if commands take turns; `FreshSetUpIsUndisturbed` for commands that follow each other |
| `RunAppProofs` | `TypeCorrect`, `StopReachesAll` (`NobodyForgotten`), `StopHasReason` (`StopsForAReason`), and `ReadyForInterrupt`: `InterruptIsHandled` if no Ctrl-C comes in the window |
| `SniffReportProofs` | `TypeCorrect`, `LossIsClosedForm`, `LossIsExact`, `RateIsBounded`, `FifoSurvives`, `LatencyIsExact`, `WindowIsFull` |
| `MonitorProofs` | `TypeCorrect`, `RecordsAreFresh` (`WaitsBounded`), `CountersAreOrdered`, `MonitorCollects` (`Spec => C!Spec`) |
| `LiveConfigProofs` | `TypeCorrect`, `ConfigurationHolds` (`LastReadHolds`), `SignalsAreSurvived` (`Survives`), `NonZeroIsUpdated`, and `SettersUpdateNonZeros`: `SettersUpdate` if nothing is zero |
| `PingRunProofs` | `TypeCorrect`, `AnswersAreOwn` (`OwnAnswers`), `CountIsRight` (`CountIsAnswered`), `TunnelsAreCrossed` (`Crosswise`), `PingsRunOut` (`PingRunsOut`) |

They rest on the named assumption of each module (the constants' types, and for
LiveConfig that a JSON object names a parameter once and that the constructor
gives values no setter refuses), on the specification without its fairness, and
on the library's facts about sequences and finite sets.

Each module has an inductive invariant `IInv`, because the property alone is not
one:

- *NetEnv*: that a command skips what it finds is harmless only if what is found
  implies what it skips.  `Ordered` says so (an interface with a rule has the
  route, one with the route has its address), and `Progress` says of every label
  what the command has found or made by then.  The set-up of a namespace that is
  deleted under the command goes on in it, so `Names` ties a command's namespace
  to its environment rather than to the present binding of the name.
- *NetEnv, taking turns*: `Flushed` says that nothing adds a default local route
  after the flush, `QuietAfter` that no other command is about to; `AddressesKnown`
  that a command misses no address in its scan (`ScanKnown`: it has seen it, asks its
  namespace now or still will), that the address it has chosen stays unused until the
  veth has it, and that a namespace not in use has none; `BridgeInv` that the bridge is half-way only
  while a command configures it.  Nothing in the code makes commands take turns, and
  each property fails when they do not.  The hypotheses say which turns are enough,
  each of them a lock around a few lines: `SetUpsApart`, one set-up of an environment
  at a time; `OneHolds`, one command anywhere between `listnetns` and the moment its veth has the
  address (a lock around the choice alone is not enough: a command that has asked half
  of the namespaces would not see the address that another one sets meanwhile);
  `OneConfigures`, one in `_setup_bridge`, together with `Configured`, that none dies
  there; `DeletesApart`, no delete while the environment is set up; `ScansApart`, no delete of
  a name, whichever environment it belongs to, while a scan has listed it and not
  opened it yet.  The theorems
  take them as `[]` or `[][...]` hypotheses beside `Spec`.  None can be left out: TLC
  finds the property violated without it.  A single process that issues all commands
  (`Alone`) satisfies all but `Configured`, which it does if commands do not die;
  that is what `env_addresses` checks.
- *NetEnv, a namespace of one's own*: `Pristine` says that a namespace not in use has
  nothing of an earlier life, which the reaping by the kernel and the reboot see to;
  `FreshTun` and `FreshBase` follow the command from there, stage by stage, so that
  every request that refuses what exists already meets nothing; `Listed` says that the
  names of a scan are there when their turn comes.  What is left is the veth peer, which lies in the root namespace.
- *RunApp*: `Covered` says that every child is reachable through its handle, or is
  `Settled` (it has ended, may be lost, or has a signal that it cannot outlive), or
  is in the window between its start and the assignment; Ctrl-C in that window is what the property is about, and there the
  signal of the terminal reaches the child.  `Bound` says which handles have a value
  at which line.  With it `ReadyForInterrupt` shows that the lines of `Unready` are
  all of the window that `run_ctrl_c` finds: a Ctrl-C anywhere else is handled.
- *SniffReport*: `InFlight` says that a number below the next one has been gone
  past, lost, or is in flight, and once; `LossExact` is then a count of a set.
  `Stamped` says that a packet in flight has the time it was sent, less than a
  round of the time stamp ago; the lemma `RoundOnce` is the modular arithmetic.
- *Monitor*: `Log` says that what is stored and what is in the batch make up what
  was accepted; `Timely` bounds when the present poll can have begun.
- *LiveConfig*: `Single` says that the only call has applied the items it has
  passed, in terms of the configuration read last, and that the rest of its items
  is the rest of that configuration.  `StaysNonZero` follows one parameter through
  all the calls that are active, overlapping ones included: where it was never zero
  its setter is called, so that the condition of app.py:43 is the only thing that
  keeps a setter from its value.  Its hypothesis is about that parameter alone;
  `max_doppler`, zero from the start, does not satisfy it, the others may.
- *PingRun*: `AnswerInv` says that numbers and packets of a ping go in lockstep
  (`Lockstep`), that frames, sockets and the answer to be reported hold only
  packets sent so far, with their own numbers, or those of a run that shared the
  namespace in time, so that an answer with the number waited for is the right
  one.  `CountInv` says that the last run to connect, unless the collection is
  shared, finds in it one record for each packet it has counted and not lost.
  `SeqBounded` says that the sequence number stays within the packets asked for, and
  then every step of `icmp_ping` brings `Left` down and no other step brings it up: a
  ping with a number of packets ends after a number of its own steps that this
  bounds (`PingRunsOut`), whatever the other runs and the link do.  That those steps are taken is fairness, and TLC's.
- *FlowGraph*: `Crosswise` is two statements about a graph: there is a way from each
  tunnel interface to the other, shown by joining its parts (`TwiceJoins`), and none
  to itself, because the set of ports that frames from one side reach
  (`WayFrom`) is closed under every connection and stays so however often the graph
  is joined with itself (`TwiceClosed`).

Refinement: `MonitorCollects` maps every step of the monitor to a step of
`Collector` or a stutter; the mapping is the identity on `accepted` and `stored`,
and `up` is `pc # "dead"`.  `EnvironmentsAreProvided` does the same for NetEnv and
`Environments`, with deaths, reboots and commands that interleave request by
request.  Of `IInv` it needs that a command is in a namespace made for its
environment (`Names`) and `Progress` for what it reports.  Beside it stands
`Outside`: a process at a label before the set-up, or of a command without one, is
in no namespace.  A step of one process maps to `Work`, to `Enter`, `Make` or
`Exit`, or to a stutter; that it takes nothing away and touches its own namespace
only are the lemmas `Giving` and `Confined`, used by the other NetEnv proofs as well.

Model-checked only: the liveness properties `StopEnds`, `TrafficDoneStops`,
`HupEnds` and `PingRunEnds`: liveness under fairness and ENABLED are out of the
prover's reach, and so is induction over data.  Every safety property that a passing
run checks is a theorem.

## Disagreements between the code and what it says

Runs that TLC finds violated:

- `env_start`: *start* on an environment that *create* has just made fails at the
  veth pair (ns.py:135), though env.py:63 tells the user to start it.
- `env_delete`: after a reboot, or a create that failed early, *delete* raises in
  `stop` and leaves the folder.  After a reboot a *start* makes the namespace again
  and *delete* works; after a create that failed at its config (missing, or of a
  type that cannot be made) nothing frees the name.
- `run_app_done`: a run that is to stop when the application is done does not:
  the application is a zombie, which psutil takes for running.
- `run_ctrl_c`: Ctrl-C while the processes are started meets a handle without a
  value, and the handler ends half-way.  `ReadyForInterrupt` proves that it does so
  in those lines only.
- `live_zero`: a parameter whose attribute is 0 is never updated.  `NonZeroIsUpdated`
  proves that nothing else keeps a parameter from its update.

Further behaviour that the models have and no document speaks of:

- A *delete* of another environment between `listnetns` and `NetNS(ns_name)` in the
  scan for an address makes a set-up fail that has nothing else wrong (ns.py:114-115);
  it leaves its tunnels behind and no way to the world.
- *start* after *create* flushes table 255 before it fails, and nothing adds the
  local routes of `lo` and the veth again.
- Two commands at the same time may choose the same address (the scan takes two
  requests for each namespace, and the `addr add` comes many requests later), and a command that dies in
  `_setup_bridge` leaves a bridge that later ones take for configured:
  `WorldAddressesUnique` and `SuccessReachesInternet` are stated for commands that
  do not overlap, and do not die, for this reason.  The theorems of
  `NetEnvTurnsProofs` say how little would have to be kept apart.
- A run without a monitor is stopped as soon as it has started, because the look
  at `monitor_process.pid` raises inside a bare `except` (run.py:121-125).  One
  without a name raises KeyError after the monitor was started (run.py:90), and
  every other failure of `run_app` ("App failed") stops nobody either; the
  interpreter then waits for the children.
- A stop that reaches the application between app.py:67 and app.py:71 is lost, and
  so is a Ctrl-C that a ping takes for the end of a wait before its handle is
  assigned (run.py:110); the interpreter then waits for a process that
  nobody stops.
- A stop condition read from JSON is no member of the enumeration, so such a run
  stops for Ctrl-C only; the sleep in the loop belongs to `show_cpu`, without
  which the loop spins.
- The answer of the kernel to the first ICMP request, with number 0, ends the
  sniffer with a division by zero; any duplicate counts as minus one loss, and
  packets lost after the last one are never reported.
- `start_collect` writes records that it has not passed through `prepare`, and a
  message the socket dropped leaves no gap in `msg_counter`.
- A SIGHUP before the handler is installed, or a value at the start with which a
  setter raises, ends the application; SIGHUPs that overlap may leave the older
  value in an attribute, or an attribute and its block with different ones.
- The configuration in src/README.md is a JSON list, which `run_app` cannot read.
- All pings have the identifier 100 and number from 0.  Two in one namespace, as
  when a run has failed and left its own behind, report each other's answers, and
  a second run of the same name drops the records of the first.  A ping whose
  record the database refuses ends, and so does one without a tunnel interface,
  which fails at a header that is None; the run stops as if the traffic were done.
- From the 65537th packet on `icmp_ping` sends nothing: scapy cannot pack the
  number, `sndrcv` logs that and returns, and each of these packets counts as lost.
  With `packets=None` it goes on like that until it is told to stop.
- `run` evaluates `sim.ofdm_adaptive_sim_src`, which does not exist, for every
  application that is not in sim.py, so that none of simplex.py is ever run.
- `Port >> D` uses `self.inp`, which a port does not have, and `HierPort` never
  passes the assertion of `Port`; nothing calls either.  `D` makes one attribute for
  a message port of both directions, which is the outgoing one; both connect.
- The protocol that the tests ask for is ignored: sim.py passes MODIFIED_ETHER.

## Not modelled

- `overwrite=True` and `real` environments in ns.py, which no command reaches; the
  look-up of a MAC address and of an ARP entry (one request each, no state).
- `simplex.py` (no state of it exists, see above), the modems and channels, which
  are GNU Radio's, and the Pluto blocks of testbed_io.py, a row of such calls.
- InfluxDB's points, the layout of packets, the value of the jitter.
- `tools/` and `setup_tun_env.sh`, scripts without state that call the parts above
  or are an older form of ns.py.

## What is left of the plan

The composition of RunApp and Monitor: which records of the monitor are in the
database when a run has been stopped (PingRun has those of a ping).
