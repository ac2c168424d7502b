# Celestial in TLA+

Celestial emulates a satellite constellation on a set of Linux hosts: every
satellite and ground station is a Firecracker microVM, every radio link is a
traffic-control rule, and a coordinator replays a precomputed trajectory by
sending each host, once per timestep, the machines and links that have changed.
This directory specifies the parts of the repository in which that goes right
or wrong because of order, failure or arithmetic. Paths are relative to the
repository.

    cd tla
    tlc -workers 2 -config Coordinator.cfg Coordinator   # model-check a run
    tlapm VirtProofs.tla                                 # check the proofs of a module

`PROJECT.json` lists the components, the runs, what each definition models (file,
lines, symbol), a mutation for every property that makes it fail, the findings,
the hazards and the theorems.

## 1. Inventory

| Component | State it keeps | Operations | Hard because of |
|---|---|---|---|
| `celestial.py`, `celestial/host.py` (coordinator) | current timestep, peers and keys, the trajectory file | rounds of Register, Init, Update, Stop, one thread per host | SIGTERM at any point, swallowed exceptions, lost connections |
| `celestial/proto_util.py` (requests) | an iterator over the diffs of a timestep | `make_init_request`, `make_update_request_iter` | cutting at the size limit |
| `pkg/server` (gRPC server of a host) | the orchestrator and its backends, set by Init, cleared by Stop | Register, Init, Update (streamed), Stop | handlers run concurrently with no lock; broken streams; panics |
| `pkg/orchestrator` | `State.MachinesState`, `State.NetworkState`, the machine names | Initialize, Update, Stop, queries | a goroutine per machine; state changed before the call succeeded; readers without a lock |
| `pkg/virt` | the machine table and its RWMutex, the state of each machine | RegisterMachine, Block/Unblock/SetLatency/SetBandwidth, Start/StopMachine, Stop | nested read locks, a Stop in the middle of an Update, failing hypervisor calls |
| `pkg/virt/net.go` | none | `getNet`, `getID` | byte arithmetic, limits |
| `pkg/ebpfem` | per link the `hbd` record and the kernel map | the five link operations | every write replaces rate and delay together |
| `pkg/ebpfem/ebpf/net.c` | last departure time per flow | `throttle_flow`, `inject_delay` | 32-bit and concurrent arithmetic |
| `pkg/netem` | per link a blocked flag, a class and a qdisc | the five link operations | commands that fail half-way; formatting of numbers |
| `pkg/peer` | WireGuard peers and their allowed networks | InitPeering, Route, Stop | concurrent Route calls on one peer, steps that fail |
| `pkg/info`, `pkg/dns` | none of their own | queries of the orchestrator | read what Update is writing |
| `celestial/config.py` | the parsed configuration | validation, filling in | limits, defaults in two layers |
| `satgen.py`, `celestial/satgen_connstellation.py` | the shells, the timestep | step all shells, write their diffs | the order of diffs from several shells |
| `celestial/shell.py` | last positions, paths and links sent | step, diff | thresholds, stale entries |
| `celestial/zip_serializer.py` | open part files, the archive | serialize, deserialize | the limit on open files |
| `celestial/sgp4_solver.py`, `animation.py`, `kernel`, `builder`, `proto` | - | geometry, rendering, build, generated code | not the subject of this project |

How they meet. Before the emulation, `satgen.py` reads the configuration, steps the
shells and writes an archive of diffs; `celestial.py` restores machines and diffs
from it. The coordinator calls `Register` on every host, collects the keys,
sends all of them with `Init`, then one `Update` stream per host and timestep, and
finally `Stop`. The server hands an Init or a folded Update to the orchestrator.
The orchestrator compares each entry with `State` and calls `virt`
for what has changed, from one goroutine per machine. `virt` discards what is not
on this host, holds its RWMutex for reading and calls the emulation backend or
Firecracker. `virt.Stop` takes the lock as a writer and takes everything apart;
it is called by the server's Stop handler and by the signal handler of
`celestial.go`.

What makes each part correct:

- *configuration and archive*: every machine gets the parameters that the file gives
  it; the archive holds every diff; replayed, it brings the hosts to the state the
  shells had at that timestep.
- *coordinator*: calls of different rounds never meet at a host; no host is ahead
  of another by more than the timestep in progress; a run ends, and with a Stop
  for every host.
- *requests and server*: the orchestrator gets the last diff of each pair in both
  directions, completely or not at all.
- *orchestrator*: `State` describes what the kernel and the hypervisor do, and an
  error of any goroutine is returned.
- *virt*: microVMs follow the requests; nothing is taken apart under a running
  call; a Stop leaves no microVM but those of failed calls; nobody waits forever.
- *peering*: a network that has been routed stays allowed at its peer, whatever other
  routes do.
- *shells and path queries*: paths are shortest; what a host has is what the shell
  has, up to the threshold; a query follows it to its end.
- *addressing*: two machines never have one address, and an address leads back.
- *backends*: block, unblock, latency and bandwidth commute where the orchestrator
  takes them to.

## 2. Modules

    MachineLifecycle   <=implements=  Virt                      VirtProofs
    EmulatedNetwork    <=implements=  Orchestrator              OrchestratorProofs
                                        INSTANCE EbpfLink
                                        INSTANCE NetemLink
    Config, AddressPlan  <=extends=   Trajectory                TrajectoryProofs
    UpdateStream                                                UpdateStreamProofs
    Coordinator                                                 CoordinatorProofs
    ShellPaths                                                  ShellPathsProofs
    Peering                                                     PeeringProofs

`MCVirt`, `MCOrchestrator`, `MCUpdateStream`, `MCShellPaths` and `MCTrajectory` only
give the constants values. `Induction` has lemmas about the naturals and recursive
functions that `TrajectoryProofs` and `ShellPathsProofs` use.

**Virt** is the microVM side of one host. `phase`, `err`, `requested`, `linkState`
are the locals and the `State` of `Orchestrator`; `worker[m]` is the program
counter of the goroutine that `Initialize` or `Update` runs for machine `m`;
`machineState`, `readers`, `writer` are the table and the RWMutex of `Virt`; `stop`
and `killer` are `Virt.Stop` and its goroutines; `vm`, `taps`, `backends` are the
processes and devices of the host. An action is what happens between two points
at which another goroutine can be noticed: acquiring the lock (`LinkLock`,
`MachineLock`, `Decide`), a call that leaves the process (`LinkCall`, `CallOk`,
`CallFails`, `KillCall`), the assignment after it (`Commit`) and its return. The
RWMutex is Go's: a waiting writer keeps new readers out. A call that fails may have
had its effect (`CallFails`): a pause or start that times out, or a start that leaves
its Firecracker process behind (`strays`); the table entry stays as it was. Removing a tap
may fail without notice (`RemoveTaps`), and Stop may be called again. `Requests` are
the Updates that may come. Two history variables: `wanted` is the activity the coordinator
last sent, whether or not it got as far as `requested`, and `failed` the machines named by
an Update that returned an error and not put right by a call since (from a Stop on, those
whose kill failed).

**MachineLifecycle** is what a host promises: a request names the machines whose
activity changes, each answers at most once, a failure may have had its effect or
not, and once the host halts microVMs are only killed.

**Orchestrator** is the network side. `known` is `NetworkState`, `want` what was
last asked for, `step[l]` where the goroutine of the link's source has come to,
`kernel[l]` the backend's record and the kernel's state of the link. A source has
one link in hand at a time, and takes its links in any order (Go's map order).
**EbpfLink** and **NetemLink** give each operation as a set of outcomes: the link it
may leave, and whether it returned nil. `EbpfLink` keeps `hbd` beside the kernel
map, and a `Put` that fails may or may not have written this address; `NetemLink`
keeps the blocked flag beside the ipset, and its delay is what `tc` reads in the
text that `pkg/netem/tc.go` formats.

**EmulatedNetwork** is what a host promises about its links: every link has a shape
(open or blocked, a rate, a delay), a new goal makes parts of shapes pending, and a
pending part moves once, from its old value straight to the new one. A blocked link
keeps its rate and delay for later. Nothing that no diff touches ever moves.

**Trajectory** is a configuration on its way to the hosts, over both programs:
`satgen.py` (`Configure`, `Construct`, `Step`, `WriteMachines`, `WriteLinks`, `Persist`)
and `celestial.py` (`Restore`, `Replay`). `files` is what the parts of the archive
hold, `writers` the pool of the serializer, `given` and `truth` are history variables:
what the serializer was called with, and what the shells had after each timestep.
Every shell is followed by one of its satellites and by what it reports of one pair
of ground stations. **Config** says which files are accepted, how parameters are
filled in, which machines result, and what a line of the archive's initialization
file gives back. **AddressPlan** has `getNet`, `getID` and the MAC address, with Go's
`byte` conversion. Neither has state of its own.

**UpdateStream** is one timestep from the file through
`make_update_request_iter` and its `_islice` to the State that `server.Update`
folds together. **Coordinator** is a whole run: the rounds of `celestial.py`, its
thread pool, SIGTERM before and after its handler is installed, the handlers
running at each host, panics and lost connections.

**ShellPaths** is `Shell.step` with what becomes of its diffs: `paths` is
`path_matrix` (Floyd-Warshall over the +GRID links in range, the uplinks of every
ground station, the best connection of two stations), `sent` is `curr_paths`,
`network` and `active` are the `NetworkState` and the active machines of a host
that has every Update of the shell. `Walk` is the loop of `path()`. Geometry is an
input: every timestep picks distances and a bounding box from a set. Distances are
given in the microseconds light takes for them.

**Peering** is the WireGuard side of a host while its Init is served: `InitPeering`
peer by peer, then a `Route` for every machine of another host, all at the same
time. `allowedNets` is the list that a peer's mutex guards, `allowedCIDRs` the copy a
Route hands to `wg`, `allowed` and `route` what WireGuard and the kernel have. `Stop` may
come at any time.

How the modules rely on each other:

- `Virt` with `StopMayOverlap = FALSE` is a host whose Stop meets no Update.
  `Coordinator`'s `OneHandlerPerHost` says when that holds: always, but for a lost
  connection or a signal that ends the coordinator's wait. Those two cases, and
  SIGINT at the host itself, are `StopMayOverlap = TRUE`.
- The fairness of `Coordinator` (a handler that has its host for itself ends) is
  `Virt`'s `CallsReturn`.
- A failed link call is an arbitrary error in `Virt` (`LinkCall`), and detailed in
  `Orchestrator`; a failed machine phase is an arbitrary error there (`Return`),
  and detailed in `Virt`. Registration is split the same way: tap, table and
  machine in `Virt`, links in `Orchestrator`.
- `Orchestrator` gives each link a kernel entry of its own. Both backends key it by
  the network of the target, so that rests on `AddressesAreDistinct` of `Trajectory`.
- `Orchestrator` takes an Update as a function from pairs to diffs, applied to both
  directions: that `server.Update` produces one is `UpdateStream`'s
  `DirectionsAgree` and `AppliedIsSent`.
- `Virt` takes a `Route` as one step of registration that succeeds or fails; `Peering`
  is that step with its commands, next to the Routes of all other machines.
- `Trajectory` lets a shell report any change of what it is followed by, and has the
  diffs of a timestep arrive: what a shell reports is `ShellPaths`, how it arrives
  `UpdateStream` and `Coordinator`.
- `ShellPaths` delivers every diff of a timestep before the next timestep: that is
  `UpdateStream` (short of the diffs that `UpdateStreamLoss` loses), `HostsInStep`
  of `Coordinator`, and the link phase of `Orchestrator`.

## 3. Runs

| Run | Checks | Shows |
|---|---|---|
| `VirtOrdered` | `TypeOK`, `DivergesOnlyByFailure`, `StopLeavesNoVM`, `StopCleansUp`, `ImplementsLifecycle`, `CallsReturn`, `StopReturns` | When Stop meets no Update, microVMs are as the coordinator has asked except after an Update that returned an error for them; Stop, repeated or not, leaves no microVM but those whose kill or whose start failed; a Stop that returns nil has stopped both backends (it promises no removed tap); Initialize, Update and Stop all return. `Virt` implements `MachineLifecycle`. |
| `VirtSignal` | `TeardownIsAlone` | Whenever a signal comes, the RWMutex keeps the teardown out of link and machine calls. |
| `VirtSignalStop` | `StopReturns`, violated | A signal in an Update can stop the process for ever. |
| `OrchestratorEbpf` | `TypeOK`, `BlockedIsEnforced`, `ShapeInSync`, `ErrorsAreReported`, `CrashNeedsFailedInit`, `ImplementsNetwork` | On eBPF, the kernel drops a link's packets exactly while `NetworkState` has it blocked, rate and delay survive block and unblock, no goroutine's error is lost, and a nil link is met only after a failed Initialize. |
| `OrchestratorNetem` | `BlockedIsEnforced`, `ShapeInSync`, `ImplementsNetwork` | The same with ipset, tc and rounded delays. |
| `UpdateStream` | `TypeOK`, `DirectionsAgree`, `AppliedIsSent` | The orchestrator gets the last diff sent for each pair, in both directions, or nothing if the stream breaks. |
| `UpdateStreamLoss` | `NoDiffIsLost`, violated | A file that takes two requests loses the diff in between. |
| `Trajectory` | `TypeOK`, `ArchiveIsComplete`, `ReplayFollows`, `MachinesAreConfigured`, `AddressesAreDistinct`, `AddressesResolve` | The archive of one shell, or of as many files as may be open, loses no diff however often the writers are closed; replayed, it brings the hosts to the shells' state at every timestep. A machine has its shell's parameter, else the file's, in the end; networks and MACs are distinct and lead back to their machine. |
| `TrajectoryLoss` | `ArchiveRestores`, violated | With two shells and more files than may be open, a file is emptied between the diffs of the first shell and those of the second. |
| `Coordinator` | `TypeOK`, `OneHandlerPerHost`, `HostsInStep`, `EveryHostIsStopped`, `RunEnds` | Handlers meet at a host only for a lost connection or a Stop after a signal; hosts stay within one timestep; the run ends, and every host is stopped unless a signal came before the handler was installed or a second one in its work. |
| `ShellPaths` | `TypeOK`, `PathsAreShortest`, `HostsAreCurrent`, `FreshPathsAreShortest` | Paths between satellites are shortest; a host's entries follow the shell's within the threshold over any history; where no reverse hop is stale, `path()` walks links that are up, of the length the entry says. |
| `ShellPathsLoop` | `PathsEnd`, violated | Where one is stale, `path()` may walk in a circle. |

Each property of a passing run has a mutation in `PROJECT.json`, defined beside the
definition it replaces and marked `Mutant`, under which the run finds it violated.

### Bounds

- *Machines*: two local and, in `VirtOrdered`, one remote that is asked for whatever the
  first local one is (`Alike`): a request for it ends at the first lookup in the table. Any
  other Update of links and states may come, any number of times; so may a Stop, one
  at a time. `VirtSignal` leaves the remote machine and, by its VIEW, the history out,
  which no guard reads. The goroutines of `Virt` interact through
  the RWMutex and a shared error only; two readers and a writer are what the lock's
  rules speak of. `Orchestrator` has two links from one source (one goroutine takes
  them in either order) and their reverses (one of them from another goroutine and
  one from a machine that is not here), or one pair with more values on netem.
- `StopMayOverlap`: FALSE and TRUE are both run; it is a choice of environment,
  not a bound.
- `MaxFaulty` (`Orchestrator`): links whose backend ever fails. A faulty link is
  exempt from the properties on shapes, so 1 (eBPF) shows that it does not disturb
  the others and that its error is reported; on netem both links of the pair may fail.
- *Latencies* include 1050, where formatting matters, and 0, where `tc` gets no
  delay. Bandwidth 0 is left out (see 6).
- `Trajectory`: `MaxWriters` = 4 in the place of `_MAX_WRITERS` = 100. The files of one
  shell and four timesteps fill the pool more than once; two shells with two timesteps
  just fit; two shells with three (in both runs) do not. An offset that is not 0 and a
  resolution that does not divide the duration are among them. Three other files are at
  the limits: a shell of 128x128 satellites is accepted, one of 129x128 and a station
  name used twice are refused. `MaxSeconds`
  = 30 is in the place of the schema's 1e10, the largest resolution and duration, and a file
  beyond it is refused. `Probes` lists the identifiers of machines that are
  followed: 0 and 1, both sides of every byte boundary of `getNet` and of the MAC address,
  and the largest, 16383. `TrajectoryProofs` has all of them, and any limit of writers.
- `UpdateStream`: every file of up to five diffs over three different ones for two
  pairs, with `MaxDiffs` = 2 in the place of the real request size: no cut, one, two.
  The code counts diffs too (`MAX_DIFF_UPDATE_SIZE`).
- `Coordinator`: two hosts, `LastStep` = 1 (two timesteps, so one Update may meet
  the next), `MaxSignals` = 2 (one in the loop, one while it is handled),
  `MaxLost` = 1.
- `ShellPaths`: no bound on time: all histories over 16 geometries of 2x2
  satellites and two ground stations, one with connection type ONE. The distances
  4, 5, 6 drift past the threshold of 1 in two small steps; 11 is out of range, so
  that links, uplinks and whole pairs disappear and return. The two stations have ranges
  of their own, 8 and 10. Distances are positive, and
  the straight line to a satellite is no longer than any detour to it
  (`TriangleAssumption`), as real ones are; otherwise the shortcut for direct uplinks
  in `_numba_update_paths` would not be shortest. `ShellPathsLoop` has 3x2 satellites
  whose links across planes come and go, the smallest grid found with a circle.

Deadlock is checked in every run but `VirtSignal` and `VirtSignalStop`, where the host
really may stop (that is the finding of the second), and `Trajectory` and
`TrajectoryLoss`, where the emulation comes to its end.

`Peering` has no run: its properties hold for every number of hosts and machines by
proof, and TLC adds nothing to them.

### Fairness

- `Virt!Fairness`: every goroutine of a phase and every killer goes on, whatever
  else runs (Go schedules runnable goroutines; a call to Firecracker or to the
  backend returns, with or without an error), and so does Stop. Weak fairness does not
  give a lock to anyone: an action that waits for it is not enabled. Nothing
  obliges anyone to send an Update or a Stop.
- `Coordinator!Fairness`: the coordinator goes on when it can, and a handler that
  is alone at its host ends, which is `CallsReturn` of `Virt`. A handler that shares
  its host with another need not end, as `VirtSignalStop` shows; signals and losses
  are never obliged to happen.
- `Orchestrator`, `UpdateStream`, `Trajectory`, `ShellPaths` and `Peering` have safety
  properties only and assume no fairness.

## 4. Proofs

Checked by TLAPS for every value of the constants that the modules' assumptions
allow.

| Theorem | Statement |
|---|---|
| `VirtProofs!TypeCorrect` | `SafeSpec => []TypeOK` |
| `VirtProofs!TeardownAlone` | `SafeSpec => []TeardownIsAlone`, for any signals |
| `VirtProofs!DivergenceIsFailure` | `SafeSpec => []DivergesOnlyByFailure`, for any signals |
| `VirtProofs!StopKillsAll` | `StopLeavesNoVM`, if `StopMayOverlap = FALSE` |
| `VirtProofs!StopCleans` | `SafeSpec => []StopCleansUp`, for any signals |
| `VirtProofs!Refinement` | `Virt` implements `MachineLifecycle`, if `StopMayOverlap = FALSE` |
| `OrchestratorProofs!TypeCorrect` | `Spec => []TypeOK`, on either backend |
| `OrchestratorProofs!CrashIsFailedInit` | `Spec => []CrashNeedsFailedInit` |
| `OrchestratorProofs!ErrorsReturned` | `Spec => []ErrorsAreReported` |
| `OrchestratorProofs!BlockingEnforced`, `ShapesInSync` | the two properties, if `0 \notin Bandwidths` |
| `OrchestratorProofs!NetworkImplemented` | `Orchestrator` implements `EmulatedNetwork`, if `0 \notin Bandwidths` |
| `OrchestratorProofs!DelayMisread` | `tc` reads any delay of `ms` milliseconds and `10 * y` microseconds, `y \in 1..9`, as `ms` milliseconds and `100 * y` |
| `TrajectoryProofs!TypeCorrect` | `Spec => []TypeOK`, for any files |
| `TrajectoryProofs!ArchiveComplete` | `Spec => []ArchiveIsComplete`, for any limit of writers |
| `TrajectoryProofs!ReplayFollowsTruth` | `Spec => []ReplayFollows`, for any number of shells, stations and timesteps and anything the shells report |
| `TrajectoryProofs!MachinesConfigured` | `Spec => []MachinesAreConfigured`, for any accepted file |
| `TrajectoryProofs!DistinctAddresses`, `ResolvableAddresses` | the two properties, for all identifiers of an accepted configuration |
| `UpdateStreamProofs!TypeCorrect`, `DirectionsNeverDiffer` | `TypeOK` and `DirectionsAgree`, for files of any length |
| `UpdateStreamProofs!LastDiffApplied` | `Spec => []AppliedIsSent`, for files and requests of any size |
| `CoordinatorProofs!TypeCorrect`, `OneHandler`, `InStep`, `AllAreStopped` | `TypeOK`, `OneHandlerPerHost`, `HostsInStep`, `EveryHostIsStopped`, for any number of hosts, timesteps, signals and losses; `HostsInStep` is about hosts that are neither lost nor missed |
| `ShellPathsProofs!TypeCorrect`, `HostsStayCurrent` | `TypeOK` and `HostsAreCurrent`, for shells of any size and any set of geometries |
| `ShellPathsProofs!PathsShortest` | `Spec => []PathsAreShortest`: what Floyd-Warshall leaves is shortest, with both first hops |
| `ShellPathsProofs!FreshPathsStayShortest` | `Spec => []FreshPathsAreShortest`: `path()` ends, after links that are up and as long as the delay |
| `PeeringProofs!TypeCorrect`, `RoutesStay`, `AllRouted` | `TypeOK`, `RoutesAreKept`, `AllAreRouted` |

*Virt.* `PhaseInv` says which steps the goroutines of a phase can be at; without it a
goroutine left over from an earlier phase would break everything below. `LockInv`
says who holds the RWMutex when: a goroutine in a call is a reader, and Stop, once it
tears down, the only writer. It is inductive only because `StopLocked` waits for the last
reader, and gives `TeardownIsAlone`. `TableInv` ties the state in the table to the
process (STARTED is running, unless a call failed or it was killed, which the table never
says; a microVM of a REGISTERED machine is that of a failed start).
`SettledInv` extends `DivergesOnlyByFailure` to the middle of an Update: for every machine
that no Update has failed and no goroutine is busy with, `wanted`, `requested`, the
table and the microVM agree. `StoppedInv` says what each killer has left
to do, and needs an ordered Stop: otherwise a machine may be started behind its
killer. The refinement maps each step to a step of `MachineLifecycle` or a stutter
under all of them. `CleanInv` says what Stop has left to stop at each of its steps, and
that the taps of the table's machines are there until then, for `StopCleans`.

*Orchestrator.* The lemmas `EbpfOps` and `NetemOps` describe each backend operation
by what it does to blocked, rate and delay; from there on both backends share one
argument. `ErrInv` says that `e` is set whenever a failed call has not been returned.
`SyncInv` is `BlockedIsEnforced` and `ShapeInSync` strengthened to blocked links and
to links in the middle of an Update: what waits in the backend of a blocked link is
what the unblock will need, and that an Update will not send again.

For the refinement, `MatchInv` adds what a goroutine's step says of its link: which
parts of the shape agree with the goal before and after it, so that every backend
call is the `Move` or `Fail` of one pending part, and everything else a stutter or,
when a call begins, `Retarget`.

*Coordinator.* A round starts when the one before has been answered, but a signal or a
lost connection lets it start earlier. `RoundInv` says what that leaves at a host: a
call at a host whose connection holds is of the round in progress, and there is one
of a kind; the exceptions are those that `OneHandlerPerHost` names. `StepInv` bounds the
Updates a host has applied by the timestep in progress, from both sides.

*Trajectory.* `TypeInv` adds to `TypeOK` that `satgen.py` visits the timesteps one by one.
`ArchiveInv` has an argument for each of the two cases: with one shell, a file is never
returned to once another has been opened (`OneByOne`); if all may be open, none is ever
closed (`StayOpen`). `MachineInv` keeps machines within their group's count. The addresses
then rest on lemmas about bytes, which put an identifier together again from its parts.

`ReplayFollows` spans both programs. `FilesHold` says what the serializer has been given:
for every timestep, the change of each shell that has been written so far, with its new
value, and nothing else. `Moving` says that between timesteps `world` is what the timestep
before has left. Once the archive is complete, the diffs of a timestep are therefore
`Reports`: `WhatReportsSay` lists them, `UpdatedIs` says that after all of them an item has
a value that one of them gives it, or the one it had when none is about it, and
`HostsCatchUp` that hosts which were as the shells were a timestep ago (`Before`) now are
as the shells are. `Emulating` is `ReplayFollows` with the first timestep, where there is
none before, and with those after the last, which have no files. That both programs count
the same timesteps is `Grid`.

`Prepared` and `Launched` follow the parameters of a machine from the file through the
archive's initialization lines to the Init request. What `readlines` leaves at the end of
a line is one more word at the end of the last parameter, so that flattened they are the
same words and an end of line (`WordsRead`).

*UpdateStream.* `StreamInv` places every request in the file: the k-th is a slice that
starts at `k * (MaxDiffs + 1)`, so that between two of them lies one position only, the
dropped one, and what has been folded is what the slices say of each pair. `Entry` of a
diff and of its reverse differ in the next hop only.

*ShellPaths.* The loops of `_numba_update_paths` are recursive functions here.
`MatrixInv(g, m, k)` is what holds of both matrices after `k` rounds: they are symmetric,
a finite distance is one hop and the distance that is left from there, and no route by way
of the first `k` satellites is shorter. `NoChainIsShorter` and `ShortestChainExists` turn
that into statements about chains of links, and so into `PathsAreShortest` (`RoutesAreShortest`).
`ReportedInv`: a host has of every pair what was last reported of it, and that differs from
the shell's own by no more than the threshold.

`FreshPathsAreShortest` adds the uplinks. For each kind of pair, `SatToSat` to `GstToGst` show
that the next hop is a link that is up and that the rest of the delay is the delay from
there on (`EveryHop`). A direct uplink is the shortest way to its satellite by
`TriangleAssumption` (`StraightDown`), and a station's best uplink stays the best along the way
(`BestIsNearest`). Links have positive lengths, so what is left decreases with every hop;
a walk that did not arrive within as many hops as there are nodes would have come to
one of them twice (`WalkArrives`).

*Peering.* `LockInv`: the peer's mutex is held by the one Route that is inside, so the list
it has made is still the whole list when `wg` gets it. `ListInv`: lists only grow, and hold
networks of their own peer. `KeptInv` is `RoutesAreKept` from the step on at which `wg` has
been called.

*Induction.* The library's induction theorems take an operator, which the provers here
cannot instantiate. `LeastElement` and `Upwards` state induction with a set in its place, and
`Recursion` says that a recursive function exists, which is what it takes to unfold one: the
definition chooses a function that satisfies its equation.

Assumed of the constants, by name in the modules: sizes and ranges are naturals,
distances between different nodes are positive and keep the triangle inequality
(`ShellPaths`; real distances do), a file's values have the types that the schema of
`config.py` checks (`Trajectory`), and `0 \notin Bandwidths` where the table says so.

Only model-checked: liveness (`CallsReturn`, `StopReturns`, `RunEnds`), which is out of the
prover's reach. Every invariant and both refinements of the passing runs are proved.

## 5. Findings

Each is a run that TLC finds violated; `PROJECT.json` quotes the lines.

1. `VirtSignalStop`: nested read locks (`pkg/virt/virt.go:202`, `pkg/virt/vm.go:30`)
   and a writer in between: SIGINT during an Update can hang a host.
2. `TrajectoryLoss`: `celestial/zip_serializer.py:331` opens a file it has closed at the
   limit with "wb", and `celestial/satgen_connstellation.py:142` returns to the files of
   a timestep for every shell.
3. `UpdateStreamLoss`: `celestial/proto_util.py:96` drops one diff between two requests.
4. `ShellPathsLoop`: `celestial/shell.py:1018-1025` and `1044-1051` do not compare
   `prev_hop`; hosts keep stale reverse hops, and `path()` may never end.

## 6. Seen while modelling

Behaviour of the code that the models contain and no run is spent on.

- `pkg/netem/tc.go:124` prints 1050 us as `1.5ms` where `1.05ms` is meant: `tc` delays by
  1.5 ms (`DelayMisread`). The model has it, and `ShapeInSync` is about the delay as read.
- A link opened with bandwidth 0 keeps the backend's default rate: 0 is also what
  `NetworkState` starts with (`pkg/orchestrator/orchestrator.go:250`), so it is no
  change. Therefore `0 \notin Bandwidths` in the runs and theorems.
- `getNet` permits identifier 16384 (`pkg/virt/net.go:39`), whose network is that of
  identifier 0. No shell has it, but a 16,385th ground station would: `config.py` sets no
  limit to ground stations, docs/configuration.md:147 allows 16,384. Therefore
  `Documented` in the properties on addresses.
- The last boot parameter of a machine gets the end of its line
  (`celestial/zip_serializer.py`, `readlines`), and no parameters become one that is an end
  of line. Hence `Append(words, Newline)` in `MachinesAreConfigured`. A comma in a parameter would
  break the line.
- The schema lets `min_elevation` be over 90, which `shell.py` refuses later; a ground
  station without a name ends the program by a KeyError instead of a message.
- `Config.__hash__` (`celestial/config.py:526`), from which an archive without a name of its
  own takes its file name, leaves the offset out.
- A start that fails after Firecracker was spawned (`pkg/virt/vm.go:149-158`) leaves its
  process, maybe with a booted microVM, and the machine REGISTERED. A STOPPED for it then
  returns nil without a call (`pkg/virt/vm.go:48-51`), and Stop's killer skips it (`pkg/virt/vm.go:91`).
  Hence `strays` in `StopLeavesNoVM`. In the same way an ACTIVE after a pause that timed out
  returns nil and leaves the machine paused.
- `removeNetwork` drops every error (`pkg/virt/machine.go:70-76`): Stop returns nil with taps
  left, and no property speaks of their removal. A registration that fails after its
  tap was made leaves it as well.
- With a signal in an Update, a machine that is being started when the killer looks at it
  (`pkg/virt/virt.go:215`) is REGISTERED and stays running. `StopLeavesNoVM` is therefore
  stated of a Stop that meets no Update.
- The coordinator swallows the exception of a failed Init (`celestial.py:139`) and
  updates the host all the same; a SIGTERM before the handler is installed
  (`celestial.py:167`) leaves hosts without a Stop.
- A second Init would make the peers anew and forget their networks before the
  orchestrator refuses it (`pkg/server/server.go:143`); the coordinator sends one.
- The bandwidth of a path between two ground stations is assigned its delay
  (`celestial/shell.py:993`), and with several shells the path of a pair is that of the
  shell that reported a change last, not the shortest (`ReplayFollows` says no more).

## 7. Not modelled

- Orbit propagation and distances: floating point, by a library. The bounding box test
  (`_is_in_bbox`) as well; its outcome is an input of `ShellPaths` and `Trajectory`.
- Animation: a viewer, which changes no state of an emulation.
- The packet side of the backends: departure times and rates in `net.c` are a property
  of packets and clocks, of which these modules have none; only the decision to drop
  is modelled. The handle counter of `pkg/netem` and its map of machines, which one
  goroutine per machine writes under a lock of its own, are left out too: what a torn
  map does is undefined.
- Queries of the information and DNS services in the middle of an Update: they read
  Go maps that are being written, without a lock, and Go leaves the result undefined.
  Their parsing and formatting change no state.
- Two Stops at the same time at one host (a signal while the coordinator's Stop is served),
  and microVMs that end by themselves.
- Making the WireGuard device in `Register`, keys and latency measurement; the wiring of
  `celestial.go`; generated code, kernel, rootfs builder and example data.

## 8. Order of the work

The modules were written in the order of their weight: `Virt` (a host's microVMs),
`Orchestrator` with both backends, `UpdateStream`, `Coordinator`, `ShellPaths`, then the way
from the configuration to the archive and back (`Config`, `AddressPlan`, `Trajectory`), and
`Peering`. Each runs as an environment of the next, as listed under 2, and not as one
product: joined, their states are out of TLC's reach.

What could follow: `ShellPaths` with several shells, to say which ground-to-ground path
should win; `Peering` inside the registration of `Virt`; and, with packets and a
clock, the rate that `net.c` enforces.
