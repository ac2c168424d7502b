-------------------------------- MODULE Virt --------------------------------
(***************************************************************************)
(* The microVM side of one Celestial host: pkg/virt (the machine table,    *)
(* its RWMutex and the firecracker transitions) driven by the machine      *)
(* phase of Orchestrator.Update, by Orchestrator.Initialize and by         *)
(* Orchestrator.Stop.                                                      *)
(*                                                                         *)
(* Every goroutine is a thread of the model: Initialize and Update spawn   *)
(* one per machine and wait for all of them, Stop spawns one killer per    *)
(* machine and then takes the lock as a writer.  The RWMutex is Go's: a    *)
(* writer that waits keeps new readers out.  A goroutine of the machine    *)
(* phase holds a read lock for its whole call and takes a second one       *)
(* inside transition(), which is what makes the order of locks matter.     *)
(*                                                                         *)
(* Which links exist and what the network emulation does with them is      *)
(* Orchestrator's subject; a link goroutine is here one locked call that   *)
(* succeeds or fails.                                                      *)
(***************************************************************************)
EXTENDS FiniteSets

CONSTANTS
  Machines,       \* every machine the Init request lists
  Local,          \* the machines assigned to this host
  Requests,       \* the Updates that may come: the sources they have link
                  \* changes for and the machine states they name
  StopMayOverlap  \* TRUE: SIGINT or SIGTERM at any time, at this host or, in
                  \* the middle of an Update, at the coordinator;
                  \* FALSE: Stop ends a run whose last Update has returned
                  \* (OneHandlerPerHost of Coordinator)

Diffs == {"keep", "ACTIVE", "STOPPED"}
AllRequests == [linked : SUBSET Machines, diffs : [Machines -> Diffs]]

ASSUME VirtAssumption ==
  /\ Local \subseteq Machines
  /\ Requests \subseteq AllRequests
  /\ StopMayOverlap \in BOOLEAN

VARIABLES
  phase,         \* what Initialize or Update is doing
  todo,          \* the machine diffs of the Update that is running
  err,           \* `e` of the running Initialize or Update
  linkState,     \* "made" once Orchestrator.State.NetworkState has its links
  requested,     \* Orchestrator.State.MachinesState
  worker,        \* the goroutine Initialize or Update runs for a machine
  machineState,  \* v.machines[m].state, "ABSENT" if m has no entry
  vm,            \* the microVM of a machine: one at most, as it takes the tap
  strays,        \* machines with a firecracker process of a start that failed
  wanted,        \* history: the activity the coordinator last sent
  failed,        \* history: machines named by an Update that failed for them
                 \* and not put right by a call since; from a Stop on,
                 \* machines whose StopVMM failed
  readers,       \* goroutines that hold v.RWMutex for reading
  writer,        \* the writer side of v.RWMutex
  stop,          \* where Virt.Stop is
  killer,        \* the goroutine Stop runs for a machine
  backends,      \* the backends Stop has yet to stop
  taps           \* network devices on the host

orchVars == <<phase, todo, err, linkState, requested>>
machineVars == <<machineState, vm, strays>>
histVars == <<wanted, failed>>
lockVars == <<readers, writer>>
stopVars == <<stop, killer, backends>>
vars == <<phase, todo, err, linkState, requested, worker, machineState, vm, strays,
          wanted, failed, readers, writer, stop, killer, backends, taps>>

Phases == {"new", "registering", "blocking", "idle", "links", "machines"}
WorkerSteps == {"off", "register", "linkLock", "linkCall",
                "lock", "inner", "call", "commit"}
StopSteps == {"idle", "killing", "locking", "emulation", "peering", "taps",
              "returned", "error"}

AllOff == \A m \in Machines : worker[m] = "off"
Registered == {m \in Machines : machineState[m] # "ABSENT"}

(* RLock succeeds unless a writer holds the lock or waits for it.          *)
CanRLock == writer = "free"

(* sync.RWMutex's Lock, by a goroutine that unlocks at once.               *)
CanLock == writer = "free" /\ readers = {}

-----------------------------------------------------------------------------
Init ==
  /\ phase = "new" /\ err = "nil" /\ linkState = "none"
  /\ todo = [m \in Machines |-> "keep"]
  /\ requested = [m \in Machines |-> "STOPPED"]
  /\ worker = [m \in Machines |-> "off"]
  /\ machineState = [m \in Machines |-> "ABSENT"]
  /\ vm = [m \in Machines |-> "none"]
  /\ strays = {} /\ wanted = requested
  /\ failed = {} /\ readers = {} /\ writer = "free"
  /\ stop = "idle"
  /\ killer = [m \in Machines |-> "off"]
  /\ backends = {"emulation", "peering"}
  /\ taps = {}

(* Mutant: the return forgets the lock.                                    *)
ReturnMutant(m) ==
  /\ worker' = [worker EXCEPT ![m] = "off"]
  /\ UNCHANGED readers

(* The worker of m ends; its deferred RUnlock runs with it.                *)
Return(m) ==
  /\ worker' = [worker EXCEPT ![m] = "off"]
  /\ readers' = readers \ {m}

-----------------------------------------------------------------------------
(* Orchestrator.Initialize: one RegisterMachine goroutine per machine, then *)
(* one goroutine per source that blocks its links.                         *)

MayCall == stop = "idle" \/ (StopMayOverlap /\ stop \notin {"returned", "error"})

Initialize ==
  /\ phase = "new" /\ MayCall
  /\ phase' = "registering"
  /\ worker' = [m \in Machines |-> "register"]
  /\ UNCHANGED <<todo, err, linkState, requested, machineVars, histVars,
                 lockVars, stopVars, taps>>

(* A remote machine gets a route, a local one a tap, an entry in the       *)
(* emulation backend and then, under the write lock, its table entry.      *)
RegisterOk(m) ==
  /\ IF m \in Local
     THEN /\ CanLock
          /\ taps' = taps \union {m}
          /\ machineState' = [machineState EXCEPT ![m] = "REGISTERED"]
     ELSE UNCHANGED <<taps, machineState>>
  /\ UNCHANGED err

(* An error before or after the tap is created: the tap stays.             *)
RegisterFails(m) ==
  /\ err' = "error"
  /\ \E left \in SUBSET ({m} \intersect Local) : taps' = taps \union left
  /\ UNCHANGED machineState

RegisterMachine(m) ==
  /\ worker[m] = "register"
  /\ worker' = [worker EXCEPT ![m] = "off"]
  /\ RegisterOk(m) \/ RegisterFails(m)
  /\ UNCHANGED <<phase, todo, linkState, requested, vm, strays, histVars,
                 lockVars, stopVars>>

EndRegister ==
  /\ phase = "registering" /\ AllOff
  /\ IF err # "nil"
     THEN phase' = "idle" /\ UNCHANGED <<worker, linkState>>
     ELSE /\ phase' = "blocking" /\ linkState' = "made"
          /\ worker' = [m \in Machines |-> "linkLock"]
  /\ err' = "nil"
  /\ UNCHANGED <<todo, requested, machineVars, histVars, lockVars,
                 stopVars, taps>>

-----------------------------------------------------------------------------
(* A link call of Virt (BlockLink, UnblockLink, SetLatency, SetBandwidth): *)
(* the read lock is held while the emulation backend works.                *)

LinkLock(m) ==
  /\ worker[m] = "linkLock" /\ CanRLock
  /\ IF m \in Registered
     THEN /\ readers' = readers \union {m}
          /\ worker' = [worker EXCEPT ![m] = "linkCall"]
     ELSE Return(m)
  /\ UNCHANGED <<orchVars, machineVars, histVars, writer, stopVars, taps>>

LinkCall(m) ==
  /\ worker[m] = "linkCall"
  /\ \/ "emulation" \in backends /\ UNCHANGED err
     \/ err' = "error"
  /\ Return(m)
  /\ UNCHANGED <<phase, todo, linkState, requested, machineVars, histVars,
                 writer, stopVars, taps>>

-----------------------------------------------------------------------------
(* Orchestrator.Update: the link phase, then the machine phase.            *)

(* An update of links that Initialize never got to make kills the process: *)
(* Orchestrator models that crash.                                         *)
BeginUpdate(linked, diffs) ==
  /\ phase = "idle" /\ MayCall
  /\ linked # {} => linkState = "made"
  /\ phase' = "links" /\ todo' = diffs
  /\ worker' = [m \in Machines |-> IF m \in linked THEN "linkLock" ELSE "off"]
  /\ wanted' = [m \in Machines |-> IF diffs[m] = "keep" THEN wanted[m] ELSE diffs[m]]
  /\ UNCHANGED <<err, linkState, requested, machineVars, failed, lockVars,
                 stopVars, taps>>

(* The machines whose activity the update changes get a goroutine each.    *)
Changed == {m \in Machines : todo[m] # "keep" /\ todo[m] # requested[m]}

AfterDiffs == [m \in Machines |-> IF m \in Changed THEN todo[m] ELSE requested[m]]

(* Mutant: the diff is taken for the whole state.                          *)
SpawnMachineWorkersMutant ==
  /\ phase' = "machines"
  /\ requested' = todo
  /\ worker' = [m \in Machines |-> IF m \in Changed THEN "lock" ELSE "off"]

SpawnMachineWorkers ==
  /\ phase' = "machines"
  /\ requested' = AfterDiffs
  /\ worker' = [m \in Machines |-> IF m \in Changed THEN "lock" ELSE "off"]

(* An error of the link phase is returned before any machine is touched,   *)
(* and the machine diffs are lost.                                         *)
EndLinks ==
  /\ phase \in {"blocking", "links"} /\ AllOff
  /\ IF err # "nil" \/ phase = "blocking"
     THEN /\ phase' = "idle" /\ UNCHANGED <<requested, worker>>
          /\ failed' = failed \union {m \in Machines : todo[m] # "keep"}
     ELSE SpawnMachineWorkers /\ UNCHANGED failed
  /\ todo' = [m \in Machines |-> "keep"]
  /\ err' = "nil"
  /\ UNCHANGED <<linkState, machineVars, wanted, lockVars, stopVars, taps>>

EndMachines ==
  /\ phase = "machines" /\ AllOff
  /\ phase' = "idle" /\ err' = "nil"
  /\ UNCHANGED <<todo, linkState, requested, worker, machineVars, histVars,
                 lockVars, stopVars, taps>>

-----------------------------------------------------------------------------
(* StartMachine and StopMachine: the outer read lock, then transition().   *)

MachineLock(m) ==
  /\ worker[m] = "lock" /\ CanRLock
  /\ IF m \in Registered
     THEN /\ readers' = readers \union {m}
          /\ worker' = [worker EXCEPT ![m] = "inner"]
     ELSE Return(m)
  /\ UNCHANGED <<orchVars, machineVars, histVars, writer, stopVars, taps>>

(* Mutant: a suspended machine is not resumed.                             *)
NeedsCallMutant(m) ==
  IF requested[m] = "ACTIVE" THEN machineState[m] = "REGISTERED"
  ELSE machineState[m] = "STARTED"

(* transition(): a machine that was never started is not started to be     *)
(* stopped, and a machine already in the state asked for is left alone.    *)
NeedsCall(m) ==
  IF requested[m] = "ACTIVE" THEN machineState[m] \in {"REGISTERED", "STOPPED"}
  ELSE machineState[m] = "STARTED"

(* Mutant: the second lock is a write lock.                                *)
DecideMutant(m) ==
  /\ worker[m] = "inner" /\ CanLock
  /\ worker' = [worker EXCEPT ![m] = "call"]
  /\ UNCHANGED <<orchVars, machineVars, histVars, lockVars, stopVars, taps>>

(* The table is read under a second read lock, taken and released.         *)
Decide(m) ==
  /\ worker[m] = "inner" /\ CanRLock
  /\ IF NeedsCall(m)
     THEN /\ worker' = [worker EXCEPT ![m] = "call"]
          /\ UNCHANGED readers
     ELSE Return(m)
  /\ UNCHANGED <<orchVars, machineVars, histVars, writer, stopVars, taps>>

(* startMachine boots a machine on its tap, which a microVM that an earlier *)
(* start has left would still hold; resumeMachine and suspendMachine bring *)
(* a running or paused one into the state asked for.                       *)
Starting(m) == machineState[m] = "REGISTERED"
CanFollow(m) ==
  IF Starting(m) THEN vm[m] = "none" /\ m \in taps ELSE vm[m] \in {"running", "paused"}
Follow(m) ==
  vm' = [vm EXCEPT ![m] = IF requested[m] = "ACTIVE" THEN "running" ELSE "paused"]

CallOk(m) ==
  /\ worker[m] = "call" /\ CanFollow(m)
  /\ Follow(m)
  /\ worker' = [worker EXCEPT ![m] = "commit"]
  /\ UNCHANGED <<orchVars, machineState, strays, histVars, lockVars, stopVars, taps>>

(* A call may fail, or time out, before or after it has had its effect.  A *)
(* start may also fail with the process spawned but nothing booted in it.  *)
(* m.state stays what it was.                                              *)
CallFails(m) ==
  /\ worker[m] = "call"
  /\ \/ UNCHANGED <<vm, strays>>
     \/ /\ CanFollow(m) /\ Follow(m)
        /\ strays' = IF Starting(m) THEN strays \union {m} ELSE strays
     \/ /\ Starting(m) /\ strays' = strays \union {m}
        /\ UNCHANGED vm
  /\ failed' = failed \union {m}
  /\ err' = "error"
  /\ Return(m)
  /\ UNCHANGED <<phase, todo, linkState, requested, machineState, wanted, writer,
                 stopVars, taps>>

Commit(m) ==
  /\ worker[m] = "commit"
  /\ machineState' = [machineState EXCEPT ![m] =
                        IF requested[m] = "ACTIVE" THEN "STARTED" ELSE "STOPPED"]
  /\ failed' = failed \ {m}
  /\ Return(m)
  /\ UNCHANGED <<orchVars, vm, strays, wanted, writer, stopVars, taps>>

-----------------------------------------------------------------------------
(* Virt.Stop.                                                              *)

(* Mutant: the coordinator does not wait for its Updates.                  *)
BeginStopMutant ==
  /\ stop \in {"idle", "returned", "error"}
  /\ stop' = "killing"
  /\ killer' = [m \in Machines |-> IF m \in Registered THEN "kill" ELSE "off"]
  /\ failed' = {}
  /\ UNCHANGED <<orchVars, worker, machineVars, wanted, lockVars, backends, taps>>

(* Stop may be called again: a signal in the five seconds before a host    *)
(* exits, or another attempt after an error.                               *)
BeginStop ==
  /\ stop \in {"idle", "returned", "error"}
  /\ StopMayOverlap \/ phase \in {"new", "idle"}
  /\ stop' = "killing"
  /\ killer' = [m \in Machines |-> IF m \in Registered THEN "kill" ELSE "off"]
  /\ failed' = {}
  /\ UNCHANGED <<orchVars, worker, machineVars, wanted, lockVars, backends, taps>>

(* Mutant: suspended machines are forgotten.                               *)
ToKillMutant == {m \in Registered : machineState[m] = "STARTED"}

(* transition(KILLED) reads the state; a machine never started is skipped. *)
ToKill == {m \in Registered : machineState[m] \in {"STARTED", "STOPPED"}}

KillDecide(m) ==
  /\ killer[m] = "kill" /\ CanRLock
  /\ killer' = [killer EXCEPT ![m] = IF m \in ToKill THEN "call" ELSE "off"]
  /\ UNCHANGED <<orchVars, worker, machineVars, histVars, lockVars, stop,
                 backends, taps>>

(* killMachine; its error is only logged, and m.state is never set to      *)
(* KILLED: a second Stop kills again, which does nothing to a dead one.    *)
KillCall(m) ==
  /\ killer[m] = "call"
  /\ killer' = [killer EXCEPT ![m] = "off"]
  /\ \/ vm' = [vm EXCEPT ![m] = "dead"] /\ UNCHANGED failed
     \/ UNCHANGED vm /\ failed' = failed \union {m}
  /\ UNCHANGED <<orchVars, worker, machineState, strays, wanted, lockVars, stop,
                 backends, taps>>

(* After wg.Wait, v.Lock: from here on no reader gets in.                  *)
StopLock ==
  /\ stop = "killing" /\ \A m \in Machines : killer[m] = "off"
  /\ writer = "free"
  /\ stop' = "locking" /\ writer' = "waiting"
  /\ UNCHANGED <<orchVars, worker, machineVars, histVars, readers, killer,
                 backends, taps>>

(* Mutant: the writer does not wait for the readers.                       *)
StopLockedMutant ==
  /\ stop = "locking" /\ writer = "waiting"
  /\ stop' = "emulation" /\ writer' = "held"
  /\ UNCHANGED <<orchVars, worker, machineVars, histVars, readers, killer,
                 backends, taps>>

(* The readers that were in have left.                                     *)
StopLocked ==
  /\ stop = "locking" /\ writer = "waiting" /\ readers = {}
  /\ stop' = "emulation" /\ writer' = "held"
  /\ UNCHANGED <<orchVars, worker, machineVars, histVars, readers, killer,
                 backends, taps>>

(* Mutant: the error of a backend is only logged.                          *)
StopBackendMutant(b, next) ==
  /\ stop = b
  /\ backends' \in {backends, backends \ {b}}
  /\ stop' = next
  /\ UNCHANGED <<orchVars, worker, machineVars, histVars, lockVars, killer,
                 taps>>

(* neb.Stop and then pb.Stop: an error returns, the deferred Unlock runs.  *)
StopBackend(b, next) ==
  /\ stop = b
  /\ \/ /\ backends' = backends \ {b}
        /\ stop' = next
        /\ UNCHANGED writer
     \/ stop' = "error" /\ writer' = "free" /\ UNCHANGED backends
  /\ UNCHANGED <<orchVars, worker, machineVars, histVars, readers, killer,
                 taps>>

(* removeNetwork takes no notice of an `ip link del` that fails.           *)
RemoveTaps ==
  /\ stop = "taps"
  /\ \E left \in SUBSET Registered : taps' = taps \ (Registered \ left)
  /\ stop' = "returned" /\ writer' = "free"
  /\ UNCHANGED <<orchVars, worker, machineVars, histVars, readers, killer,
                 backends>>

(* The process exits: nothing more happens.                                *)
Exit ==
  /\ stop \in {"returned", "error"} /\ AllOff
  /\ UNCHANGED vars

-----------------------------------------------------------------------------
Worker(m) ==
  \/ RegisterMachine(m)
  \/ LinkLock(m) \/ LinkCall(m)
  \/ MachineLock(m) \/ Decide(m) \/ CallOk(m) \/ CallFails(m) \/ Commit(m)

Killer(m) == KillDecide(m) \/ KillCall(m)

EndPhase == EndRegister \/ EndLinks \/ EndMachines

StopStep ==
  \/ StopLock \/ StopLocked
  \/ StopBackend("emulation", "peering") \/ StopBackend("peering", "taps")
  \/ RemoveTaps

Next ==
  \/ Initialize
  \/ \E r \in Requests : BeginUpdate(r.linked, r.diffs)
  \/ EndPhase
  \/ \E m \in Machines : Worker(m) \/ Killer(m)
  \/ BeginStop \/ StopStep \/ Exit

(* Go runs every goroutine that can run, and firecracker, ip, wg and bpf   *)
(* calls return.  Nobody has to send an Update or stop the host.           *)
Fairness ==
  /\ \A m \in Machines : WF_vars(Worker(m)) /\ WF_vars(Killer(m))
  /\ WF_vars(EndPhase) /\ WF_vars(StopStep)

SafeSpec == Init /\ [][Next]_vars
Spec == SafeSpec /\ Fairness
-----------------------------------------------------------------------------
(* Every variable has its type; in particular m.state never becomes KILLED *)
(* and MachinesState always names an activity for every machine.           *)
TypeOK ==
  /\ phase \in Phases /\ err \in {"nil", "error"}
  /\ linkState \in {"none", "made"}
  /\ todo \in [Machines -> Diffs]
  /\ requested \in [Machines -> {"ACTIVE", "STOPPED"}]
  /\ worker \in [Machines -> WorkerSteps]
  /\ machineState \in [Machines -> {"ABSENT", "REGISTERED", "STARTED", "STOPPED"}]
  /\ vm \in [Machines -> {"none", "running", "paused", "dead"}]
  /\ strays \subseteq Machines /\ wanted \in [Machines -> {"ACTIVE", "STOPPED"}]
  /\ failed \subseteq Machines /\ readers \subseteq Machines
  /\ writer \in {"free", "waiting", "held"}
  /\ stop \in StopSteps
  /\ killer \in [Machines -> {"off", "kill", "call"}]
  /\ backends \subseteq {"emulation", "peering"}
  /\ taps \subseteq Machines

(* While Virt.Stop takes the host apart, no goroutine of an Update is      *)
(* inside a link call or a firecracker call: the lock keeps them apart     *)
(* even when the signal arrives in the middle of an Update.                *)
InsideCall(m) == worker[m] \in {"linkCall", "inner", "call", "commit"}
TeardownIsAlone ==
  stop \in {"emulation", "peering", "taps"} => \A m \in Machines : ~InsideCall(m)

(* No divergence goes unreported: between two Updates the microVM of a      *)
(* registered machine is as the coordinator has asked for, over all it has *)
(* ever sent, unless an Update that named the machine returned an error    *)
(* (its own call failed, with or without effect, or a link did and the     *)
(* machine diffs were lost) and no call for it has succeeded since.        *)
(* Updates that return nil without a call put nothing right.               *)
Matches(m) ==
  IF wanted[m] = "ACTIVE" THEN vm[m] = "running" ELSE vm[m] # "running"
DivergesOnlyByFailure ==
  phase = "idle" /\ stop = "idle" => \A m \in Registered \ failed : Matches(m)

(* Once Stop has waited for its killers, the only microVMs left are those  *)
(* whose StopVMM failed and those of a start that failed but had booted,   *)
(* which the table has as REGISTERED; a suspension or resumption that      *)
(* failed leaves none.  The same after every further Stop.                 *)
StopLeavesNoVM ==
  stop \notin {"idle", "killing"} =>
    \A m \in Machines \ failed :
      vm[m] \in {"running", "paused"} => m \in strays /\ Starting(m)

(* A Stop that returns no error has stopped both backends, also if an      *)
(* earlier one had failed in between; and until both are stopped every     *)
(* machine in the table has its tap.  (A Stop promises no removed tap.)    *)
StopCleansUp ==
  /\ stop = "returned" => backends = {}
  /\ backends # {} => Registered \subseteq taps

(* An Initialize or Update that begins comes to an end.                    *)
CallsReturn == phase \notin {"new", "idle"} ~> phase = "idle"

(* A Stop that begins comes to an end.                                     *)
StopReturns == stop = "killing" ~> stop \in {"returned", "error"}

(* The microVMs follow the abstract lifecycle: one answer per request, and *)
(* nothing but kills once the host halts.                                  *)
Pending == {m \in Machines : worker[m] \in {"lock", "inner", "call"}}
Lifecycle == INSTANCE MachineLifecycle
               WITH pending <- Pending, halting <- stop # "idle"
ImplementsLifecycle == Lifecycle!Spec
=============================================================================
