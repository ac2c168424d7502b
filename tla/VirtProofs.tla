----------------------------- MODULE VirtProofs -----------------------------
(* Theorems about Virt, for every set of machines, every assignment to     *)
(* this host and whether or not Stop may overlap an Update.                *)
EXTENDS Virt, TLAPS

USE DEF Phases, WorkerSteps, StopSteps, Diffs

(* A request an Update may bring is a set of sources and a machine diff.   *)
LEMMA RequestType ==
  ASSUME NEW r \in Requests
  PROVE  r.linked \in SUBSET Machines /\ r.diffs \in [Machines -> Diffs]
  BY VirtAssumption DEF AllRequests

(* Every step of a worker, a killer or Stop keeps every variable's type.   *)
LEMMA TypeStep == TypeOK /\ [Next]_vars => TypeOK'
  <1> SUFFICES ASSUME TypeOK, [Next]_vars PROVE TypeOK'
    OBVIOUS
  <1> USE DEF TypeOK, vars, orchVars, machineVars, histVars, lockVars, stopVars
  <1>1. CASE Initialize
    BY <1>1 DEF Initialize
  <1>2. ASSUME NEW r \in Requests, BeginUpdate(r.linked, r.diffs)
        PROVE TypeOK'
    BY <1>2, RequestType DEF BeginUpdate
  <1>3. CASE EndRegister
    BY <1>3 DEF EndRegister
  <1>4. CASE EndLinks
    <2>1. AfterDiffs \in [Machines -> {"ACTIVE", "STOPPED"}]
      BY DEF AfterDiffs, Changed
    <2>2. QED BY <1>4, <2>1 DEF EndLinks, SpawnMachineWorkers
  <1>5. CASE EndMachines
    BY <1>5 DEF EndMachines
  <1>6. ASSUME NEW m \in Machines, Worker(m) PROVE TypeOK'
    <2>1. CASE RegisterMachine(m)
      BY <2>1 DEF RegisterMachine, RegisterOk, RegisterFails
    <2>2. CASE LinkLock(m)
      BY <2>2 DEF LinkLock, Return
    <2>3. CASE LinkCall(m)
      BY <2>3 DEF LinkCall, Return
    <2>4. CASE MachineLock(m)
      BY <2>4 DEF MachineLock, Return
    <2>5. CASE Decide(m)
      BY <2>5 DEF Decide, Return
    <2>6. CASE CallOk(m)
      BY <2>6 DEF CallOk, Follow
    <2>7. CASE CallFails(m)
      BY <2>7 DEF CallFails, Follow, Return
    <2>8. CASE Commit(m)
      BY <2>8 DEF Commit, Return
    <2>9. QED
      BY <1>6, <2>1, <2>2, <2>3, <2>4, <2>5, <2>6, <2>7, <2>8 DEF Worker
  <1>7. ASSUME NEW m \in Machines, Killer(m) PROVE TypeOK'
    <2>1. CASE KillDecide(m)
      BY <2>1 DEF KillDecide
    <2>2. CASE KillCall(m)
      BY <2>2 DEF KillCall
    <2>3. QED BY <1>7, <2>1, <2>2 DEF Killer
  <1>8. CASE BeginStop
    BY <1>8 DEF BeginStop
  <1>9. CASE StopStep
    BY <1>9 DEF StopStep, StopLock, StopLocked, StopBackend, RemoveTaps
  <1>10. CASE Exit
    BY <1>10 DEF Exit
  <1>11. CASE UNCHANGED vars
    BY <1>11
  <1>12. QED
    BY <1>1, <1>2, <1>3, <1>4, <1>5, <1>6, <1>7, <1>8, <1>9, <1>10, <1>11
       DEF Next, EndPhase

(* Type correctness of the host's machine bookkeeping.                     *)
THEOREM TypeCorrect == SafeSpec => []TypeOK
  <1>1. Init => TypeOK
    BY DEF Init, TypeOK
  <1>2. QED
    BY <1>1, TypeStep, PTL DEF SafeSpec
-----------------------------------------------------------------------------
(* Which steps a worker can be at while the orchestrator is in a phase: a  *)
(* phase begins with every worker of the one before it waited for.         *)
StepsOf(p) ==
  CASE p \in {"new", "idle"} -> {"off"}
    [] p = "registering" -> {"off", "register"}
    [] p \in {"blocking", "links"} -> {"off", "linkLock", "linkCall"}
    [] p = "machines" -> {"off", "lock", "inner", "call", "commit"}

PhaseInv == \A m \in Machines : worker[m] \in StepsOf(phase)

LEMMA PhaseStep == TypeOK /\ PhaseInv /\ [Next]_vars => PhaseInv'
  <1> SUFFICES ASSUME TypeOK, PhaseInv, [Next]_vars PROVE PhaseInv'
    OBVIOUS
  <1> USE DEF TypeOK, PhaseInv, StepsOf, vars, orchVars,
              machineVars, histVars, lockVars, stopVars
  <1>1. CASE Initialize
    BY <1>1 DEF Initialize
  <1>2. ASSUME NEW r \in Requests, BeginUpdate(r.linked, r.diffs)
        PROVE PhaseInv'
    BY <1>2, RequestType DEF BeginUpdate
  <1>3. CASE EndPhase
    BY <1>3 DEF EndPhase, EndRegister, EndLinks, EndMachines, AllOff,
                SpawnMachineWorkers
  <1>4. ASSUME NEW m \in Machines, Worker(m) PROVE PhaseInv'
    BY <1>4 DEF Worker, RegisterMachine, LinkLock, LinkCall, MachineLock,
                Decide, CallOk, CallFails, Commit, Return
  <1>5. ASSUME NEW m \in Machines, Killer(m) PROVE PhaseInv'
    BY <1>5 DEF Killer, KillDecide, KillCall
  <1>6. CASE BeginStop
    BY <1>6 DEF BeginStop
  <1>7. CASE StopStep
    BY <1>7 DEF StopStep, StopLock, StopLocked, StopBackend, RemoveTaps
  <1>8. CASE Exit \/ UNCHANGED vars
    BY <1>8 DEF Exit
  <1>9. QED
    BY <1>1, <1>2, <1>3, <1>4, <1>5, <1>6, <1>7, <1>8 DEF Next
-----------------------------------------------------------------------------
(* The lock argument.  A goroutine holds the read lock exactly while it is *)
(* inside a call; Stop is the only writer that keeps the lock, and it got  *)
(* it with no reader left.                                                 *)
Tearing == stop \in {"emulation", "peering", "taps"}

LockInv ==
  /\ \A m \in Machines : m \in readers <=> InsideCall(m)
  /\ writer = "waiting" <=> stop = "locking"
  /\ writer = "held" <=> Tearing
  /\ writer = "held" => readers = {}

LEMMA LockStep ==
  TypeOK /\ PhaseInv /\ LockInv /\ [Next]_vars => LockInv'
  <1> SUFFICES ASSUME TypeOK, PhaseInv, LockInv, [Next]_vars PROVE LockInv'
    OBVIOUS
  <1> USE DEF TypeOK, LockInv, Tearing, InsideCall, vars, orchVars,
              machineVars, histVars, lockVars,
              stopVars
  <1>1. CASE Initialize
    BY <1>1 DEF Initialize, PhaseInv, StepsOf
  <1>2. ASSUME NEW r \in Requests, BeginUpdate(r.linked, r.diffs)
        PROVE LockInv'
    BY <1>2, RequestType DEF BeginUpdate, PhaseInv, StepsOf
  <1>3. CASE EndRegister
    BY <1>3 DEF EndRegister, AllOff
  <1>4. CASE EndLinks
    BY <1>4 DEF EndLinks, AllOff, SpawnMachineWorkers
  <1>5. CASE EndMachines
    BY <1>5 DEF EndMachines
  <1>6. ASSUME NEW m \in Machines, Worker(m) PROVE LockInv'
    <2>1. CASE RegisterMachine(m)
      BY <2>1 DEF RegisterMachine, RegisterOk, RegisterFails
    <2>2. CASE LinkLock(m)
      BY <2>2 DEF LinkLock, CanRLock, Return
    <2>3. CASE LinkCall(m)
      BY <2>3 DEF LinkCall, Return
    <2>4. CASE MachineLock(m)
      BY <2>4 DEF MachineLock, CanRLock, Return
    <2>5. CASE Decide(m)
      BY <2>5 DEF Decide, Return
    <2>6. CASE CallOk(m)
      BY <2>6 DEF CallOk, Follow
    <2>7. CASE CallFails(m)
      BY <2>7 DEF CallFails, Follow, Return
    <2>8. CASE Commit(m)
      BY <2>8 DEF Commit, Return
    <2>9. QED
      BY <1>6, <2>1, <2>2, <2>3, <2>4, <2>5, <2>6, <2>7, <2>8 DEF Worker
  <1>7. ASSUME NEW m \in Machines, Killer(m) PROVE LockInv'
    BY <1>7 DEF Killer, KillDecide, KillCall
  <1>8. CASE BeginStop
    BY <1>8 DEF BeginStop
  <1>9. CASE StopStep
    BY <1>9 DEF StopStep, StopLock, StopLocked, StopBackend, RemoveTaps
  <1>10. CASE Exit
    BY <1>10 DEF Exit
  <1>11. CASE UNCHANGED vars
    BY <1>11
  <1>12. QED
    BY <1>1, <1>2, <1>3, <1>4, <1>5, <1>6, <1>7, <1>8, <1>9, <1>10, <1>11
       DEF Next, EndPhase

(* While Stop takes the host apart no Update goroutine is inside a call,   *)
(* even if the signal comes in the middle of an Update.                    *)
THEOREM TeardownAlone == SafeSpec => []TeardownIsAlone
  <1>1. Init => PhaseInv /\ LockInv
    BY DEF Init, PhaseInv, StepsOf, LockInv, InsideCall, Tearing
  <1>2. TypeOK /\ LockInv => TeardownIsAlone
    BY DEF LockInv, TeardownIsAlone, Tearing
  <1>3. QED
    BY <1>1, <1>2, PhaseStep, LockStep, TypeCorrect, PTL DEF SafeSpec
-----------------------------------------------------------------------------
(* What firecracker runs and what the machine table says.  A machine that   *)
(* no call has failed for has the microVM the table says, except while a    *)
(* worker has made its call and not yet recorded it.  Whatever failed, a    *)
(* microVM is in the table as booted, or is what a failed start has left,   *)
(* and Stop kills only the former, which the table never learns.            *)
Booted == {"STARTED", "STOPPED"}
Live(m) == vm[m] \in {"running", "paused"}
VMOf(s) ==
  CASE s \in {"ABSENT", "REGISTERED"} -> "none"
    [] s = "STARTED" -> "running"
    [] s = "STOPPED" -> "paused"

TableInv ==
  \A m \in Machines :
    /\ vm[m] = "dead" => stop # "idle" /\ machineState[m] \in Booted
    /\ Live(m) => \/ machineState[m] \in Booted \/ worker[m] = "commit"
                  \/ Starting(m) /\ m \in strays
    /\ machineState[m] \in Booted \/ worker[m] = "commit" => vm[m] # "none"
    /\ stop = "idle" /\ m \notin failed /\ worker[m] # "commit" =>
         vm[m] = VMOf(machineState[m])
    /\ stop = "idle" /\ worker[m] = "commit" =>
         vm[m] = IF requested[m] = "ACTIVE" THEN "running" ELSE "paused"
    /\ worker[m] \in {"call", "commit"} => NeedsCall(m)
    /\ machineState[m] = "ABSENT" => vm[m] = "none" /\ ~InsideCall(m)
    /\ worker[m] = "register" => machineState[m] = "ABSENT"
    /\ phase \in {"new", "registering"} => requested[m] = "STOPPED"
    /\ phase = "new" => machineState[m] = "ABSENT"
    /\ killer[m] = "call" => machineState[m] \in Booted
    /\ stop \notin {"killing"} => killer[m] = "off"

LEMMA TableStep == TypeOK /\ PhaseInv /\ TableInv /\ [Next]_vars => TableInv'
  <1> SUFFICES ASSUME TypeOK, PhaseInv, TableInv, [Next]_vars PROVE TableInv'
    OBVIOUS
  <1> USE DEF TypeOK, TableInv, Booted, Live, Starting, VMOf, NeedsCall, InsideCall, vars, orchVars,
              machineVars, histVars, lockVars, stopVars
  <1>1. CASE Initialize
    BY <1>1 DEF Initialize
  <1>2. ASSUME NEW r \in Requests, BeginUpdate(r.linked, r.diffs)
        PROVE TableInv'
    BY <1>2, RequestType DEF BeginUpdate, PhaseInv, StepsOf
  <1>3. CASE EndRegister
    BY <1>3 DEF EndRegister, AllOff
  <1>4. CASE EndLinks
    BY <1>4 DEF EndLinks, AllOff, SpawnMachineWorkers, AfterDiffs, Changed
  <1>5. CASE EndMachines
    BY <1>5 DEF EndMachines, AllOff
  <1>6. ASSUME NEW m \in Machines, Worker(m) PROVE TableInv'
    <2>1. CASE RegisterMachine(m)
      BY <2>1 DEF RegisterMachine, RegisterOk, RegisterFails, PhaseInv, StepsOf
    <2>2. CASE LinkLock(m)
      BY <2>2 DEF LinkLock, Return, Registered, PhaseInv, StepsOf
    <2>3. CASE LinkCall(m)
      BY <2>3 DEF LinkCall, Return
    <2>4. CASE MachineLock(m)
      BY <2>4 DEF MachineLock, Return, Registered, PhaseInv, StepsOf
    <2>5. CASE Decide(m)
      BY <2>5 DEF Decide, Return
    <2>6. CASE CallOk(m)
      BY <2>6 DEF CallOk, CanFollow, Follow
    <2>7. CASE CallFails(m)
      BY <2>7 DEF CallFails, Follow, Return
    <2>8. CASE Commit(m)
      BY <2>8 DEF Commit, Return, PhaseInv, StepsOf
    <2>9. QED
      BY <1>6, <2>1, <2>2, <2>3, <2>4, <2>5, <2>6, <2>7, <2>8 DEF Worker
  <1>7. ASSUME NEW m \in Machines, Killer(m) PROVE TableInv'
    BY <1>7 DEF Killer, KillDecide, KillCall, ToKill, Registered
  <1>8. CASE BeginStop
    BY <1>8 DEF BeginStop, Registered
  <1>9. CASE StopStep
    BY <1>9 DEF StopStep, StopLock, StopLocked, StopBackend, RemoveTaps
  <1>10. CASE Exit \/ UNCHANGED vars
    BY <1>10 DEF Exit
  <1>11. QED
    BY <1>1, <1>2, <1>3, <1>4, <1>5, <1>6, <1>7, <1>8, <1>9, <1>10
       DEF Next, EndPhase

LEMMA TableHolds == SafeSpec => [](TypeOK /\ PhaseInv /\ TableInv)
  <1>1. Init => PhaseInv /\ TableInv
    BY DEF Init, PhaseInv, StepsOf, TableInv, Booted, Live, VMOf, InsideCall
  <1>2. QED
    BY <1>1, PhaseStep, TableStep, TypeCorrect, PTL DEF SafeSpec
-----------------------------------------------------------------------------
(* What was sent, what the orchestrator has recorded and what the table     *)
(* says: a machine that no worker is busy with and that no Update has       *)
(* failed for has the same in all three, but for the diff in progress.      *)
Busy(m) == worker[m] \in {"lock", "inner", "call", "commit"}

SettledInv ==
  \A m \in Machines :
    /\ phase # "links" => todo[m] = "keep"
    /\ todo[m] # "keep" => wanted[m] = todo[m]
    /\ Busy(m) => wanted[m] = requested[m]
    /\ stop = "idle" /\ m \notin failed =>
         /\ todo[m] = "keep" => wanted[m] = requested[m]
         /\ machineState[m] # "ABSENT" /\ ~Busy(m) =>
              (machineState[m] = "STARTED" <=> requested[m] = "ACTIVE")

LEMMA SettledStep ==
  TypeOK /\ PhaseInv /\ TableInv /\ SettledInv /\ [Next]_vars => SettledInv'
  <1> SUFFICES ASSUME TypeOK, PhaseInv, TableInv, SettledInv, [Next]_vars
               PROVE SettledInv'
    OBVIOUS
  <1> USE DEF TypeOK, SettledInv, Busy, vars, orchVars,
              machineVars, histVars, lockVars,
              stopVars
  <1>1. CASE Initialize
    BY <1>1 DEF Initialize, TableInv
  <1>2. ASSUME NEW r \in Requests, BeginUpdate(r.linked, r.diffs)
        PROVE SettledInv'
    BY <1>2, RequestType DEF BeginUpdate, PhaseInv, StepsOf
  <1>3. CASE EndRegister
    BY <1>3 DEF EndRegister, AllOff
  <1>4. CASE EndLinks
    BY <1>4 DEF EndLinks, AllOff, SpawnMachineWorkers, AfterDiffs, Changed
  <1>5. CASE EndMachines
    BY <1>5 DEF EndMachines, AllOff
  <1>6. ASSUME NEW m \in Machines, Worker(m) PROVE SettledInv'
    <2>1. CASE RegisterMachine(m)
      BY <2>1 DEF RegisterMachine, RegisterOk, RegisterFails, PhaseInv, StepsOf,
                  TableInv, VMOf
    <2>2. CASE LinkLock(m)
      BY <2>2 DEF LinkLock, Return
    <2>3. CASE LinkCall(m)
      BY <2>3 DEF LinkCall, Return
    <2>4. CASE MachineLock(m)
      BY <2>4 DEF MachineLock, Return, Registered
    <2>5. CASE Decide(m)
      BY <2>5 DEF Decide, Return, NeedsCall, TableInv, VMOf
    <2>6. CASE CallOk(m)
      BY <2>6 DEF CallOk, Follow
    <2>7. CASE CallFails(m)
      BY <2>7 DEF CallFails, Return, NeedsCall, TableInv, VMOf
    <2>8. CASE Commit(m)
      BY <2>8 DEF Commit, Return, TableInv, NeedsCall, PhaseInv, StepsOf
    <2>9. QED
      BY <1>6, <2>1, <2>2, <2>3, <2>4, <2>5, <2>6, <2>7, <2>8 DEF Worker
  <1>7. ASSUME NEW m \in Machines, Killer(m) PROVE SettledInv'
    BY <1>7 DEF Killer, KillDecide, KillCall, TableInv
  <1>8. CASE BeginStop
    BY <1>8 DEF BeginStop
  <1>9. CASE StopStep
    BY <1>9 DEF StopStep, StopLock, StopLocked, StopBackend, RemoveTaps
  <1>10. CASE Exit \/ UNCHANGED vars
    BY <1>10 DEF Exit
  <1>11. QED
    BY <1>1, <1>2, <1>3, <1>4, <1>5, <1>6, <1>7, <1>8, <1>9, <1>10
       DEF Next, EndPhase

(* Between Updates, the microVM of a registered machine is as the          *)
(* coordinator has asked for unless an Update has failed for it and no     *)
(* call has succeeded since, whatever effects the failed calls had.        *)
THEOREM DivergenceIsFailure == SafeSpec => []DivergesOnlyByFailure
  <1>1. Init => SettledInv
    BY DEF Init, SettledInv, Busy
  <1>2. TypeOK /\ PhaseInv /\ TableInv /\ SettledInv => DivergesOnlyByFailure
    BY DEF TypeOK, PhaseInv, StepsOf, TableInv, VMOf, SettledInv, Busy, Matches,
           DivergesOnlyByFailure, Registered
  <1>3. QED
    BY <1>1, <1>2, SettledStep, TableHolds, PTL DEF SafeSpec
-----------------------------------------------------------------------------
(* Stop as the coordinator sends it: never during Initialize or Update.    *)
StoppedInv ==
  /\ stop # "idle" => phase \in {"new", "idle"}
  /\ stop # "idle" =>
       \A m \in Machines :
         killer[m] = "off" /\ m \notin failed /\ Live(m) => m \in strays /\ Starting(m)

LEMMA StoppedStep ==
  ASSUME StopMayOverlap = FALSE
  PROVE  TypeOK /\ PhaseInv /\ TableInv /\ StoppedInv /\ [Next]_vars => StoppedInv'
  <1> SUFFICES ASSUME TypeOK, PhaseInv, TableInv, StoppedInv, [Next]_vars
               PROVE StoppedInv'
    OBVIOUS
  <1> USE DEF TypeOK, StoppedInv, Booted, Live, Starting, vars, orchVars,
              machineVars, histVars, lockVars, stopVars
  <1>1. CASE Initialize
    BY <1>1 DEF Initialize, MayCall
  <1>2. ASSUME NEW r \in Requests, BeginUpdate(r.linked, r.diffs)
        PROVE StoppedInv'
    BY <1>2, RequestType DEF BeginUpdate, MayCall
  <1>3. CASE EndPhase
    BY <1>3 DEF EndPhase, EndRegister, EndLinks, EndMachines
  <1>4. ASSUME NEW m \in Machines, Worker(m) PROVE StoppedInv'
    <2>1. stop = "idle"
      BY <1>4 DEF PhaseInv, StepsOf, Worker, RegisterMachine, LinkLock, LinkCall,
                  MachineLock, Decide, CallOk, CallFails, Commit
    <2>2. stop' = stop
      BY <1>4 DEF Worker, RegisterMachine, LinkLock, LinkCall, MachineLock,
                  Decide, CallOk, CallFails, Commit
    <2>3. QED BY <2>1, <2>2
  <1>5. ASSUME NEW m \in Machines, Killer(m) PROVE StoppedInv'
    <2>1. CASE KillDecide(m)
      BY <2>1 DEF KillDecide, ToKill, Registered, TableInv, VMOf, PhaseInv, StepsOf
    <2>2. CASE KillCall(m)
      BY <2>2 DEF KillCall
    <2>3. QED BY <1>5, <2>1, <2>2 DEF Killer
  <1>6. CASE BeginStop
    BY <1>6 DEF BeginStop, Registered, TableInv, VMOf, PhaseInv, StepsOf
  <1>7. CASE StopStep
    BY <1>7 DEF StopStep, StopLock, StopLocked, StopBackend, RemoveTaps
  <1>8. CASE Exit \/ UNCHANGED vars
    BY <1>8 DEF Exit
  <1>9. QED
    BY <1>1, <1>2, <1>3, <1>4, <1>5, <1>6, <1>7, <1>8 DEF Next

(* When the coordinator waits for its Updates before it sends Stop, the     *)
(* only microVMs any Stop leaves behind are those whose StopVMM failed and *)
(* those of failed starts.                                                 *)
THEOREM StopKillsAll ==
  ASSUME StopMayOverlap = FALSE
  PROVE  SafeSpec => []StopLeavesNoVM
  <1>1. Init => StoppedInv
    BY DEF Init, StoppedInv
  <1>2. TypeOK /\ PhaseInv /\ TableInv /\ StoppedInv /\ [Next]_vars => StoppedInv'
    BY StoppedStep
  <1>3. TableInv /\ StoppedInv => StopLeavesNoVM
    BY DEF TableInv, StoppedInv, Live, StopLeavesNoVM
  <1>4. QED
    BY <1>1, <1>2, <1>3, TableHolds, PTL DEF SafeSpec
-----------------------------------------------------------------------------
(* What Stop has taken apart at each of its steps, in this or an earlier    *)
(* call of it.                                                             *)
CleanInv ==
  /\ stop = "peering" => "emulation" \notin backends
  /\ stop \in {"taps", "returned"} => backends = {}
  /\ backends # {} => Registered \subseteq taps

LEMMA CleanStep == TypeOK /\ TableInv /\ CleanInv /\ [Next]_vars => CleanInv'
  <1> SUFFICES ASSUME TypeOK, TableInv, CleanInv, [Next]_vars PROVE CleanInv'
    OBVIOUS
  <1> USE DEF TypeOK, vars, orchVars, machineVars, histVars, lockVars, stopVars
  <1>1. CASE UNCHANGED <<stop, backends, taps, machineState>>
    BY <1>1 DEF CleanInv, Registered
  <1>2. ASSUME NEW m \in Machines, Worker(m) PROVE CleanInv'
    <2>1. CASE RegisterMachine(m)
      BY <2>1 DEF RegisterMachine, RegisterOk, RegisterFails, CleanInv, Registered
    <2>2. CASE Commit(m)
      BY <2>2 DEF Commit, CleanInv, Registered, TableInv, InsideCall
    <2>3. CASE ~RegisterMachine(m) /\ ~Commit(m)
      BY <1>1, <1>2, <2>3 DEF Worker, LinkLock, LinkCall, MachineLock, Decide,
                              CallOk, CallFails
    <2>4. QED BY <2>1, <2>2, <2>3
  <1>3. ASSUME NEW m \in Machines, Killer(m) PROVE CleanInv'
    BY <1>1, <1>3 DEF Killer, KillDecide, KillCall
  <1>4. CASE Initialize \/ EndPhase
    BY <1>1, <1>4 DEF Initialize, EndPhase, EndRegister, EndLinks, EndMachines
  <1>5. ASSUME NEW r \in Requests, BeginUpdate(r.linked, r.diffs) PROVE CleanInv'
    BY <1>1, <1>5 DEF BeginUpdate
  <1>6. CASE BeginStop \/ StopLock \/ StopLocked
    BY <1>6 DEF BeginStop, StopLock, StopLocked, CleanInv, Registered
  <1>7. CASE StopBackend("emulation", "peering") \/ StopBackend("peering", "taps")
    BY <1>7 DEF StopBackend, CleanInv, Registered
  <1>8. CASE RemoveTaps
    BY <1>8 DEF RemoveTaps, CleanInv, Registered
  <1>9. CASE Exit \/ UNCHANGED vars
    BY <1>1, <1>9 DEF Exit
  <1>10. QED
    BY <1>2, <1>3, <1>4, <1>5, <1>6, <1>7, <1>8, <1>9 DEF Next, StopStep

(* A Stop that returns nil has stopped both backends, and no tap of a      *)
(* registered machine is gone before that, whatever Updates overlap.       *)
THEOREM StopCleans == SafeSpec => []StopCleansUp
  <1>1. Init => CleanInv
    BY DEF Init, CleanInv, Registered
  <1>2. CleanInv => StopCleansUp
    BY DEF CleanInv, StopCleansUp
  <1>3. QED
    BY <1>1, <1>2, CleanStep, TableHolds, PTL DEF SafeSpec
-----------------------------------------------------------------------------
LEMMA LifecycleStep ==
  ASSUME StopMayOverlap = FALSE
  PROVE  TypeOK /\ PhaseInv /\ TableInv /\ StoppedInv /\ [Next]_vars
           => [Lifecycle!Next]_(Lifecycle!vars)
  <1> SUFFICES ASSUME TypeOK, PhaseInv, TableInv, StoppedInv, [Next]_vars
               PROVE [Lifecycle!Next]_(Lifecycle!vars)
    OBVIOUS
  <1> DEFINE Stutter == UNCHANGED <<requested, vm, Pending, stop # "idle">>
  <1>s. Stutter => UNCHANGED Lifecycle!vars
    BY DEF Lifecycle!vars
  <1>h. ASSUME NEW m \in Machines, Worker(m) PROVE stop = "idle" /\ UNCHANGED stop
    BY <1>h DEF TypeOK, PhaseInv, StepsOf, StoppedInv, stopVars, Worker,
                RegisterMachine, LinkLock, LinkCall, MachineLock, Decide, CallOk,
                CallFails, Commit
  <1> USE DEF TypeOK, Pending, vars, orchVars,
              machineVars, histVars, lockVars, stopVars
  <1>1. CASE Initialize
    BY <1>1, <1>s DEF Initialize, PhaseInv, StepsOf
  <1>2. ASSUME NEW r \in Requests, BeginUpdate(r.linked, r.diffs)
        PROVE Stutter
    BY <1>2, RequestType DEF BeginUpdate, PhaseInv, StepsOf
  <1>3. CASE EndRegister
    BY <1>3, <1>s DEF EndRegister, AllOff
  <1>4. CASE EndMachines
    BY <1>4, <1>s DEF EndMachines, AllOff
  <1>5. CASE EndLinks
    <2>1. CASE err # "nil" \/ phase = "blocking"
      BY <1>5, <2>1, <1>s DEF EndLinks, AllOff
    <2>2. CASE ~(err # "nil" \/ phase = "blocking")
      <3>1. stop = "idle" /\ Pending = {} /\ UNCHANGED <<stop, vm>>
        BY <1>5, <2>2 DEF EndLinks, AllOff, StoppedInv
      <3>2. Pending' = Changed
        BY <1>5, <2>2 DEF EndLinks, SpawnMachineWorkers, Changed
      <3>3. requested' = [m \in Machines |->
                            IF m \in Changed
                            THEN IF requested[m] = "ACTIVE" THEN "STOPPED" ELSE "ACTIVE"
                            ELSE requested[m]]
        BY <1>5, <2>2 DEF EndLinks, SpawnMachineWorkers, AfterDiffs, Changed
      <3>4. Changed \in SUBSET Machines
        BY DEF Changed
      <3>5. \E changed \in SUBSET Machines : Lifecycle!Request(changed)
        <4> DEFINE D == Changed
        <4>1. Pending' = D /\ D \in SUBSET Machines
          BY <3>2, <3>4
        <4>2. requested' = [m \in Machines |->
                              IF m \in D
                              THEN IF requested[m] = "ACTIVE" THEN "STOPPED" ELSE "ACTIVE"
                              ELSE requested[m]]
          BY <3>3
        <4> HIDE DEF D
        <4>3. QED BY <3>1, <4>1, <4>2 DEF Lifecycle!Request
      <3>6. QED BY <3>5 DEF Lifecycle!Next
    <2>3. QED BY <2>1, <2>2
  <1>6. ASSUME NEW m \in Machines, Worker(m)
        PROVE  Lifecycle!Apply(m) \/ Lifecycle!Decline(m) \/ Stutter
    <2> USE <1>h, <1>6
    <2>1. CASE RegisterMachine(m)
      BY <2>1 DEF RegisterMachine
    <2>2. CASE LinkLock(m)
      BY <2>2 DEF LinkLock, Return
    <2>3. CASE LinkCall(m)
      BY <2>3 DEF LinkCall, Return
    <2>4. CASE MachineLock(m)
      <3>1. Pending' = Pending \/ (m \in Pending /\ Pending' = Pending \ {m})
        BY <2>4 DEF MachineLock, Return
      <3>2. QED BY <2>4, <3>1 DEF MachineLock, Lifecycle!Decline
    <2>5. CASE Decide(m)
      <3>1. Pending' = Pending \/ (m \in Pending /\ Pending' = Pending \ {m})
        BY <2>5 DEF Decide, Return
      <3>2. QED BY <2>5, <3>1 DEF Decide, Lifecycle!Decline
    <2>6. CASE CallOk(m)
      <3>1. m \in Pending /\ Pending' = Pending \ {m}
        BY <2>6 DEF CallOk, Follow
      <3>2. vm' = [vm EXCEPT ![m] = Lifecycle!Follow(@, requested[m])]
        BY <2>6 DEF CallOk, CanFollow, Follow, Starting, NeedsCall, TableInv,
                    Lifecycle!Follow
      <3>3. QED BY <2>6, <3>1, <3>2 DEF CallOk, Lifecycle!Apply
    <2>7. CASE CallFails(m)
      <3>1. m \in Pending /\ Pending' = Pending \ {m} /\ UNCHANGED requested
        BY <2>7 DEF CallFails, Return
      <3>2. CASE UNCHANGED vm
        BY <3>1, <3>2 DEF Lifecycle!Decline
      <3>3. CASE CanFollow(m) /\ Follow(m)
        <4>1. vm' = [vm EXCEPT ![m] = Lifecycle!Follow(@, requested[m])]
          BY <2>7, <3>3 DEF CallFails, CanFollow, Follow, Starting, NeedsCall,
                            TableInv, Lifecycle!Follow
        <4>2. QED BY <3>1, <4>1 DEF Lifecycle!Apply
      <3>4. QED BY <2>7, <3>2, <3>3 DEF CallFails
    <2>8. CASE Commit(m)
      BY <2>8 DEF Commit, Return
    <2>9. QED
      BY <2>1, <2>2, <2>3, <2>4, <2>5, <2>6, <2>7, <2>8 DEF Worker
  <1>7. ASSUME NEW m \in Machines, Killer(m)
        PROVE  Lifecycle!Kill(m) \/ Stutter
    <2>1. CASE KillDecide(m)
      BY <2>1 DEF KillDecide
    <2>2. CASE KillCall(m)
      BY <2>2 DEF KillCall, Lifecycle!Kill, TableInv
    <2>3. QED BY <1>7, <2>1, <2>2 DEF Killer
  <1>8. CASE BeginStop
    <2>1. CASE stop = "idle"
      <3>1. Lifecycle!Halt
        BY <1>8, <2>1 DEF BeginStop, PhaseInv, StepsOf, Lifecycle!Halt
      <3>2. QED BY <3>1 DEF Lifecycle!Next
    <2>2. CASE stop # "idle"
      BY <1>8, <2>2, <1>s DEF BeginStop
    <2>3. QED BY <2>1, <2>2
  <1>9. CASE StopStep
    BY <1>9, <1>s DEF StopStep, StopLock, StopLocked, StopBackend, RemoveTaps
  <1>10. CASE Exit \/ UNCHANGED vars
    BY <1>10, <1>s DEF Exit
  <1>11. QED
    BY <1>1, <1>2, <1>3, <1>4, <1>5, <1>6, <1>7, <1>8, <1>9, <1>10, <1>s
       DEF Next, EndPhase, Lifecycle!Next

(* When Stop does not overlap an Update, the locks, the goroutines and the  *)
(* machine table implement the abstract lifecycle of the microVMs.         *)
THEOREM Refinement ==
  ASSUME StopMayOverlap = FALSE
  PROVE  SafeSpec => ImplementsLifecycle
  <1>1. Init => StoppedInv /\ Lifecycle!Init
    BY DEF Init, StoppedInv, Lifecycle!Init, Pending
  <1>2. TypeOK /\ PhaseInv /\ TableInv /\ StoppedInv /\ [Next]_vars => StoppedInv'
    BY StoppedStep
  <1>3. TypeOK /\ PhaseInv /\ TableInv /\ StoppedInv /\ [Next]_vars
          => [Lifecycle!Next]_(Lifecycle!vars)
    BY LifecycleStep
  <1>4. QED
    BY <1>1, <1>2, <1>3, TableHolds, PTL
       DEF SafeSpec, ImplementsLifecycle, Lifecycle!Spec
=============================================================================
