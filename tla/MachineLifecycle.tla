-------------------------- MODULE MachineLifecycle --------------------------
(***************************************************************************)
(* What a Celestial host promises about the microVMs it emulates, with no  *)
(* locks, no goroutines and no bookkeeping: the coordinator asks for a set *)
(* of machines to become active or stopped, every machine answers the      *)
(* request at most once (a hypervisor call can fail, with its effect or    *)
(* without, and a machine that lives on another host answers by doing      *)
(* nothing), and once the host halts, microVMs are only ever killed.       *)
(*                                                                         *)
(* This is the abstract specification that Virt is shown to implement.     *)
(***************************************************************************)
CONSTANT Machines  \* every machine of the constellation

VARIABLES
  requested,  \* the activity last asked for, per machine
  vm,         \* the microVM of each machine, as the hypervisor has it
  pending,    \* machines that have not yet answered the current request
  halting     \* the host is shutting down

vars == <<requested, vm, pending, halting>>

Activity == {"ACTIVE", "STOPPED"}
VMState  == {"none", "running", "paused", "dead"}

(* The microVM a machine should have once it has followed the request `a`: *)
(* a machine that was never active is not booted just to be suspended.     *)
Follow(v, a) ==
  IF a = "ACTIVE" THEN "running"
  ELSE IF v = "none" THEN "none" ELSE "paused"

Init ==
  /\ requested = [m \in Machines |-> "STOPPED"]
  /\ vm = [m \in Machines |-> "none"]
  /\ pending = {}
  /\ halting = FALSE

(* A request replaces the activity of the machines in `changed`; they are  *)
(* exactly the machines whose activity differs from before.                *)
Request(changed) ==
  /\ ~halting /\ pending = {}
  /\ requested' = [m \in Machines |->
                     IF m \in changed
                     THEN IF requested[m] = "ACTIVE" THEN "STOPPED" ELSE "ACTIVE"
                     ELSE requested[m]]
  /\ pending' = changed
  /\ UNCHANGED <<vm, halting>>

Apply(m) ==
  /\ ~halting /\ m \in pending
  /\ vm' = [vm EXCEPT ![m] = Follow(@, requested[m])]
  /\ pending' = pending \ {m}
  /\ UNCHANGED <<requested, halting>>

Decline(m) ==
  /\ m \in pending
  /\ pending' = pending \ {m}
  /\ UNCHANGED <<requested, vm, halting>>

Halt ==
  /\ ~halting /\ pending = {}
  /\ halting' = TRUE
  /\ UNCHANGED <<requested, vm, pending>>

Kill(m) ==
  /\ halting /\ vm[m] \in {"running", "paused"}
  /\ vm' = [vm EXCEPT ![m] = "dead"]
  /\ UNCHANGED <<requested, pending, halting>>

Next ==
  \/ \E changed \in SUBSET Machines : Request(changed)
  \/ \E m \in Machines : Apply(m) \/ Decline(m) \/ Kill(m)
  \/ Halt

Spec == Init /\ [][Next]_vars
=============================================================================
