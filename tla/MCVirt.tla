------------------------------- MODULE MCVirt -------------------------------
(* Virt on a host with two machines of its own, with one on another host   *)
(* or without.                                                             *)
EXTENDS Virt, TLC

CONSTANTS m1, m2, r1
Here == {m1, m2}
Everywhere == {m1, m2, r1}
Symmetry == Permutations(Here)

(* The remote machine is asked for whatever m1 is asked for.               *)
Alike == {r \in AllRequests :
            r.diffs[r1] = r.diffs[m1] /\ (r1 \in r.linked <=> m1 \in r.linked)}

(* No guard reads the history.                                             *)
WithoutHistory == <<orchVars, worker, machineVars, lockVars, stopVars, taps>>
=============================================================================
