-------------------------- MODULE EmulatedNetwork ---------------------------
(***************************************************************************)
(* What a Celestial host promises about the links of its machines: every   *)
(* link has a shape (its state, a rate, a delay) that the network          *)
(* enforces now, a new goal makes some parts of some shapes pending, and a *)
(* pending part moves once, straight from its old value to the goal's.     *)
(* Nothing else moves: a link no goal touches keeps its shape, and one     *)
(* that is blocked keeps for later the rate and delay it had.  A call that *)
(* fails leaves its own link with any shape, and marks it.                 *)
(*                                                                         *)
(* This is the abstract specification that Orchestrator is shown to        *)
(* implement on either emulation backend.                                  *)
(***************************************************************************)
CONSTANTS
  Links,
  Parts  \* of a shape: "state", which is "open" or "blocked", and others

VARIABLES
  shape,    \* per link, what the network does: a value for every part
  goal,     \* per link, what it should do
  pending,  \* per link, the parts that have yet to move
  faulty    \* links on which a call has failed

vars == <<shape, goal, pending, faulty>>

(* A blocked link has reached its goal whatever its rate and delay.        *)
Reached(l, part) ==
  \/ shape[l][part] = goal[l][part]
  \/ part # "state" /\ goal[l]["state"] = "blocked"

(* The host starts with every link open, and its first goal blocks them.   *)
Init ==
  /\ goal = shape
  /\ \A l \in Links : shape[l]["state"] = "open"
  /\ pending = [l \in Links |-> {}]
  /\ faulty = {}

Retarget ==
  /\ \A l \in Links : pending[l] = {}
  /\ \A l \in Links \ faulty, part \in Parts :
       part \notin pending'[l] => Reached(l, part)'
  /\ UNCHANGED <<shape, faulty>>

Move(l, part) ==
  /\ part \in pending[l]
  /\ shape' = [shape EXCEPT ![l] = [@ EXCEPT ![part] = goal[l][part]]]
  /\ pending' = [pending EXCEPT ![l] = @ \ {part}]
  /\ UNCHANGED <<goal, faulty>>

Fail(l, part) ==
  /\ part \in pending[l]
  /\ shape' = [shape EXCEPT ![l] = shape'[l]]
  /\ pending' = [pending EXCEPT ![l] = @ \ {part}]
  /\ faulty' = faulty \union {l}
  /\ UNCHANGED goal

Next ==
  \/ Retarget
  \/ \E l \in Links, part \in Parts : Move(l, part) \/ Fail(l, part)

Spec == Init /\ [][Next]_vars
=============================================================================
