---------------------------- MODULE UpdateStream ----------------------------
(***************************************************************************)
(* One timestep on its way from the .zip file to a host: the coordinator   *)
(* cuts the link diffs of the file into requests (celestial/proto_util.py) *)
(* and streams them after one request with all the machine diffs; the      *)
(* server of the host folds the stream into one State (pkg/server) and     *)
(* passes it to the orchestrator when the stream ends.  A diff names a     *)
(* pair of machines once and stands for the link in both directions.       *)
(***************************************************************************)
EXTENDS Naturals, Sequences

CONSTANTS
  Nodes,      \* the machines
  Shapes,     \* latencies and bandwidths of an open link
  Files,      \* the link diffs a file may hold, in order
  Activities, \* the machine diffs a file may hold: sets of machines that change
  MaxDiffs    \* MAX_DIFF_UPDATE_SIZE

NoShape == "none"
NoHop == "none"
Links == {l \in Nodes \X Nodes : l[1] # l[2]}
LinkDiffs == [link : Links, blocked : BOOLEAN, shape : Shapes, next : Nodes,
              prev : Nodes]

ASSUME UpdateStreamAssumption ==
  /\ Files \subseteq Seq(LinkDiffs)
  /\ Activities \subseteq SUBSET Nodes
  /\ MaxDiffs \in Nat \ {0}

VARIABLES
  phase,     \* "cutting", "streaming", "applied" or "aborted"
  file,      \* the link diffs of the file, which stay as they are
  active,    \* the machine diffs of the file
  rest,      \* link_diff_iter: what has not been taken from it
  requests,  \* the link diffs of each request that is still to be received
  inHand,    \* the link diffs of a received request still to be folded
  ns,        \* the NetworkState of the server's Update, for every link
  ms         \* its MachinesState, "unset" before the first request

vars == <<phase, file, active, rest, requests, inHand, ns, ms>>

Reverse(l) == <<l[2], l[1]>>
Untouched == [blocked |-> "untouched", shape |-> NoShape, next |-> NoHop]

Init ==
  /\ phase = "cutting"
  /\ file \in Files /\ rest = file
  /\ active \in Activities
  /\ requests = <<>> /\ inHand = <<>>
  /\ ns = [l \in Links |-> Untouched]
  /\ ms = {}

-----------------------------------------------------------------------------
(* make_update_request_iter, taken to its end before anything is sent.     *)

(* _islice takes one more from its iterator before it sees that it has     *)
(* MaxDiffs, and drops it.                                                 *)
Islice(s) ==
  IF Len(s) <= MaxDiffs THEN [taken |-> s, left |-> <<>>]
  ELSE [taken |-> SubSeq(s, 1, MaxDiffs),
        left  |-> SubSeq(s, MaxDiffs + 2, Len(s))]

Cut ==
  /\ phase = "cutting" /\ rest # <<>>
  /\ requests' = Append(requests, Islice(rest).taken)
  /\ rest' = Islice(rest).left
  /\ UNCHANGED <<phase, file, active, inHand, ns, ms>>

(* The iterator is at its end; the request with the machine diffs is the   *)
(* first of the stream.                                                    *)
Send ==
  /\ phase = "cutting" /\ rest = <<>>
  /\ phase' = "streaming" /\ ms' = active
  /\ UNCHANGED <<file, active, rest, requests, inHand, ns>>

-----------------------------------------------------------------------------
(* server.Update.                                                          *)

Receive ==
  /\ phase = "streaming" /\ inHand = <<>> /\ requests # <<>>
  /\ inHand' = Head(requests) /\ requests' = Tail(requests)
  /\ UNCHANGED <<phase, file, active, rest, ns, ms>>

Entry(d, hop) ==
  IF d.blocked THEN [blocked |-> "yes", shape |-> NoShape, next |-> NoHop]
  ELSE [blocked |-> "no", shape |-> d.shape, next |-> hop]

(* Mutant: a blocked diff blocks one direction only.                       *)
FoldedMutant(state, d) ==
  [state EXCEPT ![d.link] = Entry(d, d.next),
                ![Reverse(d.link)] = IF d.blocked THEN @ ELSE Entry(d, d.prev)]

(* Mutant: an entry is made for the next hop, not for the target.          *)
FoldedByHopMutant(state, d) ==
  LET hop == <<d.link[1], d.next>>
  IN [l \in DOMAIN state \union {hop} |->
        IF l = hop THEN Entry(d, d.next) ELSE state[l]]

Folded(state, d) ==
  [state EXCEPT ![d.link] = Entry(d, d.next),
                ![Reverse(d.link)] = Entry(d, d.prev)]

FoldDiff ==
  /\ phase = "streaming" /\ inHand # <<>>
  /\ ns' = Folded(ns, Head(inHand)) /\ inHand' = Tail(inHand)
  /\ UNCHANGED <<phase, file, active, rest, requests, ms>>

(* io.EOF: o.Update gets the whole State.                                  *)
Apply ==
  /\ phase = "streaming" /\ inHand = <<>> /\ requests = <<>>
  /\ phase' = "applied"
  /\ UNCHANGED <<file, active, rest, requests, inHand, ns, ms>>

(* Mutant: an error of the stream is taken for its end.                    *)
AbortMutant ==
  /\ phase = "streaming" /\ inHand = <<>>
  /\ phase' = "applied"
  /\ UNCHANGED <<file, active, rest, requests, inHand, ns, ms>>

(* Any other error of stream.Recv: nothing is applied.                     *)
Abort ==
  /\ phase = "streaming" /\ inHand = <<>>
  /\ phase' = "aborted"
  /\ UNCHANGED <<file, active, rest, requests, inHand, ns, ms>>

Done == phase \in {"applied", "aborted"} /\ UNCHANGED vars

Next == Cut \/ Send \/ Receive \/ FoldDiff \/ Apply \/ Abort \/ Done

Spec == Init /\ [][Next]_vars
-----------------------------------------------------------------------------
(* Every variable has its type, and the sequences hold link diffs.         *)
Entries == [blocked : {"yes", "no", "untouched"}, shape : Shapes \union {NoShape},
            next : Nodes \union {NoHop}]
TypeOK ==
  /\ phase \in {"cutting", "streaming", "applied", "aborted"}
  /\ file \in Files /\ active \in Activities
  /\ rest \in Seq(LinkDiffs) /\ inHand \in Seq(LinkDiffs)
  /\ requests \in Seq(Seq(LinkDiffs))
  /\ ns \in [Links -> Entries] /\ ms \subseteq Nodes

(* The two directions of a link are always asked for alike but for the     *)
(* next hop: blocked, latency and bandwidth never come apart.              *)
DirectionsAgree ==
  \A l \in Links : /\ ns[l].blocked = ns[Reverse(l)].blocked
                   /\ ns[l].shape = ns[Reverse(l)].shape

(* What is applied is the last diff of every pair of machines in the file, *)
(* up to the diffs that fall between two requests: those are lost, all     *)
(* others arrive, in order, and a stream that breaks applies nothing.      *)
Sent == {i \in 1..Len(file) : i % (MaxDiffs + 1) # 0}
Touching(l) == {i \in Sent : file[i].link \in {l, Reverse(l)}}
LastOf(l) == CHOOSE i \in Touching(l) : \A j \in Touching(l) : j <= i
Wanted(l) ==
  IF Touching(l) = {} THEN Untouched
  ELSE LET d == file[LastOf(l)]
       IN Entry(d, IF d.link = l THEN d.next ELSE d.prev)
AppliedIsSent ==
  phase = "applied" => ns = [l \in Links |-> Wanted(l)] /\ ms = active

(* "Returns a combined iterator of StateUpdateRequests based on iterating  *)
(* over machine_diff_iter and link_diff_iter" (proto_util.py): the links   *)
(* that the file names are the links that are updated.                     *)
NoDiffIsLost ==
  phase = "applied" =>
    \A i \in 1..Len(file) : ns[file[i].link] # Untouched
=============================================================================
