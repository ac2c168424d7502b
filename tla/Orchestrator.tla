---------------------------- MODULE Orchestrator ----------------------------
(***************************************************************************)
(* The network side of one Celestial host: Orchestrator.Initialize and the *)
(* link phase of Orchestrator.Update (pkg/orchestrator), the link calls of *)
(* pkg/virt that discard remote sources, and either emulation backend      *)
(* (EbpfLink, NetemLink).                                                  *)
(*                                                                         *)
(* An Update runs one goroutine per source machine; it goes through the    *)
(* links of its source in any order, and takes a link through block or     *)
(* unblock, latency and bandwidth, comparing with NetworkState each time.  *)
(* Virt's locks, the machine phase and Stop are the subject of Virt.       *)
(***************************************************************************)
EXTENDS Integers, FiniteSets

CONSTANTS
  Machines,    \* every machine of the constellation
  Local,       \* the machines of this host
  Pairs,       \* the links, one direction of each
  Latencies,   \* the latencies, in us, that a NetworkDiff can carry
  Bandwidths,  \* the bandwidths that a NetworkDiff can carry
  Hops,        \* the next and previous hops that a NetworkDiff can carry
  NoHop,       \* the zero MachineID
  Backend,     \* "ebpf" or "netem"
  MaxFaulty    \* bound: links on which calls may fail

ASSUME OrchestratorAssumption ==
  /\ Local \subseteq Machines
  /\ Pairs \subseteq Machines \X Machines
  /\ \A p \in Pairs : p[1] # p[2] /\ <<p[2], p[1]>> \notin Pairs
  /\ Latencies \subseteq Nat /\ Bandwidths \subseteq Nat
  /\ Backend \in {"ebpf", "netem"}
  /\ MaxFaulty \in Nat

Reverse(l) == <<l[2], l[1]>>
Links == Pairs \union {Reverse(p) : p \in Pairs}
LocalLinks == {l \in Links : l[1] \in Local}

Ebpf == INSTANCE EbpfLink
Netem == INSTANCE NetemLink

VARIABLES
  phase,       \* what Initialize or Update is doing
  err,         \* `e` of the running Initialize or Update
  result,      \* what the last Initialize or Update returned
  registered,  \* the keys of v.machines
  made,        \* the links that NetworkState has an entry for
  known,       \* Orchestrator.State.NetworkState
  want,        \* the Link last asked for, by Initialize or an Update
  step,        \* where the goroutine of a link's source is with the link
  kernel,      \* the backend's and the kernel's state of a link
  lost,        \* history: links a call of this Initialize or Update failed on
  faulty       \* history: links a call has ever failed on

vars == <<phase, err, result, registered, made, known, want, step, kernel,
          lost, faulty>>
callVars == <<err, kernel, lost, faulty>>

Steps == {"off", "block", "todo", "latency", "bandwidth"}
LinkStates == [blocked : BOOLEAN, latency : Nat, bandwidth : Nat,
               next : Hops \union {NoHop}]
Zero == [blocked |-> FALSE, latency |-> 0, bandwidth |-> 0, next |-> NoHop]
BlockedLink == [blocked |-> TRUE, latency |-> 0, bandwidth |-> 0, next |-> NoHop]

(* The assignments to one field of an entry of NetworkState.               *)
SetBlocked(link, blocked, next) ==
  [blocked |-> blocked, latency |-> link.latency, bandwidth |-> link.bandwidth,
   next |-> next]
SetLatencyUs(link, us) ==
  [blocked |-> link.blocked, latency |-> us, bandwidth |-> link.bandwidth,
   next |-> link.next]
SetBandwidthKbps(link, kbps) ==
  [blocked |-> link.blocked, latency |-> link.latency, bandwidth |-> kbps,
   next |-> link.next]

(* The backend that celestial.go was started with.                         *)
NewLink == IF Backend = "ebpf" THEN Ebpf!NewLink ELSE Netem!NewLink
BlockLink(k) == IF Backend = "ebpf" THEN Ebpf!BlockLink(k) ELSE Netem!BlockLink(k)
UnblockLink(k) ==
  IF Backend = "ebpf" THEN Ebpf!UnblockLink(k) ELSE Netem!UnblockLink(k)
SetLatency(k, us) ==
  IF Backend = "ebpf" THEN Ebpf!SetLatency(k, us) ELSE Netem!SetLatency(k, us)
SetBandwidth(k, kbps) ==
  IF Backend = "ebpf" THEN Ebpf!SetBandwidth(k, kbps)
  ELSE Netem!SetBandwidth(k, kbps)

Drops(k) == IF Backend = "ebpf" THEN Ebpf!Drops(k) ELSE Netem!Drops(k)
Rate(k)  == IF Backend = "ebpf" THEN Ebpf!Rate(k) ELSE Netem!Rate(k)
Delay(k) == IF Backend = "ebpf" THEN Ebpf!Delay(k) ELSE Netem!Delay(k)

-----------------------------------------------------------------------------
Init ==
  /\ phase = "new" /\ err = "nil" /\ result = "nil"
  /\ registered = {} /\ made = {}
  /\ known = [l \in Links |-> Zero]
  /\ want = [l \in Links |-> Zero]
  /\ step = [l \in Links |-> "off"]
  /\ kernel = [l \in Links |-> NewLink]
  /\ lost = {} /\ faulty = {}

(* A link call of Virt: a source that is not on this host is discarded.    *)
MayFail(l, outcomes) ==
  \/ l \in faulty \/ Cardinality(faulty) < MaxFaulty
  \/ \A o \in outcomes : ~o.ok

(* Mutant: `e` is what the last call returned.                             *)
CallMutant(l, outcomes) ==
  IF l[1] \in registered
  THEN \E o \in outcomes :
         /\ kernel' = [kernel EXCEPT ![l] = o.link]
         /\ \/ o.ok /\ err' = "nil" /\ UNCHANGED <<lost, faulty>>
            \/ /\ ~o.ok /\ MayFail(l, outcomes)
               /\ err' = "error"
               /\ lost' = lost \union {l} /\ faulty' = faulty \union {l}
  ELSE UNCHANGED callVars

Call(l, outcomes) ==
  IF l[1] \in registered
  THEN \E o \in outcomes :
         /\ kernel' = [kernel EXCEPT ![l] = o.link]
         /\ \/ o.ok /\ UNCHANGED <<err, lost, faulty>>
            \/ /\ ~o.ok /\ MayFail(l, outcomes)
               /\ err' = "error"
               /\ lost' = lost \union {l} /\ faulty' = faulty \union {l}
  ELSE UNCHANGED callVars

-----------------------------------------------------------------------------
(* Initialize: RegisterMachine for every machine (see Virt), and only if   *)
(* all of them succeed a NetworkState whose links are all blocked.         *)

(* Mutant: the machines of other hosts are registered too.                 *)
RegisterMachinesMutant ==
  /\ phase = "new"
  /\ registered' = Machines /\ phase' = "blocking"
  /\ step' = [l \in Links |-> "block"]
  /\ want' = [l \in Links |-> BlockedLink]
  /\ UNCHANGED <<err, result, made, known, kernel, lost, faulty>>

RegisterMachines ==
  /\ phase = "new"
  /\ registered' = Local /\ phase' = "blocking"
  /\ step' = [l \in Links |-> "block"]
  /\ want' = [l \in Links |-> BlockedLink]
  /\ UNCHANGED <<err, result, made, known, kernel, lost, faulty>>

RegisterFails ==
  /\ phase = "new"
  /\ registered' \in SUBSET Local
  /\ phase' = "idle" /\ result' = "error"
  /\ UNCHANGED <<err, made, known, want, step, kernel, lost, faulty>>

(* Mutant: a link that cannot be blocked is not entered.                   *)
InitLinkMutant(l) ==
  /\ step[l] = "block"
  /\ Call(l, BlockLink(kernel[l]))
  /\ known' = [known EXCEPT ![l] = BlockedLink]
  /\ made' = IF l \in faulty' THEN made ELSE made \union {l}
  /\ step' = [step EXCEPT ![l] = "off"]
  /\ UNCHANGED <<phase, result, registered, want>>

(* Mutant: the links of a new network are taken to be blocked already.     *)
InitLinkUncalledMutant(l) ==
  /\ step[l] = "block"
  /\ known' = [known EXCEPT ![l] = BlockedLink]
  /\ made' = made \union {l}
  /\ step' = [step EXCEPT ![l] = "off"]
  /\ UNCHANGED <<phase, callVars, result, registered, want>>

InitLink(l) ==
  /\ step[l] = "block"
  /\ Call(l, BlockLink(kernel[l]))
  /\ known' = [known EXCEPT ![l] = BlockedLink]
  /\ made' = made \union {l}
  /\ step' = [step EXCEPT ![l] = "off"]
  /\ UNCHANGED <<phase, result, registered, want>>

-----------------------------------------------------------------------------
(* Update.  server.Update has folded every NetworkDiff into both of its    *)
(* directions; a blocked diff brings zeros for everything else.            *)

NetworkDiffs ==
  {[link |-> BlockedLink, prev |-> NoHop]} \union
  {[link |-> [blocked |-> FALSE, latency |-> us, bandwidth |-> kbps, next |-> n],
    prev |-> p] : us \in Latencies, kbps \in Bandwidths, n \in Hops, p \in Hops}

Folded(diff, l) ==
  IF l \in DOMAIN diff THEN diff[l].link
  ELSE IF Reverse(l) \in DOMAIN diff
       THEN LET d == diff[Reverse(l)]
            IN SetBlocked(d.link, d.link.blocked, d.prev)
       ELSE want[l]

BeginUpdate(diff) ==
  /\ phase = "idle"
  /\ phase' = "links" /\ err' = "nil" /\ lost' = {}
  /\ want' = [l \in Links |-> Folded(diff, l)]
  /\ step' = [l \in Links |->
                IF {l, Reverse(l)} \intersect DOMAIN diff # {} THEN "todo" ELSE "off"]
  /\ UNCHANGED <<result, registered, made, known, kernel, faulty>>

(* The goroutine of a source has one link in hand at a time.               *)
InHand(l) == step[l] \in {"latency", "bandwidth"}
Free(s) == \A l \in Links : l[1] = s => ~InHand(l)

(* The entry of a link that Initialize never made is a nil pointer.        *)
Crash(l) ==
  /\ step[l] = "todo" /\ Free(l[1]) /\ l \notin made
  /\ phase' = "crashed"
  /\ UNCHANGED <<err, result, registered, made, known, want, step, kernel, lost,
                 faulty>>

(* Mutant: a blocked link is shaped as well.                               *)
BlockMutant(l) ==
  /\ step[l] = "todo" /\ Free(l[1]) /\ l \in made
  /\ want[l].blocked
  /\ IF known[l].blocked THEN UNCHANGED callVars
     ELSE Call(l, BlockLink(kernel[l]))
  /\ known' = [known EXCEPT ![l] = SetBlocked(@, TRUE, @.next)]
  /\ step' = [step EXCEPT ![l] = "latency"]
  /\ UNCHANGED <<phase, result, registered, made, want>>

Block(l) ==
  /\ step[l] = "todo" /\ Free(l[1]) /\ l \in made
  /\ want[l].blocked
  /\ IF known[l].blocked THEN UNCHANGED callVars
     ELSE Call(l, BlockLink(kernel[l]))
  /\ known' = [known EXCEPT ![l] = SetBlocked(@, TRUE, @.next)]
  /\ step' = [step EXCEPT ![l] = "off"]
  /\ UNCHANGED <<phase, result, registered, made, want>>

Unblock(l) ==
  /\ step[l] = "todo" /\ Free(l[1]) /\ l \in made
  /\ ~want[l].blocked
  /\ IF known[l].blocked THEN Call(l, UnblockLink(kernel[l]))
     ELSE UNCHANGED callVars
  /\ known' = [known EXCEPT ![l] = SetBlocked(@, FALSE, want[l].next)]
  /\ step' = [step EXCEPT ![l] = "latency"]
  /\ UNCHANGED <<phase, result, registered, made, want>>

ChangeLatency(l) ==
  /\ step[l] = "latency"
  /\ IF known[l].latency = want[l].latency THEN UNCHANGED callVars
     ELSE Call(l, SetLatency(kernel[l], want[l].latency))
  /\ known' = [known EXCEPT ![l] = SetLatencyUs(@, want[l].latency)]
  /\ step' = [step EXCEPT ![l] = "bandwidth"]
  /\ UNCHANGED <<phase, result, registered, made, want>>

(* Mutant: the new bandwidth is recorded and not set.                      *)
ChangeBandwidthMutant(l) ==
  /\ step[l] = "bandwidth"
  /\ known' = [known EXCEPT ![l] = SetBandwidthKbps(@, want[l].bandwidth)]
  /\ step' = [step EXCEPT ![l] = "off"]
  /\ UNCHANGED <<phase, callVars, result, registered, made, want>>

ChangeBandwidth(l) ==
  /\ step[l] = "bandwidth"
  /\ IF known[l].bandwidth = want[l].bandwidth THEN UNCHANGED callVars
     ELSE Call(l, SetBandwidth(kernel[l], want[l].bandwidth))
  /\ known' = [known EXCEPT ![l] = SetBandwidthKbps(@, want[l].bandwidth)]
  /\ step' = [step EXCEPT ![l] = "off"]
  /\ UNCHANGED <<phase, result, registered, made, want>>

(* wg.Wait: an error of a link call is returned; after a link phase        *)
(* without one, the machine phase (see Virt) may still return one.         *)
Return ==
  /\ phase \in {"blocking", "links"} /\ \A l \in Links : step[l] = "off"
  /\ phase' = "idle"
  /\ \/ result' = err
     \/ phase = "links" /\ result' = "error"
  /\ UNCHANGED <<err, registered, made, known, want, step, kernel, lost, faulty>>

LinkStep(l) ==
  /\ phase # "crashed"
  /\ \/ InitLink(l) \/ Crash(l) \/ Block(l) \/ Unblock(l)
     \/ ChangeLatency(l) \/ ChangeBandwidth(l)

(* The panic has ended the process.                                        *)
Dead == phase = "crashed" /\ UNCHANGED vars

Next ==
  \/ RegisterMachines \/ RegisterFails
  \/ \E named \in SUBSET Pairs : \E diff \in [named -> NetworkDiffs] :
       BeginUpdate(diff)
  \/ \E l \in Links : LinkStep(l)
  \/ Return \/ Dead

Spec == Init /\ [][Next]_vars
-----------------------------------------------------------------------------
(* Every variable has its type, for the backend in use.                    *)
KernelLinks == IF Backend = "ebpf" THEN Ebpf!Link ELSE Netem!Link
TypeOK ==
  /\ phase \in {"new", "blocking", "idle", "links", "crashed"}
  /\ err \in {"nil", "error"} /\ result \in {"nil", "error"}
  /\ registered \subseteq Local /\ made \subseteq Links
  /\ known \in [Links -> LinkStates] /\ want \in [Links -> LinkStates]
  /\ step \in [Links -> Steps]
  /\ kernel \in [Links -> KernelLinks]
  /\ lost \subseteq Links /\ faulty \subseteq Links

(* The links this host enforces and no call has failed on.                 *)
Sound == {l \in made \ faulty : l[1] \in registered}

(* The kernel drops the packets of a link exactly while NetworkState says  *)
(* it is blocked, in the middle of an Update too: no later call opens a    *)
(* link that was blocked, though every eBPF call writes the whole entry.   *)
BlockedIsEnforced == \A l \in Sound : Drops(kernel[l]) <=> known[l].blocked

(* The delay and the rate a link has, or will have once it is unblocked,   *)
(* are those of NetworkState: blocking and unblocking lose nothing, which  *)
(* the orchestrator relies on because it never sets again what it thinks   *)
(* is set.  A bandwidth of 0 has not been set yet.                         *)
DefaultRate == IF Backend = "ebpf" THEN Ebpf!DefaultRate ELSE Netem!DefaultRate
RateOf(link) == IF link.bandwidth = 0 THEN DefaultRate ELSE link.bandwidth
DelayOf(link) ==
  IF Backend = "ebpf" THEN link.latency ELSE Netem!AsRead(link.latency)
ShapeInSync ==
  \A l \in Sound : /\ Rate(kernel[l]) = RateOf(known[l])
                   /\ Delay(kernel[l]) = DelayOf(known[l])

(* An Initialize or Update that returns nil has made every call it had to  *)
(* make: an error of any goroutine, however early, is what is returned.    *)
ErrorsAreReported == phase = "idle" /\ result = "nil" => lost = {}

(* An Update only finds a nil link if Initialize failed before it made any *)
(* link; a failure to block a link leaves every entry in place.            *)
CrashNeedsFailedInit == phase = "crashed" => made = {}

(* The network of this host's links moves as EmulatedNetwork allows: what  *)
(* a link does is read off the kernel, what it should do off what was last *)
(* asked for, and a part is pending until its call has been made.          *)
Parts == {"state", "rate", "delay"}
KernelPart(k, part) ==
  IF part = "state" THEN IF Drops(k) THEN "blocked" ELSE "open"
  ELSE IF part = "rate" THEN Rate(k) ELSE Delay(k)
LinkPart(link, part) ==
  IF part = "state" THEN IF link.blocked THEN "blocked" ELSE "open"
  ELSE IF part = "rate" THEN RateOf(link) ELSE DelayOf(link)
PendingParts(at, wanted, link) ==
  {part \in Parts :
    \/ /\ part = "state" /\ at \in {"block", "todo"}
       /\ ~(wanted.blocked <=> link.blocked)
    \/ /\ part = "delay" /\ at \in {"todo", "latency"} /\ ~wanted.blocked
       /\ wanted.latency # link.latency
    \/ /\ part = "rate" /\ at \in {"todo", "latency", "bandwidth"} /\ ~wanted.blocked
       /\ wanted.bandwidth # link.bandwidth}

Shape == [l \in LocalLinks |-> [part \in Parts |-> KernelPart(kernel[l], part)]]
Goal == [l \in LocalLinks |-> [part \in Parts |-> LinkPart(want[l], part)]]
Pending == [l \in LocalLinks |-> PendingParts(step[l], want[l], known[l])]
Network == INSTANCE EmulatedNetwork
             WITH Links <- LocalLinks, shape <- Shape, goal <- Goal,
                  pending <- Pending, faulty <- faulty \intersect LocalLinks
ImplementsNetwork == Network!Spec
=============================================================================
