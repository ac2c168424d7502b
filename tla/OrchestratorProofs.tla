------------------------- MODULE OrchestratorProofs -------------------------
(* Theorems about Orchestrator, for every constellation, every assignment  *)
(* of machines to this host, every set of values a diff can carry and both *)
(* emulation backends.                                                     *)
EXTENDS Orchestrator, TLAPS

USE OrchestratorAssumption

(* What a backend and the kernel have for a link that is as `link` says.   *)
EbpfSync(k, link) ==
  /\ k.hbdRate = RateOf(link) /\ k.hbdDelay = link.latency
  /\ link.blocked => k.mapped /\ k.rate = 0
  /\ ~link.blocked /\ k.mapped => k.rate = k.hbdRate /\ k.delay = k.hbdDelay

NetemSync(k, link) ==
  /\ k.blocked <=> link.blocked
  /\ k.rate = RateOf(link) /\ k.delay = DelayOf(link)

Synced(k, link) ==
  IF Backend = "ebpf" THEN EbpfSync(k, link) ELSE NetemSync(k, link)

(* The operations of the eBPF backend keep a link in step with its entry   *)
(* in NetworkState when they return nil.                                   *)
LEMMA EbpfOps ==
  ASSUME Backend = "ebpf", NEW k \in Ebpf!Link, NEW link \in LinkStates,
         EbpfSync(k, link), NEW us \in Nat, NEW kbps \in Nat \ {0}, NEW n
  PROVE  /\ \A o \in Ebpf!BlockLink(k) :
              o.ok => EbpfSync(o.link, SetBlocked(link, TRUE, n))
         /\ \A o \in Ebpf!UnblockLink(k) :
              o.ok => EbpfSync(o.link, SetBlocked(link, FALSE, n))
         /\ ~link.blocked =>
              \A o \in Ebpf!SetLatency(k, us) :
                o.ok => EbpfSync(o.link, SetLatencyUs(link, us))
         /\ ~link.blocked =>
              \A o \in Ebpf!SetBandwidth(k, kbps) :
                o.ok => EbpfSync(o.link, SetBandwidthKbps(link, kbps))
  <1> USE DEF EbpfSync, RateOf, DefaultRate, LinkStates, SetBlocked, SetLatencyUs,
              SetBandwidthKbps, Ebpf!Link, Ebpf!Put, Ebpf!Ok, Ebpf!Failed,
              Ebpf!Written, Ebpf!WithHbd
  <1>1. \A o \in Ebpf!BlockLink(k) :
          o.ok => EbpfSync(o.link, SetBlocked(link, TRUE, n))
    BY DEF Ebpf!BlockLink
  <1>2. \A o \in Ebpf!UnblockLink(k) :
          o.ok => EbpfSync(o.link, SetBlocked(link, FALSE, n))
    BY DEF Ebpf!UnblockLink
  <1>3. ~link.blocked =>
          \A o \in Ebpf!SetLatency(k, us) :
            o.ok => EbpfSync(o.link, SetLatencyUs(link, us))
    BY DEF Ebpf!SetLatency
  <1>4. ~link.blocked =>
          \A o \in Ebpf!SetBandwidth(k, kbps) :
            o.ok => EbpfSync(o.link, SetBandwidthKbps(link, kbps))
    BY DEF Ebpf!SetBandwidth
  <1>5. QED BY <1>1, <1>2, <1>3, <1>4

LEMMA NetemOps ==
  ASSUME Backend = "netem", NEW k \in Netem!Link, NEW link \in LinkStates,
         NetemSync(k, link), NEW us \in Nat, NEW kbps \in Nat \ {0}, NEW n
  PROVE  /\ \A o \in Netem!BlockLink(k) :
              o.ok => NetemSync(o.link, SetBlocked(link, TRUE, n))
         /\ \A o \in Netem!UnblockLink(k) :
              o.ok => NetemSync(o.link, SetBlocked(link, FALSE, n))
         /\ \A o \in Netem!SetLatency(k, us) :
              o.ok => NetemSync(o.link, SetLatencyUs(link, us))
         /\ \A o \in Netem!SetBandwidth(k, kbps) :
              o.ok => NetemSync(o.link, SetBandwidthKbps(link, kbps))
  <1> USE DEF NetemSync, RateOf, DelayOf, DefaultRate, LinkStates, SetBlocked,
              SetLatencyUs, SetBandwidthKbps, Netem!Link, Netem!Command,
              Netem!CheckLink, Netem!Created, Netem!Ok, Netem!Failed
  <1>1. \A o \in Netem!BlockLink(k) :
          o.ok => NetemSync(o.link, SetBlocked(link, TRUE, n))
    BY DEF Netem!BlockLink
  <1>2. \A o \in Netem!UnblockLink(k) :
          o.ok => NetemSync(o.link, SetBlocked(link, FALSE, n))
    BY DEF Netem!UnblockLink
  <1>3. \A o \in Netem!SetLatency(k, us) :
          o.ok => NetemSync(o.link, SetLatencyUs(link, us))
    BY DEF Netem!SetLatency
  <1>4. \A o \in Netem!SetBandwidth(k, kbps) :
          o.ok => NetemSync(o.link, SetBandwidthKbps(link, kbps))
    <2>1. Netem!SetBandwidth(k, kbps) =
            Netem!Command(k, Netem!Created(k.blocked, kbps, k.delay))
      BY DEF Netem!SetBandwidth
    <2>2. QED BY <2>1
  <1>5. QED BY <1>1, <1>2, <1>3, <1>4

(* Whatever an operation of either backend returns, it leaves a link of    *)
(* that backend behind.                                                    *)
LEMMA EbpfTypes ==
  ASSUME NEW k \in Ebpf!Link, NEW us \in Nat, NEW kbps \in Nat
  PROVE  /\ \A o \in Ebpf!BlockLink(k) : o.link \in Ebpf!Link
         /\ \A o \in Ebpf!UnblockLink(k) : o.link \in Ebpf!Link
         /\ \A o \in Ebpf!SetLatency(k, us) : o.link \in Ebpf!Link
         /\ \A o \in Ebpf!SetBandwidth(k, kbps) : o.link \in Ebpf!Link
  <1>1. Ebpf!BlockedDelay \in Nat
    BY SMT DEF Ebpf!BlockedDelay
  <1>2. ASSUME NEW j \in Ebpf!Link, NEW rate \in Nat, NEW delay \in Nat
        PROVE  \A o \in Ebpf!Put(j, rate, delay) : o.link \in Ebpf!Link
    <2>1. Ebpf!Written(j, rate, delay) \in Ebpf!Link
      BY DEF Ebpf!Link, Ebpf!Written
    <2>2. QED BY <2>1 DEF Ebpf!Put, Ebpf!Ok, Ebpf!Failed
  <1>3. /\ k.hbdRate \in Nat /\ k.hbdDelay \in Nat
        /\ Ebpf!WithHbd(k, k.hbdRate, us) \in Ebpf!Link
        /\ Ebpf!WithHbd(k, kbps, k.hbdDelay) \in Ebpf!Link
    BY DEF Ebpf!Link, Ebpf!WithHbd
  <1>4. QED
    BY <1>1, <1>2, <1>3 DEF Ebpf!BlockLink, Ebpf!UnblockLink, Ebpf!SetLatency,
                            Ebpf!SetBandwidth

LEMMA NetemTypes ==
  ASSUME NEW k \in Netem!Link, NEW us \in Nat, NEW kbps \in Nat
  PROVE  /\ \A o \in Netem!BlockLink(k) : o.link \in Netem!Link
         /\ \A o \in Netem!UnblockLink(k) : o.link \in Netem!Link
         /\ \A o \in Netem!SetLatency(k, us) : o.link \in Netem!Link
         /\ \A o \in Netem!SetBandwidth(k, kbps) : o.link \in Netem!Link
  <1>0. Netem!CheckLink(k) \in Netem!Link
    BY DEF Netem!Link, Netem!CheckLink, Netem!Created
  <1>1. Netem!AsRead(us) \in Nat
    BY DEF Netem!AsRead
  <1>2. ASSUME NEW done \in Netem!Link
        PROVE  \A o \in Netem!Command(k, done) : o.link \in Netem!Link
    BY <1>0 DEF Netem!Command, Netem!Ok, Netem!Failed
  <1>3. \A o \in {Netem!Failed(Netem!CheckLink(k)), Netem!Failed(k)} :
          o.link \in Netem!Link
    BY <1>0 DEF Netem!Failed
  <1>4. /\ Netem!Created(TRUE, k.rate, k.delay) \in Netem!Link
        /\ Netem!Created(FALSE, k.rate, k.delay) \in Netem!Link
        /\ Netem!Created(k.blocked, k.rate, Netem!AsRead(us)) \in Netem!Link
        /\ Netem!Created(k.blocked, kbps, k.delay) \in Netem!Link
    BY <1>1 DEF Netem!Link, Netem!Created
  <1>5. QED
    BY <1>2, <1>3, <1>4 DEF Netem!BlockLink, Netem!UnblockLink, Netem!SetLatency,
                            Netem!SetBandwidth

LEMMA OpTypes ==
  ASSUME NEW k \in KernelLinks, NEW us \in Nat, NEW kbps \in Nat
  PROVE  /\ \A o \in BlockLink(k) : o.link \in KernelLinks
         /\ \A o \in UnblockLink(k) : o.link \in KernelLinks
         /\ \A o \in SetLatency(k, us) : o.link \in KernelLinks
         /\ \A o \in SetBandwidth(k, kbps) : o.link \in KernelLinks
  <1>1. CASE Backend = "ebpf"
    BY <1>1, EbpfTypes DEF KernelLinks, BlockLink, UnblockLink, SetLatency,
                           SetBandwidth
  <1>2. CASE Backend = "netem"
    BY <1>2, NetemTypes DEF KernelLinks, BlockLink, UnblockLink, SetLatency,
                            SetBandwidth
  <1>3. QED BY <1>1, <1>2

(* An operation that returns nil brings the link in step with the entry    *)
(* NetworkState then gets.                                                 *)
LEMMA OpsSync ==
  ASSUME NEW k \in KernelLinks, NEW link \in LinkStates, Synced(k, link),
         NEW us \in Nat, NEW kbps \in Nat \ {0}, NEW n
  PROVE  /\ \A o \in BlockLink(k) :
              o.ok => Synced(o.link, SetBlocked(link, TRUE, n))
         /\ \A o \in UnblockLink(k) :
              o.ok => Synced(o.link, SetBlocked(link, FALSE, n))
         /\ ~link.blocked =>
              \A o \in SetLatency(k, us) :
                o.ok => Synced(o.link, SetLatencyUs(link, us))
         /\ ~link.blocked =>
              \A o \in SetBandwidth(k, kbps) :
                o.ok => Synced(o.link, SetBandwidthKbps(link, kbps))
  <1>1. CASE Backend = "ebpf"
    BY <1>1, EbpfOps DEF Synced, KernelLinks, BlockLink, UnblockLink, SetLatency,
                         SetBandwidth
  <1>2. CASE Backend = "netem"
    BY <1>2, NetemOps DEF Synced, KernelLinks, BlockLink, UnblockLink, SetLatency,
                          SetBandwidth
  <1>3. QED BY <1>1, <1>2

LEMMA BlockSync ==
  ASSUME NEW k \in KernelLinks, NEW link \in LinkStates, Synced(k, link), NEW n
  PROVE  /\ \A o \in BlockLink(k) :
              o.ok => Synced(o.link, SetBlocked(link, TRUE, n))
         /\ \A o \in UnblockLink(k) :
              o.ok => Synced(o.link, SetBlocked(link, FALSE, n))
  <1>1. 0 \in Nat /\ 1 \in Nat \ {0}
    OBVIOUS
  <1>2. QED BY <1>1, OpsSync
-----------------------------------------------------------------------------
LEMMA LinkFacts ==
  /\ \A l \in Links : Reverse(l) \in Links
  /\ Pairs \subseteq Links
  BY DEF Links, Reverse

(* What is left of a call once its outcomes are forgotten.                 *)
LEMMA CallEffect ==
  ASSUME TypeOK, NEW l \in Links, NEW outcomes,
         \A o \in outcomes : o.link \in KernelLinks,
         Call(l, outcomes)
  PROVE  /\ kernel' \in [Links -> KernelLinks]
         /\ err' \in {"nil", "error"}
         /\ lost' \subseteq Links /\ faulty' \subseteq Links
         /\ \A k \in Links \ {l} :
              kernel'[k] = kernel[k] /\ (k \in faulty' <=> k \in faulty)
         /\ l \notin faulty' => l \notin faulty
         /\ l \notin faulty' /\ l[1] \in registered =>
              \E o \in outcomes : o.ok /\ kernel'[l] = o.link
         /\ (err' = err /\ lost' = lost) \/ err' = "error"
  BY DEF Call, TypeOK, callVars

(* The Links an Update asks for: a link it names and opens has a bandwidth *)
(* its diffs can carry.                                                    *)
LEMMA FoldedFacts ==
  ASSUME NEW named \in SUBSET Pairs, NEW diff \in [named -> NetworkDiffs],
         NEW l \in Links, want \in [Links -> LinkStates]
  PROVE  /\ Folded(diff, l) \in LinkStates
         /\ {l, Reverse(l)} \intersect named # {} /\ ~Folded(diff, l).blocked
              => Folded(diff, l).bandwidth \in Bandwidths
  <1> DEFINE Back(d) == SetBlocked(d.link, d.link.blocked, d.prev)
             Good(link) == /\ link \in LinkStates
                           /\ ~link.blocked => link.bandwidth \in Bandwidths
  <1>1. ASSUME NEW d \in NetworkDiffs
        PROVE  Good(d.link) /\ Good(Back(d))
    <2>1. Good(d.link) /\ d.prev \in Hops \union {NoHop}
      <3>1. CASE d = [link |-> BlockedLink, prev |-> NoHop]
        BY <3>1 DEF BlockedLink, LinkStates
      <3>2. ASSUME NEW us \in Latencies, NEW kbps \in Bandwidths, NEW n \in Hops,
                   NEW p \in Hops,
                   d = [link |-> [blocked |-> FALSE, latency |-> us,
                                  bandwidth |-> kbps, next |-> n],
                        prev |-> p]
            PROVE  Good(d.link) /\ d.prev \in Hops \union {NoHop}
        BY <3>2 DEF LinkStates
      <3>3. QED BY <3>1, <3>2 DEF NetworkDiffs
    <2>2. Good(Back(d))
      BY <2>1 DEF LinkStates, SetBlocked
    <2>3. QED BY <2>1, <2>2
  <1>2. CASE l \in named
    BY <1>1, <1>2 DEF Folded
  <1>3. CASE l \notin named /\ Reverse(l) \in named
    <2>1. diff[Reverse(l)] \in NetworkDiffs
      BY <1>3
    <2>2. Folded(diff, l) = Back(diff[Reverse(l)])
      BY <1>3 DEF Folded
    <2>3. Good(Back(diff[Reverse(l)]))
      BY <1>1, <2>1
    <2> HIDE DEF Back
    <2>4. QED BY <2>2, <2>3
  <1>4. CASE l \notin named /\ Reverse(l) \notin named
    BY <1>4 DEF Folded
  <1>5. QED BY <1>2, <1>3, <1>4

LEMMA TypeStep == TypeOK /\ [Next]_vars => TypeOK'
  <1> SUFFICES ASSUME TypeOK, [Next]_vars PROVE TypeOK'
    OBVIOUS
  <1>k. KernelLinks' = KernelLinks
    BY DEF KernelLinks
  <1>z. Zero \in LinkStates /\ BlockedLink \in LinkStates
    BY DEF Zero, BlockedLink, LinkStates
  <1>1. CASE RegisterMachines \/ RegisterFails
    BY <1>1, <1>z DEF TypeOK, RegisterMachines, RegisterFails, Steps
  <1>2. ASSUME NEW named \in SUBSET Pairs, NEW diff \in [named -> NetworkDiffs],
               BeginUpdate(diff)
        PROVE TypeOK'
    <2>1. \A l \in Links : Folded(diff, l) \in LinkStates
      BY FoldedFacts DEF TypeOK
    <2>2. QED BY <1>2, <2>1 DEF TypeOK, BeginUpdate, Steps
  <1>3. ASSUME NEW l \in Links, LinkStep(l) PROVE TypeOK'
    <2> kernel[l] \in KernelLinks /\ want[l] \in LinkStates /\ known[l] \in LinkStates
      BY DEF TypeOK
    <2>0. /\ \A o \in BlockLink(kernel[l]) : o.link \in KernelLinks
          /\ \A o \in UnblockLink(kernel[l]) : o.link \in KernelLinks
          /\ \A o \in SetLatency(kernel[l], want[l].latency) : o.link \in KernelLinks
          /\ \A o \in SetBandwidth(kernel[l], want[l].bandwidth) : o.link \in KernelLinks
      <3>1. want[l].latency \in Nat /\ want[l].bandwidth \in Nat
        BY DEF LinkStates
      <3>2. QED BY <3>1, OpTypes
    <2>1. CASE InitLink(l)
      <3>1. /\ kernel' \in [Links -> KernelLinks] /\ err' \in {"nil", "error"}
            /\ lost' \subseteq Links /\ faulty' \subseteq Links
        BY <2>0, <2>1, CallEffect DEF InitLink
      <3>2. QED BY <2>1, <3>1, <1>z, <1>k DEF InitLink, TypeOK, Steps
    <2>2. CASE Crash(l)
      BY <2>2 DEF Crash, TypeOK
    <2>3. CASE Block(l)
      <3>1. /\ kernel' \in [Links -> KernelLinks] /\ err' \in {"nil", "error"}
            /\ lost' \subseteq Links /\ faulty' \subseteq Links
        BY <2>0, <2>3, CallEffect DEF Block, callVars, TypeOK
      <3>2. SetBlocked(known[l], TRUE, known[l].next) \in LinkStates
        BY DEF LinkStates, SetBlocked, SetLatencyUs, SetBandwidthKbps
      <3>3. QED BY <2>3, <3>1, <3>2, <1>k DEF Block, TypeOK, Steps
    <2>4. CASE Unblock(l)
      <3>1. /\ kernel' \in [Links -> KernelLinks] /\ err' \in {"nil", "error"}
            /\ lost' \subseteq Links /\ faulty' \subseteq Links
        BY <2>0, <2>4, CallEffect DEF Unblock, callVars, TypeOK
      <3>2. SetBlocked(known[l], FALSE, want[l].next) \in LinkStates
        BY DEF LinkStates, SetBlocked, SetLatencyUs, SetBandwidthKbps
      <3>3. QED BY <2>4, <3>1, <3>2, <1>k DEF Unblock, TypeOK, Steps
    <2>5. CASE ChangeLatency(l)
      <3>1. /\ kernel' \in [Links -> KernelLinks] /\ err' \in {"nil", "error"}
            /\ lost' \subseteq Links /\ faulty' \subseteq Links
        BY <2>0, <2>5, CallEffect DEF ChangeLatency, callVars, TypeOK
      <3>2. SetLatencyUs(known[l], want[l].latency) \in LinkStates
        BY DEF LinkStates, SetBlocked, SetLatencyUs, SetBandwidthKbps
      <3>3. QED BY <2>5, <3>1, <3>2, <1>k DEF ChangeLatency, TypeOK, Steps
    <2>6. CASE ChangeBandwidth(l)
      <3>1. /\ kernel' \in [Links -> KernelLinks] /\ err' \in {"nil", "error"}
            /\ lost' \subseteq Links /\ faulty' \subseteq Links
        BY <2>0, <2>6, CallEffect DEF ChangeBandwidth, callVars, TypeOK
      <3>2. SetBandwidthKbps(known[l], want[l].bandwidth) \in LinkStates
        BY DEF LinkStates, SetBlocked, SetLatencyUs, SetBandwidthKbps
      <3>3. QED BY <2>6, <3>1, <3>2, <1>k DEF ChangeBandwidth, TypeOK, Steps
    <2>7. QED BY <1>3, <2>1, <2>2, <2>3, <2>4, <2>5, <2>6 DEF LinkStep
  <1>4. CASE Return
    BY <1>4 DEF Return, TypeOK
  <1>5. CASE Dead \/ UNCHANGED vars
    BY <1>5 DEF Dead, vars, TypeOK
  <1>6. QED BY <1>1, <1>2, <1>3, <1>4, <1>5 DEF Next

LEMMA NewIsLink == NewLink \in KernelLinks
  <1>1. Ebpf!DefaultRate \in Nat /\ Netem!DefaultRate \in Nat
    BY SMT DEF Ebpf!DefaultRate, Netem!DefaultRate
  <1>2. QED BY <1>1 DEF NewLink, KernelLinks, Ebpf!NewLink, Netem!NewLink, Ebpf!Link,
                        Netem!Link

(* Type correctness of NetworkState and of both backends' links.           *)
THEOREM TypeCorrect == Spec => []TypeOK
  <1>1. Init => TypeOK
    BY NewIsLink DEF Init, TypeOK, Zero, LinkStates, Steps
  <1>2. QED BY <1>1, TypeStep, PTL DEF Spec
-----------------------------------------------------------------------------
(* Which entries exist and where goroutines are, phase by phase.           *)
PhaseInv ==
  /\ phase \in {"new", "idle"} => \A l \in Links : step[l] = "off"
  /\ phase = "blocking" =>
       \A l \in Links : step[l] \in {"block", "off"} /\ (step[l] = "off" => l \in made)
  /\ phase \in {"links", "crashed"} => \A l \in Links : step[l] # "block"
  /\ phase \in {"idle", "links"} => made = {} \/ made = Links
  /\ phase \in {"new", "crashed"} => made = {}

LEMMA PhaseStep == TypeOK /\ PhaseInv /\ [Next]_vars => PhaseInv'
  <1> SUFFICES ASSUME TypeOK, PhaseInv, [Next]_vars PROVE PhaseInv'
    OBVIOUS
  <1> USE DEF PhaseInv
  <1>1. CASE RegisterMachines
    <2>1. phase' = "blocking" /\ \A l \in Links : step'[l] = "block"
      BY <1>1 DEF RegisterMachines
    <2>2. QED BY <2>1
  <1>7. CASE RegisterFails
    BY <1>7 DEF RegisterFails
  <1>2. ASSUME NEW named \in SUBSET Pairs, NEW diff \in [named -> NetworkDiffs],
               BeginUpdate(diff)
        PROVE PhaseInv'
    BY <1>2 DEF BeginUpdate
  <1>3. ASSUME NEW l \in Links, LinkStep(l) PROVE PhaseInv'
    <2>1. CASE InitLink(l)
      BY <2>1 DEF InitLink, TypeOK
    <2>2. CASE Crash(l)
      BY <1>3, <2>2 DEF Crash, LinkStep, TypeOK
    <2>3. CASE Block(l)
      BY <1>3, <2>3 DEF Block, LinkStep, TypeOK
    <2>4. CASE Unblock(l)
      BY <1>3, <2>4 DEF Unblock, LinkStep, TypeOK
    <2>5. CASE ChangeLatency(l)
      BY <1>3, <2>5 DEF ChangeLatency, LinkStep, TypeOK
    <2>6. CASE ChangeBandwidth(l)
      BY <1>3, <2>6 DEF ChangeBandwidth, LinkStep, TypeOK
    <2>7. QED BY <1>3, <2>1, <2>2, <2>3, <2>4, <2>5, <2>6 DEF LinkStep
  <1>4. CASE Return
    <2>1. made = {} \/ made = Links
      BY <1>4 DEF Return, TypeOK
    <2>2. QED BY <1>4, <2>1 DEF Return
  <1>5. CASE Dead \/ UNCHANGED vars
    BY <1>5 DEF Dead, vars
  <1>6. QED BY <1>1, <1>2, <1>3, <1>4, <1>5, <1>7 DEF Next

(* An Update runs into a nil link only after an Initialize that made none. *)
THEOREM CrashIsFailedInit == Spec => []CrashNeedsFailedInit
  <1>1. Init => PhaseInv
    BY DEF Init, PhaseInv
  <1>2. PhaseInv => CrashNeedsFailedInit
    BY DEF PhaseInv, CrashNeedsFailedInit
  <1>3. QED BY <1>1, <1>2, PhaseStep, TypeCorrect, PTL DEF Spec
-----------------------------------------------------------------------------
(* `e` remembers a failed call until the call returns, whichever goroutine *)
(* failed and however many succeed after it.                               *)
ErrInv ==
  /\ phase = "new" => lost = {}
  /\ phase \in {"blocking", "links"} /\ lost # {} => err = "error"
  /\ phase = "idle" /\ result = "nil" => lost = {}

LEMMA ErrStep == TypeOK /\ PhaseInv /\ ErrInv /\ [Next]_vars => ErrInv'
  <1> SUFFICES ASSUME TypeOK, PhaseInv, ErrInv, [Next]_vars PROVE ErrInv'
    OBVIOUS
  <1> USE DEF ErrInv
  <1>1. CASE RegisterMachines \/ RegisterFails
    BY <1>1 DEF RegisterMachines, RegisterFails
  <1>2. ASSUME NEW named \in SUBSET Pairs, NEW diff \in [named -> NetworkDiffs],
               BeginUpdate(diff)
        PROVE ErrInv'
    BY <1>2 DEF BeginUpdate
  <1>3. ASSUME NEW l \in Links, LinkStep(l) PROVE ErrInv'
    <2>1. CASE Crash(l)
      BY <2>1 DEF Crash
    <2>2. CASE ~Crash(l)
      <3>1. /\ phase \in {"blocking", "links"} /\ phase' = phase
            /\ \/ err' = err /\ lost' = lost
               \/ err' = "error"
        BY <1>3, <2>2 DEF LinkStep, InitLink, Block, Unblock, ChangeLatency,
              ChangeBandwidth, Call, callVars, PhaseInv, TypeOK
      <3>2. QED BY <3>1
    <2>3. QED BY <2>1, <2>2
  <1>4. CASE Return
    BY <1>4 DEF Return, TypeOK
  <1>5. CASE Dead \/ UNCHANGED vars
    BY <1>5 DEF Dead, vars
  <1>6. QED BY <1>1, <1>2, <1>3, <1>4, <1>5 DEF Next

(* An Initialize or Update that returns nil lost no call.                  *)
THEOREM ErrorsReturned == Spec => []ErrorsAreReported
  <1>1. Init => PhaseInv /\ ErrInv
    BY DEF Init, PhaseInv, ErrInv
  <1>2. ErrInv => ErrorsAreReported
    BY DEF ErrInv, ErrorsAreReported
  <1>3. QED BY <1>1, <1>2, PhaseStep, ErrStep, TypeCorrect, PTL DEF Spec
-----------------------------------------------------------------------------
(* The network of this host and NetworkState stay in step.  The invariant  *)
(* says it of a blocked link too: its rate and delay wait in the backend   *)
(* for the unblock, which the Update that unblocks it does not send again. *)
SyncInv ==
  /\ \A l \in Links \ faulty : l[1] \in registered => Synced(kernel[l], known[l])
  /\ phase = "new" => \A l \in Links : known[l] = Zero /\ kernel[l] = NewLink
  /\ \A l \in Links : step[l] = "block" => known[l] = Zero
  /\ \A l \in Links : step[l] \in {"latency", "bandwidth"} =>
       ~known[l].blocked /\ ~want[l].blocked
  /\ \A l \in Links :
       step[l] \in {"todo", "latency", "bandwidth"} /\ ~want[l].blocked =>
         want[l].bandwidth \in Bandwidths

LEMMA NewInSync == Synced(NewLink, Zero)
  BY DEF Synced, NewLink, Zero, EbpfSync, NetemSync, RateOf, DelayOf, DefaultRate,
         Ebpf!NewLink, Netem!NewLink, Netem!AsRead

(* A call on a link that is in step, and what it records, keep every link  *)
(* in step.                                                                *)
LEMMA CallSync ==
  ASSUME TypeOK, SyncInv, NEW l \in Links, NEW outcomes, NEW link,
         \A o \in outcomes : o.link \in KernelLinks,
         l \notin faulty /\ l[1] \in registered =>
           \A o \in outcomes : o.ok => Synced(o.link, link),
         Call(l, outcomes),
         known' = [known EXCEPT ![l] = link], registered' = registered
  PROVE  \A k \in Links \ faulty' :
           k[1] \in registered' => Synced(kernel'[k], known'[k])
  <1>1. ASSUME NEW k \in Links \ faulty', k[1] \in registered, k # l
        PROVE  Synced(kernel'[k], known'[k])
    <2>1. kernel'[k] = kernel[k] /\ k \notin faulty
      BY <1>1, CallEffect
    <2>2. known'[k] = known[k]
      BY <1>1 DEF TypeOK
    <2>3. QED BY <1>1, <2>1, <2>2 DEF SyncInv
  <1>2. ASSUME l \notin faulty', l[1] \in registered
        PROVE  Synced(kernel'[l], known'[l])
    <2>1. PICK o \in outcomes : o.ok /\ kernel'[l] = o.link
      BY <1>2, CallEffect
    <2>2. l \notin faulty
      BY <1>2, CallEffect
    <2>3. known'[l] = link
      BY DEF TypeOK
    <2>4. QED BY <1>2, <2>1, <2>2, <2>3
  <1>3. QED BY <1>1, <1>2

(* The same for a step that finds nothing to change.                       *)
LEMMA SkipSync ==
  ASSUME TypeOK, SyncInv, NEW l \in Links, NEW link, UNCHANGED callVars,
         l \notin faulty /\ l[1] \in registered => Synced(kernel[l], link),
         known' = [known EXCEPT ![l] = link], registered' = registered
  PROVE  \A k \in Links \ faulty' :
           k[1] \in registered' => Synced(kernel'[k], known'[k])
  <1>1. ASSUME NEW k \in Links \ faulty, k[1] \in registered
        PROVE  Synced(kernel[k], known'[k])
    <2>1. CASE k = l
      BY <1>1, <2>1 DEF TypeOK
    <2>2. CASE k # l
      BY <1>1, <2>2 DEF TypeOK, SyncInv
    <2>3. QED BY <2>1, <2>2
  <1>2. QED BY <1>1 DEF callVars

LEMMA SameSync ==
  ASSUME NEW k, NEW link \in LinkStates, Synced(k, link), NEW n
  PROVE  /\ link.blocked => Synced(k, SetBlocked(link, TRUE, n))
         /\ ~link.blocked => Synced(k, SetBlocked(link, FALSE, n))
         /\ Synced(k, SetLatencyUs(link, link.latency))
         /\ Synced(k, SetBandwidthKbps(link, link.bandwidth))
  BY DEF Synced, EbpfSync, NetemSync, RateOf, DelayOf, LinkStates, SetBlocked,
         SetLatencyUs, SetBandwidthKbps

LEMMA SyncStep ==
  ASSUME 0 \notin Bandwidths
  PROVE  TypeOK /\ PhaseInv /\ SyncInv /\ [Next]_vars => SyncInv'
  <1> SUFFICES ASSUME TypeOK, PhaseInv, SyncInv, [Next]_vars PROVE SyncInv'
    OBVIOUS
  <1>1. CASE RegisterMachines
    BY <1>1, NewInSync DEF RegisterMachines, SyncInv, PhaseInv
  <1>2. CASE RegisterFails
    BY <1>2, NewInSync DEF RegisterFails, SyncInv, PhaseInv
  <1>3. ASSUME NEW named \in SUBSET Pairs, NEW diff \in [named -> NetworkDiffs],
               BeginUpdate(diff)
        PROVE SyncInv'
    <2>1. \A l \in Links :
            /\ want'[l] = Folded(diff, l)
            /\ step'[l] \in {"todo", "off"}
            /\ step'[l] = "todo" => {l, Reverse(l)} \intersect named # {}
      BY <1>3 DEF BeginUpdate
    <2>2. \A l \in Links : step'[l] = "todo" /\ ~want'[l].blocked =>
            want'[l].bandwidth \in Bandwidths
      BY <2>1, FoldedFacts DEF TypeOK
    <2>3. phase' = "links" /\ UNCHANGED <<registered, known, kernel, faulty>>
      BY <1>3 DEF BeginUpdate
    <2>4. \A l \in Links : step'[l] \notin {"block", "latency", "bandwidth"}
      BY <2>1
    <2>5. QED BY <2>2, <2>3, <2>4 DEF SyncInv
  <1>4. ASSUME NEW l \in Links, LinkStep(l) PROVE SyncInv'
    <2> DEFINE k == kernel[l]
    <2> USE DEF SyncInv
    <2>t. k \in KernelLinks /\ known[l] \in LinkStates /\ want[l] \in LinkStates
      BY DEF TypeOK
    <2>w. want[l].latency \in Nat /\ want[l].bandwidth \in Nat
      BY <2>t DEF LinkStates
    <2>s. l \notin faulty /\ l[1] \in registered => Synced(k, known[l])
      OBVIOUS
    <2>o. /\ \A o \in BlockLink(k) : o.link \in KernelLinks
          /\ \A o \in UnblockLink(k) : o.link \in KernelLinks
          /\ \A o \in SetLatency(k, want[l].latency) : o.link \in KernelLinks
          /\ \A o \in SetBandwidth(k, want[l].bandwidth) : o.link \in KernelLinks
      BY <2>t, <2>w, OpTypes
    <2>n. phase # "new" /\ UNCHANGED want
      BY <1>4 DEF LinkStep, InitLink, Crash, Block, Unblock, ChangeLatency,
                  ChangeBandwidth, PhaseInv
    <2> HIDE DEF k
    <2>1. CASE InitLink(l)
      <3>1. known[l] = Zero /\ SetBlocked(Zero, TRUE, NoHop) = BlockedLink
        BY <2>1 DEF InitLink, SetBlocked, Zero, BlockedLink
      <3>2. Synced(k, known[l]) =>
              \A o \in BlockLink(k) : o.ok => Synced(o.link, BlockedLink)
        BY <2>t, <3>1, BlockSync
      <3>3. \A j \in Links \ faulty' :
              j[1] \in registered' => Synced(kernel'[j], known'[j])
        BY <2>1, <2>s, <2>o, <3>2, CallSync DEF InitLink, k
      <3>4. /\ step' = [step EXCEPT ![l] = "off"] /\ phase' = phase
            /\ known' = [known EXCEPT ![l] = BlockedLink]
        BY <2>1 DEF InitLink
      <3>5. QED BY <2>n, <3>3, <3>4 DEF TypeOK
    <2>2. CASE Crash(l)
      BY <2>2 DEF Crash
    <2>3. CASE Block(l)
      <3> DEFINE next == SetBlocked(known[l], TRUE, known[l].next)
      <3>1. /\ known' = [known EXCEPT ![l] = next] /\ registered' = registered
            /\ step' = [step EXCEPT ![l] = "off"] /\ phase' = phase
            /\ step[l] = "todo"
        BY <2>3 DEF Block
      <3>2. \A j \in Links \ faulty' :
              j[1] \in registered' => Synced(kernel'[j], known'[j])
        <4>1. CASE known[l].blocked
          <5>1. l \notin faulty /\ l[1] \in registered => Synced(k, next)
            BY <4>1, <2>t, <2>s, SameSync
          <5>2. UNCHANGED callVars
            BY <2>3, <4>1 DEF Block
          <5> HIDE DEF next
          <5>3. QED BY <3>1, <5>1, <5>2, SkipSync DEF k
        <4>2. CASE ~known[l].blocked
          <5>1. Synced(k, known[l]) =>
                  \A o \in BlockLink(k) : o.ok => Synced(o.link, next)
            BY <2>t, BlockSync
          <5>2. Call(l, BlockLink(k))
            BY <2>3, <4>2 DEF Block, k
          <5> HIDE DEF next
          <5>3. QED BY <2>s, <2>o, <3>1, <5>1, <5>2, CallSync
        <4>3. QED BY <4>1, <4>2
      <3> HIDE DEF next
      <3>3. QED BY <2>n, <3>1, <3>2 DEF TypeOK
    <2>4. CASE Unblock(l)
      <3> DEFINE next == SetBlocked(known[l], FALSE, want[l].next)
      <3>1. /\ known' = [known EXCEPT ![l] = next] /\ registered' = registered
            /\ step' = [step EXCEPT ![l] = "latency"] /\ phase' = phase
            /\ step[l] = "todo" /\ ~want[l].blocked
        BY <2>4 DEF Unblock
      <3>2. \A j \in Links \ faulty' :
              j[1] \in registered' => Synced(kernel'[j], known'[j])
        <4>1. CASE ~known[l].blocked
          <5>1. l \notin faulty /\ l[1] \in registered => Synced(k, next)
            BY <4>1, <2>t, <2>s, SameSync
          <5>2. UNCHANGED callVars
            BY <2>4, <4>1 DEF Unblock
          <5> HIDE DEF next
          <5>3. QED BY <3>1, <5>1, <5>2, SkipSync DEF k
        <4>2. CASE known[l].blocked
          <5>1. Synced(k, known[l]) =>
                  \A o \in UnblockLink(k) : o.ok => Synced(o.link, next)
            BY <2>t, BlockSync
          <5>2. Call(l, UnblockLink(k))
            BY <2>4, <4>2 DEF Unblock, k
          <5> HIDE DEF next
          <5>3. QED BY <2>s, <2>o, <3>1, <5>1, <5>2, CallSync
        <4>3. QED BY <4>1, <4>2
      <3>3. ~next.blocked
        BY DEF SetBlocked
      <3> HIDE DEF next
      <3>4. QED BY <2>n, <3>1, <3>2, <3>3 DEF TypeOK
    <2>5. CASE ChangeLatency(l)
      <3> DEFINE next == SetLatencyUs(known[l], want[l].latency)
      <3>1. /\ known' = [known EXCEPT ![l] = next] /\ registered' = registered
            /\ step' = [step EXCEPT ![l] = "bandwidth"] /\ phase' = phase
            /\ step[l] = "latency" /\ ~known[l].blocked
        BY <2>5 DEF ChangeLatency
      <3>2. \A j \in Links \ faulty' :
              j[1] \in registered' => Synced(kernel'[j], known'[j])
        <4>1. CASE known[l].latency = want[l].latency
          <5>1. l \notin faulty /\ l[1] \in registered => Synced(k, next)
            BY <4>1, <2>t, <2>s, SameSync
          <5>2. UNCHANGED callVars
            BY <2>5, <4>1 DEF ChangeLatency
          <5> HIDE DEF next
          <5>3. QED BY <3>1, <5>1, <5>2, SkipSync DEF k
        <4>2. CASE known[l].latency # want[l].latency
          <5>1. Synced(k, known[l]) =>
                  \A o \in SetLatency(k, want[l].latency) : o.ok => Synced(o.link, next)
            BY <2>t, <2>w, <3>1, OpsSync
          <5>2. Call(l, SetLatency(k, want[l].latency))
            BY <2>5, <4>2 DEF ChangeLatency, k
          <5> HIDE DEF next
          <5>3. QED BY <2>s, <2>o, <3>1, <5>1, <5>2, CallSync
        <4>3. QED BY <4>1, <4>2
      <3>3. ~next.blocked
        BY <3>1 DEF SetLatencyUs
      <3> HIDE DEF next
      <3>4. QED BY <2>n, <3>1, <3>2, <3>3 DEF TypeOK
    <2>6. CASE ChangeBandwidth(l)
      <3> DEFINE next == SetBandwidthKbps(known[l], want[l].bandwidth)
      <3>1. /\ known' = [known EXCEPT ![l] = next] /\ registered' = registered
            /\ step' = [step EXCEPT ![l] = "off"] /\ phase' = phase
            /\ step[l] = "bandwidth" /\ ~known[l].blocked /\ want[l].bandwidth # 0
        BY <2>6 DEF ChangeBandwidth
      <3>2. \A j \in Links \ faulty' :
              j[1] \in registered' => Synced(kernel'[j], known'[j])
        <4>1. CASE known[l].bandwidth = want[l].bandwidth
          <5>1. l \notin faulty /\ l[1] \in registered => Synced(k, next)
            BY <4>1, <2>t, <2>s, SameSync
          <5>2. UNCHANGED callVars
            BY <2>6, <4>1 DEF ChangeBandwidth
          <5> HIDE DEF next
          <5>3. QED BY <3>1, <5>1, <5>2, SkipSync DEF k
        <4>2. CASE known[l].bandwidth # want[l].bandwidth
          <5>1. Synced(k, known[l]) =>
                  \A o \in SetBandwidth(k, want[l].bandwidth) : o.ok => Synced(o.link, next)
            BY <2>t, <2>w, <3>1, OpsSync
          <5>2. Call(l, SetBandwidth(k, want[l].bandwidth))
            BY <2>6, <4>2 DEF ChangeBandwidth, k
          <5> HIDE DEF next
          <5>3. QED BY <2>s, <2>o, <3>1, <5>1, <5>2, CallSync
        <4>3. QED BY <4>1, <4>2
      <3> HIDE DEF next
      <3>3. QED BY <2>n, <3>1, <3>2 DEF TypeOK
    <2>7. QED BY <1>4, <2>1, <2>2, <2>3, <2>4, <2>5, <2>6 DEF LinkStep
  <1>5. CASE Return
    BY <1>5 DEF Return, SyncInv
  <1>6. CASE Dead \/ UNCHANGED vars
    BY <1>6 DEF Dead, vars, SyncInv
  <1>7. QED BY <1>1, <1>2, <1>3, <1>4, <1>5, <1>6 DEF Next

LEMMA SyncHolds ==
  ASSUME 0 \notin Bandwidths
  PROVE  Spec => [](TypeOK /\ SyncInv)
  <1>1. Init => PhaseInv /\ SyncInv
    BY NewInSync DEF Init, PhaseInv, SyncInv
  <1>2. TypeOK /\ PhaseInv /\ SyncInv /\ [Next]_vars => SyncInv'
    BY SyncStep
  <1>3. QED BY <1>1, <1>2, PhaseStep, TypeCorrect, PTL DEF Spec

(* The kernel drops a link's packets exactly while NetworkState has the    *)
(* link blocked, whatever sequence of Updates got it there.                *)
THEOREM BlockingEnforced ==
  ASSUME 0 \notin Bandwidths
  PROVE  Spec => []BlockedIsEnforced
  <1>1. TypeOK /\ SyncInv => BlockedIsEnforced
    <2> SUFFICES ASSUME TypeOK, SyncInv, NEW l \in Sound
                 PROVE  Drops(kernel[l]) <=> known[l].blocked
      BY DEF BlockedIsEnforced
    <2>1. Synced(kernel[l], known[l]) /\ known[l] \in LinkStates
      BY DEF Sound, SyncInv, TypeOK
    <2>2. Ebpf!DefaultRate # 0
      BY SMT DEF Ebpf!DefaultRate
    <2>3. QED BY <2>1, <2>2 DEF Synced, EbpfSync, NetemSync, Drops, Ebpf!Drops,
                               Netem!Drops, RateOf, DefaultRate
  <1>2. QED BY <1>1, SyncHolds, PTL

(* Blocking and unblocking lose no rate and no delay.                      *)
THEOREM ShapesInSync ==
  ASSUME 0 \notin Bandwidths
  PROVE  Spec => []ShapeInSync
  <1>1. TypeOK /\ SyncInv => ShapeInSync
    <2> SUFFICES ASSUME TypeOK, SyncInv, NEW l \in Sound
                 PROVE  /\ Rate(kernel[l]) = RateOf(known[l])
                        /\ Delay(kernel[l]) = DelayOf(known[l])
      BY DEF ShapeInSync
    <2>1. Synced(kernel[l], known[l]) /\ known[l] \in LinkStates
      BY DEF Sound, SyncInv, TypeOK
    <2>2. QED BY <2>1 DEF Synced, EbpfSync, NetemSync, Rate, Delay, Ebpf!Rate,
                Ebpf!Delay, Netem!Rate, Netem!Delay, DelayOf
  <1>2. QED BY <1>1, SyncHolds, PTL

-----------------------------------------------------------------------------
(* Where the goroutine of a link's source is with the link says how what   *)
(* NetworkState has differs from what was last asked for; a link that no   *)
(* goroutine has in hand is as it was asked for, or never was touched.     *)
Matches(link, wanted) ==
  /\ link.blocked <=> wanted.blocked
  /\ ~wanted.blocked => /\ link.latency = wanted.latency
                        /\ link.bandwidth = wanted.bandwidth

AsStepped(at, link, wanted) ==
  /\ at = "off" => Matches(link, wanted)
  /\ at = "block" => wanted = BlockedLink
  /\ at = "bandwidth" => link.latency = wanted.latency

MatchInv ==
  /\ \A l \in Links : AsStepped(step[l], known[l], want[l])
  /\ phase = "new" => \A l \in Links : want[l] = Zero
  /\ \A l \in Links :
       l \in made \/ step[l] \in {"block", "latency", "bandwidth"} => registered = Local
  /\ \A l \in LocalLinks :
       l[1] \notin registered => known[l] = Zero /\ kernel[l] = NewLink

(* Only an orchestrator that has registered its machines shapes links.     *)
LEMMA StepRegistered ==
  ASSUME TypeOK, PhaseInv, SyncInv, MatchInv, NEW l \in Links, LinkStep(l), ~Crash(l)
  PROVE  registered = Local
  <1>1. l \in made \/ step[l] \in {"block", "latency", "bandwidth"}
    BY DEF LinkStep, InitLink, Block, Unblock, ChangeLatency, ChangeBandwidth
  <1>2. QED BY <1>1 DEF MatchInv

LEMMA MatchStep == TypeOK /\ PhaseInv /\ SyncInv /\ MatchInv /\ [Next]_vars => MatchInv'
  <1> SUFFICES ASSUME TypeOK, PhaseInv, SyncInv, MatchInv, [Next]_vars PROVE MatchInv'
    OBVIOUS
  <1>1. CASE RegisterMachines
    <2>1. /\ \A l \in Links : step'[l] = "block" /\ want'[l] = BlockedLink
          /\ registered' = Local /\ phase' = "blocking"
      BY <1>1 DEF RegisterMachines
    <2>2. QED BY <2>1 DEF MatchInv, AsStepped, LocalLinks
  <1>2. CASE RegisterFails
    <2>1. /\ UNCHANGED <<made, known, want, step, kernel>> /\ phase = "new"
          /\ phase' = "idle"
      BY <1>2 DEF RegisterFails
    <2>2. /\ made = {} /\ \A l \in Links : step[l] = "off"
          /\ \A l \in Links : known[l] = Zero /\ kernel[l] = NewLink
      BY <2>1 DEF PhaseInv, SyncInv
    <2>3. QED BY <2>1, <2>2 DEF MatchInv, LocalLinks
  <1>3. ASSUME NEW named \in SUBSET Pairs, NEW diff \in [named -> NetworkDiffs],
               BeginUpdate(diff)
        PROVE MatchInv'
    <2>1. /\ UNCHANGED <<registered, made, known, kernel>>
          /\ phase = "idle" /\ phase' = "links"
          /\ \A l \in Links :
               /\ want'[l] = Folded(diff, l)
               /\ step'[l] = IF {l, Reverse(l)} \intersect named # {} THEN "todo" ELSE "off"
      BY <1>3 DEF BeginUpdate
    <2>2. ASSUME NEW l \in Links PROVE AsStepped(step'[l], known'[l], want'[l])
      <3>1. CASE {l, Reverse(l)} \intersect named # {}
        BY <2>1, <3>1 DEF AsStepped
      <3>2. CASE {l, Reverse(l)} \intersect named = {}
        <4>1. want'[l] = want[l] /\ step[l] = "off"
          BY <2>1, <3>2 DEF Folded, PhaseInv
        <4>2. QED BY <2>1, <4>1 DEF MatchInv, AsStepped
      <3>3. QED BY <3>1, <3>2
    <2>3. \A l \in Links : step'[l] \notin {"block", "latency", "bandwidth"}
      BY <2>1
    <2>4. QED BY <2>1, <2>2, <2>3 DEF MatchInv
  <1>4. ASSUME NEW l \in Links, LinkStep(l) PROVE MatchInv'
    <2>1. /\ phase \in {"blocking", "links"} /\ UNCHANGED <<registered, want>>
          /\ phase' # "new"
      BY <1>4 DEF LinkStep, InitLink, Crash, Block, Unblock, ChangeLatency,
                  ChangeBandwidth, PhaseInv, TypeOK
    <2>2. CASE Crash(l)
      BY <2>1, <2>2 DEF Crash, MatchInv
    <2>3. CASE ~Crash(l)
      <3>1. registered = Local
        BY <1>4, <2>3, StepRegistered
      <3>2. \A j \in Links \ {l} : step'[j] = step[j] /\ known'[j] = known[j]
        BY <1>4, <2>3 DEF LinkStep, InitLink, Block, Unblock, ChangeLatency,
                          ChangeBandwidth, TypeOK
      <3>3. AsStepped(step'[l], known'[l], want[l])
        <4>1. CASE InitLink(l)
          BY <4>1 DEF InitLink, MatchInv, AsStepped, Matches, TypeOK
        <4>2. CASE Block(l)
          BY <4>2 DEF Block, AsStepped, Matches, SetBlocked, TypeOK
        <4>3. CASE Unblock(l)
          BY <4>3 DEF Unblock, AsStepped, TypeOK
        <4>4. CASE ChangeLatency(l)
          BY <4>4 DEF ChangeLatency, AsStepped, SetLatencyUs, TypeOK
        <4>5. CASE ChangeBandwidth(l)
          BY <4>5 DEF ChangeBandwidth, AsStepped, Matches, SetBandwidthKbps,
                      MatchInv, SyncInv, TypeOK
        <4>6. QED BY <1>4, <2>3, <4>1, <4>2, <4>3, <4>4, <4>5 DEF LinkStep
      <3>4. QED BY <2>1, <3>1, <3>2, <3>3 DEF MatchInv, LocalLinks
    <2>4. QED BY <2>2, <2>3
  <1>5. CASE Return
    BY <1>5 DEF Return, MatchInv
  <1>6. CASE Dead \/ UNCHANGED vars
    BY <1>6 DEF Dead, vars, MatchInv
  <1>7. QED BY <1>1, <1>2, <1>3, <1>4, <1>5, <1>6 DEF Next
-----------------------------------------------------------------------------
(* A link in step shows the network exactly what NetworkState has of it.   *)
LEMMA SyncedShape ==
  ASSUME NEW k \in KernelLinks, NEW link \in LinkStates, Synced(k, link),
         NEW part \in Parts
  PROVE  KernelPart(k, part) = LinkPart(link, part)
  <1>1. Ebpf!DefaultRate # 0
    BY SMT DEF Ebpf!DefaultRate
  <1>2. Drops(k) <=> link.blocked
    BY <1>1 DEF Synced, EbpfSync, NetemSync, Drops, Ebpf!Drops, Netem!Drops, RateOf,
                DefaultRate, LinkStates, KernelLinks, Ebpf!Link, Netem!Link
  <1>3. Rate(k) = RateOf(link) /\ Delay(k) = DelayOf(link)
    BY DEF Synced, EbpfSync, NetemSync, Rate, Delay, Ebpf!Rate, Ebpf!Delay,
           Netem!Rate, Netem!Delay, DelayOf, LinkStates
  <1>4. QED BY <1>2, <1>3 DEF KernelPart, LinkPart

LEMMA SoundShape ==
  ASSUME TypeOK, SyncInv, MatchInv, NEW l \in LocalLinks \ faulty, NEW part \in Parts
  PROVE  KernelPart(kernel[l], part) = LinkPart(known[l], part)
  <1>1. l \in Links
    BY DEF LocalLinks
  <1>2. kernel[l] \in KernelLinks /\ known[l] \in LinkStates
    BY <1>1 DEF TypeOK
  <1>3. Synced(kernel[l], known[l])
    <2>1. CASE l[1] \in registered
      BY <1>1, <2>1 DEF SyncInv
    <2>2. CASE l[1] \notin registered
      BY <2>2, NewInSync DEF MatchInv
    <2>3. QED BY <2>1, <2>2
  <1>4. QED BY <1>2, <1>3, SyncedShape

(* A part of a link that is not pending has nothing left to change.        *)
LEMMA NotPending ==
  ASSUME NEW at, NEW wanted \in LinkStates, NEW link \in LinkStates, NEW part \in Parts,
         at = "todo" \/ (at = "off" /\ Matches(link, wanted)),
         part \notin PendingParts(at, wanted, link)
  PROVE  \/ LinkPart(link, part) = LinkPart(wanted, part)
         \/ part # "state" /\ wanted.blocked
  <1>1. CASE part = "state"
    BY <1>1 DEF PendingParts, LinkPart, Parts, Matches
  <1>2. CASE part = "rate" /\ ~wanted.blocked
    <2>1. wanted.bandwidth = link.bandwidth
      BY <1>2 DEF PendingParts, Parts, Matches
    <2>2. QED BY <1>2, <2>1 DEF LinkPart, RateOf
  <1>3. CASE part = "delay" /\ ~wanted.blocked
    <2>1. wanted.latency = link.latency
      BY <1>3 DEF PendingParts, Parts, Matches
    <2>2. QED BY <1>3, <2>1 DEF LinkPart, DelayOf
  <1>4. QED BY <1>1, <1>2, <1>3 DEF Parts

(* A step with a link brings one part of it to what was asked for, by a    *)
(* call if that part was pending; or it finds the part as it should be,    *)
(* and the network stutters.                                               *)
Moved(l, part) ==
  /\ UNCHANGED want
  /\ \A j \in Links \ {l} : step'[j] = step[j] /\ known'[j] = known[j]
  /\ PendingParts(step'[l], want[l], known'[l])
       = PendingParts(step[l], want[l], known[l]) \ {part}
  /\ \A p \in Parts :
       LinkPart(known'[l], p) = LinkPart(IF p = part THEN want[l] ELSE known[l], p)
  /\ \/ /\ part \in PendingParts(step[l], want[l], known[l])
        /\ \E outcomes : /\ \A o \in outcomes : o.link \in KernelLinks
                         /\ Call(l, outcomes)
     \/ /\ part \notin PendingParts(step[l], want[l], known[l])
        /\ UNCHANGED callVars

LEMMA OtherParts ==
  ASSUME NEW link \in LinkStates, NEW p \in Parts
  PROVE  /\ p # "state" => \A b \in BOOLEAN : \A next :
              LinkPart(SetBlocked(link, b, next), p) = LinkPart(link, p)
         /\ p # "delay" => \A us :
              LinkPart(SetLatencyUs(link, us), p) = LinkPart(link, p)
         /\ p # "rate" => \A kbps :
              LinkPart(SetBandwidthKbps(link, kbps), p) = LinkPart(link, p)
  <1>1. ASSUME p # "state", NEW b \in BOOLEAN, NEW next
        PROVE  LinkPart(SetBlocked(link, b, next), p) = LinkPart(link, p)
    <2>1. /\ SetBlocked(link, b, next).latency = link.latency
          /\ SetBlocked(link, b, next).bandwidth = link.bandwidth
      BY DEF SetBlocked
    <2>2. QED BY <1>1, <2>1 DEF LinkPart, RateOf, DelayOf
  <1>2. ASSUME p # "delay", NEW us
        PROVE  LinkPart(SetLatencyUs(link, us), p) = LinkPart(link, p)
    <2>1. /\ SetLatencyUs(link, us).blocked = link.blocked
          /\ SetLatencyUs(link, us).bandwidth = link.bandwidth
      BY DEF SetLatencyUs
    <2>2. QED BY <1>2, <2>1 DEF LinkPart, RateOf, Parts
  <1>3. ASSUME p # "rate", NEW kbps
        PROVE  LinkPart(SetBandwidthKbps(link, kbps), p) = LinkPart(link, p)
    <2>1. /\ SetBandwidthKbps(link, kbps).blocked = link.blocked
          /\ SetBandwidthKbps(link, kbps).latency = link.latency
      BY DEF SetBandwidthKbps
    <2>2. QED BY <1>3, <2>1 DEF LinkPart, DelayOf, Parts
  <1>4. QED BY <1>1, <1>2, <1>3

LEMMA StepMoves ==
  ASSUME TypeOK, PhaseInv, SyncInv, MatchInv, NEW l \in Links, LinkStep(l), ~Crash(l)
  PROVE  \E part \in Parts : Moved(l, part)
  <1> DEFINE k == kernel[l]
             w == want[l]
             n == known[l]
  <1>1. k \in KernelLinks /\ w \in LinkStates /\ n \in LinkStates
    BY DEF TypeOK
  <1>2. w.latency \in Nat /\ w.bandwidth \in Nat
    BY <1>1 DEF LinkStates
  <1>3. /\ \A o \in BlockLink(k) : o.link \in KernelLinks
        /\ \A o \in UnblockLink(k) : o.link \in KernelLinks
        /\ \A o \in SetLatency(k, w.latency) : o.link \in KernelLinks
        /\ \A o \in SetBandwidth(k, w.bandwidth) : o.link \in KernelLinks
    BY <1>1, <1>2, OpTypes
  <1>5. CASE InitLink(l)
    <2>1. /\ w = BlockedLink /\ n = Zero /\ known'[l] = BlockedLink
          /\ step[l] = "block" /\ step'[l] = "off" /\ UNCHANGED want
          /\ \A j \in Links \ {l} : step'[j] = step[j] /\ known'[j] = known[j]
          /\ Call(l, BlockLink(k))
      BY <1>5 DEF InitLink, MatchInv, AsStepped, SyncInv, TypeOK
    <2>2. /\ PendingParts("block", BlockedLink, Zero) = {"state"}
          /\ PendingParts("off", BlockedLink, BlockedLink) = {}
      BY DEF PendingParts, BlockedLink, Zero, Parts
    <2>3. \A p \in Parts :
            LinkPart(BlockedLink, p) = LinkPart(IF p = "state" THEN BlockedLink ELSE Zero, p)
      BY DEF LinkPart, RateOf, DelayOf, BlockedLink, Zero
    <2>4. Moved(l, "state")
      BY <1>3, <2>1, <2>2, <2>3 DEF Moved
    <2>5. QED BY <2>4 DEF Parts
  <1>6. CASE Block(l) \/ Unblock(l)
    <2>1. /\ step[l] = "todo" /\ UNCHANGED want
          /\ \/ w.blocked /\ step'[l] = "off"
             \/ ~w.blocked /\ step'[l] = "latency"
          /\ \E b \in BOOLEAN : \E next :
               (b <=> w.blocked) /\ known'[l] = SetBlocked(n, b, next)
          /\ \A j \in Links \ {l} : step'[j] = step[j] /\ known'[j] = known[j]
          /\ \/ (w.blocked <=> n.blocked) /\ UNCHANGED callVars
             \/ /\ ~(w.blocked <=> n.blocked)
                /\ Call(l, BlockLink(k)) \/ Call(l, UnblockLink(k))
      <3>1. CASE Block(l)
        BY <3>1 DEF Block, TypeOK
      <3>2. CASE Unblock(l)
        BY <3>2 DEF Unblock, TypeOK
      <3>3. QED BY <1>6, <3>1, <3>2
    <2>2. PICK b \in BOOLEAN : \E next :
            (b <=> w.blocked) /\ known'[l] = SetBlocked(n, b, next)
      BY <2>1
    <2>3. PICK next : (b <=> w.blocked) /\ known'[l] = SetBlocked(n, b, next)
      BY <2>2
    <2>4. PendingParts(step'[l], w, known'[l]) = PendingParts(step[l], w, n) \ {"state"}
      BY <1>1, <2>1, <2>3 DEF PendingParts, SetBlocked, Parts, LinkStates
    <2>5. \A p \in Parts :
            LinkPart(known'[l], p) = LinkPart(IF p = "state" THEN w ELSE n, p)
      <3>1. LinkPart(known'[l], "state") = LinkPart(w, "state")
        BY <2>3 DEF LinkPart, SetBlocked
      <3>2. \A p \in Parts \ {"state"} : LinkPart(known'[l], p) = LinkPart(n, p)
        BY <1>1, <2>3, OtherParts
      <3>3. QED BY <3>1, <3>2
    <2>6. "state" \in PendingParts(step[l], w, n) <=> ~(w.blocked <=> n.blocked)
      BY <2>1 DEF PendingParts, Parts
    <2>7. Moved(l, "state")
      BY <1>3, <2>1, <2>4, <2>5, <2>6 DEF Moved
    <2>8. QED BY <2>7 DEF Parts
  <1>7. CASE ChangeLatency(l)
    <2>1. /\ step[l] = "latency" /\ step'[l] = "bandwidth" /\ UNCHANGED want
          /\ known'[l] = SetLatencyUs(n, w.latency)
          /\ ~w.blocked /\ ~n.blocked
          /\ \A j \in Links \ {l} : step'[j] = step[j] /\ known'[j] = known[j]
          /\ \/ w.latency = n.latency /\ UNCHANGED callVars
             \/ w.latency # n.latency /\ Call(l, SetLatency(k, w.latency))
      BY <1>7 DEF ChangeLatency, SyncInv, TypeOK
    <2>2. PendingParts(step'[l], w, known'[l]) = PendingParts(step[l], w, n) \ {"delay"}
      BY <2>1 DEF PendingParts, SetLatencyUs, Parts
    <2>3. \A p \in Parts :
            LinkPart(known'[l], p) = LinkPart(IF p = "delay" THEN w ELSE n, p)
      <3>1. LinkPart(known'[l], "delay") = LinkPart(w, "delay")
        BY <2>1 DEF LinkPart, DelayOf, SetLatencyUs
      <3>2. \A p \in Parts \ {"delay"} : LinkPart(known'[l], p) = LinkPart(n, p)
        BY <1>1, <2>1, OtherParts
      <3>3. QED BY <3>1, <3>2
    <2>4. "delay" \in PendingParts(step[l], w, n) <=> w.latency # n.latency
      BY <2>1 DEF PendingParts, Parts
    <2>5. Moved(l, "delay")
      BY <1>3, <2>1, <2>2, <2>3, <2>4 DEF Moved
    <2>6. QED BY <2>5 DEF Parts
  <1>8. CASE ChangeBandwidth(l)
    <2>1. /\ step[l] = "bandwidth" /\ step'[l] = "off" /\ UNCHANGED want
          /\ known'[l] = SetBandwidthKbps(n, w.bandwidth)
          /\ ~w.blocked /\ ~n.blocked
          /\ \A j \in Links \ {l} : step'[j] = step[j] /\ known'[j] = known[j]
          /\ \/ w.bandwidth = n.bandwidth /\ UNCHANGED callVars
             \/ w.bandwidth # n.bandwidth /\ Call(l, SetBandwidth(k, w.bandwidth))
      BY <1>8 DEF ChangeBandwidth, SyncInv, TypeOK
    <2>2. PendingParts(step'[l], w, known'[l]) = PendingParts(step[l], w, n) \ {"rate"}
      BY <2>1 DEF PendingParts, SetBandwidthKbps, Parts
    <2>3. \A p \in Parts :
            LinkPart(known'[l], p) = LinkPart(IF p = "rate" THEN w ELSE n, p)
      <3>1. LinkPart(known'[l], "rate") = LinkPart(w, "rate")
        BY <2>1 DEF LinkPart, RateOf, SetBandwidthKbps
      <3>2. \A p \in Parts \ {"rate"} : LinkPart(known'[l], p) = LinkPart(n, p)
        BY <1>1, <2>1, OtherParts
      <3>3. QED BY <3>1, <3>2
    <2>4. "rate" \in PendingParts(step[l], w, n) <=> w.bandwidth # n.bandwidth
      BY <2>1 DEF PendingParts, Parts
    <2>5. Moved(l, "rate")
      BY <1>3, <2>1, <2>2, <2>3, <2>4 DEF Moved
    <2>6. QED BY <2>5 DEF Parts
  <1>9. QED BY <1>5, <1>6, <1>7, <1>8 DEF LinkStep

LEMMA MovedRefines ==
  ASSUME TypeOK, SyncInv, MatchInv, TypeOK', SyncInv', registered = Local,
         registered' = Local, NEW l \in Links, NEW part \in Parts, Moved(l, part)
  PROVE  [Network!Next]_(Network!vars)
  <1>1. LocalLinks \subseteq Links /\ \A j \in LocalLinks : j[1] \in Local
    BY DEF LocalLinks
  <1>2. UNCHANGED Goal
    BY DEF Moved, Goal
  <1>3. \A j \in LocalLinks \ {l} : Pending'[j] = Pending[j]
    BY <1>1 DEF Moved, Pending
  <1>4. l \in LocalLinks => Pending'[l] = Pending[l] \ {part}
    BY DEF Moved, Pending
  <1>5. CASE UNCHANGED callVars /\ (l \in LocalLinks => part \notin Pending[l])
    <2>1. Pending' = Pending
      <3>1. \A j \in LocalLinks : Pending'[j] = Pending[j]
        BY <1>3, <1>4, <1>5
      <3>2. QED BY <3>1 DEF Pending
    <2>2. Shape' = Shape
      BY <1>5 DEF callVars, Shape
    <2>3. QED BY <1>2, <1>5, <2>1, <2>2 DEF Network!vars, callVars
  <1>6. ASSUME l \in LocalLinks, part \in Pending[l], NEW outcomes,
               \A o \in outcomes : o.link \in KernelLinks, Call(l, outcomes)
        PROVE  [Network!Next]_(Network!vars)
    <2>1. /\ \A j \in Links \ {l} :
               kernel'[j] = kernel[j] /\ (j \in faulty' <=> j \in faulty)
          /\ l \notin faulty' => l \notin faulty
      BY <1>6, CallEffect
    <2>2. Pending' = [Pending EXCEPT ![l] = @ \ {part}]
      <3>1. \A j \in LocalLinks :
              Pending'[j] = IF j = l THEN Pending[l] \ {part} ELSE Pending[j]
        BY <1>3, <1>4, <1>6
      <3>2. QED BY <1>6, <3>1 DEF Pending
    <2>3. \A j \in LocalLinks \ {l} : Shape'[j] = Shape[j]
      BY <1>1, <2>1 DEF Shape
    <2>4. CASE l \in faulty'
      <3>1. faulty' \intersect LocalLinks = (faulty \intersect LocalLinks) \union {l}
        BY <1>1, <1>6, <2>1, <2>4
      <3>2. Shape' = [Shape EXCEPT ![l] = Shape'[l]]
        <4>1. \A j \in LocalLinks : Shape'[j] = IF j = l THEN Shape'[l] ELSE Shape[j]
          BY <2>3
        <4>2. QED BY <4>1, <1>6 DEF Shape
      <3>3. Network!Fail(l, part)
        BY <1>2, <1>6, <2>2, <3>1, <3>2 DEF Network!Fail
      <3>4. QED BY <1>6, <3>3 DEF Network!Next
    <2>5. CASE l \notin faulty'
      <3>1. faulty' \intersect LocalLinks = faulty \intersect LocalLinks
        BY <1>1, <2>1, <2>5
      <3>2. ASSUME NEW p \in Parts
            PROVE  Shape'[l][p] = IF p = part THEN Goal[l][part] ELSE Shape[l][p]
        <4>1. KernelPart(kernel[l], p) = LinkPart(known[l], p)
          BY <1>6, <2>1, <2>5, SoundShape
        <4>2. KernelPart(kernel'[l], p) = LinkPart(known'[l], p)
          <5>1. Synced(kernel'[l], known'[l])
            BY <1>1, <1>6, <2>5 DEF SyncInv
          <5>2. kernel'[l] \in KernelLinks /\ known'[l] \in LinkStates
            BY DEF TypeOK, KernelLinks
          <5>3. QED BY <5>1, <5>2, SyncedShape
        <4>3. /\ p = part => LinkPart(known'[l], p) = LinkPart(want[l], p)
              /\ p # part => LinkPart(known'[l], p) = LinkPart(known[l], p)
          BY DEF Moved
        <4>4. /\ Shape'[l][p] = KernelPart(kernel'[l], p)
              /\ Shape[l][p] = KernelPart(kernel[l], p)
              /\ Goal[l][part] = LinkPart(want[l], part)
          BY <1>6 DEF Shape, Goal
        <4>5. QED BY <4>1, <4>2, <4>3, <4>4
      <3>3. Shape'[l] = [Shape[l] EXCEPT ![part] = Goal[l][part]]
        BY <1>6, <3>2 DEF Shape
      <3>4. Shape' = [Shape EXCEPT ![l] = [@ EXCEPT ![part] = Goal[l][part]]]
        <4>1. \A j \in LocalLinks :
                Shape'[j] = IF j = l THEN [Shape[l] EXCEPT ![part] = Goal[l][part]]
                            ELSE Shape[j]
          BY <2>3, <3>3
        <4>2. QED BY <4>1, <1>6 DEF Shape
      <3>5. Network!Move(l, part)
        BY <1>2, <1>6, <2>2, <3>1, <3>4 DEF Network!Move
      <3>6. QED BY <1>6, <3>5 DEF Network!Next
    <2>6. QED BY <2>4, <2>5
  <1>7. CASE l \notin LocalLinks
    <2>1. l[1] \notin registered
      BY <1>7 DEF LocalLinks
    <2>2. UNCHANGED callVars
      BY <2>1 DEF Moved, Call
    <2>3. QED BY <1>5, <1>7, <2>2
  <1>8. QED BY <1>5, <1>6, <1>7 DEF Moved, Pending

(* Initialize's first goal, and every Update's: what the call leaves       *)
(* unpending is already as it is wanted.                                   *)
LEMMA RetargetRefines ==
  ASSUME TypeOK, PhaseInv, SyncInv, MatchInv, TypeOK', MatchInv', [Next]_vars,
         \/ RegisterMachines
         \/ \E named \in SUBSET Pairs : \E diff \in [named -> NetworkDiffs] :
              BeginUpdate(diff)
  PROVE  Network!Retarget
  <1>1. LocalLinks \subseteq Links
    BY DEF LocalLinks
  <1>2. UNCHANGED <<known, kernel, faulty>> /\ \A l \in Links : step[l] = "off"
    BY DEF RegisterMachines, BeginUpdate, PhaseInv
  <1>3. \A l \in LocalLinks : Pending[l] = {}
    BY <1>1, <1>2 DEF Pending, PendingParts
  <1>4. Shape' = Shape
    BY <1>2 DEF Shape
  <1>5. ASSUME NEW l \in LocalLinks \ faulty, NEW part \in Parts,
               part \notin PendingParts(step'[l], want'[l], known'[l])
        PROVE  \/ KernelPart(kernel'[l], part) = LinkPart(want'[l], part)
               \/ part # "state" /\ LinkPart(want'[l], "state") = "blocked"
    <2>1. l \in Links /\ want'[l] \in LinkStates /\ known[l] \in LinkStates
      BY <1>1 DEF TypeOK
    <2>2. KernelPart(kernel[l], part) = LinkPart(known[l], part)
      BY SoundShape
    <2>3. CASE RegisterMachines
      <3>1. step'[l] = "block" /\ want'[l] = BlockedLink /\ known[l] = Zero
        BY <2>1, <2>3 DEF RegisterMachines, SyncInv
      <3>2. part # "state"
        BY <1>2, <1>5, <3>1 DEF PendingParts, BlockedLink, Zero
      <3>3. QED BY <3>1, <3>2 DEF LinkPart, BlockedLink
    <2>4. CASE \E named \in SUBSET Pairs : \E diff \in [named -> NetworkDiffs] :
                 BeginUpdate(diff)
      <3>1. step'[l] \in {"todo", "off"}
        BY <2>1, <2>4 DEF BeginUpdate
      <3>2. step'[l] = "off" => Matches(known[l], want'[l])
        BY <1>2, <2>1 DEF MatchInv, AsStepped
      <3>3. \/ LinkPart(known[l], part) = LinkPart(want'[l], part)
            \/ part # "state" /\ want'[l].blocked
        BY <1>2, <1>5, <2>1, <3>1, <3>2, NotPending
      <3>4. QED BY <1>2, <2>2, <3>3 DEF LinkPart
    <2>5. QED BY <2>3, <2>4
  <1>6. \A l \in LocalLinks \ (faulty \intersect LocalLinks), part \in Parts :
          part \notin Pending'[l] =>
            \/ Shape'[l][part] = Goal'[l][part]
            \/ part # "state" /\ Goal'[l]["state"] = "blocked"
    <2>1. \A l \in LocalLinks, part \in Parts :
            /\ Shape'[l][part] = KernelPart(kernel'[l], part)
            /\ Goal'[l][part] = LinkPart(want'[l], part)
      BY DEF Shape, Goal
    <2>2. \A l \in LocalLinks : Pending'[l] = PendingParts(step'[l], want'[l], known'[l])
      BY DEF Pending
    <2>3. "state" \in Parts
      BY DEF Parts
    <2>4. QED BY <1>5, <2>1, <2>2, <2>3
  <1>7. QED BY <1>2, <1>3, <1>4, <1>6 DEF Network!Retarget, Network!Reached

LEMMA NetworkStep ==
  TypeOK /\ PhaseInv /\ SyncInv /\ MatchInv /\ TypeOK' /\ SyncInv' /\ MatchInv'
    /\ [Next]_vars => [Network!Next]_(Network!vars)
  <1> SUFFICES ASSUME TypeOK, PhaseInv, SyncInv, MatchInv, TypeOK', SyncInv', MatchInv',
                      [Next]_vars
               PROVE  [Network!Next]_(Network!vars)
    OBVIOUS
  <1>1. CASE RegisterMachines
    BY <1>1, RetargetRefines DEF Network!Next
  <1>2. CASE \E named \in SUBSET Pairs : \E diff \in [named -> NetworkDiffs] :
               BeginUpdate(diff)
    BY <1>2, RetargetRefines DEF Network!Next
  <1>3. ASSUME UNCHANGED <<known, want, step, kernel, faulty>>
        PROVE  [Network!Next]_(Network!vars)
    BY <1>3 DEF Network!vars, Shape, Goal, Pending
  <1>4. CASE RegisterFails \/ Return \/ Dead \/ UNCHANGED vars
    BY <1>3, <1>4 DEF RegisterFails, Return, Dead, vars
  <1>5. ASSUME NEW l \in Links, LinkStep(l) PROVE [Network!Next]_(Network!vars)
    <2>1. CASE Crash(l)
      BY <1>3, <2>1 DEF Crash
    <2>2. CASE ~Crash(l)
      <3>1. registered = Local
        BY <1>5, <2>2, StepRegistered
      <3>2. registered' = registered
        BY <1>5, <2>2 DEF LinkStep, InitLink, Block, Unblock, ChangeLatency,
                          ChangeBandwidth
      <3>3. PICK part \in Parts : Moved(l, part)
        BY <1>5, <2>2, StepMoves
      <3>4. QED BY <3>1, <3>2, <3>3, MovedRefines
    <2>3. QED BY <2>1, <2>2
  <1>6. QED BY <1>1, <1>2, <1>4, <1>5 DEF Next

(* The network of this host moves as EmulatedNetwork allows: straight from *)
(* what it was to what an Update asks for, one part of one link at a time, *)
(* and no link that an Update does not name changes.                       *)
THEOREM NetworkImplemented ==
  ASSUME 0 \notin Bandwidths
  PROVE  Spec => ImplementsNetwork
  <1>1. Init => PhaseInv /\ SyncInv /\ MatchInv
    <2>1. Init => PhaseInv /\ SyncInv
      BY NewInSync DEF Init, PhaseInv, SyncInv
    <2>2. LocalLinks \subseteq Links
      BY DEF LocalLinks
    <2>3. Init => MatchInv
      BY <2>2 DEF Init, MatchInv, AsStepped, Matches
    <2>4. QED BY <2>1, <2>3
  <1>2. TypeOK /\ Init => Network!Init
    <2> SUFFICES ASSUME TypeOK, Init PROVE Network!Init
      OBVIOUS
    <2>1. LocalLinks \subseteq Links
      BY DEF LocalLinks
    <2>2. \A l \in LocalLinks, part \in Parts :
            KernelPart(kernel[l], part) = LinkPart(want[l], part)
      <3>1. Zero \in LinkStates
        BY DEF Zero, LinkStates
      <3>2. QED BY <2>1, <3>1, NewIsLink, NewInSync, SyncedShape DEF Init
    <2>3. Goal = Shape
      BY <2>2 DEF Goal, Shape
    <2>4. \A l \in LocalLinks : Shape[l]["state"] = "open"
      BY <2>1, <2>2 DEF Init, Shape, Parts, LinkPart, Zero
    <2>5. Pending = [l \in LocalLinks |-> {}]
      BY <2>1 DEF Init, Pending, PendingParts
    <2>6. faulty \intersect LocalLinks = {}
      BY DEF Init
    <2>7. QED BY <2>3, <2>4, <2>5, <2>6 DEF Network!Init
  <1>3. TypeOK /\ PhaseInv /\ SyncInv /\ [Next]_vars => SyncInv'
    BY SyncStep
  <1>4. QED
    BY <1>1, <1>2, <1>3, PhaseStep, MatchStep, NetworkStep, TypeCorrect, PTL
       DEF Spec, ImplementsNetwork, Network!Spec
-----------------------------------------------------------------------------
(* "ignore the last digit, netem is not that accurate anyway" (tc.go): a   *)
(* delay whose tenths of a millisecond are 0 is not rounded but multiplied *)
(* below the millisecond by ten, as the fraction loses its leading zero.   *)
THEOREM DelayMisread ==
  \A ms \in Nat, y \in 1..9 :
    Netem!AsRead(1000 * ms + 10 * y) = 1000 * ms + 100 * y
  <1> SUFFICES ASSUME NEW ms \in Nat, NEW y \in 1..9
               PROVE  Netem!AsRead(1000 * ms + 10 * y) = 1000 * ms + 100 * y
    OBVIOUS
  <1> DEFINE us == 1000 * ms + 10 * y
  <1>1. us % 1000 = 10 * y /\ us \div 1000 = ms
    OBVIOUS
  <1>2. (10 * y) \div 10 = y
    OBVIOUS
  <1>3. ((us % 1000) \div 10) = y
    BY <1>1, <1>2
  <1> HIDE DEF us
  <1>4. Netem!AsRead(us) = ms * 1000 + y * 100
    BY <1>1, <1>3 DEF Netem!AsRead
  <1>5. QED BY <1>4 DEF us
=============================================================================
