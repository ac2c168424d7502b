-------------------------- MODULE TrajectoryProofs --------------------------
(* Theorems about Trajectory, for every set of files and every limit of    *)
(* open writers.                                                           *)
EXTENDS Trajectory, Induction, FiniteSetTheorems

(* What an accepted configuration has.                                     *)
LEMMA AcceptedConfig ==
  ASSUME NEW f \in Files, Accepted(f), NEW c, c = Filled(f)
  PROVE  /\ c.offset \in Nat /\ c.duration \in Nat \ {0} /\ c.resolution \in Nat \ {0}
         /\ Len(c.shells) \in 1..MaxShells /\ Len(c.stations) \in Nat
         /\ \A i \in 1..Len(c.shells) :
              /\ c.shells[i].planes \in Int /\ c.shells[i].sats \in Int
              /\ c.shells[i].planes * c.shells[i].sats <= MaxSatellites
  <1> USE FilesAssumption
  <1>1. f.offset \in Nat \union {Absent} /\ f.resolution >= 1 /\ f.duration >= 30
    BY DEF Accepted
  <1>2. c.offset \in Nat /\ c.duration \in Nat \ {0} /\ c.resolution \in Nat \ {0}
    BY <1>1 DEF Filled, Absent
  <1>3. c.shells \in [1..Len(f.shells) -> Range(c.shells)] /\ DOMAIN c.shells = DOMAIN f.shells
    BY DEF Filled, Range
  <1>4. c.stations \in [1..Len(f.stations) -> Range(c.stations)]
    BY DEF Filled, Range
  <1>5. Len(c.shells) = Len(f.shells) /\ Len(c.stations) = Len(f.stations)
    BY <1>3, <1>4, LenOfFunction
  <1>6. Len(f.shells) \in 1..MaxShells
    BY DEF Accepted
  <1>7. ASSUME NEW i \in DOMAIN f.shells
        PROVE  /\ c.shells[i].planes \in Int /\ c.shells[i].sats \in Int
               /\ c.shells[i].planes * c.shells[i].sats <= MaxSatellites
    <2>1. f.shells[i] \in Range(f.shells)
      BY DEF Range
    <2>2. f.shells[i].planes * f.shells[i].sats <= MaxSatellites
      BY <2>1 DEF Accepted, MaxSatellitesOk
    <2>3. c.shells[i].planes = f.shells[i].planes /\ c.shells[i].sats = f.shells[i].sats
      BY DEF Filled
    <2>4. QED BY <2>2, <2>3
  <1>8. QED BY <1>2, <1>5, <1>6, <1>7

-----------------------------------------------------------------------------
(* The strengthening of TypeOK: satgen.py visits the timesteps one by one, *)
(* and nothing is registered before the emulation.                         *)
OnTime == \E k \in Nat : now = config.offset + k * config.resolution
Clocked == phase = "satgen" => OnTime
Blank == /\ ~Constructed => shell = 1
         /\ phase # "emulate" => registered = {} /\ refused = {}
TypeInv == TypeOK /\ Clocked /\ Blank

LEMMA ConfigFacts ==
  ASSUME TypeOK, phase \notin {"file", "refused"}
  PROVE  /\ config.offset \in Nat /\ config.duration \in Nat \ {0}
         /\ config.resolution \in Nat \ {0}
         /\ Len(config.shells) \in 1..MaxShells /\ Len(config.stations) \in Nat
         /\ \A i \in 1..Len(config.shells) :
              /\ config.shells[i].planes \in Int /\ config.shells[i].sats \in Int
              /\ config.shells[i].planes * config.shells[i].sats <= MaxSatellites
  BY AcceptedConfig DEF TypeOK

(* A timestep before the end is one of those that have files.              *)
LEMMA NextTimestep ==
  ASSUME TypeInv, Constructed, OnTime, MoreSteps
  PROVE  now \in Timesteps(config)
  <1> DEFINE o == config.offset
             r == config.resolution
             d == config.duration
  <1>1. o \in Nat /\ r \in Nat \ {0} /\ d \in Nat \ {0}
    BY ConfigFacts DEF TypeInv, Constructed
  <1>2. PICK k \in Nat : now = o + k * r
    BY DEF OnTime
  <1>3. o + k * r < o + d
    BY <1>2 DEF MoreSteps, End
  <1> HIDE DEF o, r, d
  <1>4. k <= k * r
    <2>1. PICK q \in Nat : r = q + 1
      BY <1>1
    <2>2. k * r = k * q + k
      BY <2>1
    <2>3. k * q \in Nat
      BY <2>1
    <2>4. QED BY <2>2, <2>3
  <1>5. k * r \in Nat
    BY <1>1
  <1>6. k \in 0..(d - 1)
    BY <1>1, <1>3, <1>4, <1>5
  <1>7. now < End(config)
    BY DEF MoreSteps
  <1>8. QED BY <1>2, <1>6, <1>7 DEF Timesteps, o, r, d

LEMMA TypeInit == Init => TypeInv
  BY DEF Init, TypeInv, TypeOK, Clocked, Blank, Constructed

(* What is written about a shell, and that writing keeps the archive's type. *)
LEMMA DiffTypes ==
  ASSUME TypeOK, Constructed, NEW s \in Shells(config)
  PROVE  MachineDiffs(s) \in SUBSET Diff(config) /\ LinkDiffs(s) \in SUBSET Diff(config)
  <1>1. world[s].vm \in {"STOPPED", "ACTIVE"} /\ world[s].path \in Shapes \union {"blocked"}
    BY DEF TypeOK, States
  <1>2. Satellite(s) \in Items(config) /\ Pair \in Items(config)
    BY DEF Items
  <1>3. QED BY <1>1, <1>2 DEF MachineDiffs, LinkDiffs, Diff

LEMMA WriteTypes ==
  ASSUME TypeOK, Constructed, NEW n \in Names(config), NEW d \in SUBSET Diff(config), Write(n, d)
  PROVE  /\ files' \in Archives(config) /\ given' \in Archives(config)
         /\ writers' \subseteq Names(config)
  <1> USE DEF TypeOK, Write
  <1>1. CASE d = {}
    BY <1>1
  <1>2. CASE d # {}
    <2>1. Append(Opened(n), d) \in Seq(SUBSET Diff(config))
      BY DEF Opened, Archives
    <2>2. Append(given[n], d) \in Seq(SUBSET Diff(config))
      BY DEF Archives
    <2>3. WithWriter(n) \subseteq Names(config)
      BY DEF WithWriter
    <2>4. QED BY <1>2, <2>1, <2>2, <2>3 DEF Archives
  <1>3. QED BY <1>1, <1>2

LEMMA TypeStep == TypeInv /\ [Next]_vars => TypeInv'
  <1> SUFFICES ASSUME TypeInv, [Next]_vars PROVE TypeInv'
    OBVIOUS
  <1> USE DEF TypeInv, TypeOK, Constructed, Clocked, OnTime, Blank
  <1>1. CASE Configure
    BY <1>1 DEF Configure, satgenVars, hostVars
  <1>2. CASE Construct
    <2>1. StationDiffs(config) \in Seq(SUBSET Diff(config))
      <3>1. [item |-> AllStations, is |-> "ACTIVE"] \in Diff(config)
        BY DEF Diff, Items
      <3>2. {[item |-> AllStations, is |-> "ACTIVE"]} \in SUBSET Diff(config)
        BY <3>1
      <3>3. ASSUME NEW S, NEW x \in S PROVE <<x>> \in Seq(S) /\ <<>> \in Seq(S)
        OBVIOUS
      <3>4. QED BY <3>2, <3>3, Zenon DEF StationDiffs
    <2>2. <<"m", config.offset>> \in Names(config)
      <3>1. config.offset \in Timesteps(config)
        <4>1. config.offset = config.offset + 0 * config.resolution
          BY <1>2, ConfigFacts DEF Construct
        <4>2. 0 \in 0..(config.duration - 1) /\ config.offset < End(config)
          BY <1>2, ConfigFacts DEF Construct, End
        <4>3. QED BY <4>1, <4>2 DEF Timesteps
      <3>2. QED BY <3>1 DEF Names
    <2>3. given' \in Archives(config)
      <3>1. <<>> \in Seq(SUBSET Diff(config))
        OBVIOUS
      <3>2. QED BY <1>2, <2>1, <3>1 DEF Construct, Archives
    <2>4. Still \in States
      BY DEF Still, States
    <2>5. 1 \in Shells(config) /\ config.offset \in Nat
      BY <1>2, ConfigFacts DEF Construct, Shells
    <2>6. OnTime'
      <3>1. config.offset = config.offset + 0 * config.resolution
        BY <1>2, ConfigFacts DEF Construct
      <3>2. QED BY <1>2, <3>1 DEF Construct
    <2>7. QED BY <1>2, <2>2, <2>3, <2>4, <2>5, <2>6 DEF Construct, hostVars
  <1>3. CASE Step
    <2>1. now \in Timesteps(config)
      BY <1>3, NextTimestep DEF Step
    <2>2. 1 \in Shells(config)
      BY <1>3, ConfigFacts DEF Step, Shells
    <2>3. QED BY <1>3, <2>1, <2>2 DEF Step, hostVars
  <1>4. CASE WriteMachines
    <2>1. <<"m", now>> \in Names(config) /\ MachineDiffs(shell) \in SUBSET Diff(config)
      BY <1>4, DiffTypes DEF WriteMachines, Names
    <2>2. /\ files' \in Archives(config) /\ given' \in Archives(config)
          /\ writers' \subseteq Names(config)
      BY <1>4, <2>1, WriteTypes DEF WriteMachines
    <2>3. QED BY <1>4, <2>2 DEF WriteMachines, hostVars
  <1>5. CASE WriteLinks
    <2>1. <<"l", now>> \in Names(config) /\ LinkDiffs(shell) \in SUBSET Diff(config)
      BY <1>5, DiffTypes DEF WriteLinks, Names
    <2>2. /\ files' \in Archives(config) /\ given' \in Archives(config)
          /\ writers' \subseteq Names(config)
      BY <1>5, <2>1, WriteTypes DEF WriteLinks
    <2>3. shell' \in Shells(config)
      BY <1>5, ConfigFacts DEF WriteLinks, Shells
    <2>4. ASSUME NEW k \in Nat, NEW o \in Nat, NEW r \in Nat
          PROVE  (o + k * r) + r = o + (k + 1) * r
      OBVIOUS
    <2>5. now' \in Nat /\ OnTime'
      <3>1. PICK k \in Nat : now = config.offset + k * config.resolution
        BY <1>5 DEF WriteLinks
      <3>2. config.offset \in Nat /\ config.resolution \in Nat
        BY <1>5, ConfigFacts DEF WriteLinks
      <3>3. now + config.resolution = config.offset + (k + 1) * config.resolution
        BY <2>4, <3>1, <3>2
      <3>4. now' = now \/ now' = now + config.resolution
        BY <1>5 DEF WriteLinks
      <3>5. now' \in Nat
        BY <3>2, <3>4
      <3>6. \E j \in Nat : now' = config.offset + j * config.resolution
        BY <3>1, <3>3, <3>4
      <3>7. QED BY <1>5, <3>5, <3>6 DEF WriteLinks
    <2>6. QED BY <1>5, <2>2, <2>3, <2>5 DEF WriteLinks, hostVars
  <1>6. CASE Persist
    BY <1>6 DEF Persist, satgenVars, hostVars
  <1>7. CASE Restore
    BY <1>7, ConfigFacts DEF Restore, satgenVars, FirstTimestep
  <1>8. CASE Replay
    BY <1>8, ConfigFacts DEF Replay, satgenVars
  <1>9. CASE UNCHANGED vars
    BY <1>9 DEF vars, progress, satgenVars, hostVars
  <1>10. QED
    BY <1>1, <1>2, <1>3, <1>4, <1>5, <1>6, <1>7, <1>8, <1>9 DEF Next

(* Every variable has its type.                                            *)
THEOREM TypeCorrect == Spec => []TypeOK
  <1>1. TypeInv => TypeOK
    BY DEF TypeInv
  <1>2. QED BY TypeInit, TypeStep, <1>1, PTL DEF Spec

-----------------------------------------------------------------------------
(* No file with diffs is opened again.  With one shell, those of earlier   *)
(* timesteps are left alone, and between the stations' diffs and those of  *)
(* the first timestep no other file is opened.  Within the limit, a file   *)
(* that has been opened stays open.                                        *)
OneShell == Len(config.shells) = 1
AllOpen == Cardinality(Names(config)) <= MaxWriters
OneByOne ==
  phase = "satgen" /\ OneShell =>
    \A n \in Names(config) : given[n] # <<>> =>
      n[2] < now \/ (n = <<"m", now>> /\ (part = "links" \/ n \in writers))
StayOpen ==
  phase = "satgen" /\ AllOpen =>
    \A n \in Names(config) : given[n] # <<>> => n \in writers
ArchiveInv == TypeInv /\ OneByOne /\ StayOpen /\ ArchiveIsComplete

LEMMA NamesAreFinite ==
  ASSUME TypeInv, Constructed
  PROVE  IsFiniteSet(Names(config)) /\ Cardinality(Names(config)) \in Nat
  <1>1. config.offset \in Nat /\ End(config) \in Nat /\ config.resolution \in Nat
    BY ConfigFacts DEF TypeInv, Constructed, End
  <1>2. IsFiniteSet(0..End(config))
    BY <1>1, FS_Interval
  <1>3. Timesteps(config) \subseteq 0..End(config)
    BY <1>1 DEF Timesteps
  <1>4. IsFiniteSet(Timesteps(config))
    BY <1>2, <1>3, FS_Subset
  <1>5. IsFiniteSet({"m", "l"})
    <2>1. IsFiniteSet({"m"})
      BY FS_Singleton
    <2>2. IsFiniteSet({"m"} \union {"l"})
      BY <2>1, FS_AddElement
    <2>3. {"m"} \union {"l"} = {"m", "l"}
      OBVIOUS
    <2>4. QED BY <2>2, <2>3
  <1>6. IsFiniteSet(Names(config))
    BY <1>4, <1>5, FS_Product DEF Names
  <1>7. QED BY <1>6, FS_CardinalityType

(* Within the limit there is room for one more writer.                     *)
LEMMA Room ==
  ASSUME TypeInv, Constructed, AllOpen, NEW n \in Names(config), n \notin writers
  PROVE  WithWriter(n) = writers \union {n}
  <1>1. IsFiniteSet(Names(config)) /\ Cardinality(Names(config)) \in Nat
    BY NamesAreFinite
  <1>2. writers \subseteq Names(config)
    BY DEF TypeInv, TypeOK
  <1>3. /\ IsFiniteSet(writers) /\ Cardinality(writers) <= Cardinality(Names(config))
        /\ Cardinality(writers) # Cardinality(Names(config))
    BY <1>1, <1>2, FS_Subset
  <1>4. Cardinality(writers) \in Nat
    BY <1>3, FS_CardinalityType
  <1>5. ~(Cardinality(writers) >= MaxWriters)
    BY <1>1, <1>3, <1>4, TrajectoryAssumption DEF AllOpen
  <1>6. QED BY <1>5 DEF WithWriter

(* Writing to a file that is open, or that is empty, keeps what it has.    *)
LEMMA WriteKeeps ==
  ASSUME TypeInv, Constructed, NEW n \in Names(config), NEW d, Write(n, d),
         files = given, n \in writers \/ given[n] = <<>>
  PROVE  files' = given'
  <1>1. Opened(n) = given[n]
    BY DEF Opened
  <1>2. QED BY <1>1 DEF Write

LEMMA WriteStaysOpen ==
  ASSUME ArchiveInv, phase = "satgen", AllOpen, NEW n \in Names(config), NEW d, Write(n, d)
  PROVE  \A k \in Names(config) : given'[k] # <<>> => k \in writers'
  <1>1. \A k \in Names(config) : given[k] # <<>> => k \in writers
    BY DEF ArchiveInv, StayOpen
  <1>2. CASE d = {}
    BY <1>1, <1>2 DEF Write
  <1>3. CASE d # {}
    <2>1. writers' = writers \union {n}
      BY <1>3, Room DEF Write, WithWriter, ArchiveInv, Constructed
    <2>2. ASSUME NEW k \in Names(config), k # n PROVE given'[k] = given[k]
      BY <1>3, <2>2 DEF Write, ArchiveInv, TypeInv, TypeOK, Constructed, Archives
    <2>3. QED BY <1>1, <2>1, <2>2
  <1>4. QED BY <1>2, <1>3

LEMMA ArchiveInit == Init => ArchiveInv
  BY TypeInit DEF Init, ArchiveInv, OneByOne, StayOpen, ArchiveIsComplete, Constructed

LEMMA ArchiveStep == ArchiveInv /\ [Next]_vars => ArchiveInv'
  <1> SUFFICES ASSUME ArchiveInv, [Next]_vars PROVE ArchiveInv'
    OBVIOUS
  <1> TypeInv'
    BY TypeStep DEF ArchiveInv
  <1> SUFFICES OneByOne' /\ StayOpen' /\ ArchiveIsComplete'
    BY DEF ArchiveInv
  <1> USE DEF ArchiveInv, OneByOne, StayOpen, ArchiveIsComplete, Constructed, WithinLimit,
              OneShell, AllOpen
  <1>1. CASE Configure
    BY <1>1 DEF Configure, satgenVars
  <1>2. CASE Construct
    <2>1. files' = given' /\ config' = config /\ now' = config.offset
      BY <1>2 DEF Construct
    <2>2. ASSUME NEW k \in Names(config), given'[k] # <<>>
          PROVE  k = <<"m", config.offset>> /\ k \in writers'
      <3>1. k = <<"m", config.offset>> /\ StationDiffs(config) # <<>>
        BY <1>2, <2>2 DEF Construct
      <3>2. config.stations # <<>>
        BY <3>1 DEF StationDiffs
      <3>3. QED BY <1>2, <3>1, <3>2 DEF Construct
    <2>3. QED BY <1>2, <2>1, <2>2
  <1>3. CASE Step
    <2>1. part = "none" /\ part' = "machines"
      BY <1>3 DEF Step
    <2>2. QED BY <1>3, <2>1 DEF Step
  <1>4. CASE WriteMachines
    <2> DEFINE n == <<"m", now>>
    <2>1. phase = "satgen" /\ n \in Names(config) /\ Write(n, MachineDiffs(shell))
      BY <1>4 DEF WriteMachines, Names, TypeInv, TypeOK
    <2>2. UNCHANGED <<phase, config, now>> /\ part' = "links" /\ part = "machines"
      BY <1>4 DEF WriteMachines
    <2>3. StayOpen'
      BY <2>1, <2>2, WriteStaysOpen
    <2>4. ASSUME NEW k \in Names(config), k # n PROVE given'[k] = given[k]
      BY <2>1, <2>4 DEF Write, TypeInv, TypeOK, Archives
    <2>5. OneByOne'
      BY <2>1, <2>2, <2>4
    <2>6. ASSUME OneShell \/ AllOpen PROVE files' = given'
      <3>1. n \in writers \/ given[n] = <<>>
        <4>1. now \in Nat /\ n[2] = now
          BY DEF TypeInv, TypeOK
        <4>2. QED BY <2>1, <2>2, <2>6, <4>1
      <3>2. QED BY <2>1, <2>6, <3>1, WriteKeeps
    <2>7. QED BY <2>1, <2>2, <2>3, <2>5, <2>6
  <1>5. CASE WriteLinks
    <2> DEFINE n == <<"l", now>>
    <2>1. phase = "satgen" /\ n \in Names(config) /\ Write(n, LinkDiffs(shell))
      BY <1>5 DEF WriteLinks, Names, TypeInv, TypeOK
    <2>2. UNCHANGED <<phase, config>> /\ part = "links"
      BY <1>5 DEF WriteLinks
    <2>3. StayOpen'
      BY <2>1, <2>2, WriteStaysOpen
    <2>4. ASSUME NEW k \in Names(config), k # n PROVE given'[k] = given[k]
      BY <2>1, <2>4 DEF Write, TypeInv, TypeOK, Archives
    <2>5. ASSUME OneShell PROVE OneByOne'
      <3>1. now \in Nat /\ config.resolution \in Nat \ {0}
        BY <2>1, ConfigFacts DEF TypeInv, TypeOK
      <3>2. now' = now + config.resolution
        BY <1>5, <2>5, <3>1 DEF WriteLinks, TypeInv, TypeOK, Shells
      <3>3. ASSUME NEW k \in Names(config), given'[k] # <<>> PROVE k[2] < now'
        <4>1. k = n \/ k[2] < now \/ k = <<"m", now>>
          BY <2>1, <2>4, <2>5, <3>3
        <4>2. CASE k = n \/ k = <<"m", now>>
          BY <3>1, <3>2, <4>2
        <4>3. CASE k[2] < now
          <5>1. k[2] \in Int
            BY <2>1, ConfigFacts DEF Names, Timesteps, TypeInv
          <5>2. QED BY <3>1, <3>2, <4>3, <5>1
        <4>4. QED BY <4>1, <4>2, <4>3
      <3>4. QED BY <2>1, <2>2, <3>3
    <2>6. ASSUME OneShell \/ AllOpen PROVE files' = given'
      <3>1. n \in writers \/ given[n] = <<>>
        <4>1. now \in Nat /\ n[2] = now /\ n # <<"m", now>>
          BY DEF TypeInv, TypeOK
        <4>2. QED BY <2>1, <2>2, <2>6, <4>1
      <3>2. QED BY <2>1, <2>6, <3>1, WriteKeeps
    <2>7. QED BY <2>1, <2>2, <2>3, <2>5, <2>6
  <1>6. CASE Persist
    BY <1>6 DEF Persist, satgenVars
  <1>7. CASE Restore
    BY <1>7 DEF Restore, satgenVars
  <1>8. CASE Replay
    BY <1>8 DEF Replay, satgenVars
  <1>9. CASE UNCHANGED vars
    BY <1>9 DEF vars, progress, satgenVars
  <1>10. QED
    BY <1>1, <1>2, <1>3, <1>4, <1>5, <1>6, <1>7, <1>8, <1>9 DEF Next

(* The archive holds what the serializer was given, for one shell and for  *)
(* as many files as may be open at once, whatever the limit is.            *)
THEOREM ArchiveComplete == Spec => []ArchiveIsComplete
  <1>1. ArchiveInv => ArchiveIsComplete
    BY DEF ArchiveInv
  <1>2. QED BY ArchiveInit, ArchiveStep, <1>1, PTL DEF Spec

-----------------------------------------------------------------------------
(* What the files of a timestep hold once all of them are written: every   *)
(* change of the timestep, with its new value, and nothing else.  While    *)
(* satgen.py is at a timestep they hold those of the shells before.        *)
Before(t) ==
  IF t = config.offset THEN [s \in Shells(config) |-> Still] ELSE truth[t - config.resolution]
Finished(t) == phase = "emulate" \/ t < now
DoneMachines(t) ==
  {s \in Shells(config) :
     \/ Finished(t)
     \/ t = now /\ part # "none" /\ (s < shell \/ (part = "links" /\ s = shell))}
DoneLinks(t) ==
  {s \in Shells(config) : Finished(t) \/ (t = now /\ part # "none" /\ s < shell)}

Report(item, value) == {[item |-> item, is |-> value]}
Change(item, value, was) == IF value = was THEN {} ELSE {Report(item, value)}
MachineChanges(done, new, before) ==
  {Report(Satellite(s), new[s].vm) : s \in {s \in done : new[s].vm # before[s].vm}}
LinkChanges(done, new, before) ==
  {Report(Pair, new[s].path) : s \in {s \in done : new[s].path # before[s].path}}
MachineReports(t) ==
  MachineChanges(DoneMachines(t), truth[t], Before(t))
    \union Range(IF t = config.offset THEN StationDiffs(config) ELSE <<>>)
LinkReports(t) == LinkChanges(DoneLinks(t), truth[t], Before(t))

FilesHold ==
  Constructed => \A t \in Timesteps(config) :
    /\ Range(given[<<"m", t>>]) = MachineReports(t)
    /\ Range(given[<<"l", t>>]) = LinkReports(t)
Moving ==
  /\ phase = "satgen" =>
       IF part = "none" THEN world = Before(now) ELSE world = truth[now] /\ old = Before(now)
  /\ phase = "archived" => now >= End(config)
HeldInv == TypeInv /\ FilesHold /\ Moving

LEMMA RangeOfAppend ==
  ASSUME NEW S, NEW s \in Seq(S), NEW x \in S
  PROVE  Range(Append(s, x)) = Range(s) \union {x}
  <1>1. /\ Append(s, x) \in Seq(S) /\ Len(Append(s, x)) = Len(s) + 1
        /\ \A i \in 1..Len(s) : Append(s, x)[i] = s[i]
        /\ Append(s, x)[Len(s) + 1] = x
    BY AppendProperties
  <1>2. /\ DOMAIN Append(s, x) = 1..(Len(s) + 1) /\ DOMAIN s = 1..Len(s) /\ Len(s) \in Nat
    BY <1>1
  <1>3. \A i \in 1..(Len(s) + 1) : i \in 1..Len(s) \/ i = Len(s) + 1
    BY <1>2
  <1>4. Len(s) + 1 \in 1..(Len(s) + 1) /\ \A i \in 1..Len(s) : i \in 1..(Len(s) + 1)
    BY <1>2
  <1> DEFINE a == Append(s, x)
             n == Len(s)
  <1> HIDE DEF a, n
  <1>5. /\ DOMAIN a = 1..(n + 1) /\ DOMAIN s = 1..n /\ a[n + 1] = x /\ \A i \in 1..n : a[i] = s[i]
        /\ n + 1 \in 1..(n + 1) /\ (\A i \in 1..n : i \in 1..(n + 1))
        /\ \A i \in 1..(n + 1) : i \in 1..n \/ i = n + 1
    BY <1>1, <1>2, <1>3, <1>4 DEF a, n
  <1>6. Range(a) = Range(s) \union {x}
    <2>1. \A y \in Range(a) : y \in Range(s) \union {x}
      BY <1>5 DEF Range
    <2>2. \A y \in Range(s) : y \in Range(a)
      BY <1>5 DEF Range
    <2>3. x \in Range(a)
      BY <1>5 DEF Range
    <2>4. QED BY <2>1, <2>2, <2>3
  <1>7. QED BY <1>6 DEF a

LEMMA RangeOfConcat ==
  ASSUME NEW S, NEW s \in Seq(S), NEW t \in Seq(S)
  PROVE  Range(s \o t) = Range(s) \union Range(t)
  <1> DEFINE u == s \o t
             m == Len(s)
             n == Len(t)
  <1>1. /\ u \in Seq(S) /\ Len(u) = m + n
        /\ \A i \in 1..(m + n) : u[i] = IF i <= m THEN s[i] ELSE t[i - m]
    BY ConcatProperties
  <1>2. /\ DOMAIN u = 1..(m + n) /\ DOMAIN s = 1..m /\ DOMAIN t = 1..n /\ m \in Nat /\ n \in Nat
    BY <1>1
  <1> HIDE DEF u, m, n
  <1>3. \A i \in 1..m : i \in 1..(m + n) /\ u[i] = s[i]
    BY <1>1, <1>2
  <1>4. \A i \in 1..n : i + m \in 1..(m + n) /\ u[i + m] = t[i]
    <2>1. ASSUME NEW i \in 1..n
          PROVE  i + m \in 1..(m + n) /\ ~(i + m <= m) /\ (i + m) - m = i
      BY <1>2
    <2>2. QED BY <1>1, <2>1
  <1>5. \A i \in 1..(m + n) : i \in 1..m \/ (i - m \in 1..n /\ u[i] = t[i - m])
    BY <1>1, <1>2
  <1>6. \A y \in Range(u) : y \in Range(s) \union Range(t)
    BY <1>2, <1>3, <1>5 DEF Range
  <1>7. \A y \in Range(s) : y \in Range(u)
    BY <1>2, <1>3 DEF Range
  <1>8. \A y \in Range(t) : y \in Range(u)
    BY <1>2, <1>4 DEF Range
  <1>9. Range(u) = Range(s) \union Range(t)
    BY <1>6, <1>7, <1>8
  <1>10. QED BY <1>9 DEF u

(* Timesteps lie a resolution apart, and so does satgen.py or celestial.py. *)
LEMMA Grid ==
  ASSUME TypeInv, Constructed, OnTime, NEW t \in Timesteps(config)
  PROVE  /\ t \in Nat /\ now \in Nat /\ t >= config.offset /\ config.offset \in Nat
         /\ config.resolution \in Nat \ {0}
         /\ t < now + config.resolution => t <= now
         /\ t < now => t <= now - config.resolution
         /\ t # config.offset => t - config.resolution \in Timesteps(config)
  <1> DEFINE o == config.offset
             r == config.resolution
             d == config.duration
  <1>1. o \in Nat /\ r \in Nat \ {0} /\ d \in Nat \ {0} /\ End(config) = o + d
    BY ConfigFacts DEF TypeInv, Constructed, End
  <1>2. PICK k \in Nat : now = o + k * r
    BY DEF OnTime
  <1>3. PICK j \in 0..(d - 1) : t = o + j * r /\ t < End(config)
    BY DEF Timesteps
  <1> HIDE DEF o, r, d
  <1>4. ASSUME NEW a \in Nat, NEW b \in Nat, a < b
        PROVE  a * r + r <= b * r /\ a * r \in Nat /\ b * r \in Nat
    <2>1. PICK c \in Nat : b = (a + 1) + c
      <3>1. b - (a + 1) \in Nat
        BY <1>4
      <3>2. QED BY <3>1
    <2>2. b * r = a * r + r + c * r /\ a * r \in Nat /\ c * r \in Nat
      BY <1>1, <2>1
    <2>3. QED BY <1>1, <2>2
  <1>5. j \in Nat /\ j * r \in Nat /\ k * r \in Nat
    BY <1>1
  <1>6. j < k => j * r + r <= k * r
    BY <1>4, <1>5
  <1>7. k < j => k * r + r <= j * r
    BY <1>4, <1>5
  <1>8. j < k \/ j = k \/ k < j
    BY <1>5
  <1>9. (t < now + r => t <= now) /\ (t < now => t <= now - r)
    BY <1>1, <1>2, <1>3, <1>5, <1>6, <1>7, <1>8
  <1>10. t # o => t - r \in Timesteps(config)
    <2>1. ASSUME t # o PROVE t - r \in Timesteps(config)
      <3>1. j # 0
        <4>1. 0 * r = 0 /\ o + 0 = o
          BY <1>1
        <4>2. QED BY <1>3, <2>1, <4>1
      <3>2. j - 1 \in 0..(d - 1)
        BY <1>1, <3>1
      <3>3. o + (j - 1) * r = t - r
        <4>1. (j - 1) * r = j * r - r
          BY <1>1, <1>5
        <4>2. QED BY <1>1, <1>3, <1>5, <4>1
      <3>4. t - r < End(config)
        BY <1>1, <1>3, <1>5
      <3>5. QED BY <3>2, <3>3, <3>4 DEF Timesteps, o, r, d
    <2>2. QED BY <2>1
  <1>11. t \in Nat /\ now \in Nat /\ t >= o
    BY <1>1, <1>2, <1>3, <1>5
  <1>12. QED BY <1>1, <1>9, <1>10, <1>11 DEF o, r

(* Nothing changes for no shell.                                           *)
LEMMA NoneDone ==
  ASSUME NEW new, NEW before
  PROVE  MachineChanges({}, new, before) = {} /\ LinkChanges({}, new, before) = {}
  BY DEF MachineChanges, LinkChanges

(* One more shell adds its own change.                                     *)
LEMMA OneMoreMachine ==
  \A done, s, new, before :
    MachineChanges(done \union {s}, new, before) =
      MachineChanges(done, new, before) \union Change(Satellite(s), new[s].vm, before[s].vm)
  <1> TAKE done, s, new, before
  <1> DEFINE Own(u) == Report(Satellite(u), new[u].vm)
  <1>1. \A e : MachineChanges(e, new, before) =
                {Own(u) : u \in {v \in e : new[v].vm # before[v].vm}}
    BY DEF MachineChanges
  <1>2. Change(Satellite(s), new[s].vm, before[s].vm) =
          IF new[s].vm = before[s].vm THEN {} ELSE {Own(s)}
    BY DEF Change
  <1> HIDE DEF Own
  <1>3. QED BY <1>1, <1>2

LEMMA OneMoreLink ==
  \A done, s, new, before :
    LinkChanges(done \union {s}, new, before) =
      LinkChanges(done, new, before) \union Change(Pair, new[s].path, before[s].path)
  <1> TAKE done, s, new, before
  <1> DEFINE Path(u) == Report(Pair, new[u].path)
  <1>1. \A e : LinkChanges(e, new, before) =
                {Path(u) : u \in {v \in e : new[v].path # before[v].path}}
    BY DEF LinkChanges
  <1>2. Change(Pair, new[s].path, before[s].path) =
          IF new[s].path = before[s].path THEN {} ELSE {Path(s)}
    BY DEF Change
  <1> HIDE DEF Path
  <1>3. QED BY <1>1, <1>2

(* What is written to a file is added to what it holds.                    *)
LEMMA Written ==
  ASSUME TypeInv, Constructed, NEW n \in Names(config), NEW d \in SUBSET Diff(config), Write(n, d)
  PROVE  /\ Range(given'[n]) = Range(given[n]) \union (IF d = {} THEN {} ELSE {d})
         /\ \A k \in Names(config) : k # n => given'[k] = given[k]
  <1>1. given \in Archives(config)
    BY DEF TypeInv, TypeOK
  <1>2. CASE d = {}
    BY <1>2 DEF Write
  <1>3. CASE d # {}
    <2>1. given' = [given EXCEPT ![n] = Append(given[n], d)]
      BY <1>3 DEF Write
    <2>2. given[n] \in Seq(SUBSET Diff(config))
      BY <1>1 DEF Archives
    <2>3. given'[n] = Append(given[n], d) /\ \A k \in Names(config) : k # n => given'[k] = given[k]
      BY <1>1, <2>1 DEF Archives
    <2>4. Range(Append(given[n], d)) = Range(given[n]) \union {d}
      BY <2>2, RangeOfAppend
    <2>5. QED BY <1>3, <2>3, <2>4
  <1>4. QED BY <1>2, <1>3

(* A step that changes neither whose reports are written nor what they say *)
(* leaves the reports of a timestep as they are.                           *)
LEMMA SameReports ==
  ASSUME NEW t, config' = config, truth'[t] = truth[t], Before(t)' = Before(t)
  PROVE  /\ DoneMachines(t)' = DoneMachines(t) => MachineReports(t)' = MachineReports(t)
         /\ DoneLinks(t)' = DoneLinks(t) => LinkReports(t)' = LinkReports(t)
  BY DEF MachineReports, LinkReports, MachineChanges, LinkChanges

LEMMA HeldStep == HeldInv /\ [Next]_vars => HeldInv'
  <1> SUFFICES ASSUME HeldInv, [Next]_vars PROVE HeldInv'
    OBVIOUS
  <1> TypeInv /\ TypeInv'
    BY TypeStep DEF HeldInv
  <1> SUFFICES FilesHold' /\ Moving'
    BY DEF HeldInv
  <1> DEFINE Held(t) == /\ Range(given[<<"m", t>>]) = MachineReports(t)
                        /\ Range(given[<<"l", t>>]) = LinkReports(t)
  <1>1. CASE Configure
    BY <1>1 DEF Configure, FilesHold, Moving, Constructed
  <1>2. CASE Construct
    <2>1. /\ phase' = "satgen" /\ now' = config.offset /\ config' = config /\ part' = part
          /\ world' = [s \in Shells(config) |-> Still]
          /\ given' = [n \in Names(config) |->
               IF n = <<"m", config.offset>> THEN StationDiffs(config) ELSE <<>>]
      BY <1>2 DEF Construct
    <2>2. part = "none"
      BY <1>2 DEF Construct, TypeInv, TypeOK
    <2>3. Moving'
      BY <2>1, <2>2 DEF Moving, Before
    <2>4. ASSUME NEW t \in Timesteps(config) PROVE Held(t)'
      <3>1. t \in Nat /\ ~(t < config.offset)
        <4>1. PICK k \in 0..(config.duration - 1) : t = config.offset + k * config.resolution
          BY DEF Timesteps
        <4>2. config.offset \in Nat /\ k * config.resolution \in Nat
          BY <1>2, ConfigFacts DEF Construct, TypeInv
        <4>3. QED BY <4>1, <4>2
      <3>2. DoneMachines(t)' = {} /\ DoneLinks(t)' = {}
        BY <2>1, <2>2, <3>1 DEF DoneMachines, DoneLinks, Finished
      <3>3. given'[<<"m", t>>] = (IF t = config.offset THEN StationDiffs(config) ELSE <<>>)
            /\ given'[<<"l", t>>] = <<>>
        BY <2>1 DEF Names
      <3>4. Range(<<>>) = {}
        BY DEF Range
      <3>5. MachineReports(t)' = Range(IF t = config.offset THEN StationDiffs(config) ELSE <<>>)
            /\ LinkReports(t)' = {}
        BY <2>1, <3>2, NoneDone DEF MachineReports, LinkReports
      <3>6. QED BY <3>3, <3>4, <3>5
    <2>5. QED BY <2>1, <2>3, <2>4 DEF FilesHold
  <1>3. CASE Step
    <2>1. /\ phase = "satgen" /\ part = "none" /\ MoreSteps
          /\ shell' = 1 /\ part' = "machines" /\ old' = world
          /\ truth' = [truth EXCEPT ![now] = world']
          /\ UNCHANGED <<phase, config, now, given>>
      BY <1>3 DEF Step
    <2>2. now \in Timesteps(config) /\ Constructed /\ OnTime
      BY <2>1, NextTimestep DEF Constructed, TypeInv, Clocked
    <2>3. /\ truth'[now] = world'
          /\ \A t \in Timesteps(config) : t # now => truth'[t] = truth[t]
      BY <2>1, <2>2 DEF TypeInv, TypeOK
    <2>4. ASSUME NEW t \in Timesteps(config), t <= now PROVE Before(t)' = Before(t)
      <3>1. CASE t = config.offset
        BY <2>1, <3>1 DEF Before
      <3>2. CASE t # config.offset
        <4>1. t - config.resolution \in Timesteps(config) /\ t - config.resolution # now
          BY <2>2, <2>4, <3>2, Grid
        <4>2. QED BY <2>1, <2>3, <3>2, <4>1 DEF Before
      <3>3. QED BY <3>1, <3>2
    <2>5. Moving'
      <3>1. world = Before(now)
        BY <2>1 DEF HeldInv, Moving
      <3>2. PICK t \in Timesteps(config) : t = now
        BY <2>2
      <3>3. Before(t)' = Before(t)
        BY <2>2, <2>4, <3>2, Grid
      <3>4. Before(now)' = Before(t)'
        BY <2>1, <3>2 DEF Before
      <3>5. world' = (truth[now])' /\ old' = Before(now)'
        BY <2>1, <2>3, <3>1, <3>2, <3>3, <3>4
      <3>6. QED BY <2>1, <3>5 DEF Moving
    <2>6. ASSUME NEW t \in Timesteps(config) PROVE Held(t)'
      <3>1. Held(t)
        BY <2>2 DEF HeldInv, FilesHold
      <3>2. t \in Nat /\ now \in Nat
        BY <2>2, Grid
      <3>3. CASE t < now
        <4>1. DoneMachines(t)' = DoneMachines(t) /\ DoneLinks(t)' = DoneLinks(t)
          BY <2>1, <3>3 DEF DoneMachines, DoneLinks, Finished
        <4>2. truth'[t] = truth[t] /\ Before(t)' = Before(t)
          BY <2>3, <2>4, <3>2, <3>3
        <4>3. QED BY <2>1, <3>1, <4>1, <4>2, SameReports
      <3>4. CASE ~(t < now)
        <4>1. DoneMachines(t) = {} /\ DoneLinks(t) = {}
          BY <2>1, <3>4 DEF DoneMachines, DoneLinks, Finished
        <4>2. DoneMachines(t)' = {} /\ DoneLinks(t)' = {}
          <5>1. \A s \in Shells(config) : ~(s < 1)
            BY DEF Shells
          <5>2. QED BY <2>1, <3>4, <5>1 DEF DoneMachines, DoneLinks, Finished
        <4>3. MachineReports(t)' = MachineReports(t) /\ LinkReports(t)' = LinkReports(t)
          BY <2>1, <4>1, <4>2, NoneDone DEF MachineReports, LinkReports
        <4>4. QED BY <2>1, <3>1, <4>3
      <3>5. QED BY <3>3, <3>4
    <2>7. QED BY <2>1, <2>5, <2>6 DEF FilesHold
  <1>4. CASE WriteMachines
    <2> DEFINE n == <<"m", now>>
               d == MachineDiffs(shell)
    <2>1. /\ part = "machines" /\ part' = "links" /\ Write(n, d)
          /\ UNCHANGED <<phase, config, now, shell, world, old, truth>>
      BY <1>4 DEF WriteMachines
    <2>2. phase = "satgen" /\ now \in Timesteps(config) /\ Constructed /\ shell \in Shells(config)
      BY <2>1 DEF TypeInv, TypeOK, Constructed
    <2>3. \A t : Before(t)' = Before(t)
      BY <2>1 DEF Before
    <2>4. world = truth[now] /\ old = Before(now)
      BY <2>1, <2>2 DEF HeldInv, Moving
    <2>5. Moving'
      BY <2>1, <2>2, <2>3, <2>4 DEF Moving
    <2>6. /\ Range(given'[n]) = Range(given[n]) \union (IF d = {} THEN {} ELSE {d})
          /\ \A k \in Names(config) : k # n => given'[k] = given[k]
      <3>1. n \in Names(config) /\ d \in SUBSET Diff(config)
        BY <2>2, DiffTypes DEF Names, TypeInv
      <3>2. QED BY <2>1, <2>2, <3>1, Written
    <2>7. (IF d = {} THEN {} ELSE {d}) =
            Change(Satellite(shell), truth[now][shell].vm, Before(now)[shell].vm)
      BY <2>4 DEF MachineDiffs, Change, Report
    <2> HIDE DEF d
    <2>8. ASSUME NEW t \in Timesteps(config) PROVE Held(t)'
      <3>1. Held(t)
        BY <2>2 DEF HeldInv, FilesHold
      <3>2. DoneLinks(t)' = DoneLinks(t)
        BY <2>1 DEF DoneLinks, Finished
      <3>3. given'[<<"l", t>>] = given[<<"l", t>>]
        <4>1. <<"l", t>> \in Names(config) /\ <<"l", t>> # n
          BY DEF Names
        <4>2. QED BY <2>6, <4>1
      <3>4. truth'[t] = truth[t] /\ Before(t)' = Before(t)
        BY <2>1, <2>3
      <3>5. CASE t = now
        <4>1. DoneMachines(t)' = DoneMachines(t) \union {shell}
          <5>1. \A s \in Shells(config) : s \in DoneMachines(t)' <=> s \in DoneMachines(t) \/ s = shell
            BY <2>1, <3>5 DEF DoneMachines, Finished
          <5>2. DoneMachines(t)' \subseteq Shells(config) /\ DoneMachines(t) \subseteq Shells(config)
            BY <2>1 DEF DoneMachines
          <5>3. QED BY <2>2, <5>1, <5>2
        <4>2. MachineReports(t)' = MachineReports(t) \union (IF d = {} THEN {} ELSE {d})
          <5>1. MachineChanges(DoneMachines(t) \union {shell}, truth[t], Before(t)) =
                  MachineChanges(DoneMachines(t), truth[t], Before(t))
                    \union (IF d = {} THEN {} ELSE {d})
            <6>1. (IF d = {} THEN {} ELSE {d}) =
                    Change(Satellite(shell), truth[t][shell].vm, Before(t)[shell].vm)
              BY <2>7, <3>5
            <6>2. PICK done : done = DoneMachines(t)
              OBVIOUS
            <6>3. PICK new : new = truth[t]
              OBVIOUS
            <6>4. PICK before : before = Before(t)
              OBVIOUS
            <6>5. PICK s : s = shell
              OBVIOUS
            <6>6. MachineChanges(done \union {s}, new, before) =
                    MachineChanges(done, new, before)
                      \union Change(Satellite(s), new[s].vm, before[s].vm)
              BY OneMoreMachine
            <6>7. QED BY <6>1, <6>2, <6>3, <6>4, <6>5, <6>6
          <5>2. MachineReports(t)' =
                  MachineChanges(DoneMachines(t) \union {shell}, truth[t], Before(t))
                    \union Range(IF t = config.offset THEN StationDiffs(config) ELSE <<>>)
            BY <2>1, <3>4, <4>1 DEF MachineReports
          <5>3. QED BY <5>1, <5>2 DEF MachineReports
        <4>3. LinkReports(t)' = LinkReports(t)
          BY <2>1, <3>2, <3>4, SameReports
        <4>4. QED BY <2>6, <3>1, <3>3, <3>5, <4>2, <4>3
      <3>6. CASE t # now
        <4>1. DoneMachines(t)' = DoneMachines(t)
          BY <2>1, <3>6 DEF DoneMachines, Finished
        <4>2. <<"m", t>> \in Names(config) /\ <<"m", t>> # n
          BY <3>6 DEF Names
        <4>3. MachineReports(t)' = MachineReports(t) /\ LinkReports(t)' = LinkReports(t)
          BY <2>1, <3>2, <3>4, <4>1, SameReports
        <4>4. QED BY <2>6, <3>1, <3>3, <4>2, <4>3
      <3>7. QED BY <3>5, <3>6
    <2>9. QED BY <2>1, <2>5, <2>8 DEF FilesHold
  <1>5. CASE WriteLinks
    <2> DEFINE n == <<"l", now>>
               d == LinkDiffs(shell)
    <2>1. /\ part = "links" /\ Write(n, d) /\ UNCHANGED <<phase, config, world, old, truth>>
          /\ IF shell < Len(config.shells)
             THEN shell' = shell + 1 /\ part' = "machines" /\ now' = now
             ELSE part' = "none" /\ now' = now + config.resolution /\ shell' = shell
      BY <1>5 DEF WriteLinks
    <2>2. phase = "satgen" /\ now \in Timesteps(config) /\ Constructed /\ shell \in Shells(config)
      BY <2>1 DEF TypeInv, TypeOK, Constructed
    <2>3. \A t : Before(t)' = Before(t)
      BY <2>1 DEF Before
    <2>4. world = truth[now] /\ old = Before(now)
      BY <2>1, <2>2 DEF HeldInv, Moving
    <2>5. OnTime /\ now \in Nat /\ config.offset \in Nat /\ now >= config.offset
          /\ config.resolution \in Nat \ {0}
      BY <2>2, Grid DEF TypeInv, Clocked
    <2>6. Moving'
      <3>1. CASE part' = "machines"
        BY <2>1, <2>2, <2>3, <2>4, <3>1 DEF Moving
      <3>2. CASE part' = "none"
        <4>1. now' = now + config.resolution
          BY <2>1, <3>2
        <4>2. now' # config.offset /\ now' - config.resolution = now
          BY <2>5, <4>1
        <4>3. Before(now)' = truth[now]
          BY <2>1, <4>2 DEF Before
        <4>4. QED BY <2>1, <2>2, <2>4, <3>2, <4>3 DEF Moving
      <3>3. QED BY <2>1, <3>1, <3>2
    <2>7. /\ Range(given'[n]) = Range(given[n]) \union (IF d = {} THEN {} ELSE {d})
          /\ \A k \in Names(config) : k # n => given'[k] = given[k]
      <3>1. n \in Names(config) /\ d \in SUBSET Diff(config)
        BY <2>2, DiffTypes DEF Names, TypeInv
      <3>2. QED BY <2>1, <2>2, <3>1, Written
    <2>8. (IF d = {} THEN {} ELSE {d}) =
            Change(Pair, truth[now][shell].path, Before(now)[shell].path)
      BY <2>4 DEF LinkDiffs, Change, Report
    <2> HIDE DEF d
    <2>9. Len(config.shells) \in Nat /\ \A s \in Shells(config) : s \in Nat /\ s <= Len(config.shells)
      BY <2>2, ConfigFacts DEF TypeInv, Shells
    <2>10. ASSUME NEW t \in Timesteps(config) PROVE Held(t)'
      <3>1. Held(t)
        BY <2>2 DEF HeldInv, FilesHold
      <3>2. t \in Nat /\ (t < now + config.resolution => t <= now)
        BY <2>2, <2>5, Grid
      <3>3. DoneMachines(t)' = DoneMachines(t)
        <4>1. CASE shell < Len(config.shells)
          <5>1. ASSUME NEW s \in Shells(config)
                PROVE  s < shell + 1 <=> s < shell \/ s = shell
            BY <2>2, <2>9
          <5>2. QED BY <2>1, <4>1, <5>1 DEF DoneMachines, Finished
        <4>2. CASE ~(shell < Len(config.shells))
          <5>1. ASSUME NEW s \in Shells(config) PROVE s < shell \/ s = shell
            BY <2>2, <2>9, <4>2
          <5>2. t < now + config.resolution <=> t < now \/ t = now
            BY <2>5, <3>2
          <5>3. QED BY <2>1, <4>2, <5>1, <5>2 DEF DoneMachines, Finished
        <4>3. QED BY <4>1, <4>2
      <3>4. given'[<<"m", t>>] = given[<<"m", t>>]
        <4>1. <<"m", t>> \in Names(config) /\ <<"m", t>> # n
          BY DEF Names
        <4>2. QED BY <2>7, <4>1
      <3>5. truth'[t] = truth[t] /\ Before(t)' = Before(t)
        BY <2>1, <2>3
      <3>6. MachineReports(t)' = MachineReports(t)
        BY <2>1, <3>3, <3>5, SameReports
      <3>7. CASE t = now
        <4>1. DoneLinks(t)' = DoneLinks(t) \union {shell}
          <5>1. ASSUME NEW s \in Shells(config)
                PROVE  s \in DoneLinks(t)' <=> s \in DoneLinks(t) \/ s = shell
            BY <2>1, <2>2, <2>5, <2>9, <3>7 DEF DoneLinks, Finished
          <5>2. DoneLinks(t)' \subseteq Shells(config) /\ DoneLinks(t) \subseteq Shells(config)
            BY <2>1 DEF DoneLinks
          <5>3. QED BY <2>2, <5>1, <5>2
        <4>2. LinkReports(t)' = LinkReports(t) \union (IF d = {} THEN {} ELSE {d})
          <5>1. LinkChanges(DoneLinks(t) \union {shell}, truth[t], Before(t)) =
                  LinkChanges(DoneLinks(t), truth[t], Before(t))
                    \union (IF d = {} THEN {} ELSE {d})
            <6>1. (IF d = {} THEN {} ELSE {d}) =
                    Change(Pair, truth[t][shell].path, Before(t)[shell].path)
              BY <2>8, <3>7
            <6>2. PICK done : done = DoneLinks(t)
              OBVIOUS
            <6>3. PICK new : new = truth[t]
              OBVIOUS
            <6>4. PICK before : before = Before(t)
              OBVIOUS
            <6>5. PICK s : s = shell
              OBVIOUS
            <6>6. LinkChanges(done \union {s}, new, before) =
                    LinkChanges(done, new, before)
                      \union Change(Pair, new[s].path, before[s].path)
              BY OneMoreLink
            <6>7. QED BY <6>1, <6>2, <6>3, <6>4, <6>5, <6>6
          <5>2. LinkReports(t)' = LinkChanges(DoneLinks(t) \union {shell}, truth[t], Before(t))
            BY <3>5, <4>1 DEF LinkReports
          <5>3. QED BY <5>1, <5>2 DEF LinkReports
        <4>3. QED BY <2>7, <3>1, <3>4, <3>6, <3>7, <4>2
      <3>8. CASE t # now
        <4>1. DoneLinks(t)' = DoneLinks(t)
          <5>1. ASSUME NEW s \in Shells(config)
                PROVE  s \in DoneLinks(t)' <=> s \in DoneLinks(t)
            BY <2>1, <2>2, <2>5, <3>2, <3>8 DEF DoneLinks, Finished
          <5>2. DoneLinks(t)' \subseteq Shells(config) /\ DoneLinks(t) \subseteq Shells(config)
            BY <2>1 DEF DoneLinks
          <5>3. QED BY <5>1, <5>2
        <4>2. <<"l", t>> \in Names(config) /\ <<"l", t>> # n
          BY <3>8 DEF Names
        <4>3. LinkReports(t)' = LinkReports(t)
          BY <2>1, <3>5, <4>1, SameReports
        <4>4. QED BY <2>7, <3>1, <3>4, <3>6, <4>2, <4>3
      <3>9. QED BY <3>7, <3>8
    <2>11. QED BY <2>1, <2>6, <2>10 DEF FilesHold
  <1>6. CASE Persist
    <2>1. /\ phase = "satgen" /\ part = "none" /\ ~MoreSteps /\ phase' = "archived"
          /\ UNCHANGED <<config, now, shell, part, given, truth>>
      BY <1>6 DEF Persist, satgenVars
    <2>2. now >= End(config)
      <3>1. now \in Nat /\ End(config) \in Nat
        BY <2>1, ConfigFacts DEF TypeInv, TypeOK, End
      <3>2. QED BY <2>1, <3>1 DEF MoreSteps
    <2>3. Moving'
      BY <2>1, <2>2 DEF Moving
    <2>4. ASSUME NEW t \in Timesteps(config) PROVE Held(t)'
      <3>1. Held(t)
        BY <2>1 DEF HeldInv, FilesHold, Constructed
      <3>2. DoneMachines(t)' = DoneMachines(t) /\ DoneLinks(t)' = DoneLinks(t)
        BY <2>1 DEF DoneMachines, DoneLinks, Finished
      <3>3. truth'[t] = truth[t] /\ Before(t)' = Before(t)
        BY <2>1 DEF Before
      <3>4. QED BY <2>1, <3>1, <3>2, <3>3, SameReports
    <2>5. QED BY <2>1, <2>3, <2>4 DEF FilesHold
  <1>7. CASE Restore
    <2>1. /\ phase = "archived" /\ phase' = "emulate"
          /\ UNCHANGED <<config, shell, part, given, truth>>
      BY <1>7 DEF Restore, satgenVars
    <2>2. Moving'
      BY <2>1 DEF Moving
    <2>3. ASSUME NEW t \in Timesteps(config) PROVE Held(t)'
      <3>1. Held(t)
        BY <2>1 DEF HeldInv, FilesHold, Constructed
      <3>2. Finished(t)
        <4>1. now >= End(config) /\ t < End(config) /\ now \in Nat
          BY <2>1 DEF HeldInv, Moving, Timesteps, TypeInv, TypeOK
        <4>2. t \in Int /\ End(config) \in Int
          BY <2>1, ConfigFacts DEF Timesteps, TypeInv, End
        <4>3. QED BY <4>1, <4>2 DEF Finished
      <3>3. Finished(t)'
        BY <2>1 DEF Finished
      <3>4. DoneMachines(t)' = DoneMachines(t) /\ DoneLinks(t)' = DoneLinks(t)
        BY <2>1, <3>2, <3>3 DEF DoneMachines, DoneLinks
      <3>5. truth'[t] = truth[t] /\ Before(t)' = Before(t)
        BY <2>1 DEF Before
      <3>6. QED BY <2>1, <3>1, <3>4, <3>5, SameReports
    <2>4. QED BY <2>1, <2>2, <2>3 DEF FilesHold
  <1>8. CASE Replay
    <2>1. /\ phase = "emulate" /\ UNCHANGED <<phase, config, shell, part, given, truth>>
      BY <1>8 DEF Replay, satgenVars
    <2>2. Moving'
      BY <2>1 DEF Moving
    <2>3. ASSUME NEW t \in Timesteps(config) PROVE Held(t)'
      <3>1. Held(t)
        BY <2>1 DEF HeldInv, FilesHold, Constructed
      <3>2. DoneMachines(t)' = DoneMachines(t) /\ DoneLinks(t)' = DoneLinks(t)
        BY <2>1 DEF DoneMachines, DoneLinks, Finished
      <3>3. truth'[t] = truth[t] /\ Before(t)' = Before(t)
        BY <2>1 DEF Before
      <3>4. QED BY <2>1, <3>1, <3>2, <3>3, SameReports
    <2>4. QED BY <2>1, <2>2, <2>3 DEF FilesHold
  <1>9. CASE UNCHANGED vars
    <2>1. UNCHANGED <<phase, config, now, shell, part, world, old, given, truth>>
      BY <1>9 DEF vars, progress, satgenVars
    <2>2. \A t : Before(t)' = Before(t)
      BY <2>1 DEF Before
    <2>3. Moving'
      BY <2>1, <2>2 DEF HeldInv, Moving
    <2>4. ASSUME NEW t \in Timesteps(config), Constructed PROVE Held(t)'
      <3>1. Held(t)
        BY <2>4 DEF HeldInv, FilesHold
      <3>2. DoneMachines(t)' = DoneMachines(t) /\ DoneLinks(t)' = DoneLinks(t)
        BY <2>1 DEF DoneMachines, DoneLinks, Finished
      <3>3. QED BY <2>1, <2>2, <3>1, <3>2, SameReports
    <2>5. QED BY <2>1, <2>3, <2>4 DEF FilesHold, Constructed
  <1>10. QED
    BY <1>1, <1>2, <1>3, <1>4, <1>5, <1>6, <1>7, <1>8, <1>9 DEF Next

-----------------------------------------------------------------------------
(***************************************************************************)
(* What the hosts make of the files.                                       *)
(***************************************************************************)
About(diffs, i) == {d \in diffs : d.item = i}

(* An item has a value that one of the reports gives it, or the one it had *)
(* when none is about it.                                                  *)
Outcome(I, V, state, reports, after) ==
  /\ after \in [I -> V]
  /\ \A i \in I : (\A e \in reports : About(e, i) = {}) => after[i] = state[i]
  /\ \A i \in I : (\E e \in reports : About(e, i) # {}) =>
                   \E e \in reports : \E d \in About(e, i) : after[i] = d.is

LEMMA AppliedIs ==
  ASSUME NEW I, NEW V, NEW state \in [I -> V], NEW diffs \in SUBSET [item : I, is : V]
  PROVE  Outcome(I, V, state, {diffs}, Applied(state, diffs))
  <1>1. DOMAIN state = I
    OBVIOUS
  <1>2. ASSUME NEW i \in I, About(diffs, i) = {} PROVE Applied(state, diffs)[i] = state[i]
    BY <1>1, <1>2 DEF Applied, About
  <1>3. ASSUME NEW i \in I, About(diffs, i) # {}
        PROVE  \E d \in About(diffs, i) : Applied(state, diffs)[i] = d.is
    <2> DEFINE c == CHOOSE d \in diffs : d.item = i
    <2>1. \E d \in diffs : d.item = i
      BY <1>3 DEF About
    <2>2. c \in diffs /\ c.item = i
      BY <2>1
    <2> HIDE DEF c
    <2>3. Applied(state, diffs)[i] = c.is
      BY <1>1, <2>1 DEF Applied, c
    <2>4. QED BY <2>2, <2>3 DEF About
  <1>4. Applied(state, diffs) = [i \in I |-> Applied(state, diffs)[i]]
    BY <1>1 DEF Applied
  <1>5. \A i \in I : Applied(state, diffs)[i] \in V
    BY <1>2, <1>3 DEF About
  <1> DEFINE u == Applied(state, diffs)
  <1>6. /\ u \in [I -> V]
        /\ \A i \in I : About(diffs, i) = {} => u[i] = state[i]
        /\ \A i \in I : About(diffs, i) # {} => \E d \in About(diffs, i) : u[i] = d.is
    BY <1>2, <1>3, <1>4, <1>5
  <1> HIDE DEF u
  <1>7. Outcome(I, V, state, {diffs}, u)
    BY <1>6 DEF Outcome
  <1>8. QED BY <1>7 DEF u

(* So it is after all diffs have been applied, whatever their order.       *)
LEMMA UpdatedIs ==
  ASSUME NEW I, NEW V, NEW state \in [I -> V], NEW D \in Seq(SUBSET [item : I, is : V])
  PROVE  Outcome(I, V, state, Range(D), Updated(state, D))
  <1> DEFINE n == Len(D)
             W == [I -> V]
             step == [x \in W \X (1..n) |-> Applied(x[1], D[x[2]])]
  <1>1. n \in Nat /\ DOMAIN D = 1..n /\ \A k \in 1..n : D[k] \in SUBSET [item : I, is : V]
    OBVIOUS
  <1>2. ASSUME NEW w \in W, NEW k \in 1..n PROVE Applied(w, D[k]) \in W
    BY <1>1, AppliedIs DEF Outcome
  <1>3. step \in [W \X (1..n) -> W] /\ \A w \in W, k \in 1..n : step[<<w, k>>] = Applied(w, D[k])
    BY <1>2
  <1>4. state \in W
    OBVIOUS
  <1> HIDE DEF step, W
  <1>5. PICK f \in [0..n -> W] : Follows(f, n, state, step)
    BY <1>1, <1>3, <1>4, Recursion, Zenon
  <1>6. f = [k \in 0..n |-> IF k = 0 THEN state ELSE Applied(f[k - 1], D[k])]
    <2>1. ASSUME NEW k \in 1..n PROVE f[k] = Applied(f[k - 1], D[k])
      <3>1. f[k - 1] \in W
        BY <1>1, <1>5
      <3>2. QED BY <1>3, <1>5, <3>1 DEF Follows
    <2>2. \A k \in 0..n : k = 0 \/ k \in 1..n
      BY <1>1
    <2>3. QED BY <1>5, <2>1, <2>2 DEF Follows
  <1> DEFINE after[k \in 0..Len(D)] == IF k = 0 THEN state ELSE Applied(after[k - 1], D[k])
  <1>7. after = [k \in 0..Len(D) |-> IF k = 0 THEN state ELSE Applied(after[k - 1], D[k])]
    BY <1>6, Zenon DEF after, n
  <1>8. Updated(state, D) = after[n]
    BY DEF Updated
  <1> HIDE DEF after
  <1>9. after[0] = state /\ \A k \in 1..n : after[k] = Applied(after[k - 1], D[k])
    BY <1>1, <1>7
  <1> HIDE DEF n
  <1> DEFINE Silent(i, k) == \A j \in 1..k : About(D[j], i) = {}
             Heard(w, i, k) == \E j \in 1..k : \E d \in About(D[j], i) : w[i] = d.is
             S == {k \in 0..n : /\ after[k] \in W
                                /\ \A i \in I : IF Silent(i, k) THEN after[k][i] = state[i]
                                                ELSE Heard(after[k], i, k)}
  <1>10. 0 \in S
    <2>1. \A i \in I : Silent(i, 0)
      OBVIOUS
    <2>2. QED BY <1>1, <1>4, <1>9, <2>1
  <1>11. ASSUME NEW k \in 0..(n - 1), k \in S PROVE k + 1 \in S
    <2>1. k + 1 \in 1..n /\ (k + 1) - 1 = k /\ k + 1 \in 0..n
      BY <1>1
    <2>2. after[k] \in W /\ after[k + 1] = Applied(after[k], D[k + 1])
      BY <1>9, <1>11, <2>1
    <2>3. /\ after[k + 1] \in W
          /\ \A i \in I : About(D[k + 1], i) = {} => after[k + 1][i] = after[k][i]
          /\ \A i \in I : About(D[k + 1], i) # {} =>
               \E d \in About(D[k + 1], i) : after[k + 1][i] = d.is
      <3>1. PICK w \in [I -> V] : w = after[k]
        BY <2>2 DEF W
      <3>2. PICK e \in SUBSET [item : I, is : V] : e = D[k + 1]
        BY <1>1, <2>1
      <3>3. Outcome(I, V, w, {e}, Applied(w, e))
        BY AppliedIs
      <3>4. QED BY <2>2, <3>1, <3>2, <3>3 DEF W, Outcome
    <2>4. \A j : j \in 1..(k + 1) <=> j \in 1..k \/ j = k + 1
      BY <1>1
    <2>5. ASSUME NEW i \in I
          PROVE  IF Silent(i, k + 1) THEN after[k + 1][i] = state[i]
                 ELSE Heard(after[k + 1], i, k + 1)
      <3>1. IF Silent(i, k) THEN after[k][i] = state[i] ELSE Heard(after[k], i, k)
        BY <1>11
      <3>2. CASE About(D[k + 1], i) = {}
        <4>1. after[k + 1][i] = after[k][i]
          BY <2>3, <3>2
        <4>2. Silent(i, k + 1) <=> Silent(i, k)
          BY <2>4, <3>2
        <4>3. Heard(after[k], i, k) => Heard(after[k + 1], i, k + 1)
          BY <2>4, <4>1
        <4>4. QED BY <3>1, <4>1, <4>2, <4>3
      <3>3. CASE About(D[k + 1], i) # {}
        <4>1. Heard(after[k + 1], i, k + 1)
          BY <2>3, <2>4, <3>3
        <4>2. ~Silent(i, k + 1)
          BY <2>4, <3>3
        <4>3. QED BY <4>1, <4>2
      <3>4. QED BY <3>2, <3>3
    <2>6. QED BY <2>1, <2>3, <2>5
  <1>12. n \in S
    <2> HIDE DEF S
    <2>1. \A k \in 0..n : k \in S
      BY <1>1, <1>10, <1>11, Upwards
    <2>2. QED BY <1>1, <2>1
  <1>13. \A e : e \in Range(D) <=> \E j \in 1..n : e = D[j]
    BY <1>1 DEF Range
  <1> DEFINE u == Updated(state, D)
  <1>14. /\ u \in [I -> V]
         /\ \A i \in I : IF Silent(i, n) THEN u[i] = state[i] ELSE Heard(u, i, n)
    BY <1>8, <1>12 DEF W
  <1> HIDE DEF u, S
  <1>15. ASSUME NEW i \in I, \A e \in Range(D) : About(e, i) = {} PROVE u[i] = state[i]
    BY <1>13, <1>14, <1>15
  <1>16. ASSUME NEW i \in I, \E e \in Range(D) : About(e, i) # {}
         PROVE  \E e \in Range(D) : \E d \in About(e, i) : u[i] = d.is
    <2>1. ~Silent(i, n)
      BY <1>13, <1>16
    <2>2. PICK j \in 1..n : \E d \in About(D[j], i) : u[i] = d.is
      BY <1>14, <2>1
    <2>3. D[j] \in Range(D)
      BY <1>13
    <2>4. QED BY <2>2, <2>3
  <1>17. Outcome(I, V, state, Range(D), u)
    BY <1>14, <1>15, <1>16 DEF Outcome
  <1>18. QED BY <1>17 DEF u

(***************************************************************************)
(* The hosts follow: once they have the diffs of a timestep, they are what *)
(* the shells were after it, provided they were so a timestep before.      *)
(***************************************************************************)
Values == {"STOPPED", "ACTIVE", "blocked"} \union Shapes
Agrees(state, was) ==
  /\ \A s \in Shells(config) : state[Satellite(s)] = was[s].vm
  /\ \E s \in Shells(config) : state[Pair] = was[s].path
Active(state) == config.stations # <<>> => state[AllStations] = "ACTIVE"
InStep(t) == Agrees(emulated, truth[t]) /\ Active(emulated)
Fresh == [i \in Items(config) |-> IF i = Pair THEN "blocked" ELSE "STOPPED"]
Emulating ==
  phase = "emulate" =>
    /\ OnTime /\ emulated \in [Items(config) -> Values]
    /\ WithinLimit =>
         IF now = config.offset THEN emulated = Fresh
         ELSE \E t \in Played : (\A u \in Played : u <= t) /\ InStep(t)
ReplayInv == ArchiveInv /\ HeldInv /\ Emulating

LEMMA ItemsDiffer ==
  /\ \A s \in Shells(config) : Satellite(s) # Pair /\ Satellite(s) # AllStations
  /\ \A s, u \in Shells(config) : Satellite(s) = Satellite(u) => s = u
  /\ Pair # AllStations
  /\ Pair \in Items(config) /\ AllStations \in Items(config)
  /\ \A s \in Shells(config) : Satellite(s) \in Items(config)
  BY DEF Satellite, Pair, AllStations, Items

(* Everything the files of a timestep say, and nothing else.               *)
SatelliteReport(t, s, d) ==
  truth[t][s].vm # Before(t)[s].vm /\ d = [item |-> Satellite(s), is |-> truth[t][s].vm]
PairReport(t, s, d) ==
  truth[t][s].path # Before(t)[s].path /\ d = [item |-> Pair, is |-> truth[t][s].path]
StationsReport(t, d) ==
  /\ t = config.offset /\ config.stations # <<>>
  /\ d = [item |-> AllStations, is |-> "ACTIVE"]
Reports(t) == MachineReports(t) \union LinkReports(t)

LEMMA WhatReportsSay ==
  ASSUME phase = "emulate", NEW t
  PROVE  /\ \A e \in Reports(t) : \A d \in e :
              \/ \E s \in Shells(config) : SatelliteReport(t, s, d) \/ PairReport(t, s, d)
              \/ StationsReport(t, d)
         /\ \A d : \A s \in Shells(config) :
              SatelliteReport(t, s, d) \/ PairReport(t, s, d) => {d} \in Reports(t)
         /\ \A d : StationsReport(t, d) => {d} \in Reports(t)
  <1>1. DoneMachines(t) = Shells(config) /\ DoneLinks(t) = Shells(config)
    BY DEF DoneMachines, DoneLinks, Finished
  <1>2. \A e : e \in MachineReports(t) <=>
          \/ \E s \in Shells(config) : /\ truth[t][s].vm # Before(t)[s].vm
                                       /\ e = Report(Satellite(s), truth[t][s].vm)
          \/ e \in Range(IF t = config.offset THEN StationDiffs(config) ELSE <<>>)
    BY <1>1 DEF MachineReports, MachineChanges
  <1>3. \A e : e \in LinkReports(t) <=>
          \E s \in Shells(config) : /\ truth[t][s].path # Before(t)[s].path
                                    /\ e = Report(Pair, truth[t][s].path)
    BY <1>1 DEF LinkReports, LinkChanges
  <1>4. \A e : e \in Range(IF t = config.offset THEN StationDiffs(config) ELSE <<>>) <=>
          /\ t = config.offset /\ config.stations # <<>>
          /\ e = {[item |-> AllStations, is |-> "ACTIVE"]}
    <2>1. Range(<<>>) = {} /\ \A x : Range(<<x>>) = {x}
      BY DEF Range
    <2>2. QED BY <2>1 DEF StationDiffs
  <1>5. ASSUME NEW e \in Reports(t), NEW d \in e
        PROVE  \/ \E s \in Shells(config) : SatelliteReport(t, s, d) \/ PairReport(t, s, d)
               \/ StationsReport(t, d)
    BY <1>2, <1>3, <1>4 DEF Reports, Report, SatelliteReport, PairReport, StationsReport
  <1>6. ASSUME NEW d, NEW s \in Shells(config), SatelliteReport(t, s, d) \/ PairReport(t, s, d)
        PROVE  {d} \in Reports(t)
    BY <1>2, <1>3, <1>6 DEF Reports, Report, SatelliteReport, PairReport
  <1>7. ASSUME NEW d, StationsReport(t, d) PROVE {d} \in Reports(t)
    BY <1>2, <1>4, <1>7 DEF Reports, StationsReport
  <1>8. QED BY <1>5, <1>6, <1>7

LEMMA HostsCatchUp ==
  ASSUME phase = "emulate", NEW t, NEW state, NEW after,
         Outcome(Items(config), Values, state, Reports(t), after),
         Agrees(state, Before(t)), t # config.offset => Active(state)
  PROVE  Agrees(after, truth[t]) /\ Active(after)
  <1>1. ASSUME NEW s \in Shells(config) PROVE after[Satellite(s)] = truth[t][s].vm
    <2>1. ASSUME NEW e \in Reports(t), NEW d \in About(e, Satellite(s))
          PROVE  SatelliteReport(t, s, d)
      BY <2>1, WhatReportsSay, ItemsDiffer
         DEF About, SatelliteReport, PairReport, StationsReport
    <2>2. CASE truth[t][s].vm = Before(t)[s].vm
      <3>1. \A e \in Reports(t) : About(e, Satellite(s)) = {}
        BY <2>1, <2>2 DEF SatelliteReport
      <3>2. after[Satellite(s)] = state[Satellite(s)]
        BY <3>1, ItemsDiffer DEF Outcome
      <3>3. QED BY <2>2, <3>2 DEF Agrees
    <2>3. CASE truth[t][s].vm # Before(t)[s].vm
      <3> DEFINE d == [item |-> Satellite(s), is |-> truth[t][s].vm]
      <3>1. {d} \in Reports(t)
        BY <2>3, WhatReportsSay DEF SatelliteReport
      <3>2. d \in About({d}, Satellite(s))
        BY DEF About
      <3>3. PICK e \in Reports(t) : \E x \in About(e, Satellite(s)) : after[Satellite(s)] = x.is
        BY <3>1, <3>2, ItemsDiffer DEF Outcome
      <3>4. QED BY <2>1, <3>3 DEF SatelliteReport
    <2>4. QED BY <2>2, <2>3
  <1>2. \E s \in Shells(config) : after[Pair] = truth[t][s].path
    <2>1. ASSUME NEW e \in Reports(t), NEW d \in About(e, Pair)
          PROVE  \E s \in Shells(config) : PairReport(t, s, d)
      BY <2>1, WhatReportsSay, ItemsDiffer
         DEF About, SatelliteReport, PairReport, StationsReport
    <2>2. CASE \A s \in Shells(config) : truth[t][s].path = Before(t)[s].path
      <3>1. \A e \in Reports(t) : About(e, Pair) = {}
        BY <2>1, <2>2 DEF PairReport
      <3>2. after[Pair] = state[Pair]
        BY <3>1, ItemsDiffer DEF Outcome
      <3>3. QED BY <2>2, <3>2 DEF Agrees
    <2>3. ASSUME NEW s \in Shells(config), truth[t][s].path # Before(t)[s].path
          PROVE  \E u \in Shells(config) : after[Pair] = truth[t][u].path
      <3> DEFINE d == [item |-> Pair, is |-> truth[t][s].path]
      <3>1. {d} \in Reports(t)
        BY <2>3, WhatReportsSay DEF PairReport
      <3>2. d \in About({d}, Pair)
        BY DEF About
      <3>3. PICK e \in Reports(t) : \E x \in About(e, Pair) : after[Pair] = x.is
        BY <3>1, <3>2, ItemsDiffer DEF Outcome
      <3>4. QED BY <2>1, <3>3 DEF PairReport
    <2>4. QED BY <2>2, <2>3
  <1>3. ASSUME config.stations # <<>> PROVE after[AllStations] = "ACTIVE"
    <2>1. ASSUME NEW e \in Reports(t), NEW d \in About(e, AllStations)
          PROVE  StationsReport(t, d)
      BY <2>1, WhatReportsSay, ItemsDiffer
         DEF About, SatelliteReport, PairReport, StationsReport
    <2>2. CASE t # config.offset
      <3>1. \A e \in Reports(t) : About(e, AllStations) = {}
        BY <2>1, <2>2 DEF StationsReport
      <3>2. after[AllStations] = state[AllStations]
        BY <3>1, ItemsDiffer DEF Outcome
      <3>3. QED BY <1>3, <2>2, <3>2 DEF Active
    <2>3. CASE t = config.offset
      <3> DEFINE d == [item |-> AllStations, is |-> "ACTIVE"]
      <3>1. {d} \in Reports(t)
        BY <1>3, <2>3, WhatReportsSay DEF StationsReport
      <3>2. d \in About({d}, AllStations)
        BY DEF About
      <3>3. PICK e \in Reports(t) : \E x \in About(e, AllStations) : after[AllStations] = x.is
        BY <3>1, <3>2, ItemsDiffer DEF Outcome
      <3>4. QED BY <2>1, <3>3 DEF StationsReport
    <2>4. QED BY <2>2, <2>3
  <1>4. QED BY <1>1, <1>2, <1>3 DEF Agrees, Active

(* What the files of a timestep tell the hosts, the archive being complete. *)
LEMMA TimestepReports ==
  ASSUME ArchiveInv, HeldInv, phase = "emulate", WithinLimit,
         NEW D, D = Diffs(<<"m", now>>) \o Diffs(<<"l", now>>)
  PROVE  /\ now \in Timesteps(config) => Range(D) = Reports(now)
         /\ now \notin Timesteps(config) => Range(D) = {}
  <1>1. files = given /\ given \in Archives(config) /\ Constructed
    BY DEF ArchiveInv, ArchiveIsComplete, TypeInv, TypeOK, Constructed
  <1>2. DOMAIN files = Names(config)
    BY <1>1 DEF Archives
  <1>3. CASE now \in Timesteps(config)
    <2>1. <<"m", now>> \in Names(config) /\ <<"l", now>> \in Names(config)
      BY <1>3 DEF Names
    <2>2. D = given[<<"m", now>>] \o given[<<"l", now>>]
      BY <1>1, <1>2, <2>1 DEF Diffs
    <2>3. given[<<"m", now>>] \in Seq(SUBSET Diff(config))
          /\ given[<<"l", now>>] \in Seq(SUBSET Diff(config))
      BY <1>1, <2>1 DEF Archives
    <2>4. Range(D) = Range(given[<<"m", now>>]) \union Range(given[<<"l", now>>])
      <3>1. PICK S : S = SUBSET Diff(config)
        OBVIOUS
      <3>2. PICK s \in Seq(S) : s = given[<<"m", now>>]
        BY <2>3, <3>1
      <3>3. PICK t \in Seq(S) : t = given[<<"l", now>>]
        BY <2>3, <3>1
      <3>4. Range(s \o t) = Range(s) \union Range(t)
        BY RangeOfConcat
      <3>5. QED BY <2>2, <3>2, <3>3, <3>4
    <2>5. QED BY <1>1, <1>3, <2>4 DEF HeldInv, FilesHold, Reports
  <1>4. CASE now \notin Timesteps(config)
    <2>1. <<"m", now>> \notin Names(config) /\ <<"l", now>> \notin Names(config)
      BY <1>4 DEF Names
    <2>2. D = <<>> \o <<>>
      BY <1>2, <2>1 DEF Diffs
    <2>3. PICK none \in Seq({}) : none = <<>>
      <3>1. <<>> \in Seq({})
        OBVIOUS
      <3>2. QED BY <3>1, Zenon
    <2>4. Range(none) = {}
      BY <2>3 DEF Range
    <2>5. Range(none \o none) = Range(none) \union Range(none)
      BY RangeOfConcat
    <2>6. QED BY <1>4, <2>2, <2>3, <2>4, <2>5
  <1>5. QED BY <1>3, <1>4

(* One Update of the hosts, in terms of what it tells them.                *)
LEMMA OneUpdate ==
  ASSUME TypeInv, Replay, emulated \in [Items(config) -> Values],
         NEW D, D = Diffs(<<"m", now>>) \o Diffs(<<"l", now>>)
  PROVE  Outcome(Items(config), Values, emulated, Range(D), emulated')
  <1>1. files \in [Names(config) -> Seq(SUBSET Diff(config))]
    BY DEF TypeInv, TypeOK, Constructed, Archives, Replay
  <1>2. \A n : Diffs(n) \in Seq(SUBSET Diff(config))
    BY <1>1 DEF Diffs
  <1>3. D \in Seq(SUBSET Diff(config))
    BY <1>2
  <1>4. Diff(config) = [item : Items(config), is : Values]
    BY DEF Diff, Values
  <1>5. emulated' = Updated(emulated, D)
    BY DEF Replay
  <1> DEFINE I == Items(config)
  <1> HIDE DEF I
  <1>6. Outcome(I, Values, emulated, Range(D), Updated(emulated, D))
    <2>1. emulated \in [I -> Values] /\ D \in Seq(SUBSET [item : I, is : Values])
      BY <1>3, <1>4 DEF I
    <2>2. QED BY <2>1, UpdatedIs
  <1>7. QED BY <1>5, <1>6 DEF I

(* What the hosts are when they are about to be told of a timestep.        *)
LEMMA BeforeUpdate ==
  ASSUME TypeInv, Emulating, phase = "emulate", WithinLimit, now \in Timesteps(config)
  PROVE  Agrees(emulated, Before(now)) /\ (now # config.offset => Active(emulated))
  <1>1. Constructed /\ OnTime /\ shell \in Shells(config)
    BY DEF Emulating, TypeInv, TypeOK, Constructed
  <1>2. CASE now = config.offset
    <2>1. emulated = Fresh
      BY <1>2 DEF Emulating
    <2>2. \A s \in Shells(config) :
            Before(now)[s] = Still /\ emulated[Satellite(s)] = "STOPPED" /\ emulated[Pair] = "blocked"
      BY <1>2, <2>1, ItemsDiffer DEF Before, Fresh
    <2>3. QED BY <1>1, <1>2, <2>2 DEF Agrees, Still
  <1>3. CASE now # config.offset
    <2>1. PICK t \in Played : (\A u \in Played : u <= t) /\ InStep(t)
      BY <1>3 DEF Emulating
    <2>2. PICK n \in Timesteps(config) : n = now
      OBVIOUS
    <2>3. /\ n - config.resolution \in Timesteps(config)
          /\ n \in Nat /\ config.resolution \in Nat \ {0}
      BY <1>1, <1>3, <2>2, Grid
    <2>4. now - config.resolution \in Played
      BY <2>2, <2>3 DEF Played
    <2>5. t \in Timesteps(config) /\ t < now
      BY <2>1 DEF Played
    <2>6. t \in Nat /\ t <= now - config.resolution
      BY <1>1, <2>5, Grid
    <2>7. t = now - config.resolution
      BY <2>1, <2>2, <2>3, <2>4, <2>6
    <2>8. QED BY <1>3, <2>1, <2>7 DEF Before, InStep
  <1>4. QED BY <1>2, <1>3

LEMMA ReplayStep ==
  ASSUME ReplayInv, Replay, TypeInv', config' = config, truth' = truth
  PROVE  Emulating'
  <1> DEFINE D == Diffs(<<"m", now>>) \o Diffs(<<"l", now>>)
             o == config.offset
             r == config.resolution
  <1>1. /\ phase = "emulate" /\ now' = now + r /\ TypeInv /\ Constructed /\ OnTime
        /\ emulated \in [Items(config) -> Values]
    BY DEF ReplayInv, ArchiveInv, Replay, Emulating, Constructed
  <1>2. Outcome(Items(config), Values, emulated, Range(D), emulated')
    BY <1>1, OneUpdate
  <1> HIDE DEF D
  <1>3. o \in Nat /\ r \in Nat \ {0} /\ config.duration \in Nat \ {0}
    BY <1>1, ConfigFacts DEF TypeInv, Constructed
  <1>4. PICK k \in Nat : now = o + k * r
    BY <1>1 DEF OnTime
  <1>5. now \in Nat /\ now >= o /\ now' # o
    <2>1. k * r \in Nat
      BY <1>3
    <2>2. QED BY <1>1, <1>3, <1>4, <2>1
  <1>6. OnTime'
    <2>1. (k + 1) * r = k * r + r /\ k * r \in Nat
      BY <1>3
    <2>2. now' = o + (k + 1) * r
      BY <1>1, <1>3, <1>4, <2>1
    <2>3. QED BY <2>2 DEF OnTime
  <1>7. emulated' \in [Items(config) -> Values]
    BY <1>2 DEF Outcome
  <1>8. ASSUME WithinLimit
        PROVE  \E t \in Played' :
                 (\A u \in Played' : u <= t) /\ Agrees(emulated', truth[t]) /\ Active(emulated')
    <2>1. CASE now \in Timesteps(config)
      <3>1. Range(D) = Reports(now)
        BY <1>1, <1>8, <2>1, TimestepReports DEF ReplayInv, D
      <3>2. Agrees(emulated, Before(now)) /\ (now # o => Active(emulated))
        BY <1>1, <1>8, <2>1, BeforeUpdate DEF ReplayInv
      <3>3. Agrees(emulated', truth[now]) /\ Active(emulated')
        BY <1>1, <1>2, <3>1, <3>2, HostsCatchUp
      <3>4. now \in Played'
        BY <1>1, <1>3, <1>5, <2>1 DEF Played
      <3>5. \A u \in Played' : u <= now
        BY <1>1, Grid DEF Played
      <3>6. QED BY <3>3, <3>4, <3>5
    <2>2. CASE now \notin Timesteps(config)
      <3>1. now >= End(config)
        <4>1. ~MoreSteps
          BY <1>1, <2>2, NextTimestep
        <4>2. End(config) \in Nat
          BY <1>3 DEF End
        <4>3. QED BY <1>5, <4>1, <4>2 DEF MoreSteps
      <3>2. now # o
        BY <1>3, <3>1 DEF End
      <3>3. PICK t \in Played : (\A u \in Played : u <= t) /\ InStep(t)
        BY <1>1, <1>8, <3>2 DEF ReplayInv, Emulating
      <3>4. Range(D) = {}
        BY <1>1, <1>8, <2>2, TimestepReports DEF ReplayInv, D
      <3>5. emulated' = emulated
        BY <1>1, <1>2, <3>4 DEF Outcome
      <3>6. Played' = Played
        <4>1. \A u \in Timesteps(config) : u < now /\ u < now + r
          <5>1. \A u \in Timesteps(config) : u < End(config) /\ u \in Nat
            BY <1>1, Grid DEF Timesteps
          <5>2. QED BY <1>3, <1>5, <3>1, <5>1 DEF End
        <4>2. QED BY <1>1, <4>1 DEF Played
      <3>7. QED BY <3>3, <3>5, <3>6 DEF InStep
    <2>3. QED BY <2>1, <2>2
  <1>9. QED BY <1>5, <1>6, <1>7, <1>8 DEF Emulating, WithinLimit, InStep, Agrees, Active

LEMMA ReplayInvStep == ReplayInv /\ [Next]_vars => ReplayInv'
  <1> SUFFICES ASSUME ReplayInv, [Next]_vars PROVE ReplayInv'
    OBVIOUS
  <1>1. ArchiveInv' /\ HeldInv' /\ TypeInv /\ TypeInv'
    BY ArchiveStep, HeldStep DEF ReplayInv, ArchiveInv
  <1>2. Emulating'
    <2>1. CASE Replay
      <3>1. config' = config /\ truth' = truth
        BY <2>1 DEF Replay, satgenVars
      <3>2. QED BY <1>1, <2>1, <3>1, ReplayStep
    <2>2. CASE Restore
      <3>1. /\ phase' = "emulate" /\ now' = config.offset /\ config' = config
            /\ emulated' = Fresh
        BY <2>2 DEF Restore, FirstTimestep, Fresh
      <3>2. now' = config.offset + 0 * config.resolution
        BY <1>1, <2>2, <3>1, ConfigFacts DEF TypeInv, Restore
      <3>3. Fresh \in [Items(config) -> Values]
        BY DEF Fresh, Values
      <3>4. OnTime'
        BY <3>1, <3>2 DEF OnTime
      <3>5. QED BY <3>1, <3>3, <3>4 DEF Emulating, Fresh
    <2>3. CASE UNCHANGED vars
      BY <2>3 DEF ReplayInv, Emulating, vars, progress, satgenVars, hostVars, OnTime, WithinLimit,
                  Fresh, Played, InStep, Agrees, Active
    <2>4. CASE Configure \/ Construct \/ Step \/ WriteMachines \/ WriteLinks \/ Persist
      <3>1. phase' # "emulate"
        BY <1>1, <2>4 DEF Configure, Construct, Step, WriteMachines, WriteLinks, Persist,
                          TypeInv, TypeOK
      <3>2. QED BY <3>1 DEF Emulating
    <2>5. QED BY <2>1, <2>2, <2>3, <2>4 DEF Next
  <1>3. QED BY <1>1, <1>2 DEF ReplayInv

LEMMA ReplayInvInit == Init => ReplayInv
  BY ArchiveInit, TypeInit
  DEF Init, ReplayInv, HeldInv, FilesHold, Moving, Emulating, Constructed

(* Replayed from an archive within the limit, the hosts are after every    *)
(* timestep as the shells were, whatever the shells did: however many      *)
(* shells, timesteps and ground stations there are.                        *)
THEOREM ReplayFollowsTruth == Spec => []ReplayFollows
  <1>1. ReplayInv => ReplayFollows
    <2> SUFFICES ASSUME ReplayInv, phase = "emulate", WithinLimit, now > config.offset
                 PROVE  LET last == CHOOSE t \in Played : \A u \in Played : u <= t
                        IN InStep(last)
      BY DEF ReplayFollows, InStep, Agrees, Active
    <2>1. TypeInv /\ Constructed /\ OnTime
      BY DEF ReplayInv, ArchiveInv, Emulating, Constructed
    <2>2. config.offset \in Nat /\ now \in Nat
      BY <2>1, ConfigFacts DEF TypeInv, TypeOK, Constructed
    <2>3. PICK latest \in Played : (\A u \in Played : u <= latest) /\ InStep(latest)
      BY <2>2 DEF ReplayInv, Emulating
    <2> DEFINE last == CHOOSE t \in Played : \A u \in Played : u <= t
    <2>4. last \in Played /\ \A u \in Played : u <= last
      BY <2>3
    <2> HIDE DEF last
    <2>5. last \in Nat /\ latest \in Nat
      BY <2>1, <2>3, <2>4, Grid DEF Played
    <2>6. last = latest
      BY <2>3, <2>4, <2>5
    <2>7. QED BY <2>3, <2>6 DEF last
  <1>2. QED BY ReplayInvInit, ReplayInvStep, <1>1, PTL DEF Spec

-----------------------------------------------------------------------------
(* The addresses of machines whose identifiers have 14 bits.               *)

(* The largest identifier has a name, so that the provers do not count to  *)
(* it; BitsBound is what they need to know of it.                          *)
MaxId == 16383
Bytes8 == 0..255
Bits14 == 0..MaxId
SmallMachines == [group : Bytes8, id : Bits14]

LEMMA BitsBound == \A i \in Bits14 : i \in Nat /\ i <= 16383
  <1>1. MaxId \in Nat /\ \A i \in Nat : i <= MaxId => i <= 16383
    BY DEF MaxId
  <1>2. QED BY <1>1 DEF Bits14

LEMMA Bits ==
  /\ \A i \in Nat : i <= 245 => i \in Bytes8
  /\ \A i \in Nat : i <= 16383 => i \in Bits14
  /\ \A i \in Bits14 : i <= 16384
  <1>1. ASSUME NEW i \in Nat, i <= 245 PROVE i \in Bytes8
    BY <1>1 DEF Bytes8
  <1>2. MaxId \in Nat /\ \A i \in Nat : i <= 16383 => i <= MaxId
    BY DEF MaxId
  <1>3. \A i \in Nat : i <= 16383 => i \in Bits14
    BY <1>2 DEF Bits14
  <1>4. \A i \in Bits14 : i <= 16384
    BY BitsBound
  <1>5. QED BY <1>1, <1>3, <1>4

LEMMA SmallByte == ASSUME NEW n \in Bytes8 PROVE Byte(n) = n
  BY DEF Byte, Bytes8

(* What one identifier of 14 bits leaves in the last two bytes.            *)
LEMMA IdBytes ==
  ASSUME NEW i \in Bits14
  PROVE  /\ Byte(i \div 64) = i \div 64
         /\ Byte(i * 4) = 4 * (i % 64)
         /\ i = (i \div 64) * 64 + (i % 64)
         /\ i % 64 \in 0..63
  <1>1. i \div 64 \in Bytes8
    BY BitsBound DEF Bytes8
  <1>2. Byte(i * 4) = 4 * (i % 64)
    BY BitsBound DEF Byte
  <1>3. i = (i \div 64) * 64 + (i % 64)
    BY BitsBound
  <1>4. i % 64 \in 0..63
    BY BitsBound
  <1>5. QED BY <1>1, <1>2, <1>3, <1>4, SmallByte

LEMMA Quarter ==
  ASSUME NEW j \in 0..63, NEW k \in 0..3
  PROVE  (4 * j + k) \div 4 = j
  OBVIOUS

(* getID undoes getNet on each of the four addresses of a network.         *)
LEMMA RoundTrip ==
  ASSUME NEW m \in SmallMachines, NEW k \in 0..3
  PROVE  GetID(Address(m, k)) = m
  <1> DEFINE i == m.id
  <1>1. i \in Bits14 /\ m.group \in Bytes8 /\ m = [group |-> m.group, id |-> i]
    BY DEF SmallMachines
  <1>2. Address(m, k) = <<10, m.group, i \div 64, 4 * (i % 64) + k>>
    BY <1>1, IdBytes, SmallByte DEF Address, GetNet
  <1>3. (4 * (i % 64) + k) \div 4 = i % 64
    BY <1>1, IdBytes, Quarter
  <1>4. GetID(Address(m, k)) =
          [group |-> m.group, id |-> (i \div 64) * 64 + (4 * (i % 64) + k) \div 4]
    BY <1>2 DEF GetID
  <1>5. QED BY <1>1, <1>3, <1>4, IdBytes

LEMMA MacBytes ==
  ASSUME NEW i \in Bits14, NEW j \in Bits14,
         Byte((i + 2) \div 256) = Byte((j + 2) \div 256), Byte(i + 2) = Byte(j + 2)
  PROVE  i = j
  <1>1. ASSUME NEW k \in Bits14
        PROVE  k + 2 = Byte((k + 2) \div 256) * 256 + Byte(k + 2)
    <2>1. (k + 2) \div 256 \in Bytes8
      BY BitsBound DEF Bytes8
    <2>2. k + 2 = ((k + 2) \div 256) * 256 + ((k + 2) % 256)
      BY BitsBound
    <2>3. QED BY <2>1, <2>2, SmallByte DEF Byte
  <1>2. i + 2 = j + 2
    BY <1>1
  <1>3. QED BY <1>2, BitsBound

(* Two machines of 14-bit identifiers have two networks and two MACs.      *)
LEMMA Distinct ==
  ASSUME NEW m \in SmallMachines, NEW n \in SmallMachines, m # n
  PROVE  GetNet(m) # GetNet(n) /\ Mac(m) # Mac(n)
  <1>1. ASSUME GetNet(m) = GetNet(n) PROVE FALSE
    <2>1. Address(m, 0) = Address(n, 0)
      BY <1>1 DEF Address
    <2>2. GetID(Address(m, 0)) = m /\ GetID(Address(n, 0)) = n
      BY RoundTrip
    <2>3. QED BY <2>1, <2>2
  <1>2. ASSUME Mac(m) = Mac(n) PROVE FALSE
    <2>1. /\ Byte(m.group) = Byte(n.group)
          /\ Byte((m.id + 2) \div 256) = Byte((n.id + 2) \div 256)
          /\ Byte(m.id + 2) = Byte(n.id + 2)
      BY <1>2 DEF Mac
    <2>2. /\ m.group \in Bytes8 /\ m.id \in Bits14
          /\ n.group \in Bytes8 /\ n.id \in Bits14
      BY DEF SmallMachines
    <2>4. m.id = n.id
      BY <2>1, <2>2, MacBytes
    <2>5. m.group = n.group
      BY <2>1, <2>2, SmallByte
    <2>6. /\ m = [group |-> m.group, id |-> m.id]
          /\ n = [group |-> n.group, id |-> n.id]
      BY DEF SmallMachines
    <2>7. QED BY <2>4, <2>5, <2>6
  <1>3. QED BY <1>1, <1>2

-----------------------------------------------------------------------------
(* Only machines of the configuration are registered or refused.           *)
OfConfig ==
  Constructed =>
    /\ \A i \in inits : i.machine \in MachinesOf(config, Probes)
    /\ registered \subseteq MachinesOf(config, Probes)
    /\ \A m \in refused : m \in MachinesOf(config, Probes) /\ ~Permitted(m)
MachineInv == TypeInv /\ OfConfig

LEMMA MachineStep == MachineInv /\ [Next]_vars => MachineInv'
  <1> SUFFICES ASSUME MachineInv, [Next]_vars PROVE MachineInv'
    OBVIOUS
  <1> TypeInv'
    BY TypeStep DEF MachineInv
  <1> SUFFICES OfConfig'
    BY DEF MachineInv
  <1> USE DEF MachineInv, OfConfig, Constructed
  <1>1. CASE Configure
    BY <1>1 DEF Configure
  <1>2. CASE Construct
    <2>1. registered' = {} /\ refused' = {} /\ config' = config
      BY <1>2 DEF Construct, hostVars, TypeInv, Blank
    <2>2. \A i \in inits' : i.machine \in MachinesOf(config, Probes)
      BY <1>2 DEF Construct
    <2>3. QED BY <2>1, <2>2
  <1>3. CASE Step
    BY <1>3 DEF Step, hostVars
  <1>4. CASE WriteMachines
    BY <1>4 DEF WriteMachines, hostVars
  <1>5. CASE WriteLinks
    BY <1>5 DEF WriteLinks, hostVars
  <1>6. CASE Persist
    BY <1>6 DEF Persist, satgenVars, hostVars
  <1>7. CASE Restore
    BY <1>7 DEF Restore, satgenVars
  <1>8. CASE Replay
    BY <1>8 DEF Replay, satgenVars
  <1>9. CASE UNCHANGED vars
    BY <1>9 DEF vars, progress, satgenVars, hostVars
  <1>10. QED
    BY <1>1, <1>2, <1>3, <1>4, <1>5, <1>6, <1>7, <1>8, <1>9 DEF Next

LEMMA MachinesAlways == Spec => []MachineInv
  <1>1. Init => MachineInv
    BY TypeInit DEF Init, MachineInv, OfConfig, Constructed
  <1>2. QED BY <1>1, MachineStep, PTL DEF Spec

(* The limits of shells, satellites and stations leave 8 bits for a group  *)
(* and 14 for an identifier.                                               *)
LEMMA DocumentedMachines ==
  ASSUME TypeInv, phase = "emulate", Documented
  PROVE  MachinesOf(config, Probes) \subseteq SmallMachines
  <1>1. /\ Len(config.shells) \in 1..245 /\ Len(config.stations) \in Nat
        /\ Len(config.stations) <= 16384
        /\ \A i \in 1..Len(config.shells) :
             config.shells[i].planes * config.shells[i].sats <= 16384
    BY ConfigFacts DEF TypeInv, MaxShells, MaxSatellites, Documented
  <1>2. ASSUME NEW m \in MachinesOf(config, Probes) PROVE m \in SmallMachines
    <2>1. /\ m \in [group : 0..Len(config.shells), id : Probes]
          /\ m.id < Count(config, m.group)
      BY DEF MachinesOf
    <2>2. m.group \in 0..Len(config.shells) /\ m.id \in Nat
      BY <2>1, TrajectoryAssumption
    <2>3. m.id <= 16383
      <3>1. CASE m.group = 0
        BY <1>1, <2>1, <2>2, <3>1 DEF Count
      <3>2. CASE m.group # 0
        <4>1. m.group \in 1..Len(config.shells)
          BY <1>1, <2>2, <3>2
        <4> DEFINE c == config.shells[m.group].planes * config.shells[m.group].sats
        <4>2. m.id < c /\ c <= 16384
          BY <1>1, <2>1, <3>2, <4>1 DEF Count
        <4>3. c \in Int
          BY <4>1, ConfigFacts DEF TypeInv
        <4> HIDE DEF c
        <4>4. QED BY <2>2, <4>2, <4>3
      <3>3. QED BY <3>1, <3>2
    <2>4. m = [group |-> m.group, id |-> m.id]
      BY <2>1
    <2>5. m.group \in Bytes8
      <3>1. m.group \in Nat /\ m.group <= 245
        <4>1. ASSUME NEW l \in 1..245, NEW g \in 0..l
              PROVE  g \in Nat /\ g <= 245
          OBVIOUS
        <4>2. Len(config.shells) \in 1..245
          BY <1>1
        <4>3. QED BY <2>2, <4>1, <4>2, Zenon
      <3>2. QED BY <3>1, Bits
    <2>7. m.id \in Bits14
      BY <2>2, <2>3, Bits
    <2>6. QED BY <2>4, <2>5, <2>7 DEF SmallMachines
  <1>3. QED BY <1>2

(* No machine of a documented configuration is refused, and no two have    *)
(* the same network or the same MAC address.                               *)
THEOREM DistinctAddresses == Spec => []AddressesAreDistinct
  <1>1. ASSUME MachineInv, phase = "emulate", Documented
        PROVE  /\ refused = {}
               /\ \A m, n \in registered : m # n => GetNet(m) # GetNet(n) /\ Mac(m) # Mac(n)
    <2>1. registered \subseteq SmallMachines
      BY <1>1, DocumentedMachines DEF MachineInv, OfConfig, Constructed
    <2>2. \A m \in SmallMachines : Permitted(m)
      <3>1. \A m \in SmallMachines : m.id \in Bits14
        BY DEF SmallMachines
      <3>2. QED BY <3>1, Bits DEF Permitted
    <2>3. refused = {}
      BY <1>1, <2>2, DocumentedMachines DEF MachineInv, OfConfig, Constructed
    <2>4. QED BY <2>1, <2>3, Distinct
  <1>2. MachineInv => AddressesAreDistinct
    BY <1>1 DEF AddressesAreDistinct
  <1>3. QED BY <1>2, MachinesAlways, PTL

(* Every machine of a documented configuration is found by its addresses.  *)
THEOREM ResolvableAddresses == Spec => []AddressesResolve
  <1>1. Gateway \in 0..3 /\ IP \in 0..3
    BY DEF Gateway, IP
  <1>2. ASSUME MachineInv, phase = "emulate", Documented
        PROVE  \A m \in registered, k \in {Gateway, IP} : GetID(Address(m, k)) = m
    <2>1. registered \subseteq SmallMachines
      BY <1>2, DocumentedMachines DEF MachineInv, OfConfig, Constructed
    <2>2. QED BY <1>1, <2>1, RoundTrip
  <1>3. MachineInv => AddressesResolve
    BY <1>2 DEF AddressesResolve
  <1>4. QED BY <1>3, MachinesAlways, PTL

-----------------------------------------------------------------------------
(* The parameters of the machines.                                         *)

(* Words are put together from the first parameter to the last.            *)
Flattens(f, p, n) == \A i \in 1..n : f[i] = IF i = 1 THEN p[1] ELSE f[i - 1] \o p[i]

LEMMA FlattenEquation ==
  ASSUME NEW S, NEW n \in Nat \ {0}, NEW p \in [1..n -> Seq(S)]
  PROVE  \E f \in [1..n -> Seq(S)] : Flattens(f, p, n) /\ FlattenSeq(p) = f[n]
  <1> DEFINE V == Seq(S)
             step == [x \in V \X (1..n) |-> x[1] \o p[x[2]]]
  <1>1. \A w \in V, k \in 1..n : w \o p[k] \in V
    OBVIOUS
  <1>2. step \in [V \X (1..n) -> V] /\ \A w \in V, k \in 1..n : step[<<w, k>>] = w \o p[k]
    BY <1>1
  <1>3. <<>> \in V
    OBVIOUS
  <1>4. \A w \in V : <<>> \o w = w
    OBVIOUS
  <1> HIDE DEF V, step
  <1>5. PICK g \in [0..n -> V] : Follows(g, n, <<>>, step)
    <2>1. n \in Nat
      OBVIOUS
    <2>2. QED BY <1>2, <1>3, <2>1, Recursion, Zenon
  <1>6. \A k \in 1..n : g[k] \in V /\ g[k - 1] \in V /\ g[k] = g[k - 1] \o p[k]
    <2>1. \A k \in 1..n : k \in 0..n /\ k - 1 \in 0..n
      OBVIOUS
    <2>2. QED BY <1>2, <1>5, <2>1 DEF Follows
  <1> DEFINE f == [i \in 1..n |-> g[i]]
  <1>7. f \in [1..n -> V] /\ \A i \in 1..n : f[i] = g[i]
    BY <1>6
  <1>8. ASSUME NEW i \in 1..n PROVE f[i] = IF i = 1 THEN p[i] ELSE f[i - 1] \o p[i]
    <2>1. CASE i = 1
      <3>1. g[1] = <<>> \o p[1]
        <4>1. 1 \in 1..n /\ 1 - 1 = 0
          OBVIOUS
        <4>2. g[1] = g[1 - 1] \o p[1] /\ g[0] = <<>>
          BY <1>5, <1>6, <4>1 DEF Follows
        <4>3. QED BY <4>1, <4>2
      <3>2. p[1] \in V
        BY DEF V
      <3>3. QED BY <1>4, <1>7, <2>1, <3>1, <3>2
    <2>2. CASE i # 1
      <3>1. i - 1 \in 1..n
        BY <2>2
      <3>2. QED BY <1>6, <1>7, <2>2, <3>1
    <2>3. QED BY <2>1, <2>2
  <1>9. Len(p) = n
    BY LenOfFunction
  <1>10. f = [i \in 1..Len(p) |-> IF i = 1 THEN p[i] ELSE f[i - 1] \o p[i]]
    BY <1>7, <1>8, <1>9
  <1> HIDE DEF f
  <1> DEFINE flatten[i \in 1..Len(p)] == IF i = 1 THEN p[i] ELSE flatten[i - 1] \o p[i]
  <1>11. flatten = [i \in 1..Len(p) |-> IF i = 1 THEN p[i] ELSE flatten[i - 1] \o p[i]]
    BY <1>10, Zenon DEF flatten
  <1>12. FlattenSeq(p) = flatten[n]
    BY <1>9 DEF FlattenSeq
  <1> HIDE DEF flatten
  <1>13. \A i \in 1..n : flatten[i] = IF i = 1 THEN p[1] ELSE flatten[i - 1] \o p[i]
    BY <1>9, <1>11
  <1> DEFINE T == {k \in 0..n : k # 0 => flatten[k] \in V}
  <1>14. \A k \in 0..n : k \in T
    <2>1. 0 \in T
      OBVIOUS
    <2>2. ASSUME NEW k \in 0..(n - 1), k \in T PROVE k + 1 \in T
      <3>1. k + 1 \in 1..n /\ k + 1 \in 0..n /\ (k + 1) - 1 = k /\ p[k + 1] \in V
        BY DEF V
      <3>2. CASE k = 0
        BY <1>13, <3>1, <3>2
      <3>3. CASE k # 0
        BY <1>1, <1>13, <2>2, <3>1, <3>3
      <3>4. QED BY <3>2, <3>3
    <2>3. n \in Nat
      OBVIOUS
    <2> HIDE DEF T
    <2>4. QED BY <2>1, <2>2, <2>3, Upwards
  <1>15. flatten \in [1..n -> V]
    <2>1. \A k \in 1..n : flatten[k] \in V
      BY <1>14
    <2>2. QED BY <1>9, <1>11, <2>1
  <1>16. Flattens(flatten, p, n)
    BY <1>13 DEF Flattens
  <1>17. QED BY <1>12, <1>15, <1>16 DEF V

(* Such a composition is unique.                                           *)
SameUpTo(p, q, n) == \A i \in 1..n : p[i] = q[i]
LEMMA FlattensOnce ==
  ASSUME NEW n \in Nat, NEW f, NEW g, NEW p, NEW q,
         Flattens(f, p, n), Flattens(g, q, n), SameUpTo(p, q, n)
  PROVE  SameUpTo(f, g, n)
  <1> DEFINE T == {k \in 0..n : k # 0 => f[k] = g[k]}
  <1>1. 0 \in T
    OBVIOUS
  <1>2. ASSUME NEW k \in 0..(n - 1), k \in T PROVE k + 1 \in T
    <2>1. k + 1 \in 1..n /\ k + 1 \in 0..n /\ (k + 1) - 1 = k /\ (k # 0 => k + 1 # 1)
          /\ (k = 0 => 1 \in 1..n)
      OBVIOUS
    <2>2. CASE k = 0
      <3>1. f[1] = p[1] /\ g[1] = q[1] /\ p[1] = q[1]
        BY <2>1, <2>2 DEF Flattens, SameUpTo
      <3>2. QED BY <2>1, <2>2, <3>1
    <2>3. CASE k # 0
      <3>1. f[k + 1] = f[k] \o p[k + 1] /\ g[k + 1] = g[k] \o p[k + 1]
        BY <2>1, <2>3 DEF Flattens, SameUpTo
      <3>2. QED BY <1>2, <2>1, <2>3, <3>1
    <2>4. QED BY <2>2, <2>3
  <1> HIDE DEF T
  <1>3. \A k \in 0..n : k \in T
    BY <1>1, <1>2, Upwards
  <1>4. QED BY <1>3 DEF T, SameUpTo

LEMMA AppendLater ==
  ASSUME NEW S, NEW a \in Seq(S), NEW b \in Seq(S), NEW x \in S
  PROVE  a \o Append(b, x) = Append(a \o b, x)
  <1>1. PICK e \in Seq(S) : e = <<x>>
    <2>1. <<x>> \in Seq(S)
      OBVIOUS
    <2>2. QED BY <2>1, Zenon
  <1>2. Append(b, x) = b \o e
    BY <1>1, AppendIsConcat
  <1>3. PICK c \in Seq(S) : c = a \o b
    <2>1. a \o b \in Seq(S)
      OBVIOUS
    <2>2. QED BY <2>1, Zenon
  <1>4. Append(c, x) = c \o e
    BY <1>1, AppendIsConcat
  <1>5. (a \o b) \o e = a \o (b \o e)
    OBVIOUS
  <1>6. QED BY <1>2, <1>3, <1>4, <1>5

(* What is read of a line are the words that were written, and its end.    *)
LEMMA WordsRead ==
  ASSUME NEW S, Newline \in S, NEW p \in Seq(Seq(S))
  PROVE  FlattenSeq(BootParametersRead(p)) = Append(FlattenSeq(p), Newline)
  <1>1. PICK end \in S : end = Newline
    OBVIOUS
  <1>2. CASE p = <<>>
    <2>1. PICK w \in Seq(S) : w = <<end>>
      <3>1. <<end>> \in Seq(S)
        OBVIOUS
      <3>2. QED BY <3>1, Zenon
    <2>3. PICK n \in Nat \ {0} : n = 1
      OBVIOUS
    <2>2. PICK e \in [1..n -> Seq(S)] : e = <<w>> /\ e[1] = w
      <3>1. /\ [i \in 1..n |-> w] = <<w>>
            /\ [i \in 1..n |-> w] \in [1..n -> Seq(S)] /\ [i \in 1..n |-> w][1] = w
        BY <2>3
      <3>2. QED BY <3>1, Zenon
    <2>4. PICK f \in [1..n -> Seq(S)] : Flattens(f, e, n) /\ FlattenSeq(e) = f[n]
      BY <2>3, FlattenEquation
    <2>5. FlattenSeq(e) = <<end>>
      BY <2>1, <2>2, <2>3, <2>4 DEF Flattens
    <2>6. FlattenSeq(p) = <<>>
      BY <1>2 DEF FlattenSeq
    <2>7. BootParametersRead(p) = e
      BY <1>1, <1>2, <2>1, <2>2, Zenon DEF BootParametersRead
    <2>8. Append(<<>>, end) = <<end>>
      OBVIOUS
    <2>9. QED BY <1>1, <2>5, <2>6, <2>7, <2>8, Zenon
  <1>3. CASE p # <<>>
    <2>1. PICK n \in Nat \ {0} : n = Len(p)
      BY <1>3
    <2>2. p \in [1..n -> Seq(S)] /\ n \in 1..n
      BY <2>1
    <2>3. PICK last \in Seq(S) : last = Append(p[n], end)
      <3>1. Append(p[n], end) \in Seq(S)
        BY <2>2
      <3>2. QED BY <3>1, Zenon
    <2>4. PICK q \in [1..n -> Seq(S)] : q = [p EXCEPT ![n] = last]
      <3>1. [p EXCEPT ![n] = last] \in [1..n -> Seq(S)]
        BY <2>2
      <3>2. QED BY <3>1, Zenon
    <2>5. BootParametersRead(p) = q
      <3>1. BootParametersRead(p) = [p EXCEPT ![Len(p)] = Append(p[Len(p)], Newline)]
        BY <1>3, Zenon DEF BootParametersRead
      <3>2. Append(p[Len(p)], Newline) = last
        BY <1>1, <2>1, <2>3
      <3>3. QED BY <2>1, <2>4, <3>1, <3>2, Zenon
    <2>6. q[n] = last /\ \A i \in 1..n : i # n => q[i] = p[i]
      BY <2>2, <2>4
    <2>7. PICK f \in [1..n -> Seq(S)] : Flattens(f, p, n) /\ FlattenSeq(p) = f[n]
      BY <2>2, FlattenEquation
    <2>8. PICK g \in [1..n -> Seq(S)] : Flattens(g, q, n) /\ FlattenSeq(q) = g[n]
      BY FlattenEquation
    <2>9. g[n] = Append(f[n], end)
      <3>1. CASE n = 1
        <4>1. f[n] = p[n] /\ g[n] = q[n]
          BY <2>2, <2>7, <2>8, <3>1 DEF Flattens
        <4>2. QED BY <2>3, <2>6, <4>1
      <3>2. CASE n # 1
        <4>1. PICK m \in Nat : m = n - 1
          OBVIOUS
        <4>2. m \in 1..m /\ m \in 1..n /\ \A i \in 1..m : i \in 1..n /\ i # n
          BY <3>2, <4>1
        <4>3. Flattens(f, p, m) /\ Flattens(g, q, m)
          BY <2>7, <2>8, <4>2 DEF Flattens
        <4>4. SameUpTo(p, q, m)
          BY <2>6, <4>2 DEF SameUpTo
        <4>5. SameUpTo(f, g, m)
          BY <4>3, <4>4, FlattensOnce, Zenon
        <4>6. f[n] = f[m] \o p[n] /\ g[n] = f[m] \o last
          BY <2>2, <2>6, <2>7, <2>8, <3>2, <4>1, <4>2, <4>5 DEF Flattens, SameUpTo
        <4>7. f[m] \in Seq(S) /\ p[n] \in Seq(S)
          BY <2>2, <4>2
        <4>8. PICK a \in Seq(S), b \in Seq(S) : a = f[m] /\ b = p[n]
          BY <4>7, Zenon
        <4>10. a \o Append(b, end) = Append(a \o b, end)
          BY AppendLater
        <4>9. QED BY <2>3, <4>6, <4>8, <4>10
      <3>3. QED BY <3>1, <3>2
    <2>10. QED BY <1>1, <2>5, <2>7, <2>8, <2>9
  <1>4. QED BY <1>2, <1>3

(* The strengthening of MachinesAreConfigured: what the initialization     *)
(* file and the Init request hold.                                         *)
Prepared ==
  Constructed =>
    inits = {[machine |-> m, compute |-> MachineConfig(config, m)] :
               m \in MachinesOf(config, Probes)}
Launched ==
  phase = "emulate" =>
    parameters = [m \in MachinesOf(config, Probes) |-> Restored(MachineConfig(config, m))]
ConfiguredInv == MachineInv /\ Prepared /\ Launched

LEMMA ConfiguredStep == ConfiguredInv /\ [Next]_vars => ConfiguredInv'
  <1> SUFFICES ASSUME ConfiguredInv, [Next]_vars PROVE Prepared' /\ Launched'
    BY MachineStep DEF ConfiguredInv
  <1> USE DEF ConfiguredInv, Prepared, Launched, Constructed
  <1>1. CASE Configure
    BY <1>1 DEF Configure
  <1>2. CASE Construct
    BY <1>2 DEF Construct
  <1>3. CASE Step
    BY <1>3 DEF Step, hostVars
  <1>4. CASE WriteMachines
    BY <1>4 DEF WriteMachines, hostVars, MachineInv, TypeInv, TypeOK
  <1>5. CASE WriteLinks
    BY <1>5 DEF WriteLinks, hostVars, MachineInv, TypeInv, TypeOK
  <1>6. CASE Persist
    BY <1>6 DEF Persist, satgenVars, hostVars
  <1>7. CASE Restore
    <2> DEFINE M == MachinesOf(config, Probes)
    <2>1. config' = config /\ inits' = inits /\ phase = "archived"
      BY <1>7 DEF Restore, satgenVars
    <2>2. inits = {[machine |-> m, compute |-> MachineConfig(config, m)] : m \in M}
      BY <2>1
    <2> DEFINE E(m) == [machine |-> m, compute |-> MachineConfig(config, m)]
    <2>8. inits = {E(m) : m \in M} /\ \A m : E(m).machine = m
                                          /\ E(m).compute = MachineConfig(config, m)
      BY <2>2
    <2> HIDE DEF M, E
    <2>3. {i.machine : i \in inits} = M
      BY <2>8
    <2>4. ASSUME NEW m \in M
          PROVE  (CHOOSE i \in inits : i.machine = m).compute = MachineConfig(config, m)
      <3> DEFINE c == CHOOSE i \in inits : i.machine = m
      <3>1. \E i \in inits : i.machine = m
        BY <2>8
      <3>2. c \in inits /\ c.machine = m
        BY <3>1
      <3> HIDE DEF c
      <3>3. c.compute = MachineConfig(config, m)
        BY <2>8, <3>2
      <3>4. QED BY <3>3 DEF c
    <2>5. parameters' = [m \in M |-> Restored((CHOOSE i \in inits : i.machine = m).compute)]
      BY <1>7, <2>3 DEF Restore
    <2>6. parameters' = [m \in M |-> Restored(MachineConfig(config, m))]
      BY <2>4, <2>5
    <2>7. QED BY <2>1, <2>2, <2>6 DEF M
  <1>8. CASE Replay
    BY <1>8 DEF Replay, satgenVars
  <1>9. CASE UNCHANGED vars
    BY <1>9 DEF vars, progress, satgenVars, hostVars
  <1>10. QED
    BY <1>1, <1>2, <1>3, <1>4, <1>5, <1>6, <1>7, <1>8, <1>9 DEF Next

(* One machine's parameters, own over those of the file.                   *)
LEMMA OwnOverFile ==
  ASSUME NEW own, NEW global, DOMAIN own \subseteq ComputeKeys,
         DOMAIN global \subseteq ComputeKeys, ComputeKeys \ {"boot_parameters"} \subseteq DOMAIN global,
         NEW S, Newline \in S,
         "boot_parameters" \in DOMAIN own => own["boot_parameters"] \in Seq(Seq(S)),
         "boot_parameters" \in DOMAIN global => global["boot_parameters"] \in Seq(Seq(S)),
         NEW got, got = Restored(Merged(own, Over(global, [k \in {"boot_parameters"} |-> <<>>]))),
         NEW chosen, chosen = [k \in ComputeKeys |->
                                 IF k \in DOMAIN own THEN own[k]
                                 ELSE IF k \in DOMAIN global THEN global[k] ELSE <<>>]
  PROVE  /\ DOMAIN got = ComputeKeys
         /\ \A k \in ComputeKeys \ {"boot_parameters"} : got[k] = chosen[k]
         /\ FlattenSeq(got["boot_parameters"])
              = Append(FlattenSeq(chosen["boot_parameters"]), Newline)
  <1> DEFINE key == "boot_parameters"
             full == Merged(own, Over(global, [k \in {key} |-> <<>>]))
  <1>1. key \in ComputeKeys
    BY DEF ComputeKeys
  <1> HIDE DEF key
  <1>2. full = chosen
    BY <1>1 DEF Merged, Over, key
  <1>3. chosen[key] \in Seq(Seq(S))
    <2>1. <<>> \in Seq(Seq(S))
      OBVIOUS
    <2>2. QED BY <1>1, <2>1 DEF key
  <1>4. got = [chosen EXCEPT ![key] = BootParametersRead(chosen[key])]
    BY <1>2 DEF Restored, key
  <1>5. /\ DOMAIN got = ComputeKeys /\ got[key] = BootParametersRead(chosen[key])
        /\ \A k \in ComputeKeys \ {key} : got[k] = chosen[k]
    BY <1>1, <1>4
  <1>6. FlattenSeq(BootParametersRead(chosen[key])) = Append(FlattenSeq(chosen[key]), Newline)
    BY <1>3, WordsRead
  <1>7. QED BY <1>5, <1>6 DEF key

LEMMA MachineParameters ==
  ASSUME ConfiguredInv, phase = "emulate", NEW m \in MachinesOf(config, Probes), NEW own,
         own = IF m.group = 0 THEN file.stations[m.id + 1].compute
               ELSE file.shells[m.group].compute
  PROVE  /\ MachineConfig(config, m) =
              Merged(own, Over(file.compute, [k \in {"boot_parameters"} |-> <<>>]))
         /\ DOMAIN own \subseteq ComputeKeys /\ DOMAIN file.compute \subseteq ComputeKeys
         /\ ComputeKeys \ {"boot_parameters"} \subseteq DOMAIN file.compute
         /\ \A compute \in {own, file.compute} : "boot_parameters" \in DOMAIN compute =>
              compute["boot_parameters"] \in Seq(Seq(STRING))
  <1> DEFINE all == Over(file.compute, [k \in {"boot_parameters"} |-> <<>>])
  <1>1. file \in Files /\ config = Filled(file) /\ Accepted(file)
    BY DEF ConfiguredInv, MachineInv, TypeInv, TypeOK
  <1>2. /\ DOMAIN file.shells = 1..Len(file.shells) /\ Len(file.shells) \in Nat
        /\ DOMAIN file.stations = 1..Len(file.stations) /\ Len(file.stations) \in Nat
        /\ \A compute \in {file.compute} \union {s.compute : s \in Range(file.shells)}
                                        \union {g.compute : g \in Range(file.stations)} :
             "boot_parameters" \in DOMAIN compute =>
               compute["boot_parameters"] \in Seq(Seq(STRING))
    BY <1>1, FilesAssumption
  <1>3. /\ \A i \in DOMAIN file.shells :
             config.shells[i].compute = Merged(file.shells[i].compute, all)
        /\ \A i \in DOMAIN file.stations :
             config.stations[i].compute = Merged(file.stations[i].compute, all)
    BY <1>1 DEF Filled
  <1>4. Len(config.shells) = Len(file.shells) /\ Len(config.stations) = Len(file.stations)
    <2>1. config.shells \in [1..Len(file.shells) -> Range(config.shells)]
      BY <1>1, <1>2 DEF Filled, Range
    <2>2. config.stations \in [1..Len(file.stations) -> Range(config.stations)]
      BY <1>1, <1>2 DEF Filled, Range
    <2>3. QED BY <1>2, <2>1, <2>2, LenOfFunction
  <1>5. m.group \in 0..Len(config.shells) /\ m.id \in Nat /\ m.id < Count(config, m.group)
    BY TrajectoryAssumption DEF MachinesOf
  <1>6. ComputeOk(file.compute) /\ ComputeKeys \ {"boot_parameters"} \subseteq DOMAIN file.compute
    BY <1>1 DEF Accepted
  <1>7. /\ MachineConfig(config, m) = Merged(own, all) /\ ComputeOk(own)
        /\ own \in {s.compute : s \in Range(file.shells)}
                   \union {g.compute : g \in Range(file.stations)}
    <2>1. CASE m.group = 0
      <3>1. m.id + 1 \in DOMAIN file.stations
        BY <1>2, <1>4, <1>5, <2>1 DEF Count
      <3>2. file.stations[m.id + 1] \in Range(file.stations)
        BY <3>1 DEF Range
      <3>3. ComputeOk(file.stations[m.id + 1].compute)
        BY <1>1, <3>2 DEF Accepted
      <3>4. MachineConfig(config, m) = Merged(own, all)
        BY <1>3, <2>1, <3>1 DEF MachineConfig
      <3>5. QED BY <2>1, <3>2, <3>3, <3>4
    <2>2. CASE m.group # 0
      <3>1. m.group \in DOMAIN file.shells
        BY <1>2, <1>4, <1>5, <2>2
      <3>2. file.shells[m.group] \in Range(file.shells)
        BY <3>1 DEF Range
      <3>3. ComputeOk(file.shells[m.group].compute)
        BY <1>1, <3>2 DEF Accepted
      <3>4. MachineConfig(config, m) = Merged(own, all)
        BY <1>3, <2>2, <3>1 DEF MachineConfig
      <3>5. QED BY <2>2, <3>2, <3>3, <3>4
    <2>3. QED BY <2>1, <2>2
  <1>8. \A compute \in {own, file.compute} : "boot_parameters" \in DOMAIN compute =>
          compute["boot_parameters"] \in Seq(Seq(STRING))
    BY <1>2, <1>7
  <1>9. DOMAIN own \subseteq ComputeKeys /\ DOMAIN file.compute \subseteq ComputeKeys
    BY <1>6, <1>7 DEF ComputeOk
  <1>10. QED BY <1>6, <1>7, <1>8, <1>9

(* Over both programs, every machine of every accepted file gets the       *)
(* parameters of its shell or station over those of the file.              *)
THEOREM MachinesConfigured == Spec => []MachinesAreConfigured
  <1>1. Init => ConfiguredInv
    BY TypeInit DEF Init, ConfiguredInv, Prepared, Launched, MachineInv, OfConfig, Constructed
  <1>2. ConfiguredInv => MachinesAreConfigured
    <2> SUFFICES ASSUME ConfiguredInv, NEW m \in registered \union refused
                 PROVE  LET own == IF m.group = 0 THEN file.stations[m.id + 1].compute
                                   ELSE file.shells[m.group].compute
                            Given(k) == IF k \in DOMAIN own THEN own[k]
                                        ELSE IF k \in DOMAIN file.compute THEN file.compute[k]
                                        ELSE <<>>
                            words == FlattenSeq(Given("boot_parameters"))
                        IN /\ DOMAIN parameters[m] = ComputeKeys
                           /\ \A k \in ComputeKeys \ {"boot_parameters"} :
                                parameters[m][k] = Given(k)
                           /\ FlattenSeq(parameters[m]["boot_parameters"])
                                \in {words, Append(words, Newline)}
      BY DEF MachinesAreConfigured
    <2>1. phase = "emulate" /\ m \in MachinesOf(config, Probes)
      BY DEF ConfiguredInv, MachineInv, OfConfig, TypeInv, Blank, Constructed
    <2> DEFINE own == IF m.group = 0 THEN file.stations[m.id + 1].compute
                      ELSE file.shells[m.group].compute
               all == file.compute
               Given(k) == IF k \in DOMAIN own THEN own[k]
                           ELSE IF k \in DOMAIN all THEN all[k] ELSE <<>>
               chosen == [k \in ComputeKeys |-> Given(k)]
               got == parameters[m]
               S == STRING \union {Newline}
    <2>2. got = Restored(MachineConfig(config, m))
      BY <2>1 DEF ConfiguredInv, Launched
    <2> HIDE DEF own, got
    <2>3. /\ MachineConfig(config, m) = Merged(own, Over(all, [k \in {"boot_parameters"} |-> <<>>]))
          /\ DOMAIN own \subseteq ComputeKeys /\ DOMAIN all \subseteq ComputeKeys
          /\ ComputeKeys \ {"boot_parameters"} \subseteq DOMAIN all
          /\ \A compute \in {own, all} : "boot_parameters" \in DOMAIN compute =>
               compute["boot_parameters"] \in Seq(Seq(STRING))
      BY <2>1, MachineParameters DEF own
    <2> HIDE DEF all
    <2>4. Newline \in S /\ Seq(Seq(STRING)) \subseteq Seq(Seq(S))
      OBVIOUS
    <2>5. \A compute \in {own, all} : "boot_parameters" \in DOMAIN compute =>
            compute["boot_parameters"] \in Seq(Seq(S))
      BY <2>3, <2>4
    <2>6. got = Restored(Merged(own, Over(all, [k \in {"boot_parameters"} |-> <<>>])))
      BY <2>2, <2>3
    <2> HIDE DEF S
    <2>7. /\ DOMAIN got = ComputeKeys
          /\ \A k \in ComputeKeys \ {"boot_parameters"} : got[k] = chosen[k]
          /\ FlattenSeq(got["boot_parameters"])
               = Append(FlattenSeq(chosen["boot_parameters"]), Newline)
      BY <2>3, <2>4, <2>5, <2>6, OwnOverFile
    <2>8. \A k \in ComputeKeys : chosen[k] = Given(k)
      OBVIOUS
    <2>9. "boot_parameters" \in ComputeKeys
      BY DEF ComputeKeys
    <2> HIDE DEF chosen, Given
    <2>10. /\ DOMAIN got = ComputeKeys
           /\ \A k \in ComputeKeys \ {"boot_parameters"} : got[k] = Given(k)
           /\ FlattenSeq(got["boot_parameters"])
                = Append(FlattenSeq(Given("boot_parameters")), Newline)
      BY <2>7, <2>8, <2>9
    <2>11. QED BY <2>10, Zenon DEF Given, own, all, got
  <1>3. QED BY <1>1, <1>2, ConfiguredStep, PTL DEF Spec
=============================================================================
