----------------------------- MODULE Trajectory -----------------------------
(***************************************************************************)
(* A configuration on its way to the hosts.  satgen.py reads it, moves the *)
(* shells from timestep to timestep and writes what changes into one file  *)
(* per timestep and kind of diff (satgen_connstellation.py and the         *)
(* ZipSerializer); celestial.py restores the machines and the diffs with   *)
(* the ZipDeserializer, has the machines registered and sends the diffs.   *)
(*                                                                         *)
(* Each shell is followed by one of its satellites, in the bounding box or *)
(* not, and by the path of one pair of ground stations, which every shell  *)
(* reports for itself.  ShellPaths says what a shell reports, UpdateStream *)
(* and Coordinator how it gets to the hosts; here it arrives.              *)
(***************************************************************************)
EXTENDS Config, AddressPlan

CONSTANTS
  Files,      \* the configuration files
  Probes,     \* bound: the identifiers of machines that are followed
  Shapes,     \* the paths that a pair of ground stations can have
  MaxWriters  \* _MAX_WRITERS

ASSUME TrajectoryAssumption ==
  Probes \subseteq Nat /\ MaxWriters \in Nat \ {0} /\ MaxSeconds \in Nat

(* The types that the schema checks before a value.                        *)
ASSUME FilesAssumption ==
  \A f \in Files :
    /\ f.offset \in Int /\ f.duration \in Int /\ f.resolution \in Int
    /\ Len(f.shells) \in Nat /\ DOMAIN f.shells = 1..Len(f.shells)
    /\ Len(f.stations) \in Nat /\ DOMAIN f.stations = 1..Len(f.stations)
    /\ \A i \in DOMAIN f.shells : f.shells[i].planes \in Int /\ f.shells[i].sats \in Int
    /\ \A compute \in {f.compute} \union {s.compute : s \in Range(f.shells)}
                                    \union {g.compute : g \in Range(f.stations)} :
         "boot_parameters" \in DOMAIN compute =>
           compute["boot_parameters"] \in Seq(Seq(STRING))

VARIABLES
  phase,       \* "file", "refused", "accepted", "satgen", "archived", "emulate"
  file,        \* the configuration file
  config,      \* Config, and what celestial.py restores
  now,         \* i of satgen.py, timestep of celestial.py
  shell, part, \* whose diffs are written next, "machines" or "links"
  world,       \* what every shell has reported last
  old,         \* what it had reported before this timestep
  files,       \* the diffs in the files of write_dir
  writers,     \* self.writers: the files that are open
  inits,       \* the initialization file
  given,       \* history: the diffs the serializer was called with
  truth,       \* history: `world` after every timestep
  registered,  \* the machines that the hosts have registered
  refused,     \* the machines that getNet has an error for
  parameters,  \* the parameters of the machines in the Init request
  emulated     \* the state of the hosts

progress == <<phase, file, config, now, shell, part>>
satgenVars == <<world, old, files, writers, inits, given, truth>>
hostVars == <<registered, refused, parameters, emulated>>
vars == <<progress, satgenVars, hostVars>>

Shells(c) == 1..Len(c.shells)
End(c) == c.offset + c.duration
Timesteps(c) ==
  {t \in {c.offset + k * c.resolution : k \in 0..(c.duration - 1)} : t < End(c)}
Names(c) == {"m", "l"} \X Timesteps(c)

(* What a diff is about: a shell's satellite, the stations, the pair.      *)
Satellite(s) == <<"satellite", s>>
AllStations == <<"stations", 0>>
Pair == <<"pair", 0>>
Items(c) == {Satellite(s) : s \in Shells(c)} \union {AllStations, Pair}

Still == [vm |-> "STOPPED", path |-> "blocked"]
States == [vm : {"STOPPED", "ACTIVE"}, path : Shapes \union {"blocked"}]

Init ==
  /\ phase = "file" /\ file \in Files /\ config = <<>>
  /\ now = 0 /\ shell = 1 /\ part = "none"
  /\ world = <<>> /\ old = <<>> /\ files = <<>> /\ writers = {} /\ inits = {}
  /\ given = <<>> /\ truth = <<>>
  /\ registered = {} /\ refused = {} /\ parameters = <<>> /\ emulated = <<>>

-----------------------------------------------------------------------------
(* The ZipSerializer.                                                      *)

(* Mutant: the limit is enforced once the file has been opened.            *)
WithWriterMutant(n) ==
  IF n \in writers THEN writers
  ELSE IF Cardinality(writers) + 1 >= MaxWriters THEN {} ELSE writers \union {n}

(* _get_writer: at the limit, all writers are closed.                      *)
WithWriter(n) ==
  IF n \in writers THEN writers
  ELSE {n} \union (IF Cardinality(writers) >= MaxWriters THEN {} ELSE writers)

(* A file is opened with "wb", which empties it.                           *)
Opened(n) == IF n \in writers THEN files[n] ELSE <<>>

(* diff_machine or diff_link for every diff of a shell.                    *)
Write(n, diffs) ==
  IF diffs = {} THEN UNCHANGED <<files, writers, given>>
  ELSE /\ files' = [files EXCEPT ![n] = Append(Opened(n), diffs)]
       /\ writers' = WithWriter(n)
       /\ given' = [given EXCEPT ![n] = Append(@, diffs)]

-----------------------------------------------------------------------------
(* satgen.py                                                               *)

(* Config(text_config)                                                     *)
Configure ==
  /\ phase = "file"
  /\ IF Accepted(file) THEN phase' = "accepted" /\ config' = Filled(file)
     ELSE phase' = "refused" /\ UNCHANGED config
  /\ UNCHANGED <<file, now, shell, part, satgenVars, hostVars>>

(* SatgenConstellation.__init__: the machines, all stopped, and a diff for *)
(* the ground stations, which are active from the first timestep on.       *)
StationDiffs(c) ==
  IF c.stations = <<>> THEN <<>> ELSE <<{[item |-> AllStations, is |-> "ACTIVE"]}>>

Construct ==
  /\ phase = "accepted"
  /\ phase' = "satgen" /\ now' = config.offset
  /\ world' = [s \in Shells(config) |-> Still] /\ old' = world'
  /\ inits' = {[machine |-> m, compute |-> MachineConfig(config, m)] :
                 m \in MachinesOf(config, Probes)}
  /\ given' = [n \in Names(config) |->
                 IF n = <<"m", config.offset>> THEN StationDiffs(config) ELSE <<>>]
  /\ files' = given'
  /\ writers' = IF config.stations = <<>> THEN {} ELSE {<<"m", config.offset>>}
  /\ truth' = [t \in Timesteps(config) |-> world']
  /\ UNCHANGED <<file, config, shell, part, hostVars>>

(* Mutant: as long as celestial.py, which goes on to the end.              *)
MoreStepsMutant == now <= End(config)
MoreSteps == now < End(config)

(* SatgenConstellation.step: all shells move; shell by shell, the machine  *)
(* diffs and then the link diffs are written.                              *)
Step ==
  /\ phase = "satgen" /\ part = "none" /\ MoreSteps
  /\ shell' = 1 /\ part' = "machines"
  /\ world' \in [Shells(config) -> States] /\ old' = world
  /\ truth' = [truth EXCEPT ![now] = world']
  /\ UNCHANGED <<phase, file, config, now, files, writers, inits, given, hostVars>>

MachineDiffs(s) ==
  IF world[s].vm = old[s].vm THEN {} ELSE {[item |-> Satellite(s), is |-> world[s].vm]}
LinkDiffs(s) ==
  IF world[s].path = old[s].path THEN {} ELSE {[item |-> Pair, is |-> world[s].path]}

WriteMachines ==
  /\ part = "machines" /\ part' = "links"
  /\ Write(<<"m", now>>, MachineDiffs(shell))
  /\ UNCHANGED <<phase, file, config, now, shell, world, old, inits, truth, hostVars>>

WriteLinks ==
  /\ part = "links"
  /\ Write(<<"l", now>>, LinkDiffs(shell))
  /\ IF shell < Len(config.shells)
     THEN shell' = shell + 1 /\ part' = "machines" /\ UNCHANGED now
     ELSE part' = "none" /\ now' = now + config.resolution /\ UNCHANGED shell
  /\ UNCHANGED <<phase, file, config, world, old, inits, truth, hostVars>>

(* The loop is over: all writers are closed, and the directory is zipped.  *)
Persist ==
  /\ phase = "satgen" /\ part = "none" /\ ~MoreSteps
  /\ phase' = "archived"
  /\ UNCHANGED <<file, config, now, shell, part, satgenVars, hostVars>>

-----------------------------------------------------------------------------
(* celestial.py                                                            *)

(* Mutant: the emulation starts at 0.                                      *)
FirstTimestepMutant(c) == 0
FirstTimestep(c) == c.offset

(* init_machines and Init: every host registers the machines, all stopped, *)
(* with all links blocked.                                                 *)
Restore ==
  LET machines == {i.machine : i \in inits}
  IN /\ phase = "archived"
     /\ phase' = "emulate" /\ now' = FirstTimestep(config)
     /\ registered' = {m \in machines : Permitted(m)}
     /\ refused' = machines \ registered'
     /\ parameters' = [m \in machines |->
                         Restored((CHOOSE i \in inits : i.machine = m).compute)]
     /\ emulated' = [i \in Items(config) |-> IF i = Pair THEN "blocked" ELSE "STOPPED"]
     /\ UNCHANGED <<file, config, shell, part, satgenVars>>

(* diff_machines and diff_links: without a file there are no diffs.        *)
Diffs(n) == IF n \in DOMAIN files THEN files[n] ELSE <<>>

Applied(state, diffs) ==
  [i \in DOMAIN state |-> IF \E d \in diffs : d.item = i
                          THEN (CHOOSE d \in diffs : d.item = i).is ELSE state[i]]

Updated(state, diffs) ==
  LET after[k \in 0..Len(diffs)] ==
        IF k = 0 THEN state ELSE Applied(after[k - 1], diffs[k])
  IN after[Len(diffs)]

(* One Update of the hosts; the last timestep is after the last of satgen. *)
Replay ==
  /\ phase = "emulate" /\ now <= End(config)
  /\ emulated' = Updated(emulated, Diffs(<<"m", now>>) \o Diffs(<<"l", now>>))
  /\ now' = now + config.resolution
  /\ UNCHANGED <<phase, file, config, shell, part, satgenVars, registered, refused,
                 parameters>>

Next ==
  \/ Configure \/ Construct \/ Step \/ WriteMachines \/ WriteLinks \/ Persist
  \/ Restore \/ Replay

Spec == Init /\ [][Next]_vars
-----------------------------------------------------------------------------
(* Every variable has its type; before it is first used it is empty.       *)
Diff(c) == [item : Items(c), is : {"STOPPED", "ACTIVE", "blocked"} \union Shapes]
Archives(c) == [Names(c) -> Seq(SUBSET Diff(c))]
Constructed == phase \in {"satgen", "archived", "emulate"}
TypeOK ==
  /\ phase \in {"file", "refused", "accepted", "satgen", "archived", "emulate"}
  /\ file \in Files /\ now \in Nat /\ part \in {"none", "machines", "links"}
  /\ phase \notin {"file", "refused"} => config = Filled(file) /\ Accepted(file)
  /\ part # "none" => phase = "satgen" /\ now \in Timesteps(config)
  /\ Constructed =>
       /\ shell \in Shells(config) /\ writers \subseteq Names(config)
       /\ world \in [Shells(config) -> States] /\ old \in [Shells(config) -> States]
       /\ files \in Archives(config) /\ given \in Archives(config)
       /\ truth \in [Timesteps(config) -> [Shells(config) -> States]]
  /\ registered \union refused \subseteq {i.machine : i \in inits}

(* The archive holds every diff that the serializer was given, in order,   *)
(* however often all writers are closed, for a constellation of one shell  *)
(* and for one whose files can all be open at once.                        *)
WithinLimit == Len(config.shells) = 1 \/ Cardinality(Names(config)) <= MaxWriters
ArchiveIsComplete == Constructed /\ WithinLimit => files = given

(* "should be used with the ZipDeserializer to restore the initialization  *)
(* and updates" (zip_serializer.py): what is restored is what was given.   *)
ArchiveRestores == phase = "emulate" => files = given

(* Replayed from such an archive, the hosts have after every timestep each *)
(* satellite's machine as its shell had it, the stations active, and for a *)
(* pair of stations the path that one of the shells has: shells override   *)
(* each other's, and the last to report a change wins.                     *)
Played == {t \in Timesteps(config) : t < now}
ReplayFollows ==
  phase = "emulate" /\ WithinLimit /\ now > config.offset =>
    LET last == CHOOSE t \in Played : \A u \in Played : u <= t
    IN /\ \A s \in Shells(config) : emulated[Satellite(s)] = truth[last][s].vm
       /\ config.stations # <<>> => emulated[AllStations] = "ACTIVE"
       /\ \E s \in Shells(config) : emulated[Pair] = truth[last][s].path

(* "considered the defaults but can be overridden for individual shells or *)
(* ground stations" (configuration.md): over both programs, a machine has  *)
(* its shell's or station's parameter where there is one, else the file's, *)
(* and no parameter is missing.  The boot parameters are the same words in *)
(* the same order, with nothing after them but the end of a line.          *)
MachinesAreConfigured ==
  \A m \in registered \union refused :
    LET own == IF m.group = 0 THEN file.stations[m.id + 1].compute
               ELSE file.shells[m.group].compute
        Given(k) == IF k \in DOMAIN own THEN own[k]
                    ELSE IF k \in DOMAIN file.compute THEN file.compute[k] ELSE <<>>
    IN /\ DOMAIN parameters[m] = ComputeKeys
       /\ \A k \in ComputeKeys \ {"boot_parameters"} : parameters[m][k] = Given(k)
       /\ LET words == FlattenSeq(Given("boot_parameters"))
          IN FlattenSeq(parameters[m]["boot_parameters"]) \in {words, Append(words, Newline)}

(* "Each tap has to have its own network" (net.go): of the machines of an  *)
(* accepted file with the documented number of ground stations, none is    *)
(* refused, and no two have one network or one MAC address.                *)
Documented == Len(config.stations) <= 16384
AddressesAreDistinct ==
  phase = "emulate" /\ Documented =>
    /\ refused = {}
    /\ \A m, n \in registered : m # n => GetNet(m) # GetNet(n) /\ Mac(m) # Mac(n)

(* A machine is found by its address and by that of its gateway: getID is  *)
(* the inverse of getNet for every machine of such a file.                 *)
AddressesResolve ==
  phase = "emulate" /\ Documented =>
    \A m \in registered, k \in {Gateway, IP} : GetID(Address(m, k)) = m
=============================================================================
