------------------------------- MODULE Config -------------------------------
(***************************************************************************)
(* celestial/config.py: which configuration files are accepted, and which  *)
(* parameters every machine of an accepted one gets.  The lines of the     *)
(* archive's initialization file, which carry a machine and its parameters *)
(* from satgen.py to celestial.py, are at the end.                         *)
(*                                                                         *)
(* A file is a record.  network and compute are the parameters that a file *)
(* or one of its shells and ground stations gives, by their names; what    *)
(* only orbital geometry depends on is left out.                           *)
(***************************************************************************)
EXTENDS Integers, FiniteSets, SequencesExt

CONSTANT MaxSeconds  \* bound: the 1e10 of the schema, which TLC cannot count to

Absent == -1  \* for an offset that is not given

NetworkKeys == {"bandwidth_kbits", "min_elevation", "ground_station_connection_type"}
ComputeKeys == {"vcpu_count", "mem_size_mib", "disk_size_mib", "kernel", "rootfs",
                "boot_parameters"}

MaxShells == 245
MaxSatellites == 16384

(* The values have types that the schema checks; of their ranges, these.   *)
NetworkOk(p) ==
  /\ DOMAIN p \subseteq NetworkKeys
  /\ \A k \in {"bandwidth_kbits", "min_elevation"} \intersect DOMAIN p : p[k] >= 0
  /\ "ground_station_connection_type" \in DOMAIN p =>
       p["ground_station_connection_type"] \in {"all", "one"}
ComputeOk(p) ==
  /\ DOMAIN p \subseteq ComputeKeys
  /\ \A k \in {"mem_size_mib", "disk_size_mib"} \intersect DOMAIN p : p[k] >= 1

(* Mutant: planes and satellites are limited one by one.                   *)
MaxSatellitesOkMutant(s) == s.planes <= MaxSatellites /\ s.sats <= MaxSatellites
MaxSatellitesOk(s) == s.planes * s.sats <= MaxSatellites

(* A station without a name ends the program as well, but by a KeyError.   *)
NoName == "no name"
GstNameUnique(stations) ==
  \A i, j \in DOMAIN stations :
    /\ stations[i].name # NoName
    /\ i # j => stations[i].name # stations[j].name

(* _validate_configuration                                                 *)
Accepted(file) ==
  /\ file.resolution \in 1..MaxSeconds /\ file.duration \in 30..MaxSeconds
  /\ file.offset \in Nat \union {Absent}
  /\ DOMAIN file.network = NetworkKeys /\ NetworkOk(file.network)
  /\ ComputeKeys \ {"boot_parameters"} \subseteq DOMAIN file.compute
  /\ ComputeOk(file.compute)
  /\ Len(file.shells) \in 1..MaxShells
  /\ \A s \in Range(file.shells) :
       /\ s.planes >= 1 /\ s.sats >= 1 /\ MaxSatellitesOk(s)
       /\ NetworkOk(s.network) /\ ComputeOk(s.compute)
  /\ GstNameUnique(file.stations)
  /\ \A g \in Range(file.stations) : NetworkOk(g.network) /\ ComputeOk(g.compute)

-----------------------------------------------------------------------------
(* _fill_configuration                                                     *)

Over(own, global) ==
  [k \in DOMAIN own \union DOMAIN global |-> IF k \in DOMAIN own THEN own[k] ELSE global[k]]

(* Mutant: the values of a shell or station are overridden.                *)
MergedMutant(own, global) == Over(global, own)
Merged(own, global) == Over(own, global)

Filled(file) ==
  LET compute == Over(file.compute, [k \in {"boot_parameters"} |-> <<>>])
  IN [offset |-> IF file.offset = Absent THEN 0 ELSE file.offset,
      duration |-> file.duration, resolution |-> file.resolution,
      shells |-> [i \in DOMAIN file.shells |->
        LET s == file.shells[i]
        IN [planes |-> s.planes, sats |-> s.sats,
            network |-> Merged(s.network, file.network),
            compute |-> Merged(s.compute, compute)]],
      stations |-> [i \in DOMAIN file.stations |->
        LET g == file.stations[i]
        IN [name |-> g.name, network |-> Merged(g.network, file.network),
            compute |-> Merged(g.compute, compute)]]]

-----------------------------------------------------------------------------
(* The machines of a configuration: ground stations are group 0, and       *)
(* identifiers count from 0.                                               *)

Count(c, group) ==
  IF group = 0 THEN Len(c.stations)
  ELSE c.shells[group].planes * c.shells[group].sats
MachinesOf(c, ids) ==
  {m \in [group : 0..Len(c.shells), id : ids] : m.id < Count(c, m.group)}

MachineConfig(c, m) ==
  IF m.group = 0 THEN c.stations[m.id + 1].compute ELSE c.shells[m.group].compute

(* A line ends in the boot parameters, and readlines leaves the end of the *)
(* line in place: it becomes part of the last one, or the only one.  Each  *)
(* is a sequence of words without a separator of the line (, and |).       *)
Newline == "newline"
BootParametersRead(params) ==
  IF params = <<>> THEN <<<<Newline>>>>
  ELSE [params EXCEPT ![Len(params)] = Append(@, Newline)]

Restored(compute) == [compute EXCEPT !["boot_parameters"] = BootParametersRead(@)]
=============================================================================
