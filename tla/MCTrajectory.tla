---------------------------- MODULE MCTrajectory ----------------------------
(* Files whose archives meet the limit of writers, and files at the limits *)
(* of what is accepted.                                                    *)
EXTENDS Trajectory

NoParams == [k \in {} |-> 0]
Network == [bandwidth_kbits |-> 10, min_elevation |-> 40,
            ground_station_connection_type |-> "all"]
Compute == [vcpu_count |-> 1, mem_size_mib |-> 128, disk_size_mib |-> 100,
            kernel |-> "k", rootfs |-> "r"]
Quiet == [boot_parameters |-> <<<<"quiet">>, <<"a", "b">>>>]

ShellOf(planes, sats, compute) ==
  [planes |-> planes, sats |-> sats, network |-> NoParams, compute |-> compute]
Small == ShellOf(2, 33, [mem_size_mib |-> 256])
Largest == ShellOf(128, 128, Quiet)
TooLarge == ShellOf(129, 128, NoParams)

Station(name) == [name |-> name, network |-> [min_elevation |-> 20], compute |-> [vcpu_count |-> 4]]

FileOf(offset, resolution, shells, stations) ==
  [offset |-> offset, duration |-> 30, resolution |-> resolution, network |-> Network,
   compute |-> Compute, shells |-> shells, stations |-> stations]

MCFiles ==
  {FileOf(5, 8, <<Small>>, <<Station("x"), Station("y")>>),
   FileOf(Absent, 15, <<Small, Largest>>, <<Station("x"), Station("y")>>),
   FileOf(Absent, 10, <<Small, Small>>, <<>>),
   FileOf(0, 15, <<Small, TooLarge>>, <<>>),
   FileOf(0, 31, <<Small>>, <<>>),
   FileOf(0, 15, <<Small>>, <<Station("x"), Station("x")>>)}
TwoShells == {FileOf(0, 10, <<Small, Small>>, <<Station("x"), Station("y")>>)}
MCProbes == {0, 1, 63, 64, 65, 254, 16383, 16384}
=============================================================================
