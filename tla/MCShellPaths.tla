---------------------------- MODULE MCShellPaths ----------------------------
(* Geometries of two small shells: two planes of two satellites with two   *)
(* ground stations, and three planes of two without.                       *)
EXTENDS ShellPaths

(* Distances beyond the range of 10 are links that are down.               *)
Isl(d1, d2) ==
  [l \in Links |-> IF l = {0, 1} THEN d1 ELSE IF l = {2, 3} THEN d2 ELSE 4]
Up(u1, u2) ==
  [gst \in Gsts |-> [s \in Sats |->
     IF gst = 4 /\ s = 0 THEN u1 ELSE IF gst = 4 /\ s = 1 THEN 8
     ELSE IF gst = 5 /\ s = 3 THEN u2 ELSE IF gst = 5 /\ s = 1 THEN 9 ELSE 11]]
Grounded == {[isl |-> Isl(d1, d2), up |-> Up(u1, 8),
              inBox |-> IF u1 = 7 THEN {0, 1} ELSE IF d2 = 4 THEN {1, 2} ELSE {3}] :
               d1 \in {4, 5, 6, 11}, d2 \in {4, 11}, u1 \in {7, 11}}
GroundBandwidth == [gst \in Gsts |-> 2]
GroundRange == [gst \in Gsts |-> IF gst = 4 THEN 8 ELSE 10]

(* Links across planes are up or down, and all links are equally long.     *)
Crossing == {[isl |-> [l \in Links |-> IF l \in InPlane \union up THEN 6 ELSE 11],
              up |-> << >>, inBox |-> {}] : up \in SUBSET CrossPlane}
=============================================================================
