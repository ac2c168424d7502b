--------------------------- MODULE MCUpdateStream ---------------------------
(* Three machines; files of up to five diffs, cut into requests of two.    *)
EXTENDS UpdateStream, FiniteSets

Seqs == INSTANCE SequencesExt

CONSTANTS a, b, c, s1, s2
MCNodes == {a, b, c}
MCShapes == {s1, s2}
SomeDiffs ==
  {[link |-> <<a, b>>, blocked |-> FALSE, shape |-> s1, next |-> b, prev |-> a],
   [link |-> <<a, b>>, blocked |-> FALSE, shape |-> s2, next |-> c, prev |-> c],
   [link |-> <<a, b>>, blocked |-> TRUE, shape |-> s1, next |-> a, prev |-> b],
   [link |-> <<b, c>>, blocked |-> FALSE, shape |-> s2, next |-> a, prev |-> a]}
MCFiles == Seqs!BoundedSeq(SomeDiffs, 5)
MCActivities == {{}, {a, b}}
=============================================================================
