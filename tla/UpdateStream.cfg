\* Every file of up to five diffs, in requests of two.
SPECIFICATION Spec
CONSTANTS
  a = a
  b = b
  c = c
  s1 = s1
  s2 = s2
  Nodes <- MCNodes
  Shapes <- MCShapes
  Files <- MCFiles
  Activities <- MCActivities
  MaxDiffs = 2
INVARIANTS
  TypeOK
  DirectionsAgree
  AppliedIsSent
