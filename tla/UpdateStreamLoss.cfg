\* Does every diff of a file arrive?
SPECIFICATION Spec
CONSTANTS
  a = a
  b = b
  c = c
  s1 = s1
  s2 = s2
  Nodes <- MCNodes
  Shapes <- MCShapes
  Files <- MCFiles
  Activities <- MCActivities
  MaxDiffs = 2
INVARIANTS
  NoDiffIsLost
