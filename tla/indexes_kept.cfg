\* The kept set after a full build, with no run killed in a build.
SPECIFICATION IndexSpec
CONSTANTS
  u1 = u1
  u2 = u2
  w1 = w1
  w2 = w2
  k1 = k1
  k2 = k2
  c1 = c1
  FullFile <- MCFullFile
  KeptFile <- MCKeptFile
  UnusedFile <- MCUnusedFile
  UnrefFile <- MCUnrefFile
INVARIANT
  SetByConfiguration
