SPECIFICATION FairSpec
CONSTANTS
  Nothing = Nothing
  Schema2 = Schema2
  Bad = Bad
  full1 = full1
  english1 = english1
  full2 = full2
  v1 = v1
  v2 = v2
  lexicon = lexicon
  vectors = vectors
  f1 = f1
  e1 = e1
  f2 = f2
  vec = vec
  p1 = p1
  p2 = p2
  Proc = {p1, p2}
  Owner = p1
  Release = {full1, english1, full2}
  Version = {v1, v2}
  VersionOf <- MCVersionOf
  ProfileOf <- MCProfileOf
  Lexicon = lexicon
  Path = {lexicon, vectors}
  Files <- MCFiles
  Sources = {full1, english1, full2}
  MaxFaults = 2
INVARIANTS VersionsSound
PROPERTIES RootMovesSafely RepairHeals
