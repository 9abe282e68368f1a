SPECIFICATION Spec
CONSTANTS
  Nothing = Nothing
  Torn = Torn
  Manifest = Manifest
  core = core
  en = en
  Operator = {o1, o2}
  Packager = {o1}
  Build = {b1, b2}
  Artifacts <- MCArtifacts
  Parts <- MCParts
  Size <- MCSize
  Digests = TRUE
  MaxRuns = 2
  MaxFaults = 1
INVARIANTS PackageSound PublishedSound
PROPERTIES FailureRestores
CHECK_DEADLOCK FALSE
