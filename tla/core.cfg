SPECIFICATION Spec
CONSTANTS
  r1 = r1
  r2 = r2
  en = en
  fr = fr
  lexical = lexical
  Core = Core
  dcore = dcore
  den = den
  dfr = dfr
  den2 = den2
  AllLanguages = {every}
  every = every
  SameCapabilities = {same}
  same = same
  Nothing = Nothing
  Release = {r1, r2}
  Language = {en, fr}
  Tag = {en, fr}
  NormalOf <- MCNormalOf
  Capability = {lexical}
  Digest = {dcore, den, dfr, den2}
  Manifest <- MCManifest
  Proc = {p1, p2}
  Installs <- MCInstallsAll
  Amendments <- MCAmendments
  Upkeep = {"activate", "prune", "forget"}
  MaxDamage = 1
SYMMETRY MCSymmetry
INVARIANTS IInv RollbackReady PointerResolves
PROPERTIES PreviousInstallIntact ActivateVerifies PruneExact ImplementsRoot
