SPECIFICATION ServeSpec
CONSTANTS
  r1 = r1
  r2 = r2
  en = en
  fr = fr
  lexical = lexical
  Core = Core
  dcore = dcore
  den = den
  dfr = dfr
  den2 = den2
  AllLanguages = {every}
  every = every
  SameCapabilities = {same}
  same = same
  Nothing = Nothing
  Release = {r1}
  Language = {en, fr}
  Tag = {en, fr}
  NormalOf <- MCNormalOf
  Capability = {lexical}
  Digest = {dcore, den, dfr}
  Manifest <- ServeManifest
  Proc = {p1, p2}
  Installs <- ServeInstalls
  Amendments <- ServeAmendments
  Upkeep = {"activate", "prune", "forget"}
  MaxDamage = 0
  LexicalCapability = lexical
PROPERTIES CommandsEnd ReaderUndisturbed ServerComesUp
