SPECIFICATION SpecI
CONSTANTS
  r1 = r1
  r2 = r2
  en = en
  fr = fr
  de = de
  EN = EN
  lexical = lexical
  Core = Core
  dcore = dcore
  den = den
  dfr = dfr
  den2 = den2
  dde = dde
  AllLanguages = {every}
  every = every
  SameCapabilities = {same}
  same = same
  Nothing = Nothing
  Release = {r1}
  Language = {en, fr, de}
  Tag = {en, fr, de, EN}
  NormalOf <- MCNormalOf
  Capability = {lexical}
  Digest = {dcore, den, dde}
  Manifest <- IntentManifest
  Proc = {p1, p2}
  Installs <- IntentInstalls
  Amendments <- IntentAmendments
  Upkeep = {"activate", "prune", "forget"}
  MaxDamage = 0
INVARIANTS IntentServed
