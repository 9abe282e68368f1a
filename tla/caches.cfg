SPECIFICATION RouterSpec
CONSTANTS
  en = en
  de = de
  fr = fr
  cy = cy
  pfr = pfr
  pen = pen
  pde = pde
  Thread = {t1, t2}
  Language = {en, de}
  None = None
  Index <- MCIndex
  LocalSize = 1
  GlobalSize = 1
  PackOf <- MCPackOf
  CorePack = CorePack
  MaxOpenPacks = 3
  FrontierPacks = 2
SYMMETRY MCSymmetry
VIEW MCView
INVARIANTS CachesSound NoClosedUse
CHECK_DEADLOCK FALSE
