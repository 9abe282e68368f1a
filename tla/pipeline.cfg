SPECIFICATION FairSpec
CONSTANTS
  Nothing = Nothing
  oewn = oewn
  cmudict = cmudict
  numberbatch = numberbatch
  e1 = e1
  e2 = e2
  w1 = w1
  w2 = w2
  c1 = c1
  c2 = c2
  Logical <- MCLogical
  Physical <- MCPhysical
  Language = {en, fr}
  Edition = {e1, e2, w1, w2}
  Shape <- MCShape
  Stages <- MCStages
  Identity = {c1, c2}
  Profile = {"full", "english"}
  Vectors = numberbatch
  FirstInput <- MCFirst
  Revised <- MCRevised
  Retry = "full"
  MaxFaults = 2
  MaxChanges = 2
INVARIANTS BuildSound Promoted
PROPERTIES WorkKept BuildEnds
CHECK_DEADLOCK FALSE
