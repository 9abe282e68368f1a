SPECIFICATION FairSpec
CONSTANTS
  Nothing = Nothing
  Torn = Torn
  c1 = c1
  c2 = c2
  c3 = c3
  v0 = v0
  v1 = v1
  v2 = v2
  Version = {v0, v1, v2}
  Commit = {c1, c2, c3}
  NoticesOf <- MCNoticesOf
  Reason = {r1, r2}
  First = v0
  MaxAmendments = 2
  MaxFaults = 2
  MaxChanges = 1
INVARIANTS AmendmentSound AllOrNothing
PROPERTIES DecisionStands ResolvedOrStranded
