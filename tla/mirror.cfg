SPECIFICATION FairSpec
CONSTANTS
  r1 = r1
  r2 = r2
  a = a
  b = b
  da = da
  da2 = da2
  db = db
  Nothing = Nothing
  DigestOf <- MCDigestOf
  Proc = {p1}
  Release = {r1, r2}
  Name = {a, b}
  Digest = {da, da2, db}
  Inode = {i1, i2, i3, i4, i5, i6}
  Parts <- MCParts
  Sources = {"http", "local"}
  PartSize = 2
  Retries = 3
  MaxFaults = 3
INVARIANTS MirrorSound
PROPERTIES BytesKept ManifestLandsLast FetchCompletesOrFull
