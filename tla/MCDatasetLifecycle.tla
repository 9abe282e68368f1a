-------------------------- MODULE MCDatasetLifecycle --------------------------
(* Instances of DatasetLifecycle for TLC: version v1 in its full and its   *)
(* English edition, and version v2, which shares the vectors of v1.        *)
EXTENDS DatasetLifecycle, TLC

CONSTANTS p1, p2, full1, english1, full2, v1, v2, lexicon, vectors, f1, e1, f2, vec

MCVersionOf == full1 :> v1 @@ english1 :> v1 @@ full2 :> v2
MCProfileOf == full1 :> "full" @@ english1 :> "english" @@ full2 :> "full"
MCFiles ==
  full1    :> (lexicon :> f1 @@ vectors :> vec) @@
  english1 :> (lexicon :> e1 @@ vectors :> Nothing) @@
  full2    :> (lexicon :> f2 @@ vectors :> vec)
=============================================================================
