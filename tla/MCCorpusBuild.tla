----------------------------- MODULE MCCorpusBuild -----------------------------
(* Instances of CorpusBuild for TLC: two lexical stages, the first of      *)
(* which has a second edition, vectors with an edition of another shape,   *)
(* two languages, both profiles, and two versions of the pipeline.         *)
EXTENDS CorpusBuild, TLC

CONSTANTS oewn, cmudict, numberbatch, e1, e2, w1, w2, c1, c2

MCStages == <<oewn, cmudict>>
MCFirst == oewn :> e1 @@ cmudict :> e1 @@ numberbatch :> w1
MCRevised == {[input |-> oewn, edition |-> e1], [input |-> oewn, edition |-> e2],
              [input |-> numberbatch, edition |-> w2]}
(* The editions of a source have as many rows, under either profile; those *)
(* of c2 are one more, so that half of them count as all those of c1.      *)
MCPhysical == [r \in Rows \cup {Nothing} |->
  IF r = Nothing THEN 0
  ELSE 1 + (IF r.profile = "english" THEN 0 ELSE 1) + (IF r.whole THEN 1 ELSE 0)
         + (IF r.of.code = c2 THEN 1 ELSE 0)]
MCLogical == [r \in Rows |-> MCPhysical[r]]
MCShape == e1 :> 0 @@ e2 :> 0 @@ w1 :> 1 @@ w2 :> 2
=============================================================================
