---------------------------- MODULE MCMirrorFetch ----------------------------
EXTENDS MirrorFetch

CONSTANTS r1, r2, a, b, da, da2, db

(* r2 republishes a under the same asset name, with other bytes, and b as  *)
(* it was.                                                                 *)
MCParts == [r \in Release |-> <<a, b>>]
MCDigestOf ==
  [r \in Release |-> [n \in Name |-> IF n = b THEN db ELSE IF r = r1 THEN da ELSE da2]]
=============================================================================
