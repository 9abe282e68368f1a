-------------------------- MODULE MCReleasePublication --------------------------
(* Two artifacts, one of two parts; two builds whose files have one size.  *)
EXTENDS ReleasePublication

CONSTANTS core, en

MCArtifacts == <<core, en>>
MCParts == [a \in {core, en} |-> IF a = core THEN 1 ELSE 2]
MCSize == [c \in Content |-> IF c = Torn THEN 0 ELSE 1]
=============================================================================
