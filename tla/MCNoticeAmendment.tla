--------------------------- MODULE MCNoticeAmendment ---------------------------
(* Two commits with their notices, one of them those of the promoted       *)
(* corpus again, so that an amendment can be taken back by another.        *)
EXTENDS NoticeAmendment

CONSTANTS c1, c2, c3, v0, v1, v2

MCNoticesOf == [c \in Commit |-> CASE c = c1 -> v1 [] c = c2 -> v2 [] c = c3 -> v0]
=============================================================================
