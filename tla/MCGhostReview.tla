--------------------------- MODULE MCGhostReview ---------------------------
(* One game; a member and a guest, who may have dropped out late.          *)
EXTENDS GhostReview

CONSTANTS g1, m1, x1

MCGame == {g1}
MCMember == {m1}
MCProxy == {x1}
MCLineups == {<<{m1, x1}, {}>>, <<{m1}, {x1}>>}
=============================================================================
