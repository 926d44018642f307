--------------------------- MODULE MCPenaltyPanel ---------------------------
(* One game and one panel, a late tier and a ditch tier; one member, who    *)
(* may have dropped out late, or a game nobody came to.                     *)
EXTENDS PenaltyPanel

CONSTANTS g1, m1, late, ditch, panel1

MCGame == {g1}
MCMember == {m1}
MCProxy == {}
MCLineups == {<<{m1}, {}>>, <<{}, {m1}>>, <<{}, {}>>}
MCTier == {late, ditch}
MCDitch == {ditch}
MCPanel == {panel1}
=============================================================================
