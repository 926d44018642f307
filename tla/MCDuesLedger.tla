---------------------------- MODULE MCDuesLedger ----------------------------
(* Instance of DuesLedger for TLC: two games, two members, one guest.      *)
EXTENDS DuesLedger

MCGame == {1, 2}
MCUser == {1, 2}
MCProxy == {3}
MCLineups == {{}, {1, 3}}
MCFee == {3}
MCSubsidies == {0, 3}
MCSteps == {2}
MCAmount == {3}
=============================================================================
