-------------------------- MODULE MCRollCallFaults --------------------------
(* A member and a guest share a cap of 1: enough for one to wait, to be      *)
(* promoted, demoted and replaced on the web while any write fails or the    *)
(* process dies.                                                             *)
EXTENDS RollCallFaults

CONSTANTS m1, g1, n1

OneMember == {m1}
MCGuests  == {g1}
OneCap    == 0..1

\* The guest has the first name of the member, whose username is another.
TwoNames    == {g1, n1}
OneUsername == [n \in TwoNames |-> IF n = n1 THEN OneMember ELSE {}]
SameName    == [n \in TwoNames |-> IF n = g1 THEN OneMember ELSE {}]
=============================================================================
