-------------------------- MODULE MCRollCallHistory -------------------------
(* Two members and one guest, caps 0 (none) to 2: a demotion of two, a      *)
(* waitlist of two, and a guest ahead of or behind members; positions up to *)
(* 4 let every bucket be left and re-entered behind the others. No          *)
(* definition tells one member from another, and none reads "bumped".      *)
EXTENDS RollCallHistory, TLC

CONSTANTS m1, m2, g1

MCMembers == {m1, m2}
Symmetry == Permutations(MCMembers)
MCGuests  == {g1}
MCLimits  == 0..2

\* The guest has the first name of both members; nobody has a username.
NoUsername == [n \in MCGuests |-> {}]
SameName   == [n \in MCGuests |-> MCMembers]
Rollcall  == << rc, db >>
=============================================================================
