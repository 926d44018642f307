-------------------------- MODULE MCIdentityLinks --------------------------
(* Four spellings: two differ in case, two in blanks, one is only alike.   *)
(* The spelling with two blanks, first in order, turns up late.            *)
EXTENDS Standings

CONSTANTS RajK, rajk, RajKK, Rajk, raj_k, raj__k, raj, u1

MCName == {RajK, rajk, RajKK, Rajk}
MCMember == {u1}
MCLowName == {raj_k, raj__k, raj}
MCLow == [n \in MCName |-> CASE n = RajKK -> raj__k [] n = Rajk -> raj [] OTHER -> raj_k]
MCSquash == [n \in MCName |-> IF n = Rajk THEN raj ELSE raj_k]
MCRank == [n \in MCName |-> CASE n = RajKK -> 1 [] n = RajK -> 2 [] n = Rajk -> 3 [] n = rajk -> 4]
MCLowRank == [l \in MCLowName |-> CASE l = raj__k -> 1 [] l = raj_k -> 2 [] l = raj -> 3]
MCCalled == [m \in MCMember |-> raj]
MCAlike == {p \in MCLowName \X (MCLowName \cup MCMember) : p[1] # p[2]}
MCOpening == [w \in {raj_k, raj, u1} |-> 1]
MCKnown == {RajK, Rajk}
\* One game is over, two more may be played.  A guest plays all three, a
\* member is IN, then OUT while the guest plays, a name turns up in two cases.
MCScript ==
  <<[members |-> [m \in {u1} |-> "in"], guests |-> [n \in {RajK, Rajk} |-> "in"]],
    [members |-> [m \in {u1} |-> "out"], guests |-> [n \in {Rajk} |-> "in"]],
    [members |-> [m \in {u1} |-> "in"], guests |-> [n \in {Rajk, rajk} |-> IF n = rajk THEN "maybe" ELSE "in"]]>>
MCMilestones == {2}
=============================================================================
