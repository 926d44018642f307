----------------------------- MODULE MCWebAccess -----------------------------
(***************************************************************************)
(* WebAccess with two people, one of whom also uses a token, one code and  *)
(* one link.  Sign-ins never read what the other half keeps, and what they *)
(* leave to it, identities, only grows: taking them first, until everybody *)
(* has one, loses no state of either half.  Apart does that, and Seen      *)
(* forgets how the browsers were signed in once the first administrator    *)
(* acts.  Beside the widget's, sign-ins of one kind are taken at a time:   *)
(* the kinds share nothing but identities and principals.                  *)
(***************************************************************************)
EXTENDS WebAccess

CONSTANTS p1, p2, c1, l1, nobody

MCPerson  == {p1, p2}
MCClients == {p1}
MCCode    == {c1}
MCLink    == {l1}

Started == \/ grants # <<>> \/ turns > 0 \/ now > 0 \/ tokens # {}
           \/ \E p \in Person : call[p] # Nothing

Ready == MCClients \subseteq identity /\ MCPerson \subseteq identity \cup bound

Apart == IF Started
         THEN UNCHANGED <<verify, asked, told, weblink, mycode, held, identity,
                          bound, principals>>
         ELSE UNCHANGED adminVars \/ Ready

OneKind == Cardinality({k \in 1..3 : \/ k = 1 /\ verify[c1] # NoRow
                                     \/ k = 2 /\ weblink[l1].state # "none"
                                     \/ k = 3 /\ issued > 0}) <= 1

MCSpec == AccessInit /\ [][AccessNext /\ Apart /\ OneKind']_accessVars

Seen == <<adminVars, IF Started THEN <<>> ELSE signInVars>>
=============================================================================
