---------------------------- MODULE PeopleProofs ----------------------------
(***************************************************************************)
(* Proofs about who people are and how they sign in, for any people,       *)
(* names, games, codes, links and bounds.  IdentityLinks: one verdict per  *)
(* name, and no row that leads past its person.  Standings: the screens    *)
(* show one number for a person.  WebAccess: one code, link and principal  *)
(* stand for one person, the last owner stays, and an administrator's      *)
(* token acts only for somebody entitled of late.                          *)
(***************************************************************************)
EXTENDS Standings, WebAccess, DataLemmas

Linked(l) == link[l] # Unlinked

LinksTyped == /\ link \in [LowName -> Who \cup {Unlinked}]
              /\ known \subseteq Name /\ active \subseteq Member

\* The inductive invariant.
Inv == LinksTyped /\ OneHop

-----------------------------------------------------------------------------
\* A set of names that is not empty has a first one.
LEMMA FirstIsMember ==
  ASSUME NEW S \in SUBSET Name, S # {}
  PROVE  First(S) \in S
<1> DEFINE R == OpToRel(<, Nat)
           T == {Rank[v] : v \in S}
<1>1. IsWellFoundedOn(R, Nat)
  BY NatLessThanWellFounded
<1>2. T \subseteq Nat /\ T # {}
  BY IdentityAssumption
<1>3. PICK x \in T : \A y \in T : ~(<<y, x>> \in R)
  <2> HIDE DEF R, T
  <2> QED  BY <1>1, <1>2, WFMin, Zenon
<1>4. PICK v \in S : Rank[v] = x
  BY <1>3
<1>5. \A u \in S : Rank[v] <= Rank[u]
  <2> SUFFICES ASSUME NEW u \in S PROVE Rank[v] <= Rank[u]
    OBVIOUS
  <2>1. ~(<<Rank[u], Rank[v]>> \in R)
    BY <1>3, <1>4
  <2>2. Rank[u] \in Nat /\ Rank[v] \in Nat
    BY IdentityAssumption
  <2>3. ~(Rank[u] < Rank[v])
    BY <2>1, <2>2 DEF OpToRel
  <2> QED  BY <2>2, <2>3
<1> QED  BY <1>5 DEF First

\* The name that stays when spellings are merged is one of them.
LEMMA HeirIsVariant ==
  ASSUME LinksTyped, NEW n \in known, Variants(n) # {}
  PROVE  Heir(Variants(n)) \in Variants(n)
<1>1. Variants(n) \subseteq Name
  BY DEF Variants, LinksTyped
<1> DEFINE persons == {v \in Variants(n) : Low[v] \in standalone}
<1>2. CASE persons # {}
  <2>1. persons \in SUBSET Name
    BY <1>1
  <2>2. First(persons) \in persons
    BY <1>2, <2>1, FirstIsMember
  <2>3. Heir(Variants(n)) = First(persons)
    BY <1>2 DEF Heir
  <2> QED  BY <2>2, <2>3
<1>3. CASE persons = {}
  <2>1. Heir(Variants(n)) = First(Variants(n))
    BY <1>3 DEF Heir
  <2> QED  BY <1>1, <2>1, FirstIsMember
<1> QED  BY <1>2, <1>3

\* A row of the automatic merge leads from a name without a link to another.
LEMMA AutoMergedRows ==
  ASSUME LinksTyped, NEW l \in LowName, AutoMerged[l] # link[l]
  PROVE  /\ AutoMerged[l] \in LowName
         /\ ~Linked(AutoMerged[l])
         /\ l \in {Low[n] : n \in Duplicates}
<1>1. \E n \in Duplicates : Low[n] = l
  BY DEF AutoMerged
<1> DEFINE m == CHOOSE n \in Duplicates : Low[n] = l
<1>2. m \in Duplicates /\ Low[m] = l
  BY <1>1
<1>3. AutoMerged[l] = Low[Heir(Variants(m))]
  BY <1>1 DEF AutoMerged
<1>4. m \in known /\ Variants(m) # {}
  BY <1>2 DEF Duplicates
<1> HIDE DEF m
<1>5. Heir(Variants(m)) \in Variants(m)
  BY <1>4, HeirIsVariant
<1>6. Heir(Variants(m)) \in Name /\ ~Linked(Low[Heir(Variants(m))])
  BY <1>5 DEF Variants, LinksTyped, Linked
<1>7. Low[Heir(Variants(m))] \in LowName
  BY <1>6, IdentityAssumption
<1> QED  BY <1>1, <1>3, <1>6, <1>7

-----------------------------------------------------------------------------
\* The links start out absent.
LEMMA InitInv == Init => Inv
<1> SUFFICES ASSUME Init PROVE Inv
  OBVIOUS
<1>1. LinksTyped
  BY IdentityAssumption DEF Init, LinksTyped
<1>2. OneHop
  BY IdentityAssumption DEF Init, OneHop, Who
<1> QED  BY <1>1, <1>2 DEF Inv

\* Merging writes the flattened target and moves what pointed at the name.
LEMMA LinkInv ==
  ASSUME Inv, NEW a \in LowName, NEW t \in Who, Link(a, t)
  PROVE  Inv'
<1> DEFINE f == Flattened(t)
<1>1. /\ f # a /\ link' = Merged(a, f) /\ auto' = auto \ {a} /\ UNCHANGED people
  BY DEF Link
<1>2. f \in Who
  BY DEF Flattened, Canonical, Inv, LinksTyped, Who
<1>3. \A l \in LowName :
        link'[l] = IF l = a \/ link[l] = a THEN f ELSE link[l]
  BY <1>1 DEF Merged, Repointed, Upserted, Inv, LinksTyped
<1>4. LinksTyped'
  <2>1. link' \in [LowName -> Who \cup {Unlinked}]
    BY <1>1, <1>2 DEF Merged, Repointed, Upserted, Inv, LinksTyped
  <2> QED  BY <1>1, <2>1 DEF Inv, LinksTyped, people
<1>5. f \in LowName /\ Linked(f) => f \in auto
  <2>1. CASE t \in Member
    BY <2>1, IdentityAssumption DEF Flattened, Canonical
  <2>2. CASE t \in LowName /\ link[t] = Unlinked
    BY <2>2, IdentityAssumption DEF Flattened, Canonical, Linked
  <2>3. CASE t \in LowName /\ link[t] # Unlinked
    <3>1. f = link[t]
      BY <2>3, IdentityAssumption DEF Flattened, Canonical
    <3> QED  BY <2>3, <3>1 DEF Inv, OneHop, Linked
  <2> QED  BY <2>1, <2>2, <2>3 DEF Who
<1>6. OneHop'
  <2> SUFFICES ASSUME NEW l \in LowName, link'[l] \in LowName,
                      link'[link'[l]] # Unlinked
               PROVE  link'[l] \in auto'
    BY DEF OneHop
  <2>1. link'[l] # a
    BY <1>1, <1>3
  <2>2. link[link'[l]] # Unlinked
    BY <1>3, <2>1, IdentityAssumption DEF Who
  <2>3. CASE link'[l] = f
    BY <1>1, <1>5, <2>1, <2>2, <2>3 DEF Linked
  <2>4. CASE link'[l] = link[l]
    BY <1>1, <2>1, <2>2, <2>4 DEF Inv, OneHop
  <2> QED  BY <1>3, <2>3, <2>4
<1> QED  BY <1>4, <1>6 DEF Inv

\* Undoing a merge removes one row.
LEMMA UnmergeInv ==
  ASSUME Inv, NEW a \in LowName, Unmerge(a)
  PROVE  Inv'
<1>1. /\ link' = [link EXCEPT ![a] = Unlinked]
      /\ auto' = auto \ {a} /\ UNCHANGED people
  BY DEF Unmerge, Deleted
<1>2. LinksTyped'
  BY <1>1 DEF Inv, LinksTyped, people
<1>3. OneHop'
  <2> SUFFICES ASSUME NEW l \in LowName, link'[l] \in LowName,
                      link'[link'[l]] # Unlinked
               PROVE  link'[l] \in auto'
    BY DEF OneHop
  <2>1. l # a /\ link'[l] = link[l]
    BY <1>1, IdentityAssumption DEF Inv, LinksTyped, Who
  <2>2. link[l] # a /\ link[link[l]] # Unlinked
    BY <1>1, <2>1 DEF Inv, LinksTyped, people
  <2> QED  BY <1>1, <2>1, <2>2 DEF Inv, OneHop
<1> QED  BY <1>2, <1>3 DEF Inv

\* The automatic merge links names that had no link, under its own name.
LEMMA ListInv ==
  ASSUME Inv, ListIdentities
  PROVE  Inv'
<1>1. /\ link' = AutoMerged /\ UNCHANGED people
      /\ auto' = auto \cup {Low[n] : n \in Duplicates}
  BY DEF ListIdentities
<1>2. AutoMerged = [l \in LowName |-> AutoMerged[l]]
  BY DEF AutoMerged
<1>3. \A l \in LowName : AutoMerged[l] \in Who \cup {Unlinked}
  BY AutoMergedRows DEF Inv, LinksTyped, Who
<1>4. LinksTyped'
  <2>1. link' \in [LowName -> Who \cup {Unlinked}]
    BY <1>1, <1>2, <1>3
  <2> QED  BY <1>1, <2>1 DEF Inv, LinksTyped, people
<1>5. OneHop'
  <2> SUFFICES ASSUME NEW l \in LowName, link'[l] \in LowName,
                      link'[link'[l]] # Unlinked
               PROVE  link'[l] \in auto'
    BY DEF OneHop
  <2> DEFINE t == link'[l]
  <2>1. CASE AutoMerged[t] # link[t]
    BY <1>1, <2>1, AutoMergedRows DEF Inv
  <2>2. CASE AutoMerged[t] = link[t] /\ AutoMerged[l] = link[l]
    BY <1>1, <2>2 DEF Inv, OneHop
  <2>3. CASE AutoMerged[t] = link[t] /\ AutoMerged[l] # link[l]
    BY <1>1, <2>3, AutoMergedRows DEF Inv, Linked
  <2> QED  BY <2>1, <2>2, <2>3
<1> QED  BY <1>4, <1>5 DEF Inv

\* What does not write links keeps them; new names are names.
LEMMA OtherInv ==
  ASSUME Inv, UNCHANGED links, known' \subseteq Name, active' \subseteq Member
  PROVE  Inv'
BY DEF Inv, LinksTyped, OneHop, links

\* Every step keeps the invariant.
LEMMA NextInv == Inv /\ [Next]_vars => Inv'
<1> SUFFICES ASSUME Inv, [Next]_vars PROVE Inv'
  OBVIOUS
<1>0. known \subseteq Name /\ active \subseteq Member
  BY DEF Inv, LinksTyped
<1>1. CASE ListIdentities
  BY <1>1, ListInv
<1>2. CASE \E a \in LowName, t \in Who : Link(a, t)
  BY <1>2, LinkInv
<1>3. CASE \E a \in LowName, w \in Who : Dismiss(a, w)
  BY <1>0, <1>3, OtherInv DEF Dismiss, people, links
<1>4. CASE \E a \in LowName : Unmerge(a)
  BY <1>4, UnmergeInv
<1>5. CASE \E a \in LowName : \/ Discard(a) \/ Undiscard(a)
                              \/ MarkStandalone(a) \/ UnmarkStandalone(a)
  BY <1>0, <1>5, OtherInv
     DEF Discard, Undiscard, MarkStandalone, UnmarkStandalone, people, links
<1>6. CASE \E a \in LowName : MarkPaid(a)
  <2>1. UNCHANGED <<links, people>>
    BY <1>6 DEF MarkPaid
  <2> QED  BY <1>0, <2>1, OtherInv DEF people
<1>7. CASE \E n \in Name : GuestPlays(n)
  <2>1. UNCHANGED <<links, active>> /\ known' \subseteq Name
    BY <1>0, <1>7 DEF GuestPlays
  <2> QED  BY <1>0, <2>1, OtherInv
<1>8. CASE \E m \in Member : MemberLeaves(m) \/ MemberVotes(m)
  BY <1>0, <1>8, OtherInv DEF MemberLeaves, MemberVotes
<1>9. CASE UNCHANGED vars
  BY <1>0, <1>9, OtherInv DEF vars, people
<1> QED  BY <1>1, <1>2, <1>3, <1>4, <1>5, <1>6, <1>7, <1>8, <1>9 DEF Next

LEMMA ListsFacts ==
  ASSUME NEW S, NEW v \in Lists(S)
  PROVE  DOMAIN v \subseteq S /\ \A x \in DOMAIN v : v[x] \in {"in", "out", "maybe"}
<1>1. PICK D \in SUBSET S : v \in [D -> {"in", "out", "maybe"}]
  BY DEF Lists
<1> QED  BY <1>1

LEMMA ScriptRows ==
  ASSUME NEW n \in DOMAIN Script
  PROVE  Script[n].members \in Lists(Member) /\ Script[n].guests \in Lists(Name)
<1>1. PICK R : R = [members : Lists(Member), guests : Lists(Name)]
  OBVIOUS
<1>2. Script \in Seq(R)
  BY <1>1, StandingsAssumption
<1>3. Script[n] \in R
  BY <1>2
<1> QED  BY <1>1, <1>3

\* What the games and their review add keeps links, verdicts and entries.
LEMMA BoardStep ==
  ASSUME [StandingsNext]_boards, ~[Next]_vars, known \subseteq Name, active \subseteq Member
  PROVE  /\ UNCHANGED <<links, verdicts, dismissed, ledger>>
         /\ known \subseteq known' /\ known' \subseteq Name /\ active' \subseteq Member
<1>1. CASE \E cancelled \in BOOLEAN, s \in Spelled : GameEnds(cancelled, s)
  <2>1. PICK cancelled \in BOOLEAN, s \in Spelled : GameEnds(cancelled, s)
    BY <1>1
  <2>2. \E n \in DOMAIN Script : /\ known' = known \cup DOMAIN Script[n].guests
                                 /\ active' = active \cup DOMAIN Script[n].members
    <3>1. Len(games) + 1 \in DOMAIN Script
      BY <2>1, StandingsAssumption DEF GameEnds
    <3> QED  BY <2>1, <3>1 DEF GameEnds
  <2>3. \A n \in DOMAIN Script : DOMAIN Script[n].guests \subseteq Name
                                 /\ DOMAIN Script[n].members \subseteq Member
    BY ScriptRows, ListsFacts
  <2>4. UNCHANGED <<links, verdicts, dismissed, ledger>>
    BY <2>1 DEF GameEnds
  <2> QED  BY <2>2, <2>3, <2>4
<1>2. CASE \E g \in Ended, w \in Who : MarkNoShow(g, w)
  BY <1>2 DEF MarkNoShow, people
<1>3. UNCHANGED boards => [Next]_vars
  BY DEF boards
<1> QED  BY <1>1, <1>2, <1>3 DEF StandingsNext

LEMMA BoardsKeepInv == Inv /\ [StandingsNext]_boards => Inv'
<1> SUFFICES ASSUME Inv, [StandingsNext]_boards PROVE Inv'
  OBVIOUS
<1>1. CASE [Next]_vars
  BY <1>1, NextInv
<1>2. CASE ~[Next]_vars
  BY <1>2, BoardStep, OtherInv DEF Inv, LinksTyped
<1> QED  BY <1>1, <1>2

-----------------------------------------------------------------------------
\* However the merges came, a second hop only leads through a row of the
\* automatic merge (link_identities, merge_identity_link,
\* _auto_merge_exact_duplicates).
THEOREM OneHopHolds == StandingsSpec => []OneHop
<1>1. Inv => OneHop
  BY DEF Inv
<1> QED  BY <1>1, InitInv, BoardsKeepInv, PTL DEF StandingsSpec, StandingsInit

\* What a merge did reaches everybody who was read as the name: the links that
\* led there lead on to its new person (merge_identity_link).
THEOREM MergesCarryAll == StandingsSpec => MergeCarriesAll
<1> DEFINE Step == \A a \in LowName \ auto' :
                     link'[a] \notin {link[a], Unlinked}
                     => \A l \in LowName : Canonical(l) = a => (Canonical(l))' = link'[a]
<1>1. Inv /\ [Next]_vars => [Step]_links
  <2> SUFFICES ASSUME Inv, [Next]_vars, links' # links,
                      NEW a \in LowName \ auto', link'[a] \notin {link[a], Unlinked},
                      NEW l \in LowName, Canonical(l) = a
               PROVE  (Canonical(l))' = link'[a]
    OBVIOUS
  <2>1. l \notin Member /\ (l = a \/ link[l] = a)
    BY IdentityAssumption DEF Canonical
  <2>2. CASE \E b \in LowName, t \in Who : Link(b, t)
    <3>1. PICK b \in LowName, t \in Who : Link(b, t)
      BY <2>2
    <3>2. /\ Flattened(t) # b /\ link' = Merged(b, Flattened(t))
          /\ auto' = auto \ {b}
      BY <3>1 DEF Link
    <3>3. \A k \in LowName :
            link'[k] = IF k = b \/ link[k] = b THEN Flattened(t) ELSE link[k]
      BY <3>2 DEF Merged, Repointed, Upserted, Inv, LinksTyped
    <3>4. CASE a = b
      <4>1. link'[l] = Flattened(t) /\ link'[a] = Flattened(t)
        BY <2>1, <3>3, <3>4
      <4> QED  BY <2>1, <4>1 DEF Canonical
    <3>5. CASE a # b
      <4>1. link[a] = b
        BY <3>3, <3>5
      <4>2. a \notin auto /\ link[a] # Unlinked
        BY <3>2, <3>5, <4>1, IdentityAssumption DEF Who
      <4>3. l = a
        BY <2>1, <4>2 DEF Inv, OneHop
      <4> QED  BY <2>1, <4>3 DEF Canonical
    <3> QED  BY <3>4, <3>5
  <2>3. CASE ListIdentities
    <3>1. link' = AutoMerged /\ auto' = auto \cup {Low[n] : n \in Duplicates}
      BY <2>3 DEF ListIdentities
    <3> QED  BY <3>1, AutoMergedRows DEF Inv
  <2>4. CASE \E b \in LowName : Unmerge(b)
    <3>1. PICK b \in LowName : link' = [link EXCEPT ![b] = Unlinked]
      BY <2>4 DEF Unmerge, Deleted
    <3> QED  BY <3>1 DEF Inv, LinksTyped
  <2> QED  BY <2>2, <2>3, <2>4 DEF Next, vars, Dismiss, Discard, Undiscard,
              MarkStandalone, UnmarkStandalone, MarkPaid, GuestPlays, MemberLeaves,
              MemberVotes
<1>2. Inv /\ [StandingsNext]_boards => [Step]_links
  BY <1>1, BoardStep DEF Inv, LinksTyped
<1>3. StandingsSpec => [][Step]_links
  BY <1>2, InitInv, BoardsKeepInv, PTL DEF StandingsSpec, StandingsInit
<1> QED  BY <1>3 DEF MergeCarriesAll

\* A payment typed against any name is written under its person, never under a
\* name somebody merged away (_canonicalize_member).
THEOREM PaymentsReachThePerson == StandingsSpec => PaidToThePerson
<1> DEFINE Step == \A w \in Who \ auto : (Owed(w))' # Owed(w) => Canonical(w) = w
<1>1. Inv /\ [Next]_vars => [Step]_ledger
  <2> SUFFICES ASSUME Inv, [Next]_vars, ledger' # ledger,
                      NEW w \in Who \ auto, (Owed(w))' # Owed(w)
               PROVE  Canonical(w) = w
    OBVIOUS
  <2>1. \E a \in LowName : MarkPaid(a)
    BY DEF Next, vars, ListIdentities, Link, Dismiss, Unmerge, Discard, Undiscard,
           MarkStandalone, UnmarkStandalone, GuestPlays, MemberLeaves, MemberVotes
  <2>2. PICK a \in LowName : MarkPaid(a)
    BY <2>1
  <2>3. PICK v \in Meant(a) :
          ledger' = [p \in DOMAIN ledger \cup {Canonical(v)} |->
                       IF p = Canonical(v) THEN Owed(p) - DuesBalance(Canonical(v))
                       ELSE ledger[p]]
    BY <2>2 DEF MarkPaid, CanonicalMember
  <2>5. w = Canonical(v)
    BY <2>3 DEF Owed
  <2>6. v \in Who
    BY DEF Meant, Who, Inv, LinksTyped
  <2>7. CASE v \in Member \/ link[v] = Unlinked
    BY <2>5, <2>7 DEF Canonical
  <2>8. CASE v \in LowName /\ link[v] # Unlinked
    <3>1. w = link[v]
      BY <2>5, <2>8, IdentityAssumption DEF Canonical
    <3>2. w \in LowName => link[w] = Unlinked
      BY <2>8, <3>1 DEF Inv, OneHop
    <3> QED  BY <3>2 DEF Canonical, Who
  <2> QED  BY <2>6, <2>7, <2>8 DEF Who
<1>2. Inv /\ [StandingsNext]_boards => [Step]_ledger
  BY <1>1, BoardStep DEF Inv, LinksTyped
<1>3. StandingsSpec => [][Step]_ledger
  BY <1>2, InitInv, BoardsKeepInv, PTL DEF StandingsSpec, StandingsInit
<1> QED  BY <1>3 DEF PaidToThePerson

\* The verdict that goes is removed before the other is written.
LEMMA VerdictStep == OneVerdict /\ [Next]_vars => OneVerdict'
<1> SUFFICES ASSUME OneVerdict, [Next]_vars PROVE OneVerdict'
  OBVIOUS
<1>1. CASE UNCHANGED verdicts
  BY <1>1 DEF OneVerdict, verdicts
<1>2. CASE \E a \in LowName, t \in Who : Link(a, t)
  BY <1>2 DEF Link, Removed, OneVerdict
<1>3. CASE \E a \in LowName : \/ Discard(a) \/ Undiscard(a)
                              \/ MarkStandalone(a) \/ UnmarkStandalone(a)
  BY <1>3 DEF Discard, Undiscard, MarkStandalone, UnmarkStandalone, Added,
      Removed,
      OneVerdict
<1> QED  BY <1>1, <1>2, <1>3 DEF Next, vars, ListIdentities, Dismiss, Unmerge,
            MarkPaid, GuestPlays, MemberLeaves,
            MemberVotes

\* No name is discarded and standalone at once: the verdict that goes is
\* removed before the other is written (discard_identity, mark_standalone).
THEOREM OneVerdictHolds == StandingsSpec => []OneVerdict
<1>1. Init => OneVerdict
  BY DEF Init, OneVerdict
<1>2. Inv /\ OneVerdict /\ [StandingsNext]_boards => OneVerdict'
  BY VerdictStep, BoardStep DEF Inv, LinksTyped, OneVerdict, verdicts
<1> QED  BY <1>1, <1>2, InitInv, BoardsKeepInv, PTL DEF StandingsSpec, StandingsInit

LEMMA TypeInit == Init => IdentityTypeOK
<1> SUFFICES ASSUME Init PROVE IdentityTypeOK
  OBVIOUS
<1>1. link \in [LowName -> Who \cup {Unlinked}] /\ auto = {}
  BY DEF Init
<1> QED  BY <1>1, IdentityAssumption DEF Init, IdentityTypeOK

\* What a step on the merge page leaves is a row about names and members.
LEMMA TypeStep == Inv /\ Inv' /\ IdentityTypeOK /\ [Next]_vars => IdentityTypeOK'
<1> SUFFICES ASSUME Inv, Inv', IdentityTypeOK, [Next]_vars PROVE IdentityTypeOK'
  OBVIOUS
<1> DEFINE Rest == /\ discarded' \subseteq LowName /\ standalone' \subseteq LowName
                   /\ dismissed' \subseteq LowName \X Who
                   /\ DOMAIN Opening \subseteq DOMAIN ledger'
                   /\ DOMAIN ledger' \subseteq Who
           Marked == auto' \subseteq {l \in LowName : link'[l] # Unlinked}
<1>1. Inv' /\ Rest /\ Marked => IdentityTypeOK'
  BY DEF Inv, LinksTyped, IdentityTypeOK
<1>2. CASE \E a \in LowName, t \in Who : Link(a, t)
  <2>1. PICK a \in LowName, t \in Who : Link(a, t)
    BY <1>2
  <2>2. /\ link' = Merged(a, Flattened(t)) /\ auto' = auto \ {a}
        /\ standalone' \subseteq standalone
        /\ UNCHANGED <<discarded, dismissed, ledger>>
    BY <2>1 DEF Link, Removed
  <2>3. Flattened(t) # Unlinked
    BY IdentityAssumption DEF Flattened, Canonical, Who
  <2>4. \A l \in LowName : link[l] # Unlinked => link'[l] # Unlinked
    BY <2>2, <2>3 DEF Merged, Repointed, Upserted, IdentityTypeOK
  <2>5. Marked
    BY <2>2, <2>4 DEF IdentityTypeOK
  <2>6. Rest
    BY <2>2 DEF IdentityTypeOK
  <2> QED  BY <1>1, <2>5, <2>6
<1>3. CASE ListIdentities
  <2>1. /\ link' = AutoMerged /\ auto' = auto \cup {Low[n] : n \in Duplicates}
        /\ UNCHANGED <<verdicts, dismissed, ledger>>
    BY <1>3 DEF ListIdentities
  <2>2. \A n \in Duplicates : Low[n] \in LowName
    BY IdentityAssumption DEF Duplicates, IdentityTypeOK
  <2>3. \A l \in LowName : link[l] # Unlinked => link'[l] # Unlinked
    BY <2>1, AutoMergedRows, IdentityAssumption DEF Inv, Who
  <2>4. \A n \in Duplicates : link'[Low[n]] # Unlinked
    <3> SUFFICES ASSUME NEW n \in Duplicates PROVE link'[Low[n]] # Unlinked
      OBVIOUS
    <3>1. \E d \in Duplicates : Low[d] = Low[n]
      OBVIOUS
    <3> DEFINE m == CHOOSE d \in Duplicates : Low[d] = Low[n]
    <3>2. m \in Duplicates
      BY <3>1
    <3>3. AutoMerged[Low[n]] = Low[Heir(Variants(m))]
      BY <2>2, <3>1 DEF AutoMerged
    <3> HIDE DEF m
    <3>4. m \in known /\ Variants(m) # {}
      BY <3>2 DEF Duplicates
    <3>5. Heir(Variants(m)) \in Name
      BY <3>4, HeirIsVariant DEF Inv, LinksTyped, Variants
    <3>6. Low[Heir(Variants(m))] \in LowName
      BY <3>5, IdentityAssumption
    <3> QED  BY <2>1, <3>3, <3>6, IdentityAssumption DEF Who
  <2>5. Marked
    BY <2>1, <2>2, <2>3, <2>4 DEF IdentityTypeOK
  <2>6. Rest
    BY <2>1 DEF IdentityTypeOK, verdicts
  <2> QED  BY <1>1, <2>5, <2>6
<1>4. CASE \E a \in LowName : Unmerge(a)
  <2>1. PICK a \in LowName : /\ link' = [link EXCEPT ![a] = Unlinked]
                            /\ auto' = auto \ {a}
                            /\ UNCHANGED <<verdicts, dismissed, ledger>>
    BY <1>4 DEF Unmerge, Deleted
  <2>2. Marked
    BY <2>1 DEF IdentityTypeOK
  <2> QED  BY <1>1, <2>1, <2>2 DEF IdentityTypeOK, verdicts
<1>5. CASE UNCHANGED links /\ Rest
  BY <1>1, <1>5 DEF IdentityTypeOK, links
<1>6. CASE \E a \in LowName, w \in Who : Dismiss(a, w)
  <2>1. UNCHANGED links /\ Rest
    BY <1>6 DEF Dismiss, links, verdicts, IdentityTypeOK
  <2> QED  BY <1>5, <2>1
<1>7. CASE \E a \in LowName : \/ Discard(a) \/ Undiscard(a)
                              \/ MarkStandalone(a) \/ UnmarkStandalone(a)
  <2>1. UNCHANGED links /\ Rest
    BY <1>7 DEF Discard, Undiscard, MarkStandalone, UnmarkStandalone, Added,
      Removed,
                links, IdentityTypeOK
  <2> QED  BY <1>5, <2>1
<1>8. CASE \E a \in LowName : MarkPaid(a)
  <2>1. PICK a \in LowName : MarkPaid(a)
    BY <1>8
  <2>2. PICK v \in Meant(a) : DOMAIN ledger' = DOMAIN ledger \cup {Canonical(v)}
    BY <2>1 DEF MarkPaid, CanonicalMember
  <2>3. v \in Who
    BY DEF Meant, Who, Inv, LinksTyped
  <2>4. Canonical(v) \in Who
    BY <2>3 DEF Canonical, Who, IdentityTypeOK
  <2>5. UNCHANGED <<links, verdicts, dismissed>>
    BY <2>1 DEF MarkPaid
  <2>6. Rest
    BY <2>2, <2>4, <2>5 DEF IdentityTypeOK, verdicts
  <2> QED  BY <1>5, <2>5, <2>6
<1>9. CASE UNCHANGED <<links, verdicts, dismissed, ledger>>
  BY <1>5, <1>9 DEF IdentityTypeOK, verdicts
<1> QED  BY <1>2, <1>3, <1>4, <1>6, <1>7, <1>8, <1>9
         DEF Next, vars, GuestPlays, MemberLeaves, MemberVotes

\* Type correctness: links lead to names and members, verdicts and dismissals
\* are about names, and entries stay with whom they were written for.
THEOREM IdentityTypeCorrect == StandingsSpec => []IdentityTypeOK
<1>1. Inv /\ Inv' /\ IdentityTypeOK /\ [StandingsNext]_boards => IdentityTypeOK'
  BY TypeStep, BoardStep DEF Inv, LinksTyped, IdentityTypeOK, links, verdicts
<1> QED  BY <1>1, TypeInit, InitInv, BoardsKeepInv, PTL DEF StandingsSpec, StandingsInit

-----------------------------------------------------------------------------
(***************************************************************************)
(* The screens that show attendance.  Each is a count of rows of the games *)
(* that ended, by person, by name or by game; so they are compared as sets *)
(* of rows, a pair of a game and who played it.                            *)
(***************************************************************************)
GamesTyped ==
  /\ games \in Seq([members : Lists(Member), guests : Lists(Name), cancelled : BOOLEAN])
  /\ \A g \in Ended : DOMAIN games[g].guests \subseteq known

MemberRows(w) == {p \in w \X Member : Completed(p[1]) /\ UserPlayed(p[1], p[2])}
GuestRows(w) == {p \in w \X Name : Completed(p[1]) /\ ProxyPlayed(p[1], p[2])}

\* The rows a person is credited with.
Own(w, c) == {p \in MemberRows(w) : p[2] = c}
Folded(w, c) == {p \in GuestRows(w) : Canonical(Low[p[2]]) = c}

LEMMA EndedFacts ==
  ASSUME GamesTyped
  PROVE  /\ Len(games) \in Nat /\ Ended = 1..Len(games) /\ IsFiniteSet(Ended)
         /\ \A g \in Ended : /\ games[g].members \in Lists(Member)
                             /\ games[g].guests \in Lists(Name)
<1>1. PICK R : R = [members : Lists(Member), guests : Lists(Name), cancelled : BOOLEAN]
  OBVIOUS
<1>2. games \in Seq(R)
  BY <1>1 DEF GamesTyped
<1>3. Len(games) \in Nat /\ Ended = 1..Len(games) /\ \A g \in Ended : games[g] \in R
  BY <1>2 DEF Ended
<1>4. IsFiniteSet(1..Len(games))
  BY <1>3, FS_Interval
<1>5. \A r \in R : r.members \in Lists(Member) /\ r.guests \in Lists(Name)
  BY <1>1
<1> QED  BY <1>3, <1>4, <1>5

LEMMA PlayedFacts ==
  ASSUME GamesTyped, NEW g \in Ended
  PROVE  /\ \A m : UserPlayed(g, m) => m \in Member /\ m \in DOMAIN games[g].members
         /\ \A n : ProxyPlayed(g, n) => n \in Name /\ n \in DOMAIN games[g].guests
<1>1. games[g].members \in Lists(Member) /\ games[g].guests \in Lists(Name)
  BY EndedFacts
<1>2. DOMAIN games[g].members \subseteq Member /\ DOMAIN games[g].guests \subseteq Name
  BY <1>1, ListsFacts
<1> QED  BY <1>2 DEF UserPlayed, ProxyPlayed

LEMMA FiniteNames == IsFiniteSet(Name) /\ IsFiniteSet(Member) /\ IsFiniteSet(LowName)
BY IdentityAssumption, FS_Subset DEF Who

LEMMA RowsFinite ==
  ASSUME GamesTyped, NEW w \in SUBSET Ended
  PROVE  /\ IsFiniteSet(w) /\ IsFiniteSet(MemberRows(w)) /\ IsFiniteSet(GuestRows(w))
<1>1. IsFiniteSet(w)
  BY EndedFacts, FS_Subset
<1>2. IsFiniteSet(w \X Member) /\ IsFiniteSet(w \X Name)
  BY <1>1, FiniteNames, FS_Product
<1>3. MemberRows(w) \in SUBSET (w \X Member) /\ GuestRows(w) \in SUBSET (w \X Name)
  BY DEF MemberRows, GuestRows
<1> QED  BY <1>1, <1>2, <1>3, FS_Subset

\* The games of one, counted as rows; the people of a game.
LEMMA CountColumn ==
  ASSUME NEW S, IsFiniteSet(S), NEW n, NEW T,
         \A p \in T : p = <<p[1], n>> /\ p[1] \in S, \A g \in S : <<g, n>> \in T
  PROVE  Cardinality(S) = Cardinality(T)
<1> DEFINE f == [g \in S |-> <<g, n>>]
<1>1. f \in [S -> T] /\ \A x, y \in S : f[x] = f[y] => x = y
  OBVIOUS
<1>2. \A t \in T : f[t[1]] = t
  OBVIOUS
<1>3. \A t \in T : \E x \in S : f[x] = t
  BY <1>2
<1> HIDE DEF f
<1> QED  BY <1>1, <1>3, CountOneToOne

LEMMA CountRow ==
  ASSUME NEW S, IsFiniteSet(S), NEW g, NEW T,
         \A p \in T : p = <<g, p[2]>> /\ p[2] \in S, \A x \in S : <<g, x>> \in T
  PROVE  Cardinality(S) = Cardinality(T)
<1> DEFINE f == [x \in S |-> <<g, x>>]
<1>1. f \in [S -> T] /\ \A x, y \in S : f[x] = f[y] => x = y
  OBVIOUS
<1>2. \A t \in T : f[t[2]] = t
  OBVIOUS
<1>3. \A t \in T : \E x \in S : f[x] = t
  BY <1>2
<1> HIDE DEF f
<1> QED  BY <1>1, <1>3, CountOneToOne

LEMMA MemberColumn ==
  ASSUME GamesTyped, NEW w \in SUBSET Ended, NEW m \in Member
  PROVE  Cardinality({g \in w : Completed(g) /\ UserPlayed(g, m)}) = Cardinality(Own(w, m))
<1> DEFINE S == {g \in w : Completed(g) /\ UserPlayed(g, m)}
           T == Own(w, m)
<1>1. IsFiniteSet(S)
  BY RowsFinite, FS_Subset
<1>2. \A p \in T : p = <<p[1], m>> /\ p[1] \in S
  BY DEF Own, MemberRows
<1>3. \A g \in S : <<g, m>> \in T
  BY DEF Own, MemberRows
<1> HIDE DEF S, T
<1>4. Cardinality(S) = Cardinality(T)
  BY <1>1, <1>2, <1>3, CountColumn
<1> QED  BY <1>4 DEF S, T

LEMMA GuestColumn ==
  ASSUME GamesTyped, NEW w \in SUBSET Ended, NEW n \in Name
  PROVE  Cardinality({g \in w : Completed(g) /\ ProxyPlayed(g, n)})
           = Cardinality({p \in GuestRows(w) : p[2] = n})
<1> DEFINE S == {g \in w : Completed(g) /\ ProxyPlayed(g, n)}
           T == {p \in GuestRows(w) : p[2] = n}
<1>1. IsFiniteSet(S)
  BY RowsFinite, FS_Subset
<1>2. \A p \in T : p = <<p[1], n>> /\ p[1] \in S
  BY DEF GuestRows
<1>3. \A g \in S : <<g, n>> \in T
  BY DEF GuestRows
<1> HIDE DEF S, T
<1>4. Cardinality(S) = Cardinality(T)
  BY <1>1, <1>2, <1>3, CountColumn
<1> QED  BY <1>4 DEF S, T

\* A sum over names, as the number of their rows.
LEMMA SumOfColumns ==
  ASSUME GamesTyped, NEW w \in SUBSET Ended, NEW N \in SUBSET Name
  PROVE  SumFunction([n \in N |-> Cardinality({g \in w : Completed(g) /\ ProxyPlayed(g, n)})])
           = Cardinality({p \in GuestRows(w) : p[2] \in N})
<1> DEFINE S == {p \in GuestRows(w) : p[2] \in N}
           h == [p \in S |-> p[2]]
           f == [n \in N |-> Cardinality({g \in w : Completed(g) /\ ProxyPlayed(g, n)})]
<1>1. IsFiniteSet(S) /\ IsFiniteSet(N)
  BY RowsFinite, FiniteNames, FS_Subset
<1>2. \A x \in S : h[x] \in N
  OBVIOUS
<1>3. \A n \in N : {x \in S : h[x] = n} = {p \in GuestRows(w) : p[2] = n}
  OBVIOUS
<1>4. \A n \in N : f[n] = Cardinality({x \in S : h[x] = n})
  BY <1>3, GuestColumn
<1>5. f = [n \in N |-> Cardinality({x \in S : h[x] = n})]
  BY <1>4
<1> HIDE DEF S, h, f
<1>6. SumFunction(f) = Cardinality(S)
  BY <1>1, <1>2, <1>5, CountByParts
<1> QED  BY <1>6 DEF f, S

LEMMA CanonicalType ==
  ASSUME IdentityTypeOK, NEW w \in Who
  PROVE  Canonical(w) \in Who
BY DEF IdentityTypeOK, Canonical, Who

\* What the wrap-up card of some games shows for a person.
LEMMA CardRows ==
  ASSUME GamesTyped, NEW w \in SUBSET Ended, NEW c \in Who
  PROVE  /\ AttendanceBetween(w, c) = Cardinality(Own(w, c)) + Cardinality(Folded(w, c))
         /\ IsFiniteSet(Own(w, c)) /\ Cardinality(Own(w, c)) \in Nat
         /\ IsFiniteSet(Folded(w, c)) /\ Cardinality(Folded(w, c)) \in Nat
<1>1. /\ IsFiniteSet(Own(w, c)) /\ Cardinality(Own(w, c)) \in Nat
      /\ IsFiniteSet(Folded(w, c)) /\ Cardinality(Folded(w, c)) \in Nat
  BY RowsFinite, FS_Subset, FS_CardinalityType DEF Own, Folded
<1> DEFINE guests == SumFunction([n \in Spellings(c) |->
                       Cardinality({g \in w : Completed(g) /\ ProxyPlayed(g, n)})])
<1>2. guests = Cardinality({p \in GuestRows(w) : p[2] \in Spellings(c)})
  BY SumOfColumns DEF Spellings
<1>3. {p \in GuestRows(w) : p[2] \in Spellings(c)} = Folded(w, c)
  BY DEF Spellings, Folded, GuestRows
<1>4. AttendanceBetween(w, c) =
        (IF c \in Member THEN Cardinality({g \in w : Completed(g) /\ UserPlayed(g, c)}) ELSE 0) + guests
  BY DEF AttendanceBetween
<1> HIDE DEF guests
<1>5. CASE c \in Member
  <2>1. Cardinality({g \in w : Completed(g) /\ UserPlayed(g, c)}) = Cardinality(Own(w, c))
    BY <1>5, MemberColumn
  <2>2. AttendanceBetween(w, c) = Cardinality({g \in w : Completed(g) /\ UserPlayed(g, c)}) + guests
    BY <1>4, <1>5
  <2> QED  BY <1>1, <1>2, <1>3, <2>1, <2>2
<1>6. CASE c \notin Member
  <2>1. Own(w, c) = {}
    BY <1>6 DEF Own, MemberRows
  <2>2. Cardinality(Own(w, c)) = 0
    BY <2>1, FS_EmptySet
  <2>3. AttendanceBetween(w, c) = 0 + guests
    BY <1>4, <1>6
  <2> QED  BY <1>1, <1>2, <1>3, <2>2, <2>3
<1> QED  BY <1>1, <1>5, <1>6

\* The leaderboard is the card of all games.
LEMMA BoardIsCard ==
  ASSUME NEW c \in Who
  PROVE  Attended(c) = AttendanceBetween(Ended, c)
BY DEF Attended, AttendanceBetween, UserAttendance, ProxyAttendance

LEMMA NamesLow == \A n \in Name : Low[n] \in LowName /\ Low[n] \notin Member
BY IdentityAssumption

\* The names read as a person who is nobody's alias: its own and those merged
\* into it.
LEMMA WhoIsRead ==
  ASSUME IdentityTypeOK, NEW c \in Who, IsPerson(c), c \notin LinksTo(c), NEW l \in LowName
  PROVE  Canonical(l) = c <=> l \in LinksTo(c) \/ l = c
<1>1. l \notin Member /\ Unlinked # c
  BY IdentityAssumption
<1>2. CASE l = c
  BY <1>2 DEF IsPerson
<1>3. CASE l # c
  BY <1>1, <1>3 DEF Canonical, LinksTo
<1> QED  BY <1>2, <1>3

\* The profile, which reads each name in one spelling.
LEMMA ProfileAttended ==
  ASSUME IdentityTypeOK, GamesTyped, NEW c \in Who, IsPerson(c), OneSpelling(c), NEW s \in Spelled
  PROVE  (IF c \in Member THEN UserAttendance(c) ELSE ProxyAttendance(s[c]))
           + SumFunction([l \in LinksTo(c) |-> ProxyAttendance(s[l])]) = Attended(c)
<1> DEFINE A == LinksTo(c)
           S == {p \in GuestRows(Ended) : Low[p[2]] \in A}
           T == {p \in GuestRows(Ended) : Low[p[2]] = c}
           h == [p \in S |-> Low[p[2]]]
           f == [l \in A |-> ProxyAttendance(s[l])]
<1>0. /\ c \notin A /\ A \subseteq LowName /\ IsFiniteSet(A)
      /\ \A m, n \in Spellings(c) : Low[m] = Low[n] => m = n
      /\ \A l \in LowName : s[l] \in Name /\ Low[s[l]] = l
  BY FiniteNames, FS_Subset DEF OneSpelling, LinksTo, Spelled
<1>1. IsFiniteSet(GuestRows(Ended)) /\ IsFiniteSet(S) /\ IsFiniteSet(T) /\ S \cap T = {}
  BY <1>0, RowsFinite, FS_Subset
<1>2. \A p \in GuestRows(Ended) : p[2] \in Name /\ Low[p[2]] \in LowName
  BY NamesLow DEF GuestRows
<1>3. \A n \in Name : n \in Spellings(c) <=> Low[n] \in A \/ Low[n] = c
  BY <1>0, NamesLow, WhoIsRead DEF Spellings
<1>4. Folded(Ended, c) = S \cup T
  BY <1>2, <1>3 DEF Folded, Spellings
<1>5. \A l \in LowName : l \in A \/ l = c =>
        {p \in GuestRows(Ended) : Low[p[2]] = l} = {p \in GuestRows(Ended) : p[2] = s[l]}
  BY <1>0, <1>2, <1>3
<1>6. \A n \in Name : ProxyAttendance(n) = Cardinality({p \in GuestRows(Ended) : p[2] = n})
  BY GuestColumn DEF ProxyAttendance
<1>7. SumFunction(f) = Cardinality(S)
  <2>1. \A x \in S : h[x] \in A
    OBVIOUS
  <2>2. \A l \in A : {x \in S : h[x] = l} = {p \in GuestRows(Ended) : p[2] = s[l]}
    <3> SUFFICES ASSUME NEW l \in A
                 PROVE  {x \in S : h[x] = l} = {p \in GuestRows(Ended) : p[2] = s[l]}
      OBVIOUS
    <3>1. {x \in S : h[x] = l} = {p \in GuestRows(Ended) : Low[p[2]] = l}
      OBVIOUS
    <3> QED  BY <1>0, <1>5, <3>1
  <2>3. \A l \in A : f[l] = Cardinality({x \in S : h[x] = l})
    <3> SUFFICES ASSUME NEW l \in A
                 PROVE  f[l] = Cardinality({x \in S : h[x] = l})
      OBVIOUS
    <3>1. s[l] \in Name
      BY <1>0
    <3>2. f[l] = ProxyAttendance(s[l])
      OBVIOUS
    <3>3. ProxyAttendance(s[l]) = Cardinality({p \in GuestRows(Ended) : p[2] = s[l]})
      BY <1>6, <3>1
    <3>4. {x \in S : h[x] = l} = {p \in GuestRows(Ended) : p[2] = s[l]}
      BY <2>2
    <3> HIDE DEF A, S, h, f
    <3> QED  BY <3>2, <3>3, <3>4
  <2>4. f = [l \in A |-> Cardinality({x \in S : h[x] = l})]
    BY <2>3
  <2>5. IsFiniteSet(S) /\ IsFiniteSet(A)
    BY <1>0, <1>1
  <2> HIDE DEF S, A, f, h
  <2> QED  BY <2>1, <2>4, <2>5, CountByParts
<1>8. /\ Attended(c) = Cardinality(Own(Ended, c)) + Cardinality(Folded(Ended, c))
      /\ Cardinality(Own(Ended, c)) \in Nat
  BY CardRows, BoardIsCard
<1> HIDE DEF f
<1>9. CASE c \in Member
  <2>1. T = {}
    BY <1>2, <1>9, NamesLow, IdentityAssumption
  <2>2. UserAttendance(c) = Cardinality(Own(Ended, c))
    BY <1>9, MemberColumn DEF UserAttendance
  <2>3. Folded(Ended, c) = S
    BY <1>4, <2>1
  <2> QED  BY <1>7, <1>8, <1>9, <2>2, <2>3 DEF f
<1>10. CASE c \notin Member
  <2>1. c \in LowName
    BY <1>10 DEF Who
  <2>2. Own(Ended, c) = {}
    BY <1>10 DEF Own, MemberRows
  <2>3. Cardinality(Own(Ended, c)) = 0
    BY <2>2, FS_EmptySet
  <2>4. ProxyAttendance(s[c]) = Cardinality(T)
    BY <1>0, <1>5, <1>6, <2>1
  <2> HIDE DEF S, T
  <2>5. /\ Cardinality(S) \in Nat /\ Cardinality(T) \in Nat
        /\ Cardinality(S \cup T) = Cardinality(S) + Cardinality(T)
    BY <1>1, CountUnion
  <2> QED  BY <1>4, <1>7, <1>8, <1>10, <2>3, <2>4, <2>5 DEF f
<1> QED  BY <1>9, <1>10

LEMMA PersonsGroup ==
  ASSUME NEW c \in Who, IsPerson(c)
  PROVE  AliasGroup(c).canonical = c /\ AliasGroup(c).aliases = LinksTo(c)
BY DEF AliasGroup, IsPerson

\* The profile and the board.
LEMMA ProfileAgrees ==
  ASSUME IdentityTypeOK, GamesTyped, NEW c \in Who, IsPerson(c), OneSpelling(c), NEW s \in Spelled
  PROVE  IdentityStats(c, s) = ExportRow(c)
<1>1. IdentityStats(c, s).attended = Attended(c)
  BY PersonsGroup, ProfileAttended DEF IdentityStats
<1>2. IdentityStats(c, s).streaks = IF c \in Member THEN UserStreaks(c) ELSE FoldedProxyStreaks(c)
  BY PersonsGroup DEF IdentityStats, UserStreaks, FoldedProxyStreaks, MergedAliasNames
<1>3. IdentityStats(c, s) = [attended |-> IdentityStats(c, s).attended,
                             streaks |-> IdentityStats(c, s).streaks]
  BY DEF IdentityStats
<1> QED  BY <1>1, <1>2, <1>3 DEF ExportRow

\* The portal and the board.
LEMMA PortalAgrees ==
  ASSUME IdentityTypeOK, GamesTyped, NEW c \in Member
  PROVE  VotedChats(c) = ExportRow(c)
<1>0. c \in Who /\ c \notin LowName /\ IsPerson(c)
  BY IdentityAssumption DEF Who, IsPerson, Canonical
<1>1. {p \in Ended \X Name : /\ Completed(p[1]) /\ ProxyPlayed(p[1], p[2])
                             /\ Low[p[2]] \in LinksTo(c)} = Folded(Ended, c)
  <2>1. \A n \in Name : Canonical(Low[n]) = c <=> Low[n] \in LinksTo(c)
    <3>1. c \notin LinksTo(c)
      BY <1>0 DEF LinksTo
    <3> QED  BY <1>0, <3>1, NamesLow, WhoIsRead
  <2> QED  BY <2>1 DEF Folded, GuestRows
<1>2. ProxyAttendanceOf(LinksTo(c)) = Cardinality(Folded(Ended, c))
  BY <1>1 DEF ProxyAttendanceOf
<1>3. UserAttendance(c) = Cardinality(Own(Ended, c))
  BY MemberColumn DEF UserAttendance
<1>4. Attended(c) = UserAttendance(c) + ProxyAttendanceOf(LinksTo(c))
  BY <1>0, <1>2, <1>3, CardRows, BoardIsCard
<1> QED  BY <1>4 DEF VotedChats, ExportRow, MergedAliasNames

LEMMA ScreensAgreeHolds == IdentityTypeOK /\ GamesTyped => ScreensAgree
<1> SUFFICES ASSUME IdentityTypeOK, GamesTyped, NEW c \in Who, IsPerson(c), OneSpelling(c)
             PROVE  /\ \A s \in Spelled : IdentityStats(c, s) = ExportRow(c)
                    /\ AttendanceBetween(Ended, c) = Attended(c)
                    /\ c \in Member => VotedChats(c) = ExportRow(c)
                    /\ \A n \in Spellings(c) : Low[n] # c /\ ProxyAttendance(n) > 0
                               => n \in IdentityGroup(c) \/ Low[n] \in discarded
  BY DEF ScreensAgree
<1>1. ASSUME NEW n \in Spellings(c), Low[n] # c, ProxyAttendance(n) > 0
      PROVE  n \in IdentityGroup(c) \/ Low[n] \in discarded
  <2>1. {g \in Ended : Completed(g) /\ ProxyPlayed(g, n)} # {}
    <3>1. ~(0 > 0)
      OBVIOUS
    <3> QED  BY <1>1, <3>1, FS_EmptySet DEF ProxyAttendance
  <2>2. PICK g \in Ended : ProxyPlayed(g, n)
    BY <2>1
  <2>3. n \in known
    BY <2>2 DEF GamesTyped, ProxyPlayed
  <2> QED  BY <1>1, <2>3 DEF IdentityGroup, Spellings
<1> QED  BY <1>1, ProfileAgrees, PortalAgrees, BoardIsCard

\* The rows add up by person and by game.
LEMMA TotalByPerson ==
  ASSUME GamesTyped, NEW w \in SUBSET Ended, NEW C \in SUBSET Who,
         \A p \in MemberRows(w) : p[2] \in C, \A p \in GuestRows(w) : Canonical(Low[p[2]]) \in C
  PROVE  SumFunction([c \in C |-> AttendanceBetween(w, c)])
           = Cardinality(MemberRows(w)) + Cardinality(GuestRows(w))
<1> DEFINE S == MemberRows(w)
           T == GuestRows(w)
           h == [p \in S |-> p[2]]
           k == [p \in T |-> Canonical(Low[p[2]])]
           a == [c \in C |-> Cardinality({x \in S : h[x] = c})]
           b == [c \in C |-> Cardinality({x \in T : k[x] = c})]
           f == [c \in C |-> AttendanceBetween(w, c)]
<1>1. IsFiniteSet(S) /\ IsFiniteSet(T) /\ IsFiniteSet(C)
  BY RowsFinite, IdentityAssumption, FS_Subset
<1>2. (\A x \in S : h[x] \in C) /\ (\A x \in T : k[x] \in C)
  OBVIOUS
<1>3. \A c \in C : f[c] = a[c] + b[c]
  <2> SUFFICES ASSUME NEW c \in C PROVE f[c] = a[c] + b[c]
    OBVIOUS
  <2>1. {x \in S : h[x] = c} = Own(w, c) /\ {x \in T : k[x] = c} = Folded(w, c)
    BY DEF Own, Folded
  <2>2. a[c] = Cardinality(Own(w, c)) /\ b[c] = Cardinality(Folded(w, c))
    BY <2>1
  <2>3. f[c] = Cardinality(Own(w, c)) + Cardinality(Folded(w, c))
    BY CardRows
  <2> QED  BY <2>2, <2>3
<1>4. a = [c \in C |-> Cardinality({x \in S : h[x] = c})] /\ b = [c \in C |-> Cardinality({x \in T : k[x] = c})]
  OBVIOUS
<1> HIDE DEF S, T, h, k, a, b
<1>5. a \in [C -> Nat] /\ SumFunction(a) = Cardinality(S)
  BY <1>1, <1>2, <1>4, CountByParts
<1>6. b \in [C -> Nat] /\ SumFunction(b) = Cardinality(T)
  BY <1>1, <1>2, <1>4, CountByParts
<1>7. a \in [C -> Int] /\ b \in [C -> Int] /\ f \in [C -> Int]
  BY <1>3, <1>5, <1>6
<1> HIDE DEF f
<1>8. SumFunction(f) = SumFunction(a) + SumFunction(b)
  BY <1>1, <1>3, <1>7, SumPlus
<1> QED  BY <1>5, <1>6, <1>8 DEF f, S, T

LEMMA TotalByGame ==
  ASSUME GamesTyped, NEW w \in SUBSET Ended
  PROVE  SumFunction(SessionsBetween(w)) = Cardinality(MemberRows(w)) + Cardinality(GuestRows(w))
<1> DEFINE C == {g \in w : Completed(g)}
           S == MemberRows(w)
           T == GuestRows(w)
           h == [p \in S |-> p[1]]
           k == [p \in T |-> p[1]]
           a == [c \in C |-> Cardinality({x \in S : h[x] = c})]
           b == [c \in C |-> Cardinality({x \in T : k[x] = c})]
           f == SessionsBetween(w)
<1>1. IsFiniteSet(S) /\ IsFiniteSet(T) /\ IsFiniteSet(C)
  BY RowsFinite, FS_Subset
<1>2. (\A x \in S : h[x] \in C) /\ (\A x \in T : k[x] \in C)
  BY DEF MemberRows, GuestRows
<1>3. \A g \in C : f[g] = a[g] + b[g]
  <2> SUFFICES ASSUME NEW g \in C PROVE f[g] = a[g] + b[g]
    OBVIOUS
  <2> DEFINE M == {m \in Member : UserPlayed(g, m)}
             N == {n \in Name : ProxyPlayed(g, n)}
             U == {x \in S : h[x] = g}
             V == {x \in T : k[x] = g}
  <2>1. f[g] = Cardinality(M) + Cardinality(N)
    BY DEF SessionsBetween
  <2>2. IsFiniteSet(M) /\ IsFiniteSet(N)
    BY FiniteNames, FS_Subset
  <2>3. (\A p \in U : p = <<g, p[2]>> /\ p[2] \in M) /\ \A x \in M : <<g, x>> \in U
    BY DEF MemberRows
  <2>4. (\A p \in V : p = <<g, p[2]>> /\ p[2] \in N) /\ \A x \in N : <<g, x>> \in V
    BY DEF GuestRows
  <2>5. a[g] = Cardinality(U) /\ b[g] = Cardinality(V)
    OBVIOUS
  <2> HIDE DEF M, N, U, V
  <2>6. Cardinality(M) = Cardinality(U)
    BY <2>2, <2>3, CountRow
  <2>7. Cardinality(N) = Cardinality(V)
    BY <2>2, <2>4, CountRow
  <2> QED  BY <2>1, <2>5, <2>6, <2>7
<1>4. a = [c \in C |-> Cardinality({x \in S : h[x] = c})] /\ b = [c \in C |-> Cardinality({x \in T : k[x] = c})]
  OBVIOUS
<1>5. DOMAIN f = C /\ f = [c \in C |-> f[c]]
  BY DEF SessionsBetween
<1> HIDE DEF S, T, h, k, a, b, C, f
<1>6. a \in [C -> Nat] /\ SumFunction(a) = Cardinality(S)
  BY <1>1, <1>2, <1>4, CountByParts
<1>7. b \in [C -> Nat] /\ SumFunction(b) = Cardinality(T)
  BY <1>1, <1>2, <1>4, CountByParts
<1>8. a \in [C -> Int] /\ b \in [C -> Int] /\ f \in [C -> Int]
  BY <1>3, <1>5, <1>6, <1>7
<1>9. SumFunction(f) = SumFunction(a) + SumFunction(b)
  BY <1>1, <1>3, <1>8, SumPlus
<1> QED  BY <1>6, <1>7, <1>9 DEF f, S, T

LEMMA AtMostOne ==
  ASSUME NEW X, IsFiniteSet(X), Cardinality(X) <= 1, NEW x \in X, NEW y \in X
  PROVE  x = y
<1>1. Cardinality(X) \in Nat /\ Cardinality(X) # 0
  BY FS_CardinalityType, FS_EmptySet
<1>2. Cardinality(X) = 1
  BY <1>1
<1> QED  BY <1>2, FS_Singleton

\* A person's rows, and the games they are of.
Credited(w, c) == Own(w, c) \cup Folded(w, c)

LEMMA RowsCount ==
  ASSUME GamesTyped, NEW w \in SUBSET Ended, NEW c \in Who
  PROVE  IsFiniteSet(Credited(w, c)) /\ Cardinality(Credited(w, c)) = AttendanceBetween(w, c)
<1>1. Own(w, c) \cap Folded(w, c) = {}
  BY IdentityAssumption DEF Own, Folded, MemberRows, GuestRows
<1>2. /\ IsFiniteSet(Own(w, c)) /\ IsFiniteSet(Folded(w, c))
      /\ AttendanceBetween(w, c) = Cardinality(Own(w, c)) + Cardinality(Folded(w, c))
  BY CardRows
<1>3. /\ IsFiniteSet(Own(w, c) \cup Folded(w, c))
      /\ Cardinality(Own(w, c) \cup Folded(w, c)) = Cardinality(Own(w, c)) + Cardinality(Folded(w, c))
  BY <1>1, <1>2, CountUnion
<1> QED  BY <1>2, <1>3 DEF Credited

LEMMA OneRowPerGame ==
  ASSUME GamesTyped, NEW w \in SUBSET Ended, NEW c \in Who, OneRowAGame(c),
         NEW p \in Credited(w, c), NEW q \in Credited(w, c), p[1] = q[1]
  PROVE  p = q
<1> DEFINE g == p[1]
           X == {n \in DOMAIN games[g].guests : n \in Spellings(c)}
                  \cup {m \in DOMAIN games[g].members : m = c}
<1>1. g \in Ended /\ \A r \in {p, q} : r = <<r[1], r[2]>>
  BY DEF Credited, Own, Folded, MemberRows, GuestRows
<1>2. X \subseteq Name \cup Member
  BY <1>1, EndedFacts, ListsFacts
<1>3. IsFiniteSet(X)
  BY <1>2, FiniteNames, FS_Union, FS_Subset
<1>4. \A r \in {p, q} : r[2] \in X
  <2>1. \A r \in {p, q} : r \in Own(w, c) => r[2] \in X
    BY PlayedFacts DEF Own, MemberRows
  <2>2. \A r \in {p, q} : r \in Folded(w, c) => r[2] \in X
    BY PlayedFacts DEF Folded, GuestRows, Spellings
  <2> QED  BY <2>1, <2>2 DEF Credited
<1>5. Cardinality(X) <= 1
  BY <1>1 DEF OneRowAGame
<1> HIDE DEF X
<1>6. p[2] = q[2]
  BY <1>3, <1>4, <1>5, AtMostOne
<1> QED  BY <1>1, <1>6

\* Nobody is credited with more games than there were.
LEMMA NotMoreThanGames ==
  ASSUME GamesTyped, NEW w \in SUBSET Ended, NEW c \in Who, OneRowAGame(c)
  PROVE  AttendanceBetween(w, c) <= Cardinality({g \in w : Completed(g)})
<1> DEFINE S == Credited(w, c)
           T == {g \in w : Completed(g)}
           f == [p \in S |-> p[1]]
<1>1. IsFiniteSet(T)
  BY RowsFinite, FS_Subset
<1>2. f \in [S -> T]
  BY DEF Credited, Own, Folded, MemberRows, GuestRows
<1>3. \A x, y \in S : f[x] = f[y] => x = y
  BY OneRowPerGame
<1> HIDE DEF S, T, f
<1>4. f \in Injection(S, T)
  BY <1>2, <1>3 DEF Injection, IsInjective
<1>5. Cardinality(S) <= Cardinality(T)
  BY <1>1, <1>4, FS_Injection
<1> QED  BY <1>5, RowsCount DEF S, T

LEMMA NoGameLostHolds == IdentityTypeOK /\ GamesTyped => NoGameLost
<1> SUFFICES ASSUME IdentityTypeOK, GamesTyped PROVE NoGameLost
  OBVIOUS
<1>0. \A n \in Name : Low[n] \in Who /\ Canonical(Low[n]) \in Who
  BY NamesLow, CanonicalType DEF Who
<1>1. SumFunction(GroupStats.board) = GroupStats.slots
  <2> DEFINE C == {Canonical(x) : x \in Who}
             w == Ended
  <2>1. C \in SUBSET Who
    BY CanonicalType
  <2>2. \A p \in MemberRows(w) : p[2] \in C
    <3> SUFFICES ASSUME NEW p \in MemberRows(w) PROVE p[2] \in C
      OBVIOUS
    <3>1. p[2] \in Who /\ Canonical(p[2]) = p[2]
      BY DEF MemberRows, Canonical, Who
    <3> QED  BY <3>1
  <2>3. \A p \in GuestRows(w) : Canonical(Low[p[2]]) \in C
    BY <1>0 DEF GuestRows
  <2>4. SumFunction([c \in C |-> AttendanceBetween(w, c)])
          = Cardinality(MemberRows(w)) + Cardinality(GuestRows(w))
    <3> HIDE DEF C
    <3> QED  BY <2>1, <2>2, <2>3, TotalByPerson
  <2>5. GroupStats.board = [c \in C |-> Attended(c)]
    BY DEF GroupStats
  <2>6. [c \in C |-> Attended(c)] = [c \in C |-> AttendanceBetween(w, c)]
    BY <2>1, BoardIsCard
  <2>7. GroupStats.slots = Cardinality(MemberRows(w)) + Cardinality(GuestRows(w))
    BY DEF GroupStats, GroupTotals, MemberRows, GuestRows
  <2> QED  BY <2>4, <2>5, <2>6, <2>7
<1>2. ASSUME NEW from \in Ended
      PROVE  LET sum == PeriodSummary(from..Len(games))
             IN /\ SumFunction(sum.top) = sum.slots
                /\ \A c \in DOMAIN sum.top : OneRowAGame(c) => sum.top[c] <= sum.count
  <2>1. PICK w \in SUBSET Ended : w = from..Len(games)
    BY EndedFacts
  <2> DEFINE C == {c \in Who : AttendanceBetween(w, c) > 0}
             sum == PeriodSummary(w)
  <2>2. /\ sum.top = [c \in C |-> AttendanceBetween(w, c)]
        /\ sum.slots = SumFunction(SessionsBetween(w))
        /\ sum.count = Cardinality(DOMAIN SessionsBetween(w))
    BY DEF PeriodSummary
  <2>3. DOMAIN SessionsBetween(w) = {g \in w : Completed(g)}
    BY DEF SessionsBetween
  <2>4. \A c \in Who : Credited(w, c) # {} => c \in C
    <3> SUFFICES ASSUME NEW c \in Who, Credited(w, c) # {} PROVE AttendanceBetween(w, c) > 0
      OBVIOUS
    <3>1. IsFiniteSet(Credited(w, c)) /\ Cardinality(Credited(w, c)) = AttendanceBetween(w, c)
      BY RowsCount
    <3>2. Cardinality(Credited(w, c)) \in Nat /\ Cardinality(Credited(w, c)) # 0
      BY <3>1, FS_CardinalityType, FS_EmptySet
    <3> QED  BY <3>1, <3>2
  <2>5. \A p \in MemberRows(w) : p[2] \in C
    <3> SUFFICES ASSUME NEW p \in MemberRows(w) PROVE p[2] \in C
      OBVIOUS
    <3>1. p[2] \in Who /\ p \in Credited(w, p[2])
      BY DEF MemberRows, Who, Credited, Own
    <3> QED  BY <2>4, <3>1
  <2>6. \A p \in GuestRows(w) : Canonical(Low[p[2]]) \in C
    <3> SUFFICES ASSUME NEW p \in GuestRows(w) PROVE Canonical(Low[p[2]]) \in C
      OBVIOUS
    <3>1. Canonical(Low[p[2]]) \in Who /\ p \in Credited(w, Canonical(Low[p[2]]))
      BY <1>0 DEF GuestRows, Credited, Folded
    <3> QED  BY <2>4, <3>1
  <2>7. C \in SUBSET Who
    OBVIOUS
  <2>8. SumFunction([c \in C |-> AttendanceBetween(w, c)])
          = Cardinality(MemberRows(w)) + Cardinality(GuestRows(w))
    <3> HIDE DEF C
    <3> QED  BY <2>5, <2>6, <2>7, TotalByPerson
  <2>9. SumFunction(sum.top) = sum.slots
    BY <2>2, <2>8, TotalByGame
  <2>10. \A c \in C : OneRowAGame(c) => AttendanceBetween(w, c) <= Cardinality({g \in w : Completed(g)})
    BY NotMoreThanGames
  <2>11. \A c \in DOMAIN sum.top : OneRowAGame(c) => sum.top[c] <= sum.count
    BY <2>2, <2>3, <2>10
  <2> HIDE DEF sum
  <2> QED  BY <2>1, <2>9, <2>11 DEF sum
<1> QED  BY <1>1, <1>2 DEF NoGameLost

-----------------------------------------------------------------------------
\* The sessions page shows as played the games a person has a row of.
LEMMA PlayedOnPage ==
  ASSUME IdentityTypeOK, GamesTyped, NEW m \in Member, OneRowAGame(m), NEW g \in Ended
  PROVE  "in" \in SessionHistory(g, m) <=> \E p \in Credited(Ended, m) : p[1] = g
<1> DEFINE own == m \in DOMAIN games[g].members
           rows == {n \in DOMAIN games[g].guests : Low[n] \in LinksTo(m)}
           X == {n \in DOMAIN games[g].guests : n \in Spellings(m)}
                  \cup {v \in DOMAIN games[g].members : v = m}
<1>0. /\ DOMAIN games[g].members \subseteq Member /\ DOMAIN games[g].guests \subseteq Name
      /\ \A v \in DOMAIN games[g].members : games[g].members[v] \in {"in", "out", "maybe"}
      /\ \A n \in DOMAIN games[g].guests : games[g].guests[n] \in {"in", "out", "maybe"}
  BY EndedFacts, ListsFacts
<1>1. \A n \in Name : Canonical(Low[n]) = m <=> Low[n] \in LinksTo(m)
  BY NamesLow, IdentityAssumption, Zenon DEF Canonical, LinksTo, Who
<1>2. /\ (\E p \in Own(Ended, m) : p[1] = g) <=> Completed(g) /\ UserPlayed(g, m)
      /\ (\E p \in Folded(Ended, m) : p[1] = g)
           <=> Completed(g) /\ \E n \in rows : ProxyPlayed(g, n)
  <2>1. Completed(g) /\ UserPlayed(g, m) => <<g, m>> \in Own(Ended, m)
    BY DEF Own, MemberRows
  <2>2. \A n \in rows : Completed(g) /\ ProxyPlayed(g, n) => <<g, n>> \in Folded(Ended, m)
    BY <1>0, <1>1 DEF Folded, GuestRows
  <2>3. \A p \in Own(Ended, m) : p[1] = g => Completed(g) /\ UserPlayed(g, m)
    BY DEF Own, MemberRows
  <2>4. \A p \in Folded(Ended, m) : p[1] = g => Completed(g) /\ p[2] \in rows /\ ProxyPlayed(g, p[2])
    BY <1>1, PlayedFacts DEF Folded, GuestRows
  <2> QED  BY <2>1, <2>2, <2>3, <2>4
<1>3. own => rows = {}
  <2> SUFFICES ASSUME own, NEW n \in rows PROVE FALSE
    OBVIOUS
  <2>1. n \in X /\ m \in X /\ n # m
    BY <1>0, <1>1, IdentityAssumption DEF Spellings
  <2>2. IsFiniteSet(X)
    <3>1. X \subseteq Name \cup Member
      BY <1>0
    <3> QED  BY <3>1, FiniteNames, FS_Union, FS_Subset
  <2>3. Cardinality(X) <= 1
    BY DEF OneRowAGame
  <2> HIDE DEF X
  <2> QED  BY <2>1, <2>2, <2>3, AtMostOne
<1>4. CASE ~Completed(g)
  BY <1>2, <1>4 DEF SessionHistory, Credited
<1>5. CASE Completed(g) /\ own
  <2>1. "in" \in SessionHistory(g, m) <=> UserPlayed(g, m)
    BY <1>0, <1>5 DEF SessionHistory, UserPlayed
  <2> QED  BY <1>2, <1>3, <1>5, <2>1 DEF Credited
<1>6. CASE Completed(g) /\ ~own
  <2>1. ~UserPlayed(g, m)
    BY <1>6 DEF UserPlayed
  <2>2. "in" \in SessionHistory(g, m) <=> \E n \in rows : ProxyPlayed(g, n)
    BY <1>0, <1>6 DEF SessionHistory, ProxyPlayed, MergedAliasNames
  <2> QED  BY <1>2, <1>6, <2>1, <2>2 DEF Credited
<1> QED  BY <1>4, <1>5, <1>6

LEMMA SessionsMatchHolds == IdentityTypeOK /\ GamesTyped => SessionsMatch
<1> SUFFICES ASSUME IdentityTypeOK, GamesTyped, NEW m \in Member, OneRowAGame(m)
             PROVE  Cardinality({g \in Ended : "in" \in SessionHistory(g, m)}) = Attended(m)
  BY DEF SessionsMatch
<1> DEFINE S == Credited(Ended, m)
           T == {g \in Ended : "in" \in SessionHistory(g, m)}
           f == [p \in S |-> p[1]]
<1>0. m \in Who
  BY DEF Who
<1>1. \A p \in S : p[1] \in Ended
  BY DEF Credited, Own, Folded, MemberRows, GuestRows
<1>2. f \in [S -> T] /\ \A t \in T : \E x \in S : f[x] = t
  BY <1>1, PlayedOnPage
<1>3. \A x, y \in S : f[x] = f[y] => x = y
  BY <1>0, OneRowPerGame
<1>4. IsFiniteSet(S) /\ Cardinality(S) = Attended(m)
  BY <1>0, RowsCount, BoardIsCard
<1> HIDE DEF S, T, f
<1>5. Cardinality(T) = Cardinality(S)
  BY <1>2, <1>3, <1>4, CountOneToOne
<1> QED  BY <1>4, <1>5 DEF T

-----------------------------------------------------------------------------
\* A run of games in a row is no longer than the best, which was all played.
LEMMA StreakBounds ==
  ASSUME GamesTyped, NEW members, NEW lows
  PROVE  LET st == Streaks(members, lows)
         IN /\ st.current \in Nat /\ st.best \in Nat /\ st.current <= st.best
            /\ IsFiniteSet(PlayedGames(members, lows))
            /\ st.best <= Cardinality(PlayedGames(members, lows))
<1> DEFINE played == PlayedGames(members, lows)
           most == Cardinality(played)
           Row(from, to) == {g \in from..to : Completed(g)}
           Runs(to) == {Cardinality(Row(from, to)) : from \in {f \in Ended : Row(f, to) \subseteq played}}
           now1 == Runs(Len(games)) \cup {0}
           ever == (UNION {Runs(to) : to \in Ended}) \cup {0}
           st == Streaks(members, lows)
<1>1. st.current = Max(now1) /\ st.best = Max(ever)
  <2>1. st = [current |-> Max(now1), best |-> Max(ever)]
    BY DEF Streaks
  <2> HIDE DEF now1, ever, st
  <2> QED  BY <2>1
<1> DEFINE all == UNION {Runs(to) : to \in Ended}
<1>10. ever = all \cup {0}
  BY Zenon
<1> HIDE DEF ever
<1>2. IsFiniteSet(played) /\ most \in Nat
  <2>1. played \in SUBSET Ended
    BY DEF PlayedGames
  <2> HIDE DEF played
  <2> QED  BY <2>1, EndedFacts, FS_Subset, FS_CardinalityType
<1> HIDE DEF played
<1>3. ASSUME NEW to PROVE \A n \in Runs(to) : n \in Nat /\ n <= most
  <2> SUFFICES ASSUME NEW from \in Ended, Row(from, to) \subseteq played
               PROVE  Cardinality(Row(from, to)) \in Nat /\ Cardinality(Row(from, to)) <= most
    OBVIOUS
  <2> HIDE DEF Row
  <2> QED  BY <1>2, FS_Subset, FS_CardinalityType
<1>4. Runs(Len(games)) \subseteq all
  <2>1. CASE Ended = {}
    BY <2>1
  <2>2. CASE Ended # {}
    <3>1. Len(games) \in Ended
      BY <2>2, EndedFacts
    <3> HIDE DEF Runs
    <3> QED  BY <3>1
  <2> QED  BY <2>1, <2>2
<1> HIDE DEF Runs, st
<1>8. \A n \in all : n \in Nat /\ n <= most
  BY <1>3
<1> HIDE DEF all
<1>5. /\ now1 \in SUBSET Nat /\ ever \in SUBSET Nat /\ 0 \in now1 /\ 0 \in ever /\ now1 \subseteq ever
      /\ \A n \in ever : n <= most
  <2>1. now1 \subseteq ever /\ 0 \in now1 /\ 0 \in ever
    BY <1>4, <1>10
  <2>2. \A n \in ever : n \in Nat /\ n <= most
    BY <1>2, <1>8, <1>10
  <2> QED  BY <2>1, <2>2
<1>6. \A n \in now1 : n <= most
  BY <1>5
<1> HIDE DEF now1, ever, most
<1>7. Max(now1) \in now1 /\ Max(ever) \in ever /\ \A n \in ever : n <= Max(ever)
  BY <1>2, <1>5, <1>6, MaxFacts
<1> QED  BY <1>1, <1>2, <1>5, <1>7 DEF st, most, played

\* What a person played is among the games it is credited with.
LEMMA PlayedIsCredited ==
  ASSUME IdentityTypeOK, GamesTyped, NEW c \in Who, IsPerson(c), NEW members, NEW lows,
         members \subseteq {c}, lows \subseteq LinksTo(c) \cup {c}
  PROVE  Cardinality(PlayedGames(members, lows)) <= Attended(c)
<1> DEFINE S == Credited(Ended, c)
           T == {p[1] : p \in S}
           f == [p \in S |-> p[1]]
<1>1. IsFiniteSet(S) /\ Cardinality(S) = Attended(c)
  BY RowsCount, BoardIsCard
<1>2. \A n \in Name : Low[n] \in lows => Canonical(Low[n]) = c
  <2> SUFFICES ASSUME NEW n \in Name, Low[n] \in lows PROVE Canonical(Low[n]) = c
    OBVIOUS
  <2>1. CASE Low[n] = c
    BY <2>1 DEF IsPerson
  <2>2. CASE link[Low[n]] = c
    BY <2>2, NamesLow, IdentityAssumption DEF Canonical
  <2> QED  BY <2>1, <2>2 DEF LinksTo
<1>3. PlayedGames(members, lows) \subseteq T
  <2> SUFFICES ASSUME NEW g \in PlayedGames(members, lows) PROVE \E p \in S : p[1] = g
    OBVIOUS
  <2>1. g \in Ended /\ Completed(g)
    BY DEF PlayedGames
  <2>2. CASE UserPlayed(g, c)
    <3>1. <<g, c>> \in S
      BY <2>1, <2>2, PlayedFacts DEF Credited, Own, MemberRows
    <3> QED  BY <3>1
  <2>3. CASE \E n \in Name : Low[n] \in lows /\ ProxyPlayed(g, n)
    <3>1. PICK n \in Name : Low[n] \in lows /\ ProxyPlayed(g, n)
      BY <2>3
    <3>2. <<g, n>> \in S
      BY <1>2, <2>1, <3>1 DEF Credited, Folded, GuestRows
    <3> QED  BY <3>2
  <2> QED  BY <2>2, <2>3 DEF PlayedGames
<1>4. f \in Surjection(S, T)
  BY DEF Surjection
<1> HIDE DEF S, T, f
<1>5. IsFiniteSet(T) /\ Cardinality(T) <= Cardinality(S)
  BY <1>1, <1>4, FS_Surjection
<1>6. /\ Cardinality(PlayedGames(members, lows)) <= Cardinality(T)
      /\ Cardinality(PlayedGames(members, lows)) \in Nat
  BY <1>3, <1>5, FS_Subset, FS_CardinalityType
<1> QED  BY <1>1, <1>5, <1>6, FS_CardinalityType

LEMMA StreaksFitHolds == IdentityTypeOK /\ GamesTyped => StreaksFit
<1> SUFFICES ASSUME IdentityTypeOK, GamesTyped, NEW c \in Who, IsPerson(c)
             PROVE  LET row == ExportRow(c)
                    IN row.streaks.current <= row.streaks.best /\ row.streaks.best <= row.attended
  BY DEF StreaksFit
<1>1. PICK members, lows : /\ members \subseteq {c} /\ lows \subseteq LinksTo(c) \cup {c}
                           /\ ExportRow(c).streaks = Streaks(members, lows)
  <2>1. CASE c \in Member
    <3>1. ExportRow(c).streaks = Streaks({c}, LinksTo(c))
      BY <2>1 DEF ExportRow, UserStreaks, MergedAliasNames
    <3> QED  BY <3>1
  <2>2. CASE c \notin Member
    <3>1. ExportRow(c).streaks = Streaks({}, {c} \cup LinksTo(c))
      BY <2>2, PersonsGroup DEF ExportRow, FoldedProxyStreaks
    <3> QED  BY <3>1
  <2> QED  BY <2>1, <2>2
<1> DEFINE st == Streaks(members, lows)
           n == Cardinality(PlayedGames(members, lows))
<1>2. st.current <= st.best /\ st.best <= n /\ st.best \in Nat /\ IsFiniteSet(PlayedGames(members, lows))
  BY StreakBounds
<1>3. n <= Attended(c) /\ n \in Nat
  BY <1>1, <1>2, PlayedIsCredited, FS_CardinalityType
<1>4. ExportRow(c).attended = Attended(c) /\ Attended(c) \in Nat
  BY CardRows, BoardIsCard DEF ExportRow
<1> HIDE DEF st, n
<1> QED  BY <1>1, <1>2, <1>3, <1>4 DEF st

-----------------------------------------------------------------------------
\* The suggestions, from the types and the order of names.
LEMMA SuggestionsHold == IdentityTypeOK => RejectedStays /\ AlikeAreOffered
<1> SUFFICES ASSUME IdentityTypeOK PROVE RejectedStays /\ AlikeAreOffered
  OBVIOUS
<1>1. /\ Candidates \subseteq LowName /\ Waiting \subseteq Candidates
      /\ active \subseteq Member /\ dismissed \subseteq LowName \X Who
  BY NamesLow DEF IdentityTypeOK, Candidates, Waiting
<1>2. ASSUME NEW a, NEW b, <<a, b>> \in Suggestions
      PROVE  /\ a \in Waiting
             /\ \/ /\ b \in Candidates /\ a # b /\ Emits(a, b)
                   /\ <<a, b>> \notin dismissed /\ <<b, a>> \notin dismissed
                \/ b \in Member /\ <<a, b>> \notin dismissed
  BY <1>1, <1>2 DEF Suggestions, NamePairs, MemberPairs, Dismissed
<1>3. RejectedStays
  <2> SUFFICES ASSUME NEW p \in dismissed
               PROVE  p \notin Suggestions /\ <<p[2], p[1]>> \notin Suggestions
    BY DEF RejectedStays
  <2>1. p = <<p[1], p[2]>> /\ p[1] \in LowName /\ p[1] \notin Member
    BY <1>1, IdentityAssumption
  <2> QED  BY <1>2, <2>1
<1>4. AlikeAreOffered
  <2> SUFFICES ASSUME NEW a \in Candidates, NEW b \in Candidates, a # b, <<a, b>> \in Alike,
                      ~({a, b} \subseteq standalone), ~Dismissed(a, b)
               PROVE  (<<a, b>> \in Suggestions) # (<<b, a>> \in Suggestions)
    BY DEF AlikeAreOffered
  <2>1. <<b, a>> \in Alike /\ ~Dismissed(b, a) /\ a \in LowName /\ b \in LowName
    BY <1>1, IdentityAssumption DEF Dismissed
  <2>2. a \in Waiting \/ b \in Waiting
    BY DEF Waiting
  <2>3. /\ <<a, b>> \in Suggestions <=> a \in Waiting /\ Emits(a, b)
        /\ <<b, a>> \in Suggestions <=> b \in Waiting /\ Emits(b, a)
    <3>1. a \notin active /\ b \notin active
      BY <1>1, <2>1, IdentityAssumption
    <3> QED  BY <1>1, <2>1, <3>1 DEF Suggestions, NamePairs, MemberPairs
  <2>4. /\ LowRank[a] \in Nat /\ LowRank[b] \in Nat /\ LowRank[a] # LowRank[b]
    BY <2>1, IdentityAssumption
  <2>5. a \in Waiting /\ b \in Waiting => (Emits(a, b) <=> ~Emits(b, a))
    BY <2>4 DEF Emits
  <2>6. (b \notin Waiting => Emits(a, b)) /\ (a \notin Waiting => Emits(b, a))
    BY DEF Emits
  <2>7. (<<a, b>> \in Suggestions) <=> ~(<<b, a>> \in Suggestions)
    BY <2>2, <2>3, <2>5, <2>6
  <2> QED  BY <2>7
<1> QED  BY <1>3, <1>4

-----------------------------------------------------------------------------
(***************************************************************************)
(* The inductive invariant of the screens.                                 *)
(***************************************************************************)
LedgerTyped == \A w \in DOMAIN ledger : ledger[w] \in Int

StandingsInv == Inv /\ IdentityTypeOK /\ OneVerdict /\ GamesTyped /\ ToldOnce /\ LedgerTyped

LEMMA StandingsInitInv == StandingsInit => StandingsInv
<1> SUFFICES ASSUME StandingsInit PROVE StandingsInv
  OBVIOUS
<1>1. Inv /\ IdentityTypeOK /\ OneVerdict
  BY InitInv, TypeInit DEF StandingsInit, Init, OneVerdict
<1>2. LedgerTyped /\ ToldOnce
  BY IdentityAssumption DEF StandingsInit, Init, LedgerTyped, ToldOnce
<1>3. GamesTyped
  <2>1. PICK R : R = [members : Lists(Member), guests : Lists(Name), cancelled : BOOLEAN]
    OBVIOUS
  <2>2. Opened \in Nat /\ \A i \in 1..Opened : i \in DOMAIN Script
    BY StandingsAssumption
  <2>3. games = [i \in 1..Opened |-> [members |-> Script[i].members, guests |-> Script[i].guests,
                                      cancelled |-> FALSE]]
    BY DEF StandingsInit
  <2>4. \A i \in 1..Opened : games[i] \in R
    BY <2>1, <2>2, <2>3, ScriptRows
  <2>5. games \in Seq(R) /\ Ended = 1..Opened
    BY <2>2, <2>3, <2>4 DEF Ended
  <2>6. \A g \in Ended : DOMAIN games[g].guests \subseteq known
    <3> SUFFICES ASSUME NEW g \in 1..Opened PROVE DOMAIN games[g].guests \subseteq known
      BY <2>5
    <3>1. games[g].guests = Script[g].guests
      BY <2>3
    <3> QED  BY <2>2, <3>1, StandingsAssumption DEF StandingsInit, Init
  <2> QED  BY <2>1, <2>5, <2>6 DEF GamesTyped
<1> QED  BY <1>1, <1>2, <1>3 DEF StandingsInv

\* A game that ended is a row more, about people whose names are known.
LEMMA GamesStep ==
  ASSUME GamesTyped, [StandingsNext]_boards, known \subseteq known'
  PROVE  GamesTyped'
<1>0. PICK R : R = [members : Lists(Member), guests : Lists(Name), cancelled : BOOLEAN]
  OBVIOUS
<1>1. games \in Seq(R) /\ \A g \in DOMAIN games : DOMAIN games[g].guests \subseteq known
  BY <1>0 DEF GamesTyped, Ended
<1>2. SUFFICES games' \in Seq(R) /\ \A g \in DOMAIN games' : DOMAIN games'[g].guests \subseteq known'
  BY <1>0 DEF GamesTyped, Ended
<1>3. CASE UNCHANGED games
  BY <1>1, <1>3
<1>4. CASE \E cancelled \in BOOLEAN, s \in Spelled : GameEnds(cancelled, s)
  <2>1. PICK cancelled \in BOOLEAN, s \in Spelled : GameEnds(cancelled, s)
    BY <1>4
  <2>2. PICK game : game = Script[Len(games) + 1]
    OBVIOUS
  <2> DEFINE row == [members |-> game.members, guests |-> game.guests, cancelled |-> cancelled]
  <2>3. games' = Append(games, row) /\ known' = known \cup DOMAIN game.guests
    BY <2>1, <2>2 DEF GameEnds
  <2>4. Len(games) + 1 \in DOMAIN Script
    BY <1>1, <2>1, StandingsAssumption DEF GameEnds
  <2>5. row \in R /\ row.guests = game.guests
    BY <1>0, <2>2, <2>4, ScriptRows
  <2> HIDE DEF row
  <2>6. /\ games' \in Seq(R) /\ Len(games') = Len(games) + 1 /\ games'[Len(games) + 1] = row
        /\ \A g \in 1..Len(games) : games'[g] = games[g]
    BY <1>1, <2>3, <2>5, AppendProperties
  <2>7. ASSUME NEW g \in DOMAIN games' PROVE DOMAIN games'[g].guests \subseteq known'
    <3>1. (g \in 1..Len(games) /\ g \in DOMAIN games) \/ g = Len(games) + 1
      BY <1>1, <2>6
    <3>2. CASE g \in 1..Len(games) /\ g \in DOMAIN games
      BY <1>1, <2>3, <2>6, <3>2
    <3>3. CASE g = Len(games) + 1
      BY <2>3, <2>5, <2>6, <3>3
    <3> QED  BY <3>1, <3>2, <3>3
  <2> QED  BY <2>6, <2>7
<1>5. CASE \E g \in Ended, w \in Who : MarkNoShow(g, w)
  BY <1>3, <1>5 DEF MarkNoShow
<1> QED  BY <1>3, <1>4, <1>5 DEF StandingsNext, boards, standings

\* What is announced is a pair nobody was told before.
LEMMA NewStamps ==
  ASSUME GamesTyped, [StandingsNext]_boards, stamps' # stamps
  PROVE  /\ games' # << >>
         /\ \E s \in Spelled : \E R :
              /\ R = (GamesReached(s))'
              /\ stamps' = stamps \cup {<<r[1], r[2], Len(games')>> : r \in CollectBadges(R)}
<1>1. PICK cancelled \in BOOLEAN, s \in Spelled : GameEnds(cancelled, s)
  BY DEF StandingsNext, boards, standings, MarkNoShow
<1>2. PICK R : R = (GamesReached(s))'
  OBVIOUS
<1>3. stamps' = stamps \cup (IF cancelled THEN {}
                             ELSE {<<r[1], r[2], Len(games')>> : r \in CollectBadges(R)})
  BY <1>1, <1>2 DEF GameEnds
<1>4. stamps' = stamps \cup {<<r[1], r[2], Len(games')>> : r \in CollectBadges(R)}
  BY <1>3
<1>5. games' # << >>
  <2>1. PICK row : games' = Append(games, row)
    BY <1>1 DEF GameEnds
  <2>2. Len(games) \in Nat
    BY EndedFacts
  <2> QED  BY <2>1, <2>2
<1> QED  BY <1>2, <1>4, <1>5

LEMMA ToldStep == GamesTyped /\ ToldOnce /\ [StandingsNext]_boards => ToldOnce'
<1> SUFFICES ASSUME GamesTyped, ToldOnce, [StandingsNext]_boards, stamps' # stamps,
                    NEW p \in stamps', NEW q \in stamps', <<p[1], p[2]>> = <<q[1], q[2]>>
             PROVE  p = q
  BY DEF ToldOnce
<1>1. PICK s \in Spelled : \E R :
        /\ R = (GamesReached(s))'
        /\ stamps' = stamps \cup {<<r[1], r[2], Len(games')>> : r \in CollectBadges(R)}
  BY NewStamps
<1>2. PICK R :
             /\ R = (GamesReached(s))'
             /\ stamps' = stamps \cup {<<r[1], r[2], Len(games')>> : r \in CollectBadges(R)}
  BY <1>1
<1>4. \A r \in R : r = <<r[1], r[2]>>
  BY <1>2 DEF GamesReached
<1>3. \A x \in stamps' \ stamps :
        /\ x = <<x[1], x[2], Len(games')>>
        /\ \A y \in stamps : <<y[1], y[2]>> # <<x[1], x[2]>>
  BY <1>2, <1>4 DEF CollectBadges
<1> QED  BY <1>3 DEF ToldOnce

\* Only a payment writes to the ledger.
LEMMA LedgerSteps ==
  ASSUME Inv, [StandingsNext]_boards, ledger' # ledger
  PROVE  \E a \in LowName : MarkPaid(a)
<1>1. [Next]_vars
  BY BoardStep DEF Inv, LinksTyped
<1> QED  BY <1>1 DEF Next, vars, ListIdentities, Link, Dismiss, Unmerge, Discard, Undiscard,
           MarkStandalone, UnmarkStandalone, GuestPlays, MemberLeaves, MemberVotes

LEMMA OwedTyped == LedgerTyped => \A w : Owed(w) \in Int
BY DEF LedgerTyped, Owed

\* What one person is asked for: what is owed under its names.
LEMMA BalanceTyped ==
  ASSUME IdentityTypeOK, LedgerTyped, NEW w \in Who
  PROVE  /\ DuesBalance(w) \in Int
         /\ [l \in LinksTo(Canonical(w)) |-> Owed(l)] \in [LinksTo(Canonical(w)) -> Int]
<1> DEFINE A == LinksTo(Canonical(w))
           f == [l \in A |-> Owed(l)]
<1>1. IsFiniteSet(A)
  BY FiniteNames, FS_Subset DEF LinksTo
<1>2. f \in [A -> Int]
  BY OwedTyped
<1>3. DuesBalance(w) = Owed(Canonical(w)) + SumFunction(f)
  BY DEF DuesBalance, AliasGroup
<1> HIDE DEF f, A
<1>4. SumFunction(f) \in Int /\ Owed(Canonical(w)) \in Int
  BY <1>1, <1>2, SumIsInt, OwedTyped
<1>5. DuesBalance(w) \in Int
  BY <1>3, <1>4
<1> QED  BY <1>2, <1>5 DEF f, A

LEMMA PaymentStep ==
  ASSUME Inv, IdentityTypeOK, LedgerTyped, [StandingsNext]_boards, ledger' # ledger
  PROVE  \E payer \in Who :
           /\ \E a \in Who : payer = Canonical(a)
           /\ UNCHANGED links
           /\ ledger' = [p \in DOMAIN ledger \cup {payer} |->
                           IF p = payer THEN Owed(p) - DuesBalance(payer) ELSE ledger[p]]
<1>1. PICK l \in LowName : MarkPaid(l)
  BY LedgerSteps
<1>2. PICK a \in Meant(l) :
         /\ UNCHANGED links
         /\ ledger' = [p \in DOMAIN ledger \cup {Canonical(a)} |->
                         IF p = Canonical(a) THEN Owed(p) - DuesBalance(Canonical(a)) ELSE ledger[p]]
  BY <1>1 DEF MarkPaid, CanonicalMember
<1>3. a \in Who
  BY DEF Meant, Who, Inv, LinksTyped
<1> QED  BY <1>2, <1>3, CanonicalType

LEMMA LedgerStep ==
  ASSUME Inv, IdentityTypeOK, LedgerTyped, [StandingsNext]_boards
  PROVE  LedgerTyped'
<1>1. CASE ledger' = ledger
  BY <1>1 DEF LedgerTyped
<1>2. CASE ledger' # ledger
  <2>1. PICK payer \in Who :
           ledger' = [p \in DOMAIN ledger \cup {payer} |->
                        IF p = payer THEN Owed(p) - DuesBalance(payer) ELSE ledger[p]]
    BY <1>2, PaymentStep
  <2>2. PICK paid \in Int : paid = DuesBalance(payer)
    BY BalanceTyped
  <2>3. \A p \in DOMAIN ledger : ledger[p] \in Int
    BY DEF LedgerTyped
  <2>4. Owed(payer) - paid \in Int
    BY OwedTyped
  <2> QED  BY <2>1, <2>2, <2>3, <2>4 DEF LedgerTyped
<1> QED  BY <1>1, <1>2

LEMMA StandingsStep == StandingsInv /\ [StandingsNext]_boards => StandingsInv'
<1> SUFFICES ASSUME StandingsInv, [StandingsNext]_boards PROVE StandingsInv'
  OBVIOUS
<1>1. Inv'
  BY BoardsKeepInv DEF StandingsInv
<1>2. IdentityTypeOK' /\ OneVerdict' /\ known \subseteq known'
  <2>1. CASE [Next]_vars
    <3>1. known \subseteq known'
      BY <2>1 DEF Next, vars, ListIdentities, Link, Dismiss, Unmerge, Discard, Undiscard,
         MarkStandalone, UnmarkStandalone, MarkPaid, GuestPlays, MemberLeaves, MemberVotes, people
    <3> QED  BY <1>1, <2>1, <3>1, TypeStep, VerdictStep DEF StandingsInv
  <2>2. CASE ~[Next]_vars
    BY <1>1, <2>2, BoardStep DEF StandingsInv, Inv, LinksTyped, IdentityTypeOK, OneVerdict, links, verdicts
  <2> QED  BY <2>1, <2>2
<1>3. GamesTyped' /\ ToldOnce' /\ LedgerTyped'
  BY <1>2, GamesStep, ToldStep, LedgerStep DEF StandingsInv
<1> QED  BY <1>1, <1>2, <1>3 DEF StandingsInv

-----------------------------------------------------------------------------
\* Every screen shows the same games for a person, a merge loses and invents
\* none, a milestone is told once, and the merge page keeps one verdict a name
\* and offers no rejected pair: whatever was merged, unmerged, played, cancelled
\* or marked in between (db.py, services/stats.py, badges.py, identity.py).
THEOREM StandingsCorrect == StandingsSpec => []StandingsOK
<1>1. StandingsInv => StandingsOK
  BY SuggestionsHold, ScreensAgreeHolds, SessionsMatchHolds, NoGameLostHolds, StreaksFitHolds
     DEF StandingsInv, StandingsOK, IdentityOK
<1> QED  BY <1>1, StandingsInitInv, StandingsStep, PTL DEF StandingsSpec

\* What the profile shows for who was IN in the last game.
ReachedIsShown ==
  games # << >> =>
    \A s \in Spelled : \A r \in GamesReached(s) :
      IsPerson(r[1]) /\ OneSpelling(r[1]) => Attended(r[1]) = r[2]

LEMMA ReachedShown == StandingsInv => ReachedIsShown
<1> SUFFICES ASSUME StandingsInv, games # << >>, NEW s \in Spelled, NEW r \in GamesReached(s),
                    IsPerson(r[1]), OneSpelling(r[1])
             PROVE  Attended(r[1]) = r[2]
  BY DEF ReachedIsShown
<1>0. IdentityTypeOK /\ GamesTyped
  BY DEF StandingsInv
<1>1. Len(games) \in Ended
  <2>1. PICK R : games \in Seq(R)
    BY <1>0 DEF GamesTyped
  <2> QED  BY <2>1, EmptySeq DEF Ended
<1> DEFINE game == games[Len(games)]
<1>2. DOMAIN game.members \subseteq Member /\ DOMAIN game.guests \subseteq Name
  BY <1>0, <1>1, EndedFacts, ListsFacts
<1>3. PICK w \in Who : r = <<Canonical(w), IdentityStats(w, s).attended>>
  <2>1. PICK w : /\ w \in DOMAIN game.members \cup {Low[n] : n \in DOMAIN game.guests}
                 /\ r = <<Canonical(w), IdentityStats(w, s).attended>>
    BY DEF GamesReached
  <2> HIDE DEF game
  <2>2. w \in Who
    BY <1>2, <2>1, NamesLow DEF Who
  <2> QED  BY <2>1, <2>2
<1>4. PICK c \in Who : c = Canonical(w)
  BY <1>0, CanonicalType
<1>5. r[1] = c /\ r[2] = IdentityStats(w, s).attended
  BY <1>3, <1>4
<1>6. AliasGroup(w) = AliasGroup(c)
  BY <1>4, <1>5 DEF AliasGroup, IsPerson
<1>7. IdentityStats(w, s) = IdentityStats(c, s)
  BY <1>6 DEF IdentityStats
<1>8. IdentityStats(c, s) = ExportRow(c)
  BY <1>0, <1>5, ProfileAgrees
<1> QED  BY <1>5, <1>7, <1>8 DEF ExportRow

\* The number announced at the end of a game is the one the board shows then
\* (collect_badges, identity_stats).
THEOREM MilestonesReal == StandingsSpec => MilestonesAreReal
<1> DEFINE Step == \A p \in stamps' \ stamps :
                     (IsPerson(p[1]) /\ OneSpelling(p[1]))' => (Attended(p[1]))' = p[2]
<1>1. StandingsInv /\ ReachedIsShown' /\ [StandingsNext]_boards => [Step]_stamps
  <2> SUFFICES ASSUME StandingsInv, ReachedIsShown', [StandingsNext]_boards, stamps' # stamps,
                      NEW p \in stamps' \ stamps, (IsPerson(p[1]) /\ OneSpelling(p[1]))'
               PROVE  (Attended(p[1]))' = p[2]
    OBVIOUS
  <2>1. /\ games' # << >>
        /\ \E s \in Spelled : \E R :
             /\ R = (GamesReached(s))'
             /\ stamps' = stamps \cup {<<r[1], r[2], Len(games')>> : r \in CollectBadges(R)}
    BY NewStamps DEF StandingsInv
  <2>3. PICK s \in Spelled : \E R :
             /\ R = (GamesReached(s))'
             /\ stamps' = stamps \cup {<<r[1], r[2], Len(games')>> : r \in CollectBadges(R)}
    BY <2>1
  <2>4. PICK R :
             /\ R = (GamesReached(s))'
             /\ stamps' = stamps \cup {<<r[1], r[2], Len(games')>> : r \in CollectBadges(R)}
    BY <2>3
  <2>2. PICK r \in R : p[1] = r[1] /\ p[2] = r[2]
    BY <2>4 DEF CollectBadges
  <2> QED  BY <2>1, <2>2, <2>4 DEF ReachedIsShown
<1>2. StandingsSpec => [][Step]_stamps
  BY <1>1, ReachedShown, StandingsInitInv, StandingsStep, PTL DEF StandingsSpec
<1> QED  BY <1>2 DEF MilestonesAreReal

-----------------------------------------------------------------------------
\* The balances of a person, from any ledger.
LEMMA BalanceOfNames ==
  ASSUME IdentityTypeOK, NEW led, DOMAIN led \subseteq Who, \A w \in DOMAIN led : led[w] \in Int,
         NEW c \in Who, IsPerson(c), c \notin LinksTo(c),
         NEW G, G = LinksTo(c) \cup {c}
  PROVE  LET owed == [w \in G |-> IF w \in DOMAIN led THEN led[w] ELSE 0]
         IN /\ owed \in [G -> Int] /\ IsFiniteSet(G)
            /\ SumFunction([w \in {w \in DOMAIN led : Canonical(w) = c} |-> led[w]]) = SumFunction(owed)
<1> DEFINE owed == [w \in G |-> IF w \in DOMAIN led THEN led[w] ELSE 0]
           D == {w \in DOMAIN led : Canonical(w) = c}
           g == [w \in D |-> led[w]]
<1>1. IsFiniteSet(G) /\ G \subseteq Who
  BY IdentityAssumption, FS_Subset DEF LinksTo, Who
<1>2. \A w \in Who : Canonical(w) = c <=> w \in G
  <2> SUFFICES ASSUME NEW w \in Who PROVE Canonical(w) = c <=> w \in G
    OBVIOUS
  <2>1. CASE w \in Member
    <3>1. Canonical(w) = w /\ w \notin LinksTo(c)
      BY <2>1, IdentityAssumption DEF Canonical, LinksTo
    <3> QED  BY <3>1
  <2>2. CASE w \in LowName
    BY <2>2, WhoIsRead
  <2> QED  BY <2>1, <2>2 DEF Who
<1>3. D \in SUBSET G /\ \A w \in G \ D : w \notin DOMAIN led
  BY <1>1, <1>2
<1>4. owed \in [G -> Int] /\ \A w \in G \ D : owed[w] = 0
  BY <1>3
<1>5. g = [w \in D |-> owed[w]]
  BY <1>3
<1> HIDE DEF owed, g, D
<1>6. SumFunction(owed) = SumFunction(g)
  BY <1>1, <1>3, <1>4, <1>5, SumSupport
<1> QED  BY <1>1, <1>4, <1>6 DEF owed, g, D

\* Paying what a person is asked for leaves the person with nothing owed on the
\* list of balances (mark_paid, get_dues_balances).
THEOREM PaidInFullHolds == StandingsSpec => PaidInFull
<1> DEFINE Step == \A w \in DOMAIN ledger' :
                     (Owed(w))' < Owed(w) /\ Canonical(w) \notin auto
                     => (Balances(Canonical(w)))' = 0
<1>1. StandingsInv /\ StandingsInv' /\ [StandingsNext]_boards => [Step]_ledger
  <2> SUFFICES ASSUME StandingsInv, StandingsInv', [StandingsNext]_boards, ledger' # ledger,
                      NEW w \in DOMAIN ledger', (Owed(w))' < Owed(w), Canonical(w) \notin auto
               PROVE  (Balances(Canonical(w)))' = 0
    OBVIOUS
  <2>0. /\ Inv /\ IdentityTypeOK /\ LedgerTyped
        /\ DOMAIN ledger \subseteq Who /\ DOMAIN ledger' \subseteq Who
        /\ \A p \in DOMAIN ledger : ledger[p] \in Int
        /\ \A p \in DOMAIN ledger' : ledger'[p] \in Int
    BY DEF StandingsInv, IdentityTypeOK, LedgerTyped
  <2>1. PICK payer \in Who :
           /\ \E a \in Who : payer = Canonical(a)
           /\ UNCHANGED links
           /\ ledger' = [p \in DOMAIN ledger \cup {payer} |->
                           IF p = payer THEN Owed(p) - DuesBalance(payer) ELSE ledger[p]]
    BY <2>0, PaymentStep
  <2>2. w = payer
    <3> SUFFICES ASSUME w # payer PROVE FALSE
      OBVIOUS
    <3>1. w \in DOMAIN ledger /\ ledger'[w] = ledger[w]
      BY <2>1
    <3>2. (Owed(w))' = ledger[w] /\ Owed(w) = ledger[w] /\ ledger[w] \in Int
      BY <2>0, <3>1 DEF Owed
    <3> QED  BY <3>2
  <2>3. PICK c \in Who : c = Canonical(payer)
    BY <2>0, CanonicalType
  <2>4. IsPerson(c) /\ c \notin LinksTo(c)
    <3>0. c \notin auto
      BY <2>2, <2>3
    <3>1. c \notin LinksTo(c)
      <4> SUFFICES ASSUME c \in LinksTo(c) PROVE FALSE
        OBVIOUS
      <4>1. c \in LowName /\ link[c] = c /\ c # Unlinked
        BY IdentityAssumption DEF LinksTo
      <4> QED  BY <2>0, <3>0, <4>1 DEF Inv, OneHop
    <3>2. CASE payer \in Member \/ link[payer] = Unlinked
      BY <2>3, <3>1, <3>2 DEF IsPerson, Canonical
    <3>3. CASE payer \in LowName /\ link[payer] # Unlinked
      <4>1. c = link[payer]
        BY <2>3, <3>3, IdentityAssumption DEF Canonical
      <4>2. c \in LowName => link[c] = Unlinked
        BY <2>0, <3>0, <3>3, <4>1 DEF Inv, OneHop
      <4> QED  BY <3>1, <4>2 DEF IsPerson, Canonical, Who
    <3> QED  BY <3>1, <3>2, <3>3 DEF Who
  <2>5. PICK G : G = LinksTo(c) \cup {c}
    OBVIOUS
  <2> DEFINE before == [p \in G |-> IF p \in DOMAIN ledger THEN ledger[p] ELSE 0]
             after == [p \in G |-> IF p \in DOMAIN ledger' THEN ledger'[p] ELSE 0]
  <2>6. payer \in G
    BY <2>3, <2>5 DEF Canonical, LinksTo, Who
  <2>7. before \in [G -> Int] /\ IsFiniteSet(G)
    BY <2>0, <2>4, <2>5, BalanceOfNames
  <2>8. PICK led : led = ledger'
    OBVIOUS
  <2>9. /\ after \in [G -> Int]
        /\ SumFunction([p \in {p \in DOMAIN led : Canonical(p) = c} |-> led[p]]) = SumFunction(after)
    <3>1. DOMAIN led \subseteq Who /\ \A p \in DOMAIN led : led[p] \in Int
      BY <2>0, <2>8
    <3>2. PICK x : x = [p \in G |-> IF p \in DOMAIN led THEN led[p] ELSE 0]
      OBVIOUS
    <3>3. x \in [G -> Int] /\ SumFunction([p \in {p \in DOMAIN led : Canonical(p) = c} |-> led[p]]) = SumFunction(x)
      BY <2>0, <2>4, <2>5, <3>1, <3>2, BalanceOfNames
    <3>4. x = after
      BY <2>8, <3>2
    <3> QED  BY <3>3, <3>4
  <2>10. (Balances(Canonical(w)))' = SumFunction(after)
    <3>1. link' = link
      BY <2>1 DEF links
    <3>2. Canonical(w) = c
      BY <2>2, <2>3
    <3>3. (Balances(Canonical(w)))' = SumFunction([p \in {p \in DOMAIN ledger' : Canonical(p) = c} |-> ledger'[p]])
      BY <3>1, <3>2 DEF Balances, Canonical
    <3> QED  BY <2>8, <2>9, <3>3
  <2>11. DuesBalance(payer) = SumFunction(before)
    <3> DEFINE rest == [l \in LinksTo(c) |-> Owed(l)]
    <3>1. DuesBalance(payer) = Owed(c) + SumFunction(rest)
      BY <2>3 DEF DuesBalance, AliasGroup
    <3>2. G \ {c} = LinksTo(c) /\ c \in G
      BY <2>4, <2>5
    <3>3. rest = [l \in G \ {c} |-> before[l]]
      BY <3>2 DEF Owed
    <3>4. before[c] = Owed(c)
      BY <3>2 DEF Owed
    <3> HIDE DEF rest, before
    <3>5. SumFunction(before) = before[c] + SumFunction(rest)
      BY <2>7, <3>2, <3>3, SumSplit
    <3> QED  BY <3>1, <3>4, <3>5
  <2>12. /\ before[payer] = Owed(payer) /\ after[payer] = Owed(payer) - DuesBalance(payer)
         /\ \A p \in G \ {payer} : after[p] = before[p]
    BY <2>1, <2>6 DEF Owed
  <2>13. DuesBalance(payer) \in Int /\ Owed(payer) \in Int
    BY <2>0, BalanceTyped, OwedTyped
  <2> HIDE DEF before, after
  <2>14. SumFunction(after) = SumFunction(before) + (after[payer] - before[payer])
    BY <2>6, <2>7, <2>9, <2>12, SumChange
  <2>15. SumFunction(after) = 0
    BY <2>11, <2>12, <2>13, <2>14
  <2> QED  BY <2>10, <2>15
<1>2. StandingsSpec => [][Step]_ledger
  BY <1>1, StandingsInitInv, StandingsStep, PTL DEF StandingsSpec
<1> QED  BY <1>2 DEF PaidInFull

-----------------------------------------------------------------------------
(***************************************************************************)
(* Sign-ins.  The inductive invariant has a part per kind of sign-in; the  *)
(* kinds share what browsers were given and who was identified.            *)
(***************************************************************************)
GivenOK ==
  /\ signedIn \in [Code \cup WebLink -> Seq(Person)]
  /\ identity \subseteq Person /\ bound \subseteq Person

\* A code names at most the one person who was told so, from the mark on; a
\* browser is given that person, and only once the code is used.
DeepLinkInv ==
  /\ verify \in [Code -> [state : {"none", "live", "expired"},
                          by : Person \cup {NoOne}, used : BOOLEAN]]
  /\ asked \subseteq Code \X Person /\ polls \in [Code -> 0..2]
  /\ told \in [Code -> SUBSET Person]
  /\ \A c \in Code :
       /\ told[c] = IF verify[c].by = NoOne THEN {} ELSE {verify[c].by}
       /\ verify[c].used => verify[c].by # NoOne
       /\ signedIn[c] # << >> => verify[c].used /\ signedIn[c] = << verify[c].by >>

\* A link signs nobody in before it is used, and then whom it was issued for.
IssuedLinkInv ==
  /\ weblink \in [WebLink -> [state : {"none", "live", "used", "expired"},
                              for : Person \cup {NoOne}, sent : BOOLEAN]]
  /\ \A l \in WebLink :
       /\ weblink[l].state # "none" => weblink[l].for \in Person
       /\ signedIn[l] # << >> => weblink[l].state = "used" /\ signedIn[l] = << weblink[l].for >>

\* Personal codes are numbered as they are made.
MyCodeInv ==
  /\ issued \in 0..MaxIssued
  /\ mycode \cup ended \cup held \subseteq Person \X (1..issued)
  /\ OneCodeEach

PrincipalInv ==
  /\ unbound \in [Person -> 0..2] /\ bindings \subseteq Person
  /\ principals \in [Person -> Nat] /\ OnePrincipalEach

SignInInv == GivenOK /\ DeepLinkInv /\ IssuedLinkInv /\ MyCodeInv /\ PrincipalInv

\* A sequence of one.
LEMMA OneElement ==
  ASSUME NEW x
  PROVE  Len(<< x >>) = 1 /\ DOMAIN << x >> = {1} /\ << x >>[1] = x
OBVIOUS

\* The invariant holds what the run checks.
LEMMA SignInInvOK == SignInInv => SignInsOK
<1> SUFFICES ASSUME SignInInv PROVE SignInsOK
  OBVIOUS
<1>1. SignInTypeOK
  <2>1. mycode \subseteq Person \X (1..MaxIssued)
    <3>1. mycode \subseteq Person \X (1..issued) /\ 1..issued \subseteq 1..MaxIssued
      BY WebSignInAssumption DEF SignInInv, MyCodeInv
    <3> QED  BY <3>1
  <2> QED  BY <2>1 DEF SignInInv, GivenOK, DeepLinkInv, IssuedLinkInv, MyCodeInv,
                       PrincipalInv, SignInTypeOK
<1>2. ASSUME NEW c \in Code
      PROVE  /\ Cardinality(told[c]) <= 1 /\ Len(signedIn[c]) <= 1
             /\ \A i \in DOMAIN signedIn[c] : signedIn[c][i] \in told[c]
  <2>1. Cardinality(told[c]) <= 1
    <3>1. told[c] = {} \/ told[c] = {verify[c].by}
      BY DEF SignInInv, DeepLinkInv
    <3>2. Cardinality(told[c]) = 0 \/ Cardinality(told[c]) = 1
      BY <3>1, FS_EmptySet, FS_Singleton, Zenon
    <3> QED  BY <3>2
  <2>2. CASE signedIn[c] = << >>
    BY <2>1, <2>2
  <2>3. CASE signedIn[c] # << >>
    <3>1. signedIn[c] = << verify[c].by >> /\ told[c] = {verify[c].by}
      BY <2>3 DEF SignInInv, DeepLinkInv
    <3>2. Len(signedIn[c]) = 1 /\ DOMAIN signedIn[c] = {1} /\ signedIn[c][1] = verify[c].by
      BY <3>1, OneElement, Zenon
    <3> QED  BY <2>1, <3>1, <3>2
  <2> QED  BY <2>2, <2>3
<1>3. ASSUME NEW l \in WebLink
      PROVE  /\ Len(signedIn[l]) <= 1
             /\ \A i \in DOMAIN signedIn[l] : signedIn[l][i] = weblink[l].for
  <2>1. CASE signedIn[l] = << >>
    BY <2>1
  <2>2. CASE signedIn[l] # << >>
    <3>1. signedIn[l] = << weblink[l].for >>
      BY <2>2 DEF SignInInv, IssuedLinkInv
    <3>2. Len(signedIn[l]) = 1 /\ DOMAIN signedIn[l] = {1} /\ signedIn[l][1] = weblink[l].for
      BY <3>1, OneElement, Zenon
    <3> QED  BY <3>1, <3>2
  <2> QED  BY <2>1, <2>2
<1> QED  BY <1>1, <1>2, <1>3 DEF SignInsOK, OneSignInEach, SignInInv, MyCodeInv, PrincipalInv

\* It holds where sign-ins begin.
LEMMA SignInInitInv == SignInInit => SignInInv
<1> SUFFICES ASSUME SignInInit PROVE SignInInv
  OBVIOUS
<1> USE WebSignInAssumption DEF SignInInit, NoRow
<1>1. GivenOK
  <2>1. << >> \in Seq(Person)
    BY EmptySeq
  <2> QED  BY <2>1 DEF GivenOK
<1>2. DeepLinkInv
  BY DEF DeepLinkInv
<1>3. IssuedLinkInv
  BY DEF IssuedLinkInv
<1>4. MyCodeInv
  BY DEF MyCodeInv, OneCodeEach
<1>5. PrincipalInv
  BY DEF PrincipalInv, OnePrincipalEach
<1> QED  BY <1>1, <1>2, <1>3, <1>4, <1>5 DEF SignInInv

\* Looking for a principal makes none.
LEMMA RecordKeeps ==
  ASSUME PrincipalInv, NEW p \in Person, Record(p)
  PROVE  PrincipalInv'
<1>1. UNCHANGED << principals, bindings >>
  BY DEF Record
<1>2. unbound' \in [Person -> 0..2]
  <2>1. CASE p \in bindings \/ unbound[p] = 2
    BY <2>1 DEF PrincipalInv, Record
  <2>2. CASE ~(p \in bindings \/ unbound[p] = 2)
    <3>1. unbound \in [Person -> 0..2] /\ unbound[p] + 1 \in 0..2
      BY <2>2 DEF PrincipalInv
    <3>2. unbound' = [unbound EXCEPT ![p] = unbound[p] + 1]
      BY <2>2 DEF Record
    <3> QED  BY <3>1, <3>2
  <2> QED  BY <2>1, <2>2
<1> QED  BY <1>1, <1>2 DEF PrincipalInv, OnePrincipalEach

\* The parts no step of another kind touches.
LEMMA PartsUnchanged ==
  ASSUME SignInInv
  PROVE  /\ UNCHANGED << verify, asked, polls, told >> /\ UNCHANGED signedIn => DeepLinkInv'
         /\ UNCHANGED << weblink, signedIn >> => IssuedLinkInv'
         /\ UNCHANGED mytokenVars => MyCodeInv'
         /\ UNCHANGED principalVars => PrincipalInv'
         /\ UNCHANGED << signedIn, identity, bound >> => GivenOK'
<1>1. UNCHANGED << verify, asked, polls, told >> /\ UNCHANGED signedIn => DeepLinkInv'
  BY DEF SignInInv, DeepLinkInv
<1>2. UNCHANGED << weblink, signedIn >> => IssuedLinkInv'
  BY DEF SignInInv, IssuedLinkInv
<1>3. UNCHANGED mytokenVars => MyCodeInv'
  BY DEF SignInInv, MyCodeInv, mytokenVars, OneCodeEach
<1>4. UNCHANGED principalVars => PrincipalInv'
  BY DEF SignInInv, PrincipalInv, principalVars, OnePrincipalEach
<1>5. UNCHANGED << signedIn, identity, bound >> => GivenOK'
  BY DEF SignInInv, GivenOK
<1> QED  BY <1>1, <1>2, <1>3, <1>4, <1>5, Zenon

\* What a browser is given by a code or link that gave nothing yet.
LEMMA FirstGiven ==
  ASSUME GivenOK, NEW c \in Code \cup WebLink, NEW p \in Person,
         GivenBy(c, p), signedIn[c] = << >>
  PROVE  /\ signedIn' \in [Code \cup WebLink -> Seq(Person)]
         /\ signedIn'[c] = << p >>
         /\ \A d \in (Code \cup WebLink) \ {c} : signedIn'[d] = signedIn[d]
<1>1. Append(signedIn[c], p) = << p >> /\ << p >> \in Seq(Person)
  <2>1. Append(signedIn[c], p) = << p >>
    BY AppendProperties, EmptySeq
  <2> QED  BY <2>1
<1> QED  BY <1>1 DEF GivenOK, GivenBy

-----------------------------------------------------------------------------
\* The deep link's steps.
LEMMA DeepLinkStep ==
  ASSUME SignInInv, NEW c \in Code,
         \/ Start(c) \/ PollReads(c) \/ PollTakes(c) \/ CodeExpires(c)
         \/ \E p \in Person : OpenDeepLink(c, p) \/ Confirm(c, p)
  PROVE  SignInInv'
<1> USE DEF verifyVars, linkVars, mytokenVars, principalVars
<1>0. GivenOK /\ DeepLinkInv /\ IssuedLinkInv /\ MyCodeInv /\ PrincipalInv
  BY DEF SignInInv
<1>1. CASE Start(c)
  <2>1. DeepLinkInv'
    BY <1>0, <1>1, WebSignInAssumption DEF Start, DeepLinkInv, NoRow, FreshRow
  <2>2. IssuedLinkInv' /\ MyCodeInv' /\ PrincipalInv' /\ GivenOK'
    BY <1>1, PartsUnchanged DEF Start
  <2> QED  BY <2>1, <2>2 DEF SignInInv
<1>2. CASE \E p \in Person : OpenDeepLink(c, p)
  <2>1. DeepLinkInv'
    BY <1>0, <1>2 DEF OpenDeepLink, DeepLinkInv
  <2>2. IssuedLinkInv' /\ MyCodeInv' /\ PrincipalInv' /\ GivenOK'
    BY <1>2, PartsUnchanged DEF OpenDeepLink
  <2> QED  BY <2>1, <2>2 DEF SignInInv
<1>3. CASE \E p \in Person : Confirm(c, p)
  <2>0. PICK p \in Person : Confirm(c, p)
    BY <1>3
  <2>1. DeepLinkInv'
    <3>1. UNCHANGED << polls, signedIn >> /\ asked' \subseteq asked
      BY <2>0 DEF Confirm
    <3>2. CASE UNCHANGED << verify, told >>
      BY <1>0, <3>1, <3>2 DEF DeepLinkInv
    <3>3. CASE /\ MayMark(c) /\ verify' = [verify EXCEPT ![c].by = p]
               /\ told' = [told EXCEPT ![c] = @ \cup {p}]
      <4>1. told[c] = {} /\ p # NoOne /\ ~verify[c].used /\ signedIn[c] = << >>
        BY <1>0, <3>3, WebSignInAssumption DEF MayMark, DeepLinkInv
      <4>2. /\ verify' \in [Code -> [state : {"none", "live", "expired"},
                                      by : Person \cup {NoOne}, used : BOOLEAN]]
            /\ verify'[c].by = p /\ verify'[c].used = verify[c].used
            /\ \A d \in Code \ {c} : verify'[d] = verify[d]
        BY <1>0, <3>3 DEF DeepLinkInv
      <4>3. /\ told' \in [Code -> SUBSET Person] /\ told'[c] = {p}
            /\ \A d \in Code \ {c} : told'[d] = told[d]
        BY <1>0, <3>3, <4>1 DEF DeepLinkInv
      <4> QED  BY <1>0, <3>1, <4>1, <4>2, <4>3 DEF DeepLinkInv
    <3> QED  BY <2>0, <3>2, <3>3 DEF Confirm
  <2>2. IssuedLinkInv' /\ MyCodeInv' /\ PrincipalInv' /\ GivenOK'
    BY <2>0, PartsUnchanged DEF Confirm
  <2> QED  BY <2>1, <2>2 DEF SignInInv
<1>4. CASE PollReads(c)
  <2>1. polls' \in [Code -> 0..2]
    <3>1. polls \in [Code -> 0..2] /\ polls[c] + 1 \in 0..2
      BY <1>0, <1>4 DEF PollReads, DeepLinkInv
    <3> QED  BY <1>4, <3>1 DEF PollReads
  <2>2. DeepLinkInv'
    BY <1>0, <1>4, <2>1 DEF PollReads, DeepLinkInv
  <2>3. IssuedLinkInv' /\ MyCodeInv' /\ PrincipalInv' /\ GivenOK'
    BY <1>4, PartsUnchanged DEF PollReads
  <2> QED  BY <2>2, <2>3 DEF SignInInv
<1>5. CASE PollTakes(c)
  <2>1. polls' \in [Code -> 0..2]
    <3>1. polls \in [Code -> 0..2] /\ polls[c] - 1 \in 0..2
      BY <1>0, <1>5 DEF PollTakes, DeepLinkInv
    <3> QED  BY <1>5, <3>1 DEF PollTakes
  <2>2. MyCodeInv' /\ UNCHANGED << asked, told, weblink, bound >>
    BY <1>5, PartsUnchanged DEF PollTakes
  <2>3. CASE UNCHANGED << verify, identity, signedIn, principalVars >>
    <3>1. DeepLinkInv'
      BY <1>0, <2>1, <2>2, <2>3 DEF DeepLinkInv
    <3>2. IssuedLinkInv' /\ PrincipalInv' /\ GivenOK'
      BY <2>2, <2>3, PartsUnchanged
    <3> QED  BY <2>2, <3>1, <3>2 DEF SignInInv
  <2>4. CASE MayConsume(c) /\ verify' = [verify EXCEPT ![c].used = TRUE]
    <3>1. verify[c].by \in Person /\ signedIn[c] = << >>
      BY <1>0, <2>4 DEF MayConsume, DeepLinkInv
    <3>2. /\ verify' \in [Code -> [state : {"none", "live", "expired"},
                                    by : Person \cup {NoOne}, used : BOOLEAN]]
          /\ verify'[c].by = verify[c].by /\ verify'[c].used
          /\ \A d \in Code \ {c} : verify'[d] = verify[d]
      BY <1>0, <2>4 DEF DeepLinkInv
    <3>3. CASE UNCHANGED << identity, signedIn, principalVars >>
      <4>1. DeepLinkInv'
        BY <1>0, <2>1, <2>2, <3>1, <3>2, <3>3, WebSignInAssumption DEF DeepLinkInv
      <4>2. IssuedLinkInv' /\ PrincipalInv' /\ GivenOK'
        BY <2>2, <3>3, PartsUnchanged
      <4> QED  BY <2>2, <4>1, <4>2 DEF SignInInv
    <3>4. CASE /\ identity' = identity \cup {verify[c].by}
               /\ GivenBy(c, verify[c].by) /\ Record(verify[c].by)
      <4>1. /\ signedIn' \in [Code \cup WebLink -> Seq(Person)]
            /\ signedIn'[c] = << verify[c].by >>
            /\ \A d \in (Code \cup WebLink) \ {c} : signedIn'[d] = signedIn[d]
        BY <1>0, <3>1, <3>4, FirstGiven
      <4>2. DeepLinkInv'
        <5>1. ASSUME NEW d \in Code
              PROVE  /\ told'[d] = IF verify'[d].by = NoOne THEN {} ELSE {verify'[d].by}
                     /\ verify'[d].used => verify'[d].by # NoOne
                     /\ signedIn'[d] # << >> =>
                          verify'[d].used /\ signedIn'[d] = << verify'[d].by >>
          <6>1. CASE d = c
            BY <1>0, <2>2, <3>1, <3>2, <4>1, <6>1, WebSignInAssumption DEF DeepLinkInv
          <6>2. CASE d # c
            BY <1>0, <2>2, <3>2, <4>1, <6>2 DEF DeepLinkInv
          <6> QED  BY <6>1, <6>2
        <5> QED  BY <1>0, <2>1, <2>2, <3>2, <5>1 DEF DeepLinkInv
      <4>3. IssuedLinkInv'
        BY <1>0, <2>2, <4>1, WebSignInAssumption DEF IssuedLinkInv
      <4>4. PrincipalInv' /\ GivenOK'
        BY <1>0, <2>2, <3>1, <3>4, <4>1, RecordKeeps DEF GivenOK
      <4> QED  BY <2>2, <4>2, <4>3, <4>4 DEF SignInInv
    <3> QED  BY <1>5, <2>4, <3>3, <3>4 DEF PollTakes
  <2> QED  BY <1>5, <2>3, <2>4 DEF PollTakes
<1>6. CASE CodeExpires(c)
  <2>1. /\ verify' \in [Code -> [state : {"none", "live", "expired"},
                                  by : Person \cup {NoOne}, used : BOOLEAN]]
        /\ \A d \in Code : verify'[d].by = verify[d].by /\ verify'[d].used = verify[d].used
    BY <1>0, <1>6 DEF CodeExpires, DeepLinkInv
  <2>2. DeepLinkInv'
    BY <1>0, <1>6, <2>1 DEF CodeExpires, DeepLinkInv
  <2>3. IssuedLinkInv' /\ MyCodeInv' /\ PrincipalInv' /\ GivenOK'
    BY <1>6, PartsUnchanged DEF CodeExpires
  <2> QED  BY <2>2, <2>3 DEF SignInInv
<1> QED  BY <1>1, <1>2, <1>3, <1>4, <1>5, <1>6

\* The steps of a link issued for a member.
LEMMA IssuedLinkStep ==
  ASSUME SignInInv, NEW l \in WebLink,
         \/ SendLink(l) \/ Redeem(l) \/ LinkExpires(l)
         \/ \E p \in Person : Issue(l, p)
  PROVE  SignInInv'
<1> USE DEF verifyVars, linkVars, mytokenVars, principalVars
<1> DEFINE Rows == [WebLink -> [state : {"none", "live", "used", "expired"},
                                for : Person \cup {NoOne}, sent : BOOLEAN]]
<1>0. GivenOK /\ DeepLinkInv /\ IssuedLinkInv /\ MyCodeInv /\ PrincipalInv
  BY DEF SignInInv
<1>1. CASE \E p \in Person : Issue(l, p)
  <2>1. IssuedLinkInv'
    BY <1>0, <1>1 DEF Issue, IssuedLinkInv
  <2>2. DeepLinkInv' /\ MyCodeInv' /\ PrincipalInv' /\ GivenOK'
    BY <1>1, PartsUnchanged DEF Issue
  <2> QED  BY <2>1, <2>2 DEF SignInInv
<1>2. CASE SendLink(l)
  <2>1. /\ weblink' \in Rows /\ UNCHANGED signedIn
        /\ weblink'[l].state \in {"live", "used"} /\ weblink'[l].for = weblink[l].for
        /\ weblink[l].state = "live"
        /\ \A k \in WebLink \ {l} : weblink'[k] = weblink[k]
    BY <1>0, <1>2 DEF SendLink, Burned, IssuedLinkInv
  <2>2. IssuedLinkInv'
    BY <1>0, <2>1 DEF IssuedLinkInv
  <2>3. DeepLinkInv' /\ MyCodeInv' /\ PrincipalInv' /\ GivenOK'
    BY <1>2, PartsUnchanged DEF SendLink
  <2> QED  BY <2>2, <2>3 DEF SignInInv
<1>3. CASE Redeem(l)
  <2>1. /\ weblink' \in Rows
        /\ weblink'[l].state = "used" /\ weblink'[l].for = weblink[l].for
        /\ weblink[l].state = "live"
        /\ \A k \in WebLink \ {l} : weblink'[k] = weblink[k]
    BY <1>0, <1>3 DEF Redeem, MayRedeem, IssuedLinkInv
  <2>2. weblink[l].for \in Person /\ signedIn[l] = << >>
    BY <1>0, <2>1 DEF IssuedLinkInv
  <2>3. MyCodeInv' /\ UNCHANGED << verify, asked, polls, told, identity >>
    BY <1>3, PartsUnchanged DEF Redeem
  <2>4. CASE UNCHANGED << bound, signedIn, principalVars >>
    <3>1. IssuedLinkInv'
      BY <1>0, <2>1, <2>4 DEF IssuedLinkInv
    <3>2. DeepLinkInv' /\ PrincipalInv' /\ GivenOK'
      BY <2>3, <2>4, PartsUnchanged
    <3> QED  BY <2>3, <3>1, <3>2 DEF SignInInv
  <2>5. CASE /\ bound' = bound \cup {weblink[l].for}
             /\ GivenBy(l, weblink[l].for) /\ Record(weblink[l].for)
    <3>1. /\ signedIn' \in [Code \cup WebLink -> Seq(Person)]
          /\ signedIn'[l] = << weblink[l].for >>
          /\ \A d \in (Code \cup WebLink) \ {l} : signedIn'[d] = signedIn[d]
      BY <1>0, <2>2, <2>5, FirstGiven
    <3>2. IssuedLinkInv'
      BY <1>0, <2>1, <2>2, <3>1 DEF IssuedLinkInv
    <3>3. DeepLinkInv'
      BY <1>0, <2>3, <3>1, WebSignInAssumption DEF DeepLinkInv
    <3>4. PrincipalInv' /\ GivenOK'
      BY <1>0, <2>2, <2>3, <2>5, <3>1, RecordKeeps DEF GivenOK
    <3> QED  BY <2>3, <3>2, <3>3, <3>4 DEF SignInInv
  <2> QED  BY <1>3, <2>4, <2>5 DEF Redeem
<1>4. CASE LinkExpires(l)
  <2>1. /\ weblink' \in Rows /\ UNCHANGED signedIn
        /\ weblink'[l].for = weblink[l].for /\ weblink[l].state = "live"
        /\ \A k \in WebLink \ {l} : weblink'[k] = weblink[k]
    BY <1>0, <1>4 DEF LinkExpires, IssuedLinkInv
  <2>2. IssuedLinkInv'
    BY <1>0, <2>1 DEF IssuedLinkInv
  <2>3. DeepLinkInv' /\ MyCodeInv' /\ PrincipalInv' /\ GivenOK'
    BY <1>4, PartsUnchanged DEF LinkExpires
  <2> QED  BY <2>2, <2>3 DEF SignInInv
<1> QED  BY <1>1, <1>2, <1>3, <1>4

\* The steps of the personal code, the widget and the principals.
LEMMA PersonStep ==
  ASSUME SignInInv, NEW p \in Person,
         \/ WidgetLogin(p) \/ MyToken(p) \/ MyTokenOff(p)
         \/ MakePrincipal(p) \/ Backfill(p)
  PROVE  SignInInv'
<1> USE DEF verifyVars, linkVars, mytokenVars, principalVars
<1>0. GivenOK /\ DeepLinkInv /\ IssuedLinkInv /\ MyCodeInv /\ PrincipalInv
  BY DEF SignInInv
<1>1. CASE WidgetLogin(p)
  <2>1. GivenOK'
    BY <1>0, <1>1 DEF WidgetLogin, GivenOK
  <2>2. PrincipalInv'
    BY <1>0, <1>1, RecordKeeps DEF WidgetLogin
  <2>3. DeepLinkInv' /\ IssuedLinkInv' /\ MyCodeInv'
    BY <1>1, PartsUnchanged DEF WidgetLogin
  <2> QED  BY <2>1, <2>2, <2>3 DEF SignInInv
<1>2. CASE MyToken(p)
  <2> DEFINE n == issued + 1
             new == << p, n >>
  <2>1. /\ issued \in Nat /\ n \in 1..MaxIssued /\ issued' = n
        /\ new \in Person \X (1..n) /\ 1..issued \subseteq 1..n
    BY <1>0, <1>2, WebSignInAssumption DEF MyToken, MyCodeInv
  <2>2. new \notin Person \X (1..issued)
    BY <2>1
  <2>3. /\ mycode' = (mycode \ Codes(p)) \cup {new}
        /\ ended' = ended \cup Codes(p)
        /\ held' \subseteq held \cup {new}
    BY <1>2 DEF MyToken, Replaced
  <2>4. Codes(p) \subseteq mycode /\ new[1] = p
        /\ \A row \in mycode \ Codes(p) : row[1] # p
    BY DEF Codes
  <2>5. /\ mycode \subseteq Person \X (1..issued) /\ ended \subseteq Person \X (1..issued)
        /\ held \subseteq Person \X (1..issued) /\ OneCodeEach
    BY <1>0 DEF MyCodeInv
  <2>6. Person \X (1..issued) \subseteq Person \X (1..n)
    BY <2>1
  <2>7. issued' \in 0..MaxIssued
    BY <2>1
  <2> HIDE DEF n, new
  <2>8. mycode' \cup ended' \cup held' \subseteq Person \X (1..issued')
    BY <2>1, <2>3, <2>4, <2>5, <2>6
  <2>9. OneCodeEach'
    <3>1. \A r1, r2 \in mycode' : r1[1] = r2[1] => r1 = r2
      BY <2>3, <2>4, <2>5 DEF OneCodeEach
    <3>2. mycode' \cap ended' = {}
      BY <2>2, <2>3, <2>4, <2>5 DEF OneCodeEach
    <3> QED  BY <3>1, <3>2 DEF OneCodeEach
  <2>10. MyCodeInv'
    BY <2>7, <2>8, <2>9 DEF MyCodeInv
  <2>11. DeepLinkInv' /\ IssuedLinkInv' /\ PrincipalInv' /\ GivenOK'
    BY <1>2, PartsUnchanged DEF MyToken
  <2> QED  BY <2>10, <2>11 DEF SignInInv
<1>3. CASE MyTokenOff(p)
  <2>1. MyCodeInv'
    BY <1>0, <1>3 DEF MyTokenOff, MyCodeInv, OneCodeEach, Codes
  <2>2. DeepLinkInv' /\ IssuedLinkInv' /\ PrincipalInv' /\ GivenOK'
    BY <1>3, PartsUnchanged DEF MyTokenOff
  <2> QED  BY <2>1, <2>2 DEF SignInInv
<1>4. CASE MakePrincipal(p)
  <2>1. unbound' \in [Person -> 0..2]
    <3>1. unbound \in [Person -> 0..2] /\ unbound[p] - 1 \in 0..2
      BY <1>0, <1>4 DEF MakePrincipal, PrincipalInv
    <3> QED  BY <1>4, <3>1 DEF MakePrincipal
  <2>2. principals' \in [Person -> Nat] /\ OnePrincipalEach'
    <3>1. CASE p \in bindings
      BY <1>0, <1>4, <3>1 DEF MakePrincipal, Made, PrincipalInv, OnePrincipalEach
    <3>2. CASE p \notin bindings
      <4>1. principals[p] = 0 /\ principals' = [principals EXCEPT ![p] = principals[p] + 1]
        BY <1>0, <1>4, <3>2 DEF MakePrincipal, Made, PrincipalInv, OnePrincipalEach
      <4>2. /\ principals' \in [Person -> Nat] /\ principals'[p] = 1
            /\ \A q \in Person \ {p} : principals'[q] = principals[q]
        BY <1>0, <4>1 DEF PrincipalInv
      <4>3. bindings' = bindings \cup {p}
        BY <1>4 DEF MakePrincipal
      <4> QED  BY <1>0, <4>2, <4>3 DEF PrincipalInv, OnePrincipalEach
    <3> QED  BY <3>1, <3>2
  <2>3. PrincipalInv'
    BY <1>0, <1>4, <2>1, <2>2 DEF MakePrincipal, PrincipalInv
  <2>4. DeepLinkInv' /\ IssuedLinkInv' /\ MyCodeInv' /\ GivenOK'
    BY <1>4, PartsUnchanged DEF MakePrincipal
  <2> QED  BY <2>3, <2>4 DEF SignInInv
<1>5. CASE Backfill(p)
  <2>1. PrincipalInv'
    BY <1>0, <1>5, RecordKeeps DEF Backfill
  <2>2. DeepLinkInv' /\ IssuedLinkInv' /\ MyCodeInv' /\ GivenOK'
    BY <1>5, PartsUnchanged DEF Backfill
  <2> QED  BY <2>1, <2>2 DEF SignInInv
<1> QED  BY <1>1, <1>2, <1>3, <1>4, <1>5

\* The widget's sign-in keeps it.
LEMMA MemberLoginStep ==
  ASSUME SignInInv, NEW code \in held, MemberLogin(code)
  PROVE  SignInInv'
<1> USE DEF verifyVars, linkVars, mytokenVars, principalVars
<1>1. code[1] \in Person
  BY DEF SignInInv, MyCodeInv
<1>2. GivenOK'
  BY <1>1 DEF SignInInv, MemberLogin, GivenOK
<1>3. PrincipalInv'
  BY <1>1, RecordKeeps DEF SignInInv, MemberLogin
<1>4. DeepLinkInv' /\ IssuedLinkInv' /\ MyCodeInv'
  BY PartsUnchanged DEF MemberLogin
<1> QED  BY <1>2, <1>3, <1>4 DEF SignInInv

\* A restart keeps it.
LEMMA SignInBootStep ==
  ASSUME SignInInv, SignInBoot
  PROVE  SignInInv'
<1> USE DEF verifyVars, linkVars, mytokenVars, principalVars
<1>1. DeepLinkInv'
  BY DEF SignInInv, SignInBoot, DeepLinkInv
<1>2. PrincipalInv'
  BY DEF SignInInv, SignInBoot, PrincipalInv, OnePrincipalEach
<1>3. IssuedLinkInv' /\ MyCodeInv' /\ GivenOK'
  BY PartsUnchanged DEF SignInBoot
<1> QED  BY <1>1, <1>2, <1>3 DEF SignInInv

\* Every step keeps it: the sign-ins' own, and the administrators', which change none of it.
LEMMA SignInNextInv ==
  ASSUME SignInInv, [AccessNext]_accessVars
  PROVE  SignInInv'
<1>1. CASE AdminStep /\ UNCHANGED signInVars
  BY <1>1, PartsUnchanged DEF signInVars, mytokenVars, principalVars, SignInInv
<1>2. CASE SignInStep /\ UNCHANGED adminVars
  BY <1>2, DeepLinkStep, IssuedLinkStep, PersonStep, MemberLoginStep DEF SignInStep
<1>3. CASE \E l \in WebLink, p \in Person : IssueLink(l, p)
  BY <1>3, IssuedLinkStep DEF IssueLink
<1>4. CASE Boot
  BY <1>4, SignInBootStep DEF Boot
<1>5. CASE UNCHANGED accessVars
  BY <1>5, PartsUnchanged DEF accessVars, signInVars, mytokenVars, principalVars, SignInInv
<1> QED  BY <1>1, <1>2, <1>3, <1>4, <1>5 DEF AccessNext

\* For any people, codes and links, and however reads, taps, answers, boots
\* and two processes meet: one code signs one browser in once, as the one
\* person told so; a link as the member it was issued for; replaced codes are
\* dead; a person has one principal (api/routes/tg_verify.py, db.py).
THEOREM SignInsCorrect == AccessSpec => []SignInsOK
<1>1. AccessInit => SignInInv
  BY SignInInitInv DEF AccessInit
<1>2. SignInInv /\ [AccessNext]_accessVars => SignInInv'
  BY SignInNextInv
<1>3. SignInInv => SignInsOK
  BY SignInInvOK
<1> QED  BY <1>1, <1>2, <1>3, PTL DEF AccessSpec

-----------------------------------------------------------------------------
(***************************************************************************)
(* Administrators.                                                         *)
(***************************************************************************)
\* A request that waits for Telegram, by what it asks, or an admin's turn.
Whats == {"weblink", "list", "role", "session", "gentoken", "token"}
OfClients == {"session", "gentoken", "token"}

WaitingCalls == [what : Whats, open : BOOLEAN,
                 says : {"nothing yet", "admin", "member", "silent"}, began : 0..MaxNow]
Turning == [what |-> "turn"]

\* What a waiting call's fields are, and that it is no other call.
LEMMA WaitingFields ==
  ASSUME NEW x \in WaitingCalls
  PROVE  /\ x.what \in Whats /\ x.open \in BOOLEAN
         /\ x.began \in 0..MaxNow /\ x.began \in Nat
         /\ x # Nothing /\ x # Turning
<1>1. x.what \in Whats /\ x.open \in BOOLEAN /\ x.began \in 0..MaxNow
  BY DEF WaitingCalls
<1>2. x # Nothing /\ x # Turning
  BY <1>1 DEF Nothing, Turning, Whats
<1>3. x.began \in Nat
  BY <1>1, WebAdminsAssumption
<1> QED  BY <1>1, <1>2, <1>3

RowsInv ==
  grants \in Seq(Person) /\ IsInjective(grants) /\ owners \subseteq Granted

WorldInv ==
  /\ locked \in BOOLEAN /\ telegram \subseteq Person
  /\ turns \in 0..MaxTurns /\ now \in 0..MaxNow

\* What an answer of Telegram's leaves to be heard is no older than the
\* client's standing.
CallInv ==
  /\ call \in [Person -> {Nothing, Turning} \cup WaitingCalls]
  /\ \A p \in Person : call[p] \in WaitingCalls =>
       /\ call[p].began <= now
       /\ call[p].what \in OfClients => p \in Clients
       /\ p \in Clients /\ call[p].says = "admin" => call[p].began <= stood[p]

\* A verdict is believed for Ttl after its client last stood.
RecheckInv ==
  /\ recheck \in [Clients -> [ok : BOOLEAN, until : 0..(MaxNow + Ttl)]]
  /\ \A c \in Clients : recheck[c].ok => recheck[c].until <= stood[c] + Ttl

StoodInv ==
  /\ stood \in [Clients -> 0..MaxNow]
  /\ \A c \in Clients : stood[c] <= now /\ (Stands(c) => stood[c] = now)

ActingInv ==
  acting # Nobody => /\ acting.who \in Clients /\ acting.asked \in Nat
                     /\ stood[acting.who] + Ttl > acting.asked

AdminInv ==
  /\ RowsInv /\ WorldInv /\ CallInv /\ tokens \subseteq Clients
  /\ RecheckInv /\ StoodInv /\ ActingInv

\* The invariant holds what the run checks.
LEMMA AdminInvOK == AdminInv => AdminsOK
<1> SUFFICES ASSUME AdminInv PROVE AdminsOK
  OBVIOUS
<1>1. \A p \in Person : call[p].what \in {"nothing", "turn"} \cup Whats
  <2>1. Nothing.what = "nothing" /\ Turning.what = "turn"
    BY DEF Nothing, Turning
  <2>2. \A p \in Person : call[p] \in {Nothing, Turning} \cup WaitingCalls
    BY DEF AdminInv, CallInv
  <2> QED  BY <2>1, <2>2, WaitingFields
<1>2. \A c \in Clients : /\ recheck[c].ok \in BOOLEAN /\ recheck[c].until \in 0..MaxNow + Ttl
                         /\ stood[c] \in 0..now
  <2>1. now \in Nat
    BY WebAdminsAssumption DEF AdminInv, WorldInv
  <2> QED  BY <2>1 DEF AdminInv, RecheckInv, StoodInv
<1>3. WebAdminsTypeOK
  BY <1>1, <1>2 DEF AdminInv, RowsInv, WorldInv, Whats, WebAdminsTypeOK
<1>4. ActsWhileEntitled
  BY DEF AdminInv, ActingInv, ActsWhileEntitled
<1> QED  BY <1>3, <1>4 DEF AdminsOK

\* It holds at the beginning.
LEMMA AdminInitInv == AdminInit => AdminInv
<1> SUFFICES ASSUME AdminInit PROVE AdminInv
  OBVIOUS
<1> USE WebAdminsAssumption DEF AdminInit
<1>1. RowsInv
  <2>1. << >> \in Seq(Person) /\ IsInjective(<< >>) /\ ToSet(<< >>) = {}
    BY EmptySeq DEF IsInjective, ToSet
  <2> QED  BY <2>1 DEF RowsInv
<1>2. WorldInv /\ tokens \subseteq Clients
  <2>1. locked \in BOOLEAN /\ telegram \subseteq Person /\ tokens \subseteq Clients
    OBVIOUS
  <2>2. turns \in 0..MaxTurns /\ now \in 0..MaxNow
    OBVIOUS
  <2> QED  BY <2>1, <2>2, Zenon DEF WorldInv
<1>3. CallInv
  BY DEF CallInv, Nothing, WaitingCalls, Whats
<1>4. RecheckInv
  BY DEF RecheckInv, NoAnswer
<1>5. StoodInv /\ ActingInv
  BY DEF StoodInv, ActingInv
<1> QED  BY <1>1, <1>2, <1>3, <1>4, <1>5 DEF AdminInv

\* Rows come and go one at a time; an owner keeps a row.
LEMMA GrantKeeps ==
  ASSUME RowsInv, NEW p \in Person, Grant(p)
  PROVE  RowsInv' /\ Granted' = Granted \cup {p}
<1>1. CASE p \in Granted
  BY <1>1 DEF RowsInv, Grant, Granted
<1>2. CASE p \notin Granted
  <2>1. grants' = Append(grants, p) /\ owners' = owners
    BY <1>2 DEF Grant
  <2>2. /\ Append(grants, p) \in Seq(Person) /\ IsInjective(Append(grants, p))
        /\ ToSet(Append(grants, p)) = ToSet(grants) \cup {p}
    BY <1>2, AppendFacts DEF RowsInv, Granted
  <2> QED  BY <2>1, <2>2 DEF RowsInv, Granted
<1> QED  BY <1>1, <1>2

\* A row taken away leaves the rest in order, the owners among them.
LEMMA RevokeKeeps ==
  ASSUME RowsInv, NEW p \in Person, Revoke(p)
  PROVE  RowsInv'
<1>1. CASE MayRevoke(p)
  <2>1. grants' = RemoveFirst(grants, p) /\ owners' = owners \ {p}
    BY <1>1 DEF Revoke
  <2>2. /\ RemoveFirst(grants, p) \in Seq(Person) /\ IsInjective(RemoveFirst(grants, p))
        /\ ToSet(RemoveFirst(grants, p)) = ToSet(grants) \ {p}
    BY RemoveFirstFacts DEF RowsInv
  <2> QED  BY <2>1, <2>2 DEF RowsInv, Granted
<1>2. CASE ~MayRevoke(p)
  BY <1>2 DEF Revoke, RowsInv, Granted
<1> QED  BY <1>1, <1>2

\* Time does not take standing back; who stands now, or is excused, stood now.
LEMMA StandingKeeps ==
  ASSUME StoodInv, WorldInv, NEW excused, Standing(excused),
         now' \in 0..MaxNow, now <= now'
  PROVE  /\ StoodInv'
         /\ \A c \in Clients : stood[c] <= stood'[c]
         /\ \A c \in Clients : Stands(c)' \/ c \in excused => stood'[c] = now'
<1>1. stood' = [c \in Clients |-> IF Stands(c)' \/ c \in excused THEN now' ELSE stood[c]]
  BY DEF Standing
<1>2. /\ now \in Nat /\ now' \in Nat /\ stood \in [Clients -> 0..MaxNow]
      /\ \A c \in Clients : stood[c] \in Nat /\ stood[c] <= now
  BY WebAdminsAssumption DEF StoodInv, WorldInv
<1>3. ASSUME NEW c \in Clients
      PROVE  /\ stood'[c] \in 0..MaxNow /\ stood'[c] <= now' /\ stood[c] <= stood'[c]
             /\ Stands(c)' \/ c \in excused => stood'[c] = now'
  <2>1. CASE Stands(c)' \/ c \in excused
    BY <1>1, <1>2, <2>1
  <2>2. CASE ~(Stands(c)' \/ c \in excused)
    BY <1>1, <1>2, <2>2
  <2> QED  BY <2>1, <2>2
<1>4. stood' \in [Clients -> 0..MaxNow]
  BY <1>1, <1>3
<1> QED  BY <1>3, <1>4 DEF StoodInv

\* The end of a check: what it says yes to was begun when its client stood.
LEMMA ConcludedKeeps ==
  ASSUME CallInv, RecheckInv, StoodInv, StoodInv', WorldInv, tokens \subseteq Clients,
         NEW p \in Person, NEW what \in Whats, NEW ok \in BOOLEAN, NEW began \in 0..MaxNow,
         Concluded(p, what, ok, began), UNCHANGED now,
         what \in OfClients => p \in Clients,
         \A c \in Clients : stood[c] <= stood'[c],
         what = "token" /\ ok => began <= stood'[p]
  PROVE  CallInv' /\ RecheckInv' /\ ActingInv' /\ tokens' \subseteq Clients
<1>0. /\ MaxNow \in Nat /\ Ttl \in Nat \ {0} /\ began \in Nat
      /\ \A c \in Clients : stood[c] \in Nat /\ stood'[c] \in Nat
  BY WebAdminsAssumption DEF StoodInv
<1>1. CallInv'
  <2>1. /\ call' \in [Person -> {Nothing, Turning} \cup WaitingCalls]
        /\ call'[p] \in {Nothing, Turning}
        /\ \A q \in Person \ {p} : call'[q] = call[q]
    BY DEF Concluded, CallInv, Turning
  <2>2. Nothing \notin WaitingCalls /\ Turning \notin WaitingCalls
    BY DEF Nothing, Turning, WaitingCalls, Whats
  <2>3. ASSUME NEW q \in Person, call'[q] \in WaitingCalls
        PROVE  /\ call'[q].began <= now'
               /\ call'[q].what \in OfClients => q \in Clients
               /\ q \in Clients /\ call'[q].says = "admin" => call'[q].began <= stood'[q]
    <3>1. q # p /\ call'[q] = call[q]
      BY <2>1, <2>2, <2>3
    <3>2. call[q].began \in Nat
      BY <2>3, <3>1, WaitingFields
    <3> QED  BY <1>0, <2>3, <3>1, <3>2 DEF CallInv
  <2> QED  BY <2>1, <2>3 DEF CallInv
<1>2. RecheckInv'
  <2>1. ASSUME NEW c \in Clients
        PROVE  recheck[c].ok => recheck[c].until <= stood'[c] + Ttl
    <3>1. recheck[c].until \in Nat
      BY <1>0 DEF RecheckInv
    <3> QED  BY <1>0, <3>1 DEF RecheckInv
  <2>2. CASE what = "token"
    <3>1. p \in Clients
      BY <2>2 DEF OfClients
    <3>2. recheck' = [recheck EXCEPT ![p] = [ok |-> ok, until |-> began + Ttl]]
      BY <2>2 DEF Concluded, Verdict
    <3>3. began + Ttl \in 0..(MaxNow + Ttl) /\ (ok => began + Ttl <= stood'[p] + Ttl)
      BY <1>0, <2>2, <3>1
    <3>4. recheck' \in [Clients -> [ok : BOOLEAN, until : 0..(MaxNow + Ttl)]]
      BY <3>1, <3>2, <3>3 DEF RecheckInv
    <3>5. ASSUME NEW c \in Clients
          PROVE  recheck'[c].ok => recheck'[c].until <= stood'[c] + Ttl
      <4>1. CASE c = p
        BY <3>1, <3>2, <3>3, <4>1 DEF RecheckInv
      <4>2. CASE c # p
        <5>1. recheck'[c] = recheck[c]
          BY <3>2, <4>2 DEF RecheckInv
        <5> QED  BY <2>1, <5>1
      <4> QED  BY <4>1, <4>2
    <3> QED  BY <3>4, <3>5 DEF RecheckInv
  <2>3. CASE what # "token"
    <3>1. recheck' = recheck
      BY <2>3 DEF Concluded
    <3> QED  BY <2>1, <3>1 DEF RecheckInv
  <2> QED  BY <2>2, <2>3
<1>3. ActingInv'
  <2>1. CASE what = "token" /\ ok
    <3>1. p \in Clients /\ acting' = [asked |-> began, who |-> p]
      BY <2>1 DEF Concluded, OfClients
    <3> QED  BY <1>0, <2>1, <3>1 DEF ActingInv
  <2>2. CASE ~(what = "token" /\ ok)
    BY <2>2 DEF Concluded, ActingInv, Nobody
  <2> QED  BY <2>1, <2>2
<1>4. tokens' \subseteq Clients
  BY DEF Concluded, OfClients
<1> QED  BY <1>1, <1>2, <1>3, <1>4

\* What waits for Telegram is a call of the kinds above.
LEMMA WaitingIsCall ==
  ASSUME WorldInv, NEW what \in Whats
  PROVE  /\ Awaiting(what) \in WaitingCalls /\ Awaiting(what).what = what
         /\ Awaiting(what).says = "nothing yet" /\ Awaiting(what).began <= now
<1> DEFINE o == ~locked
           b == IF what = "token" THEN now ELSE 0
<1>1. o \in BOOLEAN
  BY DEF WorldInv
<1>2. b \in 0..MaxNow /\ b <= now
  BY WebAdminsAssumption DEF WorldInv
<1>3. Awaiting(what) = [what |-> what, open |-> o, says |-> "nothing yet", began |-> b]
  BY DEF Awaiting
<1>4. Awaiting(what).what = what /\ Awaiting(what).says = "nothing yet"
  BY DEF Awaiting
<1>5. Awaiting(what).began = b
  BY DEF Awaiting
<1> HIDE DEF o, b
<1>6. [what |-> what, open |-> o, says |-> "nothing yet", began |-> b] \in WaitingCalls
  BY <1>1, <1>2 DEF WaitingCalls
<1>7. Awaiting(what) \in WaitingCalls
  BY <1>3, <1>6, Zenon
<1> QED  BY <1>2, <1>4, <1>5, <1>7

\* A call that changes leaves the others as good as they were.
LEMMA CallKeeps ==
  ASSUME CallInv, StoodInv, StoodInv', WorldInv, WorldInv', now <= now',
         \A c \in Clients : stood[c] <= stood'[c],
         NEW p \in Person, NEW x \in {Nothing, Turning} \cup WaitingCalls,
         call' = [call EXCEPT ![p] = x],
         x \in WaitingCalls =>
           /\ x.began <= now'
           /\ x.what \in OfClients => p \in Clients
           /\ p \in Clients /\ x.says = "admin" => x.began <= stood'[p]
  PROVE  CallInv'
<1>1. /\ call' \in [Person -> {Nothing, Turning} \cup WaitingCalls]
      /\ call'[p] = x /\ \A q \in Person \ {p} : call'[q] = call[q]
  BY DEF CallInv
<1>2. /\ now \in Nat /\ now' \in Nat
      /\ \A c \in Clients : stood[c] \in Nat /\ stood'[c] \in Nat
  BY WebAdminsAssumption DEF StoodInv, WorldInv
<1>3. ASSUME NEW q \in Person, call'[q] \in WaitingCalls
      PROVE  /\ call'[q].began <= now'
             /\ call'[q].what \in OfClients => q \in Clients
             /\ q \in Clients /\ call'[q].says = "admin" => call'[q].began <= stood'[q]
  <2>1. CASE q = p
    BY <1>1, <1>3, <2>1
  <2>2. CASE q # p
    <3>1. call'[q] = call[q] /\ call[q].began \in Nat
      BY <1>1, <1>3, <2>2, WaitingFields
    <3> QED  BY <1>2, <1>3, <3>1 DEF CallInv
  <2> QED  BY <2>1, <2>2
<1> QED  BY <1>1, <1>3 DEF CallInv

\* A step that answers no request leaves requests and verdicts as good.
LEMMA QuietKeeps ==
  ASSUME CallInv, RecheckInv, StoodInv, StoodInv', WorldInv, WorldInv', now <= now',
         \A c \in Clients : stood[c] <= stood'[c]
  PROVE  /\ UNCHANGED call => CallInv'
         /\ UNCHANGED recheck => RecheckInv'
         /\ acting' = Nobody => ActingInv'
<1>1. /\ now \in Nat /\ now' \in Nat /\ MaxNow \in Nat /\ Ttl \in Nat
      /\ \A c \in Clients : stood[c] \in Nat /\ stood'[c] \in Nat
  BY WebAdminsAssumption DEF StoodInv, WorldInv
<1>2. ASSUME UNCHANGED call PROVE CallInv'
  <2>1. ASSUME NEW q \in Person, call[q] \in WaitingCalls
        PROVE  /\ call[q].began <= now'
               /\ q \in Clients /\ call[q].says = "admin" => call[q].began <= stood'[q]
    <3>1. call[q].began \in Nat
      BY <2>1, WaitingFields
    <3> QED  BY <1>1, <2>1, <3>1 DEF CallInv
  <2> QED  BY <1>2, <2>1 DEF CallInv
<1>3. ASSUME UNCHANGED recheck PROVE RecheckInv'
  <2>1. ASSUME NEW c \in Clients, recheck[c].ok PROVE recheck[c].until <= stood'[c] + Ttl
    <3>1. recheck[c].until \in Nat
      BY <1>1 DEF RecheckInv
    <3> QED  BY <1>1, <2>1, <3>1 DEF RecheckInv
  <2> QED  BY <1>3, <2>1 DEF RecheckInv
<1>4. acting' = Nobody => ActingInv'
  BY DEF ActingInv
<1> QED  BY <1>2, <1>3, <1>4

\* A request that needs no question is concluded at once, another waits.
LEMMA CheckKeeps ==
  ASSUME AdminInv, NEW p \in Person, NEW what \in Whats,
         what \in OfClients => p \in Clients,
         Check(p, what), UNCHANGED << grants, locked, telegram, turns, now >>, Standing({})
  PROVE  /\ WorldInv' /\ StoodInv' /\ CallInv' /\ RecheckInv' /\ ActingInv'
         /\ tokens' \subseteq Clients
<1>0. /\ RowsInv /\ WorldInv /\ CallInv /\ tokens \subseteq Clients
      /\ RecheckInv /\ StoodInv /\ ActingInv
      /\ WorldInv' /\ now \in Nat /\ now \in 0..MaxNow /\ now <= now'
  BY WebAdminsAssumption DEF AdminInv, WorldInv
<1>1. /\ StoodInv'
      /\ \A c \in Clients : stood[c] <= stood'[c]
      /\ \A c \in Clients : Stands(c)' => stood'[c] = now'
  BY <1>0, StandingKeeps
<1>2. CASE AtOnce(p)
  <2>1. Concluded(p, what, TRUE, now)
    BY <1>2 DEF Check
  <2>2. p \in Clients => stood'[p] = now
    BY <1>1, <1>2 DEF AtOnce, Stands, Granted
  <2>3. what = "token" => now <= stood'[p]
    BY <1>0, <2>2 DEF OfClients
  <2>4. UNCHANGED now
    OBVIOUS
  <2> QED  BY <1>0, <1>1, <2>1, <2>3, <2>4, ConcludedKeeps
<1>3. CASE ~AtOnce(p)
  <2>1. /\ call' = [call EXCEPT ![p] = Awaiting(what)]
        /\ acting' = Nobody /\ UNCHANGED << tokens, recheck >>
    BY <1>3 DEF Check
  <2>2. /\ Awaiting(what) \in WaitingCalls /\ Awaiting(what).what = what
        /\ Awaiting(what).says = "nothing yet" /\ Awaiting(what).began <= now'
    BY <1>0, WaitingIsCall
  <2> DEFINE w == Awaiting(what)
  <2>3. CallInv'
    <3> HIDE DEF w
    <3>1. /\ w \in {Nothing, Turning} \cup WaitingCalls /\ call' = [call EXCEPT ![p] = w]
          /\ w.began <= now' /\ w.what = what /\ w.says = "nothing yet"
      BY <2>1, <2>2 DEF w
    <3> QED  BY <1>0, <1>1, <3>1, CallKeeps
  <2> QED  BY <1>0, <1>1, <2>1, <2>3, QuietKeeps
<1> QED  BY <1>2, <1>3

\* The answer of a request that waited: p passes, or not.
LEMMA HearsKeeps ==
  ASSUME AdminInv, NEW p \in Person, NEW says \in {"admin", "member", "silent"},
         Heard(p, says), NEW ok \in BOOLEAN, NEW excused, RowsInv',
         Concluded(p, call[p].what, ok, call[p].began), Standing(excused),
         ok => says = "admin" \/ p \in excused
  PROVE  AdminInv'
<1>0. /\ RowsInv /\ WorldInv /\ CallInv /\ tokens \subseteq Clients
      /\ RecheckInv /\ StoodInv /\ ActingInv
      /\ WorldInv' /\ now \in Nat /\ now \in 0..MaxNow /\ now <= now' /\ UNCHANGED now
  BY WebAdminsAssumption DEF AdminInv, WorldInv, Heard
<1>1. /\ StoodInv'
      /\ \A c \in Clients : stood[c] <= stood'[c]
      /\ \A c \in Clients : c \in excused => stood'[c] = now'
  BY <1>0, StandingKeeps
<1>2. call[p] \in WaitingCalls /\ call[p].says = says
  BY <1>0 DEF Heard, CallInv, Turning
<1>3. /\ call[p].what \in Whats /\ call[p].began \in 0..MaxNow /\ call[p].began \in Nat
      /\ call[p].began <= now
      /\ call[p].what \in OfClients => p \in Clients
      /\ p \in Clients /\ says = "admin" => call[p].began <= stood[p]
  BY <1>0, <1>2, WaitingFields DEF CallInv
<1>4. call[p].what = "token" /\ ok => call[p].began <= stood'[p]
  <2> SUFFICES ASSUME call[p].what = "token", ok PROVE call[p].began <= stood'[p]
    OBVIOUS
  <2>1. p \in Clients
    BY <1>3 DEF OfClients
  <2>2. stood[p] \in Nat /\ stood'[p] \in Nat
    BY <1>0, <1>1, <2>1, WebAdminsAssumption DEF StoodInv
  <2>3. CASE says = "admin"
    BY <1>1, <1>3, <2>1, <2>2, <2>3
  <2>4. CASE p \in excused
    BY <1>0, <1>1, <1>3, <2>1, <2>2, <2>4
  <2> QED  BY <2>3, <2>4
<1>5. CallInv' /\ RecheckInv' /\ ActingInv' /\ tokens' \subseteq Clients
  <2> DEFINE what == call[p].what
             began == call[p].began
  <2>1. /\ what \in Whats /\ began \in 0..MaxNow /\ (what \in OfClients => p \in Clients)
        /\ (what = "token" /\ ok => began <= stood'[p]) /\ Concluded(p, what, ok, began)
    BY <1>3, <1>4
  <2> HIDE DEF what, began
  <2> QED  BY <1>0, <1>1, <2>1, ConcludedKeeps
<1> QED  BY <1>0, <1>1, <1>5 DEF AdminInv

\* A step by nobody's request: it may write rows and moves standing along.
LEMMA AroundKeeps ==
  ASSUME AdminInv, RowsInv', WorldInv', UNCHANGED << call, tokens, recheck >>,
         acting' = Nobody, now <= now', Standing({})
  PROVE  AdminInv'
<1>0. /\ WorldInv /\ CallInv /\ tokens \subseteq Clients /\ RecheckInv /\ StoodInv
      /\ now' \in 0..MaxNow
  BY DEF AdminInv, WorldInv
<1>1. StoodInv' /\ \A c \in Clients : stood[c] <= stood'[c]
  BY <1>0, StandingKeeps
<1>2. CallInv' /\ RecheckInv' /\ ActingInv'
  BY <1>0, <1>1, QuietKeeps
<1> QED  BY <1>0, <1>1, <1>2 DEF AdminInv

\* Every step keeps it.
LEMMA AdminNextInv ==
  ASSUME AdminInv, [AccessNext]_accessVars
  PROVE  AdminInv'
<1>0. /\ RowsInv /\ WorldInv /\ CallInv /\ tokens \subseteq Clients
      /\ RecheckInv /\ StoodInv /\ ActingInv
      /\ now \in Nat /\ now \in 0..MaxNow /\ now <= now
  BY WebAdminsAssumption DEF AdminInv, WorldInv
<1>w. ASSUME UNCHANGED << locked, telegram, turns, now >>
      PROVE  WorldInv' /\ now <= now' /\ now' \in 0..MaxNow
  BY <1>0, <1>w DEF WorldInv
<1>r. ASSUME UNCHANGED << grants, owners >> PROVE RowsInv'
  BY <1>0, <1>r DEF RowsInv, Granted
<1>u. ASSUME UNCHANGED adminVars PROVE AdminInv'
  BY <1>u DEF AdminInv, RowsInv, WorldInv, CallInv, RecheckInv, StoodInv, ActingInv,
              adminVars, Granted, Stands
<1>s. ASSUME Standing({}), now' \in 0..MaxNow, now <= now'
      PROVE  StoodInv' /\ \A c \in Clients : stood[c] <= stood'[c]
  BY <1>0, <1>s, StandingKeeps
<1>1. ASSUME NEW p \in Person, Weblink(p) PROVE AdminInv'
  <2>1. WorldInv' /\ now <= now' /\ now' \in 0..MaxNow
    BY <1>1, <1>w DEF Weblink
  <2>2. CASE locked
    <3>1. /\ RowsInv' /\ UNCHANGED << tokens, recheck >> /\ acting' = Nobody
          /\ call' = [call EXCEPT ![p] = Awaiting("weblink")]
      BY <1>1, <1>r, <2>2 DEF Weblink
    <3>2. StoodInv' /\ \A c \in Clients : stood[c] <= stood'[c]
      BY <1>1, <1>s, <2>1 DEF Weblink
    <3>3. /\ "weblink" \in Whats \ OfClients
          /\ Awaiting("weblink") \in WaitingCalls /\ Awaiting("weblink").what = "weblink"
          /\ Awaiting("weblink").says = "nothing yet" /\ Awaiting("weblink").began <= now
      BY <1>0, WaitingIsCall DEF Whats, OfClients
    <3>4. CallInv'
      <4> DEFINE w == Awaiting("weblink")
      <4>1. w \in WaitingCalls /\ w.what \notin OfClients /\ w.says # "admin" /\ w.began <= now'
        BY <1>1, <3>3 DEF Weblink
      <4> HIDE DEF w
      <4>2. call' = [call EXCEPT ![p] = w]
        BY <3>1 DEF w
      <4> QED  BY <1>0, <2>1, <3>2, <4>1, <4>2, CallKeeps
    <3>5. RecheckInv' /\ ActingInv'
      BY <1>0, <2>1, <3>1, <3>2, QuietKeeps
    <3> QED  BY <1>0, <2>1, <3>1, <3>2, <3>4, <3>5 DEF AdminInv
  <2>3. CASE ~locked
    <3>1. RowsInv' /\ UNCHANGED << call, tokens, recheck >> /\ acting' = Nobody /\ Standing({})
      BY <1>0, <1>1, <2>3, GrantKeeps DEF Weblink
    <3> QED  BY <2>1, <3>1, AroundKeeps
  <2> QED  BY <2>2, <2>3
<1>2. ASSUME NEW p \in Person, GenToken(p) PROVE AdminInv'
  <2>1. WorldInv' /\ now <= now' /\ now' \in 0..MaxNow /\ RowsInv'
    BY <1>2, <1>w, <1>r DEF GenToken
  <2>2. /\ UNCHANGED << tokens, recheck >> /\ acting' = Nobody /\ p \in Clients
        /\ call' = [call EXCEPT ![p] = Awaiting("gentoken")]
    BY <1>2 DEF GenToken
  <2>3. StoodInv' /\ \A c \in Clients : stood[c] <= stood'[c]
    BY <1>2, <1>s, <2>1 DEF GenToken
  <2>4. /\ "gentoken" \in Whats
        /\ Awaiting("gentoken") \in WaitingCalls
        /\ Awaiting("gentoken").says = "nothing yet" /\ Awaiting("gentoken").began <= now
    BY <1>0, WaitingIsCall DEF Whats
  <2>5. CallInv'
    <3> DEFINE w == Awaiting("gentoken")
    <3>1. w \in WaitingCalls /\ w.says # "admin" /\ w.began <= now'
      BY <1>2, <2>4 DEF GenToken
    <3> HIDE DEF w
    <3>2. call' = [call EXCEPT ![p] = w]
      BY <2>2 DEF w
    <3> QED  BY <1>0, <2>1, <2>2, <2>3, <3>1, <3>2, CallKeeps
  <2>6. RecheckInv' /\ ActingInv'
    BY <1>0, <2>1, <2>2, <2>3, QuietKeeps
  <2> QED  BY <1>0, <2>1, <2>2, <2>3, <2>5, <2>6 DEF AdminInv
<1>3. ASSUME NEW p \in Person, NEW what \in {"list", "role", "session"}, Request(p, what)
      PROVE  AdminInv'
  <2>1. /\ what \in Whats /\ (what \in OfClients => p \in Clients) /\ Check(p, what)
        /\ UNCHANGED << grants, locked, telegram, turns, now >> /\ Standing({})
    BY <1>3 DEF Request, Whats, OfClients
  <2>2. RowsInv'
    BY <1>3, <1>r DEF Request
  <2> QED  BY <2>1, <2>2, CheckKeeps DEF AdminInv
<1>4. ASSUME NEW p \in Person, TelegramAnswers(p) PROVE AdminInv'
  <2>1. PICK says \in {IF p \in telegram THEN "admin" ELSE "member", "silent"} :
          call' = [call EXCEPT ![p].says = says]
    BY <1>4 DEF TelegramAnswers
  <2>2. /\ UNCHANGED << grants, owners, locked, telegram, turns, now, tokens, recheck, stood >>
        /\ acting' = Nobody /\ call[p] \notin {Nothing, Turning}
    BY <1>4 DEF TelegramAnswers, Turning
  <2>3. RowsInv' /\ WorldInv' /\ now <= now'
    BY <1>r, <1>w, <2>2
  <2>4. StoodInv' /\ \A c \in Clients : stood[c] <= stood'[c]
    <3>1. \A c \in Clients : stood[c] \in Nat
      BY <1>0, WebAdminsAssumption DEF StoodInv
    <3> QED  BY <1>0, <2>2, <3>1 DEF StoodInv, Stands, Granted
  <2>5. call[p] \in WaitingCalls
    BY <1>0, <2>2 DEF CallInv
  <2> DEFINE x == [call[p] EXCEPT !.says = says]
  <2>6. /\ x \in WaitingCalls /\ x.says = says
        /\ x.what = call[p].what /\ x.began = call[p].began
    <3>1. says \in {"nothing yet", "admin", "member", "silent"}
      OBVIOUS
    <3> QED  BY <2>5, <3>1 DEF WaitingCalls
  <2>7. call' = [call EXCEPT ![p] = x]
    BY <1>0, <2>1 DEF CallInv
  <2>8. p \in Clients /\ says = "admin" => stood[p] = now
    BY <1>0, <2>1 DEF StoodInv, Stands
  <2>9. CallInv'
    <3>1. /\ x.began <= now' /\ (x.what \in OfClients => p \in Clients)
          /\ (p \in Clients /\ x.says = "admin" => x.began <= stood'[p])
      BY <1>0, <2>2, <2>5, <2>6, <2>8 DEF CallInv
    <3> HIDE DEF x
    <3> QED  BY <1>0, <2>3, <2>4, <2>6, <2>7, <3>1, CallKeeps
  <2>10. RecheckInv' /\ ActingInv'
    BY <1>0, <2>2, <2>3, <2>4, QuietKeeps
  <2> QED  BY <1>0, <2>2, <2>3, <2>4, <2>9, <2>10 DEF AdminInv
<1>5. ASSUME NEW p \in Person, HearsAdmin(p) PROVE AdminInv'
  <2>1. RowsInv'
    <3>1. CASE call[p].what = "gentoken"
      BY <1>5, <1>r, <3>1 DEF HearsAdmin
    <3>2. CASE call[p].what # "gentoken"
      BY <1>0, <1>5, <3>2, GrantKeeps DEF HearsAdmin
    <3> QED  BY <3>1, <3>2
  <2>2. /\ Heard(p, "admin") /\ Standing({})
        /\ Concluded(p, call[p].what, TRUE, call[p].began)
    BY <1>5 DEF HearsAdmin
  <2> QED  BY <2>1, <2>2, HearsKeeps
<1>6. ASSUME NEW p \in Person, HearsMember(p) PROVE AdminInv'
  <2>1. RowsInv'
    <3>1. CASE call[p].open \/ call[p].what \in Commands
      BY <1>6, <1>r, <3>1 DEF HearsMember
    <3>2. CASE ~(call[p].open \/ call[p].what \in Commands)
      BY <1>0, <1>6, <3>2, RevokeKeeps DEF HearsMember
    <3> QED  BY <3>1, <3>2
  <2>2. /\ Heard(p, "member") /\ Standing({})
        /\ Concluded(p, call[p].what, FALSE, call[p].began)
    BY <1>6 DEF HearsMember
  <2> QED  BY <2>1, <2>2, HearsKeeps
<1>7. ASSUME NEW p \in Person, Silent(p) PROVE AdminInv'
  <2> DEFINE ok == ~call[p].open /\ call[p].what \notin Commands /\ p \in Granted
             excused == IF ok THEN {p} ELSE {}
  <2>1. /\ Heard(p, "silent") /\ RowsInv' /\ ok \in BOOLEAN
        /\ Concluded(p, call[p].what, ok, call[p].began) /\ Standing(excused)
    BY <1>7, <1>r, Zenon DEF Silent
  <2>2. ok => p \in excused
    OBVIOUS
  <2> HIDE DEF ok, excused
  <2> QED  BY <2>1, <2>2, HearsKeeps
<1>8. ASSUME NEW p \in Person, NEW q \in Person, SetRole(p, q) PROVE AdminInv'
  <2>1. /\ UNCHANGED << grants, locked, telegram, turns, now >> /\ Standing({})
        /\ call[p] = Turning
    BY <1>8 DEF SetRole, Turning
  <2>2. CASE \/ MayPromote(p, q) /\ owners' = owners \cup {q} /\ Check(p, "list")
             \/ MayDemote(p, q) /\ owners' = owners \ {q} /\ Check(p, "list")
    <3>1. RowsInv'
      BY <1>0, <2>1, <2>2 DEF RowsInv, Granted, MayPromote
    <3>2. Check(p, "list") /\ "list" \in Whats /\ "list" \notin OfClients
      BY <2>2 DEF Whats, OfClients
    <3> QED  BY <2>1, <3>1, <3>2, CheckKeeps DEF AdminInv
  <2>3. CASE /\ call' = [call EXCEPT ![p] = Nothing] /\ acting' = Nobody
             /\ UNCHANGED << owners, tokens, recheck >>
    <3>1. RowsInv' /\ WorldInv' /\ now <= now' /\ now' \in 0..MaxNow
      BY <1>r, <1>w, <2>1, <2>3
    <3>2. StoodInv' /\ \A c \in Clients : stood[c] <= stood'[c]
      BY <1>s, <2>1, <3>1
    <3>3. CallInv'
      <4>1. Nothing \notin WaitingCalls /\ Nothing \in {Nothing, Turning} \cup WaitingCalls
        BY WaitingFields
      <4> DEFINE x == Nothing
      <4> HIDE DEF x
      <4>2. x \notin WaitingCalls /\ x \in {Nothing, Turning} \cup WaitingCalls
            /\ call' = [call EXCEPT ![p] = x]
        BY <2>3, <4>1 DEF x
      <4> QED  BY <1>0, <3>1, <3>2, <4>2, CallKeeps
    <3>4. RecheckInv' /\ ActingInv'
      BY <1>0, <2>3, <3>1, <3>2, QuietKeeps
    <3> QED  BY <1>0, <2>3, <3>1, <3>2, <3>3, <3>4 DEF AdminInv
  <2> QED  BY <1>8, <2>2, <2>3 DEF SetRole
<1>9. ASSUME NEW p \in Person, TelegramChanges(p) PROVE AdminInv'
  <2>1. RowsInv'
    BY <1>9, <1>r DEF TelegramChanges
  <2>2. WorldInv' /\ now <= now'
    <3>1. turns' \in 0..MaxTurns
      BY <1>0, <1>9, WebAdminsAssumption DEF TelegramChanges, Turn, WorldInv
    <3>2. telegram' \subseteq Person /\ UNCHANGED << locked, now >>
      BY <1>0, <1>9 DEF TelegramChanges, WorldInv
    <3> QED  BY <1>0, <3>1, <3>2 DEF WorldInv
  <2>3. UNCHANGED << call, tokens, recheck >> /\ acting' = Nobody /\ Standing({})
    BY <1>9 DEF TelegramChanges
  <2> QED  BY <2>1, <2>2, <2>3, AroundKeeps
<1>10. ASSUME NEW c \in Clients, UseToken(c) PROVE AdminInv'
  <2>1. /\ UNCHANGED << grants, owners, locked, telegram, turns, now >> /\ Standing({})
        /\ c \in Person
    BY <1>10, WebAdminsAssumption DEF UseToken
  <2>2. RowsInv' /\ WorldInv' /\ now <= now' /\ now' \in 0..MaxNow
    BY <1>r, <1>w, <2>1
  <2>3. CASE Believed(c)
    <3>1. StoodInv' /\ \A d \in Clients : stood[d] <= stood'[d]
      BY <1>s, <2>1, <2>2
    <3>2. /\ UNCHANGED << call, tokens, recheck >>
          /\ acting' = IF recheck[c].ok THEN [asked |-> now, who |-> c] ELSE Nobody
      BY <1>10, <2>3 DEF UseToken
    <3>3. ActingInv'
      <4>1. CASE recheck[c].ok
        <5>1. recheck[c].until > now /\ recheck[c].until <= stood[c] + Ttl
          BY <1>0, <2>3, <4>1 DEF Believed, RecheckInv
        <5>2. recheck[c].until \in Nat /\ stood[c] \in Nat /\ stood'[c] \in Nat /\ Ttl \in Nat
          BY <1>0, <3>1, WebAdminsAssumption DEF RecheckInv, StoodInv
        <5>3. stood'[c] + Ttl > now
          BY <1>0, <3>1, <5>1, <5>2
        <5>4. acting' = [asked |-> now, who |-> c]
          BY <3>2, <4>1
        <5>5. acting'.who = c /\ acting'.asked = now
          BY <5>4
        <5> QED  BY <1>0, <5>3, <5>5 DEF ActingInv
      <4>2. CASE ~recheck[c].ok
        BY <3>2, <4>2 DEF ActingInv
      <4> QED  BY <4>1, <4>2
    <3>4. CallInv' /\ RecheckInv'
      BY <1>0, <2>2, <3>1, <3>2, QuietKeeps
    <3> QED  BY <1>0, <2>2, <3>1, <3>2, <3>3, <3>4 DEF AdminInv
  <2>4. CASE ~Believed(c)
    <3>1. Check(c, "token") /\ "token" \in Whats
      BY <1>10, <2>4 DEF UseToken, Whats
    <3> QED  BY <2>1, <2>2, <3>1, CheckKeeps DEF AdminInv
  <2> QED  BY <2>3, <2>4
<1>11. CASE SetAdmins
  <2>1. RowsInv'
    BY <1>11, <1>r DEF SetAdmins
  <2>2. WorldInv' /\ now <= now'
    <3>1. turns' \in 0..MaxTurns
      BY <1>0, <1>11, WebAdminsAssumption DEF SetAdmins, Turn, WorldInv
    <3>2. locked' \in BOOLEAN
      BY <1>11, Zenon DEF SetAdmins
    <3>3. UNCHANGED << telegram, now >>
      BY <1>11 DEF SetAdmins
    <3> QED  BY <1>0, <3>1, <3>2, <3>3 DEF WorldInv
  <2>3. UNCHANGED << call, tokens, recheck >> /\ acting' = Nobody /\ Standing({})
    BY <1>11 DEF SetAdmins
  <2> QED  BY <2>1, <2>2, <2>3, AroundKeeps
<1>12. CASE AdminTick
  <2>1. RowsInv' /\ WorldInv' /\ now <= now'
    <3>1. UNCHANGED << grants, owners, locked, telegram, turns >> /\ now' = now + 1 /\ now < MaxNow
      BY <1>12 DEF AdminTick
    <3>2. now' \in 0..MaxNow /\ now <= now'
      BY <1>0, <3>1, WebAdminsAssumption
    <3> QED  BY <1>0, <1>r, <3>1, <3>2 DEF WorldInv
  <2>2. UNCHANGED << call, tokens, recheck >> /\ acting' = Nobody /\ Standing({})
    BY <1>12 DEF AdminTick
  <2> QED  BY <2>1, <2>2, AroundKeeps
<1>13. CASE AdminBoot
  <2>1. WorldInv' /\ now <= now' /\ now' \in 0..MaxNow
    BY <1>13, <1>w DEF AdminBoot
  <2>2. RowsInv'
    <3>1. Repaired \subseteq Granted
      <4>1. grants # << >> => Head(grants) \in ToSet(grants)
        BY <1>0, HeadTailFacts DEF RowsInv
      <4> QED  BY <1>0, <4>1 DEF RowsInv, Repaired, Granted
    <3> QED  BY <1>0, <1>13, <3>1 DEF AdminBoot, RowsInv, Granted
  <2>3. StoodInv' /\ \A c \in Clients : stood[c] <= stood'[c]
    BY <1>13, <1>s, <2>1 DEF AdminBoot
  <2>4. CallInv'
    <3>1. Nothing \notin WaitingCalls
      BY WaitingFields
    <3> QED  BY <1>13, <3>1 DEF AdminBoot, CallInv
  <2>5. RecheckInv' /\ ActingInv' /\ tokens' \subseteq Clients
    BY <1>0, <1>13, WebAdminsAssumption DEF AdminBoot, RecheckInv, NoAnswer, ActingInv
  <2> QED  BY <2>1, <2>2, <2>3, <2>4, <2>5 DEF AdminInv
<1>14. CASE AdminStep
  BY <1>14, <1>1, <1>2, <1>3, <1>4, <1>5, <1>6, <1>7, <1>8, <1>9, <1>10, <1>11, <1>12
     DEF AdminStep
<1> QED  BY <1>u, <1>13, <1>14 DEF AccessNext, accessVars, IssueLink, Boot

\* For any people, clients and times to live: an administrator's token acts
\* only for somebody who was entitled to administer the group less than Ttl
\* before the request, whatever verdicts are cached and answers come late
\* (api/auth.py require_scope, _ADMIN_RECHECK_TTL_SECONDS).
THEOREM AdminsCorrect == AccessSpec => []AdminsOK
<1>1. AccessInit => AdminInv
  BY AdminInitInv DEF AccessInit
<1>2. AdminInv /\ [AccessNext]_accessVars => AdminInv'
  BY AdminNextInv
<1>3. AdminInv => AdminsOK
  BY AdminInvOK
<1> QED  BY <1>1, <1>2, <1>3, PTL DEF AccessSpec

\* The last owner of a group stays, whichever way rows and roles go
\* (db.remove_web_admin, services/admin.py demote_to_admin, the boot's repair).
LEMMA LastOwnerStays ==
  ASSUME [AccessNext]_accessVars, owners # {}
  PROVE  owners' # {}
<1>1. ASSUME NEW p, Cardinality(owners) > 1 \/ p \notin owners, owners \ {p} = {} PROVE FALSE
  <2>1. owners = {p} /\ p \in owners
    BY <1>1
  <2>2. Cardinality(owners) = 1
    BY <2>1, FS_Singleton
  <2> QED  BY <1>1, <2>1, <2>2
<1>2. ASSUME NEW p \in Person, Revoke(p) PROVE owners' # {}
  <2>1. CASE MayRevoke(p)
    <3>1. owners' = owners \ {p} /\ ~(p \in owners /\ Cardinality(owners) <= 1)
      BY <1>2, <2>1 DEF Revoke, MayRevoke
    <3>2. CASE p \notin owners
      BY <3>1, <3>2
    <3>3. CASE p \in owners
      <4>1. owners # {p}
        BY <3>1, <3>3, FS_Singleton
      <4> QED  BY <3>1, <3>3, <4>1
    <3> QED  BY <3>2, <3>3
  <2>2. CASE ~MayRevoke(p)
    BY <1>2, <2>2 DEF Revoke
  <2> QED  BY <2>1, <2>2
<1>3. ASSUME NEW p \in Person, NEW q \in Person, SetRole(p, q) PROVE owners' # {}
  <2>1. CASE MayDemote(p, q) /\ owners' = owners \ {q}
    BY <1>1, <2>1 DEF MayDemote
  <2>2. CASE owners' = owners \cup {q} \/ owners' = owners
    BY <2>2
  <2> QED  BY <1>3, <2>1, <2>2 DEF SetRole
<1>4. ASSUME NEW p \in Person, HearsMember(p) PROVE owners' # {}
  BY <1>2, <1>4 DEF HearsMember
<1>5. ASSUME NEW p \in Person, Weblink(p) \/ HearsAdmin(p) PROVE owners' # {}
  BY <1>5 DEF Weblink, HearsAdmin, Grant
<1>6. CASE AdminBoot
  BY <1>6 DEF AdminBoot, Repaired
<1>7. CASE AdminStep
  BY <1>3, <1>4, <1>5, <1>7 DEF AdminStep, GenToken, Request, TelegramAnswers, Silent,
     TelegramChanges, UseToken, SetAdmins, AdminTick
<1>8. CASE UNCHANGED owners
  BY <1>8
<1> QED  BY <1>6, <1>7, <1>8 DEF AccessNext, accessVars, adminVars, IssueLink, Boot

\* For any people and any order of requests, answers, changes and boots: a
\* group that has an owner never loses the last one.
THEOREM OwnersStay == AccessSpec => OwnersKept
<1>1. [AccessNext]_accessVars => [owners # {} => owners' # {}]_owners
  BY LastOwnerStays
<1> QED  BY <1>1, PTL DEF AccessSpec, OwnersKept
=============================================================================
