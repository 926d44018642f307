--------------------------- MODULE IdentityLinks ---------------------------
(***************************************************************************)
(* One person under several names: guest names merged into a member or     *)
(* into another guest name, kept as links that are followed when a balance *)
(* is read; history is never rewritten (services/identity.py, the          *)
(* identity_links table of db.py, _resolve_member of services/dues.py).    *)
(*                                                                         *)
(* Every lookup folds letter case, so what is stored is about Low[n]; two  *)
(* names differ for the automatic merge only in case or blanks when they   *)
(* have one Squash.  The web handlers never await between the writes of an *)
(* operation: what can come between them is the end of the process.        *)
(***************************************************************************)
EXTENDS Integers, FiniteSets, FiniteSetsExt

CONSTANTS
  Name,        \* guest names as they were typed
  Member,      \* members, by Telegram id
  LowName,     \* names in small letters
  Low,         \* Low[n]: the name in small letters
  Squash,      \* Squash[n]: in small letters and with single blanks
  Rank,        \* Rank[n]: the place of a name in sorted order
  LowRank,     \* the same among names in small letters
  Called,      \* Called[m]: a member's first name, in small letters
  Alike,       \* pairs within _SUGGEST_THRESHOLD edits, both ways
  Opening,     \* what the names and members with dues entries owe
  Known,       \* names played under so far
  Unlinked,
  MaxChanges,  \* bound: changes on the merge page, new names and departures
  MaxCrashes   \* bound: ends of the process between two writes

Who == LowName \cup Member

ASSUME IdentityAssumption ==
  /\ (Name \cup LowName) \cap Member = {} /\ Unlinked \notin Who
  /\ Low \in [Name -> LowName] /\ Called \in [Member -> LowName]
  /\ Rank \in [Name -> Nat]
  /\ Known \subseteq Name /\ DOMAIN Opening \subseteq Who
  /\ IsFiniteSet(Name) /\ IsFiniteSet(Who)
  /\ \A w \in DOMAIN Opening : Opening[w] \in Int
  /\ Alike \subseteq LowName \X Who
  /\ \A a, b \in LowName : <<a, b>> \in Alike => <<b, a>> \in Alike
  /\ LowRank \in [LowName -> Nat]
  /\ \A a, b \in LowName : LowRank[a] = LowRank[b] => a = b
  /\ MaxChanges \in Nat /\ MaxCrashes \in Nat

VARIABLES
  link,        \* the 'linked' rows: whom a name is merged into
  auto,        \* linked rows created by "System (auto)"
  discarded,   \* the 'discarded' rows: not a name at all
  standalone,  \* the 'standalone' rows: a person without an account
  dismissed,   \* the 'dismissed' rows: pairs that are not one person
  known,       \* names in proxy_users
  active,      \* members not known to have left
  ledger,      \* dues_entries: sums by user_id or LOWER(member_name)
  changes,     \* changes so far
  crashes      \* ends of the process so far

links == <<link, auto>>
verdicts == <<discarded, standalone>>
people == <<known, active>>
vars == <<links, verdicts, dismissed, people, ledger, changes, crashes>>
-----------------------------------------------------------------------------
(* Following the links.                                                    *)

\* One hop, never more.
Canonical(w) == IF w \in Member THEN w
                ELSE IF link[w] = Unlinked THEN w ELSE link[w]

LinksTo(c) == {l \in LowName : link[l] = c}

AliasGroup(w) == [canonical |-> Canonical(w), aliases |-> LinksTo(Canonical(w))]

Owed(w) == IF w \in DOMAIN ledger THEN ledger[w] ELSE 0

\* Slip: the names merged into the person are not asked for.
OwnBalance(w) == Owed(Canonical(w))

\* A name that is an alias of itself (two spellings of one name in small
\* letters, merged automatically) is read twice.
DuesBalance(w) == LET g == AliasGroup(w)
                  IN Owed(g.canonical) + SumFunction([l \in g.aliases |-> Owed(l)])

\* The list of balances: every row under the person it folds to.
Balances(c) == SumFunction([w \in {w \in DOMAIN ledger : Canonical(w) = c} |-> ledger[w]])

-----------------------------------------------------------------------------
(* Merging and taking back.                                                *)

Upserted(a, f) == [link EXCEPT ![a] = f]

\* Slip: the names merged into a before stay with it.
NotRepointed(rows, a, f) == rows

Repointed(rows, a, f) == [l \in LowName |-> IF rows[l] = a THEN f ELSE rows[l]]

\* What pointed at a follows it, in the same transaction.
Merged(a, f) == Repointed(Upserted(a, f), a, f)

Deleted(a) == [link EXCEPT ![a] = Unlinked]

\* The rows of one verdict with one more, or one less.
Added(rows, a) == rows \cup {a}
Removed(rows, a) == rows \ {a}

\* Slip: the link is written to the name that was asked for.
AsTyped(t) == t

\* The target of a merge is flattened: what t is merged into, or t.
Flattened(t) == Canonical(t)

MayDie == \E died \in BOOLEAN : /\ died => crashes < MaxCrashes
                                /\ crashes' = crashes + IF died THEN 1 ELSE 0

Died == crashes' # crashes

Change == changes < MaxChanges /\ changes' = changes + 1

\* The marker of a person without an account goes in a transaction of its own.
Link(a, t) ==
  LET f == Flattened(t)
  IN /\ Change
     /\ t \in Member => t \in active
     /\ t # a /\ f # a
     /\ link' = Merged(a, f) /\ auto' = auto \ {a}
     /\ MayDie
     /\ standalone' = IF Died THEN standalone ELSE Removed(standalone, a)
     /\ UNCHANGED <<discarded, dismissed, people, ledger>>

\* Slip: the row stays, without a target.
UnmergeBlanks(a) ==
  /\ Change /\ link[a] # Unlinked
  /\ link' = Deleted(a)
  /\ UNCHANGED <<auto, verdicts, dismissed, people, ledger, crashes>>

Unmerge(a) ==
  /\ Change /\ link[a] # Unlinked
  /\ link' = Deleted(a) /\ auto' = auto \ {a}
  /\ UNCHANGED <<verdicts, dismissed, people, ledger, crashes>>

\* Names that are one but for case and blanks, none of them linked by now.
Variants(n) == {v \in known : /\ Squash[v] = Squash[n]
                              /\ link[Low[v]] = Unlinked /\ Low[v] \notin discarded}

First(names) == CHOOSE v \in names : \A u \in names : Rank[v] <= Rank[u]

\* A person without an account takes the slot, otherwise the first in order.
Heir(names) == LET persons == {v \in names : Low[v] \in standalone}
               IN First(IF persons # {} THEN persons ELSE names)

\* The names the pass merges, and what each is merged into.
Duplicates == {n \in known : n \in Variants(n) /\ n # Heir(Variants(n))}

\* What is merged into a duplicate already is not looked at.
AutoMerged == [l \in LowName |->
  IF \E n \in Duplicates : Low[n] = l
  THEN Low[Heir(Variants(CHOOSE n \in Duplicates : Low[n] = l))] ELSE link[l]]

\* The merge page lists the identities, the suggestions or both.
ListIdentities ==
  /\ Duplicates # {}
  /\ link' = AutoMerged /\ auto' = auto \cup {Low[n] : n \in Duplicates}
  /\ UNCHANGED <<verdicts, dismissed, people, ledger, changes, crashes>>

-----------------------------------------------------------------------------
(* Verdicts.                                                               *)

\* Slip: the new verdict is written before the other one is removed.
DiscardFirst(a) ==
  /\ Change /\ MayDie
  /\ discarded' = Added(discarded, a)
  /\ standalone' = IF Died THEN standalone ELSE Removed(standalone, a)
  /\ UNCHANGED <<links, dismissed, people, ledger>>

Discard(a) ==
  /\ Change /\ MayDie
  /\ standalone' = Removed(standalone, a)
  /\ discarded' = IF Died THEN discarded ELSE Added(discarded, a)
  /\ UNCHANGED <<links, dismissed, people, ledger>>

Undiscard(a) ==
  /\ Change /\ a \in discarded /\ discarded' = Removed(discarded, a)
  /\ UNCHANGED <<links, standalone, dismissed, people, ledger, crashes>>

MarkStandalone(a) ==
  /\ Change /\ MayDie
  /\ discarded' = Removed(discarded, a)
  /\ standalone' = IF Died THEN standalone ELSE Added(standalone, a)
  /\ UNCHANGED <<links, dismissed, people, ledger>>

UnmarkStandalone(a) ==
  /\ Change /\ a \in standalone /\ standalone' = Removed(standalone, a)
  /\ UNCHANGED <<links, discarded, dismissed, people, ledger, crashes>>

-----------------------------------------------------------------------------
(* Suggestions.  The cap of one suggestion per name is left out: this is   *)
(* what the list is cut from.                                              *)

Candidates == {Low[n] : n \in {n \in known : /\ AutoMerged[Low[n]] = Unlinked
                                              /\ Low[n] \notin discarded}}
Waiting == Candidates \ standalone

\* Slip: the order decides for every pair.
FirstInOrder(a, b) == LowRank[a] < LowRank[b]

\* Where both names wait for review the first in order is the alias.
Emits(a, b) == b \in Waiting => LowRank[a] < LowRank[b]

\* Slip: a dismissal counts as it was written down.
DismissedAsWritten(a, b) == <<a, b>> \in dismissed

Dismissed(a, b) == <<a, b>> \in dismissed \/ <<b, a>> \in dismissed

NamePairs == {p \in Waiting \X Candidates : /\ p[1] # p[2] /\ p \in Alike
                                            /\ Emits(p[1], p[2])
                                            /\ ~Dismissed(p[1], p[2])}
MemberPairs == {p \in Waiting \X active : p \in Alike /\ p \notin dismissed}
Suggestions == NamePairs \cup MemberPairs

Dismiss(a, w) ==
  /\ Change /\ dismissed' = dismissed \cup {<<a, w>>}
  /\ UNCHANGED <<links, verdicts, people, ledger, crashes>>

-----------------------------------------------------------------------------
(* Payments.                                                               *)

\* Whom a typed name may mean; two answers are refused.
Meant(l) ==
  LET real == {m \in active : Called[m] = l}
      past == {m \in Member \cap DOMAIN ledger : Called[m] = l}
  IN IF real # {} THEN real ELSE past \cup {l}

\* Slip: the entry goes under the name that was typed.
Unfolded(w) == w

CanonicalMember(w) == Canonical(w)

\* A payment without an amount pays what the person owes.
MarkPaid(l) ==
  \E w \in Meant(l) :
    LET payer == CanonicalMember(w)
    IN /\ Meant(l) = {w} /\ DuesBalance(payer) > 0
       /\ ledger' = [p \in DOMAIN ledger \cup {payer} |->
                       IF p = payer THEN Owed(p) - DuesBalance(payer) ELSE ledger[p]]
       /\ UNCHANGED <<links, verdicts, dismissed, people, changes, crashes>>

-----------------------------------------------------------------------------
GuestPlays(n) ==
  /\ Change /\ n \notin known /\ known' = known \cup {n}
  /\ UNCHANGED <<links, verdicts, dismissed, active, ledger, crashes>>

MemberLeaves(m) ==
  /\ Change /\ m \in active /\ active' = active \ {m}
  /\ UNCHANGED <<links, verdicts, dismissed, known, ledger, crashes>>

\* A vote brings a member who left back.
MemberVotes(m) ==
  /\ Change /\ m \notin active /\ active' = active \cup {m}
  /\ UNCHANGED <<links, verdicts, dismissed, known, ledger, crashes>>

Init == /\ link = [l \in LowName |-> Unlinked] /\ auto = {}
        /\ discarded = {} /\ standalone = {} /\ dismissed = {}
        /\ known = Known /\ active = Member /\ ledger = Opening
        /\ changes = 0 /\ crashes = 0

Next == \/ ListIdentities
        \/ \E a \in LowName :
             \/ \E w \in Who : Link(a, w) \/ (a # w /\ Dismiss(a, w))
             \/ Unmerge(a)
             \/ Discard(a) \/ Undiscard(a)
             \/ MarkStandalone(a) \/ UnmarkStandalone(a)
             \/ MarkPaid(a)
        \/ \E n \in Name : GuestPlays(n)
        \/ \E m \in Member : MemberLeaves(m) \/ MemberVotes(m)

Spec == Init /\ [][Next]_vars
-----------------------------------------------------------------------------
(* Properties.                                                             *)

\* Links lead from names to names or members, verdicts are about names, and
\* every name or member that had dues entries keeps them.
IdentityTypeOK ==
  /\ link \in [LowName -> Who \cup {Unlinked}]
  /\ auto \subseteq {l \in LowName : link[l] # Unlinked}
  /\ discarded \subseteq LowName /\ standalone \subseteq LowName
  /\ dismissed \subseteq LowName \X Who
  /\ known \subseteq Name /\ active \subseteq Member
  /\ DOMAIN Opening \subseteq DOMAIN ledger /\ DOMAIN ledger \subseteq Who

\* What a name is merged into is not itself merged into something, however
\* the merges, undone merges and re-merges came; only the automatic merge of
\* two spellings can make a second hop, since it leaves what is merged into
\* the spelling that goes (link_identities, merge_identity_link).
OneHop == \A l \in LowName :
            LET t == link[l]
            IN t \in LowName /\ link[t] # Unlinked => t \in auto

\* A merge carries everything: whoever was read as a before somebody merged a
\* is read as a's new person after it, names merged into a long ago included.
MergeCarriesAll ==
  [][\A a \in LowName \ auto' :
       link'[a] \notin {link[a], Unlinked}
       => \A l \in LowName : Canonical(l) = a => (Canonical(l))' = link'[a]]_links

\* The balance one person is asked for is the one the list of balances shows:
\* paying it leaves the person with nothing owed there.  Not for a person the
\* automatic merge gave a second hop or made an alias of itself.
PaidInFull ==
  [][\A w \in DOMAIN ledger' :
       (Owed(w))' < Owed(w) /\ Canonical(w) \notin auto
       => (Balances(Canonical(w)))' = 0]_ledger

\* A payment typed against a merged name lands on the person, so that undoing
\* the merge later does not take it away: no entry is written under a name
\* somebody merged away (_canonicalize_member).
PaidToThePerson ==
  [][\A w \in Who \ auto : (Owed(w))' # Owed(w) => Canonical(w) = w]_ledger

\* A name is never held to be garbage and a person at once, whatever the order
\* of the verdicts and wherever the process ended (discard_identity).
OneVerdict == discarded \cap standalone = {}

\* A pair that was rejected is not suggested again, whichever of the two is
\* offered as the alias by then (list_suggestions).
RejectedStays == \A p \in dismissed : p \notin Suggestions /\ <<p[2], p[1]>> \notin Suggestions

\* Two names that are alike and not both reviewed are suggested as one pair,
\* in one direction, until somebody answers; a reviewed name is only ever the
\* target (list_suggestions).
AlikeAreOffered ==
  \A a, b \in Candidates :
    (a # b /\ <<a, b>> \in Alike /\ ~({a, b} \subseteq standalone) /\ ~Dismissed(a, b))
    => (<<a, b>> \in Suggestions) # (<<b, a>> \in Suggestions)

\* What the merge page shows and keeps: one verdict a name, every pair of alike
\* names offered until somebody answers, and no rejected one again.
IdentityOK == IdentityTypeOK /\ OneVerdict /\ RejectedStays /\ AlikeAreOffered
=============================================================================
