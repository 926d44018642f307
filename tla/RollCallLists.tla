--------------------------- MODULE RollCallLists ---------------------------
(***************************************************************************)
(* One rollcall's four lists, as the bot keeps them in memory: who is IN,  *)
(* OUT, MAYBE and WAITING, and the cap on IN (models.py, class RollCall).  *)
(* The program is a single asyncio process and none of the operations      *)
(* below awaits, so each is one step.  What they write to the database,    *)
(* and what a failed write or a restart does, is RollCallStore.            *)
(***************************************************************************)
EXTENDS Naturals, Sequences, FiniteSets, SequencesExt

CONSTANTS
  Members,   \* Telegram users (integer user_id)
  Guests,    \* proxies: people entered by name (string user_id)
  Limits,    \* the caps an admin may ask for; 0 asks for no cap
  NoLimit,   \* inListLimit = None
  Admin,     \* a guest's owner: an admin of the group (/sif, web proxy form)
  Web,       \* a guest's owner: 0, entered on the web page by the guest
  NoOwner    \* no proxy_owners entry

ASSUME PeopleAssumption == Members \cap Guests = {}
ASSUME LimitAssumption == Limits \subseteq Nat /\ NoLimit \notin Nat
ASSUME OwnerAssumption == Cardinality({Admin, Web, NoOwner}) = 3

VARIABLE rc   \* the RollCall object

People   == Members \cup Guests
Answers  == {"in", "out", "maybe"}
Owners   == {Admin, Web, NoOwner}

RollCall == [inList : Seq(People), outList : Seq(People),
             maybeList : Seq(People), waitList : Seq(People),
             inListLimit : Limits \cup {NoLimit},
             proxy_owners : [Guests -> Owners]]

(***************************************************************************)
(* Reading a rollcall.                                                     *)
(***************************************************************************)
In(r)      == ToSet(r.inList)
Waiting(r) == ToSet(r.waitList)
Listed(r)  == In(r) \cup ToSet(r.outList) \cup ToSet(r.maybeList) \cup Waiting(r)

Capped(r) == r.inListLimit # NoLimit
Full(r)   == Capped(r) /\ Len(r.inList) >= r.inListLimit
Room(r)   == Capped(r) /\ Len(r.inList) < r.inListLimit

(***************************************************************************)
(* The votes.  Each list operation removes the voter from the other lists  *)
(* and appends; a vote already on the list changes at most its comment.    *)
(***************************************************************************)
\* Slip: the check for a voter who is IN or WAITING already is forgotten.
AddInAgain(r, u) ==
  LET left == [r EXCEPT !.outList   = RemoveFirst(@, u),
                        !.maybeList = RemoveFirst(@, u)]
  IN  IF Full(left) THEN [left EXCEPT !.waitList = Append(@, u)]
                    ELSE [left EXCEPT !.inList   = Append(@, u)]

AddIn(r, u) ==
  IF u \in In(r) \/ (Capped(r) /\ u \in Waiting(r)) THEN r
  ELSE LET left == [r EXCEPT !.outList   = RemoveFirst(@, u),
                             !.maybeList = RemoveFirst(@, u),
                             !.waitList  = RemoveFirst(@, u)]
       IN  IF Full(left) THEN [left EXCEPT !.waitList = Append(@, u)]
                         ELSE [left EXCEPT !.inList   = Append(@, u)]

\* Slip: the latest to wait is promoted.
PromoteLast(r) ==
  IF Room(r) /\ r.waitList # << >>
  THEN [r EXCEPT !.inList = Append(@, Last(r.waitList)), !.waitList = Front(@)]
  ELSE r

\* The head of the waitlist takes a slot that has just come free.
PromoteHead(r) ==
  IF Room(r) /\ r.waitList # << >>
  THEN [r EXCEPT !.inList = Append(@, Head(r.waitList)), !.waitList = Tail(@)]
  ELSE r

\* Leaving the line: without a cap nobody is looked up on the waitlist.
LeaveLine(r, u) ==
  [r EXCEPT !.inList   = RemoveFirst(@, u),
            !.waitList = IF Capped(r) THEN RemoveFirst(@, u) ELSE @]

\* Slip: the freed slot is left idle.
AddOutOnly(r, u) ==
  IF u \in ToSet(r.outList) THEN r
  ELSE [LeaveLine(r, u) EXCEPT !.maybeList = RemoveFirst(@, u),
                               !.outList = Append(@, u)]

AddOut(r, u) ==
  IF u \in ToSet(r.outList) THEN r
  ELSE LET left == [LeaveLine(r, u) EXCEPT !.maybeList = RemoveFirst(@, u)]
       IN  [PromoteHead(left) EXCEPT !.outList = Append(@, u)]

AddMaybe(r, u) ==
  IF u \in ToSet(r.maybeList) THEN r
  ELSE LET left == [LeaveLine(r, u) EXCEPT !.outList = RemoveFirst(@, u)]
       IN  [PromoteHead(left) EXCEPT !.maybeList = Append(@, u)]

Add(r, u, answer) ==
  CASE answer = "in"    -> AddIn(r, u)
    [] answer = "out"   -> AddOut(r, u)
    [] answer = "maybe" -> AddMaybe(r, u)

(***************************************************************************)
(* Moving the cap, and filling slots that a deletion frees.                *)
(***************************************************************************)
PromoteSlots(r, slots) ==
  LET n == IF slots < Len(r.waitList) THEN slots ELSE Len(r.waitList)
  IN  [r EXCEPT !.inList   = @ \o SubSeq(r.waitList, 1, n),
                !.waitList = SubSeq(@, n + 1, Len(@))]

FillWaitlistSlots(r) ==
  IF Room(r) THEN PromoteSlots(r, r.inListLimit - Len(r.inList)) ELSE r

\* Slip: the excess queues up behind the waiters.
DemoteToBack(r) ==
  [r EXCEPT !.inList   = SubSeq(@, 1, r.inListLimit),
            !.waitList = @ \o SubSeq(r.inList, r.inListLimit + 1, Len(r.inList))]

\* A lowered cap sends the excess to the FRONT of the waitlist, in IN order.
DemoteExcess(r) ==
  [r EXCEPT !.inList   = SubSeq(@, 1, r.inListLimit),
            !.waitList = SubSeq(r.inList, r.inListLimit + 1, Len(r.inList)) \o @]

SetWaitLimit(r, n) ==
  LET moved == [r EXCEPT !.inListLimit = n]
  IN  IF n = 0
      THEN [r EXCEPT !.inListLimit = NoLimit, !.inList = @ \o r.waitList,
                     !.waitList = << >>]
      ELSE IF Len(r.inList) > n THEN DemoteExcess(moved)
                                ELSE FillWaitlistSlots(moved)

(***************************************************************************)
(* Removing a row and rebuilding the lists from the database.  The rebuild *)
(* keeps every order except MAYBE's, which has no position column.         *)
(***************************************************************************)
\* Slip: an owner is recorded for a member as well.
SetAnyOwner(r, u, owner) ==
  [r EXCEPT !.proxy_owners = [g \in Guests \cup {u} |->
                                IF g = u THEN owner ELSE @[g]]]

SetOwner(r, u, owner) ==
  [r EXCEPT !.proxy_owners = [g \in Guests |-> IF g = u THEN owner ELSE @[g]]]

Without(r, u) ==
  [SetOwner(r, u, NoOwner) EXCEPT !.inList    = RemoveFirst(@, u),
                                  !.outList   = RemoveFirst(@, u),
                                  !.maybeList = RemoveFirst(@, u),
                                  !.waitList  = RemoveFirst(@, u)]

Reloads(r) ==
  {[r EXCEPT !.maybeList = q] : q \in SetToSeqs(ToSet(r.maybeList))}

StatusOf(r, u) ==
  CASE u \in In(r)              -> "in"
    [] u \in ToSet(r.outList)   -> "out"
    [] u \in ToSet(r.maybeList) -> "maybe"
    [] OTHER                    -> "waitlist"

OwnerOf(r, u) == IF u \in Guests THEN r.proxy_owners[u] ELSE NoOwner

-----------------------------------------------------------------------------
(***************************************************************************)
(* The operations.                                                         *)
(***************************************************************************)
NewRollCall(limit) ==
  [inList |-> << >>, outList |-> << >>, maybeList |-> << >>,
   waitList |-> << >>, inListLimit |-> limit,
   proxy_owners |-> [g \in Guests |-> NoOwner]]

Init == \E limit \in Limits \cup {NoLimit} : rc = NewRollCall(limit)

\* A member answers: /in /out /maybe, the panel's buttons, the web page.
VoteIn(m)    == rc' = AddIn(rc, m)
VoteOut(m)   == rc' = AddOut(rc, m)
VoteMaybe(m) == rc' = AddMaybe(rc, m)

\* /sif, or a guest's own IN on the web page: refused if IN or WAITING.
GuestIn(g, owner) ==
  /\ g \notin In(rc) \cup Waiting(rc)
  /\ rc' = AddIn(SetOwner(rc, g, owner), g)

\* /sof and /smf: no owner is recorded.
GuestOut(g)   == rc' = AddOut(rc, g)
GuestMaybe(g) == rc' = AddMaybe(rc, g)

SetLimit(n) == rc' = SetWaitLimit(rc, n)

DeleteUser(u) ==
  /\ u \in Listed(rc)
  /\ \E r \in Reloads(Without(rc, u)) : rc' = FillWaitlistSlots(r)

\* An admin moves somebody: refused for the same status, or IN when full.
SetUserStatus(u, answer) ==
  /\ u \in Listed(rc)
  /\ StatusOf(rc, u) # answer
  /\ answer = "in" => ~Full(rc)
  /\ \E r \in Reloads(Without(rc, u)) :
       rc' = Add(SetOwner(r, u, OwnerOf(rc, u)), u, answer)

\* A verified member votes on the web; the guest entry of the same name that
\* the web page recorded for them before is dropped first.
WebVote(m, g, answer) ==
  /\ g \in Listed(rc)
  /\ rc.proxy_owners[g] = Web
  /\ \E r \in Reloads(Without(rc, g)) :
       rc' = FillWaitlistSlots(Add(r, m, answer))

\* The process restarts and reads the rollcall back.
Restart == rc' \in Reloads(rc)

Next ==
  \/ \E m \in Members : VoteIn(m) \/ VoteOut(m) \/ VoteMaybe(m)
  \/ \E g \in Guests, o \in {Admin, Web} : GuestIn(g, o)
  \/ \E g \in Guests : GuestOut(g) \/ GuestMaybe(g)
  \/ \E n \in Limits : SetLimit(n)
  \/ \E u \in People : DeleteUser(u)
  \/ \E u \in People, a \in Answers : SetUserStatus(u, a)
  \/ \E m \in Members, g \in Guests, a \in Answers : WebVote(m, g, a)
  \/ Restart

Spec == Init /\ [][Next]_rc

-----------------------------------------------------------------------------
(***************************************************************************)
(* Properties.                                                             *)
(***************************************************************************)
Disjoint(s, t) == ToSet(s) \cap ToSet(t) = {}

\* The rollcall is four lists of people, a cap and an owner per guest.
TypeOK == rc \in RollCall

\* Nobody is on two lists, or twice on one, whatever path put them there
\* (addIn/addOut/addMaybe each clean the OTHER lists by hand).
OnePlace(r) ==
  /\ \A s \in {r.inList, r.outList, r.maybeList, r.waitList} : IsInjective(s)
  /\ Disjoint(r.inList, r.outList)  /\ Disjoint(r.inList, r.maybeList)
  /\ Disjoint(r.inList, r.waitList) /\ Disjoint(r.outList, r.maybeList)
  /\ Disjoint(r.outList, r.waitList) /\ Disjoint(r.maybeList, r.waitList)

\* The IN list never exceeds the cap an admin set.
CapHeld(r) == Capped(r) => Len(r.inList) <= r.inListLimit

\* Nobody waits while a slot is free, and nobody waits without a cap: every
\* path that frees a slot promotes (vote, deletion, cap, admin move).
NoIdleSlot(r) == r.waitList # << >> => Full(r)

\* The three together: what every operation relies on and leaves behind.
ListsOK == OnePlace(rc) /\ CapHeld(rc) /\ NoIdleSlot(rc)

\* Nobody loses an IN slot to the waitlist unless the cap came down.
NoUnaskedDemotion ==
  [][\A u \in People :
       u \in In(rc) /\ u \in Waiting(rc')
         => Capped(rc') /\ (~Capped(rc) \/ rc'.inListLimit < rc.inListLimit)]_rc

\* IN and WAITING are a fair sign-up sheet: one line in order of arrival, cut
\* at the cap, whatever vote, deletion, admin move, cap change or restart.
Sheet == INSTANCE SignupLine WITH going <- rc.inList, queue <- rc.waitList,
                                  cap <- rc.inListLimit
FairLine == Sheet!Spec
=============================================================================
