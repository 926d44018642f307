-------------------------- MODULE RollCallHistory --------------------------
(***************************************************************************)
(* The operations on a rollcall run to their end: lists, rows, and what    *)
(* the services do beside them, the attendance counters they bump          *)
(* (services/common.record_promotion_stats, services/voting).              *)
(***************************************************************************)
EXTENDS RollCallStore

VARIABLE
  bumped    \* the people whose total_in the last operation bumped, in order

hvars == << rc, db, bumped >>

MembersOf(s) == Among(s, Members)

\* A vote that lands on IN counts; a repeated, waiting or re-commented one
\* does not.
CountVote(r, u) ==
  IF u \notin In(r) /\ u \in In(AddIn(r, u)) THEN MembersOf(<< u >>) ELSE << >>

\* addOut and addMaybe return the head they promoted.
CountPromoted(old, new, u) ==
  MembersOf(Among(old.waitList, In(new) \ {u}))

\* Slip: the promoted are forgotten.
CountOwnVote(r, u, answer) == IF answer = "in" THEN CountVote(r, u) ELSE << >>

CountAnswer(r, u, answer) ==
  IF answer = "in" THEN CountVote(r, u) ELSE CountPromoted(r, Add(r, u, answer), u)

\* Slip: whoever is IN after the slots are filled is counted.
CountSeated(old, new) == MembersOf(new.inList)

\* Everybody fill_waitlist_slots or set_wait_limit moves up is counted.
CountFilled(old, new) ==
  MembersOf(Among(old.waitList, In(new)))

CountFill(r) == CountFilled(r, FillWaitlistSlots(r))

-----------------------------------------------------------------------------
Votes(m, a) ==
  /\ \E c \in BOOLEAN : Finish(MemberAnswers(m, a, c))
  /\ bumped' = CountAnswer(rc, m, a)

\* A guest's answer, given by an admin or by the guest on the web page.
GuestVotes(g) ==
  \/ /\ g \in NewGuests
     /\ \E o \in {Admin, Web} : Finish(GuestComes(g, o))
     /\ bumped' = << >>
  \/ \E a \in StaysAway :
       /\ \E c \in BOOLEAN : Finish(GuestAnswers(g, a, c))
       /\ bumped' = CountAnswer(rc, g, a)

MovesCap(n) ==
  /\ Finish(CapMoves(n))
  /\ bumped' = CountFilled(rc, SetWaitLimit(rc, n))

Deletes(u) ==
  /\ \/ u \in ById /\ Finish(IdDeleted(u))
     \/ \E n \in Names : u \in Named(db, n) /\ Finish(NameDeleted(n, u))
  /\ bumped' = CountFill(Without(rc, u))

\* set_user_status promotes through addOut and addMaybe and counts nobody.
MovesUser(u) ==
  /\ u \in Listed(rc)
  /\ \E a \in MayBecome(u) : Finish(PersonMoved(u, a))
  /\ bumped' = << >>

WebVotes(m, g, a) ==
  /\ g \in WebGuests
  /\ \E c \in BOOLEAN : Finish(WebAnswers(m, g, a, c))
  /\ LET r == Without(rc, g)
     IN  bumped' = CountAnswer(r, m, a) \o CountFill(Add(r, m, a))

HistoryInit ==
  /\ StoreInit
  /\ bumped = << >>

HistoryNext ==
  \/ \E m \in Members, a \in Answers : Votes(m, a)
  \/ \E g \in Guests : GuestVotes(g)
  \/ \E n \in Limits : MovesCap(n)
  \/ \E u \in People : Deletes(u) \/ MovesUser(u)
  \/ \E m \in Members, g \in Guests, a \in Answers : WebVotes(m, g, a)
  \/ Reopen /\ bumped' = << >>

HistorySpec == HistoryInit /\ [][HistoryNext]_hvars

-----------------------------------------------------------------------------
\* The counters follow the lists: an operation counts a member once, and only
\* one who was not IN before it and is IN after it, also when a web vote first
\* queues its voter and then fills the slots it freed; and "Every path that
\* promotes calls this" (record_promotion_stats): whoever moves up from the
\* waitlist is counted, except by an admin's move.
CountersFollowLists ==
  [][/\ IsInjective(bumped')
     /\ ToSet(bumped') \subseteq In(rc') \ In(rc)
     /\ \/ Waiting(rc) \cap In(rc') \cap Members \subseteq ToSet(bumped')
        \/ \E u \in People : MovesUser(u)]_hvars
=============================================================================
