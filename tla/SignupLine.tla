----------------------------- MODULE SignupLine -----------------------------
(***************************************************************************)
(* What a capped sign-up sheet promises, with no lists, rows or moves: one *)
(* line of people in the order they signed up, of which the first `cap`    *)
(* are going and the rest queue.  The services promise exactly this of IN  *)
(* and WAITING (common.fill_waitlist_slots, settings.set_wait_limit,       *)
(* models.addOut); RollCallLists is shown to implement it.                 *)
(***************************************************************************)
EXTENDS Naturals, Sequences, SequencesExt

CONSTANTS People, Limits, NoLimit

VARIABLES
  going,   \* the people who have a place, in order
  queue,   \* the people who wait for one, in order
  cap      \* how many places there are, or NoLimit

vars == << going, queue, cap >>

Line == going \o queue

Places(line, c) == IF c = NoLimit \/ Len(line) <= c THEN Len(line) ELSE c

\* Everybody is seated by the line alone: nobody in the queue while a place
\* is free, nobody going beyond the cap.
Seat(line, c) ==
  /\ going' = SubSeq(line, 1, Places(line, c))
  /\ queue' = SubSeq(line, Places(line, c) + 1, Len(line))
  /\ cap' = c

Init == going = << >> /\ queue = << >> /\ cap \in Limits \cup {NoLimit}

Join(p)   == p \notin ToSet(Line) /\ Seat(Append(Line, p), cap)
Leave(p)  == p \in ToSet(Line) /\ Seat(RemoveFirst(Line, p), cap)
SetCap(c) == Seat(Line, c)

\* p is replaced by q, one person under two names: q takes over p's place
\* behind the others who are going, and otherwise starts at the end.
Replace(p, q) ==
  /\ p \in ToSet(going) /\ q \notin ToSet(Line)
  /\ Seat(RemoveFirst(going, p) \o << q >> \o queue, cap)

LeaveBoth(p, q) ==
  /\ {p, q} \subseteq ToSet(Line)
  /\ Seat(RemoveFirst(RemoveFirst(Line, p), q), cap)

Rejoin(p, q) ==
  /\ p \in ToSet(queue) /\ q \notin ToSet(Line)
  /\ Seat(Append(RemoveFirst(Line, p), q), cap)

Next ==
  \/ \E p \in People : Join(p) \/ Leave(p)
  \/ \E c \in (Limits \ {0}) \cup {NoLimit} : SetCap(c)
  \/ \E p, q \in People : Replace(p, q) \/ Rejoin(p, q) \/ LeaveBoth(p, q)

Spec == Init /\ [][Next]_vars
=============================================================================
