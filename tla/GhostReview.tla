---------------------------- MODULE GhostReview ----------------------------
(***************************************************************************)
(* Who played and who did not turn up: the review of an ended game, by the *)
(* question in the chat, /mark_absent, the web page and the daily sweep    *)
(* that forgives what nobody reviewed (services/ghost.py,                  *)
(* handlers/ghost.py, periodic_jobs.py, the ghost tables of db.py). The    *)
(* penalty panel of the settlement, the fourth road, and the lock it waits *)
(* for are module PenaltyPanel. Taps on the chat's question do their work  *)
(* before their first await. Every write is a transaction of its own whose *)
(* failure is logged and passed over, so any part of a handler's writes    *)
(* may be missing: a lapse. A death between two writes is a lapse that     *)
(* misses the rest of them, with a restart after it.                       *)
(***************************************************************************)
EXTENDS Integers, Sequences, FiniteSets, FiniteSetsExt, Functions, SequencesExt

CONSTANTS
  Game,        \* the chat's games
  Member,      \* members, by Telegram id
  Proxy,       \* guests, by name
  Lineups,     \* the <<IN, OUT>> lists games may end with
  After,       \* GHOST_AUTOFORGIVE_DAYS: how long a game waits for its review
  Lookback,    \* _AUTOFORGIVE_MAX_LOOKBACK_DAYS
  NoChoice,
  MaxMarks,    \* bound: no-shows recorded for one person and game
  MaxLapses   \* bound: handlers and sweeps that miss some of their writes

Person == Member \cup Proxy

ASSUME GhostAssumption ==
  /\ IsFiniteSet(Game)
  /\ Member \cap Proxy = {} /\ Lineups \subseteq (SUBSET Person) \X (SUBSET Person)
  /\ After \in Nat \ {0} /\ Lookback \in Nat /\ After <= Lookback
  /\ MaxMarks \in Nat /\ MaxLapses \in Nat

VARIABLES
  game,      \* rows of rollcalls, with the days since the end
  tracking,  \* ghost_tracking_enabled
  count,     \* ghost_records: absences a person still has to answer for
  marks,     \* ghost_events: no-shows recorded per game and person
  listed,    \* games /mark_absent has offered, with their buttons
  prompts,   \* games whose question stands in the chat with its buttons
  chosen,    \* _ghost_selections: the answer in the making
  saved,     \* ghost_selections: its copy in the database
  swept,     \* the sweep has run today
  lapses,   \* handlers and sweeps that missed some of their writes
  \* only for the properties:
  unrecorded, \* absences counted whose event was not written
  forgave,   \* absences the sweep gave back per game and person
  broken     \* sweeps that left the game open

tallies == <<count, marks, unrecorded>>
review == <<tallies, game, lapses>>
answers == <<listed, prompts, chosen, saved>>
sweeps == <<swept, forgave, broken>>
vars == <<review, tracking, answers, sweeps>>
-----------------------------------------------------------------------------
(* The tables.                                                             *)

InUsers(g) == game[g].in
OutUsers(g) == game[g].out

\* A drop-out too late to be replaced can be marked as well.
Candidates(g) == InUsers(g) \cup OutUsers(g)

\* Slip: a game that was reviewed is listed again.
UnprocessedAgain(g, days) ==
  /\ game[g].ended /\ ~game[g].cancelled
  /\ game[g].age <= days
  /\ InUsers(g) \cap Member # {}

Unprocessed(g, days) ==
  /\ game[g].ended /\ ~game[g].cancelled /\ ~game[g].reviewed
  /\ game[g].age <= days
  /\ InUsers(g) \cap Member # {}

\* Slip: the count is taken down whatever it is.
DecrementBelow(n) == n - 1

Decrement(n) == IF n > 0 THEN n - 1 ELSE 0

Incremented(c, who) == [p \in Person |-> IF p \in who THEN c[p] + 1 ELSE c[p]]

\* Slip: a guest's no-show is not recorded.
MembersRecorded(g, who) ==
  [marks EXCEPT ![g] = [p \in Person |-> IF p \in who \cap Member THEN @[p] + 1 ELSE @[p]]]

Recorded(g, who) == [marks EXCEPT ![g] = [p \in Person |-> IF p \in who THEN @[p] + 1 ELSE @[p]]]

Forgiven(c, who) == [p \in Person |-> IF p \in who THEN Decrement(c[p]) ELSE c[p]]

\* Everybody IN who was not selected is forgiven one absence.
Attended(g, selected) == InUsers(g) \ selected

MarkAbsentDone(done) == game' = [g \in Game |-> [game[g] EXCEPT !.reviewed = @ \/ g \in done]]

\* Bounds.
Room(g) == \A p \in Person : marks[g][p] < MaxMarks
Lapse(clean) ==
  IF clean THEN UNCHANGED lapses ELSE lapses < MaxLapses /\ lapses' = lapses + 1

\* The writes of a handler: who did not come is counted and, in a second
\* transaction, noted; the others are forgiven, and the game is closed.
Write(g, who, others, closing) ==
  /\ who # {} => Room(g)
  /\ \E counted \in SUBSET who, noted \in SUBSET who, forgiven \in SUBSET others, done \in SUBSET closing :
       /\ count' = Forgiven(Incremented(count, counted), forgiven)
       /\ marks' = Recorded(g, noted)
       /\ unrecorded' = Incremented(unrecorded, counted \ noted)
       /\ MarkAbsentDone(done)
       /\ Lapse(counted = who /\ noted = who /\ forgiven = others /\ done = closing)

Mark(g, who) == Write(g, who, {}, {})

\* The chat's answers make these writes as well, the closing first.
ReviewSession(g, selected) ==
  LET who == selected \cap Candidates(g) IN Write(g, who, Attended(g, who), {g})
-----------------------------------------------------------------------------
(* The question in the chat.                                               *)

\* A game that was cancelled has nothing to review, whatever the button.
CancelledGame(g) ==
  /\ g \in prompts \cup listed /\ game[g].cancelled
  /\ MarkAbsentDone({g})
  /\ UNCHANGED <<tallies, lapses, answers>>

GhostNo(g) ==
  /\ g \in prompts /\ ~game[g].cancelled
  /\ ReviewSession(g, {})
  /\ chosen' = [chosen EXCEPT ![g] = NoChoice]
  /\ UNCHANGED <<listed, prompts, saved>>

SaveSelections(g, s) ==
  \E ok \in BOOLEAN : saved' = (IF ok THEN [saved EXCEPT ![g] = s] ELSE saved) /\ Lapse(ok)
LoadSelections(g) == IF saved[g] = NoChoice THEN {} ELSE saved[g]
Selections(g) == IF chosen[g] = NoChoice THEN LoadSelections(g) ELSE chosen[g]

GhostYes(g) ==
  /\ g \in prompts /\ ~game[g].cancelled
  /\ Candidates(g) # {}
  /\ chosen' = [chosen EXCEPT ![g] = LoadSelections(g)]
  /\ UNCHANGED <<review, listed, prompts, saved>>

\* Showing or hiding the drop-outs fetches a lost answer as well.
GhostMore(g) ==
  /\ g \in prompts /\ ~game[g].cancelled
  /\ chosen' = [chosen EXCEPT ![g] = Selections(g)]
  /\ UNCHANGED <<review, listed, prompts, saved>>

GhostToggle(g, p) ==
  /\ g \in prompts /\ ~game[g].cancelled
  /\ p \in Candidates(g)
  /\ LET flipped == SymDiff(Selections(g), {p})
     IN  chosen' = [chosen EXCEPT ![g] = flipped] /\ SaveSelections(g, flipped)
  /\ UNCHANGED <<tallies, game, listed, prompts>>

\* The copy in the database stays; a second tap finds it again.
GhostDone(g) ==
  /\ g \in prompts /\ ~game[g].cancelled
  /\ ReviewSession(g, Selections(g))
  /\ chosen' = [chosen EXCEPT ![g] = NoChoice]
  /\ UNCHANGED <<listed, prompts, saved>>

\* The answer takes the buttons away, by a Telegram call after the work; so
\* does an admin of the chat who deletes the question.
ButtonsGone(g) ==
  /\ g \in prompts
  /\ prompts' = prompts \ {g}
  /\ UNCHANGED <<review, listed, chosen, saved>>

\* /mark_absent lists what waits for its review now.
MarkAbsent ==
  /\ tracking
  /\ listed' = listed \cup {g \in Game : Unprocessed(g, Lookback)}
  /\ UNCHANGED <<review, prompts, chosen, saved>>

\* A game of such a list is picked, then or later; the answer starts afresh.
MabsSel(g) ==
  /\ g \in listed /\ ~game[g].cancelled
  /\ Candidates(g) # {}
  /\ listed' = listed \ {g} /\ prompts' = prompts \cup {g}
  /\ chosen' = [chosen EXCEPT ![g] = {}]
  /\ UNCHANGED <<review, saved>>

Leaderboard == {p \in Person : count[p] > 0}

Reset(who) == [p \in Person |-> IF p \in who THEN 0 ELSE count[p]]

\* One person, found by a name typed from memory, or everybody.
ClearAbsent(who) ==
  /\ who = Leaderboard \/ Cardinality(who) = 1
  /\ count' = Reset(who)
  /\ UNCHANGED <<marks, unrecorded, game, lapses, answers>>
-----------------------------------------------------------------------------
(* The web page; its wait for the chat's lock is in PenaltyPanel.          *)

WebReview(g, selected) ==
  /\ Unprocessed(g, Lookback)
  /\ ReviewSession(g, selected)
  /\ UNCHANGED answers
-----------------------------------------------------------------------------
(* Games, restarts and days.                                               *)

\* The end of a game asks its question in the chat, or leaves it to the
\* settlement where dues are on; the panel's End button asks in any case.
End(g, in, out) ==
  /\ ~game[g].ended
  /\ game' = [game EXCEPT ![g] = [@ EXCEPT !.ended = TRUE, !.in = in, !.out = out]]
  /\ prompts' \in IF tracking /\ in \cup out # {} THEN {prompts, prompts \cup {g}} ELSE {prompts}
  /\ UNCHANGED <<tallies, lapses, listed, chosen, saved>>

Restart ==
  /\ chosen' = [g \in Game |-> NoChoice]
  /\ UNCHANGED <<review, listed, prompts, saved>>

NextDay ==
  /\ swept
  /\ swept' = FALSE
  /\ game' = [g \in Game |-> [game[g] EXCEPT !.age =
                IF game[g].ended /\ @ <= Lookback THEN @ + 1 ELSE @]]
  /\ UNCHANGED <<tallies, lapses, answers, forgave, broken>>

\* Slip: the window closes where it opens.
StaleToday(g) == Unprocessed(g, After) /\ game[g].age >= After

Stale(g) == Unprocessed(g, Lookback) /\ game[g].age >= After

\* The stamp first, then the games: everybody IN is forgiven, then the game
\* closed. A game that a lapse leaves open is gone over again, tomorrow or, if
\* the stamp was not written either, in a minute.
AutoForgive ==
  /\ ~swept /\ swept' \in BOOLEAN
  /\ LET stale == {g \in Game : tracking /\ Stale(g)} IN
     \E gave \in [Game -> SUBSET Person], done \in SUBSET stale :
       /\ \A g \in Game : gave[g] \subseteq (IF g \in stale THEN InUsers(g) ELSE {})
       /\ forgave' = [g \in Game |-> Incremented(forgave[g], gave[g])]
       /\ count' = [p \in Person |-> LET n == Cardinality({g \in Game : p \in gave[g]})
                                     IN  IF count[p] > n THEN count[p] - n ELSE 0]
       /\ MarkAbsentDone(done)
       /\ broken' = [g \in Game |-> IF g \in stale \ done THEN broken[g] + 1 ELSE broken[g]]
       /\ Lapse(swept' /\ done = stale /\ \A g \in stale : gave[g] = InUsers(g))
  /\ UNCHANGED <<marks, unrecorded, answers>>

ToggleTracking == tracking' = ~tracking /\ UNCHANGED <<review, answers>>
-----------------------------------------------------------------------------
Init ==
  \* a game may be half cancelled: see module RollCallRegistry
  /\ \E cancelled \in SUBSET Game :
       game = [g \in Game |-> [ended |-> FALSE, in |-> {}, out |-> {}, cancelled |-> g \in cancelled,
                               reviewed |-> FALSE, age |-> 0]]
  /\ tracking = TRUE
  /\ count = [p \in Person |-> 0] /\ unrecorded = count /\ marks = [g \in Game |-> count]
  /\ listed = {} /\ prompts = {} /\ chosen = [g \in Game |-> NoChoice] /\ saved = chosen
  /\ swept = FALSE /\ lapses = 0 /\ forgave = marks /\ broken = [g \in Game |-> 0]

Answering ==
  \/ \E g \in Game : \/ CancelledGame(g) \/ GhostNo(g) \/ GhostYes(g) \/ GhostDone(g)
                     \/ ButtonsGone(g) \/ GhostMore(g) \/ MabsSel(g)
                     \/ \E p \in Person : GhostToggle(g, p)
                     \/ \E selected \in SUBSET Person : WebReview(g, selected)
  \/ MarkAbsent
  \/ \E who \in SUBSET Person : ClearAbsent(who)

Lives == Restart \/ \E g \in Game, l \in Lineups : End(g, l[1], l[2])

Days == NextDay \/ AutoForgive

Next ==
  \/ (Answering \/ Lives) /\ UNCHANGED <<tracking, sweeps>>
  \/ Days /\ UNCHANGED tracking
  \/ ToggleTracking /\ UNCHANGED sweeps

Spec == Init /\ [][Next]_vars

\* The sweep is tried every minute, and a day ends.
FairSpec == Spec /\ WF_vars(AutoForgive /\ UNCHANGED tracking) /\ WF_vars(NextDay /\ UNCHANGED tracking)
-----------------------------------------------------------------------------
(* Type correctness: a count is never negative, and only people of a game  *)
(* are recorded as its no-shows.                                           *)
GhostTypeOK ==
  /\ game \in [Game -> [ended : BOOLEAN, in : SUBSET Person, out : SUBSET Person, cancelled : BOOLEAN,
                        reviewed : BOOLEAN, age : 0..(Lookback + 1)]]
  /\ tracking \in BOOLEAN /\ count \in [Person -> Nat] /\ unrecorded \in [Person -> Nat]
  /\ marks \in [Game -> [Person -> 0..MaxMarks]]
  /\ \A g \in Game, p \in Person : marks[g][p] > 0 => p \in Candidates(g)
  /\ listed \subseteq Game /\ prompts \subseteq Game
  /\ chosen \in [Game -> {NoChoice} \cup SUBSET Person] /\ saved \in [Game -> {NoChoice} \cup SUBSET Person]
  /\ swept \in BOOLEAN /\ forgave \in [Game -> [Person -> Nat]] /\ broken \in [Game -> Nat]
  /\ lapses \in 0..MaxLapses

(* Nobody answers for more absences than are on record, through every road *)
(* that marks, forgives or clears; the only absences without a record are  *)
(* those whose event the database refused after it had counted them.       *)
CountOnRecord == \A p \in Person : count[p] <= SumFunction([g \in Game |-> marks[g][p]]) + unrecorded[p]

(* All sweeps together give back one absence per person and game, and one  *)
(* more for each sweep that broke off before it had closed the game; none  *)
(* for a game that was reviewed, in whatever way.                          *)
SweepForgivesOnce ==
  /\ [](\A g \in Game, p \in Person : forgave[g][p] <= 1 + broken[g])
  /\ [][\A g \in Game : game[g].reviewed => forgave'[g] = forgave[g]]_vars

(* periodic_jobs.py: long-unmarked sessions count as "everyone attended"   *)
(* in the end, also when a sweep breaks off under way, as long as the chat *)
(* tracks absences.                                                        *)
EndsReviewed ==
  \A g \in Game :
    game[g].ended /\ game[g].age = 0 /\ ~game[g].cancelled /\ InUsers(g) \cap Member # {}
      ~> game[g].reviewed \/ ~tracking

(* Nobody is asked about an absence without a record, save those.          *)
GhostsOK == GhostTypeOK /\ CountOnRecord
=============================================================================
