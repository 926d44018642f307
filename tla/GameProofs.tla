----------------------------- MODULE GameProofs -----------------------------
(***************************************************************************)
(* Proofs about a game from its start to its review.  GhostReview and      *)
(* PenaltyPanel, for any games, people, line-ups, tiers, panels and        *)
(* bounds: an absence is on record unless its event was not written, a     *)
(* game is forgiven again only after a sweep that broke off, and whatever  *)
(* admins tap while calls wait for the lock charges one tier each, closes  *)
(* attendance once and takes no absence back twice.  RollCallRegistry and  *)
(* RollCallClock, for any rollcalls, close times and crashes: the list in  *)
(* memory is the rows, a game counts once, and the clock implements the    *)
(* registry.                                                               *)
(***************************************************************************)
EXTENDS PenaltyPanel, RollCallClock, DataLemmas

GameRow == [ended : BOOLEAN, in : SUBSET Person, out : SUBSET Person, cancelled : BOOLEAN,
            reviewed : BOOLEAN, age : 0..(Lookback + 1)]

\* The tables: a game has lists once it has ended, and its no-shows are people
\* of its lists.
ReviewTyped ==
  /\ game \in [Game -> GameRow] /\ count \in [Person -> Nat]
  /\ marks \in [Game -> [Person -> 0..MaxMarks]]
  /\ \A g \in Game, p \in Person : marks[g][p] > 0 => p \in Candidates(g)
  /\ \A g \in Game : ~game[g].ended => game[g].in = {} /\ game[g].out = {}
  /\ unrecorded \in [Person -> Nat] /\ lapses \in 0..MaxLapses

\* The buttons, the answers in the making and the sweep.
AnswersTyped ==
  /\ tracking \in BOOLEAN /\ listed \subseteq Game /\ prompts \subseteq Game
  /\ chosen \in [Game -> {NoChoice} \cup SUBSET Person]
  /\ saved \in [Game -> {NoChoice} \cup SUBSET Person]
  /\ swept \in BOOLEAN /\ forgave \in [Game -> [Person -> Nat]] /\ broken \in [Game -> Nat]

\* Each sweep that forgave a game either broke off in it or closed it.
SweptOnce ==
  \A g \in Game, p \in Person : forgave[g][p] <= broken[g] + (IF game[g].reviewed THEN 1 ELSE 0)

\* The inductive invariant of the review.
Inv == ReviewTyped /\ AnswersTyped /\ CountOnRecord /\ SweptOnce

\* A step that changes no list, and reviews but does not unreview.
RowsStay ==
  /\ game' \in [Game -> GameRow]
  /\ \A h \in Game : /\ game'[h].in = game[h].in /\ game'[h].out = game[h].out
                     /\ game'[h].ended = game[h].ended
                     /\ game[h].reviewed => game'[h].reviewed

\* A step that counts some people and notes some in one game.
Noting(g, rose, noted) ==
  /\ marks' \in [Game -> [Person -> 0..MaxMarks]]
  /\ \A h \in Game, p \in Person :
       marks'[h][p] = marks[h][p] + (IF h = g /\ p \in noted THEN 1 ELSE 0)
  /\ count' \in [Person -> Nat] /\ unrecorded' \in [Person -> Nat]
  /\ \A p \in Person :
       /\ count'[p] <= count[p] + (IF p \in rose THEN 1 ELSE 0)
       /\ unrecorded'[p] = unrecorded[p] + (IF p \in rose \ noted THEN 1 ELSE 0)
-----------------------------------------------------------------------------
(* Games that change.                                                      *)

\* One row changes: a person of the game's lists stays one, and a game that
\* has not ended has no lists.
LEMMA RowKeeps ==
  ASSUME ReviewTyped, NEW g \in Game, NEW entry \in GameRow, game' = [game EXCEPT ![g] = entry],
         UNCHANGED <<marks, unrecorded, lapses>>, count' \in [Person -> Nat],
         game[g].in \cup game[g].out \subseteq entry.in \cup entry.out,
         ~entry.ended => entry.in = {} /\ entry.out = {}
  PROVE  ReviewTyped'
<1>1. game' \in [Game -> GameRow]
  BY DEF ReviewTyped
<1>2. \A h \in Game : game'[h] = IF h = g THEN entry ELSE game[h]
  BY DEF ReviewTyped
<1>3. \A h \in Game : Candidates(h) \subseteq (Candidates(h))'
  BY <1>2 DEF Candidates, InUsers, OutUsers
<1>4. \A h \in Game : ~game'[h].ended => game'[h].in = {} /\ game'[h].out = {}
  BY <1>2 DEF ReviewTyped
<1> QED  BY <1>1, <1>3, <1>4 DEF ReviewTyped

\* Reviews that are over change no list.
LEMMA DoneRow ==
  ASSUME ReviewTyped, NEW done, MarkAbsentDone(done)
  PROVE  RowsStay /\ \A h \in done \cap Game : game'[h].reviewed
<1> DEFINE entry(h) == [game[h] EXCEPT !.reviewed = @ \/ h \in done]
<1>1. ASSUME NEW h \in Game
      PROVE  /\ entry(h) \in GameRow /\ entry(h).in = game[h].in /\ entry(h).out = game[h].out
             /\ entry(h).ended = game[h].ended
             /\ entry(h).reviewed <=> game[h].reviewed \/ h \in done
  <2> DEFINE r == game[h].reviewed \/ h \in done
  <2>1. r \in BOOLEAN /\ entry(h) = [game[h] EXCEPT !.reviewed = r]
    OBVIOUS
  <2>2. game[h] \in GameRow
    BY DEF ReviewTyped
  <2>3. ASSUME NEW x \in GameRow, NEW b \in BOOLEAN
        PROVE  LET y == [x EXCEPT !.reviewed = b]
               IN  y \in GameRow /\ y.in = x.in /\ y.out = x.out /\ y.ended = x.ended /\ y.reviewed = b
    BY DEF GameRow
  <2>4. PICK b \in BOOLEAN : b = r
    BY <2>1
  <2>5. entry(h) = [game[h] EXCEPT !.reviewed = b]
    BY <2>1, <2>4
  <2>6. /\ entry(h) \in GameRow /\ entry(h).in = game[h].in /\ entry(h).out = game[h].out
        /\ entry(h).ended = game[h].ended /\ entry(h).reviewed = b
    BY <2>2, <2>3, <2>5
  <2> QED  BY <2>4, <2>6
<1>2. game' = [h \in Game |-> entry(h)]
  BY DEF MarkAbsentDone
<1> HIDE DEF entry
<1>3. game' \in [Game -> GameRow] /\ \A h \in Game : game'[h] = entry(h)
  BY <1>1, <1>2
<1> QED  BY <1>1, <1>3 DEF RowsStay

LEMMA NothingDone ==
  ASSUME ReviewTyped, MarkAbsentDone({})
  PROVE  UNCHANGED game
<1>1. \A h \in Game : [game[h] EXCEPT !.reviewed = @ \/ h \in {}] = game[h]
  <2> SUFFICES ASSUME NEW h \in Game
               PROVE  [game[h] EXCEPT !.reviewed = game[h].reviewed \/ h \in {}] = game[h]
    OBVIOUS
  <2>1. game[h] \in GameRow /\ game[h].reviewed \in BOOLEAN
    BY DEF ReviewTyped, GameRow
  <2>2. (game[h].reviewed \/ h \in {}) = game[h].reviewed
    BY <2>1
  <2>3. ASSUME NEW x \in GameRow PROVE [x EXCEPT !.reviewed = x.reviewed] = x
    BY DEF GameRow
  <2>4. [game[h] EXCEPT !.reviewed = game[h].reviewed] = game[h]
    BY <2>1, <2>3
  <2> QED  BY <2>2, <2>4
<1>2. game' = [h \in Game |-> game[h]]
  BY <1>1 DEF MarkAbsentDone
<1> QED  BY <1>2 DEF ReviewTyped

\* Lists that stay: what is recorded stays about people of the lists.
LEMMA ListsStay ==
  ASSUME ReviewTyped, RowsStay, count' \in [Person -> Nat], unrecorded' \in [Person -> Nat],
         marks' \in [Game -> [Person -> 0..MaxMarks]], lapses' \in 0..MaxLapses,
         \A h \in Game, p \in Person : marks'[h][p] > 0 => marks[h][p] > 0 \/ p \in Candidates(h)
  PROVE  ReviewTyped'
<1>1. \A h \in Game : Candidates(h) = (Candidates(h))'
  BY DEF Candidates, InUsers, OutUsers, RowsStay
<1>2. \A g \in Game, p \in Person : marks'[g][p] > 0 => p \in (Candidates(g))'
  BY <1>1 DEF ReviewTyped
<1>3. \A h \in Game : ~game'[h].ended => game'[h].in = {} /\ game'[h].out = {}
  BY DEF ReviewTyped, RowsStay
<1> QED  BY <1>2, <1>3 DEF ReviewTyped, RowsStay

\* A lapse more, where there is one, stays within their number.
LEMMA LapseType ==
  ASSUME ReviewTyped, NEW clean, Lapse(clean)
  PROVE  lapses' \in 0..MaxLapses
<1>1. lapses \in 0..MaxLapses /\ MaxLapses \in Nat
  BY GhostAssumption DEF ReviewTyped
<1> QED  BY <1>1 DEF Lapse

\* No-shows recorded for people of a game.
LEMMA RecordedType ==
  ASSUME ReviewTyped, NEW g \in Game, NEW who \in SUBSET Candidates(g), who # {} => Room(g),
         marks' = Recorded(g, who)
  PROVE  /\ marks' \in [Game -> [Person -> 0..MaxMarks]]
         /\ \A h \in Game, p \in Person :
              marks'[h][p] = marks[h][p] + (IF h = g /\ p \in who THEN 1 ELSE 0)
         /\ \A h \in Game, p \in Person : marks'[h][p] > 0 => marks[h][p] > 0 \/ p \in Candidates(h)
<1> DEFINE entry == [p \in Person |-> IF p \in who THEN marks[g][p] + 1 ELSE marks[g][p]]
<1>1. MaxMarks \in Nat /\ marks \in [Game -> [Person -> 0..MaxMarks]]
  BY GhostAssumption DEF ReviewTyped
<1>2. \A p \in Person : marks[g][p] \in 0..MaxMarks /\ (p \in who => marks[g][p] + 1 \in 0..MaxMarks)
  BY <1>1 DEF Room
<1>3. entry \in [Person -> 0..MaxMarks]
  BY <1>2
<1>4. marks' = [marks EXCEPT ![g] = entry]
  BY DEF Recorded
<1>5. \A p \in Person : entry[p] = marks[g][p] + (IF p \in who THEN 1 ELSE 0)
  BY <1>2
<1> HIDE DEF entry
<1>6. marks' \in [Game -> [Person -> 0..MaxMarks]] /\ \A h \in Game : marks'[h] = IF h = g THEN entry ELSE marks[h]
  BY <1>1, <1>3, <1>4
<1>7. \A h \in Game, p \in Person : marks[h][p] \in 0..MaxMarks
  BY <1>1
<1>8. \A h \in Game, p \in Person : marks'[h][p] = marks[h][p] + (IF h = g /\ p \in who THEN 1 ELSE 0)
  BY <1>5, <1>6, <1>7
<1> QED  BY <1>6, <1>7, <1>8
-----------------------------------------------------------------------------
(* Absences on record.                                                     *)

\* What stands in a table of games and people against one person.
Against(m, p) == SumFunction([g \in Game |-> m[g][p]])

LEMMA AgainstType ==
  ASSUME NEW m \in [Game -> [Person -> Int]], NEW p \in Person
  PROVE  Against(m, p) \in Int
<1> DEFINE f == [g \in Game |-> m[g][p]]
<1>1. f \in [Game -> Int]
  OBVIOUS
<1> HIDE DEF f
<1>2. SumFunction(f) \in Int
  BY <1>1, SumIsInt, GhostAssumption
<1> QED  BY <1>2 DEF Against, f

\* What changes in one game.
LEMMA AgainstMore ==
  ASSUME NEW m \in [Game -> [Person -> Int]], NEW n \in [Game -> [Person -> Int]],
         NEW g \in Game, NEW p \in Person, \A h \in Game : h # g => n[h][p] = m[h][p]
  PROVE  Against(n, p) = Against(m, p) + (n[g][p] - m[g][p])
<1> DEFINE a == [h \in Game |-> m[h][p]]
           b == [h \in Game |-> n[h][p]]
<1>0. IsFiniteSet(Game) /\ a \in [Game -> Int] /\ b \in [Game -> Int]
  BY GhostAssumption
<1>1. a[g] = m[g][p] /\ b[g] = n[g][p]
  OBVIOUS
<1>2. \A h \in Game \ {g} : b[h] = a[h]
  OBVIOUS
<1> HIDE DEF a, b
<1>3. SumFunction(b) = SumFunction(a) + (b[g] - a[g])
  BY <1>0, <1>2, SumChange, Zenon
<1>4. SumFunction(b) = SumFunction(a) + (n[g][p] - m[g][p])
  BY <1>1, <1>3
<1> QED  BY <1>4 DEF Against, a, b

\* Numbers by game and person.
Numbers(m) == m \in [Game -> [Person -> Int]]

\* What is noted of some people in one game.
LEMMA AgainstNoted ==
  ASSUME NEW m, NEW n, Numbers(m), Numbers(n), NEW g \in Game, NEW who,
         \A h \in Game, p \in Person : n[h][p] = m[h][p] + (IF h = g /\ p \in who THEN 1 ELSE 0)
  PROVE  \A p \in Person : Against(n, p) = Against(m, p) + (IF p \in who THEN 1 ELSE 0)
<1> SUFFICES ASSUME NEW p \in Person
             PROVE  Against(n, p) = Against(m, p) + (IF p \in who THEN 1 ELSE 0)
  OBVIOUS
<1>0. m \in [Game -> [Person -> Int]] /\ n \in [Game -> [Person -> Int]]
  BY DEF Numbers
<1>1. \A h \in Game : m[h][p] \in Int
  BY <1>0
<1>2. \A h \in Game : h # g => n[h][p] = m[h][p] + 0
  OBVIOUS
<1>3. \A h \in Game : h # g => n[h][p] = m[h][p]
  BY <1>1, <1>2
<1>4. n[g][p] - m[g][p] = IF p \in who THEN 1 ELSE 0
  BY <1>1
<1>5. Against(n, p) = Against(m, p) + (n[g][p] - m[g][p])
  BY <1>0, <1>3, AgainstMore, Zenon
<1> QED  BY <1>4, <1>5

LEMMA CountByTable == CountOnRecord <=> \A p \in Person : count[p] <= Against(marks, p) + unrecorded[p]
BY DEF CountOnRecord, Against

LEMMA MarksAreInts == ReviewTyped => marks \in [Game -> [Person -> Int]]
<1>1. 0..MaxMarks \subseteq Int
  BY GhostAssumption
<1> QED  BY <1>1 DEF ReviewTyped

\* Counts that do not rise stay on record.
LEMMA LowerKeeps ==
  ASSUME ReviewTyped, CountOnRecord, UNCHANGED <<marks, unrecorded>>, count' \in [Person -> Nat],
         \A p \in Person : count'[p] <= count[p]
  PROVE  CountOnRecord'
<1>1. \A p \in Person : /\ Against(marks, p) \in Int /\ unrecorded[p] \in Nat
                         /\ count[p] \in Nat /\ count'[p] \in Nat
  BY MarksAreInts, AgainstType DEF ReviewTyped
<1>2. \A p \in Person : count'[p] <= Against(marks, p) + unrecorded[p]
  BY <1>1, CountByTable
<1>3. \A p \in Person : count'[p] <= Against(marks', p) + unrecorded'[p]
  BY <1>2
<1> QED  BY <1>3 DEF CountOnRecord, Against

\* Nor do counts leave it that are noted at the same time, or missed out.
LEMMA RecordKeeps ==
  ASSUME ReviewTyped, CountOnRecord, NEW g \in Game, NEW rose, NEW noted, Noting(g, rose, noted)
  PROVE  CountOnRecord'
<1>1. 0..MaxMarks \subseteq Int /\ marks' \in [Game -> [Person -> 0..MaxMarks]]
  BY GhostAssumption DEF Noting
<1>2. marks \in [Game -> [Person -> Int]] /\ marks' \in [Game -> [Person -> Int]]
  BY <1>1, MarksAreInts
<1>3. \A p \in Person : Against(marks', p) = Against(marks, p) + (IF p \in noted THEN 1 ELSE 0)
  <2>1. PICK before, after : before = marks /\ after = marks'
    OBVIOUS
  <2>2. Numbers(before) /\ Numbers(after)
    BY <1>2, <2>1 DEF Numbers
  <2>4. \A h \in Game, p \in Person : after[h][p] = before[h][p] + (IF h = g /\ p \in noted THEN 1 ELSE 0)
    BY <2>1 DEF Noting
  <2>5. \A p \in Person : Against(after, p) = Against(before, p) + (IF p \in noted THEN 1 ELSE 0)
    BY <2>2, <2>4, AgainstNoted
  <2> QED  BY <2>1, <2>5
<1>4. \A p \in Person : /\ Against(marks, p) \in Int /\ unrecorded[p] \in Nat
                         /\ count[p] \in Nat /\ count'[p] \in Nat
  BY <1>2, AgainstType DEF ReviewTyped, Noting
<1>5. \A p \in Person : count[p] <= Against(marks, p) + unrecorded[p]
  BY CountByTable
<1>6. \A p \in Person : count'[p] <= Against(marks', p) + unrecorded'[p]
  <2> SUFFICES ASSUME NEW p \in Person PROVE count'[p] <= Against(marks', p) + unrecorded'[p]
    OBVIOUS
  <2>1. /\ count'[p] <= count[p] + (IF p \in rose THEN 1 ELSE 0)
        /\ unrecorded'[p] = unrecorded[p] + (IF p \in rose \ noted THEN 1 ELSE 0)
    BY DEF Noting
  <2> QED  BY <1>3, <1>4, <1>5, <2>1
<1> QED  BY <1>6 DEF CountOnRecord, Against

\* What is forgiven and what is added.
LEMMA ForgivenType ==
  ASSUME NEW c \in [Person -> Nat], NEW who
  PROVE  /\ Forgiven(c, who) \in [Person -> Nat]
         /\ \A p \in Person : Forgiven(c, who)[p] <= c[p]
         /\ \A p \in Person : p \notin who => Forgiven(c, who)[p] = c[p]
BY DEF Forgiven, Decrement

LEMMA IncrementedType ==
  ASSUME NEW c \in [Person -> Nat], NEW who
  PROVE  /\ Incremented(c, who) \in [Person -> Nat]
         /\ \A p \in Person : Incremented(c, who)[p] = c[p] + (IF p \in who THEN 1 ELSE 0)
BY DEF Incremented
-----------------------------------------------------------------------------
(* What the operations do to the tables.                                   *)

\* What a handler writes of a review, as far as it gets.
LEMMA WriteStep ==
  ASSUME ReviewTyped, NEW g \in Game, NEW who \in SUBSET Candidates(g), NEW others, NEW closing,
         Write(g, who, others, closing)
  PROVE  /\ ReviewTyped' /\ RowsStay
         /\ \E rose, noted : Noting(g, rose, noted)
         /\ who = {} => /\ UNCHANGED <<marks, unrecorded>>
                        /\ \A p \in Person : count'[p] <= count[p] /\ (p \notin others => count'[p] = count[p])
         /\ closing = {} => UNCHANGED game
<1>1. PICK rose \in SUBSET who, noted \in SUBSET who, forgiven \in SUBSET others, done \in SUBSET closing :
        /\ count' = Forgiven(Incremented(count, rose), forgiven)
        /\ marks' = Recorded(g, noted)
        /\ unrecorded' = Incremented(unrecorded, rose \ noted)
        /\ MarkAbsentDone(done)
        /\ Lapse(rose = who /\ noted = who /\ forgiven = others /\ done = closing)
  BY DEF Write
<1>2. count \in [Person -> Nat] /\ unrecorded \in [Person -> Nat]
  BY DEF ReviewTyped
<1> DEFINE c == Incremented(count, rose)
<1>3. c \in [Person -> Nat] /\ \A p \in Person : c[p] = count[p] + (IF p \in rose THEN 1 ELSE 0)
  BY <1>2, IncrementedType
<1>4. count' = Forgiven(c, forgiven)
  BY <1>1
<1> HIDE DEF c
<1>5. /\ count' \in [Person -> Nat] /\ \A p \in Person : count'[p] <= c[p]
      /\ \A p \in Person : p \notin forgiven => count'[p] = c[p]
  BY <1>3, <1>4, ForgivenType
<1>6. /\ unrecorded' \in [Person -> Nat]
      /\ \A p \in Person : unrecorded'[p] = unrecorded[p] + (IF p \in rose \ noted THEN 1 ELSE 0)
  BY <1>1, <1>2, IncrementedType
<1>7. /\ marks' \in [Game -> [Person -> 0..MaxMarks]]
      /\ \A h \in Game, p \in Person :
           marks'[h][p] = marks[h][p] + (IF h = g /\ p \in noted THEN 1 ELSE 0)
      /\ \A h \in Game, p \in Person : marks'[h][p] > 0 => marks[h][p] > 0 \/ p \in Candidates(h)
  <2>1. noted \in SUBSET Candidates(g) /\ (noted # {} => Room(g))
    BY DEF Write
  <2> QED  BY <1>1, <2>1, RecordedType
<1>8. Noting(g, rose, noted)
  <2>1. \A p \in Person : count'[p] <= count[p] + (IF p \in rose THEN 1 ELSE 0)
    BY <1>3, <1>5
  <2> QED  BY <1>5, <1>6, <1>7, <2>1 DEF Noting
<1>9. RowsStay /\ lapses' \in 0..MaxLapses
  BY <1>1, DoneRow, LapseType
<1>10. ReviewTyped'
  BY <1>5, <1>6, <1>7, <1>9, ListsStay
<1>11. ASSUME who = {} PROVE /\ UNCHANGED <<marks, unrecorded>>
                            /\ \A p \in Person : count'[p] <= count[p] /\ (p \notin others => count'[p] = count[p])
  <2>1. rose = {} /\ noted = {}
    BY <1>11
  <2>2. marks' = [marks EXCEPT ![g] = [p \in Person |-> marks[g][p]]]
    BY <1>1, <2>1 DEF Recorded
  <2>3. marks' = marks
    BY <2>2 DEF ReviewTyped
  <2>4. \A p \in Person : c[p] = count[p]
    BY <1>2, <1>3, <2>1
  <2>5. \A p \in Person : unrecorded'[p] = unrecorded[p]
    BY <1>2, <1>6, <2>1
  <2>6. unrecorded' = unrecorded
    BY <1>2, <1>6, <2>5
  <2> QED  BY <1>5, <2>3, <2>4, <2>6
<1>12. \E w, n : Noting(g, w, n)
  BY <1>8
<1>13. who = {} => /\ UNCHANGED <<marks, unrecorded>>
                   /\ \A p \in Person : count'[p] <= count[p] /\ (p \notin others => count'[p] = count[p])
  <2>1. HAVE who = {}
  <2> QED  BY <1>11, <2>1
<1>14. closing = {} => UNCHANGED game
  BY <1>1, NothingDone
<1> QED  BY <1>9, <1>10, <1>12, <1>13, <1>14

\* A review by a handler: what rises is noted, or missed out.
LEMMA ReviewKeeps ==
  ASSUME ReviewTyped, CountOnRecord, NEW g \in Game, NEW selected, ReviewSession(g, selected)
  PROVE  ReviewTyped' /\ CountOnRecord' /\ RowsStay
<1> DEFINE who == selected \cap Candidates(g)
<1>1. Write(g, who, Attended(g, who), {g}) /\ who \in SUBSET Candidates(g)
  BY DEF ReviewSession
<1> HIDE DEF who
<1>2. PICK rose, noted : Noting(g, rose, noted)
  BY <1>1, WriteStep
<1> QED  BY <1>1, <1>2, WriteStep, RecordKeeps

\* A review that is only closed.
LEMMA ClosingKeeps ==
  ASSUME ReviewTyped, CountOnRecord, NEW g \in Game, MarkAbsentDone({g}), UNCHANGED <<tallies, lapses>>
  PROVE  ReviewTyped' /\ CountOnRecord' /\ RowsStay
<1>1. UNCHANGED <<count, marks, unrecorded, lapses>>
  BY DEF tallies
<1>2. RowsStay
  BY DoneRow
<1> QED  BY <1>1, <1>2, ListsStay DEF ReviewTyped, CountOnRecord

\* The end of a game gives it its lists.
LEMMA EndKeeps ==
  ASSUME ReviewTyped, NEW g \in Game, NEW l \in Lineups, End(g, l[1], l[2])
  PROVE  /\ ReviewTyped' /\ UNCHANGED <<count, marks, unrecorded>>
         /\ \A h \in Game : game[h].ended => game'[h] = game[h]
         /\ \A h \in Game : game[h].reviewed => game'[h].reviewed
         /\ listed' = listed /\ chosen' = chosen /\ saved' = saved /\ prompts' \subseteq prompts \cup {g}
<1> DEFINE entry == [game[g] EXCEPT !.ended = TRUE, !.in = l[1], !.out = l[2]]
<1>1. game \in [Game -> GameRow]
  BY DEF ReviewTyped
<1>2. l[1] \in SUBSET Person /\ l[2] \in SUBSET Person
  BY GhostAssumption
<1>3. entry \in GameRow /\ entry.ended = TRUE /\ entry.reviewed = game[g].reviewed
  BY <1>1, <1>2 DEF GameRow
<1>4. game' = [game EXCEPT ![g] = entry] /\ ~game[g].ended
      /\ UNCHANGED <<count, marks, unrecorded, lapses, listed, chosen, saved>>
  BY DEF End, tallies
<1>5. game[g].in = {} /\ game[g].out = {}
  BY <1>4 DEF ReviewTyped
<1> HIDE DEF entry
<1>6. count' \in [Person -> Nat]
  BY <1>4 DEF ReviewTyped
<1>7. ReviewTyped'
  BY <1>3, <1>4, <1>5, <1>6, RowKeeps
<1>8. \A h \in Game : game'[h] = IF h = g THEN entry ELSE game[h]
  BY <1>1, <1>4
<1>9. prompts' \subseteq prompts \cup {g}
  BY DEF End
<1> QED  BY <1>3, <1>4, <1>7, <1>8, <1>9

\* What the sweep gave back is explained as long as no game is unreviewed.
LEMMA SweptStays ==
  ASSUME AnswersTyped, SweptOnce, UNCHANGED <<forgave, broken>>,
         \A h \in Game : game[h].reviewed => game'[h].reviewed
  PROVE  SweptOnce'
<1> SUFFICES ASSUME NEW g \in Game, NEW p \in Person
             PROVE  forgave[g][p] <= broken[g] + (IF game'[g].reviewed THEN 1 ELSE 0)
  BY DEF SweptOnce
<1>1. forgave[g][p] \in Nat /\ broken[g] \in Nat
  BY DEF AnswersTyped
<1>2. forgave[g][p] <= broken[g] + (IF game[g].reviewed THEN 1 ELSE 0)
  BY DEF SweptOnce
<1> QED  BY <1>1, <1>2

\* Every operation on an answer keeps tables and answers in their types.
LEMMA AnsweringKeeps ==
  ASSUME Inv, Answering, UNCHANGED <<tracking, sweeps>>
  PROVE  Inv'
<1>0. /\ ReviewTyped /\ AnswersTyped /\ CountOnRecord /\ SweptOnce
      /\ count \in [Person -> Nat]
      /\ chosen \in [Game -> {NoChoice} \cup SUBSET Person]
      /\ saved \in [Game -> {NoChoice} \cup SUBSET Person]
      /\ UNCHANGED <<tracking, swept, forgave, broken>>
  BY DEF Inv, AnswersTyped, ReviewTyped, sweeps
<1>1. \A g \in Game : LoadSelections(g) \in SUBSET Person /\ Selections(g) \in SUBSET Person
  BY <1>0 DEF LoadSelections, Selections
<1>2. ASSUME UNCHANGED <<tallies, game>>, lapses' \in 0..MaxLapses
      PROVE  ReviewTyped' /\ CountOnRecord' /\ SweptOnce'
  <2>1. UNCHANGED <<count, marks, unrecorded, game>>
    BY <1>2 DEF tallies
  <2>2. ReviewTyped' /\ CountOnRecord'
    BY <1>0, <1>2, <2>1 DEF ReviewTyped, CountOnRecord, Candidates, InUsers, OutUsers, GameRow
  <2>3. \A h \in Game : game[h].reviewed => game'[h].reviewed
    BY <2>1
  <2> QED  BY <1>0, <2>2, <2>3, SweptStays
<1>3. ASSUME UNCHANGED review PROVE ReviewTyped' /\ CountOnRecord' /\ SweptOnce'
  BY <1>0, <1>2, <1>3 DEF review, ReviewTyped
<1>4. ASSUME RowsStay PROVE SweptOnce'
  <2>1. \A h \in Game : game[h].reviewed => game'[h].reviewed
    BY <1>4 DEF RowsStay
  <2> QED  BY <1>0, <2>1, SweptStays
<1>5. ASSUME NEW g \in Game, CancelledGame(g) PROVE Inv'
  <2>1. MarkAbsentDone({g}) /\ UNCHANGED <<tallies, lapses, listed, prompts, chosen, saved>>
    BY <1>5 DEF CancelledGame, answers
  <2>2. ReviewTyped' /\ CountOnRecord' /\ RowsStay
    BY <1>0, <2>1, ClosingKeeps
  <2> QED  BY <1>0, <1>4, <2>1, <2>2 DEF Inv, AnswersTyped
<1>6. ASSUME NEW g \in Game, NEW selected, ReviewSession(g, selected),
             chosen' = [chosen EXCEPT ![g] = NoChoice] \/ chosen' = chosen,
             UNCHANGED <<listed, prompts, saved>>
      PROVE  Inv'
  <2>1. ReviewTyped' /\ CountOnRecord' /\ RowsStay
    BY <1>0, <1>6, ReviewKeeps
  <2> QED  BY <1>0, <1>4, <1>6, <2>1 DEF Inv, AnswersTyped
<1>7. ASSUME NEW g \in Game, GhostNo(g) \/ GhostDone(g) PROVE Inv'
  BY <1>6, <1>7 DEF GhostNo, GhostDone
<1>8. ASSUME NEW g \in Game, NEW s \in SUBSET Person, chosen' = [chosen EXCEPT ![g] = s],
             saved' = saved \/ saved' = [saved EXCEPT ![g] = s],
             listed' \subseteq Game, prompts' \subseteq Game, UNCHANGED <<tallies, game>>,
             lapses' \in 0..MaxLapses
      PROVE  Inv'
  BY <1>0, <1>2, <1>8 DEF Inv, AnswersTyped
<1>9. ASSUME NEW g \in Game, GhostYes(g) \/ GhostMore(g) PROVE Inv'
  <2>1. UNCHANGED <<tallies, game, lapses, listed, prompts, saved>>
    BY <1>9 DEF GhostYes, GhostMore, review
  <2>2. lapses' \in 0..MaxLapses /\ listed' \subseteq Game /\ prompts' \subseteq Game
    BY <1>0, <2>1 DEF ReviewTyped, AnswersTyped
  <2>3. chosen' = [chosen EXCEPT ![g] = LoadSelections(g)] \/ chosen' = [chosen EXCEPT ![g] = Selections(g)]
    BY <1>9 DEF GhostYes, GhostMore
  <2> QED  BY <1>1, <1>8, <2>1, <2>2, <2>3
<1>10. ASSUME NEW g \in Game, NEW p \in Person, GhostToggle(g, p) PROVE Inv'
  <2> DEFINE flipped == SymDiff(Selections(g), {p})
  <2>1. flipped \in SUBSET Person
    BY <1>1 DEF SymDiff
  <2>2. /\ chosen' = [chosen EXCEPT ![g] = flipped] /\ SaveSelections(g, flipped)
        /\ UNCHANGED <<tallies, game, listed, prompts>>
    BY <1>10 DEF GhostToggle
  <2> HIDE DEF flipped
  <2>3. PICK ok \in BOOLEAN : saved' = (IF ok THEN [saved EXCEPT ![g] = flipped] ELSE saved) /\ Lapse(ok)
    BY <2>2 DEF SaveSelections
  <2>4. lapses' \in 0..MaxLapses
    BY <1>0, <2>3, LapseType
  <2>5. listed' \subseteq Game /\ prompts' \subseteq Game
    BY <1>0, <2>2 DEF AnswersTyped
  <2> QED  BY <1>8, <2>1, <2>2, <2>3, <2>4, <2>5
<1>11. ASSUME NEW g \in Game, ButtonsGone(g) PROVE Inv'
  BY <1>0, <1>3, <1>11 DEF ButtonsGone, Inv, AnswersTyped
<1>12. ASSUME MarkAbsent PROVE Inv'
  BY <1>0, <1>3, <1>12 DEF MarkAbsent, Inv, AnswersTyped
<1>13. ASSUME NEW g \in Game, MabsSel(g) PROVE Inv'
  <2>1. /\ chosen' = [chosen EXCEPT ![g] = {}] /\ UNCHANGED <<tallies, game, lapses, saved>>
        /\ listed' = listed \ {g} /\ prompts' = prompts \cup {g}
    BY <1>13 DEF MabsSel, review
  <2>2. listed' \subseteq Game /\ prompts' \subseteq Game /\ lapses' \in 0..MaxLapses
    BY <1>0, <2>1 DEF AnswersTyped, ReviewTyped
  <2>3. {} \in SUBSET Person
    OBVIOUS
  <2> QED  BY <1>8, <2>1, <2>2, <2>3
<1>14. ASSUME NEW who \in SUBSET Person, ClearAbsent(who) PROVE Inv'
  <2>1. count' = Reset(who) /\ UNCHANGED <<marks, unrecorded, game, lapses, listed, prompts, chosen, saved>>
    BY <1>14 DEF ClearAbsent, answers
  <2>2. count' \in [Person -> Nat] /\ \A p \in Person : count'[p] <= count[p]
    BY <1>0, <2>1 DEF Reset
  <2>3. CountOnRecord'
    BY <1>0, <2>1, <2>2, LowerKeeps
  <2>4. ReviewTyped'
    BY <1>0, <2>1, <2>2 DEF ReviewTyped, Candidates, InUsers, OutUsers
  <2>5. SweptOnce'
    BY <1>0, <2>1, SweptStays
  <2> QED  BY <1>0, <2>1, <2>3, <2>4, <2>5 DEF Inv, AnswersTyped
<1>15. ASSUME NEW g \in Game, NEW selected \in SUBSET Person, WebReview(g, selected) PROVE Inv'
  BY <1>6, <1>15 DEF WebReview, answers
<1> QED  BY <1>5, <1>7, <1>9, <1>10, <1>11, <1>12, <1>13, <1>14, <1>15 DEF Answering

\* A restart loses the answers in the making, the end of a game asks for one.
LEMMA LivesKeep ==
  ASSUME Inv, Lives, UNCHANGED <<tracking, sweeps>>
  PROVE  Inv'
<1>0. /\ ReviewTyped /\ AnswersTyped /\ CountOnRecord /\ SweptOnce
      /\ UNCHANGED <<tracking, swept, forgave, broken>>
  BY DEF Inv, sweeps
<1>1. CASE Restart
  <2>1. /\ UNCHANGED <<count, marks, unrecorded, lapses, game, listed, prompts, saved>>
        /\ chosen' = [g \in Game |-> NoChoice]
    BY <1>1 DEF Restart, review, tallies
  <2>2. ReviewTyped' /\ CountOnRecord'
    BY <1>0, <2>1 DEF ReviewTyped, CountOnRecord, Candidates, InUsers, OutUsers
  <2>3. SweptOnce'
    BY <1>0, <2>1, SweptStays
  <2> QED  BY <1>0, <2>1, <2>2, <2>3 DEF Inv, AnswersTyped
<1>2. ASSUME NEW g \in Game, NEW l \in Lineups, End(g, l[1], l[2]) PROVE Inv'
  <2>1. /\ ReviewTyped' /\ UNCHANGED <<count, marks, unrecorded>>
        /\ \A h \in Game : game[h].reviewed => game'[h].reviewed
        /\ listed' = listed /\ chosen' = chosen /\ saved' = saved /\ prompts' \subseteq prompts \cup {g}
    BY <1>0, <1>2, EndKeeps
  <2>2. CountOnRecord'
    BY <1>0, <2>1 DEF CountOnRecord
  <2>3. SweptOnce'
    BY <1>0, <2>1, SweptStays
  <2> QED  BY <1>0, <2>1, <2>2, <2>3 DEF Inv, AnswersTyped
<1> QED  BY <1>1, <1>2 DEF Lives

\* A day makes ended games older.
LEMMA NextDayKeeps ==
  ASSUME Inv, NextDay, UNCHANGED tracking
  PROVE  Inv'
<1> DEFINE entry(g) == [game[g] EXCEPT !.age = IF game[g].ended /\ @ <= Lookback THEN @ + 1 ELSE @]
<1>0. /\ ReviewTyped /\ AnswersTyped /\ CountOnRecord /\ SweptOnce /\ game \in [Game -> GameRow]
      /\ count \in [Person -> Nat] /\ Lookback \in Nat
  BY GhostAssumption DEF Inv, ReviewTyped
<1>1. /\ game' = [g \in Game |-> entry(g)] /\ swept' = FALSE
      /\ UNCHANGED <<count, marks, unrecorded, lapses, listed, prompts, chosen, saved, forgave, broken>>
  BY DEF NextDay, answers, tallies
<1>2. \A g \in Game : /\ entry(g) \in GameRow /\ entry(g).in = game[g].in /\ entry(g).out = game[g].out
                      /\ entry(g).ended = game[g].ended /\ entry(g).reviewed = game[g].reviewed
  <2> SUFFICES ASSUME NEW g \in Game
               PROVE  /\ entry(g) \in GameRow /\ entry(g).in = game[g].in /\ entry(g).out = game[g].out
                      /\ entry(g).ended = game[g].ended /\ entry(g).reviewed = game[g].reviewed
    OBVIOUS
  <2> DEFINE a == IF game[g].ended /\ game[g].age <= Lookback THEN game[g].age + 1 ELSE game[g].age
  <2>1. game[g].age \in 0..(Lookback + 1)
    BY <1>0 DEF GameRow
  <2>2. a \in 0..(Lookback + 1)
    BY <1>0, <2>1
  <2>3. entry(g) = [game[g] EXCEPT !.age = a]
    OBVIOUS
  <2> HIDE DEF a
  <2> QED  BY <1>0, <2>2, <2>3 DEF GameRow
<1> HIDE DEF entry
<1>3. RowsStay
  BY <1>1, <1>2 DEF RowsStay
<1>4. ReviewTyped'
  BY <1>0, <1>1, <1>3, ListsStay DEF ReviewTyped
<1>5. CountOnRecord'
  BY <1>0, <1>1 DEF CountOnRecord
<1>6. SweptOnce'
  BY <1>0, <1>1, <1>3, SweptStays DEF RowsStay
<1> QED  BY <1>0, <1>1, <1>4, <1>5, <1>6 DEF Inv, AnswersTyped

-----------------------------------------------------------------------------
(* The sweep.                                                              *)

\* What a sweep gives and closes is of games nobody reviewed.
LEMMA SweepStep ==
  ASSUME AutoForgive
  PROVE  \E gave \in [Game -> SUBSET Person], done, stale \in SUBSET Game :
           /\ done \subseteq stale
           /\ \A g \in Game : g \notin stale => gave[g] = {}
           /\ \A g \in stale : ~game[g].reviewed
           /\ forgave' = [g \in Game |-> Incremented(forgave[g], gave[g])]
           /\ count' = [p \in Person |-> LET n == Cardinality({g \in Game : p \in gave[g]})
                                         IN  IF count[p] > n THEN count[p] - n ELSE 0]
           /\ MarkAbsentDone(done)
           /\ broken' = [g \in Game |-> IF g \in stale \ done THEN broken[g] + 1 ELSE broken[g]]
           /\ Lapse(swept' /\ done = stale /\ \A g \in stale : gave[g] = InUsers(g))
<1> DEFINE stale == {g \in Game : tracking /\ Stale(g)}
<1>1. PICK gave \in [Game -> SUBSET Person], done \in SUBSET stale :
        /\ \A g \in Game : gave[g] \subseteq (IF g \in stale THEN InUsers(g) ELSE {})
        /\ forgave' = [g \in Game |-> Incremented(forgave[g], gave[g])]
        /\ count' = [p \in Person |-> LET n == Cardinality({g \in Game : p \in gave[g]})
                                      IN  IF count[p] > n THEN count[p] - n ELSE 0]
        /\ MarkAbsentDone(done)
        /\ broken' = [g \in Game |-> IF g \in stale \ done THEN broken[g] + 1 ELSE broken[g]]
        /\ Lapse(swept' /\ done = stale /\ \A g \in stale : gave[g] = InUsers(g))
  BY DEF AutoForgive
<1>2. stale \in SUBSET Game /\ \A g \in stale : ~game[g].reviewed
  BY DEF Stale, Unprocessed
<1> HIDE DEF stale
<1>3. done \in SUBSET Game /\ \A g \in Game : g \notin stale => gave[g] = {}
  BY <1>1, <1>2
<1> QED  BY <1>1, <1>2, <1>3

\* A sweep keeps the invariant, and gives nothing back for a reviewed game.
LEMMA SweepKeeps ==
  ASSUME Inv, AutoForgive, UNCHANGED tracking
  PROVE  Inv' /\ \A g \in Game : game[g].reviewed => forgave'[g] = forgave[g]
<1>0. /\ ReviewTyped /\ AnswersTyped /\ CountOnRecord /\ SweptOnce
      /\ count \in [Person -> Nat] /\ forgave \in [Game -> [Person -> Nat]] /\ broken \in [Game -> Nat]
  BY DEF Inv, ReviewTyped, AnswersTyped
<1>1. swept' \in BOOLEAN /\ UNCHANGED <<marks, unrecorded, listed, prompts, chosen, saved>>
  BY DEF AutoForgive, answers
<1>2. PICK gave \in [Game -> SUBSET Person], done \in SUBSET Game, stale \in SUBSET Game :
        /\ done \subseteq stale
        /\ \A g \in Game : g \notin stale => gave[g] = {}
        /\ \A g \in stale : ~game[g].reviewed
        /\ forgave' = [g \in Game |-> Incremented(forgave[g], gave[g])]
        /\ count' = [p \in Person |-> LET n == Cardinality({g \in Game : p \in gave[g]})
                                      IN  IF count[p] > n THEN count[p] - n ELSE 0]
        /\ MarkAbsentDone(done)
        /\ broken' = [g \in Game |-> IF g \in stale \ done THEN broken[g] + 1 ELSE broken[g]]
        /\ Lapse(swept' /\ done = stale /\ \A g \in stale : gave[g] = InUsers(g))
  BY SweepStep
<1> DEFINE n(p) == Cardinality({g \in Game : p \in gave[g]})
<1>3. count' \in [Person -> Nat] /\ \A p \in Person : count'[p] <= count[p]
  <2>1. \A p \in Person : n(p) \in Nat
    BY GhostAssumption, FS_Subset, FS_CardinalityType
  <2>2. count' = [p \in Person |-> IF count[p] > n(p) THEN count[p] - n(p) ELSE 0]
    BY <1>2
  <2> HIDE DEF n
  <2> QED  BY <1>0, <2>1, <2>2
<1>4. RowsStay /\ (\A h \in done \cap Game : game'[h].reviewed) /\ lapses' \in 0..MaxLapses
  BY <1>0, <1>2, DoneRow, LapseType
<1>5. ReviewTyped'
  BY <1>0, <1>1, <1>3, <1>4, ListsStay DEF ReviewTyped
<1>6. CountOnRecord'
  BY <1>0, <1>1, <1>3, LowerKeeps
<1>7. forgave' \in [Game -> [Person -> Nat]] /\ \A g \in Game, p \in Person :
        forgave'[g][p] = forgave[g][p] + (IF p \in gave[g] THEN 1 ELSE 0)
  <2>1. \A g \in Game : /\ Incremented(forgave[g], gave[g]) \in [Person -> Nat]
                        /\ \A p \in Person : Incremented(forgave[g], gave[g])[p] =
                             forgave[g][p] + (IF p \in gave[g] THEN 1 ELSE 0)
    BY <1>0, IncrementedType
  <2> QED  BY <1>2, <2>1
<1>8. broken' \in [Game -> Nat] /\ \A g \in Game :
        broken'[g] = IF g \in stale \ done THEN broken[g] + 1 ELSE broken[g]
  BY <1>0, <1>2
<1>9. SweptOnce'
  <2> SUFFICES ASSUME NEW g \in Game, NEW p \in Person
               PROVE  forgave'[g][p] <= broken'[g] + (IF game'[g].reviewed THEN 1 ELSE 0)
    BY DEF SweptOnce
  <2>1. /\ forgave[g][p] \in Nat /\ broken[g] \in Nat
        /\ forgave[g][p] <= broken[g] + (IF game[g].reviewed THEN 1 ELSE 0)
    BY <1>0 DEF SweptOnce
  <2>2. CASE g \in stale
    <3>1. ~game[g].reviewed /\ forgave'[g][p] <= forgave[g][p] + 1
      BY <1>2, <1>7, <2>1, <2>2
    <3>2. CASE g \in done
      <4>1. game'[g].reviewed /\ broken'[g] = broken[g]
        BY <1>4, <1>8, <3>2
      <4>2. forgave[g][p] <= broken[g] /\ forgave'[g][p] \in Nat
        BY <1>7, <2>1, <3>1
      <4>3. forgave'[g][p] <= broken'[g] + 1
        BY <2>1, <3>1, <4>1, <4>2
      <4> QED  BY <4>1, <4>3
    <3>3. CASE g \notin done
      <4>1. broken'[g] = broken[g] + 1
        BY <1>8, <2>2, <3>3
      <4>2. forgave'[g][p] <= broken'[g]
        BY <1>7, <2>1, <3>1, <4>1
      <4>3. broken'[g] \in Nat /\ forgave'[g][p] \in Nat
        BY <1>7, <1>8
      <4> DEFINE extra == IF game'[g].reviewed THEN 1 ELSE 0
      <4>4. extra \in {0, 1}
        OBVIOUS
      <4> HIDE DEF extra
      <4>5. forgave'[g][p] <= broken'[g] + extra
        BY <4>2, <4>3, <4>4
      <4> QED  BY <4>5 DEF extra
    <3> QED  BY <3>2, <3>3
  <2>3. CASE g \notin stale
    <3>1. forgave'[g][p] = forgave[g][p] /\ broken'[g] = broken[g]
      BY <1>2, <1>7, <1>8, <2>1, <2>3
    <3> QED  BY <1>4, <2>1, <3>1 DEF RowsStay
  <2> QED  BY <2>2, <2>3
<1>10. ASSUME NEW g \in Game, game[g].reviewed PROVE forgave'[g] = forgave[g]
  <2>1. gave[g] = {}
    BY <1>2, <1>10
  <2>2. \A p \in Person : forgave'[g][p] = forgave[g][p]
    BY <1>0, <1>7, <2>1
  <2>3. forgave'[g] \in [Person -> Nat] /\ forgave[g] \in [Person -> Nat]
    BY <1>0, <1>7
  <2> QED  BY <2>2, <2>3
<1>11. Inv'
  BY <1>0, <1>1, <1>5, <1>6, <1>7, <1>8, <1>9 DEF Inv, AnswersTyped
<1> QED  BY <1>10, <1>11

LEMMA InitInv == Init => Inv
<1> SUFFICES ASSUME Init PROVE Inv
  OBVIOUS
<1>1. PICK off \in SUBSET Game :
        game = [g \in Game |-> [ended |-> FALSE, in |-> {}, out |-> {}, cancelled |-> g \in off,
                                reviewed |-> FALSE, age |-> 0]]
  BY DEF Init
<1>2. /\ count = [p \in Person |-> 0] /\ marks = [g \in Game |-> [p \in Person |-> 0]]
      /\ unrecorded = [p \in Person |-> 0] /\ lapses = 0
      /\ MaxMarks \in Nat /\ MaxLapses \in Nat /\ Lookback \in Nat
  BY GhostAssumption DEF Init
<1>3. \A g \in Game : game[g] \in GameRow
  <2> SUFFICES ASSUME NEW g \in Game PROVE game[g] \in GameRow
    OBVIOUS
  <2> DEFINE c == g \in off
  <2>1. c \in BOOLEAN
    OBVIOUS
  <2>2. game[g] = [ended |-> FALSE, in |-> {}, out |-> {}, cancelled |-> c, reviewed |-> FALSE, age |-> 0]
    BY <1>1
  <2> HIDE DEF c
  <2> QED  BY <1>2, <2>1, <2>2 DEF GameRow
<1>4. \A g \in Game : game[g].in = {} /\ game[g].out = {}
  BY <1>1
<1>5. ReviewTyped
  <2>1. game \in [Game -> GameRow]
    BY <1>1, <1>3
  <2> QED  BY <1>2, <1>4, <2>1 DEF ReviewTyped
<1>6. CountOnRecord
  <2>1. marks \in [Game -> [Person -> Int]]
    BY <1>5, MarksAreInts
  <2>2. ASSUME NEW p \in Person PROVE Against(marks, p) = 0
    <3> DEFINE f == [g \in Game |-> marks[g][p]]
    <3>1. f \in [Game -> Int] /\ \A g \in Game : f[g] = 0
      BY <1>2
    <3> HIDE DEF f
    <3>2. SumFunction(f) = 0
      BY <3>1, SumOfZeros, GhostAssumption
    <3> QED  BY <3>2 DEF Against, f
  <2>3. \A p \in Person : count[p] = 0 /\ unrecorded[p] = 0
    BY <1>2
  <2>4. \A p \in Person : count[p] <= Against(marks, p) + unrecorded[p]
    BY <2>2, <2>3
  <2> QED  BY <2>4, CountByTable
<1>7. AnswersTyped
  <2>1. /\ tracking = TRUE /\ listed = {} /\ prompts = {} /\ swept = FALSE
        /\ forgave = [g \in Game |-> [p \in Person |-> 0]] /\ broken = [g \in Game |-> 0]
        /\ chosen = [g \in Game |-> NoChoice] /\ saved = [g \in Game |-> NoChoice]
    BY DEF Init
  <2>2. /\ chosen \in [Game -> {NoChoice} \cup SUBSET Person]
        /\ saved \in [Game -> {NoChoice} \cup SUBSET Person]
    BY <2>1
  <2>3. forgave \in [Game -> [Person -> Nat]] /\ broken \in [Game -> Nat]
    BY <2>1
  <2>5. tracking \in BOOLEAN /\ swept \in BOOLEAN
    BY <2>1, Zenon
  <2>4. listed \subseteq Game /\ prompts \subseteq Game
    BY <2>1
  <2> QED  BY <2>2, <2>3, <2>4, <2>5, Zenon DEF AnswersTyped
<1>8. SweptOnce
  <2>1. \A g \in Game, p \in Person : forgave[g][p] = 0 /\ broken[g] = 0
    BY DEF Init
  <2> QED  BY <2>1 DEF SweptOnce
<1> QED  BY <1>5, <1>6, <1>7, <1>8 DEF Inv

LEMMA NextInv == Inv /\ [Next]_vars => Inv'
<1> SUFFICES ASSUME Inv, [Next]_vars PROVE Inv'
  OBVIOUS
<1>1. CASE Answering /\ UNCHANGED <<tracking, sweeps>>
  BY <1>1, AnsweringKeeps
<1>2. CASE Lives /\ UNCHANGED <<tracking, sweeps>>
  BY <1>2, LivesKeep
<1>3. CASE NextDay /\ UNCHANGED tracking
  BY <1>3, NextDayKeeps
<1>4. CASE AutoForgive /\ UNCHANGED tracking
  BY <1>4, SweepKeeps
<1>5. CASE (ToggleTracking /\ UNCHANGED sweeps) \/ UNCHANGED vars
  <2>1. /\ UNCHANGED <<game, count, marks, unrecorded, lapses, listed, prompts, chosen, saved>>
        /\ UNCHANGED <<swept, forgave, broken>>
        /\ tracking' = ~tracking \/ tracking' = tracking
    BY <1>5 DEF ToggleTracking, vars, review, tallies, answers, sweeps
  <2>2. tracking' \in BOOLEAN
    BY <2>1 DEF Inv, AnswersTyped
  <2>3. ReviewTyped' /\ CountOnRecord' /\ SweptOnce'
    BY <2>1 DEF Inv, ReviewTyped, CountOnRecord, SweptOnce, Candidates, InUsers, OutUsers
  <2> QED  BY <2>1, <2>2, <2>3 DEF Inv, AnswersTyped
<1> QED  BY <1>1, <1>2, <1>3, <1>4, <1>5 DEF Next, Days

(* Whatever was marked, forgiven, cleared or swept, by whichever road and  *)
(* with however many games and people, and whichever writes failed: nobody *)
(* answers for more absences than are on record and were counted while     *)
(* their event was not written (services/ghost.py, handlers/ghost.py).     *)
THEOREM GhostsOnRecord == Spec => []GhostsOK
<1>1. Inv => GhostsOK
  BY DEF Inv, ReviewTyped, AnswersTyped, GameRow, GhostsOK, GhostTypeOK
<1> QED  BY <1>1, InitInv, NextInv, PTL DEF Spec

(* However many sweeps there are and whatever they miss, a person is given *)
(* back one absence per game, one more for each sweep that left the game   *)
(* open, and none for a game that was reviewed (periodic_jobs.py           *)
(* _ghost_auto_forgive).                                                   *)
THEOREM SweepsForgiveOnce == Spec => SweepForgivesOnce
<1>1. Inv => \A g \in Game, p \in Person : forgave[g][p] <= 1 + broken[g]
  <2> SUFFICES ASSUME Inv, NEW g \in Game, NEW p \in Person PROVE forgave[g][p] <= 1 + broken[g]
    OBVIOUS
  <2>1. forgave[g][p] \in Nat /\ broken[g] \in Nat
    BY DEF Inv, AnswersTyped
  <2>2. forgave[g][p] <= broken[g] + (IF game[g].reviewed THEN 1 ELSE 0)
    BY DEF Inv, SweptOnce
  <2> QED  BY <2>1, <2>2
<1>2. Inv /\ [Next]_vars => [\A g \in Game : game[g].reviewed => forgave'[g] = forgave[g]]_vars
  <2> SUFFICES ASSUME Inv, [Next]_vars, NEW g \in Game, game[g].reviewed PROVE forgave'[g] = forgave[g]
    OBVIOUS
  <2>1. CASE AutoForgive /\ UNCHANGED tracking
    BY <2>1, SweepKeeps
  <2>2. CASE ~(AutoForgive /\ UNCHANGED tracking)
    BY <2>2 DEF Next, Days, NextDay, sweeps, vars
  <2> QED  BY <2>1, <2>2
<1> QED  BY <1>1, <1>2, InitInv, NextInv, PTL DEF Spec, SweepForgivesOnce
-----------------------------------------------------------------------------
(* The panel.  No-shows still held against people: recorded, and not taken *)
(* back.                                                                   *)
Net == [g \in Game |-> [p \in Person |-> marks[g][p] - claimed[g][p]]]

ReversalsOK ==
  /\ closed \subseteq Game
  /\ claimed \in [Game -> [Person -> Nat]] /\ given = claimed
  /\ \A g \in Game, p \in Person : claimed[g][p] <= marks[g][p]
  /\ \A p \in Person : count[p] <= Against(Net, p) + unrecorded[p]

\* Everybody is picked for or charged in one tier.
Separate(s) ==
  \A t, u \in Tier : t # u => (s.picked[t] \cup s.applied[t]) \cap (s.picked[u] \cup s.applied[u]) = {}

\* What a panel that was opened says of its game, and how often it closed it.
PanelSound(p) ==
  /\ finals[p] \in {0, 1}
  /\ panel[p] = NoPanel => finals[p] = 0
  /\ panel[p] # NoPanel =>
       /\ game[panel[p].game].ended
       /\ \A t \in Tier : panel[p].picked[t] \cup panel[p].applied[t] \subseteq Candidates(panel[p].game)
       /\ ~panel[p].final => finals[p] = 0
       /\ ~panel[p].failed => Separate(panel[p])

\* A set that a call kept was charged by the call that changed the picks; a
\* Done that waits is the one that will close.
CallSound(c) ==
  /\ c.kind \in {"apply", "done"} => panel[c.panel] # NoPanel
  /\ c.kind = "apply" /\ c.set # Live =>
       /\ c.set \subseteq Candidates(panel[c.panel].game)
       /\ ~panel[c.panel].failed => c.set \subseteq panel[c.panel].applied[c.tier]
  /\ c.kind = "done" => panel[c.panel].final /\ finals[c.panel] = 0

QueueSound(calls) ==
  /\ calls \in Seq(Calls)
  /\ \A i \in 1..Len(calls) : CallSound(calls[i])
  /\ \A i, j \in 1..Len(calls) :
       calls[i].kind = "done" /\ calls[j].kind = "done" /\ calls[i].panel = calls[j].panel => i = j

PanelsSound ==
  /\ panel \in [Panel -> {NoPanel} \cup Sessions] /\ finals \in [Panel -> Nat]
  /\ \A p \in Panel : PanelSound(p)

\* The inductive invariant of the panel.
PanelInv ==
  /\ ReviewTyped /\ AnswersTyped /\ ReversalsOK
  /\ PanelsSound /\ QueueSound(waiting) /\ held \in BOOLEAN

\* What a step may not do to a panel: charge in a closed game, and forgive
\* whom the panel recorded when it closes the attendance.
LateStep ==
  \A p \in Panel :
    /\ panel[p] # NoPanel /\ panel'[p] # NoPanel /\ finals'[p] >= finals[p] =>
         \A t \in Tier : panel'[p].applied[t] \subseteq panel[p].applied[t] \/ panel[p].game \notin closed
    /\ finals'[p] > finals[p] => \A u \in panel[p].ghosts : count'[u] >= count[u]
-----------------------------------------------------------------------------
(* No-shows taken back.                                                    *)
LEMMA NetType ==
  ASSUME ReviewTyped, ReversalsOK
  PROVE  Net \in [Game -> [Person -> Int]] /\ \A p \in Person : Against(Net, p) \in Int
<1>1. \A g \in Game, p \in Person : marks[g][p] \in 0..MaxMarks /\ claimed[g][p] \in Nat
  BY DEF ReviewTyped, ReversalsOK
<1>2. \A g \in Game, p \in Person : marks[g][p] - claimed[g][p] \in Int
  BY <1>1, GhostAssumption
<1>3. Net \in [Game -> [Person -> Int]]
  BY <1>2 DEF Net
<1> QED  BY <1>3, AgainstType

\* Nothing is recorded and no count rises.
LEMMA LowerReversals ==
  ASSUME ReviewTyped, ReversalsOK, UNCHANGED <<marks, unrecorded, reversals>>, closed' \subseteq Game,
         count' \in [Person -> Nat], \A p \in Person : count'[p] <= count[p]
  PROVE  ReversalsOK'
<1>1. \A p \in Person : /\ Against(Net, p) \in Int /\ unrecorded[p] \in Nat
                         /\ count[p] \in Nat /\ count'[p] \in Nat
  BY NetType DEF ReviewTyped
<1>2. UNCHANGED <<marks, claimed, given>>
  BY DEF reversals
<1>3. Net' = Net
  BY <1>2 DEF Net
<1>4. \A p \in Person : count'[p] <= Against(Net, p) + unrecorded[p]
  BY <1>1 DEF ReversalsOK
<1>5. \A p \in Person : count'[p] <= (Against(Net, p))' + unrecorded'[p]
  BY <1>3, <1>4 DEF Against
<1> QED  BY <1>2, <1>5 DEF ReversalsOK

\* What rises is noted, or missed out.
LEMMA RecordReversals ==
  ASSUME ReviewTyped, ReversalsOK, NEW g \in Game, NEW rose, NEW noted, Noting(g, rose, noted),
         UNCHANGED <<closed, reversals>>
  PROVE  ReversalsOK'
<1>1. \A p \in Person : /\ Against(Net, p) \in Int /\ unrecorded[p] \in Nat
                         /\ count[p] \in Nat /\ count'[p] \in Nat
  BY NetType DEF ReviewTyped, Noting
<1>2. UNCHANGED <<claimed, given>> /\ MaxMarks \in Nat
  BY GhostAssumption DEF reversals
<1>3. \A h \in Game, p \in Person : /\ marks[h][p] \in 0..MaxMarks /\ marks'[h][p] \in 0..MaxMarks
                                    /\ claimed[h][p] \in Nat
  BY DEF ReviewTyped, ReversalsOK, Noting
<1>4. Net \in [Game -> [Person -> Int]]
  BY NetType
<1>5. Net' \in [Game -> [Person -> Int]] /\ \A h \in Game, p \in Person :
        Net'[h][p] = Net[h][p] + (IF h = g /\ p \in noted THEN 1 ELSE 0)
  <2>1. \A h \in Game, p \in Person : Net'[h][p] = marks'[h][p] - claimed[h][p]
    BY <1>2 DEF Net
  <2>2. \A h \in Game, p \in Person : Net[h][p] = marks[h][p] - claimed[h][p]
    BY DEF Net
  <2>3. Net' \in [Game -> [Person -> Int]]
    BY <1>2, <1>3 DEF Net
  <2>4. \A h \in Game, p \in Person : Net'[h][p] = Net[h][p] + (IF h = g /\ p \in noted THEN 1 ELSE 0)
    BY <1>2, <1>3, <2>1, <2>2 DEF Noting
  <2> QED  BY <2>3, <2>4
<1>6. \A p \in Person : Against(Net', p) = Against(Net, p) + (IF p \in noted THEN 1 ELSE 0)
  <2>1. PICK before, after : before = Net /\ after = Net'
    OBVIOUS
  <2>2. Numbers(before) /\ Numbers(after)
    BY <1>4, <1>5, <2>1 DEF Numbers
  <2>4. \A h \in Game, p \in Person : after[h][p] = before[h][p] + (IF h = g /\ p \in noted THEN 1 ELSE 0)
    BY <1>5, <2>1
  <2>5. \A p \in Person : Against(after, p) = Against(before, p) + (IF p \in noted THEN 1 ELSE 0)
    BY <2>2, <2>4, AgainstNoted
  <2> QED  BY <2>1, <2>5
<1>7. \A p \in Person : count'[p] <= Against(Net', p) + unrecorded'[p]
  <2> SUFFICES ASSUME NEW p \in Person PROVE count'[p] <= Against(Net', p) + unrecorded'[p]
    OBVIOUS
  <2>1. /\ count'[p] <= count[p] + (IF p \in rose THEN 1 ELSE 0)
        /\ unrecorded'[p] = unrecorded[p] + (IF p \in rose \ noted THEN 1 ELSE 0)
    BY DEF Noting
  <2>2. count[p] <= Against(Net, p) + unrecorded[p]
    BY DEF ReversalsOK
  <2> QED  BY <1>1, <1>6, <2>1, <2>2
<1>8. \A p \in Person : count'[p] <= (Against(Net, p))' + unrecorded'[p]
  BY <1>7 DEF Against
<1>9. \A h \in Game, p \in Person : claimed'[h][p] <= marks'[h][p]
  BY <1>2, <1>3 DEF ReversalsOK, Noting
<1> QED  BY <1>2, <1>8, <1>9 DEF ReversalsOK

\* A start claims and takes back what was recorded in cancelled games.
LEMMA ReverseKeeps ==
  ASSUME ReviewTyped, ReversalsOK, ReverseCancelled, UNCHANGED <<marks, unrecorded, game, lapses, closed>>
  PROVE  ReviewTyped' /\ ReversalsOK'
<1> DEFINE back == [g \in Game |-> [p \in Person |->
                      IF game[g].cancelled THEN marks[g][p] - claimed[g][p] ELSE 0]]
           n(p) == SumFunction([g \in Game |-> back[g][p]])
<1>0. /\ MaxMarks \in Nat /\ count \in [Person -> Nat] /\ given = claimed
      /\ \A g \in Game, p \in Person : /\ marks[g][p] \in 0..MaxMarks /\ claimed[g][p] \in Nat
                                       /\ claimed[g][p] <= marks[g][p]
  BY GhostAssumption DEF ReviewTyped, ReversalsOK
<1>1. \A g \in Game, p \in Person : back[g][p] \in Nat
  BY <1>0
<1>2. back \in [Game -> [Person -> Int]]
  <2>1. \A g \in Game : back[g] = [p \in Person |-> back[g][p]]
    OBVIOUS
  <2>2. back = [g \in Game |-> back[g]]
    OBVIOUS
  <2> HIDE DEF back
  <2> QED  BY <1>1, <2>1, <2>2
<1>3. /\ count' = [p \in Person |-> IF count[p] > n(p) THEN count[p] - n(p) ELSE 0]
      /\ claimed' = [g \in Game |-> [p \in Person |-> IF back[g][p] > 0 THEN marks[g][p] ELSE claimed[g][p]]]
      /\ given' = [g \in Game |-> [p \in Person |-> given[g][p] + back[g][p]]]
  BY DEF ReverseCancelled, Recall
<1>4. \A g \in Game, p \in Person : back[g][p] = 0 \/ back[g][p] = marks[g][p] - claimed[g][p]
  OBVIOUS
<1> HIDE DEF back
<1>5. \A p \in Person : n(p) = Against(back, p) /\ n(p) \in Int
  BY <1>2, AgainstType DEF Against
<1> HIDE DEF n
<1>6. count' \in [Person -> Nat]
  BY <1>0, <1>3, <1>5
<1>7. ReviewTyped'
  BY <1>6 DEF ReviewTyped, Candidates, InUsers, OutUsers
<1>8. \A g \in Game, p \in Person : claimed'[g][p] = claimed[g][p] + back[g][p]
  <2> SUFFICES ASSUME NEW g \in Game, NEW p \in Person PROVE claimed'[g][p] = claimed[g][p] + back[g][p]
    OBVIOUS
  <2>1. claimed'[g][p] = IF back[g][p] > 0 THEN marks[g][p] ELSE claimed[g][p]
    BY <1>3
  <2> QED  BY <1>0, <1>1, <1>4, <2>1
<1>9. given' = claimed' /\ claimed' \in [Game -> [Person -> Nat]]
  <2>1. \A g \in Game, p \in Person : given'[g][p] = claimed'[g][p] /\ claimed'[g][p] \in Nat
    BY <1>0, <1>1, <1>3, <1>8
  <2>2. /\ given' = [g \in Game |-> given'[g]] /\ claimed' = [g \in Game |-> claimed'[g]]
        /\ \A g \in Game : /\ given'[g] = [p \in Person |-> given'[g][p]]
                           /\ claimed'[g] = [p \in Person |-> claimed'[g][p]]
    BY <1>3
  <2>3. \A g \in Game : given'[g] = claimed'[g] /\ claimed'[g] \in [Person -> Nat]
    <3> SUFFICES ASSUME NEW g \in Game PROVE given'[g] = claimed'[g] /\ claimed'[g] \in [Person -> Nat]
      OBVIOUS
    <3>1. \A p \in Person : given'[g][p] = claimed'[g][p] /\ claimed'[g][p] \in Nat
      BY <2>1
    <3> QED  BY <2>2, <3>1
  <2> QED  BY <2>2, <2>3
<1>10. \A g \in Game, p \in Person : claimed'[g][p] <= marks'[g][p]
  BY <1>0, <1>4, <1>8
<1>11. Net \in [Game -> [Person -> Int]] /\ \A p \in Person : Against(Net, p) \in Int
  BY NetType
<1>12. Net' \in [Game -> [Person -> Int]] /\ \A g \in Game, p \in Person :
         Net[g][p] = Net'[g][p] + back[g][p]
  <2>1. \A g \in Game, p \in Person : marks[g][p] - claimed'[g][p] \in Int
    BY <1>0, <1>1, <1>8
  <2>2. Net' \in [Game -> [Person -> Int]]
    BY <2>1 DEF Net
  <2>3. \A g \in Game, p \in Person : /\ Net'[g][p] = marks[g][p] - claimed'[g][p]
                                      /\ Net[g][p] = marks[g][p] - claimed[g][p]
    BY DEF Net
  <2> QED  BY <1>0, <1>1, <1>8, <2>2, <2>3
<1>13. \A p \in Person : Against(Net, p) = Against(Net', p) + Against(back, p)
  <2> SUFFICES ASSUME NEW p \in Person PROVE Against(Net, p) = Against(Net', p) + Against(back, p)
    OBVIOUS
  <2> DEFINE a == [g \in Game |-> Net'[g][p]]
             b == [g \in Game |-> back[g][p]]
             c == [g \in Game |-> Net[g][p]]
  <2>1. a \in [Game -> Int] /\ b \in [Game -> Int] /\ c \in [Game -> Int]
    BY <1>2, <1>11, <1>12
  <2>2. \A g \in Game : c[g] = a[g] + b[g]
    BY <1>12
  <2> HIDE DEF a, b, c
  <2>3. SumFunction(c) = SumFunction(a) + SumFunction(b)
    BY <2>1, <2>2, SumPlus, GhostAssumption
  <2> QED  BY <2>3 DEF Against, a, b, c
<1>14. \A p \in Person : count'[p] <= Against(Net', p) + unrecorded'[p]
  <2> SUFFICES ASSUME NEW p \in Person PROVE count'[p] <= Against(Net', p) + unrecorded[p]
    OBVIOUS
  <2>1. count'[p] = IF count[p] > n(p) THEN count[p] - n(p) ELSE 0
    BY <1>3
  <2>2. Against(Net', p) \in Int
    BY <1>12, AgainstType
  <2>3. Against(Net, p) = Against(Net', p) + n(p) /\ n(p) \in Int
    BY <1>5, <1>13
  <2>4. count[p] <= Against(Net, p) + unrecorded[p] /\ count[p] \in Nat /\ unrecorded[p] \in Nat
    BY <1>0 DEF ReversalsOK, ReviewTyped
  <2>5. Against(Net', p) >= 0
    <3> DEFINE a == [g \in Game |-> Net'[g][p]]
    <3>1. a \in [Game -> Int]
      BY <1>12
    <3>2. \A g \in Game : a[g] >= 0
      <4> SUFFICES ASSUME NEW g \in Game PROVE Net'[g][p] >= 0
        OBVIOUS
      <4>1. Net'[g][p] = marks'[g][p] - claimed'[g][p]
        BY DEF Net
      <4>2. claimed'[g][p] \in Nat /\ marks'[g][p] \in 0..MaxMarks
        BY <1>0, <1>9
      <4> QED  BY <1>0, <1>10, <4>1, <4>2
    <3> HIDE DEF a
    <3>3. SumFunction(a) >= 0
      BY <3>1, <3>2, SumAtLeastZero, GhostAssumption
    <3> QED  BY <3>3 DEF Against, a
  <2> QED  BY <2>1, <2>2, <2>3, <2>4, <2>5
<1>15. \A p \in Person : count'[p] <= (Against(Net, p))' + unrecorded'[p]
  BY <1>14 DEF Against
<1> QED  BY <1>7, <1>9, <1>10, <1>15 DEF ReversalsOK
-----------------------------------------------------------------------------
(* Sessions and calls.                                                     *)
LEMMA SessionsAreOpened == \A s \in Sessions : s # NoPanel
<1> SUFFICES ASSUME NEW s \in Sessions, s = NoPanel PROVE FALSE
  OBVIOUS
<1>1. DOMAIN s = {"open"}
  BY DEF NoPanel
<1>2. "game" \in DOMAIN s
  BY DEF Sessions
<1> QED  BY <1>1, <1>2

LEMMA CallFields ==
  ASSUME NEW c \in Calls
  PROVE  /\ c.kind \in {"apply", "done", "web", "settle"}
         /\ c.kind = "apply" => c.panel \in Panel /\ c.tier \in Tier /\ c.set \in {Live} \cup SUBSET Person
         /\ c.kind = "done" => c.panel \in Panel
         /\ c.kind = "web" => c.game \in Game /\ c.set \in SUBSET Person
         /\ c.kind = "settle" => c.game \in Game
BY DEF Calls

LEMMA SessionFields ==
  ASSUME PanelsSound, NEW p \in Panel, panel[p] # NoPanel
  PROVE  /\ panel[p] \in Sessions /\ panel[p].game \in Game /\ panel[p].open \in BOOLEAN
         /\ panel[p].eligible \in BOOLEAN /\ panel[p].final \in BOOLEAN /\ panel[p].failed \in BOOLEAN
         /\ panel[p].tier \in Tier \cup {NoTier}
         /\ panel[p].picked \in [Tier -> SUBSET Person] /\ panel[p].applied \in [Tier -> SUBSET Person]
         /\ panel[p].ghosts \in SUBSET Person
<1>1. panel[p] \in Sessions
  BY DEF PanelsSound
<1> QED  BY <1>1 DEF Sessions

LEMMA OpenIsOpened == \A p \in Panel : panel[p].open => panel[p] # NoPanel
BY DEF NoPanel

\* What keeps a call as it was sound: its panel is the same panel, with what
\* was charged and with no failure less.
LEMMA CallStays ==
  ASSUME NEW c \in Calls, CallSound(c),
         c.kind = "apply" =>
           /\ panel'[c.panel] # NoPanel
           /\ (Candidates(panel[c.panel].game))' = Candidates(panel[c.panel].game)
           /\ ~panel'[c.panel].failed => ~panel[c.panel].failed
           /\ panel[c.panel].applied[c.tier] \subseteq panel'[c.panel].applied[c.tier],
         c.kind = "done" =>
           panel'[c.panel] # NoPanel /\ panel'[c.panel].final /\ finals'[c.panel] = 0
  PROVE  CallSound(c)'
BY DEF CallSound

LEMMA TailByPlace ==
  ASSUME NEW S, NEW calls \in Seq(S), calls # << >>
  PROVE  /\ Head(calls) = calls[1] /\ 1 \in 1..Len(calls) /\ Tail(calls) \in Seq(S)
         /\ Len(Tail(calls)) = Len(calls) - 1
         /\ \A i \in 1..(Len(calls) - 1) : Tail(calls)[i] = calls[i + 1] /\ i + 1 \in 1..Len(calls)
OBVIOUS

\* The calls behind the first are sound, and their Dones are other panels'.
LEMMA TailSound ==
  ASSUME QueueSound(waiting), waiting # << >>
  PROVE  /\ Head(waiting) \in Calls /\ CallSound(Head(waiting))
         /\ QueueSound(Tail(waiting))
         /\ \A i \in 1..Len(Tail(waiting)) :
              Head(waiting).kind = "done" /\ Tail(waiting)[i].kind = "done"
              => Tail(waiting)[i].panel # Head(waiting).panel
<1>1. waiting \in Seq(Calls)
  BY DEF QueueSound
<1>2. /\ Head(waiting) = waiting[1] /\ 1 \in 1..Len(waiting) /\ Tail(waiting) \in Seq(Calls)
      /\ Len(Tail(waiting)) = Len(waiting) - 1
      /\ \A i \in 1..(Len(waiting) - 1) : Tail(waiting)[i] = waiting[i + 1] /\ i + 1 \in 1..Len(waiting)
  BY <1>1, TailByPlace, Zenon
<1>3. Len(waiting) \in Nat /\ waiting[1] \in Calls
  BY <1>1, <1>2
<1> DEFINE t == Tail(waiting)
<1>4. \A i \in 1..Len(t) : t[i] = waiting[i + 1] /\ i + 1 \in 1..Len(waiting)
  BY <1>2
<1>5. t \in Seq(Calls)
  BY <1>2
<1> HIDE DEF t
<1>6. \A i \in 1..Len(t) : CallSound(t[i])
  BY <1>4 DEF QueueSound
<1>7. \A i, j \in 1..Len(t) : t[i].kind = "done" /\ t[j].kind = "done" /\ t[i].panel = t[j].panel => i = j
  <2> SUFFICES ASSUME NEW i \in 1..Len(t), NEW j \in 1..Len(t),
                      t[i].kind = "done", t[j].kind = "done", t[i].panel = t[j].panel
               PROVE  i = j
    OBVIOUS
  <2>1. i + 1 = j + 1
    BY <1>4 DEF QueueSound
  <2> QED  BY <2>1
<1>8. \A i \in 1..Len(t) : waiting[1].kind = "done" /\ t[i].kind = "done" => t[i].panel # waiting[1].panel
  <2> SUFFICES ASSUME NEW i \in 1..Len(t), waiting[1].kind = "done", t[i].kind = "done",
                      t[i].panel = waiting[1].panel
               PROVE  FALSE
    OBVIOUS
  <2>1. i + 1 = 1
    BY <1>2, <1>4 DEF QueueSound
  <2> QED  BY <2>1
<1> QED  BY <1>2, <1>3, <1>5, <1>6, <1>7, <1>8 DEF QueueSound, t

\* The queue in the next state: each call stays sound.
LEMMA QueueStays ==
  ASSUME NEW calls, QueueSound(calls),
         \A i \in 1..Len(calls) : calls[i] \in Calls => CallSound(calls[i])'
  PROVE  QueueSound(calls)'
<1>1. \A i \in 1..Len(calls) : calls[i] \in Calls
  BY DEF QueueSound
<1> QED  BY <1>1 DEF QueueSound

LEMMA QueuesStay ==
  ASSUME \A c \in Calls : CallSound(c) => CallSound(c)'
  PROVE  \A calls : QueueSound(calls) => QueueSound(calls)'
<1> SUFFICES ASSUME NEW calls, QueueSound(calls) PROVE QueueSound(calls)'
  OBVIOUS
<1>1. \A i \in 1..Len(calls) : calls[i] \in Calls /\ CallSound(calls[i])
  BY DEF QueueSound
<1>2. \A i \in 1..Len(calls) : CallSound(calls[i])'
  BY <1>1
<1> QED  BY <1>2 DEF QueueSound

LEMMA AppendSound ==
  ASSUME NEW calls, QueueSound(calls)', NEW c \in Calls, CallSound(c)',
         \A i \in 1..Len(calls) : c.kind = "done" /\ calls[i].kind = "done" => calls[i].panel # c.panel
  PROVE  QueueSound(Append(calls, c))'
<1>1. calls \in Seq(Calls)
  BY DEF QueueSound
<1> DEFINE t == Append(calls, c)
<1>2. /\ t \in Seq(Calls) /\ Len(calls) \in Nat /\ Len(t) = Len(calls) + 1
      /\ \A i \in 1..Len(t) : t[i] = IF i = Len(t) THEN c ELSE calls[i]
  BY <1>1
<1> HIDE DEF t
<1>3. \A i \in 1..Len(t) : i # Len(t) => i \in 1..Len(calls)
  BY <1>2
<1>4. \A i \in 1..Len(t) : CallSound(t[i])'
  BY <1>2, <1>3 DEF QueueSound
<1>5. \A i, j \in 1..Len(t) : t[i].kind = "done" /\ t[j].kind = "done" /\ t[i].panel = t[j].panel => i = j
  BY <1>2, <1>3 DEF QueueSound
<1>6. QueueSound(t)'
  BY <1>2, <1>4, <1>5 DEF QueueSound
<1> QED  BY <1>6 DEF t

-----------------------------------------------------------------------------
(* What the taps do to the panels.                                         *)

\* The lists of a game that has ended stay.
ListsFinal == \A g \in Game : game[g].ended => game'[g].ended /\ (Candidates(g))' = Candidates(g)

LEMMA OthersSound ==
  ASSUME PanelsSound, ListsFinal, NEW p \in Panel, panel'[p] = panel[p], finals'[p] = finals[p]
  PROVE  PanelSound(p)'
<1>1. PanelSound(p)
  BY DEF PanelsSound
<1>2. CASE panel[p] = NoPanel
  BY <1>1, <1>2 DEF PanelSound
<1>3. CASE panel[p] # NoPanel
  <2>1. panel[p].game \in Game
    BY <1>3, SessionFields
  <2>2. (Candidates(panel[p].game))' = Candidates(panel[p].game) /\ game'[panel[p].game].ended
    <3>1. \A g \in Game : g = panel[p].game => (Candidates(panel[p].game))' = (Candidates(g))'
      BY DEF Candidates, InUsers, OutUsers
    <3> QED  BY <1>1, <1>3, <2>1, <3>1 DEF PanelSound, ListsFinal
  <2> QED  BY <1>1, <1>3, <2>2 DEF PanelSound, Separate
<1> QED  BY <1>2, <1>3

\* Where no panel changes, every call stays as it was.
LEMMA UntouchedPanels ==
  ASSUME PanelsSound, ListsFinal, UNCHANGED <<panel, finals>>
  PROVE  /\ PanelsSound' /\ LateStep
         /\ \A calls : QueueSound(calls) => QueueSound(calls)'
<1>1. PanelsSound'
  BY OthersSound DEF PanelsSound
<1>2. LateStep
  BY DEF LateStep, PanelsSound
<1>3. ASSUME NEW c \in Calls, CallSound(c) PROVE CallSound(c)'
  <2>1. CallSound(c) /\ c \in Calls
    BY <1>3
  <2>2. ASSUME c.kind = "apply" PROVE (Candidates(panel[c.panel].game))' = Candidates(panel[c.panel].game)
    <3>1. c.panel \in Panel /\ panel[c.panel] # NoPanel
      BY <2>1, <2>2, CallFields DEF CallSound
    <3>2. panel[c.panel].game \in Game /\ game[panel[c.panel].game].ended
      BY <3>1, SessionFields DEF PanelsSound, PanelSound
    <3> QED  BY <3>2 DEF ListsFinal, Candidates, InUsers, OutUsers
  <2> QED  BY <2>1, <2>2, CallStays DEF CallSound
<1> QED  BY <1>1, <1>2, <1>3, QueuesStay

LEMMA Replaced ==
  ASSUME PanelsSound, NEW p \in Panel, NEW n \in Sessions, panel' = [panel EXCEPT ![p] = n]
  PROVE  /\ panel' \in [Panel -> {NoPanel} \cup Sessions] /\ panel'[p] = n /\ n # NoPanel
         /\ \A q \in Panel : q # p => panel'[q] = panel[q]
BY SessionsAreOpened DEF PanelsSound

\* One session goes on: what it charged stays charged, and what it picks and
\* charges is about people of its game, one tier each.
LEMMA SessionGoesOn ==
  ASSUME PanelsSound, NEW p \in Panel, panel[p] # NoPanel, NEW n \in Sessions,
         panel' = [panel EXCEPT ![p] = n], UNCHANGED <<finals, game>>,
         n.game = panel[p].game, ~n.failed => ~panel[p].failed /\ Separate(n),
         panel[p].final => n.final,
         \A t \in Tier : /\ panel[p].applied[t] \subseteq n.applied[t]
                         /\ n.picked[t] \cup n.applied[t] \subseteq Candidates(n.game)
  PROVE  /\ PanelsSound'
         /\ \A calls : QueueSound(calls) => QueueSound(calls)'
<1>0. ListsFinal /\ \A g : (Candidates(g))' = Candidates(g)
  BY DEF ListsFinal, Candidates, InUsers, OutUsers
<1>1. /\ panel' \in [Panel -> {NoPanel} \cup Sessions] /\ panel'[p] = n /\ n # NoPanel
      /\ \A q \in Panel : q # p => panel'[q] = panel[q]
  BY Replaced
<1>2. ASSUME NEW q \in Panel PROVE PanelSound(q)'
  <2>1. CASE q # p
    BY <1>0, <1>1, <2>1, OthersSound
  <2>2. CASE q = p
    <3>1. PanelSound(p)
      BY DEF PanelsSound
    <3>2. (Candidates(panel[p].game))' = Candidates(n.game)
      BY <1>1 DEF Candidates, InUsers, OutUsers
    <3>3. game'[n.game].ended
      BY <3>1 DEF PanelSound
    <3> QED  BY <1>1, <2>2, <3>1, <3>2, <3>3 DEF PanelSound, Separate
  <2> QED  BY <2>1, <2>2
<1>3. PanelsSound'
  BY <1>1, <1>2 DEF PanelsSound
<1>4. ASSUME NEW c \in Calls, CallSound(c) PROVE CallSound(c)'
  <2>1. CallSound(c) /\ c \in Calls
    BY <1>4
  <2>2. CASE c.kind \in {"apply", "done"} /\ c.panel = p
    <3>1. (Candidates(panel[p].game))' = Candidates(panel[p].game)
      BY <1>1 DEF Candidates, InUsers, OutUsers
    <3>2. c.kind = "apply" => c.tier \in Tier
      BY <2>1, CallFields
    <3> QED  BY <1>1, <2>1, <2>2, <3>1, <3>2, CallStays DEF CallSound
  <2>3. CASE c.kind \in {"apply", "done"} /\ c.panel # p
    <3>1. c.panel \in Panel
      BY <2>1, <2>3, CallFields
    <3>2. panel'[c.panel] = panel[c.panel]
      BY <1>1, <2>3, <3>1
    <3>3. (Candidates(panel[c.panel].game))' = Candidates(panel[c.panel].game)
      BY <3>2 DEF Candidates, InUsers, OutUsers
    <3> QED  BY <2>1, <3>2, <3>3, CallStays DEF CallSound
  <2>4. CASE c.kind \notin {"apply", "done"}
    BY <2>4 DEF CallSound
  <2> QED  BY <2>2, <2>3, <2>4
<1> QED  BY <1>3, <1>4, QueuesStay

\* A tap that charges nobody.
LEMMA QuietLate ==
  ASSUME PanelsSound, UNCHANGED finals,
         \A p \in Panel : panel[p] # NoPanel /\ panel'[p] # NoPanel =>
           \A t \in Tier : panel'[p].applied[t] \subseteq panel[p].applied[t] \/ panel[p].game \notin closed
  PROVE  LateStep
BY DEF LateStep, PanelsSound

-----------------------------------------------------------------------------
(* Opening, picking and charging.                                          *)

LEMMA TablesStay ==
  ASSUME ReviewTyped, ReversalsOK, UNCHANGED <<review, reversals>>, closed' \subseteq Game
  PROVE  ReviewTyped' /\ ReversalsOK' /\ ListsFinal
<1>1. UNCHANGED <<game, count, marks, unrecorded, lapses>>
  BY DEF review, tallies
<1>2. ReviewTyped' /\ ListsFinal
  BY <1>1 DEF ReviewTyped, ListsFinal, Candidates, InUsers, OutUsers
<1>3. count \in [Person -> Nat] /\ \A p \in Person : count'[p] <= count[p]
  BY <1>1 DEF ReviewTyped
<1>4. ReversalsOK'
  BY <1>1, <1>3, LowerReversals
<1> QED  BY <1>2, <1>4

LEMMA AnswersStay ==
  ASSUME AnswersTyped, UNCHANGED <<tracking, answers, sweeps>>
  PROVE  AnswersTyped'
BY DEF AnswersTyped, answers, sweeps

LEMMA OpenKeeps ==
  ASSUME PanelInv, NEW p \in Panel, NEW g \in Game, OpenPanel(p, g),
         UNCHANGED <<tracking, answers, sweeps, reversals>>
  PROVE  PanelInv' /\ LateStep
<1>0. /\ ReviewTyped /\ AnswersTyped /\ ReversalsOK /\ PanelsSound /\ QueueSound(waiting)
      /\ held \in BOOLEAN /\ closed \subseteq Game
  BY DEF PanelInv, ReversalsOK
<1> DEFINE e == tracking /\ ~game[g].reviewed
           n == [open |-> TRUE, game |-> g, eligible |-> e, tier |-> NoTier,
                 picked |-> [t \in Tier |-> {}], applied |-> [t \in Tier |-> {}],
                 ghosts |-> {}, final |-> FALSE, failed |-> FALSE]
<1>1. /\ game[g].ended /\ panel' = [panel EXCEPT ![p] = n] /\ finals' = [finals EXCEPT ![p] = 0]
      /\ \A i \in DOMAIN waiting : waiting[i].kind \in {"apply", "done"} => waiting[i].panel # p
      /\ UNCHANGED <<review, closed, held, waiting>>
  BY DEF OpenPanel, locks
<1>2. n \in Sessions /\ n.game = g /\ \A t \in Tier : n.picked[t] = {} /\ n.applied[t] = {}
  <2>1. e \in BOOLEAN
    OBVIOUS
  <2> HIDE DEF e
  <2> QED  BY <2>1 DEF Sessions
<1> HIDE DEF n
<1>3. ReviewTyped' /\ ReversalsOK' /\ ListsFinal
  BY <1>0, <1>1, TablesStay
<1>4. /\ panel' \in [Panel -> {NoPanel} \cup Sessions] /\ panel'[p] = n /\ n # NoPanel
      /\ \A q \in Panel : q # p => panel'[q] = panel[q]
  BY <1>0, <1>1, <1>2, Replaced
<1>5. finals' \in [Panel -> Nat] /\ finals'[p] = 0 /\ \A q \in Panel : q # p => finals'[q] = finals[q]
  BY <1>0, <1>1 DEF PanelsSound
<1>6. PanelsSound'
  <2>1. PanelSound(p)'
    <3>1. game'[n.game].ended
      BY <1>1, <1>2 DEF review
    <3> QED  BY <1>2, <1>4, <1>5, <3>1 DEF PanelSound, Separate
  <2>2. \A q \in Panel : PanelSound(q)'
    BY <1>0, <1>3, <1>4, <1>5, <2>1, OthersSound
  <2> QED  BY <1>4, <1>5, <2>2 DEF PanelsSound
<1>7. QueueSound(waiting)'
  <2>1. \A i \in 1..Len(waiting) : waiting[i].kind \in {"apply", "done"} => waiting[i].panel # p
    BY <1>0, <1>1 DEF QueueSound
  <2>2. ASSUME NEW c \in Calls, CallSound(c), c.kind \in {"apply", "done"} => c.panel # p
        PROVE  CallSound(c)'
    <3>1. CASE c.kind \in {"apply", "done"}
      <4>1. c.panel \in Panel /\ c.panel # p /\ panel[c.panel] # NoPanel
        BY <2>2, <3>1, CallFields DEF CallSound
      <4>2. panel'[c.panel] = panel[c.panel] /\ finals'[c.panel] = finals[c.panel]
        BY <1>4, <1>5, <4>1
      <4>3. (Candidates(panel[c.panel].game))' = Candidates(panel[c.panel].game)
        BY <1>1, <4>2 DEF Candidates, InUsers, OutUsers, review
      <4> QED  BY <2>2, <4>2, <4>3, CallStays DEF CallSound
    <3>2. CASE c.kind \notin {"apply", "done"}
      BY <3>2 DEF CallSound
    <3> QED  BY <3>1, <3>2
  <2>3. \A i \in 1..Len(waiting) : CallSound(waiting[i]) /\ waiting[i] \in Calls
    BY <1>0 DEF QueueSound
  <2>4. PICK calls : calls = waiting
    OBVIOUS
  <2>5. QueueSound(calls) /\ calls' = calls /\ waiting' = calls
    BY <1>0, <1>1, <2>4
  <2>6. \A i \in 1..Len(calls) : CallSound(calls[i])'
    BY <2>1, <2>2, <2>3, <2>4
  <2>7. QueueSound(calls)'
    BY <2>5, <2>6, QueueStays
  <2> QED  BY <2>5, <2>7
<1>8. LateStep
  <2>1. \A q \in Panel : finals[q] \in Nat
    BY <1>0 DEF PanelsSound
  <2> QED  BY <1>2, <1>4, <1>5, <2>1 DEF LateStep
<1> QED  BY <1>0, <1>1, <1>3, <1>6, <1>7, <1>8, AnswersStay DEF PanelInv

\* A queue that stays, loses its first call or gains a last one.
LEMMA SameQueue ==
  ASSUME QueueSound(waiting), UNCHANGED waiting, \A calls : QueueSound(calls) => QueueSound(calls)'
  PROVE  QueueSound(waiting)'
<1>1. PICK calls : calls = waiting
  OBVIOUS
<1>2. QueueSound(calls)' /\ waiting' = calls
  BY <1>1
<1> QED  BY <1>2

LEMMA LongerQueue ==
  ASSUME QueueSound(waiting), NEW c \in Calls, waiting' = Append(waiting, c),
         \A calls : QueueSound(calls) => QueueSound(calls)', CallSound(c)',
         \A i \in 1..Len(waiting) : c.kind = "done" /\ waiting[i].kind = "done" => waiting[i].panel # c.panel
  PROVE  QueueSound(waiting)'
<1>1. PICK calls : calls = waiting
  OBVIOUS
<1>2. QueueSound(calls)' /\ waiting' = Append(calls, c)
  BY <1>1
<1>3. \A i \in 1..Len(calls) : c.kind = "done" /\ calls[i].kind = "done" => calls[i].panel # c.panel
  BY <1>1
<1>4. QueueSound(Append(calls, c))'
  BY <1>2, <1>3, AppendSound
<1> QED  BY <1>2, <1>4

\* What the admins see changes, not what was charged: the tier, the picks.
LEMMA PickKeeps ==
  ASSUME PanelInv, NEW p \in Panel, panel[p] # NoPanel, NEW n \in Sessions,
         panel' = [panel EXCEPT ![p] = n], UNCHANGED <<finals, review, closed>>,
         UNCHANGED <<tracking, answers, sweeps, reversals>>,
         n.game = panel[p].game, n.applied = panel[p].applied, n.failed = panel[p].failed,
         panel[p].final => n.final, ~n.failed => Separate(n),
         \A t \in Tier : n.picked[t] \subseteq Candidates(n.game)
  PROVE  /\ ReviewTyped' /\ AnswersTyped' /\ ReversalsOK' /\ PanelsSound' /\ LateStep
         /\ \A calls : QueueSound(calls) => QueueSound(calls)'
<1>0. ReviewTyped /\ AnswersTyped /\ ReversalsOK /\ PanelsSound /\ closed \subseteq Game
  BY DEF PanelInv, ReversalsOK
<1>1. ReviewTyped' /\ ReversalsOK' /\ AnswersTyped' /\ game' = game
  BY <1>0, TablesStay, AnswersStay DEF review
<1>2. PanelSound(p)
  BY <1>0 DEF PanelsSound
<1>3. \A t \in Tier : /\ panel[p].applied[t] \subseteq n.applied[t]
                      /\ n.picked[t] \cup n.applied[t] \subseteq Candidates(n.game)
  BY <1>2 DEF PanelSound
<1>4. PanelsSound' /\ \A calls : QueueSound(calls) => QueueSound(calls)'
  BY <1>0, <1>1, <1>3, SessionGoesOn
<1>5. \A q \in Panel : panel'[q] = IF q = p THEN n ELSE panel[q]
  BY <1>0 DEF PanelsSound
<1>6. LateStep
  BY <1>0, <1>5, QuietLate
<1> QED  BY <1>1, <1>4, <1>6

LEMMA SelectKeeps ==
  ASSUME PanelInv, NEW p \in Panel, NEW t \in Tier \cup {NoTier}, SelectTier(p, t),
         UNCHANGED <<tracking, answers, sweeps, reversals>>
  PROVE  PanelInv' /\ LateStep
<1> DEFINE n == [panel[p] EXCEPT !.tier = t]
<1>0. PanelsSound /\ QueueSound(waiting) /\ held \in BOOLEAN /\ panel[p] # NoPanel
  BY OpenIsOpened DEF PanelInv, SelectTier
<1>1. /\ panel' = [panel EXCEPT ![p] = n] /\ UNCHANGED <<review, closed, finals, held, waiting>>
  BY DEF SelectTier, locks
<1>2. panel[p] \in Sessions /\ PanelSound(p)
  BY <1>0, SessionFields DEF PanelsSound
<1>3. /\ n \in Sessions /\ n.game = panel[p].game /\ n.applied = panel[p].applied
      /\ n.picked = panel[p].picked /\ n.failed = panel[p].failed /\ n.final = panel[p].final
  BY <1>2 DEF Sessions
<1> HIDE DEF n
<1>4. /\ ~n.failed => Separate(n)
      /\ \A u \in Tier : n.picked[u] \subseteq Candidates(n.game)
  BY <1>0, <1>2, <1>3 DEF PanelSound, Separate
<1>5. /\ ReviewTyped' /\ AnswersTyped' /\ ReversalsOK' /\ PanelsSound' /\ LateStep
      /\ \A calls : QueueSound(calls) => QueueSound(calls)'
  BY <1>0, <1>1, <1>3, <1>4, PickKeeps
<1>6. QueueSound(waiting)'
  BY <1>0, <1>1, <1>5, SameQueue
<1> QED  BY <1>0, <1>1, <1>5, <1>6 DEF PanelInv

LEMMA ToggleKeeps ==
  ASSUME PanelInv, NEW p \in Panel, NEW u \in Person, TogglePlayer(p, u),
         UNCHANGED <<tracking, answers, sweeps, reversals>>
  PROVE  PanelInv' /\ LateStep
<1> DEFINE t == panel[p].tier
           flipped == SymDiff(panel[p].picked[t], {u})
           k == [panel[p].picked EXCEPT ![t] = flipped]
           n == [panel[p] EXCEPT !.picked = k]
<1>0. PanelsSound /\ QueueSound(waiting) /\ held \in BOOLEAN /\ panel[p] # NoPanel
  BY OpenIsOpened DEF PanelInv, TogglePlayer
<1>1. /\ panel' = [panel EXCEPT ![p] = n] /\ UNCHANGED <<review, closed, finals, held, waiting>>
      /\ panel[p].tier # NoTier /\ u \in Candidates(panel[p].game) \ Locked(p, panel[p].tier)
  BY DEF TogglePlayer, locks
<1>2. panel[p] \in Sessions /\ PanelSound(p) /\ t \in Tier
      /\ panel[p].picked \in [Tier -> SUBSET Person]
  BY <1>0, <1>1, SessionFields DEF PanelsSound
<1>3. flipped \in SUBSET Person /\ flipped \subseteq panel[p].picked[t] \cup {u}
  BY <1>2 DEF SymDiff
<1> HIDE DEF t, flipped
<1>4. k \in [Tier -> SUBSET Person] /\ k[t] = flipped /\ \A s \in Tier : s # t => k[s] = panel[p].picked[s]
  BY <1>2, <1>3
<1> HIDE DEF k
<1>5. /\ n \in Sessions /\ n.game = panel[p].game /\ n.applied = panel[p].applied
      /\ n.picked = k /\ n.failed = panel[p].failed /\ n.final = panel[p].final
  BY <1>2, <1>4 DEF Sessions
<1> HIDE DEF n
<1>6. \A s \in Tier : n.picked[s] \subseteq Candidates(n.game)
  BY <1>0, <1>1, <1>2, <1>3, <1>4, <1>5 DEF PanelSound
<1>7. ASSUME ~n.failed PROVE Separate(n)
  <2>1. Separate(panel[p])
    BY <1>0, <1>2, <1>5, <1>7 DEF PanelSound
  <2>2. \A s \in Tier : s # t => u \notin panel[p].picked[s] \cup panel[p].applied[s]
    BY <1>1 DEF Locked, t
  <2> QED  BY <1>3, <1>4, <1>5, <2>1, <2>2 DEF Separate
<1>8. /\ ReviewTyped' /\ AnswersTyped' /\ ReversalsOK' /\ PanelsSound' /\ LateStep
      /\ \A calls : QueueSound(calls) => QueueSound(calls)'
  BY <1>0, <1>1, <1>5, <1>6, <1>7, PickKeeps
<1>9. QueueSound(waiting)'
  BY <1>0, <1>1, <1>8, SameQueue
<1> QED  BY <1>0, <1>1, <1>8, <1>9 DEF PanelInv

\* The calls behind an Apply: those that stood for what was picked now stand
\* for what was charged.
Behind(p, tier, picks, rest) ==
  [i \in DOMAIN rest |->
     IF rest[i].kind = "apply" /\ rest[i].panel = p /\ rest[i].tier = tier /\ rest[i].set = Live
     THEN [rest[i] EXCEPT !.set = picks] ELSE rest[i]]

LEMMA BehindSound ==
  ASSUME NEW p \in Panel, NEW tier \in Tier, NEW picks \in SUBSET Person, NEW rest, QueueSound(rest)',
         panel'[p] # NoPanel, picks \subseteq (Candidates(panel[p].game))',
         ~panel'[p].failed => picks \subseteq panel'[p].applied[tier]
  PROVE  QueueSound(Behind(p, tier, picks, rest))'
<1> DEFINE t == Behind(p, tier, picks, rest)
           late(i) == rest[i].kind = "apply" /\ rest[i].panel = p /\ rest[i].tier = tier /\ rest[i].set = Live
<1>1. rest \in Seq(Calls)
  BY DEF QueueSound
<1>2. \A i \in 1..Len(rest) : rest[i] \in Calls /\ CallSound(rest[i])'
  BY DEF QueueSound
<1>3. DOMAIN rest = 1..Len(rest) /\ Len(rest) \in Nat
  BY <1>1
<1>4. \A i \in 1..Len(rest) : t[i] = IF late(i) THEN [rest[i] EXCEPT !.set = picks] ELSE rest[i]
  BY <1>3 DEF Behind
<1>5. DOMAIN t = 1..Len(rest)
  BY <1>3 DEF Behind
<1>8. t = [i \in 1..Len(rest) |-> t[i]]
  BY <1>3 DEF Behind
<1> HIDE DEF t
<1>6. ASSUME NEW i \in 1..Len(rest)
      PROVE  /\ t[i] \in Calls /\ CallSound(t[i])' /\ t[i].kind = rest[i].kind
             /\ t[i].kind = "done" => t[i].panel = rest[i].panel
  <2>1. CASE late(i)
    <3>1. rest[i] \in [kind : {"apply"}, panel : Panel, tier : Tier, set : {Live} \cup SUBSET Person]
      BY <1>2, <2>1 DEF Calls
    <3>2. PICK c : c = [rest[i] EXCEPT !.set = picks]
      OBVIOUS
    <3>3. /\ c \in [kind : {"apply"}, panel : Panel, tier : Tier, set : {Live} \cup SUBSET Person]
          /\ c.kind = "apply" /\ c.panel = p /\ c.tier = tier /\ c.set = picks
      BY <2>1, <3>1, <3>2
    <3>4. CallSound(c)'
      BY <3>3 DEF CallSound, Candidates, InUsers, OutUsers
    <3>5. t[i] = c
      BY <1>4, <2>1, <3>2
    <3> QED  BY <2>1, <3>3, <3>4, <3>5 DEF Calls
  <2>2. CASE ~late(i)
    <3>1. t[i] = rest[i]
      BY <1>4, <2>2
    <3> QED  BY <1>2, <3>1
  <2> QED  BY <2>1, <2>2
<1>7. t \in Seq(Calls) /\ Len(t) = Len(rest)
  <2>1. t \in [1..Len(rest) -> Calls]
    BY <1>6, <1>8
  <2> QED  BY <1>3, <2>1
<1>9. \A i, j \in 1..Len(t) : t[i].kind = "done" /\ t[j].kind = "done" /\ t[i].panel = t[j].panel => i = j
  BY <1>6, <1>7 DEF QueueSound
<1>10. QueueSound(t)'
  BY <1>6, <1>7, <1>9 DEF QueueSound
<1> QED  BY <1>10 DEF t

\* Apply charges what was picked, or what its call kept, in its own tier.
LEMMA ApplyKeeps ==
  ASSUME PanelInv, NEW p \in Panel, panel[p] # NoPanel, NEW tier \in Tier,
         NEW set \in {Live} \cup SUBSET Person, NEW rest, QueueSound(rest),
         set # Live => /\ set \subseteq Candidates(panel[p].game)
                       /\ ~panel[p].failed => set \subseteq panel[p].applied[tier],
         Apply(p, tier, set, rest),
         UNCHANGED <<closed, finals, tracking, answers, sweeps, reversals>>
  PROVE  PanelInv' /\ LateStep
<1>0. /\ ReviewTyped /\ AnswersTyped /\ ReversalsOK /\ PanelsSound /\ held \in BOOLEAN
      /\ closed \subseteq Game /\ AnswersTyped'
  BY AnswersStay DEF PanelInv, ReversalsOK
<1> DEFINE s == panel[p]
           picks == IF set = Live THEN s.picked[tier] ELSE set
           ghosts == IF tier \in Ditch /\ s.eligible THEN picks ELSE {}
<1>1. CASE s.game \in closed
  <2>1. UNCHANGED <<review, panel, finals>> /\ held' = TRUE /\ waiting' = rest
    BY <1>1 DEF Apply
  <2>2. ReviewTyped' /\ ReversalsOK' /\ ListsFinal
    BY <1>0, <2>1, TablesStay
  <2>3. PanelsSound' /\ LateStep /\ QueueSound(rest)'
    BY <1>0, <2>1, <2>2, UntouchedPanels
  <2> QED  BY <1>0, <2>1, <2>2, <2>3 DEF PanelInv
<1>2. CASE s.game \notin closed
  <2>1. PICK failed \in SUBSET picks :
          /\ Mark(s.game, ghosts)
          /\ panel' = [panel EXCEPT ![p] =
               [s EXCEPT !.applied[tier] = @ \cup (picks \ failed), !.picked[tier] = {},
                         !.tier = NoTier, !.ghosts = @ \cup ghosts, !.failed = @ \/ failed # {}]]
          /\ waiting' = Behind(p, tier, picks, rest)
          /\ UNCHANGED held
    BY <1>2 DEF Apply, Behind
  <2>2. /\ s \in Sessions /\ s.game \in Game /\ s.picked \in [Tier -> SUBSET Person]
        /\ s.applied \in [Tier -> SUBSET Person] /\ s.ghosts \in SUBSET Person /\ s.failed \in BOOLEAN
        /\ PanelSound(p)
    BY <1>0, SessionFields DEF PanelsSound
  <2>3. picks \in SUBSET Person /\ picks \subseteq Candidates(s.game)
    BY <2>2 DEF PanelSound
  <2>4. ghosts \in SUBSET Person /\ ghosts \in SUBSET Candidates(s.game)
    BY <2>3
  <2>5. ~s.failed => picks \subseteq s.picked[tier] \cup s.applied[tier]
    OBVIOUS
  <2> HIDE DEF picks, ghosts
  <2>16. /\ ReviewTyped' /\ UNCHANGED game
         /\ \E rose, noted : Noting(s.game, rose, noted)
    BY <1>0, <2>1, <2>2, <2>4, WriteStep DEF Mark
  <2> DEFINE a == [s.applied EXCEPT ![tier] = @ \cup (picks \ failed)]
             k == [s.picked EXCEPT ![tier] = {}]
             f == s.failed \/ failed # {}
             gh == s.ghosts \cup ghosts
             n == [s EXCEPT !.applied = a, !.picked = k, !.tier = NoTier, !.ghosts = gh, !.failed = f]
  <2>6. panel' = [panel EXCEPT ![p] = n]
    BY <2>1
  <2>7. a \in [Tier -> SUBSET Person] /\ k \in [Tier -> SUBSET Person] /\ gh \in SUBSET Person
    BY <2>2, <2>3, <2>4
  <2>8. /\ a[tier] = s.applied[tier] \cup (picks \ failed) /\ k[tier] = {}
        /\ \A t \in Tier : t # tier => a[t] = s.applied[t] /\ k[t] = s.picked[t]
    BY <2>2
  <2>9. f \in BOOLEAN /\ (f <=> s.failed \/ failed # {})
    OBVIOUS
  <2> HIDE DEF a, k, f, gh
  <2>10. /\ n \in Sessions /\ n.game = s.game /\ n.applied = a /\ n.picked = k /\ n.failed = f
         /\ n.final = s.final
    BY <2>2, <2>7, <2>9 DEF Sessions
  <2> HIDE DEF n
  <2>11. ASSUME ~n.failed PROVE ~s.failed /\ Separate(n)
    <3>1. ~s.failed /\ failed = {}
      BY <2>9, <2>10, <2>11
    <3>2. Separate(s)
      BY <2>2, <3>1 DEF PanelSound
    <3>3. /\ a[tier] \cup k[tier] \subseteq s.applied[tier] \cup s.picked[tier]
          /\ \A t \in Tier : a[t] \cup k[t] \subseteq s.applied[t] \cup s.picked[t]
      BY <2>5, <2>8, <3>1
    <3>4. Separate(n)
      BY <2>10, <3>2, <3>3 DEF Separate
    <3> QED  BY <3>1, <3>4
  <2>12. \A t \in Tier : /\ s.applied[t] \subseteq n.applied[t]
                         /\ n.picked[t] \cup n.applied[t] \subseteq Candidates(n.game)
    BY <2>2, <2>3, <2>8, <2>10 DEF PanelSound
  <2>13. PanelsSound' /\ QueueSound(rest)'
    BY <1>0, <2>6, <2>10, <2>11, <2>12, <2>16, SessionGoesOn
  <2>14. panel'[p] = n /\ n # NoPanel /\ \A q \in Panel : q # p => panel'[q] = panel[q]
    BY <1>0, <2>6, <2>10, Replaced
  <2>15. QueueSound(waiting)'
    <3>0. PICK who, calls : who = picks /\ calls = Behind(p, tier, who, rest)
      OBVIOUS
    <3>1. who \in SUBSET Person /\ who \subseteq (Candidates(panel[p].game))'
      BY <2>3, <2>10, <2>14, <2>16, <3>0 DEF Candidates, InUsers, OutUsers
    <3>2. ~panel'[p].failed => who \subseteq panel'[p].applied[tier]
      BY <2>8, <2>9, <2>10, <2>14, <3>0
    <3>3. QueueSound(Behind(p, tier, who, rest))'
      BY <2>13, <2>14, <3>1, <3>2, BehindSound
    <3>4. Behind(p, tier, who, rest)' = calls
      BY <3>0 DEF Behind
    <3>5. waiting' = calls
      BY <2>1, <3>0
    <3>6. QueueSound(calls)'
      BY <3>3, <3>4
    <3> QED  BY <3>5, <3>6
  <2>19. ReversalsOK'
    BY <1>0, <2>2, <2>16, RecordReversals
  <2>21. LateStep
    BY <1>0, <1>2, <2>14, QuietLate
  <2> QED  BY <1>0, <2>1, <2>13, <2>15, <2>16, <2>19, <2>21 DEF PanelInv
<1> QED  BY <1>1, <1>2

LEMMA NoneSound == QueueSound(<< >>)
BY DEF QueueSound

LEMMA TapApplyKeeps ==
  ASSUME PanelInv, NEW p \in Panel, TapApply(p), UNCHANGED <<tracking, answers, sweeps, reversals>>
  PROVE  PanelInv' /\ LateStep
<1>0. /\ ReviewTyped /\ AnswersTyped /\ ReversalsOK /\ PanelsSound /\ held \in BOOLEAN
      /\ QueueSound(waiting) /\ closed \subseteq Game /\ panel[p] # NoPanel
  BY OpenIsOpened DEF PanelInv, ReversalsOK, TapApply
<1>1. /\ panel[p].tier \in Tier /\ UNCHANGED <<closed, finals>>
      /\ IF LockFree THEN Apply(p, panel[p].tier, Live, << >>)
         ELSE Queue([kind |-> "apply", panel |-> p, tier |-> panel[p].tier, set |-> Live]) /\ UNCHANGED panel
  BY <1>0, SessionFields DEF TapApply
<1>2. PICK t \in Tier : t = panel[p].tier
  BY <1>1
<1>3. CASE LockFree
  <2>1. Apply(p, t, Live, << >>)
    BY <1>1, <1>2, <1>3
  <2> QED  BY <1>0, <1>1, <2>1, NoneSound, ApplyKeeps
<1>4. CASE ~LockFree
  <2>1. PICK c : c = [kind |-> "apply", panel |-> p, tier |-> t, set |-> Live]
    OBVIOUS
  <2>2. c \in Calls /\ c.kind = "apply" /\ c.panel = p /\ c.set = Live
    BY <2>1 DEF Calls
  <2>3. waiting' = Append(waiting, c) /\ UNCHANGED <<review, held, panel>>
    BY <1>1, <1>2, <1>4, <2>1 DEF Queue
  <2>4. ReviewTyped' /\ ReversalsOK' /\ ListsFinal /\ AnswersTyped'
    BY <1>0, <1>1, <2>3, TablesStay, AnswersStay
  <2>5. PanelsSound' /\ LateStep /\ \A calls : QueueSound(calls) => QueueSound(calls)'
    BY <1>0, <1>1, <2>3, <2>4, UntouchedPanels
  <2>6. CallSound(c)'
    BY <1>0, <2>2, <2>3 DEF CallSound
  <2>7. QueueSound(waiting)'
    BY <1>0, <2>2, <2>3, <2>5, <2>6, LongerQueue
  <2> QED  BY <1>0, <2>3, <2>4, <2>5, <2>7 DEF PanelInv
<1> QED  BY <1>3, <1>4

\* Attendance is closed once: the session is final, and no other Done waits.
LEMMA FinaliseKeeps ==
  ASSUME PanelInv, NEW p \in Panel, panel[p] # NoPanel, finals[p] = 0, NEW rest, QueueSound(rest),
         \A i \in 1..Len(rest) : rest[i].kind = "done" => rest[i].panel # p,
         Finalise(p, rest), UNCHANGED <<closed, tracking, answers, sweeps, reversals>>
  PROVE  PanelInv' /\ LateStep
<1> DEFINE n == [panel[p] EXCEPT !.open = FALSE, !.final = TRUE]
<1>0. /\ ReviewTyped /\ AnswersTyped /\ ReversalsOK /\ PanelsSound /\ held \in BOOLEAN
      /\ closed \subseteq Game /\ AnswersTyped' /\ count \in [Person -> Nat]
  BY AnswersStay DEF PanelInv, ReversalsOK, ReviewTyped
<1>1. /\ Write(panel[p].game, {}, Attended(panel[p].game, panel[p].ghosts), {panel[p].game})
      /\ panel' = [panel EXCEPT ![p] = n] /\ finals' = [finals EXCEPT ![p] = finals[p] + 1]
      /\ waiting' = rest /\ UNCHANGED held
  BY DEF Finalise
<1>2. panel[p] \in Sessions /\ panel[p].game \in Game /\ PanelSound(p)
  BY <1>0, SessionFields DEF PanelsSound
<1>3. /\ n \in Sessions /\ n.game = panel[p].game /\ n.applied = panel[p].applied
      /\ n.picked = panel[p].picked /\ n.failed = panel[p].failed /\ n.final
  BY <1>2 DEF Sessions
<1> HIDE DEF n
<1>6. /\ ReviewTyped' /\ RowsStay /\ UNCHANGED <<marks, unrecorded>>
      /\ \A u \in Person : /\ count'[u] <= count[u]
                           /\ u \notin Attended(panel[p].game, panel[p].ghosts) => count'[u] = count[u]
  <2>1. PICK g, nobody, others :
          g = panel[p].game /\ nobody = {} /\ others = Attended(panel[p].game, panel[p].ghosts)
    OBVIOUS
  <2>2. g \in Game /\ nobody \in SUBSET Candidates(g) /\ Write(g, nobody, others, {g})
    BY <1>1, <1>2, <2>1
  <2> QED  BY <1>0, <2>1, <2>2, WriteStep
<1>4. /\ game' \in [Game -> GameRow]
      /\ \A h \in Game : /\ game'[h].in = game[h].in /\ game'[h].out = game[h].out
                         /\ game'[h].ended = game[h].ended
  BY <1>6 DEF RowsStay
<1>5. ListsFinal
  BY <1>4 DEF ListsFinal, Candidates, InUsers, OutUsers
<1>7. count' \in [Person -> Nat]
  BY <1>6 DEF ReviewTyped
<1>8. ReversalsOK'
  BY <1>0, <1>6, <1>7, LowerReversals
<1>9. /\ panel' \in [Panel -> {NoPanel} \cup Sessions] /\ panel'[p] = n /\ n # NoPanel
      /\ \A q \in Panel : q # p => panel'[q] = panel[q]
  BY <1>0, <1>1, <1>3, Replaced
<1>10. finals' \in [Panel -> Nat] /\ finals'[p] = 1 /\ \A q \in Panel : q # p => finals'[q] = finals[q]
  BY <1>0, <1>1 DEF PanelsSound
<1>11. game[panel[p].game].ended
  BY <1>2 DEF PanelSound
<1>12. (Candidates(panel[p].game))' = Candidates(panel[p].game)
       /\ \A q \in Panel : panel[q] # NoPanel /\ q # p =>
            (Candidates(panel[q].game))' = Candidates(panel[q].game)
  <2>1. (Candidates(panel[p].game))' = Candidates(panel[p].game)
    BY <1>2, <1>3, <1>4, <1>9 DEF Candidates, InUsers, OutUsers
  <2>2. ASSUME NEW q \in Panel, panel[q] # NoPanel, q # p
        PROVE  (Candidates(panel[q].game))' = Candidates(panel[q].game)
    <3>1. panel[q].game \in Game /\ panel'[q] = panel[q]
      BY <1>0, <1>9, <2>2, SessionFields
    <3> QED  BY <1>4, <3>1 DEF Candidates, InUsers, OutUsers
  <2> QED  BY <2>1, <2>2
<1>13. PanelsSound'
  <2>1. PanelSound(p)'
    <3>1. game'[n.game].ended
      BY <1>2, <1>3, <1>4, <1>11
    <3> QED  BY <1>2, <1>3, <1>9, <1>10, <1>12, <3>1 DEF PanelSound, Separate
  <2>2. \A q \in Panel : PanelSound(q)'
    BY <1>0, <1>5, <1>9, <1>10, <2>1, OthersSound
  <2> QED  BY <1>9, <1>10, <2>2 DEF PanelsSound
<1>14. QueueSound(rest)'
  <2>1. ASSUME NEW c \in Calls, CallSound(c), c.kind = "done" => c.panel # p
        PROVE  CallSound(c)'
    <3>1. CASE c.kind \in {"apply", "done"} /\ c.panel = p
      <4>1. c.kind = "apply" => c.tier \in Tier
        BY CallFields
      <4> QED  BY <1>3, <1>9, <1>12, <2>1, <3>1, <4>1, CallStays
    <3>2. CASE c.kind \in {"apply", "done"} /\ c.panel # p
      <4>1. c.panel \in Panel /\ panel[c.panel] # NoPanel
        BY <2>1, <3>2, CallFields DEF CallSound
      <4>2. panel'[c.panel] = panel[c.panel] /\ finals'[c.panel] = finals[c.panel]
        BY <1>9, <1>10, <3>2, <4>1
      <4> QED  BY <1>12, <2>1, <3>2, <4>1, <4>2, CallStays DEF CallSound
    <3>3. CASE c.kind \notin {"apply", "done"}
      BY <3>3 DEF CallSound
    <3> QED  BY <3>1, <3>2, <3>3
  <2>2. \A i \in 1..Len(rest) : rest[i] \in Calls /\ CallSound(rest[i])
    BY DEF QueueSound
  <2>3. \A i \in 1..Len(rest) : CallSound(rest[i])'
    BY <2>1, <2>2
  <2> QED  BY <2>3, QueueStays
<1>15. LateStep
  <2>1. \A q \in Panel : finals[q] \in Nat
    BY <1>0 DEF PanelsSound
  <2>2. \A u \in panel[p].ghosts : count'[u] >= count[u]
    <3>1. \A u \in panel[p].ghosts : u \in Person
      BY <1>0, SessionFields
    <3>2. \A u \in panel[p].ghosts : count'[u] = count[u]
      BY <1>6, <3>1 DEF Attended
    <3> QED  BY <1>0, <3>1, <3>2
  <2>3. \A q \in Panel : q # p => ~(finals'[q] > finals[q])
    BY <1>10, <2>1
  <2>4. \A q \in Panel, t \in Tier : panel[q] # NoPanel => panel'[q].applied[t] = panel[q].applied[t]
    BY <1>3, <1>9
  <2> QED  BY <2>2, <2>3, <2>4 DEF LateStep
<1>16. waiting' = rest /\ held' \in BOOLEAN
  BY <1>0, <1>1
<1> QED  BY <1>0, <1>6, <1>8, <1>13, <1>14, <1>15, <1>16 DEF PanelInv

LEMMA TapDoneKeeps ==
  ASSUME PanelInv, NEW p \in Panel, TapDone(p), UNCHANGED <<tracking, answers, sweeps, reversals>>
  PROVE  PanelInv' /\ LateStep
<1>0. /\ PanelsSound /\ QueueSound(waiting) /\ held \in BOOLEAN /\ panel[p] # NoPanel /\ closed' = closed
      /\ \A i \in 1..Len(waiting) : CallSound(waiting[i])
  BY OpenIsOpened DEF PanelInv, TapDone, QueueSound
<1>1. panel[p] \in Sessions /\ PanelSound(p)
  BY <1>0, SessionFields DEF PanelsSound
<1>2. ASSUME ~panel[p].final, Finalise(p, << >>) PROVE PanelInv' /\ LateStep
  <2>1. finals[p] = 0
    BY <1>0, <1>1, <1>2 DEF PanelSound
  <2> QED  BY <1>0, <1>2, <2>1, NoneSound, FinaliseKeeps
<1>3. ASSUME ~panel[p].final, Queue([kind |-> "done", panel |-> p]), UNCHANGED finals,
             panel' = [panel EXCEPT ![p] = [@ EXCEPT !.final = TRUE]]
      PROVE  PanelInv' /\ LateStep
  <2> DEFINE n == [panel[p] EXCEPT !.final = TRUE]
  <2>1. PICK c : c = [kind |-> "done", panel |-> p]
    OBVIOUS
  <2>2. c \in Calls /\ c.kind = "done" /\ c.panel = p
    BY <2>1 DEF Calls
  <2>3. waiting' = Append(waiting, c) /\ UNCHANGED <<review, held, finals, closed>> /\ panel' = [panel EXCEPT ![p] = n]
    BY <1>0, <1>3, <2>1 DEF Queue
  <2>4. /\ n \in Sessions /\ n.game = panel[p].game /\ n.applied = panel[p].applied
        /\ n.picked = panel[p].picked /\ n.failed = panel[p].failed /\ n.final
    BY <1>1 DEF Sessions
  <2> HIDE DEF n
  <2>5. /\ ~n.failed => Separate(n)
        /\ \A u \in Tier : n.picked[u] \subseteq Candidates(n.game)
    BY <1>0, <1>1, <2>4 DEF PanelSound, Separate
  <2>6. /\ ReviewTyped' /\ AnswersTyped' /\ ReversalsOK' /\ PanelsSound' /\ LateStep
        /\ \A calls : QueueSound(calls) => QueueSound(calls)'
    BY <1>0, <2>3, <2>4, <2>5, PickKeeps
  <2>7. panel'[p] = n /\ n # NoPanel
    BY <1>0, <2>3, <2>4, Replaced
  <2>8. CallSound(c)'
    <3>1. finals'[p] = 0
      BY <1>0, <1>1, <1>3, <2>3 DEF PanelSound
    <3> QED  BY <2>2, <2>4, <2>7, <3>1 DEF CallSound
  <2>9. \A i \in 1..Len(waiting) : waiting[i].kind = "done" => waiting[i].panel # c.panel
    BY <1>0, <1>3, <2>2 DEF CallSound
  <2>10. QueueSound(waiting)'
    BY <1>0, <2>2, <2>3, <2>6, <2>8, <2>9, LongerQueue
  <2> QED  BY <1>0, <2>3, <2>6, <2>10 DEF PanelInv
<1>4. ASSUME UNCHANGED <<review, finals, locks>>, panel' = [panel EXCEPT ![p] = [@ EXCEPT !.open = FALSE]]
      PROVE  PanelInv' /\ LateStep
  <2> DEFINE n == [panel[p] EXCEPT !.open = FALSE]
  <2>3. UNCHANGED <<waiting, review, held, finals, closed>> /\ panel' = [panel EXCEPT ![p] = n]
    BY <1>0, <1>4 DEF locks
  <2>4. /\ n \in Sessions /\ n.game = panel[p].game /\ n.applied = panel[p].applied
        /\ n.picked = panel[p].picked /\ n.failed = panel[p].failed /\ n.final = panel[p].final
    BY <1>1 DEF Sessions
  <2> HIDE DEF n
  <2>5. /\ ~n.failed => Separate(n)
        /\ \A u \in Tier : n.picked[u] \subseteq Candidates(n.game)
    BY <1>0, <1>1, <2>4 DEF PanelSound, Separate
  <2>6. /\ ReviewTyped' /\ AnswersTyped' /\ ReversalsOK' /\ PanelsSound' /\ LateStep
        /\ \A calls : QueueSound(calls) => QueueSound(calls)'
    BY <1>0, <2>3, <2>4, <2>5, PickKeeps
  <2>7. QueueSound(waiting)'
    BY <1>0, <2>3, <2>6, SameQueue
  <2> QED  BY <1>0, <2>3, <2>6, <2>7 DEF PanelInv
<1> QED  BY <1>2, <1>3, <1>4 DEF TapDone
-----------------------------------------------------------------------------
(* The web page, the settlement, the lock and the starts.                  *)

\* A step that leaves the panels alone.
LEMMA PanelsAlone ==
  ASSUME PanelInv, ReviewTyped', AnswersTyped', ReversalsOK', ListsFinal, UNCHANGED <<panel, finals>>,
         held' \in BOOLEAN, UNCHANGED waiting
  PROVE  PanelInv' /\ LateStep
<1>1. PanelsSound /\ QueueSound(waiting)
  BY DEF PanelInv
<1>2. PanelsSound' /\ LateStep /\ \A calls : QueueSound(calls) => QueueSound(calls)'
  BY <1>1, UntouchedPanels
<1>3. QueueSound(waiting)'
  BY <1>1, <1>2, SameQueue
<1> QED  BY <1>2, <1>3 DEF PanelInv

LEMMA NobodyKeeps ==
  ASSUME PanelInv, NEW g \in Game, NobodyToMark(g), UNCHANGED <<tracking, answers, sweeps, reversals>>
  PROVE  PanelInv' /\ LateStep
<1>0. ReviewTyped /\ AnswersTyped /\ ReversalsOK /\ closed \subseteq Game /\ held \in BOOLEAN
  BY DEF PanelInv, ReversalsOK
<1>1. /\ MarkAbsentDone({g})
      /\ UNCHANGED <<count, marks, unrecorded, lapses, closed, panel, finals, held, waiting>>
  BY DEF NobodyToMark, panels, locks, tallies
<1>2. RowsStay
  BY <1>0, <1>1, DoneRow
<1>3. count' \in [Person -> Nat] /\ \A u \in Person : count'[u] <= count[u]
  BY <1>0, <1>1 DEF ReviewTyped
<1>4. ListsFinal
  BY <1>2 DEF RowsStay, ListsFinal, Candidates, InUsers, OutUsers
<1>5. ReviewTyped'
  BY <1>0, <1>1, <1>2, <1>3, ListsStay DEF ReviewTyped
<1>6. ReversalsOK' /\ AnswersTyped'
  BY <1>0, <1>1, <1>3, LowerReversals, AnswersStay
<1> QED  BY <1>0, <1>1, <1>4, <1>5, <1>6, PanelsAlone

\* A review by the page, as far as it gets.
LEMMA SessionReviewed ==
  ASSUME ReviewTyped, ReversalsOK, NEW g \in Game, NEW selected, ReviewSession(g, selected),
         UNCHANGED <<closed, reversals>>
  PROVE  ReviewTyped' /\ ReversalsOK' /\ ListsFinal
<1> DEFINE who == selected \cap Candidates(g)
<1>1. Write(g, who, Attended(g, who), {g}) /\ who \in SUBSET Candidates(g)
  BY DEF ReviewSession
<1> HIDE DEF who
<1>2. PICK rose, noted : Noting(g, rose, noted)
  BY <1>1, WriteStep
<1>3. ReviewTyped' /\ RowsStay
  BY <1>1, WriteStep
<1>4. ListsFinal
  BY <1>3 DEF RowsStay, ListsFinal, Candidates, InUsers, OutUsers
<1>5. ReversalsOK'
  BY <1>2, RecordReversals
<1> QED  BY <1>3, <1>4, <1>5

LEMMA WebKeeps ==
  ASSUME PanelInv, NEW g \in Game, NEW selected \in SUBSET Person, WebReviewWaits(g, selected),
         UNCHANGED <<tracking, answers, sweeps, reversals>>
  PROVE  PanelInv' /\ LateStep
<1>0. /\ ReviewTyped /\ AnswersTyped /\ ReversalsOK /\ PanelsSound /\ QueueSound(waiting)
      /\ held \in BOOLEAN /\ closed \subseteq Game /\ AnswersTyped'
  BY AnswersStay DEF PanelInv, ReversalsOK
<1>1. /\ UNCHANGED <<closed, panel, finals>>
      /\ IF LockFree THEN ReviewSession(g, selected) /\ UNCHANGED locks
         ELSE Queue([kind |-> "web", game |-> g, set |-> selected])
  BY DEF WebReviewWaits, panels
<1>2. CASE LockFree
  <2>1. ReviewTyped' /\ ReversalsOK' /\ ListsFinal /\ UNCHANGED <<held, waiting>>
    BY <1>0, <1>1, <1>2, SessionReviewed DEF locks
  <2> QED  BY <1>0, <1>1, <2>1, PanelsAlone
<1>3. CASE ~LockFree
  <2>1. PICK c : c = [kind |-> "web", game |-> g, set |-> selected]
    OBVIOUS
  <2>2. c \in Calls /\ c.kind = "web"
    BY <2>1 DEF Calls
  <2>3. waiting' = Append(waiting, c) /\ UNCHANGED <<review, held>>
    BY <1>1, <1>3, <2>1 DEF Queue
  <2>4. ReviewTyped' /\ ReversalsOK' /\ ListsFinal
    BY <1>0, <1>1, <2>3, TablesStay
  <2>5. PanelsSound' /\ LateStep /\ \A calls : QueueSound(calls) => QueueSound(calls)'
    BY <1>0, <1>1, <2>4, UntouchedPanels
  <2>6. CallSound(c)'
    BY <2>2 DEF CallSound
  <2>7. QueueSound(waiting)'
    BY <1>0, <2>2, <2>3, <2>5, <2>6, LongerQueue
  <2> QED  BY <1>0, <2>3, <2>4, <2>5, <2>7 DEF PanelInv
<1> QED  BY <1>2, <1>3

LEMMA SettleKeeps ==
  ASSUME PanelInv, NEW g \in Game, SettleGame(g), UNCHANGED <<tracking, answers, sweeps, reversals>>
  PROVE  PanelInv' /\ LateStep
<1>0. /\ ReviewTyped /\ AnswersTyped /\ ReversalsOK /\ PanelsSound /\ QueueSound(waiting)
      /\ held \in BOOLEAN /\ closed \subseteq Game /\ AnswersTyped'
  BY AnswersStay DEF PanelInv, ReversalsOK
<1>1. /\ UNCHANGED <<review, held, panel, finals>> /\ closed' \subseteq Game
      /\ \/ UNCHANGED waiting
         \/ waiting' = Append(waiting, [kind |-> "settle", game |-> g])
  BY <1>0 DEF SettleGame, Settle, Queue, panels, locks
<1>2. ReviewTyped' /\ ReversalsOK' /\ ListsFinal
  BY <1>0, <1>1, TablesStay
<1>3. PanelsSound' /\ LateStep /\ \A calls : QueueSound(calls) => QueueSound(calls)'
  BY <1>0, <1>1, <1>2, UntouchedPanels
<1>4. QueueSound(waiting)'
  <2>1. CASE UNCHANGED waiting
    BY <1>0, <1>3, <2>1, SameQueue
  <2>2. CASE waiting' = Append(waiting, [kind |-> "settle", game |-> g])
    <3>1. PICK c : c = [kind |-> "settle", game |-> g]
      OBVIOUS
    <3>2. c \in Calls /\ c.kind = "settle" /\ waiting' = Append(waiting, c)
      BY <2>2, <3>1 DEF Calls
    <3>3. CallSound(c)'
      BY <3>2 DEF CallSound
    <3> QED  BY <1>0, <1>3, <3>2, <3>3, LongerQueue
  <2> QED  BY <1>1, <2>1, <2>2
<1> QED  BY <1>0, <1>1, <1>2, <1>3, <1>4 DEF PanelInv

\* The lock goes to the call that waited longest.
LEMMA ResumeKeeps ==
  ASSUME PanelInv, Resume, UNCHANGED <<tracking, answers, sweeps, reversals>>
  PROVE  PanelInv' /\ LateStep
<1>0. /\ ReviewTyped /\ AnswersTyped /\ ReversalsOK /\ PanelsSound /\ QueueSound(waiting)
      /\ held \in BOOLEAN /\ closed \subseteq Game /\ AnswersTyped' /\ waiting # << >>
  BY AnswersStay DEF PanelInv, ReversalsOK, Resume
<1>1. PICK call, rest : call = Head(waiting) /\ rest = Tail(waiting)
  OBVIOUS
<1>2. /\ call \in Calls /\ CallSound(call) /\ QueueSound(rest)
      /\ \A i \in 1..Len(rest) : call.kind = "done" /\ rest[i].kind = "done" => rest[i].panel # call.panel
  BY <1>0, <1>1, TailSound
<1>3. \/ call.kind = "apply" /\ Apply(call.panel, call.tier, call.set, rest) /\ UNCHANGED <<closed, finals>>
      \/ call.kind = "done" /\ Finalise(call.panel, rest) /\ UNCHANGED closed
      \/ /\ call.kind = "web" /\ ReviewSession(call.game, call.set)
         /\ waiting' = rest /\ UNCHANGED <<closed, panel, finals, held>>
      \/ /\ call.kind = "settle" /\ Settle(call.game)
         /\ waiting' = rest /\ UNCHANGED <<review, panel, finals, held>>
  BY <1>1 DEF Resume, panels
<1>4. CASE call.kind = "apply" /\ Apply(call.panel, call.tier, call.set, rest) /\ UNCHANGED <<closed, finals>>
  <2>1. /\ call.panel \in Panel /\ call.tier \in Tier /\ call.set \in {Live} \cup SUBSET Person
        /\ panel[call.panel] # NoPanel
        /\ call.set # Live => /\ call.set \subseteq Candidates(panel[call.panel].game)
                              /\ ~panel[call.panel].failed => call.set \subseteq panel[call.panel].applied[call.tier]
    BY <1>2, <1>4, CallFields DEF CallSound
  <2>2. PICK p \in Panel, t \in Tier, set \in {Live} \cup SUBSET Person :
          p = call.panel /\ t = call.tier /\ set = call.set
    BY <2>1
  <2>3. /\ panel[p] # NoPanel /\ Apply(p, t, set, rest)
        /\ set # Live => /\ set \subseteq Candidates(panel[p].game)
                         /\ ~panel[p].failed => set \subseteq panel[p].applied[t]
    BY <1>4, <2>1, <2>2
  <2> QED  BY <1>2, <1>4, <2>3, ApplyKeeps
<1>5. CASE call.kind = "done" /\ Finalise(call.panel, rest) /\ UNCHANGED closed
  <2>1. call.panel \in Panel /\ panel[call.panel] # NoPanel /\ finals[call.panel] = 0
    BY <1>2, <1>5, CallFields DEF CallSound
  <2> QED  BY <1>2, <1>5, <2>1, FinaliseKeeps
<1>6. ASSUME ReviewTyped', ReversalsOK', ListsFinal, waiting' = rest, UNCHANGED <<panel, finals, held>>
      PROVE  PanelInv' /\ LateStep
  <2>1. PanelsSound' /\ LateStep /\ QueueSound(rest)'
    BY <1>0, <1>2, <1>6, UntouchedPanels
  <2> QED  BY <1>0, <1>6, <2>1 DEF PanelInv
<1>7. CASE /\ call.kind = "web" /\ ReviewSession(call.game, call.set)
           /\ waiting' = rest /\ UNCHANGED <<closed, panel, finals, held>>
  <2>1. call.game \in Game
    BY <1>2, <1>7, CallFields
  <2>2. ReviewTyped' /\ ReversalsOK' /\ ListsFinal
    BY <1>0, <1>7, <2>1, SessionReviewed
  <2> QED  BY <1>6, <1>7, <2>2
<1>8. CASE /\ call.kind = "settle" /\ Settle(call.game)
           /\ waiting' = rest /\ UNCHANGED <<review, panel, finals, held>>
  <2>1. closed' \subseteq Game
    BY <1>0, <1>2, <1>8, CallFields DEF Settle
  <2>2. ReviewTyped' /\ ReversalsOK' /\ ListsFinal
    BY <1>0, <1>8, <2>1, TablesStay
  <2> QED  BY <1>6, <1>8, <2>2
<1> QED  BY <1>3, <1>4, <1>5, <1>7, <1>8

LEMMA RefusalKeeps ==
  ASSUME PanelInv, Refuse \/ Refused, UNCHANGED <<tracking, answers, sweeps, reversals>>
  PROVE  PanelInv' /\ LateStep
<1>0. ReviewTyped /\ AnswersTyped /\ ReversalsOK /\ closed \subseteq Game
  BY DEF PanelInv, ReversalsOK
<1>1. UNCHANGED <<review, closed, panel, finals, waiting>> /\ held' \in BOOLEAN
  BY DEF Refuse, Refused, panels
<1>2. ReviewTyped' /\ ReversalsOK' /\ ListsFinal /\ AnswersTyped'
  BY <1>0, <1>1, TablesStay, AnswersStay
<1> QED  BY <1>1, <1>2, PanelsAlone

\* After a start no panel is open and no call waits.
LEMMA StartKeeps ==
  ASSUME PanelInv, PanelRestart, UNCHANGED <<tracking, answers, sweeps>>
  PROVE  PanelInv' /\ LateStep
<1>0. /\ ReviewTyped /\ AnswersTyped /\ ReversalsOK /\ PanelsSound
      /\ closed \subseteq Game /\ AnswersTyped'
  BY AnswersStay DEF PanelInv, ReversalsOK
<1>1. /\ ReverseCancelled \/ UNCHANGED <<count, claimed, given>>
      /\ panel' = [p \in Panel |-> NoPanel] /\ finals' = [p \in Panel |-> 0]
      /\ held' = FALSE /\ waiting' = << >> /\ UNCHANGED <<marks, unrecorded, game, lapses, closed>>
  BY DEF PanelRestart
<1>2. ReviewTyped' /\ ReversalsOK'
  <2>1. CASE ReverseCancelled
    BY <1>0, <1>1, <2>1, ReverseKeeps
  <2>2. CASE UNCHANGED <<count, claimed, given>>
    BY <1>0, <1>1, <2>2, TablesStay DEF review, tallies, reversals
  <2> QED  BY <1>1, <2>1, <2>2
<1>3. PanelsSound'
  BY <1>1 DEF PanelsSound, PanelSound
<1>4. QueueSound(waiting)'
  BY <1>1 DEF QueueSound
<1>5. LateStep
  <2>1. \A p \in Panel : finals[p] \in Nat /\ finals'[p] = 0 /\ panel'[p] = NoPanel
    BY <1>0, <1>1 DEF PanelsSound
  <2> QED  BY <2>1 DEF LateStep
<1>6. held' \in BOOLEAN
  BY <1>1
<1> QED  BY <1>0, <1>2, <1>3, <1>4, <1>5, <1>6 DEF PanelInv

LEMMA EndingKeeps ==
  ASSUME PanelInv, NEW g \in Game, NEW l \in Lineups, End(g, l[1], l[2]),
         UNCHANGED <<tracking, sweeps, closed, panels, locks, reversals>>
  PROVE  PanelInv' /\ LateStep
<1>0. ReviewTyped /\ AnswersTyped /\ ReversalsOK /\ held \in BOOLEAN /\ closed \subseteq Game
  BY DEF PanelInv, ReversalsOK
<1>1. UNCHANGED <<tracking, swept, forgave, broken, closed, panel, finals, held, waiting, reversals>>
  BY DEF sweeps, panels, locks
<1>2. /\ ReviewTyped' /\ UNCHANGED <<count, marks, unrecorded>>
      /\ \A h \in Game : game[h].ended => game'[h] = game[h]
      /\ listed' = listed /\ chosen' = chosen /\ saved' = saved /\ prompts' \subseteq prompts \cup {g}
  BY <1>0, EndKeeps
<1>3. ListsFinal
  BY <1>2 DEF ListsFinal, Candidates, InUsers, OutUsers
<1>4. AnswersTyped'
  BY <1>0, <1>1, <1>2 DEF AnswersTyped
<1>5. count' \in [Person -> Nat] /\ \A p \in Person : count'[p] <= count[p]
  BY <1>0, <1>2 DEF ReviewTyped
<1>6. ReversalsOK'
  BY <1>0, <1>1, <1>2, <1>5, LowerReversals
<1> QED  BY <1>0, <1>1, <1>2, <1>3, <1>4, <1>6, PanelsAlone

LEMMA IdleKeeps ==
  ASSUME PanelInv, UNCHANGED <<review, answers, sweeps, closed, panels, locks, reversals>>,
         tracking' \in BOOLEAN
  PROVE  PanelInv' /\ LateStep
<1>0. ReviewTyped /\ AnswersTyped /\ ReversalsOK /\ held \in BOOLEAN /\ closed \subseteq Game
  BY DEF PanelInv, ReversalsOK
<1>1. UNCHANGED <<panel, finals, held, waiting>>
  BY DEF panels, locks
<1>2. ReviewTyped' /\ ReversalsOK' /\ ListsFinal
  BY <1>0, TablesStay
<1>3. AnswersTyped'
  BY <1>0 DEF AnswersTyped, answers, sweeps
<1> QED  BY <1>0, <1>1, <1>2, <1>3, PanelsAlone

LEMMA PanelInitInv == PanelInit => PanelInv
<1> SUFFICES ASSUME PanelInit PROVE PanelInv
  OBVIOUS
<1>1. /\ Init /\ closed = {} /\ panel = [p \in Panel |-> NoPanel] /\ finals = [p \in Panel |-> 0]
      /\ held = FALSE /\ waiting = << >> /\ claimed = marks /\ given = marks
  BY DEF PanelInit
<1>2. Inv
  BY <1>1, InitInv
<1>3. /\ count = [p \in Person |-> 0] /\ marks = [g \in Game |-> [p \in Person |-> 0]]
      /\ unrecorded = [p \in Person |-> 0]
  BY <1>1 DEF Init
<1>4. ReversalsOK
  <2>1. claimed \in [Game -> [Person -> Nat]]
    BY <1>1, <1>3
  <2>2. \A g \in Game, p \in Person : marks[g][p] = 0 /\ claimed[g][p] = 0
    BY <1>1, <1>3
  <2>3. \A g \in Game, p \in Person : claimed[g][p] <= marks[g][p]
    BY <2>2
  <2>4. ASSUME NEW p \in Person PROVE count[p] <= Against(Net, p) + unrecorded[p]
    <3> DEFINE f == [g \in Game |-> Net[g][p]]
    <3>1. \A g \in Game : Net[g][p] = 0
      <4>1. \A g \in Game : Net[g][p] = marks[g][p] - claimed[g][p]
        BY DEF Net
      <4> QED  BY <2>2, <4>1
    <3>2. f \in [Game -> Int] /\ \A g \in Game : f[g] = 0
      BY <3>1
    <3> HIDE DEF f
    <3>3. SumFunction(f) = 0
      BY <3>2, SumOfZeros, GhostAssumption
    <3>4. count[p] = 0 /\ unrecorded[p] = 0
      BY <1>3
    <3> QED  BY <3>3, <3>4 DEF Against, f
  <2> QED  BY <1>1, <2>1, <2>3, <2>4 DEF ReversalsOK
<1>5. PanelsSound
  BY <1>1 DEF PanelsSound, PanelSound
<1>6. QueueSound(waiting) /\ held \in BOOLEAN
  BY <1>1, NoneSound
<1> QED  BY <1>2, <1>4, <1>5, <1>6 DEF PanelInv, Inv

LEMMA PanelNextKeeps == PanelInv /\ [PanelNext]_pvars => PanelInv' /\ LateStep
<1> SUFFICES ASSUME PanelInv, [PanelNext]_pvars PROVE PanelInv' /\ LateStep
  OBVIOUS
<1>1. CASE Penalising /\ UNCHANGED <<tracking, answers, sweeps, reversals>>
  BY <1>1, OpenKeeps, NobodyKeeps, SelectKeeps, ToggleKeeps, TapApplyKeeps, TapDoneKeeps
     DEF Penalising, BackToTiers
<1>2. CASE Waiting /\ UNCHANGED <<tracking, answers, sweeps, reversals>>
  BY <1>2, WebKeeps, SettleKeeps, ResumeKeeps, RefusalKeeps DEF Waiting
<1>3. CASE PanelRestart /\ UNCHANGED <<tracking, answers, sweeps>>
  BY <1>3, StartKeeps
<1>4. CASE /\ \E g \in Game, l \in Lineups : End(g, l[1], l[2])
           /\ UNCHANGED <<tracking, sweeps, closed, panels, locks, reversals>>
  BY <1>4, EndingKeeps
<1>5. CASE ToggleTracking /\ UNCHANGED <<sweeps, closed, panels, locks, reversals>>
  <2>1. UNCHANGED <<review, answers>> /\ tracking' = ~tracking
    BY <1>5 DEF ToggleTracking
  <2>2. tracking' \in BOOLEAN
    BY <2>1
  <2> QED  BY <1>5, <2>1, <2>2, IdleKeeps
<1>6. CASE UNCHANGED pvars
  <2>1. tracking \in BOOLEAN
    BY DEF PanelInv, AnswersTyped
  <2> QED  BY <1>6, <2>1, IdleKeeps DEF pvars, vars
<1> QED  BY <1>1, <1>2, <1>3, <1>4, <1>5, <1>6 DEF PanelNext

(* Whatever two admins tap while calls wait for the chat's lock            *)
(* (handlers/penalty_panel.py): a player is picked and charged in one tier *)
(* as long as no charge failed, Done closes the attendance of a panel      *)
(* once, and a start takes back no recorded absence twice (db.py           *)
(* reverse_ghosts_on_cancelled_rollcalls), whichever writes failed and for *)
(* any number of panels, games, players, tiers and waiting calls.          *)
THEOREM OneTierOneClosing == PanelSpec => []PenaltiesOK
<1>1. PanelInv => PenaltiesOK
  <2> SUFFICES ASSUME PanelInv PROVE PenaltiesOK
    OBVIOUS
  <2>0. /\ ReviewTyped /\ AnswersTyped /\ ReversalsOK /\ PanelsSound /\ QueueSound(waiting) /\ held \in BOOLEAN
    BY DEF PanelInv
  <2>1. PanelTypeOK
    <3>1. GhostTypeOK
      BY <2>0 DEF ReviewTyped, AnswersTyped, GameRow, GhostTypeOK
    <3>2. \A p \in Panel : panel[p] # NoPanel =>
            UNION {panel[p].applied[t] : t \in Tier} \subseteq Candidates(panel[p].game)
      BY <2>0 DEF PanelsSound, PanelSound
    <3>3. \A i \in DOMAIN waiting : waiting[i] \in Calls
      BY <2>0 DEF QueueSound
    <3> QED  BY <2>0, <3>1, <3>2, <3>3 DEF PanelTypeOK, ReversalsOK, PanelsSound
  <2>2. ReversedOnce
    <3>1. \A p \in Person : Against(Net, p) = SumFunction([g \in Game |-> marks[g][p] - claimed[g][p]])
      <4> SUFFICES ASSUME NEW p \in Person
                   PROVE  Against(Net, p) = SumFunction([g \in Game |-> marks[g][p] - claimed[g][p]])
        OBVIOUS
      <4>1. [g \in Game |-> Net[g][p]] = [g \in Game |-> marks[g][p] - claimed[g][p]]
        BY DEF Net
      <4> QED  BY <4>1 DEF Against
    <3> QED  BY <2>0, <3>1 DEF ReversedOnce, ReversalsOK
  <2>3. OneTierEach
    BY <2>0 DEF OneTierEach, PanelsSound, PanelSound, Separate
  <2>4. PanelFinalOnce
    <3>1. \A p \in Panel : finals[p] \in {0, 1}
      BY <2>0 DEF PanelsSound, PanelSound
    <3> QED  BY <3>1 DEF PanelFinalOnce
  <2> QED  BY <2>1, <2>2, <2>3, <2>4 DEF PenaltiesOK
<1> QED  BY <1>1, PanelInitInv, PanelNextKeeps, PTL DEF PanelSpec

(* A tap that waited does not act on what it saw before its wait: nobody   *)
(* is charged in a game that was settled meanwhile, and Done forgives      *)
(* nobody the panel itself recorded as a no-show.                          *)
THEOREM LateTapsSafe == PanelSpec => LateTapsAreSafe
<1>1. PanelInv /\ [PanelNext]_pvars =>
        /\ [\A p \in Panel : panel[p] # NoPanel /\ panel'[p] # NoPanel /\ finals'[p] >= finals[p] =>
              \A t \in Tier : panel'[p].applied[t] \subseteq panel[p].applied[t]
                              \/ panel[p].game \notin closed]_pvars
        /\ [\A p \in Panel : finals'[p] > finals[p] =>
              \A u \in panel[p].ghosts : count'[u] >= count[u]]_pvars
  BY PanelNextKeeps DEF LateStep
<1> QED  BY <1>1, PanelInitInv, PanelNextKeeps, PTL
         DEF PanelSpec, LateTapsAreSafe, NoChargeAfterClose, SparesItsGhosts

(***************************************************************************)
(* The list of open rollcalls, its rows and its counters.                  *)
(***************************************************************************)
\* Rows are created in the order of their ids.
CreatedInOrder == \A q, r \in Ids : q < r /\ status[r] # "none" => status[q] # "none"

\* A mark on a rollcall that is not ended is left by a broken cancellation.
MarksExplained == \A r \in cancelled \ cut : status[r] = "ended"

\* The inductive invariant.
RegistryInv == /\ RegistryTypeOK
               /\ ListIsTheActiveRows
               /\ CountedOnce
               /\ CreatedInOrder
               /\ MarksExplained

-----------------------------------------------------------------------------
\* A list ordered by age holds nothing twice.
LEMMA OrderedIsInjective ==
  ASSUME NEW s \in Seq(Ids), OldestFirst(s)
  PROVE  IsInjective(s)
<1>1. \A i \in 1 .. Len(s) : s[i] \in Ids
  BY ElementOfSeq
<1>2. \A i, j \in 1 .. Len(s) : s[i] = s[j] => i = j
  <2> SUFFICES ASSUME NEW i \in 1 .. Len(s), NEW j \in 1 .. Len(s), s[i] = s[j], i # j
               PROVE  FALSE
    OBVIOUS
  <2>1. s[i] \in Int /\ s[j] \in Int
    BY <1>1 DEF Ids
  <2>2. i < j \/ j < i
    OBVIOUS
  <2> QED  BY <2>1, <2>2 DEF OldestFirst
<1> QED  BY <1>2, InjectiveElements

\* Taking one rollcall out of the list keeps the order of the others.
LEMMA RemovalKeepsOrder ==
  ASSUME NEW s \in Seq(Ids), OldestFirst(s), NEW r
  PROVE  /\ RemoveFirst(s, r) \in Seq(Ids)
         /\ ToSet(RemoveFirst(s, r)) = ToSet(s) \ {r}
         /\ OldestFirst(RemoveFirst(s, r))
<1>1. IsInjective(s)
  BY OrderedIsInjective
<1>2. CASE r \notin ToSet(s)
  BY <1>2, RemoveFirstAbsent
<1>3. CASE r \in ToSet(s)
  <2>1. PICK k \in 1 .. Len(s) : s[k] = r
    BY <1>3, ToSetElements
  <2>2. RemoveFirst(s, r) = RemoveAt(s, k)
    BY <1>1, <2>1, RemoveFirstPresent
  <2>3. /\ Len(RemoveAt(s, k)) = Len(s) - 1
        /\ \A i \in 1 .. (Len(s) - 1) :
             RemoveAt(s, k)[i] = IF i < k THEN s[i] ELSE s[i + 1]
    BY RemoveAtElements
  <2>4. OldestFirst(RemoveAt(s, k))
    <3> SUFFICES ASSUME NEW i \in 1 .. (Len(s) - 1), NEW j \in 1 .. (Len(s) - 1), i < j
                 PROVE  RemoveAt(s, k)[i] < RemoveAt(s, k)[j]
      BY <2>3 DEF OldestFirst
    <3>1. /\ i \in 1 .. Len(s) /\ i + 1 \in 1 .. Len(s)
          /\ j \in 1 .. Len(s) /\ j + 1 \in 1 .. Len(s)
      OBVIOUS
    <3> QED  BY <3>1, <2>3 DEF OldestFirst
  <2> QED  BY <1>1, <2>2, <2>4, RemoveFirstFacts
<1> QED  BY <1>2, <1>3

\* A rollcall younger than those listed goes behind them.
LEMMA AdditionKeepsOrder ==
  ASSUME NEW s \in Seq(Ids), OldestFirst(s), NEW r \in Ids, \A q \in ToSet(s) : q < r
  PROVE  /\ Append(s, r) \in Seq(Ids)
         /\ ToSet(Append(s, r)) = ToSet(s) \cup {r}
         /\ OldestFirst(Append(s, r))
<1>1. IsInjective(s) /\ r \notin ToSet(s)
  BY OrderedIsInjective DEF Ids
<1>2. /\ Len(Append(s, r)) = Len(s) + 1 /\ Append(s, r)[Len(s) + 1] = r
      /\ \A i \in 1 .. Len(s) : Append(s, r)[i] = s[i]
  BY AppendProperties
<1>3. OldestFirst(Append(s, r))
  <2> SUFFICES ASSUME NEW i \in 1 .. (Len(s) + 1), NEW j \in 1 .. (Len(s) + 1), i < j
               PROVE  Append(s, r)[i] < Append(s, r)[j]
    BY <1>2 DEF OldestFirst
  <2>1. i \in 1 .. Len(s) /\ s[i] \in ToSet(s)
    BY ToSetElements
  <2>2. CASE j = Len(s) + 1
    BY <1>2, <2>1, <2>2
  <2>3. CASE j \in 1 .. Len(s)
    BY <1>2, <2>1, <2>3 DEF OldestFirst
  <2> QED  BY <2>2, <2>3
<1> QED  BY <1>1, <1>3, AppendFacts

-----------------------------------------------------------------------------
LEMMA InitOK == RegistryInit => RegistryInv
<1> SUFFICES ASSUME RegistryInit PROVE RegistryInv
  OBVIOUS
<1> USE RegistryAssumption DEF RegistryInit
<1>1. ToSet(<<>>) = {} /\ <<>> \in Seq(Ids) /\ OldestFirst(<<>>)
  BY DEF ToSet, OldestFirst
<1>2. RegistryTypeOK
  BY <1>1 DEF RegistryTypeOK
<1>3. ListIsTheActiveRows
  BY <1>1 DEF ListIsTheActiveRows, OnList, Active
<1> QED  BY <1>2, <1>3 DEF RegistryInv, CountedOnce, CreatedInOrder, MarksExplained

\* A rollcall joins the list.
LEMMA AddOK ==
  ASSUME RegistryInv, NEW r \in Ids, AddRollCall(r), mishaps' \in Nat
  PROVE  RegistryInv'
<1> USE DEF RegistryInv
<1>1. status \in [Ids -> {"none", "active", "ended"}] /\ list \in Seq(Ids)
  BY DEF RegistryTypeOK
<1>2. \A q \in ToSet(list) : q \in Ids /\ status[q] = "active"
  BY DEF ListIsTheActiveRows, OnList, Active
<1>3. \A q \in ToSet(list) : q < r
  BY <1>2 DEF CreatedInOrder, AddRollCall, Ids
<1>4. /\ list' \in Seq(Ids) /\ ToSet(list') = ToSet(list) \cup {r} /\ OldestFirst(list')
  BY <1>1, <1>3, AdditionKeepsOrder DEF AddRollCall, ListIsTheActiveRows
<1>5. /\ status' \in [Ids -> {"none", "active", "ended"}] /\ status'[r] = "active"
      /\ \A q \in Ids : q # r => status'[q] = status[q]
      /\ status[r] = "none"
  BY <1>1 DEF AddRollCall
<1>6. RegistryTypeOK'
  BY <1>4, <1>5 DEF RegistryTypeOK, AddRollCall
<1>7. ListIsTheActiveRows'
  BY <1>4, <1>5 DEF ListIsTheActiveRows, OnList, Active
<1>8. CountedOnce'
  BY <1>5 DEF CountedOnce, AddRollCall
<1>9. CreatedInOrder'
  BY <1>5 DEF CreatedInOrder, AddRollCall, Ids
<1>10. MarksExplained'
  BY <1>5 DEF MarksExplained, AddRollCall, RegistryTypeOK
<1> QED  BY <1>6, <1>7, <1>8, <1>9, <1>10

\* What the end or cancellation of a rollcall does to rows and list.
LEMMA RemoveFacts ==
  ASSUME RegistryInv, NEW r \in OnList, RemoveRollCall(r)
  PROVE  /\ r \in Ids /\ status[r] = "active"
         /\ status' \in [Ids -> {"none", "active", "ended"}] /\ status'[r] = "ended"
         /\ \A q \in Ids : q # r => status'[q] = status[q]
         /\ list' \in Seq(Ids) /\ ListIsTheActiveRows' /\ CreatedInOrder'
<1> USE DEF RegistryInv
<1>1. status \in [Ids -> {"none", "active", "ended"}] /\ list \in Seq(Ids)
  BY DEF RegistryTypeOK
<1>2. r \in Ids /\ status[r] = "active"
  BY DEF ListIsTheActiveRows, Active
<1>3. /\ status' \in [Ids -> {"none", "active", "ended"}] /\ status'[r] = "ended"
      /\ \A q \in Ids : q # r => status'[q] = status[q]
  BY <1>1, <1>2 DEF RemoveRollCall
<1>4. /\ list' \in Seq(Ids) /\ ToSet(list') = ToSet(list) \ {r} /\ OldestFirst(list')
  BY <1>1, RemovalKeepsOrder DEF RemoveRollCall, ListIsTheActiveRows
<1>5. ListIsTheActiveRows'
  BY <1>3, <1>4 DEF ListIsTheActiveRows, OnList, Active
<1>6. CreatedInOrder'
  BY <1>2, <1>3 DEF CreatedInOrder
<1> QED  BY <1>2, <1>3, <1>4, <1>5, <1>6

LEMMA EndOK ==
  ASSUME RegistryInv, NEW r \in OnList, EndRollCall(r),
         taps' \subseteq taps, UNCHANGED reasonFor
  PROVE  RegistryInv'
<1> USE DEF RegistryInv
<1>1. counted \in [Ids -> Nat] /\ r \in Ids /\ status[r] = "active"
  BY DEF RegistryTypeOK, ListIsTheActiveRows, Active
<1>2. /\ counted' \in [Ids -> Nat] /\ counted'[r] = counted[r] + 1
      /\ \A q \in Ids : q # r => counted'[q] = counted[q]
  BY <1>1 DEF EndRollCall, CountIn
<1>3. CASE RemoveRollCall(r) /\ UNCHANGED <<cancelled, cut, mishaps>>
  <2>1. RegistryTypeOK'
    BY <1>2, <1>3, RemoveFacts DEF RegistryTypeOK
  <2>2. MarksExplained'
    BY <1>3, RemoveFacts DEF MarksExplained, RegistryTypeOK
  <2>3. r \notin cut => r \notin cancelled /\ counted[r] = 0
    BY <1>1 DEF MarksExplained, CountedOnce
  <2>4. CountedOnce'
    BY <1>2, <1>3, <2>3, RemoveFacts DEF CountedOnce
  <2> QED  BY <1>3, <2>1, <2>2, <2>4, RemoveFacts
<1>4. CASE Fails /\ cut' = cut \cup {r} /\ UNCHANGED <<status, list, cancelled>>
  <2>1. RegistryTypeOK'
    BY <1>1, <1>2, <1>4 DEF RegistryTypeOK, Fails
  <2>2. ListIsTheActiveRows' /\ CreatedInOrder' /\ MarksExplained'
    BY <1>4 DEF ListIsTheActiveRows, OnList, Active, CreatedInOrder, MarksExplained
  <2>3. CountedOnce'
    BY <1>2, <1>4 DEF CountedOnce
  <2> QED  BY <2>1, <2>2, <2>3
<1> QED  BY <1>3, <1>4 DEF EndRollCall

LEMMA CancelOK ==
  ASSUME RegistryInv, NEW r \in OnList, CancelRollCall(r),
         taps' \subseteq taps, UNCHANGED reasonFor
  PROVE  RegistryInv'
<1> USE DEF RegistryInv
<1>1. r \in Ids /\ status[r] = "active"
  BY DEF ListIsTheActiveRows, Active
<1>2. CASE RemoveRollCall(r) /\ cancelled' = cancelled \cup {r} /\ UNCHANGED <<counted, cut, mishaps>>
  <2>1. RegistryTypeOK'
    BY <1>1, <1>2, RemoveFacts DEF RegistryTypeOK
  <2>2. MarksExplained'
    BY <1>2, RemoveFacts DEF MarksExplained, RegistryTypeOK
  <2>3. CountedOnce'
    BY <1>1, <1>2, RemoveFacts DEF CountedOnce
  <2> QED  BY <1>2, <2>1, <2>2, <2>3, RemoveFacts
<1>3. CASE /\ Fails /\ UNCHANGED <<status, list, counted>>
           /\ \/ cancelled' = cancelled /\ cut' = cut
              \/ cancelled' = cancelled \cup {r} /\ cut' = cut \cup {r}
  <2>1. RegistryTypeOK'
    BY <1>1, <1>3 DEF RegistryTypeOK, Fails
  <2>2. ListIsTheActiveRows' /\ CreatedInOrder' /\ MarksExplained' /\ CountedOnce'
    BY <1>3 DEF ListIsTheActiveRows, OnList, Active, CreatedInOrder, MarksExplained, CountedOnce
  <2> QED  BY <2>1, <2>2
<1> QED  BY <1>2, <1>3 DEF CancelRollCall

\* A start reads the list back from the rows.
LEMMA LoadOK ==
  ASSUME RegistryInv, Fails, LoadChat, UNCHANGED status,
         \/ UNCHANGED <<cancelled, counted, cut>>
         \/ \E r \in OnList : /\ cut' = cut \cup {r}
                              /\ \/ CountIn(r) /\ UNCHANGED cancelled
                                 \/ cancelled' = cancelled \cup {r} /\ UNCHANGED counted
  PROVE  RegistryInv'
<1> USE DEF RegistryInv
<1>1. list' \in Seq(Ids) /\ ToSet(list') = Active /\ OldestFirst(list')
  <2>1. PICK n \in 0 .. Rollcalls : list' \in [1 .. n -> Ids]
    BY DEF LoadChat, Loaded
  <2>2. list' \in Seq(Ids)
    BY <2>1, RegistryAssumption, SeqDef
  <2> QED  BY <2>2 DEF LoadChat, Loaded
<1>2. ListIsTheActiveRows'
  BY <1>1 DEF ListIsTheActiveRows, OnList, Active
<1>3. CreatedInOrder'
  BY DEF CreatedInOrder
<1>4. OnList \subseteq Ids
  BY DEF ListIsTheActiveRows, Active
<1>5. taps' \subseteq Tap /\ reasonFor' \in [Admins -> Ids \cup {0}] /\ mishaps' \in Nat
  BY DEF LoadChat, Fails, RegistryTypeOK
<1>6. CASE UNCHANGED <<cancelled, counted, cut>>
  BY <1>1, <1>2, <1>3, <1>5, <1>6 DEF RegistryTypeOK, CountedOnce, MarksExplained
<1>7. CASE \E r \in OnList : /\ cut' = cut \cup {r}
                             /\ \/ CountIn(r) /\ UNCHANGED cancelled
                                \/ cancelled' = cancelled \cup {r} /\ UNCHANGED counted
  <2>1. PICK r \in Ids : /\ cut' = cut \cup {r}
                         /\ \/ CountIn(r) /\ UNCHANGED cancelled
                            \/ cancelled' = cancelled \cup {r} /\ UNCHANGED counted
    BY <1>4, <1>7
  <2>2. counted' \in [Ids -> Nat] /\ \A q \in Ids : q # r => counted'[q] = counted[q]
    BY <2>1 DEF CountIn, RegistryTypeOK
  <2>3. RegistryTypeOK'
    BY <1>1, <1>5, <2>1, <2>2 DEF RegistryTypeOK
  <2>4. CountedOnce' /\ MarksExplained'
    BY <2>1, <2>2 DEF CountedOnce, MarksExplained
  <2> QED  BY <1>2, <1>3, <2>3, <2>4
<1> QED  BY <1>6, <1>7

\* A step that only books taps, reasons or failures.
LEMMA BookingOK ==
  ASSUME RegistryInv, UNCHANGED <<status, cancelled, list, counted, cut>>,
         taps' \subseteq Tap, reasonFor' \in [Admins -> Ids \cup {0}], mishaps' \in Nat
  PROVE  RegistryInv'
BY DEF RegistryInv, RegistryTypeOK, ListIsTheActiveRows, OnList, Active, CountedOnce,
       CreatedInOrder, MarksExplained

LEMMA NextOK == RegistryInv /\ [RegistryNext]_registryVars => RegistryInv'
<1> SUFFICES ASSUME RegistryInv, [RegistryNext]_registryVars PROVE RegistryInv'
  OBVIOUS
<1>0. /\ taps \subseteq Tap /\ reasonFor \in [Admins -> Ids \cup {0}] /\ mishaps \in Nat
      /\ list \in Seq(Ids) /\ OnList \subseteq Ids
  BY DEF RegistryInv, RegistryTypeOK, ListIsTheActiveRows, Active
<1>1. CASE UNCHANGED registryVars
  BY <1>0, <1>1, BookingOK DEF registryVars
<1>2. CASE Additions
  <2>1. PICK r \in Ids : AddRollCall(r) /\ (Fails \/ UNCHANGED mishaps)
    BY <1>2 DEF Additions
  <2>2. mishaps' \in Nat
    BY <1>0, <2>1 DEF Fails
  <2> QED  BY <2>1, <2>2, AddOK
<1>3. CASE WriteFails
  BY <1>0, <1>3, BookingOK DEF WriteFails, Fails
<1>4. ASSUME NEW r \in Ids, TapEndConfirm(r) PROVE RegistryInv'
  <2>1. Position(r) \in Nat
    <3>1. \E i \in DOMAIN list : list[i] = r
      BY <1>4 DEF TapEndConfirm, OnList, ToSet
    <3>2. Position(r) \in DOMAIN list
      BY <3>1 DEF Position
    <3> QED  BY <1>0, <3>2
  <2>2. EndConfirm(r) \in Tap
    BY <2>1 DEF EndConfirm, Tap
  <2> QED  BY <1>0, <1>4, <2>2, BookingOK DEF TapEndConfirm
<1>5. CASE GivesAnswer
  <2>1. PICK a \in Admins : \/ \E r \in Ids : TapCancelYes(a, r)
                            \/ GiveReason(a) \/ PrunePending(a)
    BY <1>5 DEF GivesAnswer
  <2>2. CASE \E r \in Ids : TapCancelYes(a, r)
    BY <1>0, <2>2, BookingOK DEF TapCancelYes
  <2>3. CASE GiveReason(a)
    <3>1. [does |-> "cancel", rc |-> reasonFor[a], number |-> 0] \in Tap
      BY <1>0, <2>3 DEF GiveReason, Tap
    <3> QED  BY <1>0, <2>3, <3>1, BookingOK DEF GiveReason
  <2>4. CASE PrunePending(a)
    BY <1>0, <2>4, BookingOK DEF PrunePending
  <2> QED  BY <2>1, <2>2, <2>3, <2>4
<1>6. CASE EndByCommand
  BY <1>6, EndOK DEF EndByCommand
<1>7. CASE CancelByCommand
  BY <1>7, CancelOK DEF CancelByCommand
<1>8. ASSUME NEW t \in taps, ExecuteEnd(t) PROVE RegistryInv'
  <2>1. CASE Found(t) \in OnList /\ EndRollCall(Found(t))
    BY <1>8, <2>1, EndOK DEF ExecuteEnd
  <2>2. CASE UNCHANGED <<status, cancelled, list, counted, cut, mishaps>>
    BY <1>0, <1>8, <2>2, BookingOK DEF ExecuteEnd
  <2> QED  BY <1>8, <2>1, <2>2 DEF ExecuteEnd
<1>9. ASSUME NEW t \in taps, ExecuteCancel(t) PROVE RegistryInv'
  <2>1. CASE t.rc \in OnList /\ CancelRollCall(t.rc)
    BY <1>9, <2>1, CancelOK DEF ExecuteCancel
  <2>2. CASE UNCHANGED <<status, cancelled, list, counted, cut, mishaps>>
    BY <1>0, <1>9, <2>2, BookingOK DEF ExecuteCancel
  <2> QED  BY <1>9, <2>1, <2>2 DEF ExecuteCancel
<1>10. CASE Dies
  BY <1>10, LoadOK DEF Dies, RestartBot, DiesEnding, DiesCancelling
<1> QED
  BY <1>1, <1>2, <1>3, <1>4, <1>5, <1>6, <1>7, <1>8, <1>9, <1>10 DEF RegistryNext, Removals

-----------------------------------------------------------------------------
\* The manager's list is the active rows, oldest first, whatever is started,
\* ended, cancelled, confirmed late, fails or dies.
THEOREM RegistryListInvariant == RegistrySpec => []ListIsTheActiveRows
<1>1. RegistryInv => ListIsTheActiveRows
  BY DEF RegistryInv
<1> QED  BY InitOK, NextOK, <1>1, PTL DEF RegistrySpec

\* Every played game is counted once and no cancelled one, but for those
\* whose end or cancellation broke off.
THEOREM RegistryCountInvariant == RegistrySpec => []CountedOnce
<1>1. RegistryInv => CountedOnce
  BY DEF RegistryInv
<1> QED  BY InitOK, NextOK, <1>1, PTL DEF RegistrySpec

-----------------------------------------------------------------------------
(* The clock implements the registry.                                      *)

\* A failed write, or none, is all the registry sees of a step that leaves
\* rows, list, counters and confirmations alone.
LEMMA QuietStep ==
  ASSUME ListStays, Fails \/ UNCHANGED mishaps
  PROVE  [RegistryNext]_registryVars
BY DEF ListStays, WriteFails, RegistryNext, registryVars

LEMMA CreateIsAddition ==
  ASSUME NEW r \in Ids, NEW c, ~ChatIsFull, Create(r, c)
  PROVE  RegistryNext
<1>1. AddRollCall(r) /\ (Fails \/ UNCHANGED mishaps)
  BY DEF Create
<1> QED  BY <1>1 DEF RegistryNext, Additions

LEMMA SaveIsQuiet ==
  ASSUME NEW r, NEW m, Save(r, m)
  PROVE  [RegistryNext]_registryVars
<1>1. ListStays /\ (Fails \/ UNCHANGED mishaps)
  BY DEF Save, ListStays
<1> QED  BY <1>1, QuietStep

LEMMA LoopStep == Loop => [RegistryNext]_registryVars
<1> SUFFICES ASSUME Loop PROVE [RegistryNext]_registryVars
  OBVIOUS
<1>1. CASE Wake \/ PassEnds
  BY <1>1 DEF Wake, PassEnds, registryVars
<1>2. CASE AutoClose
  <2>1. CASE UNCHANGED registryVars
    BY <2>1
  <2>2. CASE Closing \in OnList /\ EndRollCall(Closing) /\ UNCHANGED <<taps, reasonFor>>
    <3>1. EndByCommand
      BY <2>2 DEF EndByCommand
    <3> QED  BY <3>1 DEF RegistryNext, Removals
  <2> QED  BY <1>2, <2>1, <2>2 DEF AutoClose
<1>3. ASSUME NEW r \in Ids, Greet(r) PROVE [RegistryNext]_registryVars
  <2>1. ListStays /\ (Fails \/ UNCHANGED mishaps)
    BY <1>3 DEF Greet, Persists
  <2> QED  BY <2>1, QuietStep
<1>4. ASSUME NEW r \in Ids, NEW t \in Moments, PassOver(r, t)
      PROVE  [RegistryNext]_registryVars
  BY <1>4 DEF PassOver
<1>5. ASSUME NEW r \in Ids, NEW t \in Moments, Remind(r, t)
      PROVE  [RegistryNext]_registryVars
  <2>1. ListStays /\ (Fails \/ UNCHANGED mishaps)
    BY <1>5 DEF Remind, ClearReminder, Persists
  <2> QED  BY <2>1, QuietStep
<1>6. ASSUME NEW r \in Ids, NEW t \in Moments, Due(r, t)
      PROVE  [RegistryNext]_registryVars
  <2>1. ListStays /\ (Fails \/ UNCHANGED mishaps)
    BY <1>6 DEF Due, ClearReminder, Persists
  <2> QED  BY <2>1, QuietStep
<1> QED  BY <1>1, <1>2, <1>3, <1>4, <1>5, <1>6 DEF Loop

LEMMA ScheduleStep == Schedule => [RegistryNext]_registryVars
<1> SUFFICES ASSUME Schedule PROVE [RegistryNext]_registryVars
  OBVIOUS
<1>1. CASE FetchOnce
  BY <1>1 DEF FetchOnce, RestOnce
<1>2. ASSUME NEW s \in Once, ScheduleOnce(s) \/ CancelPendingOnce(s) \/ FireFull(s) \/ FireLost(s)
      PROVE  [RegistryNext]_registryVars
  BY <1>2 DEF ScheduleOnce, CancelPendingOnce, FireFull, FireLost, RestOnce
<1>3. ASSUME NEW s \in Once, Fire(s) PROVE [RegistryNext]_registryVars
  BY <1>3, CreateIsAddition DEF Fire
<1> QED  BY <1>1, <1>2, <1>3 DEF Schedule

LEMMA ClockStep == [TimedNext]_timedVars => [RegistryNext]_registryVars
<1> SUFFICES ASSUME [TimedNext]_timedVars PROVE [RegistryNext]_registryVars
  OBVIOUS
<1>1. CASE UNCHANGED timedVars
  BY <1>1 DEF timedVars
<1>2. CASE StartRollCall \/ RepeatRollCall
  BY <1>2, CreateIsAddition DEF StartRollCall, RepeatRollCall
<1>3. CASE ByHand
  BY <1>3 DEF ByHand, RegistryNext
<1>4. CASE Set
  BY <1>4, SaveIsQuiet DEF Set, SetRollCallTime, CancelRollCallTime, SetReminder
<1>5. CASE RemindAfterOpen \/ Tick
  BY <1>5 DEF RemindAfterOpen, Tick
<1>6. CASE Crash
  <2>1. Dies
    BY <1>6 DEF Crash, Dies
  <2> QED  BY <2>1 DEF RegistryNext
<1> QED  BY <1>1, <1>2, <1>3, <1>4, <1>5, <1>6, LoopStep, ScheduleStep DEF TimedNext

\* The loop, the schedules and the commands about times change the list of
\* open rollcalls, its rows and its counters only as the registry allows.
THEOREM ClockImplementsRegistry == TimedSpec => RegistrySpec
<1>1. TimedInit => RegistryInit
  BY DEF TimedInit
<1> QED  BY <1>1, ClockStep, PTL DEF TimedSpec, RegistrySpec

\* So the list of a chat whose loop runs is its active rows, and every played
\* game is counted once, as in the registry.
THEOREM ClockKeepsTheList == TimedSpec => [](ListIsTheActiveRows /\ CountedOnce)
BY ClockImplementsRegistry, RegistryListInvariant, RegistryCountInvariant, PTL

-----------------------------------------------------------------------------
(***************************************************************************)
(* What the clock promises.  Its invariant has a part per kind of promise. *)
(***************************************************************************)
SettingsTyped ==
  /\ now \in Moments /\ afterOpen \in {0, Hours}
  /\ row \in [Ids -> Settings] /\ mem \in [Ids -> Settings]
  /\ promise \in [Ids -> Moments]

\* Between two steps of a visit the place in the pass is a rollcall's.
LoopInv ==
  /\ loop \in {"off", "asleep", "pass", "greeting", "closing"}
  /\ snap \in Seq(Ids) /\ at \in 1 .. Len(snap) + 1 /\ seen \in Moments
  /\ loop \in {"greeting", "closing"} => at <= Len(snap)

\* A reminder that is set, in memory or in a row that a restart reads back,
\* is owed.
ReminderInv ==
  /\ owed \in [Ids -> Nat]
  /\ \A r \in Ids : mem[r].reminder # 0 \/ row[r].reminder # 0 => owed[r] # 0

\* A promise is kept in memory and in the row; a rollcall yet to be created
\* has none.
PromiseInv ==
  /\ \A r \in Ids : promise[r] # 0 =>
       /\ status[r] # "none"
       /\ r \in OnList => mem[r].closes # 0 /\ row[r].closes # 0
  /\ PromisesAreWatched

OnceInv ==
  /\ once \in [Once -> {"none", "waiting", "fired", "deleted"}]
  /\ fetched \subseteq Once /\ fires \in [Once -> Nat]
  /\ \A s \in Once : once[s] \in {"none", "waiting"} => fires[s] = 0

ClockInv == SettingsTyped /\ LoopInv /\ ReminderInv /\ PromiseInv /\ OnceInv

LEMMA ClockInvOK == RegistryInv /\ ClockInv => ClockOK
BY DEF RegistryInv, ClockInv, SettingsTyped, LoopInv, ReminderInv, PromiseInv, OnceInv,
       ClockOK, ClockTypeOK, RemindedOnce

LEMMA ClockInitInv == ClockInit => ClockInv
<1> SUFFICES ASSUME ClockInit PROVE ClockInv
  OBVIOUS
<1> USE ClockAssumption DEF ClockInit
<1>1. 0 \in Moments /\ Unset \in Settings /\ Unset.reminder = 0
  BY DEF Moments, Unset, Settings
<1>2. SettingsTyped
  BY <1>1 DEF SettingsTyped
<1>3. <<>> \in Seq(Ids) /\ Len(<<>>) = 0
  OBVIOUS
<1>4. LoopInv
  BY <1>1, <1>3 DEF LoopInv
<1>5. ReminderInv
  BY <1>1 DEF ReminderInv
<1>6. PromiseInv
  BY DEF PromiseInv, PromisesAreWatched, Promised
<1>7. OnceInv
  BY DEF OnceInv
<1> QED  BY <1>2, <1>4, <1>5, <1>6, <1>7 DEF ClockInv

-----------------------------------------------------------------------------
(* How rows and list move in any step.                                     *)

\* No row is un-created, and who is listed anew had no row before.
LEMMA RowsMove ==
  ASSUME RegistryInv, [RegistryNext]_registryVars, NEW r \in Ids
  PROVE  /\ status'[r] = "none" => status[r] = "none"
         /\ r \in OnList' => r \in OnList \/ status[r] = "none"
<1>1. RegistryInv'
  BY NextOK
<1>2. /\ r \in OnList <=> status[r] = "active"
      /\ r \in OnList' <=> status'[r] = "active"
      /\ status \in [Ids -> {"none", "active", "ended"}]
  BY <1>1 DEF RegistryInv, ListIsTheActiveRows, Active, RegistryTypeOK
<1>3. \/ status' = status
      \/ \E q \in Ids : status[q] = "none" /\ status' = [status EXCEPT ![q] = "active"]
      \/ \E q : status' = [status EXCEPT ![q] = "ended"]
  BY DEF registryVars, RegistryNext, Additions, AddRollCall, WriteFails, TapEndConfirm,
         GivesAnswer, TapCancelYes, GiveReason, PrunePending, Removals, EndByCommand,
         CancelByCommand, ExecuteEnd, ExecuteCancel, EndRollCall, CancelRollCall,
         RemoveRollCall, Dies, RestartBot, DiesEnding, DiesCancelling
<1>4. CASE status' = status
  BY <1>2, <1>4
<1>5. CASE \E q \in Ids : status[q] = "none" /\ status' = [status EXCEPT ![q] = "active"]
  BY <1>2, <1>5
<1>6. ASSUME NEW q, status' = [status EXCEPT ![q] = "ended"]
      PROVE  (status'[r] = "none" => status[r] = "none") /\ (status'[r] = "active" => status[r] = "active")
  BY <1>2, <1>6
<1> QED  BY <1>2, <1>3, <1>4, <1>5, <1>6

\* Whoever is promised a close time makes the loop needed.
LEMMA PromisedIsNeeded ==
  ASSUME NEW l \in Seq(Ids), NEW r \in ToSet(l), NEW m, m[r].closes # 0, NEW h
  PROVE  LoopNeeded(l, m, h)
<1>1. PICK i \in DOMAIN l : l[i] = r
  BY DEF ToSet
<1> QED  BY <1>1 DEF LoopNeeded

\* A step that changes no setting and no promise keeps the promises, unless
\* the loop goes off with one open.
LEMMA PromisesKept ==
  ASSUME RegistryInv, PromiseInv, [RegistryNext]_registryVars,
         \A r \in Ids : promise'[r] = promise[r],
         \A r \in Ids : r \in OnList' => mem'[r].closes = mem[r].closes \/ mem'[r].closes = row[r].closes
                                         \/ status[r] = "none",
         \A r \in Ids : r \in OnList' => row'[r].closes = row[r].closes \/ row'[r].closes = mem[r].closes
                                         \/ status[r] = "none",
         loop' = "off" => loop = "off" \/ ~\E r \in Ids : Promised(r)'
  PROVE  PromiseInv'
<1>1. \A r \in Ids : promise'[r] # 0 =>
         /\ status'[r] # "none"
         /\ r \in OnList' => r \in OnList /\ mem'[r].closes # 0 /\ row'[r].closes # 0
  BY RowsMove DEF PromiseInv
<1>2. PromisesAreWatched'
  BY <1>1 DEF PromiseInv, PromisesAreWatched, Promised
<1> QED  BY <1>1, <1>2 DEF PromiseInv

-----------------------------------------------------------------------------
(* The steps.                                                              *)

\* The loop, started where it is needed, stays what it may be.
LEMMA EnsureKeeps ==
  ASSUME LoopInv, EnsureLoop \/ UNCHANGED loop, UNCHANGED <<snap, at, seen>>
  PROVE  LoopInv' /\ (loop' = "off" => loop = "off")
BY DEF LoopInv, EnsureLoop

\* A rollcall that starts brings its settings; only a saved close time is
\* promised, and then the loop is started.
LEMMA CreateKeeps ==
  ASSUME RegistryInv, ClockInv, NEW r \in Ids, NEW c \in Moments, ~ChatIsFull, Create(r, c)
  PROVE  SettingsTyped' /\ LoopInv' /\ ReminderInv' /\ PromiseInv'
<1> USE DEF ClockInv
<1>0. RegistryNext /\ status[r] = "none" /\ list' = Append(list, r)
  BY CreateIsAddition DEF Create, AddRollCall
<1>1. RegistryInv' /\ list' \in Seq(Ids)
  BY <1>0, NextOK DEF RegistryInv, RegistryTypeOK
<1>2. /\ Fresh(c) \in Settings /\ Fresh(0) \in Settings
      /\ Fresh(c).closes = c /\ Fresh(c).reminder = 0 /\ Fresh(0).reminder = 0
  BY ClockAssumption DEF SettingsTyped, Fresh, Settings, Moments
<1>3. /\ mem' = [mem EXCEPT ![r] = Fresh(c)]
      /\ UNCHANGED <<now, afterOpen, owed, snap, at, seen>>
      /\ EnsureLoop \/ UNCHANGED loop
      /\ \E v \in {c, 0} : row' = [row EXCEPT ![r] = Fresh(v)]
      /\ promise' = [promise EXCEPT ![r] = c] \/ promise' = promise
  BY DEF Create
<1>4. SettingsTyped'
  <2>1. mem' \in [Ids -> Settings] /\ row' \in [Ids -> Settings] /\ promise' \in [Ids -> Moments]
    BY <1>2, <1>3 DEF SettingsTyped
  <2> QED  BY <1>3, <2>1 DEF SettingsTyped
<1>5. LoopInv' /\ (loop' = "off" => loop = "off")
  BY <1>3, EnsureKeeps
<1>6. ReminderInv'
  <2>1. \A q \in Ids : /\ mem'[q].reminder # 0 => mem[q].reminder # 0
                       /\ row'[q].reminder # 0 => row[q].reminder # 0
    BY <1>2, <1>3 DEF SettingsTyped
  <2> QED  BY <1>3, <2>1 DEF ReminderInv
<1>7. \A q \in Ids : q # r => mem'[q] = mem[q] /\ row'[q] = row[q] /\ promise'[q] = promise[q]
  BY <1>3 DEF SettingsTyped
<1>8. PromiseInv'
  <2>1. CASE UNCHANGED promise
    BY <1>0, <1>5, <1>7, <2>1, PromisesKept
  <2>2. CASE /\ row' = [row EXCEPT ![r] = Fresh(c)] /\ promise' = [promise EXCEPT ![r] = c]
             /\ EnsureLoop
    <3>1. mem'[r].closes = c /\ row'[r].closes = c /\ promise'[r] = c
      BY <1>2, <1>3, <2>2 DEF SettingsTyped
    <3>2. status'[r] # "none" /\ \A q \in Ids : q # r => status'[q] = status[q]
      BY <1>0 DEF Create, AddRollCall, RegistryInv, RegistryTypeOK
    <3>3. \A q \in Ids : q # r => (q \in OnList' => q \in OnList)
      BY <1>1, <3>2 DEF RegistryInv, ListIsTheActiveRows, Active
    <3>4. \A q \in Ids : promise'[q] # 0 =>
            /\ status'[q] # "none"
            /\ q \in OnList' => mem'[q].closes # 0 /\ row'[q].closes # 0
      BY <1>7, <3>1, <3>2, <3>3 DEF PromiseInv
    <3>5. ASSUME NEW q \in Ids, q \in OnList', promise'[q] # 0 PROVE loop' # "off"
      <4>1. LoopNeeded(list', mem', afterOpen')
        BY <1>1, <3>4, <3>5, PromisedIsNeeded DEF OnList
      <4> QED  BY <2>2, <4>1 DEF EnsureLoop
    <3> QED  BY <3>4, <3>5 DEF PromiseInv, PromisesAreWatched, Promised
  <2> QED  BY <2>1, <2>2 DEF Create
<1> QED  BY <1>4, <1>5, <1>6, <1>8

\* What saving new settings of a listed rollcall leaves.
LEMMA SaveFacts ==
  ASSUME SettingsTyped, NEW r \in Ids, NEW m \in Settings, m.opened = mem[r].opened,
         m.greeted = mem[r].greeted, Save(r, m), promise' \in [Ids -> Moments], UNCHANGED afterOpen
  PROVE  /\ SettingsTyped'
         /\ mem'[r] = m
         /\ \/ row'[r].closes = m.closes /\ row'[r].reminder = m.reminder /\ mishaps' = mishaps
            \/ UNCHANGED row /\ Fails
         /\ \A q \in Ids : q # r => mem'[q] = mem[q] /\ row'[q] = row[q]
         /\ UNCHANGED <<now, list, status>>
<1> USE DEF SettingsTyped
<1>1. mem' = [mem EXCEPT ![r] = m] /\ UNCHANGED <<now, list, status>>
  BY DEF Save
<1>2. CASE row' = [row EXCEPT ![r].closes = m.closes, ![r].reminder = m.reminder] /\ mishaps' = mishaps
  <2>1. m.closes \in Moments /\ m.reminder \in {0, Hours}
    BY DEF Settings
  <2>2. row[r] \in Settings
    OBVIOUS
  <2> DEFINE n == [row[r] EXCEPT !.closes = m.closes, !.reminder = m.reminder]
  <2>3. n \in Settings /\ n.closes = m.closes /\ n.reminder = m.reminder
    BY <2>1, <2>2 DEF Settings
  <2>4. row' = [row EXCEPT ![r] = n]
    BY <1>2
  <2> HIDE DEF n
  <2>5. row' \in [Ids -> Settings] /\ row'[r] = n /\ \A q \in Ids : q # r => row'[q] = row[q]
    BY <2>3, <2>4
  <2> QED  BY <1>1, <1>2, <2>3, <2>5
<1>3. CASE Fails /\ UNCHANGED row
  BY <1>1, <1>3
<1> QED  BY <1>2, <1>3 DEF Save

\* A new close time is promised once it is saved, and then the loop runs.
LEMMA SetTimeKeeps ==
  ASSUME RegistryInv, ClockInv, NEW r \in Ids, NEW c \in Moments, SetRollCallTime(r, c)
  PROVE  ClockInv'
<1> USE DEF ClockInv
<1>0. [RegistryNext]_registryVars
  BY SaveIsQuiet DEF SetRollCallTime
<1> DEFINE m == [mem[r] EXCEPT !.closes = c, !.reminder = 0]
<1>1. /\ m \in Settings /\ m.closes = c /\ m.reminder = 0
      /\ m.opened = mem[r].opened /\ m.greeted = mem[r].greeted
  BY DEF SettingsTyped, Settings
<1>2. /\ Save(r, m) /\ UNCHANGED <<afterOpen, owed, snap, at, seen, onceVars>>
      /\ EnsureLoop \/ UNCHANGED loop
      /\ mishaps' = mishaps => EnsureLoop
      /\ promise' = [promise EXCEPT ![r] = IF mishaps' = mishaps THEN c ELSE 0]
      /\ r \in OnList /\ c # 0
  BY DEF SetRollCallTime
<1> HIDE DEF m
<1>3. /\ promise' \in [Ids -> Moments]
      /\ promise'[r] = IF mishaps' = mishaps THEN c ELSE 0
      /\ \A q \in Ids : q # r => promise'[q] = promise[q]
  <2> DEFINE v == IF mishaps' = mishaps THEN c ELSE 0
  <2>1. v \in Moments
    BY ClockAssumption DEF Moments
  <2>2. promise' = [promise EXCEPT ![r] = v]
    BY <1>2
  <2> HIDE DEF v
  <2>3. /\ promise' \in [Ids -> Moments] /\ promise'[r] = v
        /\ \A q \in Ids : q # r => promise'[q] = promise[q]
    BY <2>1, <2>2 DEF SettingsTyped
  <2> QED  BY <2>3 DEF v
<1>4. /\ SettingsTyped' /\ mem'[r] = m
      /\ \/ row'[r].closes = m.closes /\ row'[r].reminder = m.reminder /\ mishaps' = mishaps
         \/ UNCHANGED row /\ Fails
      /\ \A q \in Ids : q # r => mem'[q] = mem[q] /\ row'[q] = row[q]
      /\ UNCHANGED <<now, list, status>>
  BY <1>1, <1>2, <1>3, SaveFacts
<1>5. LoopInv' /\ (loop' = "off" => loop = "off")
  BY <1>2, EnsureKeeps
<1>6. ReminderInv'
  BY <1>1, <1>2, <1>4 DEF ReminderInv
<1>7. OnceInv'
  BY <1>2 DEF OnceInv, onceVars
<1>8. list' \in Seq(Ids) /\ OnList' = OnList /\ mishaps \in Nat
  BY <1>4 DEF RegistryInv, RegistryTypeOK, OnList
<1>9. Fails => mishaps' # mishaps
  BY <1>8 DEF Fails
<1>10. \A q \in Ids : promise'[q] # 0 =>
         /\ status'[q] # "none"
         /\ q \in OnList' => mem'[q].closes # 0 /\ row'[q].closes # 0
  <2>1. \A q \in Ids : q # r /\ promise'[q] # 0 =>
         /\ status'[q] # "none"
         /\ q \in OnList' => mem'[q].closes # 0 /\ row'[q].closes # 0
    BY <1>3, <1>4, <1>8 DEF PromiseInv
  <2>2. status[r] # "none"
    BY <1>2 DEF RegistryInv, ListIsTheActiveRows, Active
  <2>3. promise'[r] # 0 => mem'[r].closes # 0 /\ row'[r].closes # 0
    BY <1>1, <1>2, <1>3, <1>4, <1>9
  <2> QED  BY <1>4, <2>1, <2>2, <2>3
<1>11. ASSUME NEW q \in Ids, q \in OnList', promise'[q] # 0 PROVE loop' # "off"
  <2>1. CASE mishaps' = mishaps
    <3>1. LoopNeeded(list', mem', afterOpen')
      BY <1>8, <1>10, <1>11, PromisedIsNeeded DEF OnList
    <3> QED  BY <1>2, <2>1, <3>1 DEF EnsureLoop
  <2>2. CASE mishaps' # mishaps
    <3>1. q # r
      BY <1>3, <1>11, <2>2
    <3>2. Promised(q)
      BY <1>3, <1>8, <1>11, <3>1 DEF Promised
    <3> QED  BY <1>5, <3>2 DEF PromiseInv, PromisesAreWatched
  <2> QED  BY <2>1, <2>2
<1>12. PromiseInv'
  BY <1>10, <1>11 DEF PromiseInv, PromisesAreWatched, Promised
<1> QED  BY <1>4, <1>5, <1>6, <1>7, <1>12

\* A cancelled close time takes its promise along, saved or not.
LEMMA CancelTimeKeeps ==
  ASSUME RegistryInv, ClockInv, NEW r \in Ids, CancelRollCallTime(r)
  PROVE  ClockInv'
<1> USE DEF ClockInv
<1> DEFINE m == [mem[r] EXCEPT !.closes = 0, !.reminder = 0]
<1>1. /\ m \in Settings /\ m.reminder = 0
      /\ m.opened = mem[r].opened /\ m.greeted = mem[r].greeted
  <2>1. mem[r] \in Settings /\ 0 \in Moments
    BY ClockAssumption DEF SettingsTyped, Moments
  <2> QED  BY <2>1 DEF Settings
<1>2. /\ Save(r, m) /\ UNCHANGED <<afterOpen, owed, loop, snap, at, seen, onceVars>>
      /\ promise' = [promise EXCEPT ![r] = 0]
  BY DEF CancelRollCallTime, loopVars
<1> HIDE DEF m
<1>3. /\ promise' \in [Ids -> Moments] /\ promise'[r] = 0
      /\ \A q \in Ids : q # r => promise'[q] = promise[q]
  BY <1>2, ClockAssumption DEF SettingsTyped, Moments
<1>4. /\ SettingsTyped' /\ mem'[r] = m
      /\ \/ row'[r].closes = m.closes /\ row'[r].reminder = m.reminder /\ mishaps' = mishaps
         \/ UNCHANGED row /\ Fails
      /\ \A q \in Ids : q # r => mem'[q] = mem[q] /\ row'[q] = row[q]
      /\ UNCHANGED <<now, list, status>>
  BY <1>1, <1>2, <1>3, SaveFacts
<1>5. LoopInv' /\ OnceInv'
  BY <1>2 DEF LoopInv, OnceInv, onceVars
<1>6. ReminderInv'
  BY <1>1, <1>2, <1>4 DEF ReminderInv
<1>7. PromiseInv'
  BY <1>2, <1>3, <1>4 DEF PromiseInv, PromisesAreWatched, Promised, OnList
<1> QED  BY <1>4, <1>5, <1>6, <1>7

\* A reminder that is set is owed, saved or not.
LEMMA SetReminderKeeps ==
  ASSUME RegistryInv, ClockInv, NEW r \in Ids, SetReminder(r)
  PROVE  ClockInv'
<1> USE DEF ClockInv
<1> DEFINE m == [mem[r] EXCEPT !.reminder = Hours]
<1>1. /\ m \in Settings /\ m.closes = mem[r].closes
      /\ m.opened = mem[r].opened /\ m.greeted = mem[r].greeted
  BY DEF SettingsTyped, Settings
<1>2. /\ Save(r, m) /\ UNCHANGED <<afterOpen, promise, loop, snap, at, seen, onceVars>>
      /\ owed' = [owed EXCEPT ![r] = 1] /\ mem[r].closes # 0
  BY DEF SetReminder, loopVars
<1> HIDE DEF m
<1>3. promise' \in [Ids -> Moments]
  BY <1>2 DEF SettingsTyped
<1>4. /\ SettingsTyped' /\ mem'[r] = m
      /\ \/ row'[r].closes = m.closes /\ row'[r].reminder = m.reminder /\ mishaps' = mishaps
         \/ UNCHANGED row /\ Fails
      /\ \A q \in Ids : q # r => mem'[q] = mem[q] /\ row'[q] = row[q]
      /\ UNCHANGED <<now, list, status>>
  BY <1>1, <1>2, <1>3, SaveFacts
<1>5. LoopInv' /\ OnceInv'
  BY <1>2 DEF LoopInv, OnceInv, onceVars
<1>6. owed' \in [Ids -> Nat] /\ owed'[r] = 1 /\ \A q \in Ids : q # r => owed'[q] = owed[q]
  BY <1>2 DEF ReminderInv
<1>7. ReminderInv'
  BY <1>4, <1>6 DEF ReminderInv
<1>8. PromiseInv'
  BY <1>1, <1>2, <1>4 DEF PromiseInv, PromisesAreWatched, Promised, OnList
<1> QED  BY <1>4, <1>5, <1>7, <1>8

LEMMA AfterOpenKeeps ==
  ASSUME RegistryInv, ClockInv, RemindAfterOpen
  PROVE  ClockInv'
<1> USE DEF ClockInv
<1>1. /\ UNCHANGED <<row, mem, promise, owed, list, status, now, snap, at, seen, onceVars>>
      /\ EnsureLoop \/ UNCHANGED loop
      /\ afterOpen' \in {0, Hours}
  BY ClockAssumption DEF RemindAfterOpen, registryVars, SettingsTyped
<1>2. LoopInv' /\ (loop' = "off" => loop = "off")
  BY <1>1, EnsureKeeps
<1>3. SettingsTyped' /\ ReminderInv' /\ OnceInv'
  BY <1>1 DEF SettingsTyped, ReminderInv, OnceInv, onceVars
<1>4. PromiseInv'
  BY <1>1, <1>2 DEF PromiseInv, PromisesAreWatched, Promised, OnList
<1> QED  BY <1>2, <1>3, <1>4

\* Clearing a reminder, in memory and then in its row, takes nothing else.
LEMMA ClearFacts ==
  ASSUME SettingsTyped, NEW r \in Ids,
         ClearReminder(r) \/ UNCHANGED <<mem, row, mishaps>>
  PROVE  /\ mem' \in [Ids -> Settings] /\ row' \in [Ids -> Settings]
         /\ \A q \in Ids : mem'[q].closes = mem[q].closes /\ row'[q].closes = row[q].closes
         /\ \A q \in Ids : mem'[q].reminder # 0 => mem[q].reminder # 0
         /\ \A q \in Ids : row'[q].reminder # 0 => row[q].reminder # 0
         /\ Fails \/ UNCHANGED mishaps
<1> USE DEF SettingsTyped
<1>1. CASE ClearReminder(r)
  <2> DEFINE m == [mem[r] EXCEPT !.reminder = 0]
             n == [row[r] EXCEPT !.reminder = 0]
  <2>1. /\ m \in Settings /\ m.closes = mem[r].closes /\ m.reminder = 0
        /\ n \in Settings /\ n.closes = row[r].closes /\ n.reminder = 0
    BY DEF Settings
  <2>2. /\ mem' = [mem EXCEPT ![r] = m]
        /\ \/ row' = [row EXCEPT ![r] = n] /\ UNCHANGED mishaps
           \/ UNCHANGED row /\ Fails
    BY <1>1 DEF ClearReminder, Persists
  <2> HIDE DEF m, n
  <2> QED  BY <2>1, <2>2
<1>2. CASE UNCHANGED <<mem, row, mishaps>>
  BY <1>2
<1> QED  BY <1>1, <1>2

\* A visit goes on to the next place, or waits at its own.
LEMMA VisitMoves ==
  ASSUME LoopInv, at <= Len(snap), ClockAssumption,
         \/ NextOne
         \/ UNCHANGED <<snap, at>> /\ loop' \in {"greeting", "closing"} /\ seen' \in Moments
  PROVE  LoopInv' /\ loop' # "off"
<1>1. 0 \in Moments
  BY DEF Moments
<1> QED  BY <1>1 DEF LoopInv, NextOne

LEMMA LoopKeeps ==
  ASSUME RegistryInv, ClockInv, Loop
  PROVE  ClockInv'
<1> USE DEF ClockInv
<1>0. [RegistryNext]_registryVars
  BY LoopStep
<1>1. CASE Wake \/ PassEnds
  <2>1. UNCHANGED <<registryVars, now, settingVars, seen, onceVars>>
    BY <1>1 DEF Wake, PassEnds
  <2>2. SettingsTyped' /\ ReminderInv' /\ OnceInv'
    BY <2>1 DEF SettingsTyped, ReminderInv, OnceInv, settingVars, onceVars
  <2>3. list \in Seq(Ids) /\ OnList' = OnList
    BY <2>1 DEF RegistryInv, RegistryTypeOK, registryVars, OnList
  <2>4. LoopInv'
    <3>1. <<>> \in Seq(Ids) /\ Len(<<>>) = 0
      OBVIOUS
    <3>2. Len(list) \in Nat
      BY <2>3
    <3>3. CASE Wake
      BY <2>1, <2>3, <3>2, <3>3 DEF Wake, LoopInv
    <3>4. CASE PassEnds
      BY <2>1, <3>1, <3>4 DEF PassEnds, LoopInv
    <3> QED  BY <1>1, <3>3, <3>4
  <2>5. ASSUME loop' = "off", NEW r \in Ids, Promised(r)' PROVE FALSE
    <3>1. r \in OnList /\ promise[r] # 0 /\ mem[r].closes # 0
      BY <2>1, <2>3, <2>5 DEF Promised, PromiseInv, settingVars
    <3>2. list # <<>>
      BY <3>1 DEF OnList, ToSet
    <3>3. LoopNeeded(list, mem, afterOpen)
      BY <2>3, <3>1, PromisedIsNeeded DEF OnList
    <3> QED  BY <1>1, <2>5, <3>2, <3>3 DEF Wake, PassEnds
  <2>6. PromiseInv'
    BY <1>0, <2>1, <2>5, PromisesKept DEF settingVars
  <2> QED  BY <2>2, <2>4, <2>6
<1>2. CASE AutoClose
  <2>1. /\ NextOne /\ UNCHANGED <<row, afterOpen, promise, owed>> /\ loop = "closing"
        /\ \/ UNCHANGED <<registryVars, mem>>
           \/ /\ Closing \in OnList /\ EndRollCall(Closing)
              /\ mem' = IF list' = list THEN mem ELSE [mem EXCEPT ![Closing].closes = 0]
    BY <1>2 DEF AutoClose
  <2>2. LoopInv' /\ loop' # "off"
    BY <2>1, VisitMoves, ClockAssumption DEF LoopInv
  <2>3. /\ mem' \in [Ids -> Settings]
        /\ \A q \in Ids : mem'[q].reminder = mem[q].reminder
        /\ \A q \in Ids : mem'[q].closes = mem[q].closes \/ q \notin OnList'
    <3>1. CASE mem' = mem
      BY <3>1 DEF SettingsTyped
    <3>2. CASE /\ Closing \in OnList /\ EndRollCall(Closing) /\ list' # list
               /\ mem' = [mem EXCEPT ![Closing].closes = 0]
      <4>1. Closing \in Ids
        BY <3>2 DEF RegistryInv, ListIsTheActiveRows, Active
      <4> DEFINE m == [mem[Closing] EXCEPT !.closes = 0]
      <4>2. m \in Settings /\ m.reminder = mem[Closing].reminder
        BY <4>1, ClockAssumption DEF SettingsTyped, Settings, Moments
      <4>3. mem' = [mem EXCEPT ![Closing] = m]
        BY <3>2
      <4> HIDE DEF m
      <4>4. Closing \notin OnList'
        <5>1. RemoveRollCall(Closing)
          BY <3>2 DEF EndRollCall
        <5>2. status'[Closing] = "ended" /\ ListIsTheActiveRows'
          BY <3>2, <5>1, RemoveFacts
        <5> QED  BY <5>2 DEF ListIsTheActiveRows, Active
      <4> QED  BY <4>1, <4>2, <4>3, <4>4 DEF SettingsTyped
    <3> QED  BY <2>1, <3>1, <3>2
  <2>4. UNCHANGED <<now, onceVars>>
    BY <2>1 DEF NextOne
  <2>5. SettingsTyped' /\ ReminderInv' /\ OnceInv'
    BY <2>1, <2>3, <2>4 DEF SettingsTyped, ReminderInv, OnceInv, onceVars
  <2>6. PromiseInv'
    BY <1>0, <2>1, <2>2, <2>3, PromisesKept
  <2> QED  BY <2>2, <2>5, <2>6
<1>3. ASSUME NEW r \in Ids, Greet(r) PROVE ClockInv'
  <2> DEFINE m == [mem[r] EXCEPT !.greeted = TRUE]
             n == [row[r] EXCEPT !.greeted = TRUE]
  <2>1. /\ m \in Settings /\ m.closes = mem[r].closes /\ m.reminder = mem[r].reminder
        /\ n \in Settings /\ n.closes = row[r].closes /\ n.reminder = row[r].reminder
    BY DEF SettingsTyped, Settings
  <2>2. /\ mem' = [mem EXCEPT ![r] = m]
        /\ row' = [row EXCEPT ![r] = n] \/ row' = row
        /\ loop' = "greeting" /\ seen' = now /\ at <= Len(snap)
        /\ UNCHANGED <<now, afterOpen, promise, owed, snap, at, onceVars>>
    BY <1>3 DEF Greet, Persists, Visiting
  <2> HIDE DEF m, n
  <2>3. LoopInv' /\ loop' # "off"
    BY <2>2, VisitMoves, ClockAssumption DEF SettingsTyped
  <2>4. /\ mem' \in [Ids -> Settings] /\ row' \in [Ids -> Settings]
        /\ \A q \in Ids : /\ mem'[q].closes = mem[q].closes /\ row'[q].closes = row[q].closes
                          /\ mem'[q].reminder = mem[q].reminder
                          /\ row'[q].reminder = row[q].reminder
    BY <2>1, <2>2 DEF SettingsTyped
  <2>5. SettingsTyped' /\ ReminderInv' /\ OnceInv'
    BY <2>2, <2>4 DEF SettingsTyped, ReminderInv, OnceInv, onceVars
  <2>6. PromiseInv'
    BY <1>0, <2>2, <2>3, <2>4, PromisesKept
  <2> QED  BY <2>3, <2>5, <2>6
<1>4. ASSUME NEW r \in Ids, NEW t \in Moments, PassOver(r, t) PROVE ClockInv'
  <2>1. NextOne /\ at <= Len(snap) /\ UNCHANGED settingVars
    BY <1>4 DEF PassOver, Judging, Visiting
  <2>2. LoopInv' /\ loop' # "off"
    BY <2>1, VisitMoves, ClockAssumption
  <2>3. SettingsTyped' /\ ReminderInv' /\ OnceInv'
    BY <2>1 DEF NextOne, SettingsTyped, ReminderInv, OnceInv, settingVars, onceVars
  <2>4. PromiseInv'
    BY <1>0, <2>1, <2>2, PromisesKept DEF settingVars
  <2> QED  BY <2>2, <2>3, <2>4
<1>5. ASSUME NEW r \in Ids, NEW t \in Moments, Remind(r, t) PROVE ClockInv'
  <2>1. /\ NextOne /\ at <= Len(snap) /\ UNCHANGED <<afterOpen, promise>>
        /\ ClearReminder(r) /\ mem[r].reminder # 0
        /\ owed' = IF mishaps' = mishaps THEN [owed EXCEPT ![r] = @ - 1] ELSE owed
    BY <1>5 DEF Remind, Judging, Visiting, ReminderDue
  <2>2. LoopInv' /\ loop' # "off"
    BY <2>1, VisitMoves, ClockAssumption
  <2>3. /\ mem' \in [Ids -> Settings] /\ row' \in [Ids -> Settings]
        /\ \A q \in Ids : mem'[q].closes = mem[q].closes /\ row'[q].closes = row[q].closes
        /\ \A q \in Ids : mem'[q].reminder # 0 => mem[q].reminder # 0
        /\ \A q \in Ids : row'[q].reminder # 0 => row[q].reminder # 0
    BY <2>1, ClearFacts
  <2>4. mem'[r].reminder = 0
    BY <2>1 DEF ClearReminder, SettingsTyped, Settings
  <2>5. CASE mishaps' = mishaps
    <3>1. row'[r].reminder = 0
      <4>1. mishaps \in Nat
        BY DEF RegistryInv, RegistryTypeOK
      <4>2. row' = [row EXCEPT ![r] = [@ EXCEPT !["reminder"] = 0]]
        BY <2>1, <2>5, <4>1 DEF ClearReminder, Persists, Fails
      <4> QED  BY <4>2 DEF SettingsTyped, Settings
    <3>2. owed[r] \in Nat /\ owed[r] # 0
      BY <2>1 DEF ReminderInv
    <3>3. owed[r] - 1 \in Nat /\ owed' = [owed EXCEPT ![r] = owed[r] - 1]
      BY <2>1, <2>5, <3>2
    <3>4. owed' \in [Ids -> Nat] /\ \A q \in Ids : q # r => owed'[q] = owed[q]
      BY <3>3 DEF ReminderInv
    <3>5. ReminderInv'
      BY <2>3, <2>4, <3>1, <3>4 DEF ReminderInv
    <3>6. SettingsTyped' /\ OnceInv'
      BY <2>1, <2>3 DEF NextOne, SettingsTyped, OnceInv, onceVars
    <3>7. PromiseInv'
      BY <1>0, <2>1, <2>2, <2>3, PromisesKept
    <3> QED  BY <2>2, <3>5, <3>6, <3>7
  <2>6. CASE mishaps' # mishaps
    <3>1. ReminderInv'
      BY <2>1, <2>3, <2>6 DEF ReminderInv
    <3>2. SettingsTyped' /\ OnceInv'
      BY <2>1, <2>3 DEF NextOne, SettingsTyped, OnceInv, onceVars
    <3>3. PromiseInv'
      BY <1>0, <2>1, <2>2, <2>3, PromisesKept
    <3> QED  BY <2>2, <3>1, <3>2, <3>3
  <2> QED  BY <2>5, <2>6
<1>6. ASSUME NEW r \in Ids, NEW t \in Moments, Due(r, t) PROVE ClockInv'
  <2>1. /\ loop' = "closing" /\ seen' = 0 /\ at <= Len(snap)
        /\ ClearReminder(r) \/ UNCHANGED <<mem, row, mishaps>>
        /\ UNCHANGED <<now, afterOpen, promise, owed, snap, at, onceVars>>
    BY <1>6 DEF Due, Judging, Visiting
  <2>2. LoopInv' /\ loop' # "off"
    <3>1. 0 \in Moments
      BY ClockAssumption DEF Moments
    <3> QED  BY <2>1, <3>1, VisitMoves, ClockAssumption
  <2>3. /\ mem' \in [Ids -> Settings] /\ row' \in [Ids -> Settings]
        /\ \A q \in Ids : mem'[q].closes = mem[q].closes /\ row'[q].closes = row[q].closes
        /\ \A q \in Ids : mem'[q].reminder # 0 => mem[q].reminder # 0
        /\ \A q \in Ids : row'[q].reminder # 0 => row[q].reminder # 0
    BY <2>1, ClearFacts
  <2>4. SettingsTyped' /\ ReminderInv' /\ OnceInv'
    BY <2>1, <2>3 DEF SettingsTyped, ReminderInv, OnceInv, onceVars
  <2>5. PromiseInv'
    BY <1>0, <2>1, <2>2, <2>3, PromisesKept
  <2> QED  BY <2>2, <2>4, <2>5
<1> QED  BY <1>1, <1>2, <1>3, <1>4, <1>5, <1>6 DEF Loop

\* What changes only the rows of one-time schedules keeps the rest.
LEMMA OnceStepKeeps ==
  ASSUME ClockInv, RestOnce
  PROVE  SettingsTyped' /\ LoopInv' /\ ReminderInv' /\ PromiseInv'
BY DEF ClockInv, RestOnce, registryVars, settingVars, loopVars, SettingsTyped, LoopInv,
       ReminderInv, PromiseInv, PromisesAreWatched, Promised, OnList

LEMMA ScheduleKeeps ==
  ASSUME RegistryInv, ClockInv, Schedule
  PROVE  ClockInv'
<1> USE DEF ClockInv
<1>1. CASE FetchOnce
  <2>1. OnceInv'
    BY <1>1 DEF FetchOnce, OnceInv
  <2> QED  BY <1>1, <2>1, OnceStepKeeps DEF FetchOnce
<1>2. ASSUME NEW s \in Once, ScheduleOnce(s) \/ CancelPendingOnce(s)
      PROVE  ClockInv'
  <2>1. OnceInv'
    BY <1>2 DEF ScheduleOnce, CancelPendingOnce, OnceInv
  <2> QED  BY <1>2, <2>1, OnceStepKeeps DEF ScheduleOnce, CancelPendingOnce
<1>3. ASSUME NEW s \in Once, FireFull(s) \/ FireLost(s)
      PROVE  ClockInv'
  <2>1. OnceInv'
    BY <1>3 DEF FireFull, FireLost, TakeUp, Claimed, NotClaimed, OnceInv
  <2> QED  BY <1>3, <2>1, OnceStepKeeps DEF FireFull, FireLost
<1>4. ASSUME NEW s \in Once, Fire(s)
      PROVE  ClockInv'
  <2>1. SettingsTyped' /\ LoopInv' /\ ReminderInv' /\ PromiseInv'
    BY <1>4, CreateKeeps DEF Fire
  <2>2. fires' = [fires EXCEPT ![s] = fires[s] + 1] /\ fires[s] + 1 \in Nat
    BY <1>4 DEF Fire, OnceInv
  <2>3. fires' \in [Once -> Nat] /\ \A z \in Once : z # s => fires'[z] = fires[z]
    BY <2>2 DEF OnceInv
  <2>4. OnceInv'
    BY <1>4, <2>3 DEF Fire, TakeUp, Claimed, OnceInv
  <2> QED  BY <2>1, <2>4
<1> QED  BY <1>1, <1>2, <1>3, <1>4 DEF Schedule

\* A start reads the settings back and runs the loop if any needs it.
LEMMA CrashKeeps ==
  ASSUME RegistryInv, ClockInv, Crash
  PROVE  ClockInv'
<1> USE DEF ClockInv
<1>1. /\ Reboot /\ Dies
      /\ once' = once \/ \E s \in fetched : Claimed(s)
  BY DEF Crash, Dies
<1>2. [RegistryNext]_registryVars
  BY <1>1 DEF RegistryNext
<1>3. RegistryInv' /\ list' \in Seq(Ids)
  BY <1>2, NextOK DEF RegistryInv, RegistryTypeOK
<1>4. SettingsTyped' /\ ReminderInv'
  BY <1>1 DEF Reboot, SettingsTyped, ReminderInv
<1>5. LoopInv'
  <2>1. 0 \in Moments /\ <<>> \in Seq(Ids) /\ Len(<<>>) = 0
    BY ClockAssumption DEF Moments
  <2> QED  BY <1>1, <2>1 DEF Reboot, LoopInv
<1>6. OnceInv'
  BY <1>1 DEF Reboot, OnceInv, Claimed
<1>7. ASSUME loop' = "off", NEW r \in Ids, Promised(r)' PROVE FALSE
  <2>1. r \in OnList' /\ promise[r] # 0
    BY <1>1, <1>7 DEF Promised, Reboot
  <2>2. r \in OnList
    BY <1>2, <2>1, RowsMove DEF PromiseInv
  <2>3. mem'[r].closes # 0
    BY <1>1, <2>1, <2>2 DEF PromiseInv, Reboot
  <2>4. LoopNeeded(list', mem', afterOpen)
    BY <1>3, <2>1, <2>3, PromisedIsNeeded DEF OnList
  <2> QED  BY <1>1, <1>7, <2>4 DEF Reboot
<1>8. PromiseInv'
  <2>1. UNCHANGED <<promise, row>> /\ mem' = row
    BY <1>1 DEF Reboot
  <2> QED  BY <1>2, <1>7, <2>1, PromisesKept
<1> QED  BY <1>4, <1>5, <1>6, <1>8

LEMMA ClockNextInv == RegistryInv /\ ClockInv /\ [TimedNext]_timedVars => ClockInv'
<1> SUFFICES ASSUME RegistryInv, ClockInv, [TimedNext]_timedVars PROVE ClockInv'
  OBVIOUS
<1>0. [RegistryNext]_registryVars
  BY ClockStep
<1>1. CASE UNCHANGED clockVars
  <2>1. SettingsTyped' /\ LoopInv' /\ ReminderInv' /\ OnceInv'
    BY <1>1 DEF ClockInv, clockVars, settingVars, loopVars, onceVars, SettingsTyped, LoopInv,
           ReminderInv, OnceInv
  <2>2. PromiseInv'
    BY <1>0, <1>1, PromisesKept DEF ClockInv, clockVars, settingVars, loopVars
  <2> QED  BY <2>1, <2>2 DEF ClockInv
<1>2. ASSUME NEW r \in Ids, NEW c \in Moments, ~ChatIsFull, Create(r, c), UNCHANGED onceVars
      PROVE  ClockInv'
  <2>1. OnceInv'
    BY <1>2 DEF ClockInv, OnceInv, onceVars
  <2> QED  BY <1>2, <2>1, CreateKeeps DEF ClockInv
<1>3. CASE StartRollCall \/ RepeatRollCall
  <2>1. 0 \in Moments
    BY ClockAssumption DEF Moments
  <2> QED  BY <1>2, <1>3, <2>1 DEF StartRollCall, RepeatRollCall
<1>4. CASE Set
  BY <1>4, SetTimeKeeps, CancelTimeKeeps, SetReminderKeeps DEF Set
<1>5. CASE Tick
  <2>1. now + 1 \in Moments
    BY <1>5, ClockAssumption DEF Tick, ClockInv, SettingsTyped, Moments
  <2>2. now' \in Moments /\ UNCHANGED <<registryVars, settingVars, loopVars, onceVars>>
    BY <1>5, <2>1 DEF Tick
  <2> QED  BY <2>2 DEF ClockInv, registryVars, settingVars, loopVars, onceVars, SettingsTyped,
                   LoopInv, ReminderInv, OnceInv, PromiseInv, PromisesAreWatched, Promised, OnList
<1>6. CASE UNCHANGED timedVars
  BY <1>1, <1>6 DEF timedVars
<1>7. CASE TimedNext
  BY <1>1, <1>3, <1>4, <1>5, <1>7, AfterOpenKeeps, LoopKeeps, ScheduleKeeps, CrashKeeps DEF TimedNext
<1> QED  BY <1>6, <1>7

\* While somebody was promised a close time of an open rollcall the loop that
\* keeps the promise runs, and a reminder goes out once, for any number of
\* rollcalls, commands that fail and deaths (check_reminders.py, rollcall_manager.py).
THEOREM ClockCorrect == TimedSpec => []ClockOK
<1>1. TimedInit => RegistryInv /\ ClockInv
  BY InitOK, ClockInitInv DEF TimedInit
<1>2. (RegistryInv /\ ClockInv) /\ [TimedNext]_timedVars => (RegistryInv /\ ClockInv)'
  BY ClockStep, NextOK, ClockNextInv
<1>3. RegistryInv /\ ClockInv => ClockOK
  BY ClockInvOK
<1> QED  BY <1>1, <1>2, <1>3, PTL DEF TimedSpec

-----------------------------------------------------------------------------
(***************************************************************************)
(* What a step may do to the list.                                         *)
(***************************************************************************)

\* A list ordered by age is known by what is in it: a restart brings back the
\* list there was.
LEMMA OrderedIsUnique ==
  ASSUME NEW s \in Seq(Ids), NEW t \in Seq(Ids), OldestFirst(s), OldestFirst(t), ToSet(s) = ToSet(t)
  PROVE  s = t
<1> DEFINE Same(i) == /\ i \in 1 .. Len(s) <=> i \in 1 .. Len(t)
                      /\ i \in 1 .. Len(s) => s[i] = t[i]
           Bad == {i \in Nat : ~Same(i)}
<1>1. /\ \A i \in 1 .. Len(s) : s[i] \in Int /\ \E j \in 1 .. Len(t) : t[j] = s[i]
      /\ \A i \in 1 .. Len(t) : t[i] \in Int /\ \E j \in 1 .. Len(s) : s[j] = t[i]
  <2>1. ASSUME NEW a \in Seq(Ids), NEW b \in Seq(Ids), ToSet(a) = ToSet(b), NEW i \in 1 .. Len(a)
        PROVE  a[i] \in Int /\ \E j \in 1 .. Len(b) : b[j] = a[i]
    <3>1. a[i] \in Ids /\ a[i] \in ToSet(b)
      BY <2>1, ToSetElements
    <3>2. \E j \in 1 .. Len(b) : b[j] = a[i]
      BY <3>1, ToSetElements
    <3> QED  BY <3>1, <3>2 DEF Ids
  <2> QED  BY <2>1
<1>0. (\A i \in 1 .. Len(s) : s[i] \in Int) /\ (\A i \in 1 .. Len(t) : t[i] \in Int)
  BY <1>1
<1>2. Bad = {}
  <2> SUFFICES ASSUME Bad # {} PROVE FALSE
    OBVIOUS
  <2>1. PICK k \in Bad : \A m \in Bad : k <= m
    BY Smallest
  <2>2. \A i \in Nat : i < k => Same(i)
    BY <2>1
  <2>3. k \in Nat /\ ~Same(k)
    BY <2>1
  <2> HIDE DEF Bad
  <2>4. ASSUME k \in 1 .. Len(s) PROVE k \in 1 .. Len(t) /\ t[k] <= s[k]
    <3>1. PICK j \in 1 .. Len(t) : t[j] = s[k]
      BY <1>1, <2>4
    <3>2. ~(j < k)
      <4> SUFFICES ASSUME j < k PROVE FALSE
        OBVIOUS
      <4>1. j \in 1 .. Len(s) /\ s[j] = t[j]
        BY <2>2
      <4>2. s[j] < s[k]
        BY <2>4, <4>1 DEF OldestFirst
      <4> QED  BY <1>0, <2>4, <3>1, <4>1, <4>2
    <3>3. k \in 1 .. Len(t)
      BY <2>4, <3>2
    <3>4. t[k] <= t[j]
      <4>1. k = j \/ t[k] < t[j]
        BY <2>3, <3>2, <3>3 DEF OldestFirst
      <4> QED  BY <1>0, <3>3, <4>1
    <3> QED  BY <3>1, <3>3, <3>4
  <2>5. ASSUME k \in 1 .. Len(t) PROVE k \in 1 .. Len(s) /\ s[k] <= t[k]
    <3>1. PICK j \in 1 .. Len(s) : s[j] = t[k]
      BY <1>1, <2>5
    <3>2. ~(j < k)
      <4> SUFFICES ASSUME j < k PROVE FALSE
        OBVIOUS
      <4>1. j \in 1 .. Len(t) /\ s[j] = t[j]
        BY <2>2
      <4>2. t[j] < t[k]
        BY <2>5, <4>1 DEF OldestFirst
      <4> QED  BY <1>0, <2>5, <3>1, <4>1, <4>2
    <3>3. k \in 1 .. Len(s)
      BY <2>5, <3>2
    <3>4. s[k] <= s[j]
      <4>1. k = j \/ s[k] < s[j]
        BY <2>3, <3>2, <3>3 DEF OldestFirst
      <4> QED  BY <1>0, <3>3, <4>1
    <3> QED  BY <3>1, <3>3, <3>4
  <2>6. k \in 1 .. Len(s) => s[k] = t[k]
    BY <1>0, <2>4, <2>5
  <2> QED  BY <2>3, <2>4, <2>5, <2>6
<1>3. \A i \in Nat : Same(i)
  BY <1>2
<1>4. Len(s) \in Nat /\ Len(t) \in Nat
  OBVIOUS
<1>5. Len(s) = Len(t)
  <2>1. Same(Len(s)) /\ Same(Len(t))
    BY <1>3, <1>4
  <2>2. Len(s) # 0 => Len(s) <= Len(t)
    BY <1>4, <2>1
  <2>3. Len(t) # 0 => Len(t) <= Len(s)
    BY <1>4, <2>1
  <2> QED  BY <1>4, <2>2, <2>3
<1>6. \A i \in 1 .. Len(s) : s[i] = t[i]
  BY <1>3
<1> QED  BY <1>5, <1>6, SeqEqual

\* A load changes nothing of the list.
LEMMA LoadKeepsList ==
  ASSUME RegistryInv, LoadChat
  PROVE  list' = list
<1>1. PICK n \in 0 .. Rollcalls : list' \in [1 .. n -> Ids]
  BY DEF LoadChat, Loaded
<1>2. list' \in Seq(Ids)
  BY <1>1, RegistryAssumption, SeqDef
<1>3. ToSet(list') = ToSet(list) /\ OldestFirst(list') /\ OldestFirst(list) /\ list \in Seq(Ids)
  BY DEF LoadChat, Loaded, RegistryInv, ListIsTheActiveRows, OnList, RegistryTypeOK
<1> QED  BY <1>2, <1>3, OrderedIsUnique

\* Ending or cancelling takes that rollcall away, or nothing.
LEMMA RemovalTakesOne ==
  ASSUME NEW r, EndRollCall(r) \/ CancelRollCall(r)
  PROVE  list' = RemoveFirst(list, r) \/ list' = list
BY DEF EndRollCall, CancelRollCall, RemoveRollCall

\* A tap is taken up by its own execution, or lost in a restart.
LEMMA ConfirmedStep ==
  ASSUME RegistryInv, [TimedNext]_timedVars, NEW t \in taps, t \notin taps', list' # list
  PROVE  list' = RemoveFirst(list, t.rc)
<1>1. RegistryNext
  BY ClockStep DEF registryVars
<1>2. ~Dies
  BY LoadKeepsList DEF Dies, RestartBot, DiesEnding, DiesCancelling
<1>3. \E u \in taps : ExecuteEnd(u) \/ ExecuteCancel(u)
  BY <1>1, <1>2 DEF RegistryNext, Additions, AddRollCall, WriteFails, TapEndConfirm, GivesAnswer,
         TapCancelYes, GiveReason, PrunePending, Removals, EndByCommand, CancelByCommand
<1>4. PICK u \in taps : ExecuteEnd(u) \/ ExecuteCancel(u)
  BY <1>3
<1>5. u = t
  BY <1>4 DEF ExecuteEnd, ExecuteCancel
<1>6. EndRollCall(t.rc) \/ CancelRollCall(t.rc)
  BY <1>4, <1>5 DEF ExecuteEnd, ExecuteCancel, Found
<1> QED  BY <1>6, RemovalTakesOne

\* The loop comes out of its wait for the lock by closing, or dies.
LEMMA ClosingStep ==
  ASSUME RegistryInv, [TimedNext]_timedVars, loop = "closing", loop' = "pass", list' # list
  PROVE  list' = RemoveFirst(list, snap[at])
<1>1. AutoClose
  <2>1. ~Crash
    BY DEF Crash, Reboot
  <2>2. \A r \in Ids, c \in Moments : ~Create(r, c)
    BY DEF Create, EnsureLoop
  <2>3. ~Set /\ ~RemindAfterOpen
    BY DEF Set, SetRollCallTime, CancelRollCallTime, SetReminder, RemindAfterOpen, EnsureLoop, loopVars
  <2>4. 0 \in Moments
    BY ClockAssumption DEF Moments
  <2>5. ~StartRollCall /\ ~RepeatRollCall /\ ~Schedule
    BY <2>2, <2>4 DEF StartRollCall, RepeatRollCall, Schedule, FetchOnce, ScheduleOnce,
           CancelPendingOnce, FireFull, FireLost, Fire, RestOnce, loopVars
  <2>6. UNCHANGED loop => FALSE
    OBVIOUS
  <2>7. Loop
    BY <2>1, <2>3, <2>5, <2>6 DEF TimedNext, timedVars, clockVars, loopVars, Tick
  <2> QED  BY <2>7 DEF Loop, Wake, PassEnds, Greet, PassOver, Remind, Due, Judging
<1>2. EndRollCall(snap[at])
  BY <1>1 DEF AutoClose, Closing, registryVars
<1> QED  BY <1>2, RemovalTakesOne

\* A start is counted for a schedule only as its row is claimed.
LEMMA FiringStep ==
  ASSUME ClockInv, [TimedNext]_timedVars, NEW s \in Once, fires'[s] # fires[s]
  PROVE  fires[s] = 0 /\ once[s] = "waiting"
<1>1. \E z \in Once : Fire(z)
  BY DEF TimedNext, timedVars, clockVars, onceVars, StartRollCall, RepeatRollCall, Set, SetRollCallTime,
         CancelRollCallTime, SetReminder, RemindAfterOpen, Loop, Wake, PassEnds, AutoClose, Greet,
         PassOver, Remind, Due, NextOne, Schedule, FetchOnce, ScheduleOnce, CancelPendingOnce,
         FireFull, FireLost, Tick, Crash, Reboot
<1>2. PICK z \in Once : Fire(z)
  BY <1>1
<1>3. z = s
  BY <1>2 DEF Fire, ClockInv, OnceInv
<1> QED  BY <1>2, <1>3 DEF Fire, Claimed, ClockInv, OnceInv

\* What was confirmed, found due or scheduled happens to its own rollcall or
\* not at all, however the list moved while the lock or a message was waited
\* for (handlers/lifecycle.py, check_reminders.py).
THEOREM ClockActs == TimedSpec => ActsAsDecided
<1>1. TimedInit => RegistryInv /\ ClockInv
  BY InitOK, ClockInitInv DEF TimedInit
<1>2. (RegistryInv /\ ClockInv) /\ [TimedNext]_timedVars => (RegistryInv /\ ClockInv)'
  BY ClockStep, NextOK, ClockNextInv
<1> DEFINE A == \A t \in taps : t \notin taps' /\ list' # list => list' = RemoveFirst(list, t.rc)
           B == loop = "closing" /\ loop' = "pass" /\ list' # list => list' = RemoveFirst(list, snap[at])
           C == \A s \in Once : fires'[s] # fires[s] => fires[s] = 0 /\ once[s] = "waiting"
<1>3. (RegistryInv /\ ClockInv) /\ [TimedNext]_timedVars => [A]_registryVars
  BY ConfirmedStep
<1>4. (RegistryInv /\ ClockInv) /\ [TimedNext]_timedVars => [B]_timedVars
  BY ClosingStep
<1>5. (RegistryInv /\ ClockInv) /\ [TimedNext]_timedVars => [C]_timedVars
  BY FiringStep
<1> QED  BY <1>1, <1>2, <1>3, <1>4, <1>5, PTL DEF TimedSpec, ActsAsDecided, ConfirmedOnly, ClosesItsOwn, FiresOnce
=============================================================================
