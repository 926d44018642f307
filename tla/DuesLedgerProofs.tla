-------------------------- MODULE DuesLedgerProofs --------------------------
(***************************************************************************)
(* Proofs about DuesLedger for any games, people, fees, amounts and        *)
(* bounds: a game without a closure charges nobody, what a season reset    *)
(* has cleared is not reversed, the books add up (whatever was charged is  *)
(* credited to a collector or held by the fund), and a closing takes no    *)
(* more from the fund than it holds.                                       *)
(***************************************************************************)
EXTENDS DuesLedger, DataLemmas

\* Whose turn it is and the newest closure are chosen by Min and Max over
\* finite sets; no fact about the choice is needed, so any values will do.
GameRow == [life : {"unborn", "active", "ended", "cancelled"}, fee : Nat,
            in : SUBSET Person, ended : Nat, collector : User \cup {NoOne},
            paid : BOOLEAN, dark : BOOLEAN]
GameTyped == game \in [Game -> GameRow]
ClosureTyped ==
  \E Num, Who : closure \in [Game -> [made : BOOLEAN, num : Num, cost : Nat, perHead : Nat,
                                      collector : Who, paid : BOOLEAN]]
LedgerTyped ==
  /\ charge \in [Game -> [Person -> Int]]
  /\ credit \in [Game -> [Person -> Int]]
  /\ gameFund \in [Game -> Int]
PromptsTyped == prompts \subseteq [at : Nat, game : Game, who : User]

\* The inductive invariant.
Inv ==
  /\ clock \in Nat
  /\ GameTyped /\ ClosureTyped /\ LedgerTyped /\ PromptsTyped
  /\ ReopenedIsClean
-----------------------------------------------------------------------------
(* Shares.                                                                 *)

LEMMA MaxOfTwo ==
  ASSUME NEW x \in Int
  PROVE  Max({0, x}) \in Nat
<1> DEFINE m == IF x >= 0 THEN x ELSE 0
<1>1. m \in {0, x} /\ \A y \in {0, x} : m >= y
  OBVIOUS
<1>2. \E n \in {0, x} : \A y \in {0, x} : n >= y
  BY <1>1
<1>3. Max({0, x}) \in {0, x} /\ \A y \in {0, x} : Max({0, x}) >= y
  BY <1>2 DEF Max
<1> QED  BY <1>3

LEMMA CeilDivType ==
  ASSUME NEW a \in Int, NEW b \in Nat \ {0}
  PROVE  CeilDiv(a, b) \in Int
BY DEF CeilDiv

\* A share is a natural number, whatever is asked of the fund.
LEMMA PerHeadType ==
  ASSUME NEW net \in Int, NEW n \in Nat \ {0}, NEW step \in Nat \ {0}
  PROVE  PerHead(net, n, step) \in Nat
<1>1. CeilDiv(net, n) \in Int
  BY CeilDivType
<1>2. CeilDiv(CeilDiv(net, n), step) \in Int
  BY <1>1, CeilDivType
<1>3. CeilDiv(CeilDiv(net, n), step) * step \in Int
  BY <1>2
<1> QED  BY <1>3, MaxOfTwo DEF PerHead

\* Somebody is IN, so the cost can be divided.
LEMMA HeadCount ==
  ASSUME NEW in \in SUBSET Person, in # {}
  PROVE  Cardinality(in) \in Nat \ {0}
<1>1. IsFiniteSet(Person)
  BY FS_Union, DuesAssumption DEF Person
<1>2. IsFiniteSet(in)
  BY <1>1, FS_Subset
<1> QED  BY <1>2, FS_CardinalityType, FS_EmptySet

LEMMA CreditTargetType ==
  ASSUME NEW who, NEW paid \in BOOLEAN, NEW cost \in Int
  PROVE  CreditTarget(who, paid, cost) \in [Person -> Int]
BY DEF CreditTarget

\* Crediting the collector of one game keeps the types and the other games.
LEMMA WriteCreditsType ==
  ASSUME LedgerTyped, NEW g \in Game, NEW target \in [Person -> Int],
         NEW some \in SUBSET Person, WriteCredits(g, target, some)
  PROVE  /\ credit' \in [Game -> [Person -> Int]]
         /\ \A h \in Game \ {g} : credit'[h] = credit[h]
         /\ \A p \in Person : credit'[g][p] = IF p \in some THEN target[p] ELSE credit[g][p]
<1> DEFINE row == [p \in Person |-> IF p \in some THEN target[p] ELSE credit[g][p]]
<1>2. credit[g] \in [Person -> Int]
  BY DEF LedgerTyped
<1>3. row \in [Person -> Int]
  BY <1>2
<1>4. credit' = [credit EXCEPT ![g] = row]
  BY DEF WriteCredits
<1> HIDE DEF row
<1>5. credit \in [Game -> [Person -> Int]]
  BY DEF LedgerTyped
<1>6. credit' \in [Game -> [Person -> Int]] /\ credit'[g] = row /\ \A h \in Game \ {g} : credit'[h] = credit[h]
  BY <1>3, <1>4, <1>5
<1> QED  BY <1>6 DEF row
-----------------------------------------------------------------------------
(* The steps that touch the books, game by game.                           *)

\* What a step may do to the books so that the invariant is kept: the types,
\* and a game without a closure is left clean.
BooksKept == ClosureTyped' /\ LedgerTyped' /\ ReopenedIsClean'

LEMMA UnchangedBooks ==
  ASSUME Inv, UNCHANGED books
  PROVE  BooksKept
BY DEF Inv, books, BooksKept, ClosureTyped, LedgerTyped, ReopenedIsClean, Closed

\* A step that touches one game's books.
LEMMA OneGame ==
  ASSUME Inv, NEW g \in Game, ClosureTyped', LedgerTyped',
         \A h \in Game \ {g} : /\ closure'[h].made = closure[h].made
                               /\ charge'[h] = charge[h] /\ credit'[h] = credit[h]
                               /\ gameFund'[h] = gameFund[h],
         Closed(g)' \/ /\ \A p \in Person : charge'[g][p] = 0 /\ credit'[g][p] = 0
                       /\ gameFund'[g] = 0
  PROVE  BooksKept
BY DEF Inv, BooksKept, ReopenedIsClean, Closed

\* What the season reset cleared: the action of OldSeasonKept.
OldGamesKept ==
  \A g \in Game : Closed(g) /\ Predates(g) =>
    Closed(g)' /\ \A p \in Person : charge'[g][p] >= charge[g][p]

LEMMA UnchangedOldGames ==
  ASSUME Inv, UNCHANGED <<closure, charge>>
  PROVE  OldGamesKept
BY DEF Inv, LedgerTyped, OldGamesKept, Closed

\* An unsettled game is settled: the others are left alone.
LEMMA BatchKeepsBooks ==
  ASSUME Inv, NEW g \in Game, NEW s \in Int, NEW step \in Nat \ {0},
         CanClose(g, s), WriteClosureBatch(g, s, step)
  PROVE  BooksKept /\ OldGamesKept
<1> DEFINE cost == game[g].fee
           n == Cardinality(game[g].in)
           perHead == PerHead(cost - s, n, step)
           new == [made |-> TRUE, num |-> NextNum, cost |-> cost, perHead |-> perHead,
                   collector |-> CollectorOf(g).who, paid |-> CollectorOf(g).paid]
           owed == [p \in Person |-> charge[g][p] + IF p \in game[g].in THEN perHead ELSE 0]
           target == CreditTarget(CollectorOf(g).who, CollectorOf(g).paid, cost)
           left == gameFund[g] - s + Remainder(perHead, n, cost, s)
<1>1. /\ cost \in Nat /\ game[g].in \in SUBSET Person /\ game[g].in # {}
      /\ game[g].paid \in BOOLEAN
  BY DEF Inv, GameTyped, GameRow, CanClose
<1>2. n \in Nat \ {0}
  BY <1>1, HeadCount
<1>3. perHead \in Nat
  <2>1. cost - s \in Int
    BY <1>1
  <2> HIDE DEF n, cost
  <2> QED  BY <2>1, <1>2, PerHeadType, ZenonT(60)
<1>4. CollectorOf(g).paid \in BOOLEAN
  BY <1>1 DEF CollectorOf
<1>5. /\ closure' = [closure EXCEPT ![g] = new]
      /\ charge' = [charge EXCEPT ![g] = owed]
      /\ WriteCredits(g, target, CreditDeltas(g, target))
      /\ gameFund' = [gameFund EXCEPT ![g] = left]
  BY DEF WriteClosureBatch
<1>6. owed \in [Person -> Int] /\ \A p \in Person : owed[p] >= charge[g][p]
  BY <1>3 DEF Inv, LedgerTyped
<1>7. left \in Int
  BY <1>1, <1>2, <1>3 DEF Inv, LedgerTyped, Remainder
<1>8. PICK Num, Who : closure \in [Game -> [made : BOOLEAN, num : Num, cost : Nat, perHead : Nat,
                                            collector : Who, paid : BOOLEAN]]
  BY DEF Inv, ClosureTyped
<1> HIDE DEF cost, n, perHead, owed, left
<1>9. new \in [made : BOOLEAN, num : Num \cup {NextNum}, cost : Nat, perHead : Nat,
               collector : Who \cup {CollectorOf(g).who}, paid : BOOLEAN]
  BY <1>1, <1>3, <1>4
<1>10. ClosureTyped' /\ closure'[g].made /\ \A h \in Game \ {g} : closure'[h] = closure[h]
  <2>1. closure \in [Game -> [made : BOOLEAN, num : Num \cup {NextNum}, cost : Nat, perHead : Nat,
                              collector : Who \cup {CollectorOf(g).who}, paid : BOOLEAN]]
    BY <1>8
  <2>2. closure' \in [Game -> [made : BOOLEAN, num : Num \cup {NextNum}, cost : Nat, perHead : Nat,
                               collector : Who \cup {CollectorOf(g).who}, paid : BOOLEAN]]
    BY <2>1, <1>5, <1>9
  <2>3. closure'[g] = new /\ \A h \in Game \ {g} : closure'[h] = closure[h]
    BY <1>5, <1>8
  <2>4. ClosureTyped'
    BY <2>2, Zenon DEF ClosureTyped
  <2>5. closure'[g].made
    BY <2>3
  <2> HIDE DEF new
  <2> QED  BY <2>3, <2>4, <2>5
<1>11. /\ charge' \in [Game -> [Person -> Int]] /\ charge'[g] = owed
       /\ \A h \in Game \ {g} : charge'[h] = charge[h]
  BY <1>5, <1>6 DEF Inv, LedgerTyped
<1>12. gameFund' \in [Game -> Int] /\ \A h \in Game \ {g} : gameFund'[h] = gameFund[h]
  BY <1>5, <1>7 DEF Inv, LedgerTyped
<1>13. credit' \in [Game -> [Person -> Int]] /\ \A h \in Game \ {g} : credit'[h] = credit[h]
  <2>1. CreditDeltas(g, target) \in SUBSET Person
    BY DEF CreditDeltas
  <2>2. LedgerTyped /\ target \in [Person -> Int]
    BY <1>1, <1>4, CreditTargetType DEF Inv
  <2> HIDE DEF target
  <2> QED  BY <2>1, <2>2, <1>5, WriteCreditsType
<1>14. LedgerTyped'
  BY <1>11, <1>12, <1>13 DEF LedgerTyped
<1>15. BooksKept
  <2>1. Closed(g)'
    BY <1>10 DEF Closed
  <2>2. \A h \in Game \ {g} : /\ closure'[h].made = closure[h].made
                               /\ charge'[h] = charge[h] /\ credit'[h] = credit[h]
                               /\ gameFund'[h] = gameFund[h]
    BY <1>10, <1>11, <1>12, <1>13
  <2> QED  BY <2>1, <2>2, <1>10, <1>14, OneGame, ZenonT(60)
<1>16. OldGamesKept
  <2>1. ~Closed(g)
    BY DEF CanClose
  <2>2. \A h \in Game \ {g} : \A p \in Person : charge'[h][p] >= charge[h][p]
    BY <1>11 DEF Inv, LedgerTyped
  <2> QED  BY <2>1, <2>2, <1>10 DEF OldGamesKept, Closed
<1> QED  BY <1>15, <1>16

\* A game nobody was IN for is closed without money.
LEMMA EmptyKeepsBooks ==
  ASSUME Inv, NEW g \in Game, SettleEmpty(g)
  PROVE  BooksKept /\ OldGamesKept
<1> DEFINE new == [NoClosure EXCEPT !.made = TRUE, !.num = NextNum]
<1>1. PICK Num, Who : closure \in [Game -> [made : BOOLEAN, num : Num, cost : Nat, perHead : Nat,
                                            collector : Who, paid : BOOLEAN]]
  BY DEF Inv, ClosureTyped
<1> DEFINE Type == [made : BOOLEAN, num : Num \cup {NextNum}, cost : Nat, perHead : Nat,
                    collector : Who \cup {NoOne}, paid : BOOLEAN]
<1>2. new \in Type /\ new.made
  BY DEF NoClosure
<1>3. closure \in [Game -> Type]
  BY <1>1
<1>4. closure' = [closure EXCEPT ![g] = new] /\ UNCHANGED <<charge, credit, gameFund>> /\ ~Closed(g)
  BY DEF SettleEmpty
<1> HIDE DEF new
<1>5. closure' \in [Game -> Type] /\ closure'[g] = new /\ \A h \in Game \ {g} : closure'[h] = closure[h]
  <2> HIDE DEF Type
  <2> QED  BY <1>2, <1>3, <1>4
<1>6. ClosureTyped'
  BY <1>5, Zenon DEF ClosureTyped
<1>7. LedgerTyped'
  BY <1>4 DEF Inv, LedgerTyped
<1>8. Closed(g)'
  BY <1>2, <1>5 DEF Closed
<1>9. BooksKept
  <2>1. \A h \in Game \ {g} : /\ closure'[h].made = closure[h].made
                               /\ charge'[h] = charge[h] /\ credit'[h] = credit[h]
                               /\ gameFund'[h] = gameFund[h]
    BY <1>4, <1>5
  <2> QED  BY <2>1, <1>6, <1>7, <1>8, OneGame, ZenonT(60)
<1>10. OldGamesKept
  BY <1>4, <1>5 DEF Inv, LedgerTyped, OldGamesKept, Closed
<1> QED  BY <1>9, <1>10

\* A cancellation, wherever it stops: only when all is reversed does the
\* closure go.
LEMMA CancelKeepsBooks ==
  ASSUME Inv, NEW g \in Game, CancelGame(g)
  PROVE  BooksKept /\ OldGamesKept
<1>1. PICK back \in SUBSET Charged(g), withdrawn \in SUBSET Credited(g), refunded \in BOOLEAN, done \in BOOLEAN :
        /\ withdrawn # {} \/ refunded => back = Charged(g)
        /\ refunded => withdrawn = Credited(g)
        /\ done => refunded
        /\ charge' = [charge EXCEPT ![g] = [p \in Person |-> IF p \in back THEN 0 ELSE @[p]]]
        /\ WriteCredits(g, CreditTarget(NoOne, FALSE, 0), withdrawn)
        /\ gameFund' = [gameFund EXCEPT ![g] = IF refunded THEN 0 ELSE @]
        /\ closure' = [closure EXCEPT ![g] = IF done THEN NoClosure ELSE @]
  BY DEF CancelGame
<1>2. Closed(g) /\ ~Predates(g)
  BY DEF CancelGame, Cancellable
<1>3. LedgerTyped /\ ClosureTyped
  BY DEF Inv
<1>4. /\ charge' \in [Game -> [Person -> Int]]
      /\ \A h \in Game \ {g} : charge'[h] = charge[h]
      /\ \A p \in Person : charge'[g][p] = IF p \in back THEN 0 ELSE charge[g][p]
  BY <1>1, <1>3 DEF LedgerTyped
<1>5. /\ credit' \in [Game -> [Person -> Int]]
      /\ \A h \in Game \ {g} : credit'[h] = credit[h]
      /\ \A p \in Person : credit'[g][p] =
           IF p \in withdrawn THEN CreditTarget(NoOne, FALSE, 0)[p] ELSE credit[g][p]
  <2>1. withdrawn \in SUBSET Person
    BY DEF Credited, CreditDeltas
  <2> DEFINE target == CreditTarget(NoOne, FALSE, 0)
  <2>2. target \in [Person -> Int]
    BY DEF CreditTarget
  <2>3. WriteCredits(g, target, withdrawn)
    BY <1>1
  <2> HIDE DEF target
  <2>4. /\ credit' \in [Game -> [Person -> Int]]
        /\ \A h \in Game \ {g} : credit'[h] = credit[h]
        /\ \A p \in Person : credit'[g][p] = IF p \in withdrawn THEN target[p] ELSE credit[g][p]
    BY <2>1, <2>2, <2>3, <1>3, WriteCreditsType
  <2> QED  BY <2>4 DEF target
<1>6. /\ gameFund' \in [Game -> Int]
      /\ \A h \in Game \ {g} : gameFund'[h] = gameFund[h]
      /\ gameFund'[g] = IF refunded THEN 0 ELSE gameFund[g]
  BY <1>1, <1>3 DEF LedgerTyped
<1>7. ClosureTyped' /\ \A h \in Game \ {g} : closure'[h] = closure[h]
  <2>1. PICK Num, Who : closure \in [Game -> [made : BOOLEAN, num : Num, cost : Nat, perHead : Nat,
                                              collector : Who, paid : BOOLEAN]]
    BY <1>3 DEF ClosureTyped
  <2> DEFINE Type == [made : BOOLEAN, num : Num \cup {0}, cost : Nat, perHead : Nat,
                      collector : Who \cup {NoOne}, paid : BOOLEAN]
  <2>2. NoClosure \in Type /\ closure \in [Game -> Type]
    BY <2>1 DEF NoClosure
  <2>3. closure' \in [Game -> Type] /\ \A h \in Game \ {g} : closure'[h] = closure[h]
    <3> HIDE DEF Type
    <3> QED  BY <2>2, <1>1
  <2>4. ClosureTyped'
    BY <2>3, Zenon DEF ClosureTyped
  <2> QED  BY <2>3, <2>4
<1>8. Closed(g)' \/ done
  BY <1>1, <1>2, <1>3 DEF Closed, ClosureTyped
<1>9. done => /\ \A p \in Person : charge'[g][p] = 0 /\ credit'[g][p] = 0
              /\ gameFund'[g] = 0
  <2>1. SUFFICES ASSUME done
                 PROVE  /\ \A p \in Person : charge'[g][p] = 0 /\ credit'[g][p] = 0
                        /\ gameFund'[g] = 0
    OBVIOUS
  <2>2. refunded /\ back = Charged(g) /\ withdrawn = Credited(g)
    BY <1>1, <2>1
  <2>3. \A p \in Person : CreditTarget(NoOne, FALSE, 0)[p] = 0
    BY DEF CreditTarget
  <2>4. \A p \in Person : charge'[g][p] = 0
    BY <1>4, <2>2 DEF Charged
  <2>5. \A p \in Person : credit'[g][p] = 0
    BY <1>5, <2>2, <2>3 DEF Credited, CreditDeltas
  <2> QED  BY <1>6, <2>2, <2>4, <2>5
<1>10. LedgerTyped'
  BY <1>4, <1>5, <1>6 DEF LedgerTyped
<1>11. BooksKept
  <2>1. \A h \in Game \ {g} : /\ closure'[h].made = closure[h].made
                               /\ charge'[h] = charge[h] /\ credit'[h] = credit[h]
                               /\ gameFund'[h] = gameFund[h]
    BY <1>4, <1>5, <1>6, <1>7
  <2> QED  BY <2>1, <1>7, <1>8, <1>9, <1>10, OneGame, ZenonT(60)
<1>12. OldGamesKept
  <2>1. \A h \in Game \ {g} : \A p \in Person : charge'[h][p] >= charge[h][p]
    BY <1>3, <1>4 DEF LedgerTyped
  <2> QED  BY <2>1, <1>2, <1>7 DEF OldGamesKept, Closed
<1> QED  BY <1>11, <1>12

\* A closed game's collector changes: its credit may move, nobody's charge.
LEMMA CollectorKeepsBooks ==
  ASSUME Inv, NEW g \in Game, Closed(g), NEW u \in User, NEW flag, CollectorOfClosed(g, u, flag)
  PROVE  BooksKept /\ OldGamesKept
<1> DEFINE paid == PaidFlag(u, flag, closure[g].collector, closure[g].paid)
           target == CreditTarget(u, paid, closure[g].cost)
<1>1. PICK written \in SUBSET Person, named \in BOOLEAN, done \in BOOLEAN :
        /\ WriteCredits(g, target, written)
        /\ closure' = [closure EXCEPT ![g] =
                         IF named THEN [@ EXCEPT !.collector = u, !.paid = paid] ELSE @]
        /\ UNCHANGED <<charge, gameFund>>
  BY DEF CollectorOfClosed
<1>2. PICK Num, Who : closure \in [Game -> [made : BOOLEAN, num : Num, cost : Nat, perHead : Nat,
                                            collector : Who, paid : BOOLEAN]]
  BY DEF Inv, ClosureTyped
<1> DEFINE Type == [made : BOOLEAN, num : Num, cost : Nat, perHead : Nat,
                    collector : Who \cup {u}, paid : BOOLEAN]
<1>3. closure[g].paid \in BOOLEAN /\ closure[g].cost \in Int
  BY <1>2
<1>4. paid \in BOOLEAN
  BY <1>3 DEF PaidFlag
<1>5. ClosureTyped' /\ \A h \in Game : closure'[h].made = closure[h].made
  <2> HIDE DEF paid
  <2>1. closure \in [Game -> Type] /\ [closure[g] EXCEPT !.collector = u, !.paid = paid] \in Type
    BY <1>2, <1>4
  <2>2. closure' \in [Game -> Type]
    <3> HIDE DEF Type
    <3> QED  BY <1>1, <2>1
  <2>3. \A h \in Game : closure'[h].made = closure[h].made
    BY <1>1, <1>2
  <2>4. ClosureTyped'
    BY <2>2, Zenon DEF ClosureTyped
  <2> QED  BY <2>3, <2>4
<1>6. credit' \in [Game -> [Person -> Int]] /\ \A h \in Game \ {g} : credit'[h] = credit[h]
  <2>1. LedgerTyped
    BY DEF Inv
  <2>2. target \in [Person -> Int]
    BY <1>3, <1>4, CreditTargetType
  <2> HIDE DEF target
  <2> QED  BY <2>1, <2>2, <1>1, WriteCreditsType
<1>7. LedgerTyped'
  BY <1>1, <1>6 DEF Inv, LedgerTyped
<1>8. BooksKept
  <2>1. Closed(g)'
    BY <1>5 DEF Closed
  <2>2. \A h \in Game \ {g} : /\ closure'[h].made = closure[h].made
                               /\ charge'[h] = charge[h] /\ credit'[h] = credit[h]
                               /\ gameFund'[h] = gameFund[h]
    BY <1>1, <1>5, <1>6
  <2> QED  BY <2>1, <2>2, <1>5, <1>7, OneGame, ZenonT(60)
<1>9. OldGamesKept
  BY <1>1, <1>5 DEF Inv, LedgerTyped, OldGamesKept, Closed
<1> QED  BY <1>8, <1>9

\* A late joiner is charged no less than before.
LEMMA AdhocKeepsBooks ==
  ASSUME Inv, NEW p \in Person, AddAdhoc(p)
  PROVE  BooksKept /\ OldGamesKept
<1>1. PICK g \in Closures, done \in BOOLEAN :
        /\ charge' = [charge EXCEPT ![g][p] = @ + closure[g].perHead]
        /\ gameFund' = [gameFund EXCEPT ![g] = IF done THEN @ + closure[g].perHead ELSE @]
        /\ UNCHANGED <<closure, credit>>
  BY DEF AddAdhoc
<1>2. g \in Game /\ Closed(g)
  BY DEF Closures
<1>3. closure[g].perHead \in Nat
  BY <1>2 DEF Inv, ClosureTyped
<1>4. LedgerTyped
  BY DEF Inv
<1>5. /\ charge' \in [Game -> [Person -> Int]]
      /\ \A h \in Game \ {g} : charge'[h] = charge[h]
      /\ \A q \in Person : charge'[g][q] >= charge[g][q]
  BY <1>1, <1>2, <1>3, <1>4 DEF LedgerTyped
<1>6. gameFund' \in [Game -> Int] /\ \A h \in Game \ {g} : gameFund'[h] = gameFund[h]
  BY <1>1, <1>2, <1>3, <1>4 DEF LedgerTyped
<1>7. LedgerTyped'
  BY <1>1, <1>4, <1>5, <1>6 DEF LedgerTyped
<1>8. ClosureTyped'
  BY <1>1 DEF Inv, ClosureTyped
<1>9. BooksKept
  <2>1. Closed(g)'
    BY <1>1, <1>2 DEF Closed
  <2>2. \A h \in Game \ {g} : /\ closure'[h].made = closure[h].made
                               /\ charge'[h] = charge[h] /\ credit'[h] = credit[h]
                               /\ gameFund'[h] = gameFund[h]
    BY <1>1, <1>5, <1>6
  <2> QED  BY <2>1, <2>2, <1>2, <1>7, <1>8, OneGame, ZenonT(60)
<1>10. OldGamesKept
  <2>1. \A h \in Game : \A q \in Person : charge'[h][q] >= charge[h][q]
    BY <1>4, <1>5 DEF LedgerTyped
  <2> QED  BY <2>1, <1>1 DEF OldGamesKept, Closed
<1> QED  BY <1>9, <1>10
-----------------------------------------------------------------------------
(* The other state, and the invariant.                                     *)

\* A game's row is replaced by one of its kind.
LEMMA RowType ==
  ASSUME Inv, NEW g \in Game, NEW row \in GameRow, game' = [game EXCEPT ![g] = row]
  PROVE  GameTyped'
BY DEF Inv, GameTyped

LEMMA EndType ==
  ASSUME Inv, NEW g \in Game, End(g)
  PROVE  GameTyped'
<1> DEFINE row == [game[g] EXCEPT !.life = "ended", !.ended = clock, !.dark = ~settings.on]
<1>1. game[g] \in GameRow /\ clock \in Nat
  BY DEF Inv, GameTyped
<1>2. row \in GameRow
  BY <1>1 DEF GameRow
<1>3. game' = [game EXCEPT ![g] = row]
  BY DEF End
<1> QED  BY <1>2, <1>3, RowType

\* A named collector is a member, and the flag a flag.
LEMMA CollectorType ==
  ASSUME Inv, NEW g \in Game, NEW u \in User, NEW paid \in BOOLEAN,
         \/ game' = [game EXCEPT ![g] = [@ EXCEPT !.collector = u, !.paid = paid]]
         \/ game' = game \/ game' = [game EXCEPT ![g] = @]
  PROVE  GameTyped'
<1> DEFINE row == [game[g] EXCEPT !.collector = u, !.paid = paid]
<1>1. game[g] \in GameRow /\ GameTyped
  BY DEF Inv, GameTyped
<1>2. row \in GameRow
  BY <1>1 DEF GameRow
<1>3. CASE game' = [game EXCEPT ![g] = row]
  BY <1>2, <1>3, RowType
<1>4. CASE game' = game \/ game' = [game EXCEPT ![g] = game[g]]
  BY <1>1, <1>4 DEF GameTyped
<1> QED  BY <1>3, <1>4

\* Naming a collector, by any of the three ways.
LEMMA NamingKeeps ==
  ASSUME Inv, NEW at \in Nat, NEW u \in User, NEW flag, NameCollector(at, u, flag)
  PROVE  GameTyped' /\ BooksKept /\ OldGamesKept
<1>1. CASE Active # {}
  <2>1. PICK g \in Active : CollectorOfActive(g, u, flag)
    BY <1>1 DEF NameCollector
  <2>2. UNCHANGED books
    BY <2>1 DEF CollectorOfActive
  <2>3. UNCHANGED <<closure, charge>>
    BY <2>2 DEF books
  <2>4. PaidFlag(u, flag, game[g].collector, game[g].paid) \in BOOLEAN
    BY <2>1 DEF PaidFlag, Active, Inv, GameTyped, GameRow
  <2>5. GameTyped'
    BY <2>1, <2>4, CollectorType DEF CollectorOfActive, Active
  <2> QED  BY <2>2, <2>3, <2>5, UnchangedBooks, UnchangedOldGames
<1>2. CASE Active = {}
  <2>1. PICK g \in Closures : CollectorOfClosed(g, u, flag)
    BY <1>2 DEF NameCollector
  <2>2. g \in Game /\ Closed(g)
    BY DEF Closures
  <2>3. BooksKept /\ OldGamesKept
    BY <2>1, <2>2, CollectorKeepsBooks
  <2>4. PaidFlag(u, flag, closure[g].collector, closure[g].paid) \in BOOLEAN
    BY <2>2 DEF PaidFlag, Inv, ClosureTyped
  <2> DEFINE paid == PaidFlag(u, flag, closure[g].collector, closure[g].paid)
  <2>5. \/ game' = [game EXCEPT ![g] = [@ EXCEPT !.collector = u, !.paid = paid]]
        \/ game' = game \/ game' = [game EXCEPT ![g] = @]
    BY <2>1 DEF CollectorOfClosed
  <2> HIDE DEF paid
  <2>6. GameTyped'
    BY <2>2, <2>4, <2>5, CollectorType DEF paid
  <2> QED  BY <2>3, <2>6
<1> QED  BY <1>1, <1>2

LEMMA CloseKeeps ==
  ASSUME Inv, NEW g \in Game, NEW s \in Subsidies, NEW step \in Steps, CloseGame(g, s, step)
  PROVE  GameTyped' /\ BooksKept /\ OldGamesKept
<1>1. s \in Int /\ step \in Nat \ {0} /\ CanClose(g, s)
  BY DuesAssumption DEF CloseGame
<1>2. CASE WriteClosureBatch(g, s, step) /\ (IF g \in Active THEN End(g) ELSE UNCHANGED game)
  <2>1. BooksKept /\ OldGamesKept
    BY <1>1, <1>2, BatchKeepsBooks
  <2>2. GameTyped'
    BY <1>2, EndType DEF Inv, GameTyped
  <2> QED  BY <2>1, <2>2
<1>3. CASE UNCHANGED books /\ (End(g) \/ UNCHANGED game)
  <2>1. UNCHANGED <<closure, charge>>
    BY <1>3 DEF books
  <2>2. GameTyped'
    BY <1>3, EndType DEF Inv, GameTyped
  <2> QED  BY <1>3, <2>1, <2>2, UnchangedBooks, UnchangedOldGames
<1>4. \/ WriteClosureBatch(g, s, step) /\ (IF g \in Active THEN End(g) ELSE UNCHANGED game)
      \/ UNCHANGED books /\ (End(g) \/ UNCHANGED game)
  BY DEF CloseGame
<1> QED  BY <1>2, <1>3, <1>4

\* A step that leaves the books alone.
LEMMA BooksAlone ==
  ASSUME Inv, UNCHANGED books
  PROVE  BooksKept /\ OldGamesKept
<1>1. UNCHANGED <<closure, charge>>
  BY DEF books
<1> QED  BY <1>1, UnchangedBooks, UnchangedOldGames

LEMMA CollectingKeeps ==
  ASSUME Inv, Collecting
  PROVE  GameTyped' /\ PromptsTyped' /\ BooksKept /\ OldGamesKept
<1>1. ASSUME NEW at \in 1..2, NEW u \in User, NEW flag, SetCollector(at, u, flag)
      PROVE  GameTyped' /\ PromptsTyped' /\ BooksKept /\ OldGamesKept
  <2>1. at \in Nat /\ NameCollector(at, u, flag) /\ prompts' = prompts
    BY <1>1 DEF SetCollector
  <2> QED  BY <2>1, NamingKeeps DEF PromptsTyped, Inv
<1>2. ASSUME NEW g \in Game, NEW u \in User, PickCollector(g, u)
      PROVE  GameTyped' /\ PromptsTyped' /\ BooksKept /\ OldGamesKept
  <2>1. PICK at \in 1..Cardinality(Active) :
          /\ NameCollector(at, u, "not paid")
          /\ prompts' \in {prompts, prompts \cup {[at |-> at, game |-> g, who |-> u]}}
    BY <1>2 DEF PickCollector
  <2>2. at \in Nat
    OBVIOUS
  <2>3. [at |-> at, game |-> g, who |-> u] \in [at : Nat, game : Game, who : User]
    BY <1>2, <2>2
  <2>4. prompts \subseteq [at : Nat, game : Game, who : User]
    BY DEF PromptsTyped, Inv
  <2>5. PromptsTyped'
    BY <2>1, <2>3, <2>4 DEF PromptsTyped
  <2> QED  BY <2>1, <2>2, <2>5, NamingKeeps
<1>3. ASSUME NEW prompt \in prompts, CollectorUpi(prompt)
      PROVE  GameTyped' /\ PromptsTyped' /\ BooksKept /\ OldGamesKept
  <2>1. prompt.at \in Nat /\ prompt.who \in User
    BY DEF Inv, PromptsTyped
  <2>2. NameCollector(prompt.at, prompt.who, "keep") /\ prompts' \subseteq prompts
    BY <1>3 DEF CollectorUpi
  <2>3. PromptsTyped'
    BY <2>2 DEF PromptsTyped, Inv
  <2> QED  BY <2>1, <2>2, <2>3, NamingKeeps
<1> QED  BY <1>1, <1>2, <1>3 DEF Collecting

LEMMA SettlingKeeps ==
  ASSUME Inv, Settling
  PROVE  GameTyped' /\ BooksKept /\ OldGamesKept
<1>1. ASSUME NEW g \in Game, NEW s \in Subsidies, NEW step \in Steps,
             SettleNow(g, s, step) \/ SettleConfirmed(g, s, step)
      PROVE  GameTyped' /\ BooksKept /\ OldGamesKept
  <2>1. CloseGame(g, s, step)
    BY <1>1 DEF SettleNow, SettleConfirmed
  <2> QED  BY <2>1, CloseKeeps
<1>2. ASSUME NEW g \in Game, SettleEmpty(g)
      PROVE  GameTyped' /\ BooksKept /\ OldGamesKept
  <2>1. game' = game
    BY <1>2 DEF SettleEmpty
  <2> QED  BY <1>2, <2>1, EmptyKeepsBooks DEF Inv, GameTyped
<1>3. ASSUME NEW g \in Game, CancelGame(g)
      PROVE  GameTyped' /\ BooksKept /\ OldGamesKept
  <2>1. game' = game
    BY <1>3 DEF CancelGame
  <2> QED  BY <1>3, <2>1, CancelKeepsBooks DEF Inv, GameTyped
<1>4. ASSUME NEW p \in Person, AddAdhoc(p)
      PROVE  GameTyped' /\ BooksKept /\ OldGamesKept
  <2>1. game' = game
    BY <1>4 DEF AddAdhoc
  <2> QED  BY <1>4, <2>1, AdhocKeepsBooks DEF Inv, GameTyped
<1> QED  BY <1>1, <1>2, <1>3, <1>4 DEF Settling

\* Money and switches touch no game.
LEMMA MoneyKeeps ==
  ASSUME Money \/ Switches
  PROVE  UNCHANGED <<game, books>>
<1>1. ASSUME NEW p \in Person, NEW a \in Amount,
             \/ MarkPenalty(p, a) \/ Waive(p, a) \/ MarkPaid(p, a) \/ PanelPaid(p, a)
             \/ Reimburse(p, a) \/ AdjustDues(p, a)
      PROVE  UNCHANGED <<game, books>>
  BY <1>1 DEF MarkPenalty, Waive, MarkPaid, PanelPaid, Reimburse, AdjustDues,
              Penalise, Forgive, Pay, PayInFull, Enter
<1>2. ASSUME NEW u \in User, NEW a \in Amount, SelfPaid(u, a)
      PROVE  UNCHANGED <<game, books>>
  BY <1>2 DEF SelfPaid, PayOwn, Pay, Enter
<1>3. ASSUME NEW a \in Amount, ImportDues(a) \/ LogExpense(a) \/ FundTopup(a)
      PROVE  UNCHANGED <<game, books>>
  BY <1>3 DEF ImportDues, LogExpense, FundTopup, Book
<1>4. ASSUME NEW zeroFund, NewSeason(zeroFund)
      PROVE  UNCHANGED <<game, books>>
  BY <1>4 DEF NewSeason
<1>5. CASE Switches
  BY <1>5 DEF Switches, EnableDues, EnableDuesOnWeb, DisableDues, RotateCollector
<1> QED  BY <1>1, <1>2, <1>3, <1>4, <1>5 DEF Money

LEMMA StartKeeps ==
  ASSUME Inv, NEW in \in Lineups, NEW fee \in Fee, StartGame(in, fee)
  PROVE  GameTyped' /\ UNCHANGED books
<1>1. PICK g \in Game : game' = [game EXCEPT ![g] = [@ EXCEPT !.life = "active", !.in = in, !.fee = fee]]
  BY DEF StartGame
<1> DEFINE row == [game[g] EXCEPT !.life = "active", !.in = in, !.fee = fee]
<1>2. game[g] \in GameRow
  BY DEF Inv, GameTyped
<1>3. in \in SUBSET Person /\ fee \in Nat
  BY DuesAssumption
<1>4. row \in GameRow
  BY <1>2, <1>3 DEF GameRow
<1>5. UNCHANGED books
  BY DEF StartGame
<1> QED  BY <1>1, <1>4, <1>5, RowType

LEMMA GamesKeep ==
  ASSUME Inv, Games
  PROVE  GameTyped' /\ UNCHANGED books
<1>1. ASSUME NEW g \in Game, NEW fee \in Fee, SetFee(g, fee)
      PROVE  GameTyped' /\ UNCHANGED books
  <2>1. game' = [game EXCEPT ![g] = [@ EXCEPT !.fee = fee]] /\ UNCHANGED books
    BY <1>1 DEF SetFee
  <2>2. game[g] \in GameRow /\ fee \in Nat
    BY DuesAssumption DEF Inv, GameTyped
  <2>3. [game[g] EXCEPT !.fee = fee] \in GameRow
    BY <2>2 DEF GameRow
  <2> QED  BY <2>1, <2>3, RowType
<1>2. ASSUME NEW g \in Game, EndGame(g) \/ EndAndSettle(g)
      PROVE  GameTyped' /\ UNCHANGED books
  BY <1>2, EndType DEF EndGame, EndAndSettle
<1>3. ASSUME NEW g \in Game, CancelRollcall(g)
      PROVE  GameTyped' /\ UNCHANGED books
  <2>1. game' = [game EXCEPT ![g] = [@ EXCEPT !.life = "cancelled", !.ended = clock]] /\ UNCHANGED books
    BY <1>3 DEF CancelRollcall
  <2>2. game[g] \in GameRow /\ clock \in Nat
    BY DEF Inv, GameTyped
  <2>3. [game[g] EXCEPT !.life = "cancelled", !.ended = clock] \in GameRow
    BY <2>2 DEF GameRow
  <2> QED  BY <2>1, <2>3, RowType
<1>4. ASSUME NEW g \in Game, OfferSettlement(g)
      PROVE  GameTyped' /\ UNCHANGED books
  BY <1>4 DEF OfferSettlement, Inv, GameTyped
<1> QED  BY <1>1, <1>2, <1>3, <1>4 DEF Games
-----------------------------------------------------------------------------
(* The books add up.                                                       *)

\* What Inv does not say of the types, and of a settled game's sums.
ClosureRow == [made : BOOLEAN, num : Nat, cost : Nat, perHead : Nat,
               collector : User \cup {NoOne}, paid : BOOLEAN]
SettingsRow == [on : BOOLEAN, epoch : Nat, rotation : BOOLEAN, lastTurn : User \cup {NoOne}]
EntriesTyped ==
  /\ other \in [Person -> Int] /\ fund \in Int
  /\ moves \in Nat /\ entries \in Nat
ChatTyped ==
  /\ settings \in SettingsRow
  /\ cards \subseteq Game
Sums ==
  /\ closure \in [Game -> ClosureRow] /\ torn \subseteq Game \X Torn
  /\ BooksBalance /\ CollectorCredited

LEMMA PeopleFinite == IsFiniteSet(Person) /\ IsFiniteSet(Game)
BY FS_Union, DuesAssumption DEF Person

\* The rotation's choice is a member.
LEMMA RotationType ==
  ASSUME NEW in \in SUBSET Person
  PROVE  NextRotationCollector(in) \in User \cup {NoOne}
<1> DEFINE real == in \cap User
           after == {u \in real : settings.lastTurn # NoOne /\ u > settings.lastTurn}
<1>1. real \in SUBSET Nat /\ after \in SUBSET Nat /\ real \subseteq User /\ after \subseteq User
  BY DuesAssumption
<1>2. NextRotationCollector(in) =
        IF real = {} THEN NoOne ELSE IF after = {} THEN Min(real) ELSE Min(after)
  BY DEF NextRotationCollector
<1> HIDE DEF real, after
<1>3. real # {} => Min(real) \in real
  BY <1>1, Smallest DEF Min
<1>4. after # {} => Min(after) \in after
  BY <1>1, Smallest DEF Min
<1> QED  BY <1>1, <1>2, <1>3, <1>4

\* A closure's number is one more than the greatest.
LEMMA NextNumType ==
  ASSUME closure \in [Game -> ClosureRow]
  PROVE  NextNum \in Nat
<1> DEFINE nums == {closure[g].num : g \in Game}
           all == nums \cup {0}
<1>1. IsFiniteSet(nums)
  <2> DEFINE num == [g \in Game |-> closure[g].num]
  <2>1. nums = {num[g] : g \in Game}
    OBVIOUS
  <2> HIDE DEF num
  <2> QED  BY <2>1, PeopleFinite, FiniteImage
<1>2. IsFiniteSet(all)
  BY <1>1, FS_AddElement
<1>3. all \in SUBSET Nat /\ all # {}
  BY DEF ClosureRow
<1>4. NextNum = 1 + Max(all)
  BY DEF NextNum
<1> HIDE DEF all
<1>5. Max(all) \in all
  <2>1. \E n \in all : \A m \in all : m <= n
    BY <1>2, <1>3, Largest
  <2>2. \E n \in all : \A m \in all : n >= m
    BY <1>3, <2>1
  <2> QED  BY <2>2 DEF Max
<1>6. \A n \in all : n \in Nat
  BY <1>3
<1> QED  BY <1>4, <1>5, <1>6

\* A step that leaves the books, and what is torn of them, alone.
LEMMA SumsAlone ==
  ASSUME Sums, UNCHANGED <<books, torn>>
  PROVE  Sums'
BY DEF Sums, books, BooksBalance, CollectorCredited, Closures, Closed

\* What one settled game's sums are.
GameSums(g) ==
  /\ <<g, "charges">> \notin torn => SumFunction(charge[g]) - gameFund[g] = closure[g].cost
  /\ <<g, "credit">> \notin torn =>
       credit[g] = CreditTarget(closure[g].collector, closure[g].paid, closure[g].cost)

\* A step that touches one game's books, and tears no other's.
LEMMA OneGameSums ==
  ASSUME Sums, NEW g \in Game, closure' \in [Game -> ClosureRow], torn' \subseteq Game \X Torn,
         \A h \in Game \ {g} : /\ closure'[h] = closure[h]
                               /\ charge'[h] = charge[h] /\ credit'[h] = credit[h]
                               /\ gameFund'[h] = gameFund[h]
                               /\ \A what \in Torn : <<h, what>> \in torn => <<h, what>> \in torn',
         Closed(g)' => GameSums(g)'
  PROVE  Sums'
<1>1. \A h \in Game \ {g} : Closed(h)' => Closed(h) /\ GameSums(h)'
  BY DEF Sums, BooksBalance, CollectorCredited, Closures, Closed, GameSums, Torn
<1>2. \A h \in Game : Closed(h)' => GameSums(h)'
  BY <1>1
<1> QED  BY <1>2 DEF Sums, BooksBalance, CollectorCredited, Closures, GameSums

\* Writing all credit rows that are missing leaves the target.
LEMMA AllCredits ==
  ASSUME LedgerTyped, NEW g \in Game, NEW target \in [Person -> Int],
         WriteCredits(g, target, CreditDeltas(g, target))
  PROVE  credit'[g] = target
<1>1. CreditDeltas(g, target) \in SUBSET Person
  BY DEF CreditDeltas
<1>2. credit' \in [Game -> [Person -> Int]]
      /\ \A p \in Person : credit'[g][p] = IF p \in CreditDeltas(g, target) THEN target[p] ELSE credit[g][p]
  BY <1>1, WriteCreditsType
<1>3. \A p \in Person : credit'[g][p] = target[p]
  BY <1>2 DEF CreditDeltas
<1> QED  BY <1>2, <1>3

\* The shares pay for the ground: cost less subsidy, and what rounding adds
\* goes to the fund.
LEMMA BatchSums ==
  ASSUME Inv, Sums, NEW g \in Game, NEW s \in Int, NEW step \in Nat \ {0},
         CanClose(g, s), WriteClosureBatch(g, s, step), torn' = torn
  PROVE  Sums'
<1> DEFINE cost == game[g].fee
           in == game[g].in
           n == Cardinality(in)
           perHead == PerHead(cost - s, n, step)
           who == CollectorOf(g).who
           paid == CollectorOf(g).paid
           new == [made |-> TRUE, num |-> NextNum, cost |-> cost, perHead |-> perHead,
                   collector |-> who, paid |-> paid]
           owed == [p \in Person |-> charge[g][p] + IF p \in in THEN perHead ELSE 0]
           target == CreditTarget(who, paid, cost)
           left == gameFund[g] - s + Remainder(perHead, n, cost, s)
<1>1. /\ cost \in Nat /\ in \in SUBSET Person /\ in # {} /\ game[g].paid \in BOOLEAN
      /\ game[g].collector \in User \cup {NoOne}
  BY DEF Inv, GameTyped, GameRow, CanClose
<1>2. n \in Nat \ {0}
  BY <1>1, HeadCount
<1>3. perHead \in Nat
  <2>1. cost - s \in Int
    BY <1>1
  <2> HIDE DEF n, cost
  <2> QED  BY <2>1, <1>2, PerHeadType, ZenonT(60)
<1>4. paid \in BOOLEAN /\ who \in User \cup {NoOne}
  BY <1>1, RotationType DEF CollectorOf
<1>5. /\ closure' = [closure EXCEPT ![g] = new]
      /\ charge' = [charge EXCEPT ![g] = owed]
      /\ WriteCredits(g, target, CreditDeltas(g, target))
      /\ gameFund' = [gameFund EXCEPT ![g] = left]
  BY DEF WriteClosureBatch
<1>6. LedgerTyped /\ (\A p \in Person : charge[g][p] = 0) /\ gameFund[g] = 0
  BY DEF Inv, ReopenedIsClean, CanClose
<1>7. owed \in [Person -> Int] /\ \A p \in Person : owed[p] = IF p \in in THEN perHead ELSE 0
  BY <1>3, <1>6
<1>8. target \in [Person -> Int]
  BY <1>1, <1>4, CreditTargetType
<1>9. NextNum \in Nat
  BY NextNumType DEF Sums
<1>10. new \in ClosureRow /\ new.cost = cost /\ new.collector = who /\ new.paid = paid
  BY <1>1, <1>3, <1>4, <1>9 DEF ClosureRow
<1>11. left = perHead * n - cost
  <2>1. left = 0 - s + (perHead * n - (cost - s)) /\ perHead * n \in Int
    BY <1>2, <1>3, <1>6 DEF Remainder
  <2> HIDE DEF left, perHead, n, cost
  <2> QED  BY <1>1, <2>1
<1>12. left \in Int
  BY <1>1, <1>2, <1>3, <1>11
<1> HIDE DEF cost, in, n, perHead, who, paid, new, owed, target, left
<1>13. /\ closure' \in [Game -> ClosureRow] /\ closure'[g] = new
       /\ \A h \in Game \ {g} : closure'[h] = closure[h]
  BY <1>5, <1>10 DEF Sums
<1>14. charge'[g] = owed /\ \A h \in Game \ {g} : charge'[h] = charge[h]
  BY <1>5, <1>6 DEF LedgerTyped
<1>15. gameFund'[g] = left /\ \A h \in Game \ {g} : gameFund'[h] = gameFund[h]
  BY <1>5, <1>6 DEF LedgerTyped
<1>16. credit'[g] = target /\ \A h \in Game \ {g} : credit'[h] = credit[h]
  <2>1. CreditDeltas(g, target) \in SUBSET Person
    BY DEF CreditDeltas
  <2>2. credit'[g] = target
    BY <1>5, <1>6, <1>8, AllCredits
  <2> QED  BY <1>5, <1>6, <1>8, <2>1, <2>2, WriteCreditsType
<1>17. SumFunction(owed) = perHead * n
  BY <1>1, <1>3, <1>7, PeopleFinite, SumWhere DEF n
<1>18. GameSums(g)'
  <2>1. SumFunction(charge'[g]) - gameFund'[g] = closure'[g].cost
    <3>1. perHead * n - (perHead * n - cost) = cost
      BY <1>1, <1>2, <1>3
    <3> QED  BY <1>10, <1>11, <1>13, <1>14, <1>15, <1>17, <3>1
  <2>2. credit'[g] = CreditTarget(closure'[g].collector, closure'[g].paid, closure'[g].cost)
    BY <1>10, <1>13, <1>16 DEF target
  <2> QED  BY <2>1, <2>2 DEF GameSums, CreditTarget
<1> QED  BY <1>13, <1>14, <1>15, <1>16, <1>18, OneGameSums DEF Sums

LEMMA EmptySums ==
  ASSUME Inv, Sums, NEW g \in Game, SettleEmpty(g)
  PROVE  Sums'
<1> DEFINE new == [NoClosure EXCEPT !.made = TRUE, !.num = NextNum]
<1>1. /\ closure' = [closure EXCEPT ![g] = new] /\ UNCHANGED <<charge, credit, gameFund, torn>>
      /\ ~Closed(g)
  BY DEF SettleEmpty
<1>2. NextNum \in Nat
  BY NextNumType DEF Sums
<1>3. new \in ClosureRow /\ new.cost = 0 /\ new.collector = NoOne /\ new.paid = FALSE
  BY <1>2 DEF NoClosure, ClosureRow
<1>4. /\ charge[g] \in [Person -> Int] /\ credit[g] \in [Person -> Int]
      /\ \A p \in Person : charge[g][p] = 0 /\ credit[g][p] = 0
      /\ gameFund[g] = 0
  BY <1>1 DEF Inv, LedgerTyped, ReopenedIsClean
<1> HIDE DEF new
<1>5. /\ closure' \in [Game -> ClosureRow] /\ closure'[g] = new
      /\ \A h \in Game \ {g} : closure'[h] = closure[h]
  BY <1>1, <1>3 DEF Sums
<1>6. GameSums(g)'
  <2>1. SumFunction(charge[g]) = 0
    BY <1>4, PeopleFinite, SumOfZeros
  <2>2. credit[g] = CreditTarget(NoOne, FALSE, 0)
    <3>1. credit[g] = [p \in Person |-> 0]
      BY <1>4
    <3> QED  BY <3>1 DEF CreditTarget
  <2>3. SumFunction(charge'[g]) - gameFund'[g] = closure'[g].cost
    BY <1>1, <1>3, <1>4, <1>5, <2>1
  <2>4. credit'[g] = CreditTarget(closure'[g].collector, closure'[g].paid, closure'[g].cost)
    BY <1>1, <1>3, <1>5, <2>2
  <2> QED  BY <2>3, <2>4 DEF GameSums, CreditTarget
<1> QED  BY <1>1, <1>5, <1>6, OneGameSums DEF Sums

\* A cancellation tears the game's sums unless it stops before the first row.
LEMMA CancelSums ==
  ASSUME Inv, Sums, NEW g \in Game, CancelGame(g)
  PROVE  Sums'
<1> DEFINE target == CreditTarget(NoOne, FALSE, 0)
<1>1. PICK back \in SUBSET Charged(g), withdrawn \in SUBSET Credited(g), refunded \in BOOLEAN, done \in BOOLEAN :
        /\ charge' = [charge EXCEPT ![g] = [p \in Person |-> IF p \in back THEN 0 ELSE @[p]]]
        /\ WriteCredits(g, target, withdrawn)
        /\ gameFund' = [gameFund EXCEPT ![g] = IF refunded THEN 0 ELSE @]
        /\ closure' = [closure EXCEPT ![g] = IF done THEN NoClosure ELSE @]
        /\ torn' = IF done THEN torn \ ({g} \X Torn)
                    ELSE torn \cup (IF back # {} \/ refunded THEN {<<g, "charges">>} ELSE {})
                              \cup (IF withdrawn # {} THEN {<<g, "credit">>} ELSE {})
  BY DEF CancelGame
<1>2. Closed(g) /\ LedgerTyped /\ target \in [Person -> Int]
  BY DEF CancelGame, Cancellable, Inv, CreditTarget
<1>3. NoClosure \in ClosureRow /\ ~NoClosure.made
  BY DEF NoClosure, ClosureRow
<1>4. /\ closure' \in [Game -> ClosureRow] /\ closure'[g] = IF done THEN NoClosure ELSE closure[g]
      /\ \A h \in Game \ {g} : closure'[h] = closure[h]
  <2>1. closure \in [Game -> ClosureRow]
    BY DEF Sums
  <2> HIDE DEF NoClosure, ClosureRow
  <2> QED  BY <1>1, <1>3, <2>1
<1>5. /\ \A h \in Game \ {g} : charge'[h] = charge[h] /\ gameFund'[h] = gameFund[h]
      /\ charge'[g] = [p \in Person |-> IF p \in back THEN 0 ELSE charge[g][p]]
      /\ gameFund'[g] = IF refunded THEN 0 ELSE gameFund[g]
  BY <1>1, <1>2 DEF LedgerTyped
<1>6. /\ \A h \in Game \ {g} : credit'[h] = credit[h]
      /\ credit' \in [Game -> [Person -> Int]]
      /\ \A p \in Person : credit'[g][p] = IF p \in withdrawn THEN target[p] ELSE credit[g][p]
  <2>1. withdrawn \in SUBSET Person
    BY DEF Credited, CreditDeltas
  <2> HIDE DEF target
  <2> QED  BY <1>1, <1>2, <2>1, WriteCreditsType
<1>7. torn' \subseteq Game \X Torn /\ \A h \in Game \ {g} : \A what \in Torn : <<h, what>> \in torn => <<h, what>> \in torn'
  <2>1. torn \subseteq Game \X Torn
    BY DEF Sums
  <2> QED  BY <1>1, <2>1 DEF Torn
<1>8. Closed(g)' => GameSums(g)'
  <2> SUFFICES ASSUME Closed(g)' PROVE GameSums(g)'
    OBVIOUS
  <2>1. ~done /\ closure'[g] = closure[g]
    BY <1>3, <1>4 DEF Closed
  <2>2. GameSums(g)
    BY <1>2 DEF Sums, BooksBalance, CollectorCredited, Closures, GameSums
  <2>3. ASSUME <<g, "charges">> \notin torn'
        PROVE  SumFunction(charge'[g]) - gameFund'[g] = closure'[g].cost
    <3>1. back = {} /\ ~refunded /\ <<g, "charges">> \notin torn
      BY <1>1, <2>1, <2>3
    <3>2. charge[g] \in [Person -> Int]
      BY <1>2 DEF LedgerTyped
    <3>3. charge'[g] = charge[g] /\ gameFund'[g] = gameFund[g]
      BY <1>5, <3>1, <3>2
    <3> QED  BY <2>1, <2>2, <3>1, <3>3 DEF GameSums
  <2>4. ASSUME <<g, "credit">> \notin torn'
        PROVE  credit'[g] = CreditTarget(closure'[g].collector, closure'[g].paid, closure'[g].cost)
    <3>1. withdrawn = {} /\ <<g, "credit">> \notin torn
      BY <1>1, <2>1, <2>4
    <3>2. credit[g] \in [Person -> Int] /\ credit'[g] \in [Person -> Int]
      BY <1>2, <1>6 DEF LedgerTyped
    <3>3. credit'[g] = credit[g]
      BY <1>6, <3>1, <3>2
    <3> QED  BY <2>1, <2>2, <3>1, <3>3 DEF GameSums
  <2> QED  BY <2>3, <2>4 DEF GameSums, CreditTarget
<1> HIDE DEF target
<1> QED  BY <1>4, <1>5, <1>6, <1>7, <1>8, OneGameSums DEF Sums

\* A collector's change moves the credit, and tears it only until it is named.
LEMMA CollectorSums ==
  ASSUME Inv, Sums, NEW g \in Game, Closed(g), NEW u \in User, NEW flag, CollectorOfClosed(g, u, flag)
  PROVE  Sums'
<1> DEFINE paid == PaidFlag(u, flag, closure[g].collector, closure[g].paid)
           target == CreditTarget(u, paid, closure[g].cost)
           new == [closure[g] EXCEPT !.collector = u, !.paid = paid]
<1>1. PICK written \in SUBSET Person, named \in BOOLEAN :
        /\ named => written = CreditDeltas(g, target)
        /\ WriteCredits(g, target, written)
        /\ closure' = [closure EXCEPT ![g] = IF named THEN new ELSE @]
        /\ torn' = IF named THEN torn \ {<<g, "credit">>}
                    ELSE IF written = {} THEN torn ELSE torn \cup {<<g, "credit">>}
        /\ UNCHANGED <<charge, gameFund>>
  BY DEF CollectorOfClosed
<1>2. closure[g] \in ClosureRow /\ LedgerTyped /\ torn \subseteq Game \X Torn
  BY DEF Sums, Inv
<1>3. paid \in BOOLEAN /\ closure[g].cost \in Int
  <2>1. closure[g].paid \in BOOLEAN /\ closure[g].cost \in Int
    BY <1>2 DEF ClosureRow
  <2> QED  BY <2>1 DEF PaidFlag
<1>4. target \in [Person -> Int]
  BY <1>3, CreditTargetType
<1> HIDE DEF paid
<1>5. new \in ClosureRow /\ new.collector = u /\ new.paid = paid /\ new.cost = closure[g].cost
  BY <1>2, <1>3 DEF ClosureRow
<1> HIDE DEF new, target
<1>6. /\ closure' \in [Game -> ClosureRow] /\ closure'[g] = IF named THEN new ELSE closure[g]
      /\ \A h \in Game \ {g} : closure'[h] = closure[h]
  BY <1>1, <1>5 DEF Sums
<1>7. /\ \A h \in Game \ {g} : credit'[h] = credit[h]
      /\ credit' \in [Game -> [Person -> Int]]
      /\ \A p \in Person : credit'[g][p] = IF p \in written THEN target[p] ELSE credit[g][p]
  BY <1>1, <1>2, <1>4, WriteCreditsType
<1>8. torn' \subseteq Game \X Torn /\ \A h \in Game \ {g} : \A what \in Torn : <<h, what>> \in torn => <<h, what>> \in torn'
  BY <1>1, <1>2 DEF Torn
<1>9. GameSums(g)
  BY DEF Sums, BooksBalance, CollectorCredited, Closures, GameSums
<1>10. GameSums(g)'
  <2>1. ASSUME <<g, "charges">> \notin torn'
        PROVE  SumFunction(charge'[g]) - gameFund'[g] = closure'[g].cost
    <3>1. <<g, "charges">> \notin torn /\ closure'[g].cost = closure[g].cost
      BY <1>1, <1>5, <1>6, <2>1
    <3> QED  BY <1>1, <1>9, <3>1 DEF GameSums
  <2>2. ASSUME <<g, "credit">> \notin torn'
        PROVE  credit'[g] = CreditTarget(closure'[g].collector, closure'[g].paid, closure'[g].cost)
    <3>1. CASE named
      <4>1. credit'[g] = target
        BY <1>1, <1>2, <1>4, <3>1, AllCredits
      <4> QED  BY <1>5, <1>6, <3>1, <4>1 DEF target
    <3>2. CASE ~named
      <4>1. written = {} /\ <<g, "credit">> \notin torn /\ closure'[g] = closure[g]
        BY <1>1, <1>6, <2>2, <3>2
      <4>2. credit[g] \in [Person -> Int] /\ credit'[g] \in [Person -> Int]
        BY <1>2, <1>7 DEF LedgerTyped
      <4>3. credit'[g] = credit[g]
        BY <1>7, <4>1, <4>2
      <4> QED  BY <1>9, <4>1, <4>3 DEF GameSums
    <3> QED  BY <3>1, <3>2
  <2> QED  BY <2>1, <2>2 DEF GameSums, CreditTarget
<1> QED  BY <1>1, <1>6, <1>7, <1>8, <1>10, OneGameSums DEF Sums

\* A late joiner's share goes to the fund, or tears the charges.
LEMMA AdhocSums ==
  ASSUME Inv, Sums, NEW p \in Person, AddAdhoc(p)
  PROVE  Sums'
<1>1. PICK g \in Closures, done \in BOOLEAN :
        /\ charge' = [charge EXCEPT ![g][p] = @ + closure[g].perHead]
        /\ gameFund' = [gameFund EXCEPT ![g] = IF done THEN @ + closure[g].perHead ELSE @]
        /\ torn' = IF done THEN torn ELSE torn \cup {<<g, "charges">>}
  BY DEF AddAdhoc
<1>2. g \in Game /\ Closed(g) /\ UNCHANGED <<closure, credit>>
  BY DEF AddAdhoc, Closures
<1> DEFINE share == closure[g].perHead
<1>3. share \in Nat /\ LedgerTyped /\ torn \subseteq Game \X Torn /\ closure \in [Game -> ClosureRow]
  BY <1>2 DEF Sums, Inv, ClosureRow
<1> HIDE DEF share
<1>4. /\ charge[g] \in [Person -> Int] /\ charge'[g] \in [Person -> Int]
      /\ charge'[g][p] = charge[g][p] + share
      /\ \A q \in Person \ {p} : charge'[g][q] = charge[g][q]
      /\ \A h \in Game \ {g} : charge'[h] = charge[h]
  <2>1. charge' = [charge EXCEPT ![g] = [charge[g] EXCEPT ![p] = charge[g][p] + share]]
    BY <1>1, <1>2, <1>3 DEF LedgerTyped, share
  <2> DEFINE row == [charge[g] EXCEPT ![p] = charge[g][p] + share]
  <2>2. charge[g] \in [Person -> Int] /\ row \in [Person -> Int]
    BY <1>2, <1>3 DEF LedgerTyped
  <2>3. row[p] = charge[g][p] + share /\ \A q \in Person \ {p} : row[q] = charge[g][q]
    BY <2>2
  <2> HIDE DEF row
  <2>4. charge'[g] = row /\ \A h \in Game \ {g} : charge'[h] = charge[h]
    BY <1>2, <1>3, <2>1 DEF LedgerTyped, row
  <2> QED  BY <2>2, <2>3, <2>4
<1>5. /\ gameFund'[g] = IF done THEN gameFund[g] + share ELSE gameFund[g]
      /\ \A h \in Game \ {g} : gameFund'[h] = gameFund[h]
  BY <1>1, <1>2, <1>3 DEF LedgerTyped, share
<1>6. GameSums(g)
  BY <1>2 DEF Sums, BooksBalance, CollectorCredited, Closures, GameSums
<1>7. GameSums(g)'
  <2>1. ASSUME <<g, "charges">> \notin torn'
        PROVE  SumFunction(charge'[g]) - gameFund'[g] = closure'[g].cost
    <3>1. done /\ <<g, "charges">> \notin torn
      BY <1>1, <2>1
    <3>2. SumFunction(charge'[g]) = SumFunction(charge[g]) + (charge'[g][p] - charge[g][p])
      BY <1>4, PeopleFinite, SumChange
    <3>3. charge[g][p] \in Int /\ SumFunction(charge[g]) \in Int /\ gameFund[g] \in Int
      BY <1>2, <1>3, <1>4, PeopleFinite, SumIsInt DEF LedgerTyped
    <3>4. SumFunction(charge[g]) - gameFund[g] = closure[g].cost
      BY <1>6, <3>1 DEF GameSums
    <3>5. gameFund'[g] = gameFund[g] + share /\ closure'[g].cost = closure[g].cost
      BY <1>2, <1>5, <3>1
    <3>6. charge'[g][p] - charge[g][p] = share
      BY <1>3, <1>4, <3>3
    <3> QED  BY <1>3, <3>2, <3>3, <3>4, <3>5, <3>6
  <2>2. <<g, "credit">> \notin torn' => <<g, "credit">> \notin torn
    BY <1>1
  <2> QED  BY <1>2, <1>6, <2>1, <2>2 DEF GameSums, CreditTarget
<1>8. torn' \subseteq Game \X Torn /\ \A h \in Game \ {g} : \A what \in Torn : <<h, what>> \in torn => <<h, what>> \in torn'
  BY <1>1, <1>2, <1>3 DEF Torn
<1> QED  BY <1>2, <1>3, <1>4, <1>5, <1>7, <1>8, OneGameSums

\* Any step keeps the sums.
LEMMA SumsKept == Inv /\ Sums /\ [Next]_vars => Sums'
<1> SUFFICES ASSUME Inv, Sums, [Next]_vars PROVE Sums'
  OBVIOUS
<1>1. ASSUME NEW at, NEW u \in User, NEW flag, NameCollector(at, u, flag) PROVE Sums'
  <2>1. CASE Active # {}
    BY <1>1, <2>1, SumsAlone DEF NameCollector, CollectorOfActive
  <2>2. CASE Active = {}
    BY <1>1, <2>2, CollectorSums DEF NameCollector, Closures
  <2> QED  BY <2>1, <2>2
<1>2. CASE Collecting
  <2>1. ASSUME NEW prompt \in prompts, CollectorUpi(prompt) PROVE Sums'
    <3>1. prompt.who \in User
      BY DEF Inv, PromptsTyped
    <3> QED  BY <1>1, <2>1, <3>1 DEF CollectorUpi
  <2> QED  BY <1>1, <1>2, <2>1 DEF Collecting, SetCollector, PickCollector
<1>3. ASSUME NEW g \in Game, NEW s \in Subsidies, NEW step \in Steps, CloseGame(g, s, step) PROVE Sums'
  <2>1. s \in Int /\ step \in Nat \ {0} /\ CanClose(g, s) /\ torn' = torn
    BY <1>3, DuesAssumption DEF CloseGame
  <2>2. CASE WriteClosureBatch(g, s, step)
    BY <2>1, <2>2, BatchSums
  <2>3. CASE UNCHANGED books
    BY <2>1, <2>3, SumsAlone
  <2> QED  BY <1>3, <2>2, <2>3 DEF CloseGame
<1>4. CASE Settling
  BY <1>3, <1>4, EmptySums, CancelSums, AdhocSums DEF Settling, SettleNow, SettleConfirmed
<1>5. CASE Money \/ Switches
  <2>1. torn' = torn
    <3>1. CASE Money
      BY <3>1 DEF Money, MarkPenalty, Waive, MarkPaid, PanelPaid, Reimburse, AdjustDues, Penalise,
                  Forgive, Pay, PayInFull, Enter, SelfPaid, PayOwn, ImportDues, LogExpense,
                  FundTopup, Book, NewSeason
    <3>2. CASE Switches
      BY <3>2 DEF Switches, EnableDues, EnableDuesOnWeb, DisableDues, RotateCollector
    <3> QED  BY <1>5, <3>1, <3>2
  <2>2. UNCHANGED books
    BY <1>5, MoneyKeeps
  <2> QED  BY <2>1, <2>2, SumsAlone
<1>6. CASE (\E in \in Lineups, fee \in Fee : StartGame(in, fee)) \/ Games \/ Tick \/ UNCHANGED vars
  <2>1. UNCHANGED <<books, torn>>
    BY <1>6 DEF StartGame, Games, SetFee, EndGame, EndAndSettle, CancelRollcall, OfferSettlement,
                Tick, vars
  <2> QED  BY <2>1, SumsAlone
<1> QED  BY <1>2, <1>4, <1>5, <1>6 DEF Next
-----------------------------------------------------------------------------
(* The entries that belong to no game, the chat's settings and cards.      *)

LEMMA BalanceTypes ==
  ASSUME LedgerTyped, EntriesTyped
  PROVE  /\ FundBalance \in Int /\ SumFunction(gameFund) \in Int
         /\ \A p \in Person : DuesBalance(p) \in Int
<1>1. SumFunction(gameFund) \in Int
  BY PeopleFinite, SumIsInt DEF LedgerTyped
<1>2. ASSUME NEW p \in Person PROVE DuesBalance(p) \in Int
  <2> DEFINE rows == [g \in Game |-> charge[g][p] + credit[g][p]]
  <2>1. rows \in [Game -> Int]
    BY DEF LedgerTyped
  <2> HIDE DEF rows
  <2>2. SumFunction(rows) \in Int
    BY <2>1, PeopleFinite, SumIsInt
  <2>3. DuesBalance(p) = other[p] + SumFunction(rows) /\ other[p] \in Int
    BY DEF DuesBalance, rows, EntriesTyped
  <2> QED  BY <2>2, <2>3
<1>3. FundBalance \in Int
  BY <1>1 DEF FundBalance, EntriesTyped
<1> QED  BY <1>1, <1>2, <1>3

\* The money of a step: what it enters and books are whole numbers.
MoneyTyped == other' \in [Person -> Int] /\ fund' \in Int

LEMMA EnterType ==
  ASSUME EntriesTyped, NEW p \in Person, NEW x \in Int, Enter(p, x)
  PROVE  other' \in [Person -> Int]
<1>1. other' = [other EXCEPT ![p] = other[p] + x] /\ other \in [Person -> Int]
  BY DEF Enter, EntriesTyped
<1>2. other[p] + x \in Int
  BY <1>1
<1> QED  BY <1>1, <1>2

LEMMA PayType ==
  ASSUME LedgerTyped, EntriesTyped, NEW p \in Person, NEW a \in Int, Pay(p, a)
  PROVE  MoneyTyped
<1>1. -a \in Int
  OBVIOUS
<1>2. other' \in [Person -> Int]
  BY <1>1, EnterType DEF Pay
<1> QED  BY <1>2 DEF MoneyTyped, Pay, EntriesTyped

LEMMA MoneyType ==
  ASSUME LedgerTyped, EntriesTyped, Money
  PROVE  MoneyTyped
<1>0. \A a \in Amount : a \in Int /\ -a \in Int /\ fund + a \in Int /\ fund - a \in Int /\ fund + (-a) \in Int
  BY DuesAssumption DEF EntriesTyped
<1>f. ASSUME NEW p \in Person, PayInFull(p) PROVE MoneyTyped
  BY <1>f, PayType, BalanceTypes DEF PayInFull
<1>1. ASSUME NEW p \in Person, NEW a \in Amount, MarkPenalty(p, a) \/ Waive(p, a) PROVE MoneyTyped
  <2>1. \/ Enter(p, a) /\ fund' \in {fund, fund + a}
        \/ Enter(p, -a) /\ fund' \in {fund, fund - a}
    BY <1>1 DEF MarkPenalty, Waive, Penalise, Forgive
  <2>2. other' \in [Person -> Int]
    BY <1>0, <2>1, EnterType
  <2>3. fund' \in Int
    BY <1>0, <2>1 DEF EntriesTyped
  <2> QED  BY <2>2, <2>3 DEF MoneyTyped
<1>2. ASSUME NEW p \in Person, NEW a \in Amount, MarkPaid(p, a) \/ PanelPaid(p, a) \/ Reimburse(p, a)
      PROVE  MoneyTyped
  BY <1>0, <1>2, <1>f, PayType DEF MarkPaid, PanelPaid, Reimburse
<1>3. ASSUME NEW p \in Person, NEW a \in Amount, AdjustDues(p, a) PROVE MoneyTyped
  <2>1. (Enter(p, a) \/ Enter(p, -a)) /\ fund' = fund
    BY <1>3 DEF AdjustDues
  <2>2. other' \in [Person -> Int]
    BY <1>0, <2>1, EnterType
  <2> QED  BY <2>1, <2>2 DEF MoneyTyped, EntriesTyped
<1>4. ASSUME NEW u \in User, NEW a \in Amount, SelfPaid(u, a) PROVE MoneyTyped
  <2> DEFINE x == Min({a, DuesBalance(u)})
  <2>1. u \in Person /\ a \in Int /\ DuesBalance(u) \in Int
    BY <1>0, BalanceTypes DEF Person
  <2>2. x \in Int
    <3>1. \E m \in {a, DuesBalance(u)} : \A n \in {a, DuesBalance(u)} : m <= n
      BY <2>1
    <3>2. x \in {a, DuesBalance(u)}
      BY <3>1 DEF Min
    <3> QED  BY <2>1, <3>2
  <2>3. Pay(u, x)
    BY <1>4 DEF SelfPaid, PayOwn
  <2> HIDE DEF x
  <2> QED  BY <2>1, <2>2, <2>3, PayType
<1>5. ASSUME NEW a \in Amount, ImportDues(a) PROVE MoneyTyped
  <2>1. PICK entered \in SUBSET Person :
          other' = [p \in Person |-> IF p \in entered THEN other[p] + a ELSE other[p]]
    BY <1>5 DEF ImportDues
  <2>2. fund' = fund
    BY <1>5 DEF ImportDues
  <2> QED  BY <1>0, <2>1, <2>2 DEF MoneyTyped, EntriesTyped
<1>6. ASSUME NEW a \in Amount, LogExpense(a) \/ FundTopup(a) PROVE MoneyTyped
  <2>1. other' = other /\ (fund' = fund + a \/ fund' = fund + (-a))
    BY <1>6 DEF LogExpense, FundTopup, Book
  <2> QED  BY <1>0, <2>1 DEF MoneyTyped, EntriesTyped
<1>7. ASSUME NEW zeroFund, NewSeason(zeroFund) PROVE MoneyTyped
  <2>1. PICK cleared \in SUBSET Person, zeroed \in BOOLEAN :
          /\ other' = [p \in Person |-> IF p \in cleared THEN other[p] - DuesBalance(p) ELSE other[p]]
          /\ fund' = IF zeroed THEN fund - FundBalance ELSE fund
    BY <1>7 DEF NewSeason
  <2>2. \A p \in Person : DuesBalance(p) \in Int /\ other[p] \in Int
    BY BalanceTypes DEF EntriesTyped
  <2>3. other' \in [Person -> Int]
    BY <2>1, <2>2
  <2>4. fund - FundBalance \in Int /\ fund \in Int
    BY BalanceTypes DEF EntriesTyped
  <2> QED  BY <2>1, <2>3, <2>4 DEF MoneyTyped
<1> QED  BY <1>1, <1>2, <1>3, <1>4, <1>5, <1>6, <1>7 DEF Money

LEMMA ChatKept == Inv /\ ChatTyped /\ [Next]_vars => ChatTyped'
<1> SUFFICES ASSUME Inv, ChatTyped, [Next]_vars PROVE ChatTyped'
  OBVIOUS
<1>0. /\ settings \in SettingsRow /\ cards \subseteq Game /\ clock \in Nat
      /\ StampedEpoch \in SettingsRow
  BY DEF Inv, ChatTyped, SettingsRow, StampedEpoch
<1>k. ASSUME settings' \in SettingsRow, cards' \subseteq Game PROVE ChatTyped'
  BY <1>k DEF ChatTyped
<1>1. CASE Collecting
  BY <1>0, <1>1, <1>k DEF Collecting, SetCollector, PickCollector, CollectorUpi, NameCollector
<1>2. CASE Settling
  <2>1. ASSUME NEW g \in Game, NEW s \in Subsidies, NEW step \in Steps, CloseGame(g, s, step)
        PROVE  ChatTyped'
    <3> DEFINE who == CollectorOf(g).who
    <3>1. settings' = settings \/ settings' = [settings EXCEPT !.lastTurn = who]
      BY <2>1 DEF CloseGame, TakeTurn
    <3>2. game[g].in \in SUBSET Person /\ game[g].collector \in User \cup {NoOne}
      BY DEF Inv, GameTyped, GameRow
    <3>3. who \in User \cup {NoOne}
      BY <3>2, RotationType DEF CollectorOf
    <3> HIDE DEF who
    <3>4. settings' \in SettingsRow
      BY <1>0, <3>1, <3>3 DEF SettingsRow
    <3> QED  BY <1>0, <1>k, <2>1, <3>4 DEF CloseGame
  <2>2. ASSUME NEW g \in Game, SettleEmpty(g) \/ CancelGame(g) PROVE ChatTyped'
    BY <1>0, <1>k, <2>2 DEF SettleEmpty, CancelGame
  <2>3. ASSUME NEW p \in Person, AddAdhoc(p) PROVE ChatTyped'
    BY <1>0, <1>k, <2>3 DEF AddAdhoc
  <2> QED  BY <1>2, <2>1, <2>2, <2>3 DEF Settling, SettleNow, SettleConfirmed
<1>3. CASE Money
  <2>1. cards' = cards /\ (settings' = settings \/ settings' = StampedEpoch)
    BY <1>3 DEF Money, MarkPenalty, Waive, MarkPaid, PanelPaid, Reimburse, AdjustDues, Penalise,
                Forgive, Pay, PayInFull, Enter, SelfPaid, PayOwn, ImportDues, LogExpense,
                FundTopup, Book, NewSeason
  <2> QED  BY <1>0, <1>k, <2>1
<1>4. CASE Switches
  <2>1. cards' = cards
    BY <1>4 DEF Switches, EnableDues, EnableDuesOnWeb, DisableDues, RotateCollector
  <2>2. \E old \in {settings, StampedEpoch}, on \in BOOLEAN :
          settings' = [old EXCEPT !.on = on] \/ settings' = [old EXCEPT !.rotation = on]
    BY <1>4 DEF Switches, EnableDues, EnableDuesOnWeb, DisableDues, RotateCollector
  <2>3. PICK old \in {settings, StampedEpoch}, on \in BOOLEAN :
          settings' = [old EXCEPT !.on = on] \/ settings' = [old EXCEPT !.rotation = on]
    BY <2>2
  <2>4. old \in SettingsRow
    BY <1>0
  <2>5. settings' \in SettingsRow
    BY <2>3, <2>4 DEF SettingsRow
  <2> QED  BY <1>0, <1>k, <2>1, <2>5
<1>5. CASE (\E in \in Lineups, fee \in Fee : StartGame(in, fee)) \/ Tick \/ UNCHANGED vars
  BY <1>0, <1>5, <1>k DEF StartGame, Tick, vars
<1>6. CASE Games
  <2>1. settings' = settings /\ \E more \in SUBSET Game : cards' = cards \cup more
    BY <1>0, <1>6 DEF Games, SetFee, EndGame, EndAndSettle, CancelRollcall, OfferSettlement
  <2> QED  BY <1>0, <1>k, <2>1
<1> QED  BY <1>1, <1>2, <1>3, <1>4, <1>5, <1>6 DEF Next

LEMMA EntriesKept == Inv /\ EntriesTyped /\ [Next]_vars => EntriesTyped'
<1> SUFFICES ASSUME Inv, EntriesTyped, [Next]_vars PROVE EntriesTyped'
  OBVIOUS
<1>1. moves' \in Nat /\ entries' \in Nat
  <2>1. moves \in Nat /\ entries \in Nat
    BY DEF EntriesTyped
  <2>2. (moves' = moves \/ moves' = moves + 1) /\ (entries' = entries \/ entries' = entries + 1)
    BY DEF Next, Games, Tick, vars
  <2> QED  BY <2>1, <2>2
<1>2. CASE Money
  BY <1>1, <1>2, MoneyType DEF Inv, MoneyTyped, EntriesTyped
<1>3. ASSUME ~Money PROVE UNCHANGED <<other, fund>>
  <2>1. CASE Collecting
    BY <2>1 DEF Collecting, SetCollector, PickCollector, CollectorUpi, NameCollector
  <2>2. CASE Settling
    BY <2>2 DEF Settling, SettleNow, SettleConfirmed, CloseGame, SettleEmpty, CancelGame, AddAdhoc
  <2>3. CASE Switches
    BY <2>3 DEF Switches, EnableDues, EnableDuesOnWeb, DisableDues, RotateCollector
  <2>4. CASE (\E in \in Lineups, fee \in Fee : StartGame(in, fee)) \/ Games \/ Tick \/ UNCHANGED vars
    BY <2>4 DEF StartGame, Games, SetFee, EndGame, EndAndSettle, CancelRollcall, OfferSettlement,
                Tick, vars
  <2> QED  BY <1>3, <2>1, <2>2, <2>3, <2>4 DEF Next
<1> QED  BY <1>1, <1>2, <1>3 DEF EntriesTyped
-----------------------------------------------------------------------------
(* Closing spares the fund.                                                *)

\* Rounded up, the shares cover what they divide.
LEMMA CeilDivCovers ==
  ASSUME NEW a \in Int, NEW b \in Nat \ {0}
  PROVE  a <= CeilDiv(a, b) * b
<1> DEFINE q == (a + b - 1) \div b
           r == (a + b - 1) % b
<1>1. q \in Int /\ r \in Int /\ r < b /\ a + b - 1 = b * q + r
  OBVIOUS
<1>2. b * q \in Int /\ b * q = q * b
  BY <1>1
<1>3. CeilDiv(a, b) = q
  BY DEF CeilDiv
<1> HIDE DEF q, r
<1> QED  BY <1>1, <1>2, <1>3

LEMMA SharesCover ==
  ASSUME NEW net \in Int, NEW n \in Nat \ {0}, NEW step \in Nat \ {0}
  PROVE  net <= PerHead(net, n, step) * n
<1> DEFINE each == CeilDiv(net, n)
           up == CeilDiv(each, step) * step
           share == PerHead(net, n, step)
<1>1. each \in Int /\ CeilDiv(each, step) \in Int /\ up \in Int
  BY CeilDivType
<1>2. net <= each * n
  BY CeilDivCovers
<1>3. each <= up
  BY <1>1, CeilDivCovers
<1>4. up <= share /\ share \in Nat
  <2>1. share = Max({0, up})
    BY DEF PerHead
  <2>2. \E m \in {0, up} : \A k \in {0, up} : m >= k
    BY <1>1
  <2> HIDE DEF up, share
  <2>3. share \in {0, up} /\ share >= 0 /\ share >= up
    BY <2>1, <2>2 DEF Max
  <2> QED  BY <1>1, <2>3
<1> HIDE DEF each, up, share
<1>5. each <= share
  BY <1>1, <1>3, <1>4
<1>6. each * n <= share * n /\ each * n \in Int /\ share * n \in Int
  BY <1>1, <1>4, <1>5
<1> QED  BY <1>2, <1>6 DEF share

\* A closing takes from the fund at most the subsidy, and that it has.
LEMMA BatchSparesFund ==
  ASSUME Inv, EntriesTyped, NEW g \in Game, NEW s \in Int, NEW step \in Nat \ {0},
         CanClose(g, s), WriteClosureBatch(g, s, step), fund' = fund
  PROVE  FundBalance' >= Min({0, FundBalance})
<1> DEFINE cost == game[g].fee
           n == Cardinality(game[g].in)
           perHead == PerHead(cost - s, n, step)
           left == gameFund[g] - s + Remainder(perHead, n, cost, s)
           total == SumFunction(gameFund)
<1>1. /\ cost \in Nat /\ game[g].in \in SUBSET Person /\ game[g].in # {}
      /\ ~Closed(g) /\ s \in 0..MaxSubsidy(cost)
  BY DEF Inv, GameTyped, GameRow, CanClose
<1>2. n \in Nat \ {0}
  BY <1>1, HeadCount
<1>3. perHead \in Nat /\ cost - s <= perHead * n
  <2>1. cost - s \in Int
    BY <1>1
  <2> HIDE DEF n, cost
  <2>2. perHead \in Nat
    BY <2>1, <1>2, PerHeadType, ZenonT(60)
  <2>3. cost - s <= perHead * n
    BY <2>1, <1>2, SharesCover, ZenonT(60)
  <2> QED  BY <2>2, <2>3
<1>4. gameFund \in [Game -> Int] /\ gameFund[g] = 0
  BY <1>1 DEF Inv, LedgerTyped, ReopenedIsClean
<1>5. gameFund' = [gameFund EXCEPT ![g] = left]
  BY DEF WriteClosureBatch
<1>6. left \in Int /\ left >= -s
  <2>1. left = 0 - s + (perHead * n - (cost - s)) /\ perHead * n \in Int
    BY <1>2, <1>3, <1>4 DEF Remainder
  <2> HIDE DEF left, perHead, n, cost
  <2> QED  BY <1>1, <1>3, <2>1
<1>7. FundBalance = fund + total /\ total \in Int /\ fund \in Int /\ FundBalance \in Int
  BY BalanceTypes DEF FundBalance, Inv, EntriesTyped
<1> HIDE DEF left, total, perHead, n, cost
<1>8. gameFund' \in [Game -> Int] /\ gameFund'[g] = left /\ \A h \in Game \ {g} : gameFund'[h] = gameFund[h]
  BY <1>4, <1>5, <1>6
<1>9. SumFunction(gameFund') = total + (left - 0)
  BY <1>4, <1>8, PeopleFinite, SumChange DEF total
<1>10. FundBalance' = fund + (total + left)
  BY <1>6, <1>7, <1>9 DEF FundBalance
<1>11. FundBalance' \in Int /\ FundBalance' >= FundBalance - s
  BY <1>6, <1>7, <1>10
<1>12. s = 0 \/ s <= FundBalance
  <2> DEFINE m == Min({cost, FundBalance})
             top == Max({0, m})
  <2>1. \E x \in {cost, FundBalance} : \A y \in {cost, FundBalance} : x <= y
    BY <1>1, <1>7
  <2>2. m \in {cost, FundBalance} /\ m <= FundBalance
    BY <2>1 DEF Min
  <2>3. m \in Int
    BY <1>1, <1>7, <2>2
  <2> HIDE DEF m
  <2>4. \E x \in {0, m} : \A y \in {0, m} : x >= y
    BY <2>3
  <2>5. top \in {0, m}
    BY <2>4 DEF Max
  <2>6. MaxSubsidy(cost) = top
    BY DEF MaxSubsidy, top, m
  <2> HIDE DEF top
  <2> QED  BY <1>1, <1>7, <2>2, <2>3, <2>5, <2>6
<1>13. s \in Nat
  BY <1>1
<1>14. Min({0, FundBalance}) \in Int /\ Min({0, FundBalance}) <= 0 /\ Min({0, FundBalance}) <= FundBalance
  <2>1. \E x \in {0, FundBalance} : \A y \in {0, FundBalance} : x <= y
    BY <1>7
  <2>2. /\ Min({0, FundBalance}) \in {0, FundBalance}
        /\ Min({0, FundBalance}) <= 0 /\ Min({0, FundBalance}) <= FundBalance
    BY <2>1 DEF Min
  <2> QED  BY <1>7, <2>2
<1> QED  BY <1>7, <1>11, <1>12, <1>13, <1>14

\* The action of ClosingSparesFund.
LEMMA ClosingStep ==
  ASSUME Inv, Sums, EntriesTyped, [Next]_vars, NEW g \in Game, ~Closed(g), Closed(g)'
  PROVE  FundBalance' >= Min({0, FundBalance})
<1>0. closure \in [Game -> ClosureRow] /\ ~closure[g].made /\ closure'[g].made
  BY DEF Sums, Closed
<1>1. ASSUME NEW at, NEW u \in User, NEW flag, NameCollector(at, u, flag) PROVE FALSE
  <2>1. CASE Active # {}
    BY <1>0, <1>1, <2>1 DEF NameCollector, CollectorOfActive, books
  <2>2. CASE Active = {}
    <3>1. PICK h \in Game : CollectorOfClosed(h, u, flag) /\ Closed(h)
      BY <1>1, <2>2 DEF NameCollector, Closures
    <3> DEFINE paid == PaidFlag(u, flag, closure[h].collector, closure[h].paid)
    <3>2. PICK row \in {closure[h], [closure[h] EXCEPT !.collector = u, !.paid = paid]} :
            closure' = [closure EXCEPT ![h] = row]
      BY <3>1 DEF CollectorOfClosed
    <3>3. h # g
      BY <1>0, <3>1 DEF Closed
    <3> QED  BY <1>0, <3>2, <3>3
  <2> QED  BY <2>1, <2>2
<1>2. ASSUME Collecting PROVE FALSE
  <2>1. ASSUME NEW prompt \in prompts, CollectorUpi(prompt) PROVE FALSE
    <3>1. prompt.who \in User
      BY DEF Inv, PromptsTyped
    <3> QED  BY <1>1, <2>1, <3>1 DEF CollectorUpi
  <2> QED  BY <1>1, <1>2, <2>1 DEF Collecting, SetCollector, PickCollector
<1>3. ASSUME UNCHANGED books PROVE FALSE
  BY <1>0, <1>3 DEF books
<1>4. CASE Settling
  <2>1. ASSUME NEW h \in Game, NEW s \in Subsidies, NEW step \in Steps, CloseGame(h, s, step)
        PROVE  FundBalance' >= Min({0, FundBalance})
    <3>1. s \in Int /\ step \in Nat \ {0} /\ CanClose(h, s) /\ fund' = fund
      BY <2>1, DuesAssumption DEF CloseGame
    <3>2. WriteClosureBatch(h, s, step)
      BY <1>3, <2>1 DEF CloseGame
    <3> QED  BY <3>1, <3>2, BatchSparesFund
  <2>2. ASSUME NEW h \in Game, SettleEmpty(h) PROVE FundBalance' >= Min({0, FundBalance})
    <3>1. FundBalance' = FundBalance
      BY <2>2 DEF SettleEmpty, FundBalance
    <3>2. FundBalance \in Int
      BY BalanceTypes DEF Inv
    <3>3. \E x \in {0, FundBalance} : \A y \in {0, FundBalance} : x <= y
      BY <3>2
    <3>4. Min({0, FundBalance}) <= FundBalance /\ Min({0, FundBalance}) \in {0, FundBalance}
      BY <3>3 DEF Min
    <3> QED  BY <3>1, <3>2, <3>4
  <2>3. ASSUME NEW h \in Game, CancelGame(h) PROVE FALSE
    <3>1. closure' = [closure EXCEPT ![h] = NoClosure] \/ closure' = [closure EXCEPT ![h] = closure[h]]
      BY <2>3 DEF CancelGame
    <3>2. ~NoClosure.made
      BY DEF NoClosure
    <3> HIDE DEF NoClosure
    <3> QED  BY <1>0, <3>1, <3>2
  <2>4. ASSUME NEW p \in Person, AddAdhoc(p) PROVE FALSE
    BY <1>0, <2>4 DEF AddAdhoc
  <2> QED  BY <1>4, <2>1, <2>2, <2>3, <2>4 DEF Settling, SettleNow, SettleConfirmed
<1>5. CASE Money \/ Switches
  BY <1>3, <1>5, MoneyKeeps
<1>6. CASE (\E in \in Lineups, fee \in Fee : StartGame(in, fee)) \/ Games \/ Tick \/ UNCHANGED vars
  BY <1>3, <1>6 DEF StartGame, Games, SetFee, EndGame, EndAndSettle, CancelRollcall, OfferSettlement,
                    Tick, vars
<1> QED  BY <1>2, <1>4, <1>5, <1>6 DEF Next

\* All that the books' correctness rests on.
BooksInv == Inv /\ Sums /\ EntriesTyped /\ ChatTyped
-----------------------------------------------------------------------------
LEMMA InitInv == Init => Inv
<1> SUFFICES ASSUME Init PROVE Inv
  OBVIOUS
<1>1. GameTyped
  BY DEF Init, GameTyped, GameRow
<1>2. ClosureTyped
  <2>1. closure \in [Game -> [made : BOOLEAN, num : Nat, cost : Nat, perHead : Nat,
                              collector : {NoOne}, paid : BOOLEAN]]
    BY DEF Init, NoClosure
  <2> QED  BY <2>1, Zenon DEF ClosureTyped
<1>3. LedgerTyped /\ PromptsTyped /\ ReopenedIsClean
  BY DEF Init, LedgerTyped, PromptsTyped, ReopenedIsClean
<1>4. clock \in Nat
  BY DEF Init
<1> QED  BY <1>1, <1>2, <1>3, <1>4 DEF Inv

LEMMA NextInv == Inv /\ [Next]_vars => Inv' /\ OldGamesKept
<1> SUFFICES ASSUME Inv, [Next]_vars PROVE Inv' /\ OldGamesKept
  OBVIOUS
<1>1. CASE Collecting /\ UNCHANGED clock
  BY <1>1, CollectingKeeps DEF Inv, BooksKept
<1>2. CASE Settling /\ UNCHANGED <<prompts, clock>>
  <2>1. PromptsTyped' /\ clock' \in Nat
    BY <1>2 DEF Inv, PromptsTyped
  <2> QED  BY <1>2, <2>1, SettlingKeeps DEF Inv, BooksKept
<1>3. CASE (Money \/ Switches) /\ UNCHANGED <<prompts, clock>>
  <2>1. UNCHANGED <<game, books>>
    BY <1>3, MoneyKeeps
  <2>2. GameTyped' /\ PromptsTyped' /\ clock' \in Nat
    BY <1>3, <2>1 DEF Inv, GameTyped, PromptsTyped
  <2> QED  BY <2>1, <2>2, BooksAlone DEF Inv, BooksKept
<1>4. CASE (\E in \in Lineups, fee \in Fee : StartGame(in, fee)) /\ UNCHANGED <<prompts, clock>>
  <2>1. GameTyped' /\ UNCHANGED books
    BY <1>4, StartKeeps
  <2>2. PromptsTyped' /\ clock' \in Nat
    BY <1>4 DEF Inv, PromptsTyped
  <2> QED  BY <2>1, <2>2, BooksAlone DEF Inv, BooksKept
<1>5. CASE Games /\ UNCHANGED <<prompts, clock>>
  <2>1. GameTyped' /\ UNCHANGED books
    BY <1>5, GamesKeep
  <2>2. PromptsTyped' /\ clock' \in Nat
    BY <1>5 DEF Inv, PromptsTyped
  <2> QED  BY <2>1, <2>2, BooksAlone DEF Inv, BooksKept
<1>6. CASE Tick
  <2>1. UNCHANGED <<game, books, prompts>> /\ clock' = clock + 1
    BY <1>6 DEF Tick
  <2>2. GameTyped' /\ PromptsTyped' /\ clock' \in Nat
    BY <2>1 DEF Inv, GameTyped, PromptsTyped
  <2> QED  BY <2>1, <2>2, BooksAlone DEF Inv, BooksKept
<1>7. CASE UNCHANGED vars
  <2>1. UNCHANGED <<game, books, prompts, clock>>
    BY <1>7 DEF vars
  <2>2. GameTyped' /\ PromptsTyped' /\ clock' \in Nat
    BY <2>1 DEF Inv, GameTyped, PromptsTyped
  <2> QED  BY <2>1, <2>2, BooksAlone DEF Inv, BooksKept
<1> QED  BY <1>1, <1>2, <1>3, <1>4, <1>5, <1>6, <1>7 DEF Next

(* Types, closures and clean books in every reachable state.               *)
THEOREM BooksInvariant == Spec => []Inv
<1> QED  BY InitInv, NextInv, PTL DEF Spec

(* A game without a closure charges and credits nobody, for any games,     *)
(* people and amounts, wherever its operations stopped.                    *)
THEOREM CleanWhenReopened == Spec => []ReopenedIsClean
<1>1. Inv => ReopenedIsClean
  BY DEF Inv
<1> QED  BY <1>1, BooksInvariant, PTL

(* A game of an earlier season keeps its closure and its charges.          *)
THEOREM EarlierSeasonsKept == Spec => OldSeasonKept
<1>1. OldGamesKept => \A g \in Game : Closed(g) /\ Predates(g) =>
       Closed(g)' /\ \A p \in Person : charge'[g][p] >= charge[g][p]
  BY DEF OldGamesKept
<1> QED  BY <1>1, InitInv, NextInv, PTL DEF Spec, OldSeasonKept

LEMMA BooksInit == Init => BooksInv
<1> SUFFICES ASSUME Init PROVE BooksInv
  OBVIOUS
<1>1. closure \in [Game -> ClosureRow] /\ Closures = {} /\ torn = {}
  BY DEF Init, NoClosure, ClosureRow, Closures, Closed
<1>2. Sums
  BY <1>1 DEF Sums, BooksBalance, CollectorCredited
<1>3. EntriesTyped /\ ChatTyped
  BY DEF Init, EntriesTyped, ChatTyped, SettingsRow
<1> QED  BY <1>2, <1>3, InitInv DEF BooksInv

LEMMA BooksNext == BooksInv /\ [Next]_vars => BooksInv'
BY NextInv, SumsKept, EntriesKept, ChatKept DEF BooksInv

(* The books add up, for any games, people, fees, subsidies, steps and     *)
(* amounts, wherever operations stopped: what a settled game's members owe *)
(* is its cost less what the fund gave or plus what it gained, and exactly *)
(* the collector who fronted it holds its cost as credit                   *)
(* (services/dues._close_game, cancel_game_dues, set_collector).           *)
THEOREM BooksAddUp == Spec => []BooksOK
<1>1. BooksInv => BooksOK
  BY DEF BooksInv, Inv, GameTyped, GameRow, LedgerTyped, PromptsTyped, Sums, ClosureRow,
         EntriesTyped, ChatTyped, SettingsRow, BooksOK, DuesTypeOK
<1> QED  BY <1>1, BooksInit, BooksNext, PTL DEF Spec

(* Settling never takes the fund below zero, and nothing from an overdrawn *)
(* one: a share rounded up covers what it divides, so the fund loses at    *)
(* most the subsidy, and the subsidy is what the fund has.                 *)
THEOREM ClosingKeepsFund == Spec => ClosingSparesFund
<1>1. BooksInv /\ [Next]_vars =>
        [\A g \in Game : ~Closed(g) /\ Closed(g)' => FundBalance' >= Min({0, FundBalance})]_vars
  BY ClosingStep DEF BooksInv
<1> QED  BY <1>1, BooksInit, BooksNext, PTL DEF Spec, ClosingSparesFund
=============================================================================
