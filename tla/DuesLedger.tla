----------------------------- MODULE DuesLedger -----------------------------
(***************************************************************************)
(* Dues and treasury of one chat: games that are settled, cancelled and    *)
(* settled again, the members' append-only ledger, the group's fund, the   *)
(* collector who fronted the ground, and the season reset                  *)
(* (services/dues.py, the dues tables of db.py, handlers/dues.py,          *)
(* api/routes/dues.py).                                                    *)
(*                                                                         *)
(* The code only ever reads sums of ledger rows, so the rows are kept here *)
(* as their sums: per game and person what the game charges and what       *)
(* collector credit stands, per person the rest, and the fund likewise.    *)
(*                                                                         *)
(* Every operation runs without giving up the event loop, so operations do *)
(* not interleave; but each row is a transaction of its own, and a failed  *)
(* write or the death of the process leaves the rows written so far.  An   *)
(* operation of several rows is an action that may stop after any of them; *)
(* "done" says that it did not.                                            *)
(***************************************************************************)
EXTENDS Integers, FiniteSets, FiniteSetsExt, Functions

CONSTANTS
  Game,       \* the chat's rollcalls, numbered in the order of their ids
  User,       \* members, by their (positive) Telegram ids
  Proxy,      \* guests, entered by name
  Lineups,    \* the IN lists games may end with
  Fee,        \* the event fees an admin may set
  Subsidies,  \* the subsidies an admin may ask for
  Steps,      \* the values the rounding step may have been set to
  Amount,     \* amounts of payments, penalties, waivers, expenses, ...
  MaxClock,   \* bound: seconds that can be told apart
  MaxMoves,   \* bound: games started and operations on the books
  MaxEntries  \* bound: those of them that belong to no game

NoOne == 0
Torn == {"charges", "credit"}
Person == User \cup Proxy

ASSUME DuesAssumption ==
  /\ Game \subseteq Nat /\ IsFiniteSet(Game)
  /\ User \subseteq Nat \ {NoOne} /\ IsFiniteSet(User)
  /\ Proxy \subseteq Nat \ {NoOne} /\ IsFiniteSet(Proxy) /\ User \cap Proxy = {}
  /\ Lineups \subseteq SUBSET Person
  /\ Fee \subseteq Nat /\ Subsidies \subseteq Int
  /\ Steps \subseteq Nat \ {0} /\ Amount \subseteq Nat \ {0}
  /\ MaxClock \in Nat /\ MaxMoves \in Nat /\ MaxEntries \in Nat

VARIABLES
  game,      \* rows of rollcalls: life, fee, IN list, end time, collector
  closure,   \* rows of game_closures, NoClosure where there is none
  charge,    \* per game and person: share + adhoc + cancel_credit rows
  credit,    \* per game and person: reimbursement rows that carry the game
  other,     \* per person: all rows that carry no charge of a game
  gameFund,  \* per game: rounding + subsidy + adjustment rows of the fund
  fund,      \* the other rows of the fund
  settings,  \* chat settings: dues on, epoch, collector rotation and its last turn
  cards,     \* games for which a settlement card stands in the chat
  prompts,   \* offers of a collector's own UPI address: [at, game, who]
  clock,     \* the second
  moves,     \* games started and operations on the books so far (only for the bound)
  entries,   \* those of them that belong to no game (only for the bound)
  torn       \* only for the properties: what of which game an operation left half done

books == <<closure, charge, credit, gameFund>>
vars == <<game, books, other, fund, settings, cards, prompts, clock, moves, entries, torn>>
-----------------------------------------------------------------------------
(* What the services read.                                                 *)

NoClosure == [made |-> FALSE, num |-> 0, cost |-> 0, perHead |-> 0, collector |-> NoOne, paid |-> FALSE]
Closed(g) == closure[g].made
Closures == {g \in Game : Closed(g)}

\* The newest closure; the rows are ordered by their ids.
Latest(g) == Closed(g) /\ \A h \in Closures : closure[h].num <= closure[g].num
NextNum == 1 + Max({closure[g].num : g \in Game} \cup {0})

\* A game that ended in the second of the epoch or before it is history.
Predates(g) == game[g].ended <= settings.epoch
Unsettled == {g \in Game : game[g].life = "ended" /\ ~Closed(g) /\ ~Predates(g)}
LatestUnsettled(g) ==
  /\ g \in Unsettled
  /\ \A h \in Unsettled :
       game[h].ended < game[g].ended \/ (game[h].ended = game[g].ended /\ h <= g)

Active == {g \in Game : game[g].life = "active"}
IsAt(g, at) == g \in Active /\ Cardinality({h \in Active : h <= g}) = at

FundBalance == fund + SumFunction(gameFund)
DuesBalance(p) == other[p] + SumFunction([g \in Game |-> charge[g][p] + credit[g][p]])

CeilDiv(a, b) == (a + b - 1) \div b
PerHead(net, n, step) == Max({0, CeilDiv(CeilDiv(net, n), step) * step})

\* Slip: rounding is measured against the cost before the subsidy.
RemainderOfCost(perHead, n, cost, subsidy) == perHead * n - cost

\* What rounding up leaves for the fund.
Remainder(perHead, n, cost, subsidy) == perHead * n - (cost - subsidy)

\* What a game's collector credit should be: the cost, to whoever fronted it.
CreditTarget(who, paid, cost) == [p \in Person |-> IF paid /\ p = who THEN -cost ELSE 0]
\* Slip: only the new collector is looked at, not who held the credit.
CreditDeltasNew(g, target) == {p \in Person : target[p] # 0 /\ credit[g][p] # target[p]}

\* The rows that bring it there: a second run finds nothing left to write.
CreditDeltas(g, target) == {p \in Person : credit[g][p] # target[p]}
WriteCredits(g, target, some) ==
  credit' = [credit EXCEPT ![g] = [p \in Person |-> IF p \in some THEN target[p] ELSE credit[g][p]]]

-----------------------------------------------------------------------------
(* Settling a game.                                                        *)

\* Slip: guests take turns as well.
NextCollectorOfAll(in) ==
  LET after == {p \in in : settings.lastTurn # NoOne /\ p > settings.lastTurn}
  IN  IF in = {} THEN NoOne ELSE IF after = {} THEN Min(in) ELSE Min(after)

\* The member whose turn it is: the next id after the last one, or the first.
NextRotationCollector(in) ==
  LET real == in \cap User
      after == {u \in real : settings.lastTurn # NoOne /\ u > settings.lastTurn}
  IN  IF real = {} THEN NoOne ELSE IF after = {} THEN Min(real) ELSE Min(after)

Rotates(g) ==
  game[g].collector = NoOne /\ settings.rotation /\ NextRotationCollector(game[g].in) # NoOne
CollectorOf(g) ==
  IF Rotates(g) THEN [who |-> NextRotationCollector(game[g].in), paid |-> FALSE]
  ELSE [who |-> game[g].collector, paid |-> game[g].paid]
TakeTurn(g) == settings' = IF Rotates(g) THEN [settings EXCEPT !.lastTurn = CollectorOf(g).who] ELSE settings

\* Slip: the fund is not asked.
MaxSubsidyOfCost(cost) == cost

MaxSubsidy(cost) == Max({0, Min({cost, FundBalance})})
CanClose(g, subsidy) ==
  /\ ~Closed(g)
  /\ game[g].fee > 0
  /\ subsidy \in 0..MaxSubsidy(game[g].fee)
  /\ game[g].in # {}

\* One transaction: the closure, a share per IN member, the collector's
\* credit, and what subsidy and rounding do to the fund.
WriteClosureBatch(g, subsidy, step) ==
  LET cost == game[g].fee
      n == Cardinality(game[g].in)
      perHead == PerHead(cost - subsidy, n, step)
      target == CreditTarget(CollectorOf(g).who, CollectorOf(g).paid, cost)
  IN  /\ closure' = [closure EXCEPT ![g] = [made |-> TRUE, num |-> NextNum, cost |-> cost, perHead |-> perHead,
                        collector |-> CollectorOf(g).who, paid |-> CollectorOf(g).paid]]
      /\ charge' = [charge EXCEPT ![g] =
                      [p \in Person |-> @[p] + IF p \in game[g].in THEN perHead ELSE 0]]
      /\ WriteCredits(g, target, CreditDeltas(g, target))
      /\ gameFund' = [gameFund EXCEPT ![g] = @ - subsidy + Remainder(perHead, n, cost, subsidy)]

End(g) ==
  game' = [game EXCEPT ![g] = [@ EXCEPT !.life = "ended", !.ended = clock, !.dark = ~settings.on]]

\* The rotation's turn is written before the batch, and the game ended between
\* them when it is active.
CloseGame(g, subsidy, step) ==
  /\ CanClose(g, subsidy)
  /\ TakeTurn(g)
  /\ \/ Rotates(g) /\ UNCHANGED <<game, books>>
     \/ g \in Active /\ End(g) /\ UNCHANGED books
     \/ /\ IF g \in Active THEN End(g) ELSE UNCHANGED game
        /\ WriteClosureBatch(g, subsidy, step)
  /\ UNCHANGED <<other, fund, cards, torn>>

\* /settle_dues <subsidy> ::N and the web's close-game take an active game,
\* or the latest unsettled one when none is active.
SettleNow(g, subsidy, step) ==
  /\ settings.on
  /\ IF Active # {} THEN g \in Active ELSE LatestUnsettled(g)
  /\ CloseGame(g, subsidy, step)

\* A subsidy button of the confirm card, or the reply to its "custom amount".
\* The card names its game and is honoured however late the tap comes.
SettleConfirmed(g, subsidy, step) == g \in cards /\ CloseGame(g, subsidy, step)

\* The card of a game nobody was IN for closes it with no money in it.
SettleEmpty(g) ==
  /\ g \in cards
  /\ game[g].in = {}
  /\ ~Closed(g)
  /\ closure' = [closure EXCEPT ![g] = [NoClosure EXCEPT !.made = TRUE, !.num = NextNum]]
  /\ UNCHANGED <<game, charge, credit, gameFund, other, fund, settings, cards, torn>>

\* /settle_dues without arguments ends the first active game, or offers an
\* unsettled one; so does the button under the finish list.
EndAndSettle(g) ==
  /\ settings.on
  /\ IsAt(g, 1)
  /\ End(g)
  /\ cards' = cards \cup {g}
  /\ UNCHANGED <<books, other, fund, settings, torn>>

OfferSettlement(g) ==
  /\ settings.on
  /\ g \in Unsettled \ cards
  /\ cards' = cards \cup {g}
  /\ UNCHANGED <<game, books, other, fund, settings, torn>>
-----------------------------------------------------------------------------
(* Cancelling a game's dues.                                               *)

\* Slip: the epoch is not asked.
CancellableAnyTime(g) == Closed(g)

Cancellable(g) == Closed(g) /\ ~Predates(g)
Charged(g) == {p \in Person : charge[g][p] # 0}
Credited(g) == CreditDeltas(g, CreditTarget(NoOne, FALSE, 0))

\* Slip: the closure is deleted before the ledger is reversed.
CancelGameDeleteFirst(g) ==
  /\ Cancellable(g)
  /\ closure' = [closure EXCEPT ![g] = NoClosure]
  /\ \/ UNCHANGED <<charge, credit, gameFund>> /\ torn' = torn \cup {g} \X Torn
     \/ /\ charge' = [charge EXCEPT ![g] = [p \in Person |-> 0]]
        /\ credit' = [credit EXCEPT ![g] = [p \in Person |-> 0]]
        /\ gameFund' = [gameFund EXCEPT ![g] = 0]
        /\ torn' = torn \ ({g} \X Torn)
  /\ UNCHANGED <<game, other, fund, settings, cards>>

\* A reversal per person for the net of the game's charges, then the
\* collector's credit, then the fund, and the closure last.  Where it stops,
\* the next attempt nets what was already written.
CancelGame(g) ==
  /\ Cancellable(g)
  /\ \E back \in SUBSET Charged(g), withdrawn \in SUBSET Credited(g), refunded, done \in BOOLEAN :
       /\ withdrawn # {} \/ refunded => back = Charged(g)
       /\ refunded => withdrawn = Credited(g)
       /\ done => refunded
       /\ charge' = [charge EXCEPT ![g] = [p \in Person |-> IF p \in back THEN 0 ELSE @[p]]]
       /\ WriteCredits(g, CreditTarget(NoOne, FALSE, 0), withdrawn)
       /\ gameFund' = [gameFund EXCEPT ![g] = IF refunded THEN 0 ELSE @]
       /\ closure' = [closure EXCEPT ![g] = IF done THEN NoClosure ELSE @]
       /\ torn' = IF done THEN torn \ ({g} \X Torn)
                   ELSE torn \cup (IF back # {} \/ refunded THEN {<<g, "charges">>} ELSE {})
                             \cup (IF withdrawn # {} THEN {<<g, "credit">>} ELSE {})
  /\ UNCHANGED <<game, other, fund, settings, cards>>
-----------------------------------------------------------------------------
(* The collector, and late joiners.                                        *)

\* A setting that names no flag leaves it to the collector who has it.
PaidFlag(u, flag, who, paid) == IF flag = "keep" THEN who = u /\ paid ELSE flag = "paid"

CollectorOfActive(g, u, flag) ==
  /\ LET paid == PaidFlag(u, flag, game[g].collector, game[g].paid)
     IN  game' = [game EXCEPT ![g] = [@ EXCEPT !.collector = u, !.paid = paid]]
  /\ UNCHANGED <<books, torn>>

\* With no game active it is the latest closure's: its ledger first, then the
\* closure, then the rollcall's row, which a cancel and re-close reads.
CollectorOfClosed(g, u, flag) ==
  \E written \in SUBSET Person, named, done \in BOOLEAN :
    LET paid == PaidFlag(u, flag, closure[g].collector, closure[g].paid)
        target == CreditTarget(u, paid, closure[g].cost)
    IN  /\ written \subseteq CreditDeltas(g, target)
        /\ named => written = CreditDeltas(g, target)
        /\ done => named
        /\ WriteCredits(g, target, written)
        /\ closure' = [closure EXCEPT ![g] =
                         IF named THEN [@ EXCEPT !.collector = u, !.paid = paid] ELSE @]
        /\ game' = [game EXCEPT ![g] = IF done THEN [@ EXCEPT !.collector = u, !.paid = paid] ELSE @]
        /\ torn' = IF named THEN torn \ {<<g, "credit">>}
                    ELSE IF written = {} THEN torn ELSE torn \cup {<<g, "credit">>}
        /\ UNCHANGED <<charge, gameFund>>

\* Games are addressed by position; a position past the end is the first game.
NameCollector(at, u, flag) ==
  /\ IF Active # {}
     THEN \E g \in Active : IsAt(g, IF at <= Cardinality(Active) THEN at ELSE 1) /\ CollectorOfActive(g, u, flag)
     ELSE \E g \in Closures : Latest(g) /\ CollectorOfClosed(g, u, flag)
  /\ UNCHANGED <<other, fund, settings, cards>>

SetCollector(at, u, flag) == settings.on /\ NameCollector(at, u, flag) /\ UNCHANGED prompts

\* The picker's button names a position of the active games.  Who collected
\* before with a UPI address of their own is offered it.
PickCollector(g, u) ==
  \E at \in 1..Cardinality(Active) :
    /\ IsAt(g, at)
    /\ NameCollector(at, u, "not paid")
    /\ prompts' \in {prompts, prompts \cup {[at |-> at, game |-> g, who |-> u]}}

\* Taking the offer sets the collector again, by the position of then.
CollectorUpi(prompt) ==
  /\ prompt \in prompts
  /\ prompts' = prompts \ {prompt}
  /\ NameCollector(prompt.at, prompt.who, "keep")

\* The latest closure's share for one more person, and as much for the fund.
AddAdhoc(p) ==
  /\ \E g \in Closures, done \in BOOLEAN :
       /\ Latest(g)
       /\ charge' = [charge EXCEPT ![g][p] = @ + closure[g].perHead]
       /\ gameFund' = [gameFund EXCEPT ![g] = IF done THEN @ + closure[g].perHead ELSE @]
       /\ torn' = IF done THEN torn ELSE torn \cup {<<g, "charges">>}
  /\ UNCHANGED <<game, closure, credit, other, fund, settings, cards>>
-----------------------------------------------------------------------------
(* Money that belongs to no game.                                          *)

Enter(p, amount) ==
  /\ other' = [other EXCEPT ![p] = @ + amount]
  /\ UNCHANGED <<game, books, settings, cards, torn>>

Book(amount) ==
  /\ fund' = fund + amount
  /\ UNCHANGED <<game, books, other, settings, cards, torn>>

\* A penalty and a waiver are the member's row, then the fund's.
Penalise(p, a) == Enter(p, a) /\ fund' \in {fund, fund + a}
Forgive(p, a) == Enter(p, -a) /\ fund' \in {fund, fund - a}

\* An amount given may exceed the balance and leaves a credit.
Pay(p, a) == Enter(p, -a) /\ UNCHANGED fund
PayInFull(p) == DuesBalance(p) > 0 /\ Pay(p, DuesBalance(p))
PayOwn(p, a) == DuesBalance(p) > 0 /\ Pay(p, Min({a, DuesBalance(p)}))

MarkPenalty(p, a) == settings.on /\ Penalise(p, a)
Waive(p, a) == settings.on /\ Forgive(p, a)
MarkPaid(p, a) == settings.on /\ (Pay(p, a) \/ PayInFull(p))
\* The panel's buttons stay when dues are switched off, and pay the balance
\* of the tap, not the one they show.
PanelPaid(p, a) == Pay(p, a) \/ PayInFull(p)
SelfPaid(u, a) == settings.on /\ PayOwn(u, a)
Reimburse(p, a) == settings.on /\ Pay(p, a)
AdjustDues(p, a) == settings.on /\ (Enter(p, a) \/ Enter(p, -a)) /\ UNCHANGED fund
\* A line a person, each a row of its own: the import may stop after any.
ImportDues(a) ==
  /\ settings.on
  /\ \E entered \in SUBSET Person :
       other' = [p \in Person |-> IF p \in entered THEN other[p] + a ELSE other[p]]
  /\ UNCHANGED <<game, books, fund, settings, cards, torn>>
LogExpense(a) == settings.on /\ Book(-a)
FundTopup(a) == settings.on /\ Book(a)
-----------------------------------------------------------------------------
(* Seasons and switches.                                                   *)

StampedEpoch == [settings EXCEPT !.epoch = clock]

\* Every balance is cleared by a row of its own, then the fund, then the epoch.
NewSeason(zeroFund) ==
  /\ Unsettled = {}
  /\ \E cleared \in SUBSET {p \in Person : DuesBalance(p) # 0}, zeroed, done \in BOOLEAN :
       /\ zeroed \/ done => cleared = {p \in Person : DuesBalance(p) # 0}
       /\ done => zeroed = zeroFund
       /\ zeroed => zeroFund
       /\ other' = [p \in Person |-> IF p \in cleared THEN other[p] - DuesBalance(p) ELSE other[p]]
       /\ fund' = IF zeroed THEN fund - FundBalance ELSE fund
       /\ settings' = IF done THEN StampedEpoch ELSE settings
  /\ UNCHANGED <<game, books, cards, torn>>

\* /enable_dues switches them on, then starts their history if they were off;
\* where it stops in between, asking again does not start it ...
EnableDues ==
  /\ \E stamped \in IF settings.on THEN {FALSE} ELSE BOOLEAN :
       settings' = [(IF stamped THEN StampedEpoch ELSE settings) EXCEPT !.on = TRUE]
  /\ UNCHANGED <<game, books, other, fund, cards, torn>>
\* ... and the web's switch does not.
EnableDuesOnWeb ==
  /\ settings' = [settings EXCEPT !.on = TRUE]
  /\ UNCHANGED <<game, books, other, fund, cards, torn>>
DisableDues ==
  /\ settings' = [settings EXCEPT !.on = FALSE]
  /\ UNCHANGED <<game, books, other, fund, cards, torn>>
RotateCollector(on) ==
  /\ settings.on
  /\ settings' = [settings EXCEPT !.rotation = on]
  /\ UNCHANGED <<game, books, other, fund, cards, torn>>
-----------------------------------------------------------------------------
(* Games, as the ledger sees them.                                         *)

\* A rollcall begins with what it will have at its end: the votes between are
\* module RollCallLists'.
StartGame(in, fee) ==
  /\ \E g \in Game :
       /\ game[g].life = "unborn" /\ \A h \in Game : h < g => game[h].life # "unborn"
       /\ game' = [game EXCEPT ![g] = [@ EXCEPT !.life = "active", !.in = in, !.fee = fee]]
  /\ UNCHANGED <<books, other, fund, settings, cards, torn>>

\* /ef: an active game's fee, or with none active that of an unsettled one.
SetFee(g, fee) ==
  /\ g \in IF Active # {} THEN Active ELSE Unsettled
  /\ game' = [game EXCEPT ![g].fee = fee]
  /\ UNCHANGED <<books, other, fund, settings, cards, torn>>

\* /erc and auto-close; where dues are on, the finish list carries a button
\* that opens the settlement.
EndGame(g) ==
  /\ g \in Active
  /\ End(g)
  /\ cards' = IF settings.on THEN cards \cup {g} ELSE cards
  /\ UNCHANGED <<books, other, fund, settings, torn>>

CancelRollcall(g) ==
  /\ g \in Active
  /\ game' = [game EXCEPT ![g] = [@ EXCEPT !.life = "cancelled", !.ended = clock]]
  /\ UNCHANGED <<books, other, fund, settings, cards, torn>>

Tick ==
  /\ clock < MaxClock
  /\ clock' = clock + 1
  /\ UNCHANGED <<game, books, other, fund, settings, cards, prompts, moves, entries, torn>>
-----------------------------------------------------------------------------
Init ==
  /\ game = [g \in Game |-> [life |-> "unborn", fee |-> 0, in |-> {}, ended |-> 0,
                             collector |-> NoOne, paid |-> FALSE, dark |-> FALSE]]
  /\ closure = [g \in Game |-> NoClosure]
  /\ charge = [g \in Game |-> [p \in Person |-> 0]]
  /\ credit = [g \in Game |-> [p \in Person |-> 0]]
  /\ other = [p \in Person |-> 0]
  /\ gameFund = [g \in Game |-> 0]
  /\ fund = 0
  \* dues on since before the clock started
  /\ settings = [on |-> TRUE, epoch |-> 0, rotation |-> FALSE, lastTurn |-> NoOne]
  /\ cards = {} /\ prompts = {} /\ clock = 1 /\ moves = 0 /\ entries = 0 /\ torn = {}

Collecting ==
  \/ \E at \in 1..2, u \in User, flag \in {"paid", "not paid"} : SetCollector(at, u, flag)
  \/ \E g \in Game, u \in User : PickCollector(g, u)
  \/ \E prompt \in prompts : CollectorUpi(prompt)

Settling ==
  \/ \E g \in Game, s \in Subsidies, step \in Steps :
       SettleNow(g, s, step) \/ SettleConfirmed(g, s, step)
  \/ \E g \in Game : SettleEmpty(g) \/ CancelGame(g)
  \/ \E p \in Person : settings.on /\ AddAdhoc(p)

Money ==
  \/ \E p \in Person, a \in Amount :
       \/ MarkPenalty(p, a) \/ Waive(p, a) \/ MarkPaid(p, a) \/ PanelPaid(p, a)
       \/ Reimburse(p, a) \/ AdjustDues(p, a)
  \/ \E u \in User, a \in Amount : SelfPaid(u, a)
  \/ \E a \in Amount : ImportDues(a) \/ LogExpense(a) \/ FundTopup(a)
  \/ \E zeroFund \in BOOLEAN : NewSeason(zeroFund)

Games ==
  \/ \E g \in Game, fee \in Fee : SetFee(g, fee)
  \/ \E g \in Game : EndGame(g) \/ CancelRollcall(g) \/ EndAndSettle(g) \/ OfferSettlement(g)

Switches == EnableDues \/ EnableDuesOnWeb \/ DisableDues \/ \E on \in BOOLEAN : RotateCollector(on)

Next ==
  \/ /\ moves < MaxMoves /\ moves' = moves + 1
     /\ \/ Collecting /\ UNCHANGED entries
        \/ ((\E in \in Lineups, fee \in Fee : StartGame(in, fee)) \/ Settling) /\ UNCHANGED <<prompts, entries>>
        \/ entries < MaxEntries /\ entries' = entries + 1 /\ (Money \/ Switches) /\ UNCHANGED prompts
     /\ UNCHANGED clock
  \/ Games /\ UNCHANGED <<prompts, clock, moves, entries>>
  \/ Tick

Spec == Init /\ [][Next]_vars
-----------------------------------------------------------------------------
(* Type correctness.  Balances may be of either sign: a fund can be        *)
(* overdrawn and a member in credit.                                       *)
DuesTypeOK ==
  /\ game \in [Game -> [life : {"unborn", "active", "ended", "cancelled"}, fee : Nat,
                        in : SUBSET Person, ended : Nat, collector : User \cup {NoOne},
                        paid : BOOLEAN, dark : BOOLEAN]]
  /\ closure \in [Game -> [made : BOOLEAN, num : Nat, cost : Nat, perHead : Nat,
                           collector : User \cup {NoOne}, paid : BOOLEAN]]
  /\ charge \in [Game -> [Person -> Int]] /\ credit \in [Game -> [Person -> Int]]
  /\ other \in [Person -> Int] /\ gameFund \in [Game -> Int] /\ fund \in Int
  /\ settings \in [on : BOOLEAN, epoch : Nat, rotation : BOOLEAN, lastTurn : User \cup {NoOne}]
  /\ cards \subseteq Game
  /\ prompts \subseteq [at : Nat, game : Game, who : User] /\ clock \in Nat /\ moves \in Nat /\ entries \in Nat /\ torn \subseteq Game \X Torn

(* A game without a closure charges and credits nobody and holds nothing   *)
(* of the fund, whatever attempts at settling and cancelling it failed     *)
(* half way: a game that can be settled (again) starts from nothing.       *)
ReopenedIsClean ==
  \A g \in Game : ~Closed(g) =>
    /\ \A p \in Person : charge[g][p] = 0 /\ credit[g][p] = 0
    /\ gameFund[g] = 0

(* The shares of a settled game pay for the ground: what its members are   *)
(* charged is the cost less what the fund gave, or plus what it gained.    *)
BooksBalance ==
  \A g \in Closures : <<g, "charges">> \notin torn =>
    SumFunction(charge[g]) - gameFund[g] = closure[g].cost

(* In a settled game exactly the collector who fronted the ground holds a  *)
(* credit, and for its cost, however often collectors changed and the game *)
(* was cancelled and settled again.                                        *)
CollectorCredited ==
  \A g \in Closures : <<g, "credit">> \notin torn =>
    credit[g] = CreditTarget(closure[g].collector, closure[g].paid, closure[g].cost)

(* Settling never takes the fund below zero, and nothing from an overdrawn *)
(* one.                                                                    *)
ClosingSparesFund ==
  [][\A g \in Game : ~Closed(g) /\ Closed(g)' => FundBalance' >= Min({0, FundBalance})]_vars

(* What a season reset cleared is not handed out again: a game of an       *)
(* earlier season keeps its closure and its charges never come down.       *)
OldSeasonKept ==
  [][\A g \in Game : Closed(g) /\ Predates(g) =>
       Closed(g)' /\ \A p \in Person : charge'[g][p] >= charge[g][p]]_vars

(* A settled game's rows add up: the shares pay for the ground and one     *)
(* collector is credited with it.                                          *)
BooksOK == DuesTypeOK /\ BooksBalance /\ CollectorCredited
=============================================================================
