---------------------------- MODULE PenaltyPanel ----------------------------
(***************************************************************************)
(* The penalty panel of the settlement (handlers/penalty_panel.py): admins *)
(* pick players under a tier and apply it; a ditch tier also records a     *)
(* no-show, and Done closes the game's attendance. The panel and the web   *)
(* page's review wait for the chat's write lock, which is kept over a      *)
(* Telegram call only by taps that are refused; calls get it first come    *)
(* first served.                                                           *)
(***************************************************************************)
EXTENDS GhostReview

CONSTANTS
  Tier, Ditch, \* penalty tiers, and those of them that record a no-show
  Panel,       \* panels that can be open at a time
  NoTier,
  MaxWaiting   \* bound: calls that wait for the lock at a time

ASSUME PanelAssumption == Ditch \subseteq Tier /\ NoTier \notin Tier /\ MaxWaiting \in Nat

VARIABLES
  closed,    \* games whose books are closed (game_closures)
  panel,     \* _sessions
  finals,    \* only for the properties: how often a panel closed its review
  held,      \* a refused tap holds the chat's write lock
  waiting,   \* calls that wait for it, in order
  claimed,   \* no-shows taken back, as claimed in system_config
  given      \* only for the properties: no-shows taken back in fact

panels == <<panel, finals>>
locks == <<held, waiting>>
reversals == <<claimed, given>>
pvars == <<vars, closed, panels, locks, reversals>>
-----------------------------------------------------------------------------
NoPanel == [open |-> FALSE]

OpenPanel(p, g) ==
  /\ ~panel[p].open
  /\ \A i \in DOMAIN waiting : waiting[i].kind \in {"apply", "done"} => waiting[i].panel # p
  /\ game[g].ended /\ g \notin closed
  /\ Tier # {} /\ Candidates(g) # {}
  /\ panel' = [panel EXCEPT ![p] =
       [open |-> TRUE, game |-> g, eligible |-> tracking /\ ~game[g].reviewed, tier |-> NoTier,
        picked |-> [t \in Tier |-> {}], applied |-> [t \in Tier |-> {}],
        ghosts |-> {}, final |-> FALSE, failed |-> FALSE]]
  /\ finals' = [finals EXCEPT ![p] = 0]
  /\ UNCHANGED <<review, closed, locks>>

\* Nobody to mark: there is no panel, and nothing to review.
NobodyToMark(g) ==
  /\ game[g].ended /\ g \notin closed
  /\ Tier # {} /\ Candidates(g) = {}
  /\ tracking /\ ~game[g].reviewed
  /\ MarkAbsentDone({g})
  /\ UNCHANGED <<tallies, lapses, closed, panels, locks>>

\* Slip: who was charged in another tier is not looked at.
LockedByPick(p, tier) == UNION {panel[p].picked[t] : t \in Tier \ {tier}}

\* Who is picked or was charged in another tier.
Locked(p, tier) == UNION {panel[p].picked[t] \cup panel[p].applied[t] : t \in Tier \ {tier}}

SelectTier(p, t) ==
  /\ panel[p].open
  /\ panel' = [panel EXCEPT ![p] = [@ EXCEPT !.tier = t]]
  /\ UNCHANGED <<review, closed, finals, locks>>

TogglePlayer(p, u) ==
  /\ panel[p].open /\ panel[p].tier # NoTier
  /\ u \in Candidates(panel[p].game) \ Locked(p, panel[p].tier)
  /\ panel' = [panel EXCEPT ![p].picked[panel[p].tier] = SymDiff(@, {u})]
  /\ UNCHANGED <<review, closed, finals, locks>>

BackToTiers(p) == SelectTier(p, NoTier)

Live == NoChoice
LockFree == ~held /\ waiting = << >>

\* Slip: the books are not asked again under the lock.
ApplyUnasked(p, tier, set, rest) ==
  LET s == panel[p]
      picks == IF set = Live THEN s.picked[tier] ELSE set
      ghosts == IF tier \in Ditch /\ s.eligible THEN picks ELSE {}
  IN  /\ Mark(s.game, ghosts)
      /\ panel' = [panel EXCEPT ![p] = [s EXCEPT !.applied[tier] = @ \cup picks, !.picked[tier] = {}]]
      /\ waiting' = rest
      /\ UNCHANGED held

\* Apply charges what is picked when its turn comes: the call keeps the set
\* of its tap, which later taps change until an earlier call replaces it.
Apply(p, tier, set, rest) ==
  LET s == panel[p]
      picks == IF set = Live THEN s.picked[tier] ELSE set
      ghosts == IF tier \in Ditch /\ s.eligible THEN picks ELSE {}
  IN  IF s.game \in closed
      THEN held' = TRUE /\ waiting' = rest /\ UNCHANGED <<review, panel>>
      ELSE \E failed \in SUBSET picks :
             /\ Mark(s.game, ghosts)
             /\ panel' = [panel EXCEPT ![p] =
                  [s EXCEPT !.applied[tier] = @ \cup (picks \ failed), !.picked[tier] = {},
                            !.tier = NoTier, !.ghosts = @ \cup ghosts, !.failed = @ \/ failed # {}]]
             /\ waiting' = [i \in DOMAIN rest |->
                  IF rest[i].kind = "apply" /\ rest[i].panel = p /\ rest[i].tier = tier /\ rest[i].set = Live
                  THEN [rest[i] EXCEPT !.set = picks] ELSE rest[i]]
             /\ UNCHANGED held

Queue(call) ==
  /\ Len(waiting) < MaxWaiting
  /\ waiting' = Append(waiting, call)
  /\ UNCHANGED <<review, held>>

TapApply(p) ==
  /\ panel[p].open /\ panel[p].tier # NoTier
  /\ panel[p].picked[panel[p].tier] # {}
  /\ IF LockFree THEN Apply(p, panel[p].tier, Live, << >>)
     ELSE Queue([kind |-> "apply", panel |-> p, tier |-> panel[p].tier, set |-> Live]) /\ UNCHANGED panel
  /\ UNCHANGED <<closed, finals>>

\* Slip: everybody IN is forgiven.
FinaliseAll(p, rest) ==
  /\ LET g == panel[p].game IN Write(g, {}, Attended(g, {}), {g})
  /\ panel' = [panel EXCEPT ![p] = [@ EXCEPT !.open = FALSE, !.final = TRUE]]
  /\ finals' = [finals EXCEPT ![p] = @ + 1]
  /\ waiting' = rest
  /\ UNCHANGED held

\* Attendance is closed under the lock, by whoever taps Done first.
Finalise(p, rest) ==
  /\ LET g == panel[p].game IN Write(g, {}, Attended(g, panel[p].ghosts), {g})
  /\ panel' = [panel EXCEPT ![p] = [@ EXCEPT !.open = FALSE, !.final = TRUE]]
  /\ finals' = [finals EXCEPT ![p] = @ + 1]
  /\ waiting' = rest
  /\ UNCHANGED held

\* Slip: the panel is marked as final only under the lock.
TapDoneLate(p) ==
  /\ panel[p].open
  /\ \/ /\ panel[p].eligible /\ ~panel[p].final
        /\ IF LockFree THEN Finalise(p, << >>)
           ELSE Queue([kind |-> "done", panel |-> p]) /\ UNCHANGED panels
     \/ /\ ~(panel[p].eligible /\ ~panel[p].final)
        /\ panel' = [panel EXCEPT ![p] = [@ EXCEPT !.open = FALSE]]
        /\ UNCHANGED <<review, finals, locks>>
  /\ UNCHANGED closed

TapDone(p) ==
  /\ panel[p].open
  /\ \/ /\ panel[p].eligible /\ ~panel[p].final
        /\ IF LockFree THEN Finalise(p, << >>)
           ELSE /\ Queue([kind |-> "done", panel |-> p])
                /\ panel' = [panel EXCEPT ![p] = [@ EXCEPT !.final = TRUE]]
                /\ UNCHANGED finals
     \/ /\ ~(panel[p].eligible /\ ~panel[p].final)
        /\ panel' = [panel EXCEPT ![p] = [@ EXCEPT !.open = FALSE]]
        /\ UNCHANGED <<review, finals, locks>>
  /\ UNCHANGED closed
-----------------------------------------------------------------------------
(* The web page, the settlement, and the lock.                             *)

\* The page asks whether the game still waits before it waits for the lock.
WebReviewWaits(g, selected) ==
  /\ Unprocessed(g, Lookback)
  /\ IF LockFree THEN ReviewSession(g, selected) /\ UNCHANGED locks
     ELSE Queue([kind |-> "web", game |-> g, set |-> selected])
  /\ UNCHANGED <<closed, panels>>

\* The settlement closes the books, its cancellation opens them again.
Settle(g) == closed' = IF g \in closed THEN closed \ {g} ELSE closed \cup {g}

SettleGame(g) ==
  /\ game[g].ended
  /\ IF LockFree THEN Settle(g) /\ UNCHANGED <<review, locks>>
     ELSE Queue([kind |-> "settle", game |-> g]) /\ UNCHANGED closed
  /\ UNCHANGED panels

\* The next call gets the lock.
Resume ==
  /\ ~held /\ waiting # << >>
  /\ LET call == Head(waiting) IN
       \/ call.kind = "apply" /\ Apply(call.panel, call.tier, call.set, Tail(waiting)) /\ UNCHANGED <<closed, finals>>
       \/ call.kind = "done" /\ Finalise(call.panel, Tail(waiting)) /\ UNCHANGED closed
       \/ /\ call.kind = "web" /\ ReviewSession(call.game, call.set)
          /\ waiting' = Tail(waiting) /\ UNCHANGED <<closed, panels, held>>
       \/ /\ call.kind = "settle" /\ Settle(call.game)
          /\ waiting' = Tail(waiting) /\ UNCHANGED <<review, panels, held>>

\* A tap elsewhere is refused under the lock, and the refusal sent.
Refuse == LockFree /\ held' = TRUE /\ UNCHANGED <<review, closed, panels, waiting>>
Refused == held /\ held' = FALSE /\ UNCHANGED <<review, closed, panels, waiting>>
-----------------------------------------------------------------------------
(* Games that were cancelled.                                              *)

Recall(back) ==
  /\ count' = [p \in Person |-> LET n == SumFunction([g \in Game |-> back[g][p]])
                                IN  IF count[p] > n THEN count[p] - n ELSE 0]
  /\ claimed' = [g \in Game |-> [p \in Person |-> IF back[g][p] > 0 THEN marks[g][p] ELSE claimed[g][p]]]
  /\ given' = [g \in Game |-> [p \in Person |-> given[g][p] + back[g][p]]]

\* Slip: the claims are not asked.
ReverseAll ==
  Recall([g \in Game |-> [p \in Person |-> IF game[g].cancelled THEN marks[g][p] ELSE 0]])

\* One transaction claims and takes back every no-show of a cancelled game.
ReverseCancelled ==
  Recall([g \in Game |-> [p \in Person |-> IF game[g].cancelled THEN marks[g][p] - claimed[g][p] ELSE 0]])

\* A start takes them back; the panels and the calls that waited are gone.
PanelRestart ==
  /\ ReverseCancelled \/ UNCHANGED <<count, claimed, given>>
  /\ panel' = [p \in Panel |-> NoPanel] /\ finals' = [p \in Panel |-> 0]
  /\ held' = FALSE /\ waiting' = << >>
  /\ UNCHANGED <<marks, unrecorded, game, lapses, closed>>
-----------------------------------------------------------------------------
PanelInit ==
  /\ Init
  /\ closed = {}
  /\ panel = [p \in Panel |-> NoPanel] /\ finals = [p \in Panel |-> 0]
  /\ held = FALSE /\ waiting = << >>
  /\ claimed = marks /\ given = marks

\* Where dues are on, the settlement asks the question.
EndWithDues == \E g \in Game, l \in Lineups : End(g, l[1], l[2]) /\ UNCHANGED prompts

Penalising ==
  \E p \in Panel :
    \/ \E g \in Game : OpenPanel(p, g) \/ NobodyToMark(g)
    \/ \E t \in Tier : SelectTier(p, t)
    \/ \E u \in Person : TogglePlayer(p, u)
    \/ BackToTiers(p) \/ TapApply(p) \/ TapDone(p)

Waiting ==
  \/ \E g \in Game, selected \in SUBSET Person : WebReviewWaits(g, selected)
  \/ \E g \in Game : SettleGame(g)
  \/ Resume \/ Refuse \/ Refused

PanelNext ==
  \/ (Penalising \/ Waiting) /\ UNCHANGED <<tracking, answers, sweeps, reversals>>
  \/ PanelRestart /\ UNCHANGED <<tracking, answers, sweeps>>
  \/ /\ \E g \in Game, l \in Lineups : End(g, l[1], l[2])
     /\ UNCHANGED <<tracking, sweeps, closed, panels, locks, reversals>>
  \/ ToggleTracking /\ UNCHANGED <<sweeps, closed, panels, locks, reversals>>

PanelSpec == PanelInit /\ [][PanelNext]_pvars
-----------------------------------------------------------------------------
Calls ==
  [kind : {"apply"}, panel : Panel, tier : Tier, set : {Live} \cup SUBSET Person]
  \cup [kind : {"done"}, panel : Panel]
  \cup [kind : {"web"}, game : Game, set : SUBSET Person]
  \cup [kind : {"settle"}, game : Game]
Sessions ==
  [open : BOOLEAN, game : Game, eligible : BOOLEAN, tier : Tier \cup {NoTier},
   picked : [Tier -> SUBSET Person], applied : [Tier -> SUBSET Person],
   ghosts : SUBSET Person, final : BOOLEAN, failed : BOOLEAN]

(* Type correctness; a panel charges people of its own game only.          *)
PanelTypeOK ==
  /\ GhostTypeOK
  /\ closed \subseteq Game
  /\ claimed \in [Game -> [Person -> Nat]] /\ given \in [Game -> [Person -> Nat]]
  /\ panel \in [Panel -> {NoPanel} \cup Sessions] /\ finals \in [Panel -> Nat]
  /\ \A p \in Panel : panel[p] # NoPanel =>
       UNION {panel[p].applied[t] : t \in Tier} \subseteq Candidates(panel[p].game)
  /\ held \in BOOLEAN /\ \A i \in DOMAIN waiting : waiting[i] \in Calls

(* db.py reverse_ghosts_on_cancelled_rollcalls: "Each event is reversed    *)
(* once", however often the process starts, and a no-show that was taken   *)
(* back is nobody's absence any more: what somebody answers for is covered *)
(* by the others, but for absences counted without a record.               *)
ReversedOnce ==
  /\ \A g \in Game, p \in Person : given[g][p] <= marks[g][p]
  /\ \A p \in Person : count[p] <= SumFunction([g \in Game |-> marks[g][p] - claimed[g][p]]) + unrecorded[p]

(* penalty_panel.py _locked_indices: "A player can only be pending/applied *)
(* in one tier at a time", also with two admins and calls that wait, as    *)
(* long as no charge failed.                                               *)
OneTierEach ==
  \A p \in Panel : panel[p] # NoPanel /\ ~panel[p].failed =>
    \A t, s \in Tier : t # s =>
      (panel[p].picked[t] \cup panel[p].applied[t]) \cap (panel[p].picked[s] \cup panel[p].applied[s]) = {}

(* Done closes the attendance of a panel's game once, however often it is  *)
(* tapped while the first tap waits for the lock.                          *)
PanelFinalOnce == \A p \in Panel : finals[p] <= 1

(* penalty_panel.py: "no more penalties can be applied here": nobody is    *)
(* charged for a game that was closed elsewhere while the tap waited.      *)
NoChargeAfterClose ==
  [][\A p \in Panel : panel[p] # NoPanel /\ panel'[p] # NoPanel /\ finals'[p] >= finals[p] =>
       \A t \in Tier : panel'[p].applied[t] \subseteq panel[p].applied[t] \/ panel[p].game \notin closed]_pvars

(* Done forgives who turned up: nobody the panel itself recorded as a      *)
(* no-show, also where the charge failed.                                  *)
SparesItsGhosts ==
  [][\A p \in Panel : finals'[p] > finals[p] => \A u \in panel[p].ghosts : count'[u] >= count[u]]_pvars

(* Whatever two admins tap while calls wait for the lock: one tier each,   *)
(* one closing of the attendance, no absence taken back twice.             *)
PenaltiesOK == PanelTypeOK /\ ReversedOnce /\ OneTierEach /\ PanelFinalOnce

(* What a tap does after its wait respects what happened meanwhile.        *)
LateTapsAreSafe == NoChargeAfterClose /\ SparesItsGhosts
=============================================================================
