---------------------------- MODULE PanelRefresh ----------------------------
(***************************************************************************)
(* The panel of one rollcall: every vote asks for a redraw, and            *)
(* chat_outbox.coalesce folds the redraws asked for while one is under way *)
(* into one more after the burst settles.  A draw (lifecycle._render_panel)*)
(* reads the lists, edits the panel message, and posts a new one when the  *)
(* edit fails.  Two draws pass coalesce by: /panel, and the Refresh button.*)
(* Telegram is external: a call is answered or fails, in any order.        *)
(***************************************************************************)
EXTENDS Naturals, Sequences, FiniteSets

CONSTANTS
  MaxVotes,      \* bound on the votes
  MaxMessages,   \* bound on the messages posted
  PanelRetries,  \* PANEL_RETRIES
  MaxRow,        \* how many draws in a row may fail
  Asides,        \* which of "panel" (/panel) and "refresh" (the button) are used
  MaxAsides      \* bound on how often

ASSUME BoundsAssumption ==
  {MaxVotes, MaxMessages, PanelRetries, MaxRow, MaxAsides} \subseteq Nat
ASSUME RetriesAssumption == PanelRetries > 0
ASSUME AsidesAssumption == Asides \subseteq {"panel", "refresh"}

VARIABLES
  votes,   \* how many votes the lists hold
  open,    \* the rollcall is active
  asking,  \* votes saved whose handler has not reached _update_panel yet
  shows,   \* for every panel message, how many votes it shows
  panel,   \* the rollcall's entry in _panel_msg_ids; 0 for none
  entry,   \* its entry in _inflight
  draw,    \* the draw coalesce runs
  aside,   \* a draw beside it
  used,    \* how many of those there have been
  row,     \* history: draws that have failed since one succeeded
  tries    \* history: draws that have failed since somebody asked

refreshVars == << votes, open, asking, shows, panel, entry, draw, aside, used, row, tries >>

Draw(step, version, msg) == [step |-> step, version |-> version, msg |-> msg]
NoDraw  == Draw("none", 0, 0)
NoEntry == [phase |-> "none", dirty |-> FALSE, retries |-> 0]
Started == [phase |-> "leading", dirty |-> FALSE, retries |-> PanelRetries]

Posted == DOMAIN shows

\* _render_panel, up to its first await: the lists are read now.
Render(p) == Draw(IF p = 0 THEN "sending" ELSE "editing", votes, p)

\* The bound on messages, those that are being sent included.
RoomLeft ==
  Len(shows) + Cardinality({d \in {draw, aside} : d.step = "sending"}) < MaxMessages

-----------------------------------------------------------------------------
(***************************************************************************)
(* coalesce and _trail: what becomes of the entry when a draw ends.        *)
(***************************************************************************)
\* Slip: the request made during the draw is forgotten with it.
ForgetDirty(e) == NoEntry

Continue(e) == IF e.dirty THEN [e EXCEPT !.phase = "settling"] ELSE NoEntry

AfterSuccess(e) ==
  Continue(IF e.phase = "leading" THEN e ELSE [e EXCEPT !.retries = PanelRetries])

\* Slip: a failed first draw is not drawn again.
NoSecondDraw(e) ==
  IF e.phase # "leading" /\ e.retries > 0
  THEN Continue([e EXCEPT !.retries = @ - 1, !.dirty = TRUE])
  ELSE Continue(e)

\* Slip: the allowance is spent below zero.
SpendAlways(e) == Continue([e EXCEPT !.retries = @ - 1, !.dirty = @ \/ e.retries > 0])

\* Slip: the allowance is not spent.
RetryForEver(e) == Continue([e EXCEPT !.dirty = TRUE])

AfterFailure(e) ==
  IF e.retries > 0
  THEN Continue([e EXCEPT !.retries = @ - 1, !.dirty = TRUE])
  ELSE Continue(e)

Succeeds ==
  /\ entry' = AfterSuccess(entry) /\ draw' = NoDraw
  /\ row' = 0 /\ UNCHANGED tries

Fails ==
  /\ row < MaxRow
  /\ entry' = AfterFailure(entry) /\ draw' = NoDraw
  /\ row' = row + 1 /\ tries' = tries + 1

-----------------------------------------------------------------------------
Vote ==
  /\ open /\ votes < MaxVotes
  /\ votes' = votes + 1 /\ asking' = asking + 1
  /\ UNCHANGED << open, shows, panel, entry, draw, aside, used, row, tries >>

\* _update_panel on behalf of a vote: by command, or by a tap on a message
\* that thereby becomes the panel.
Ask(m) ==
  /\ asking > 0
  /\ asking' = asking - 1
  /\ IF ~open THEN UNCHANGED << panel, entry, draw, tries >>
     ELSE /\ panel' = m
          /\ tries' = 0
          /\ IF entry.phase = "none"
             THEN entry' = Started /\ draw' = Render(m)
             ELSE entry' = [entry EXCEPT !.dirty = TRUE] /\ UNCHANGED draw
  /\ UNCHANGED << votes, open, shows, aside, used, row >>

\* Slip: the request that started the round stays on the books.
SettleDirty ==
  /\ entry.phase = "settling"
  /\ LET e == [entry EXCEPT !.phase = "trailing"]
     IN  IF open THEN entry' = e /\ draw' = Render(panel)
                 ELSE entry' = AfterSuccess(e) /\ UNCHANGED draw
  /\ UNCHANGED << votes, open, asking, shows, panel, aside, used, row, tries >>

\* A round of _trail, PANEL_SETTLE later: a rollcall that closed meanwhile
\* is not drawn.
Settle ==
  /\ entry.phase = "settling"
  /\ LET e == [entry EXCEPT !.phase = "trailing", !.dirty = FALSE]
     IN  IF open THEN entry' = e /\ draw' = Render(panel)
                 ELSE entry' = AfterSuccess(e) /\ UNCHANGED draw
  /\ UNCHANGED << votes, open, asking, shows, panel, aside, used, row, tries >>

\* The edit is done, or Telegram says the message shows this already.
Edited ==
  /\ draw.step = "editing"
  /\ shows' = [shows EXCEPT ![draw.msg] = draw.version]
  /\ Succeeds
  /\ UNCHANGED << votes, open, asking, panel, aside, used >>

\* Rate limited: posting instead would only add to the flood.
EditRefused ==
  /\ draw.step = "editing"
  /\ Fails
  /\ UNCHANGED << votes, open, asking, shows, panel, aside, used >>

\* Deleted, or failed in some other way: the draw posts what it read.
EditLost ==
  /\ draw.step = "editing" /\ RoomLeft
  /\ draw' = [draw EXCEPT !.step = "sending"]
  /\ shows' \in {shows, [shows EXCEPT ![draw.msg] = draw.version]}
  /\ UNCHANGED << votes, open, asking, panel, entry, aside, used, row, tries >>

Sent ==
  /\ draw.step = "sending"
  /\ shows' = Append(shows, draw.version)
  /\ panel' = Len(shows')
  /\ Succeeds
  /\ UNCHANGED << votes, open, asking, aside, used >>

SendFails ==
  /\ draw.step = "sending"
  /\ Fails
  /\ UNCHANGED << votes, open, asking, shows, panel, aside, used >>

\* /panel posts a fresh panel; Refresh edits the message it is a button of.
DrawAside ==
  /\ open /\ aside = NoDraw /\ used < MaxAsides
  /\ \/ "panel" \in Asides /\ RoomLeft /\ aside' = Draw("sending", votes, 0)
     \/ \E m \in Posted : "refresh" \in Asides /\ aside' = Draw("editing", votes, m)
  /\ used' = used + 1
  /\ UNCHANGED << votes, open, asking, shows, panel, entry, draw, row, tries >>

AsideDone ==
  /\ \/ /\ aside.step = "sending"
        /\ shows' = Append(shows, aside.version)
        /\ panel' = Len(shows')
     \/ /\ aside.step = "editing"
        /\ shows' = [shows EXCEPT ![aside.msg] = aside.version]
        /\ panel' = aside.msg
  /\ aside' = NoDraw
  /\ UNCHANGED << votes, open, asking, entry, draw, used, row, tries >>

AsideFails ==
  /\ aside # NoDraw /\ aside' = NoDraw
  /\ UNCHANGED << votes, open, asking, shows, panel, entry, draw, used, row, tries >>

\* The rollcall ends: _close_panel_bookkeeping forgets its panel.
Close ==
  /\ open /\ open' = FALSE /\ panel' = 0
  /\ UNCHANGED << votes, asking, shows, entry, draw, aside, used, row, tries >>

RefreshInit ==
  /\ votes = 0 /\ open = TRUE /\ asking = 0
  /\ \/ shows = << 0 >> /\ panel = 1
     \/ shows = << >> /\ panel = 0
  /\ entry = NoEntry /\ draw = NoDraw /\ aside = NoDraw
  /\ used = 0 /\ row = 0 /\ tries = 0

AnyAsk == \E m \in {panel} \cup Posted : Ask(m)
DrawAnswer == Edited \/ EditRefused \/ EditLost \/ Sent \/ SendFails
AsideAnswer == AsideDone \/ AsideFails

RefreshNext == Vote \/ AnyAsk \/ Settle \/ DrawAnswer \/ DrawAside \/ AsideAnswer \/ Close

\* Handlers go on, timers fire, and every call ends somehow; nobody has to
\* vote, to ask for a panel or to end the rollcall.
RefreshFairness ==
  /\ WF_refreshVars(AnyAsk) /\ WF_refreshVars(Settle)
  /\ WF_refreshVars(DrawAnswer) /\ WF_refreshVars(AsideAnswer)

RefreshSpec == RefreshInit /\ [][RefreshNext]_refreshVars /\ RefreshFairness

-----------------------------------------------------------------------------
Quiet == entry.phase = "none" /\ asking = 0 /\ aside = NoDraw
Shown == panel # 0 => shows[panel] = votes

\* The entry and the draw belong together, the allowance keeps its range.
PanelTypeOK ==
  /\ votes \in 0..MaxVotes /\ asking \in 0..votes /\ row \in 0..MaxRow
  /\ panel \in {0} \cup Posted /\ \A m \in Posted : shows[m] \in 0..votes
  /\ entry.retries \in 0..PanelRetries
  /\ (draw = NoDraw) = (entry.phase \in {"none", "settling"})
  /\ draw.step = "editing" => draw.msg \in Posted

\* Unless a draw passed coalesce by: whenever the panel is left alone after a
\* draw that worked, it shows every vote, also those that came while it was
\* being drawn.
SettledPanelIsCurrent == open /\ Quiet /\ row = 0 /\ used = 0 => Shown

PanelShowsEveryone == <>[](open => Shown)

\* After the last vote the panel comes to show every vote, and keeps to, if
\* never two draws in a row fail and none passes coalesce by.
CoalescedPanelShowsEveryone == [](row <= 1 /\ used = 0) => PanelShowsEveryone

\* "Two failures in a row stop it": without a new request no third draw
\* follows, however late in the burst the failures come.
TwoFailuresStop == tries <= PanelRetries + 1

\* Whatever fails, the redraws come to an end.
RedrawsEnd == <>[]Quiet

\* The panel rests only when it is current or has failed twice.
PanelOK == PanelTypeOK /\ SettledPanelIsCurrent /\ TwoFailuresStop

\* The redraws end, with the whole list on the panel.
PanelSettles == CoalescedPanelShowsEveryone /\ RedrawsEnd
=============================================================================
