---------------------------- MODULE OutboxProofs ----------------------------
(***************************************************************************)
(* Proofs about what the bot posts in a chat: PanelRefresh, the coalesced  *)
(* redraws of one panel, for any number of votes, messages and failures;   *)
(* ChatOutbox, the delivery of messages under refusals, for any sends and  *)
(* times.                                                                  *)
(***************************************************************************)
EXTENDS ChatOutbox, PanelRefresh, DataLemmas

-----------------------------------------------------------------------------
(***************************************************************************)
(* The coalesced panel.                                                    *)
(***************************************************************************)
Entry == [phase : {"none", "leading", "settling", "trailing"}, dirty : BOOLEAN,
          retries : 0..PanelRetries]

AnyDraw == [step : {"none", "editing", "sending"}, version : Nat, msg : Nat]

Underway == entry.phase \in {"leading", "trailing"}

\* A draw reads the lists once and edits a message there is.
DrawTyped(d) ==
  /\ d \in AnyDraw /\ d.version <= votes
  /\ d.step = "none" => d = NoDraw
  /\ d.step = "editing" => d.msg \in Posted

PanelTyped ==
  /\ votes \in 0..MaxVotes /\ asking \in 0..votes /\ row \in 0..MaxRow
  /\ used \in Nat /\ tries \in Nat
  /\ shows \in Seq(Nat) /\ \A m \in Posted : shows[m] <= votes
  /\ panel \in {0} \cup Posted
  /\ entry \in Entry
  /\ DrawTyped(draw) /\ DrawTyped(aside)
  /\ Underway <=> draw # NoDraw
  /\ used = 0 => aside = NoDraw

\* A failure takes one of the retries, and a round that was asked for while
\* another was drawn starts the count anew.
TriesCounted ==
  /\ entry.phase = "none" => tries <= PanelRetries + 1
  /\ entry.phase = "settling" => tries + entry.retries <= PanelRetries /\ entry.dirty
  /\ Underway => tries + entry.retries <= PanelRetries
  /\ Underway /\ entry.dirty => tries = 0

\* While every vote has been asked for and nobody asks again, the draw under
\* way read all the votes and edits the message that is the panel.
DrawIsCurrent ==
  open /\ used = 0 /\ asking = 0 =>
    /\ entry.phase = "none" /\ row = 0 => Shown
    /\ Underway /\ ~entry.dirty =>
         /\ draw.version = votes
         /\ draw.step = "editing" => draw.msg = panel

PanelInv == PanelTyped /\ TriesCounted /\ DrawIsCurrent

-----------------------------------------------------------------------------
\* A draw that worked ends the round, or begins another if one was asked for.
LEMMA AfterSuccessFacts ==
  ASSUME NEW e \in Entry
  PROVE  /\ AfterSuccess(e) \in Entry
         /\ ~e.dirty => AfterSuccess(e) = NoEntry
         /\ e.dirty => /\ AfterSuccess(e).phase = "settling" /\ AfterSuccess(e).dirty
                       /\ AfterSuccess(e).retries \in {e.retries, PanelRetries}
<1>1. PanelRetries \in Nat /\ PanelRetries \in 0..PanelRetries /\ 0 \in 0..PanelRetries
  BY BoundsAssumption
<1> DEFINE f == IF e.phase = "leading" THEN e ELSE [e EXCEPT !.retries = PanelRetries]
<1>2. f \in Entry /\ f.retries \in {e.retries, PanelRetries} /\ f.dirty = e.dirty
  BY <1>1 DEF Entry
<1>3. AfterSuccess(e) = Continue(f)
  BY DEF AfterSuccess
<1>4. CASE e.dirty
  <2>1. Continue(f) = [f EXCEPT !.phase = "settling"]
    BY <1>2, <1>4 DEF Continue
  <2>2. [f EXCEPT !.phase = "settling"] \in Entry
    BY <1>2 DEF Entry
  <2>3. /\ [f EXCEPT !.phase = "settling"].phase = "settling"
        /\ [f EXCEPT !.phase = "settling"].dirty = f.dirty
        /\ [f EXCEPT !.phase = "settling"].retries = f.retries
    BY <1>2 DEF Entry
  <2> HIDE DEF f
  <2> QED  BY <1>2, <1>3, <1>4, <2>1, <2>2, <2>3
<1>5. CASE ~e.dirty
  <2>1. Continue(f) = NoEntry
    BY <1>2, <1>5 DEF Continue
  <2>2. NoEntry \in Entry
    BY <1>1 DEF NoEntry, Entry
  <2> QED  BY <1>3, <1>5, <2>1, <2>2
<1> QED  BY <1>4, <1>5

\* A draw that failed takes a retry and goes on; without one it goes on only
\* if it was asked to.
LEMMA AfterFailureFacts ==
  ASSUME NEW e \in Entry
  PROVE  /\ AfterFailure(e) \in Entry
         /\ e.retries > 0 => /\ AfterFailure(e).phase = "settling" /\ AfterFailure(e).dirty
                             /\ AfterFailure(e).retries = e.retries - 1
         /\ e.retries = 0 /\ e.dirty =>
              /\ AfterFailure(e).phase = "settling" /\ AfterFailure(e).dirty
              /\ AfterFailure(e).retries = 0
         /\ e.retries = 0 /\ ~e.dirty => AfterFailure(e) = NoEntry
<1>1. PanelRetries \in Nat /\ 0 \in 0..PanelRetries /\ e.retries \in 0..PanelRetries
  BY BoundsAssumption DEF Entry
<1>2. CASE e.retries > 0
  <2> DEFINE f == [e EXCEPT !.retries = e.retries - 1, !.dirty = TRUE]
  <2>0. e.retries - 1 \in 0..PanelRetries
    BY <1>1, <1>2
  <2>1. f \in Entry /\ f.retries = e.retries - 1
    BY <2>0 DEF Entry
  <2>2. f.dirty = TRUE
    BY DEF Entry
  <2>3. AfterFailure(e) = Continue(f)
    BY <1>2 DEF AfterFailure
  <2>4. Continue(f) = [f EXCEPT !.phase = "settling"]
    BY <2>2 DEF Continue
  <2>5. /\ [f EXCEPT !.phase = "settling"] \in Entry
        /\ [f EXCEPT !.phase = "settling"].phase = "settling"
        /\ [f EXCEPT !.phase = "settling"].dirty = f.dirty
        /\ [f EXCEPT !.phase = "settling"].retries = f.retries
    BY <2>1 DEF Entry
  <2>6. ~(e.retries = 0)
    BY <1>1, <1>2
  <2> HIDE DEF f
  <2> QED  BY <1>2, <2>1, <2>2, <2>3, <2>4, <2>5, <2>6
<1>3. CASE ~(e.retries > 0)
  <2>1. e.retries = 0
    BY <1>1, <1>3
  <2>2. AfterFailure(e) = Continue(e)
    BY <1>3 DEF AfterFailure
  <2>3. CASE e.dirty
    <3>1. Continue(e) = [e EXCEPT !.phase = "settling"]
      BY <2>3 DEF Continue
    <3>2. /\ [e EXCEPT !.phase = "settling"] \in Entry
          /\ [e EXCEPT !.phase = "settling"].phase = "settling"
          /\ [e EXCEPT !.phase = "settling"].dirty = e.dirty
          /\ [e EXCEPT !.phase = "settling"].retries = e.retries
      BY DEF Entry
    <3> QED  BY <1>3, <2>1, <2>2, <2>3, <3>1, <3>2
  <2>4. CASE ~e.dirty
    <3>1. Continue(e) = NoEntry
      BY <2>4 DEF Continue
    <3>2. NoEntry \in Entry
      BY <1>1 DEF NoEntry, Entry
    <3> QED  BY <1>3, <2>1, <2>2, <2>4, <3>1, <3>2
  <2> QED  BY <2>3, <2>4
<1> QED  BY <1>2, <1>3

\* A message of the panel is one of those posted, and what an edit leaves.
LEMMA ShowsFacts ==
  ASSUME NEW s \in Seq(Nat), NEW v \in Nat
  PROVE  /\ Append(s, v) \in Seq(Nat) /\ Len(Append(s, v)) = Len(s) + 1
         /\ DOMAIN Append(s, v) = 1..(Len(s) + 1) /\ DOMAIN s = 1..Len(s) /\ Len(s) \in Nat
         /\ Append(s, v)[Len(s) + 1] = v
         /\ \A m \in DOMAIN s : Append(s, v)[m] = s[m]
         /\ \A m \in DOMAIN s : /\ [s EXCEPT ![m] = v] \in Seq(Nat)
                               /\ DOMAIN [s EXCEPT ![m] = v] = DOMAIN s
OBVIOUS

LEMMA PanelInitInv == RefreshInit => PanelInv
<1> SUFFICES ASSUME RefreshInit PROVE PanelInv
  OBVIOUS
<1>1. {MaxVotes, PanelRetries, MaxRow} \subseteq Nat /\ 0 \in 0..PanelRetries
  BY BoundsAssumption
<1>2. NoEntry \in Entry /\ NoEntry.phase = "none"
  BY <1>1 DEF NoEntry, Entry
<1>3. NoDraw \in AnyDraw /\ NoDraw.step = "none" /\ NoDraw.version = 0
  BY DEF NoDraw, Draw, AnyDraw
<1>4. /\ votes = 0 /\ asking = 0 /\ row = 0 /\ used = 0 /\ tries = 0
      /\ entry = NoEntry /\ draw = NoDraw /\ aside = NoDraw
      /\ (shows = << 0 >> /\ panel = 1) \/ (shows = << >> /\ panel = 0)
  BY DEF RefreshInit
<1>5. shows \in Seq(Nat) /\ (\A m \in Posted : shows[m] <= votes) /\ panel \in {0} \cup Posted
  <2>1. CASE shows = << 0 >> /\ panel = 1
    <3>1. << 0 >> \in Seq(Nat) /\ DOMAIN << 0 >> = {1} /\ << 0 >>[1] = 0
      OBVIOUS
    <3> QED  BY <1>4, <2>1, <3>1 DEF Posted
  <2>2. CASE shows = << >> /\ panel = 0
    <3>1. << >> \in Seq(Nat) /\ DOMAIN << >> = {}
      OBVIOUS
    <3> QED  BY <2>2, <3>1 DEF Posted
  <2> QED  BY <1>4, <2>1, <2>2
<1>6. PanelTyped
  BY <1>1, <1>2, <1>3, <1>4, <1>5 DEF PanelTyped, DrawTyped, Underway
<1>7. TriesCounted
  BY <1>1, <1>2, <1>4 DEF TriesCounted, Underway
<1>8. Shown
  BY <1>4 DEF Shown
<1>9. DrawIsCurrent
  BY <1>2, <1>4, <1>8 DEF DrawIsCurrent, Underway
<1> QED  BY <1>6, <1>7, <1>9 DEF PanelInv

\* A draw that begins has read the votes there are.
LEMMA RenderFacts ==
  ASSUME votes \in Nat, NEW p \in Nat
  PROVE  /\ Render(p) \in AnyDraw /\ Render(p).version = votes
         /\ Render(p).step # "none" /\ Render(p) # NoDraw
         /\ Render(p).step = "editing" => p # 0 /\ Render(p).msg = p
<1>1. CASE p = 0
  <2>1. Render(p) = [step |-> "sending", version |-> votes, msg |-> p]
    BY <1>1 DEF Render, Draw
  <2> QED  BY <2>1 DEF Draw, AnyDraw, NoDraw
<1>2. CASE p # 0
  <2>1. Render(p) = [step |-> "editing", version |-> votes, msg |-> p]
    BY <1>2 DEF Render, Draw
  <2> QED  BY <1>2, <2>1 DEF Draw, AnyDraw, NoDraw
<1> QED  BY <1>1, <1>2

\* Nothing but the draws, the panel and the requests matters to the entry.
LEMMA VoteKeepsPanel ==
  ASSUME PanelInv, Vote
  PROVE  PanelInv'
<1>1. /\ open /\ votes < MaxVotes /\ votes' = votes + 1 /\ asking' = asking + 1
      /\ UNCHANGED << open, shows, panel, entry, draw, aside, used, row, tries >>
  BY DEF Vote
<1>2. votes \in Nat /\ asking \in Nat /\ asking <= votes /\ MaxVotes \in Nat
  BY BoundsAssumption DEF PanelInv, PanelTyped
<1>3. votes' \in 0..MaxVotes /\ asking' \in 0..votes' /\ asking' # 0 /\ votes' \in Nat
  BY <1>1, <1>2
<1>4. \A n \in Nat : n <= votes => n <= votes'
  BY <1>1, <1>2
<1>5. (\A m \in Posted : shows[m] <= votes)'
  <2> SUFFICES ASSUME NEW m \in Posted PROVE shows[m] <= votes'
    BY <1>1 DEF Posted
  <2> QED  BY <1>4 DEF PanelInv, PanelTyped, Posted
<1>6. ASSUME NEW d, DrawTyped(d), d' = d PROVE DrawTyped(d)'
  BY <1>1, <1>4, <1>6 DEF DrawTyped, AnyDraw, Posted, NoDraw, Draw
<1>7. PanelTyped'
  BY <1>1, <1>3, <1>5, <1>6 DEF PanelInv, PanelTyped, Posted, Underway, NoDraw, Draw
<1> QED  BY <1>1, <1>3, <1>7 DEF PanelInv, TriesCounted, DrawIsCurrent, Underway

\* A request starts a round, or marks the one there is.
LEMMA AskKeepsPanel ==
  ASSUME PanelInv, NEW m \in {panel} \cup Posted, Ask(m)
  PROVE  PanelInv'
<1>1. /\ asking > 0 /\ asking' = asking - 1
      /\ UNCHANGED << votes, open, shows, aside, used, row >>
  BY DEF Ask
<1>2. votes \in Nat /\ asking \in 0..votes /\ PanelRetries \in Nat \ {0}
  BY BoundsAssumption, RetriesAssumption DEF PanelInv, PanelTyped
<1>3. asking' \in 0..votes'
  BY <1>1, <1>2
<1>4. m \in {0} \cup Posted /\ m \in Nat /\ Posted' = Posted
  <2>1. Posted = 1..Len(shows) /\ Len(shows) \in Nat
    BY ShowsFacts DEF PanelInv, PanelTyped, Posted
  <2> QED  BY <1>1, <2>1 DEF PanelInv, PanelTyped, Posted
<1>5. ASSUME NEW d, DrawTyped(d), d' = d PROVE DrawTyped(d)'
  BY <1>1, <1>4, <1>5 DEF DrawTyped, NoDraw, Draw
<1>6. DrawTyped(aside)'
  BY <1>1, <1>5 DEF PanelInv, PanelTyped
<1>7. (\A k \in Posted : shows[k] <= votes)'
  BY <1>1, <1>4 DEF PanelInv, PanelTyped
<1>8. CASE ~open
  <2>1. UNCHANGED << panel, entry, draw, tries >>
    BY <1>8 DEF Ask
  <2>2. DrawTyped(draw)'
    BY <1>5, <2>1 DEF PanelInv, PanelTyped
  <2>3. PanelTyped'
    BY <1>1, <1>3, <1>4, <1>6, <1>7, <2>1, <2>2 DEF PanelInv, PanelTyped, Underway, NoDraw, Draw
  <2> QED  BY <1>1, <1>8, <2>1, <2>3 DEF PanelInv, TriesCounted, DrawIsCurrent, Underway
<1>9. CASE open /\ entry.phase = "none"
  <2>1. panel' = m /\ tries' = 0 /\ entry' = Started /\ draw' = Render(m)
    BY <1>9 DEF Ask
  <2>2. /\ Started \in Entry /\ Started.phase = "leading" /\ Started.retries = PanelRetries
    BY <1>2 DEF Started, Entry
  <2>3. DrawTyped(draw)'
    BY <1>1, <1>2, <1>4, <2>1, RenderFacts DEF DrawTyped
  <2>4. Underway' /\ draw' # NoDraw
    BY <1>2, <1>4, <2>1, <2>2, RenderFacts DEF Underway
  <2>5. PanelTyped'
    BY <1>1, <1>3, <1>4, <1>6, <1>7, <2>1, <2>2, <2>3, <2>4
       DEF PanelInv, PanelTyped, NoDraw, Draw
  <2>6. TriesCounted'
    <3>1. 0 + PanelRetries <= PanelRetries
      BY <1>2
    <3> QED  BY <2>1, <2>2, <3>1 DEF TriesCounted, Underway
  <2>7. DrawIsCurrent'
    BY <1>1, <1>2, <1>4, <2>1, <2>2, RenderFacts DEF DrawIsCurrent, Underway
  <2> QED  BY <2>5, <2>6, <2>7 DEF PanelInv
<1>10. CASE open /\ entry.phase # "none"
  <2>1. /\ panel' = m /\ tries' = 0 /\ draw' = draw
        /\ entry' = [entry EXCEPT !.dirty = TRUE]
    BY <1>10 DEF Ask
  <2>2. entry \in Entry
    BY DEF PanelInv, PanelTyped
  <2>3. /\ entry' \in Entry /\ entry'.phase = entry.phase /\ entry'.retries = entry.retries
        /\ entry'.dirty = TRUE /\ entry.retries \in 0..PanelRetries
    BY <2>1, <2>2 DEF Entry
  <2>4. DrawTyped(draw)'
    BY <1>5, <2>1 DEF PanelInv, PanelTyped
  <2>5. PanelTyped'
    BY <1>1, <1>3, <1>4, <1>6, <1>7, <2>1, <2>3, <2>4
       DEF PanelInv, PanelTyped, Underway, NoDraw, Draw
  <2>6. TriesCounted'
    <3>1. 0 + entry.retries <= PanelRetries
      BY <1>2, <2>3
    <3> QED  BY <1>10, <2>1, <2>3, <3>1 DEF TriesCounted, Underway
  <2>7. DrawIsCurrent'
    BY <1>10, <2>3 DEF DrawIsCurrent
  <2> QED  BY <2>5, <2>6, <2>7 DEF PanelInv
<1> QED  BY <1>8, <1>9, <1>10

\* The next draw reads the lists anew; a closed rollcall is left alone.
LEMMA SettleKeepsPanel ==
  ASSUME PanelInv, Settle
  PROVE  PanelInv'
<1> DEFINE e == [entry EXCEPT !.phase = "trailing", !.dirty = FALSE]
<1>1. /\ entry.phase = "settling"
      /\ UNCHANGED << votes, open, asking, shows, panel, aside, used, row, tries >>
      /\ open => entry' = e /\ draw' = Render(panel)
      /\ ~open => entry' = AfterSuccess(e) /\ draw' = draw
  BY DEF Settle
<1>2. entry \in Entry
  BY DEF PanelInv, PanelTyped
<1>3. /\ e \in Entry /\ e.phase = "trailing" /\ e.dirty = FALSE
      /\ e.retries = entry.retries /\ entry.retries \in 0..PanelRetries
  BY <1>2 DEF Entry
<1> HIDE DEF e
<1>4. votes \in Nat /\ PanelRetries \in Nat \ {0} /\ tries \in Nat
  BY BoundsAssumption, RetriesAssumption DEF PanelInv, PanelTyped
<1>5. panel \in {0} \cup Posted /\ panel \in Nat /\ Posted' = Posted
  <2>1. Posted = 1..Len(shows) /\ Len(shows) \in Nat
    BY ShowsFacts DEF PanelInv, PanelTyped, Posted
  <2> QED  BY <1>1, <2>1 DEF PanelInv, PanelTyped, Posted
<1>6. ASSUME NEW d, DrawTyped(d), d' = d PROVE DrawTyped(d)'
  BY <1>1, <1>5, <1>6 DEF DrawTyped, NoDraw, Draw
<1>7. DrawTyped(aside)'
  BY <1>1, <1>6 DEF PanelInv, PanelTyped
<1>8. CASE open
  <2>1. entry' = e /\ draw' = Render(panel)
    BY <1>1, <1>8
  <2>2. DrawTyped(draw)'
    BY <1>1, <1>4, <1>5, <2>1, RenderFacts DEF DrawTyped
  <2>3. Underway' /\ draw' # NoDraw
    BY <1>3, <1>4, <1>5, <2>1, RenderFacts DEF Underway
  <2>4. PanelTyped'
    BY <1>1, <1>3, <1>5, <1>7, <2>1, <2>2, <2>3 DEF PanelInv, PanelTyped, NoDraw, Draw
  <2>5. TriesCounted'
    BY <1>1, <1>3, <2>1 DEF PanelInv, TriesCounted, Underway
  <2>6. DrawIsCurrent'
    BY <1>1, <1>3, <1>4, <1>5, <2>1, RenderFacts DEF DrawIsCurrent, Underway
  <2> QED  BY <2>4, <2>5, <2>6 DEF PanelInv
<1>9. CASE ~open
  <2>1. entry' = NoEntry /\ draw' = draw
    BY <1>1, <1>3, <1>9, AfterSuccessFacts
  <2>2. NoEntry \in Entry /\ NoEntry.phase = "none"
    BY <1>4 DEF NoEntry, Entry
  <2>3. DrawTyped(draw)'
    BY <1>6, <2>1 DEF PanelInv, PanelTyped
  <2>4. draw = NoDraw
    BY <1>1 DEF PanelInv, PanelTyped, Underway
  <2>5. PanelTyped'
    BY <1>1, <1>5, <1>7, <2>1, <2>2, <2>3, <2>4 DEF PanelInv, PanelTyped, Underway, NoDraw, Draw
  <2>6. tries <= PanelRetries + 1
    <3>1. tries + entry.retries <= PanelRetries
      BY <1>1 DEF PanelInv, TriesCounted
    <3> QED  BY <1>3, <1>4, <3>1
  <2>7. TriesCounted'
    BY <1>1, <2>1, <2>2, <2>6 DEF TriesCounted, Underway
  <2> QED  BY <1>1, <1>9, <2>5, <2>7 DEF PanelInv, DrawIsCurrent
<1> QED  BY <1>8, <1>9

\* What a draw leaves when it ends, whatever becomes of the messages.
Ended ==
  /\ UNCHANGED << votes, open, asking, aside, used >>
  /\ draw # NoDraw /\ draw' = NoDraw
  /\ shows' \in Seq(Nat) /\ Posted \subseteq Posted' /\ \A m \in Posted' : shows'[m] <= votes
  /\ panel' \in {0} \cup Posted'

LEMMA EndedTyped ==
  ASSUME PanelInv, Ended, entry' \in Entry, entry'.phase \in {"none", "settling"},
         row' \in 0..MaxRow, tries' \in Nat
  PROVE  PanelTyped'
<1>1. NoDraw \in AnyDraw /\ NoDraw.step = "none" /\ NoDraw.version = 0
  BY DEF NoDraw, Draw, AnyDraw
<1>2. NoDraw' = NoDraw
  BY DEF NoDraw, Draw
<1>3. votes \in Nat
  BY BoundsAssumption DEF PanelInv, PanelTyped
<1>4. DrawTyped(draw)'
  BY <1>1, <1>2, <1>3 DEF Ended, DrawTyped
<1>5. DrawTyped(aside)'
  BY <1>2 DEF PanelInv, PanelTyped, Ended, DrawTyped
<1> QED  BY <1>2, <1>4, <1>5 DEF PanelInv, PanelTyped, Ended, Underway

LEMMA SuccessKeepsPanel ==
  ASSUME PanelInv, Ended, Succeeds,
         open /\ used = 0 /\ asking = 0 /\ ~entry.dirty => Shown'
  PROVE  PanelInv'
<1>1. entry' = AfterSuccess(entry) /\ row' = 0 /\ tries' = tries
  BY DEF Succeeds
<1>2. entry \in Entry /\ MaxRow \in Nat /\ tries \in Nat /\ PanelRetries \in Nat \ {0}
  BY BoundsAssumption, RetriesAssumption DEF PanelInv, PanelTyped
<1>3. Underway
  BY DEF PanelInv, PanelTyped, Ended
<1>4. tries + entry.retries <= PanelRetries /\ (entry.dirty => tries = 0)
  BY <1>3 DEF PanelInv, TriesCounted
<1>5. entry.retries \in 0..PanelRetries /\ 0 \in 0..MaxRow
  BY <1>2 DEF Entry
<1>6. tries <= PanelRetries + 1
  BY <1>2, <1>4, <1>5
<1>7. CASE entry.dirty
  <2>1. /\ entry' \in Entry /\ entry'.phase = "settling" /\ entry'.dirty
        /\ entry'.retries \in {entry.retries, PanelRetries}
    BY <1>1, <1>2, <1>7, AfterSuccessFacts
  <2>2. PanelTyped'
    BY <1>1, <1>2, <1>5, <2>1, EndedTyped
  <2>3. tries' + entry'.retries <= PanelRetries
    BY <1>1, <1>2, <1>4, <1>5, <1>7, <2>1
  <2>4. TriesCounted'
    BY <2>1, <2>3 DEF TriesCounted, Underway
  <2> QED  BY <2>1, <2>2, <2>4 DEF PanelInv, DrawIsCurrent, Underway
<1>8. CASE ~entry.dirty
  <2>1. entry' = NoEntry
    BY <1>1, <1>2, <1>8, AfterSuccessFacts
  <2>2. NoEntry \in Entry /\ NoEntry.phase = "none"
    BY <1>2 DEF NoEntry, Entry
  <2>3. PanelTyped'
    BY <1>1, <1>2, <1>5, <2>1, <2>2, EndedTyped
  <2>4. TriesCounted'
    BY <1>1, <1>6, <2>1, <2>2 DEF TriesCounted, Underway
  <2>5. DrawIsCurrent'
    BY <1>8, <2>1, <2>2 DEF DrawIsCurrent, Underway, Ended
  <2> QED  BY <2>3, <2>4, <2>5 DEF PanelInv
<1> QED  BY <1>7, <1>8

LEMMA FailureKeepsPanel ==
  ASSUME PanelInv, Ended, Fails
  PROVE  PanelInv'
<1>1. entry' = AfterFailure(entry) /\ row < MaxRow /\ row' = row + 1 /\ tries' = tries + 1
  BY DEF Fails
<1>2. /\ entry \in Entry /\ MaxRow \in Nat /\ tries \in Nat /\ PanelRetries \in Nat \ {0}
      /\ row \in 0..MaxRow
  BY BoundsAssumption, RetriesAssumption DEF PanelInv, PanelTyped
<1>3. Underway
  BY DEF PanelInv, PanelTyped, Ended
<1>4. tries + entry.retries <= PanelRetries /\ (entry.dirty => tries = 0)
  BY <1>3 DEF PanelInv, TriesCounted
<1>5. entry.retries \in 0..PanelRetries
  BY <1>2 DEF Entry
<1>6. row' \in 0..MaxRow /\ row' # 0 /\ tries' \in Nat
  BY <1>1, <1>2
<1>7. CASE entry.retries > 0 \/ entry.dirty
  <2>1. ASSUME entry.retries > 0 PROVE tries' + entry'.retries <= PanelRetries
    <3>1. entry'.retries = entry.retries - 1
      BY <1>1, <1>2, <2>1, AfterFailureFacts
    <3> QED  BY <1>1, <1>2, <1>4, <1>5, <3>1
  <2>2. ASSUME entry.retries = 0, entry.dirty
        PROVE  tries' + entry'.retries <= PanelRetries
    <3>1. entry'.retries = 0
      BY <1>1, <1>2, <2>2, AfterFailureFacts
    <3>2. tries = 0
      BY <1>4, <2>2
    <3> QED  BY <1>1, <1>2, <3>1, <3>2
  <2>3. /\ entry.retries > 0 \/ (entry.retries = 0 /\ entry.dirty)
        /\ entry' \in Entry /\ entry'.phase = "settling" /\ entry'.dirty
    <3>1. entry.retries > 0 \/ entry.retries = 0
      BY <1>5
    <3> QED  BY <1>1, <1>2, <1>7, <3>1, AfterFailureFacts, Zenon
  <2>6. tries' + entry'.retries <= PanelRetries
    BY <2>1, <2>2, <2>3
  <2>4. PanelTyped'
    BY <1>6, <2>3, EndedTyped
  <2>5. TriesCounted'
    BY <2>3, <2>6 DEF TriesCounted, Underway
  <2> QED  BY <2>3, <2>4, <2>5 DEF PanelInv, DrawIsCurrent, Underway
<1>8. CASE ~(entry.retries > 0 \/ entry.dirty)
  <2>1. entry.retries = 0 /\ ~entry.dirty
    BY <1>5, <1>8
  <2>2. entry' = NoEntry
    BY <1>1, <1>2, <2>1, AfterFailureFacts
  <2>3. NoEntry \in Entry /\ NoEntry.phase = "none"
    BY <1>2 DEF NoEntry, Entry
  <2>4. PanelTyped'
    BY <1>6, <2>2, <2>3, EndedTyped
  <2>5. tries' <= PanelRetries + 1
    BY <1>1, <1>2, <1>4, <1>5
  <2>6. TriesCounted'
    BY <2>2, <2>3, <2>5 DEF TriesCounted, Underway
  <2>7. DrawIsCurrent'
    BY <1>6, <2>2, <2>3 DEF DrawIsCurrent, Underway
  <2> QED  BY <2>4, <2>6, <2>7 DEF PanelInv
<1> QED  BY <1>7, <1>8

\* Telegram's answers to the draw coalesce runs.
LEMMA AnswerKeepsPanel ==
  ASSUME PanelInv, DrawAnswer
  PROVE  PanelInv'
<1>1. /\ votes \in Nat /\ draw \in AnyDraw /\ draw.version \in Nat /\ draw.version <= votes
      /\ shows \in Seq(Nat) /\ (\A m \in Posted : shows[m] <= votes)
      /\ panel \in {0} \cup Posted /\ Posted = DOMAIN shows /\ Posted' = DOMAIN shows'
      /\ draw.step = "editing" => draw.msg \in Posted
  BY BoundsAssumption DEF PanelInv, PanelTyped, DrawTyped, AnyDraw, Posted
<1>2. NoDraw.step = "none"
  BY DEF NoDraw, Draw
<1>3. ASSUME Edited PROVE PanelInv'
  <2>1. /\ draw.step = "editing" /\ shows' = [shows EXCEPT ![draw.msg] = draw.version]
        /\ Succeeds /\ draw' = NoDraw
        /\ UNCHANGED << votes, open, asking, panel, aside, used >>
    BY <1>3 DEF Edited, Succeeds
  <2>2. shows' \in Seq(Nat) /\ Posted' = Posted
    BY <1>1, <2>1, ShowsFacts
  <2>3. \A m \in Posted' : shows'[m] <= votes
    BY <1>1, <2>1, <2>2
  <2>4. Ended
    BY <1>1, <1>2, <2>1, <2>2, <2>3 DEF Ended
  <2>5. ASSUME open, used = 0, asking = 0, ~entry.dirty PROVE Shown'
    <3>1. Underway
      BY <1>2, <2>1 DEF PanelInv, PanelTyped
    <3>2. draw.version = votes /\ draw.msg = panel
      BY <2>1, <2>5, <3>1 DEF PanelInv, DrawIsCurrent
    <3> QED  BY <1>1, <2>1, <3>2 DEF Shown
  <2> QED  BY <2>1, <2>4, <2>5, SuccessKeepsPanel
<1>4. ASSUME Sent PROVE PanelInv'
  <2>1. /\ draw.step = "sending" /\ shows' = Append(shows, draw.version)
        /\ panel' = Len(shows') /\ Succeeds /\ draw' = NoDraw
        /\ UNCHANGED << votes, open, asking, aside, used >>
    BY <1>4 DEF Sent, Succeeds
  <2>2. /\ shows' \in Seq(Nat) /\ panel' = Len(shows) + 1 /\ Posted = 1..Len(shows)
        /\ Posted' = 1..(Len(shows) + 1) /\ Len(shows) \in Nat
        /\ shows'[Len(shows) + 1] = draw.version /\ \A m \in Posted : shows'[m] = shows[m]
    BY <1>1, <2>1, ShowsFacts
  <2>3. \A m \in Posted' : m \in Posted \/ m = Len(shows) + 1
    BY <2>2
  <2>4. \A m \in Posted' : shows'[m] <= votes
    BY <1>1, <2>2, <2>3
  <2>5. Posted \subseteq Posted' /\ panel' \in Posted'
    BY <2>2
  <2>6. Ended
    BY <1>2, <2>1, <2>2, <2>4, <2>5 DEF Ended
  <2>7. ASSUME open, used = 0, asking = 0, ~entry.dirty PROVE Shown'
    <3>1. Underway
      BY <1>2, <2>1 DEF PanelInv, PanelTyped
    <3>2. draw.version = votes
      BY <2>7, <3>1 DEF PanelInv, DrawIsCurrent
    <3> QED  BY <2>1, <2>2, <3>2 DEF Shown
  <2> QED  BY <2>1, <2>6, <2>7, SuccessKeepsPanel
<1>5. ASSUME EditRefused \/ SendFails PROVE PanelInv'
  <2>1. /\ draw.step \in {"editing", "sending"} /\ Fails /\ draw' = NoDraw
        /\ UNCHANGED << votes, open, asking, shows, panel, aside, used >>
    BY <1>5 DEF EditRefused, SendFails, Fails
  <2>2. Ended
    BY <1>1, <1>2, <2>1 DEF Ended
  <2> QED  BY <2>1, <2>2, FailureKeepsPanel
<1>6. ASSUME EditLost PROVE PanelInv'
  <2>1. /\ draw.step = "editing" /\ draw' = [draw EXCEPT !.step = "sending"]
        /\ shows' \in {shows, [shows EXCEPT ![draw.msg] = draw.version]}
        /\ UNCHANGED << votes, open, asking, panel, entry, aside, used, row, tries >>
    BY <1>6 DEF EditLost
  <2>2. shows' \in Seq(Nat) /\ Posted' = Posted
    BY <1>1, <2>1, ShowsFacts
  <2>3. \A m \in Posted' : shows'[m] <= votes
    BY <1>1, <2>1, <2>2
  <2>4. /\ draw' \in AnyDraw /\ draw'.version = draw.version /\ draw'.step = "sending"
        /\ draw' # NoDraw
    BY <1>1, <1>2, <2>1 DEF AnyDraw
  <2>5. DrawTyped(draw)'
    BY <1>1, <2>1, <2>4 DEF DrawTyped
  <2>6. DrawTyped(aside)'
    BY <2>1, <2>2 DEF PanelInv, PanelTyped, DrawTyped, NoDraw, Draw
  <2>7. draw # NoDraw /\ Underway /\ Underway'
    BY <1>2, <2>1 DEF PanelInv, PanelTyped, Underway
  <2>8. PanelTyped'
    BY <2>1, <2>2, <2>3, <2>4, <2>5, <2>6, <2>7 DEF PanelInv, PanelTyped, NoDraw, Draw
  <2>9. TriesCounted' /\ DrawIsCurrent'
    BY <2>1, <2>4, <2>7 DEF PanelInv, TriesCounted, DrawIsCurrent, Underway
  <2> QED  BY <2>8, <2>9 DEF PanelInv
<1> QED  BY <1>3, <1>4, <1>5, <1>6 DEF DrawAnswer

\* Draws beside coalesce change what is shown, and are counted.
LEMMA AsideKeepsPanel ==
  ASSUME PanelInv, DrawAside \/ AsideAnswer
  PROVE  PanelInv'
<1>1. /\ votes \in Nat /\ used \in Nat /\ aside \in AnyDraw
      /\ aside.version \in Nat /\ aside.version <= votes
      /\ shows \in Seq(Nat) /\ (\A m \in Posted : shows[m] <= votes)
      /\ panel \in {0} \cup Posted /\ Posted = DOMAIN shows /\ Posted' = DOMAIN shows'
      /\ aside.step = "editing" => aside.msg \in Posted
      /\ Posted = 1..Len(shows) /\ Len(shows) \in Nat
  BY BoundsAssumption, ShowsFacts DEF PanelInv, PanelTyped, DrawTyped, AnyDraw, Posted
<1>2. NoDraw.step = "none" /\ NoDraw \in AnyDraw /\ NoDraw.version = 0 /\ NoDraw' = NoDraw
  BY DEF NoDraw, Draw, AnyDraw
<1>3. UNCHANGED << votes, open, asking, entry, draw, row, tries >> /\ Underway' = Underway
  BY DEF DrawAside, AsideAnswer, AsideDone, AsideFails, Underway
<1>4. ASSUME shows' \in Seq(Nat), Posted \subseteq Posted', \A m \in Posted' : shows'[m] <= votes,
             panel' \in {0} \cup Posted', DrawTyped(aside)', used' \in Nat \ {0}
      PROVE  PanelInv'
  <2>1. DrawTyped(draw)'
    BY <1>2, <1>3, <1>4 DEF PanelInv, PanelTyped, DrawTyped
  <2>2. PanelTyped'
    BY <1>2, <1>3, <1>4, <2>1 DEF PanelInv, PanelTyped
  <2> QED  BY <1>3, <1>4, <2>2 DEF PanelInv, TriesCounted, DrawIsCurrent
<1>5. ASSUME DrawAside PROVE PanelInv'
  <2>1. used' \in Nat \ {0} /\ UNCHANGED << shows, panel >>
    BY <1>1, <1>5 DEF DrawAside
  <2>2. \/ aside' = [step |-> "sending", version |-> votes, msg |-> 0]
        \/ \E m \in Posted : aside' = [step |-> "editing", version |-> votes, msg |-> m]
    BY <1>5 DEF DrawAside, Draw
  <2>3. DrawTyped(aside)'
    BY <1>1, <1>3, <2>1, <2>2 DEF DrawTyped, AnyDraw
  <2> QED  BY <1>1, <1>4, <2>1, <2>3
<1>6. ASSUME AsideDone \/ AsideFails PROVE PanelInv'
  <2>1. aside # NoDraw /\ aside' = NoDraw /\ UNCHANGED used
    BY <1>2, <1>6 DEF AsideDone, AsideFails
  <2>2. used' \in Nat \ {0}
    BY <1>1, <2>1 DEF PanelInv, PanelTyped
  <2>3. DrawTyped(aside)'
    BY <1>1, <1>2, <1>3, <2>1 DEF DrawTyped
  <2>4. CASE shows' = Append(shows, aside.version) /\ panel' = Len(shows')
    <3>1. /\ shows' \in Seq(Nat) /\ panel' = Len(shows) + 1
          /\ Posted' = 1..(Len(shows) + 1)
          /\ shows'[Len(shows) + 1] = aside.version /\ \A m \in Posted : shows'[m] = shows[m]
      BY <1>1, <2>4, ShowsFacts
    <3>2. \A m \in Posted' : m \in Posted \/ m = Len(shows) + 1
      BY <1>1, <3>1
    <3>3. \A m \in Posted' : shows'[m] <= votes
      BY <1>1, <3>1, <3>2
    <3>4. Posted \subseteq Posted' /\ panel' \in Posted'
      BY <1>1, <3>1
    <3> QED  BY <1>4, <2>2, <2>3, <3>1, <3>3, <3>4
  <2>5. CASE /\ aside.step = "editing" /\ panel' = aside.msg
             /\ shows' = [shows EXCEPT ![aside.msg] = aside.version]
    <3>1. shows' \in Seq(Nat) /\ Posted' = Posted /\ panel' \in Posted
      BY <1>1, <2>5, ShowsFacts
    <3>2. \A m \in Posted' : shows'[m] <= votes
      BY <1>1, <2>5, <3>1
    <3> QED  BY <1>4, <2>2, <2>3, <3>1, <3>2
  <2>6. CASE UNCHANGED << shows, panel >>
    BY <1>1, <1>4, <2>2, <2>3, <2>6
  <2> QED  BY <1>6, <2>4, <2>5, <2>6 DEF AsideDone, AsideFails
<1> QED  BY <1>5, <1>6 DEF AsideAnswer

LEMMA CloseKeepsPanel ==
  ASSUME PanelInv, Close
  PROVE  PanelInv'
<1>1. /\ ~open' /\ panel' = 0
      /\ UNCHANGED << votes, asking, shows, entry, draw, aside, used, row, tries >>
  BY DEF Close
<1>2. Underway' = Underway /\ Posted' = Posted /\ NoDraw' = NoDraw
  BY <1>1 DEF Underway, Posted, NoDraw, Draw
<1>3. DrawTyped(draw)' /\ DrawTyped(aside)'
  BY <1>1, <1>2 DEF PanelInv, PanelTyped, DrawTyped
<1>4. PanelTyped'
  BY <1>1, <1>2, <1>3 DEF PanelInv, PanelTyped
<1> QED  BY <1>1, <1>2, <1>4 DEF PanelInv, TriesCounted, DrawIsCurrent

LEMMA PanelNextInv == PanelInv /\ [RefreshNext]_refreshVars => PanelInv'
<1> SUFFICES ASSUME PanelInv, [RefreshNext]_refreshVars PROVE PanelInv'
  OBVIOUS
<1>1. CASE UNCHANGED refreshVars
  <2>1. /\ UNCHANGED << votes, open, asking, shows, panel, entry >>
        /\ UNCHANGED << draw, aside, used, row, tries >>
    BY <1>1 DEF refreshVars
  <2> QED  BY <2>1 DEF PanelInv, PanelTyped, TriesCounted, DrawIsCurrent, DrawTyped, Underway,
                     Posted, Shown, NoDraw, Draw
<1>2. ASSUME AnyAsk PROVE PanelInv'
  BY <1>2, AskKeepsPanel DEF AnyAsk
<1> QED  BY <1>1, <1>2, VoteKeepsPanel, SettleKeepsPanel, AnswerKeepsPanel, AsideKeepsPanel,
            CloseKeepsPanel DEF RefreshNext

\* The panel rests only when it shows every vote or its last draw failed, and
\* the retries of a failed draw come to an end, whatever happens in between.
THEOREM PanelCorrect == RefreshSpec => []PanelOK
<1>1. PanelInv => PanelOK
  <2> SUFFICES ASSUME PanelInv PROVE PanelOK
    OBVIOUS
  <2>1. /\ PanelRetries \in Nat \ {0} /\ votes \in Nat /\ tries \in Nat /\ entry \in Entry
        /\ entry.retries \in 0..PanelRetries
    BY BoundsAssumption, RetriesAssumption DEF PanelInv, PanelTyped, Entry
  <2>2. shows \in Seq(Nat) /\ \A m \in Posted : shows[m] \in Nat
    BY DEF PanelInv, PanelTyped, Posted
  <2>3. \A m \in Posted : shows[m] \in 0..votes
    BY <2>1, <2>2 DEF PanelInv, PanelTyped
  <2>4. (draw = NoDraw) = (entry.phase \in {"none", "settling"})
    BY <2>1 DEF PanelInv, PanelTyped, Underway, Entry
  <2>5. PanelTypeOK
    BY <2>1, <2>3, <2>4 DEF PanelInv, PanelTyped, PanelTypeOK, DrawTyped
  <2>6. SettledPanelIsCurrent
    BY DEF PanelInv, DrawIsCurrent, SettledPanelIsCurrent, Quiet
  <2>7. TwoFailuresStop
    <3>1. tries <= PanelRetries + 1 \/ tries + entry.retries <= PanelRetries
      BY <2>1 DEF PanelInv, TriesCounted, Underway, Entry
    <3> QED  BY <2>1, <3>1 DEF TwoFailuresStop
  <2> QED  BY <2>5, <2>6, <2>7 DEF PanelOK
<1> QED  BY <1>1, PanelInitInv, PanelNextInv, PTL DEF RefreshSpec

-----------------------------------------------------------------------------
(***************************************************************************)
(* The delivery of messages.                                               *)
(***************************************************************************)
Queued == {"waiting", "asleep", "calling"}

\* Who queues is in recovery, once; the queue is the end of the line of all
\* that ever queued.
QueueInv ==
  /\ state \in [Sends -> States] /\ queue \in Seq(Sends) /\ entered \in Seq(Sends)
  /\ IsInjective(entered)
  /\ \A s \in ToSet(entered) : state[s] \notin {"idle", "direct"}
  /\ Len(queue) <= Len(entered)
  /\ \A i \in 1..Len(queue) : queue[i] = entered[Len(entered) - Len(queue) + i]
  /\ ToSet(queue) = {s \in Sends : state[s] \in Queued}
  /\ \A s \in Sends : state[s] \in {"asleep", "calling"} => s = Head(queue)

\* What was posted is over, and in the order of the line.
PostedInv ==
  /\ posted \in Seq(Sends) /\ IsInjective(posted)
  /\ \A s \in ToSet(posted) : state[s] \in Over
  /\ FirstInFirstOut

OutboxInv == now \in 0..LastTime /\ QueueInv /\ PostedInv

\* The end of a line without repetition does not repeat either.
LEMMA QueueInjective == QueueInv => IsInjective(queue)
<1> SUFFICES ASSUME QueueInv PROVE IsInjective(queue)
  OBVIOUS
<1>1. Len(queue) \in Nat /\ Len(entered) \in Nat /\ Len(queue) <= Len(entered)
  BY DEF QueueInv
<1>2. \A i, j \in 1..Len(entered) : entered[i] = entered[j] => i = j
  BY InjectiveElements DEF QueueInv
<1>3. \A i \in 1..Len(queue) : /\ queue[i] = entered[Len(entered) - Len(queue) + i]
                              /\ Len(entered) - Len(queue) + i \in 1..Len(entered)
  BY <1>1 DEF QueueInv
<1>4. ASSUME NEW i \in 1..Len(queue), NEW j \in 1..Len(queue), queue[i] = queue[j]
      PROVE  i = j
  <2>1. Len(entered) - Len(queue) + i = Len(entered) - Len(queue) + j
    BY <1>2, <1>3, <1>4
  <2> QED  BY <1>1, <2>1
<1> QED  BY <1>4, InjectiveElements DEF QueueInv

\* A send that queues goes to the end of both.
LEMMA EnqueueKeeps ==
  ASSUME QueueInv, PostedInv, NEW s \in Sends, state[s] \in {"idle", "direct"}, Enqueue(s),
         posted' = posted
  PROVE  QueueInv' /\ PostedInv'
<1>1. /\ state' = [state EXCEPT ![s] = "waiting"] /\ queue' = Append(queue, s)
      /\ entered' = Append(entered, s)
  BY DEF Enqueue
<1>2. /\ state \in [Sends -> States] /\ queue \in Seq(Sends) /\ entered \in Seq(Sends)
      /\ Len(queue) \in Nat /\ Len(entered) \in Nat /\ Len(queue) <= Len(entered)
      /\ DOMAIN entered = 1..Len(entered)
  BY DEF QueueInv
<1>3. s \notin ToSet(entered) /\ s \notin ToSet(queue) /\ s \notin ToSet(posted)
  BY DEF QueueInv, PostedInv, Queued, Over
<1>4. IsInjective(queue) /\ IsInjective(entered)
  BY QueueInjective DEF QueueInv
<1>5. /\ queue' \in Seq(Sends) /\ ToSet(queue') = ToSet(queue) \cup {s}
      /\ Len(queue') = Len(queue) + 1
  BY <1>1, <1>2, <1>3, <1>4, AppendFacts
<1>6. /\ entered' \in Seq(Sends) /\ ToSet(entered') = ToSet(entered) \cup {s}
      /\ Len(entered') = Len(entered) + 1 /\ IsInjective(entered')
  BY <1>1, <1>2, <1>3, <1>4, AppendFacts
<1>7. /\ \A i \in 1..Len(queue) : queue'[i] = queue[i]
      /\ queue'[Len(queue) + 1] = s
      /\ \A i \in 1..Len(entered) : entered'[i] = entered[i]
      /\ entered'[Len(entered) + 1] = s
  BY <1>1, <1>2
<1>8. state' \in [Sends -> States] /\ \A v \in Sends : v # s => state'[v] = state[v]
  BY <1>1, <1>2 DEF States
<1>9. state'[s] = "waiting"
  BY <1>1, <1>2
<1>10. \A v \in ToSet(entered') : state'[v] \notin {"idle", "direct"}
  <2>1. ToSet(entered) \subseteq Sends
    BY <1>2 DEF ToSet
  <2> QED  BY <1>6, <1>8, <1>9, <2>1 DEF QueueInv
<1>11. ASSUME NEW i \in 1..Len(queue')
       PROVE  queue'[i] = entered'[Len(entered') - Len(queue') + i]
  <2>1. CASE i \in 1..Len(queue)
    <3>1. /\ Len(entered') - Len(queue') + i = Len(entered) - Len(queue) + i
          /\ Len(entered) - Len(queue) + i \in 1..Len(entered)
      BY <1>2, <1>5, <1>6, <2>1
    <3> QED  BY <1>7, <2>1, <3>1 DEF QueueInv
  <2>2. CASE i = Len(queue) + 1
    <3>1. Len(entered') - Len(queue') + i = Len(entered) + 1
      BY <1>2, <1>5, <1>6, <2>2
    <3> QED  BY <1>7, <2>2, <3>1
  <2> QED  BY <1>2, <1>5, <2>1, <2>2
<1>12. ToSet(queue') = {v \in Sends : state'[v] \in Queued}
  BY <1>5, <1>8, <1>9 DEF QueueInv, Queued
<1>13. ASSUME NEW v \in Sends, state'[v] \in {"asleep", "calling"}
       PROVE  v = Head(queue')
  <2>1. v # s /\ state[v] \in {"asleep", "calling"}
    BY <1>8, <1>9, <1>13
  <2>2. v = Head(queue) /\ v \in ToSet(queue)
    BY <2>1 DEF QueueInv, Queued
  <2>3. Len(queue) > 0
    BY <1>2, <2>2 DEF ToSet
  <2>4. Head(queue') = Head(queue)
    BY <1>1, <1>2, <2>3
  <2> QED  BY <2>2, <2>4
<1>14. Len(queue') <= Len(entered')
  BY <1>2, <1>5, <1>6
<1>15. QueueInv'
  BY <1>5, <1>6, <1>8, <1>10, <1>11, <1>12, <1>13, <1>14 DEF QueueInv, Queued, States, Over
<1>16. FirstInFirstOut'
  <2> SUFFICES ASSUME NEW i \in DOMAIN posted, NEW j \in DOMAIN posted, i < j,
                      {posted[i], posted[j]} \subseteq ToSet(entered')
               PROVE  \E k, l \in DOMAIN entered' :
                        k < l /\ entered'[k] = posted[i] /\ entered'[l] = posted[j]
    BY DEF FirstInFirstOut
  <2>1. posted[i] \in ToSet(posted) /\ posted[j] \in ToSet(posted)
    BY DEF ToSet
  <2>2. {posted[i], posted[j]} \subseteq ToSet(entered)
    BY <1>3, <1>6, <2>1
  <2>3. PICK k, l \in DOMAIN entered :
          k < l /\ entered[k] = posted[i] /\ entered[l] = posted[j]
    BY <2>2 DEF PostedInv, FirstInFirstOut
  <2>4. DOMAIN entered' = 1..(Len(entered) + 1)
    BY <1>6
  <2> QED  BY <1>2, <1>7, <2>3, <2>4
<1>17. \A v \in ToSet(posted) : state'[v] \in Over
  <2>1. ToSet(posted) \subseteq Sends
    BY DEF PostedInv, ToSet
  <2> QED  BY <1>3, <1>8, <2>1 DEF PostedInv
<1> QED  BY <1>15, <1>16, <1>17 DEF PostedInv, Over

\* What goes out is new, and comes after whatever queued and went out before.
LEMMA PostKeepsOrder ==
  ASSUME PostedInv, NEW s \in Sends, s \notin ToSet(posted), posted' = Append(posted, s),
         entered' = entered,
         \A v \in ToSet(posted) \cap ToSet(entered) : s \in ToSet(entered) =>
           \E k, l \in DOMAIN entered : k < l /\ entered[k] = v /\ entered[l] = s
  PROVE  /\ posted' \in Seq(Sends) /\ IsInjective(posted')
         /\ ToSet(posted') = ToSet(posted) \cup {s} /\ FirstInFirstOut'
<1>1. /\ posted' \in Seq(Sends) /\ IsInjective(posted')
      /\ ToSet(posted') = ToSet(posted) \cup {s} /\ Len(posted') = Len(posted) + 1
  BY AppendFacts DEF PostedInv
<1>2. /\ posted \in Seq(Sends) /\ Len(posted) \in Nat /\ DOMAIN posted = 1..Len(posted)
      /\ DOMAIN posted' = 1..(Len(posted) + 1)
      /\ \A i \in DOMAIN posted : posted'[i] = posted[i]
      /\ posted'[Len(posted) + 1] = s
  BY <1>1 DEF PostedInv
<1>3. ASSUME NEW i \in DOMAIN posted', NEW j \in DOMAIN posted', i < j,
             {posted'[i], posted'[j]} \subseteq ToSet(entered)
      PROVE  \E k, l \in DOMAIN entered :
               k < l /\ entered[k] = posted'[i] /\ entered[l] = posted'[j]
  <2>1. i \in DOMAIN posted
    BY <1>2, <1>3
  <2>2. CASE j \in DOMAIN posted
    BY <1>2, <1>3, <2>1, <2>2 DEF PostedInv, FirstInFirstOut
  <2>3. CASE j = Len(posted) + 1
    <3>1. posted'[j] = s /\ posted'[i] \in ToSet(posted)
      BY <1>2, <2>1, <2>3 DEF ToSet
    <3> QED  BY <1>3, <3>1
  <2> QED  BY <1>2, <2>2, <2>3
<1>4. FirstInFirstOut'
  BY <1>3 DEF FirstInFirstOut
<1> QED  BY <1>1, <1>4

\* A send outside the queue is sent directly, or is over.
LEMMA DirectKeeps ==
  ASSUME QueueInv, PostedInv, NEW s \in Sends, state[s] \in {"idle", "direct"},
         NEW v \in {"direct"} \cup Over, state' = [state EXCEPT ![s] = v],
         UNCHANGED << queue, entered >>,
         posted' = posted \/ (v \in Over /\ posted' = Append(posted, s))
  PROVE  QueueInv' /\ PostedInv'
<1>1. /\ state \in [Sends -> States] /\ state' \in [Sends -> States] /\ state'[s] = v
      /\ \A w \in Sends : w # s => state'[w] = state[w]
  BY DEF QueueInv, States
<1>2. /\ s \notin ToSet(entered) /\ s \notin ToSet(posted) /\ s \notin ToSet(queue)
      /\ v \notin Queued
  BY DEF QueueInv, PostedInv, Over, Queued
<1>3. ToSet(entered) \subseteq Sends /\ ToSet(posted) \subseteq Sends
  BY DEF QueueInv, PostedInv, ToSet
<1>4. \A w \in ToSet(entered) : state'[w] \notin {"idle", "direct"}
  BY <1>1, <1>2, <1>3 DEF QueueInv
<1>5. ToSet(queue) = {w \in Sends : state'[w] \in Queued}
  BY <1>1, <1>2 DEF QueueInv, Queued
<1>6. \A w \in Sends : state'[w] \in {"asleep", "calling"} => w = Head(queue)
  BY <1>1, <1>2 DEF QueueInv, Queued
<1>7. QueueInv'
  BY <1>1, <1>4, <1>5, <1>6 DEF QueueInv, Queued, States, Over
<1>8. CASE posted' = posted
  <2>1. \A w \in ToSet(posted) : state'[w] \in Over
    BY <1>1, <1>2, <1>3 DEF PostedInv
  <2> QED  BY <1>7, <1>8, <2>1 DEF PostedInv, FirstInFirstOut, Over
<1>9. CASE v \in Over /\ posted' = Append(posted, s)
  <2>1. /\ posted' \in Seq(Sends) /\ IsInjective(posted')
        /\ ToSet(posted') = ToSet(posted) \cup {s} /\ FirstInFirstOut'
    BY <1>2, <1>9, PostKeepsOrder
  <2>2. \A w \in ToSet(posted') : state'[w] \in Over
    BY <1>1, <1>2, <1>3, <1>9, <2>1 DEF PostedInv
  <2> QED  BY <1>7, <2>1, <2>2 DEF PostedInv, Over
<1> QED  BY <1>8, <1>9

\* The head of the queue waits, sleeps or calls.
LEMMA HeadKeeps ==
  ASSUME QueueInv, PostedInv, NEW s \in Sends, s = Head(queue), state[s] \in Queued,
         NEW v \in Queued, state' = [state EXCEPT ![s] = v],
         UNCHANGED << queue, entered, posted >>
  PROVE  QueueInv' /\ PostedInv'
<1>1. /\ state \in [Sends -> States] /\ state' \in [Sends -> States] /\ state'[s] = v
      /\ \A w \in Sends : w # s => state'[w] = state[w]
  BY DEF QueueInv, States, Queued
<1>2. ToSet(entered) \subseteq Sends /\ ToSet(posted) \subseteq Sends
  BY DEF QueueInv, PostedInv, ToSet
<1>3. s \notin ToSet(posted)
  BY DEF PostedInv, Over, Queued
<1>4. \A w \in ToSet(entered) : state'[w] \notin {"idle", "direct"}
  BY <1>1, <1>2 DEF QueueInv, Queued
<1>5. ToSet(queue) = {w \in Sends : state'[w] \in Queued}
  BY <1>1 DEF QueueInv
<1>6. \A w \in Sends : state'[w] \in {"asleep", "calling"} => w = Head(queue)
  BY <1>1 DEF QueueInv
<1>7. QueueInv'
  BY <1>1, <1>4, <1>5, <1>6 DEF QueueInv, Queued, States, Over
<1>8. \A w \in ToSet(posted) : state'[w] \in Over
  BY <1>1, <1>2, <1>3 DEF PostedInv
<1> QED  BY <1>7, <1>8 DEF PostedInv, FirstInFirstOut, Over

\* The head of the queue leaves it, and whoever is behind it stays in line.
LEMMA LeaveKeeps ==
  ASSUME QueueInv, PostedInv, NEW s \in Sends, s = Head(queue), state[s] \in Queued,
         NEW v \in Over, state' = [state EXCEPT ![s] = v],
         queue' = Tail(queue), entered' = entered, posted' \in {posted, Append(posted, s)}
  PROVE  QueueInv' /\ PostedInv'
<1>1. /\ state \in [Sends -> States] /\ state' \in [Sends -> States] /\ state'[s] = v
      /\ \A w \in Sends : w # s => state'[w] = state[w]
  BY DEF QueueInv, States, Over
<1>2. /\ ToSet(entered) \subseteq Sends /\ ToSet(posted) \subseteq Sends
      /\ queue \in Seq(Sends) /\ entered \in Seq(Sends)
      /\ Len(queue) \in Nat /\ Len(entered) \in Nat /\ Len(queue) <= Len(entered)
      /\ DOMAIN entered = 1..Len(entered) /\ DOMAIN queue = 1..Len(queue)
  BY DEF QueueInv, PostedInv, ToSet
<1>3. s \notin ToSet(posted) /\ v \notin Queued /\ v \notin {"idle", "direct"}
  BY DEF PostedInv, Over, Queued
<1>4. s \in ToSet(queue) /\ queue # << >>
  <2>1. s \in ToSet(queue)
    BY DEF QueueInv
  <2> QED  BY <2>1 DEF ToSet
<1>5. /\ queue' \in Seq(Sends) /\ ToSet(queue') = ToSet(queue) \ {s}
      /\ Len(queue') = Len(queue) - 1 /\ Len(queue) >= 1
  <2>1. /\ Tail(queue) \in Seq(Sends) /\ ToSet(Tail(queue)) = ToSet(queue) \ {Head(queue)}
        /\ Len(Tail(queue)) = Len(queue) - 1
    BY <1>2, <1>4, QueueInjective, HeadTailFacts
  <2>2. Len(queue) >= 1
    BY <1>2, <1>4
  <2> QED  BY <2>1, <2>2
<1>6. /\ \A i \in 1..Len(queue') : queue'[i] = queue[i + 1]
      /\ s = queue[1]
  BY <1>2, <1>4, <1>5
<1>7. \A w \in ToSet(entered) : state'[w] \notin {"idle", "direct"}
  BY <1>1, <1>2, <1>3 DEF QueueInv
<1>8. ToSet(queue') = {w \in Sends : state'[w] \in Queued}
  BY <1>1, <1>3, <1>5 DEF QueueInv
<1>9. \A w \in Sends : state'[w] \notin {"asleep", "calling"}
  BY <1>1, <1>3 DEF QueueInv, Queued
<1>10. ASSUME NEW i \in 1..Len(queue')
       PROVE  queue'[i] = entered[Len(entered) - Len(queue') + i]
  <2>1. /\ i + 1 \in 1..Len(queue)
        /\ Len(entered) - Len(queue) + (i + 1) = Len(entered) - Len(queue') + i
    BY <1>2, <1>5
  <2> QED  BY <1>6, <2>1 DEF QueueInv
<1>11. Len(queue') <= Len(entered)
  BY <1>2, <1>5
<1>12. QueueInv'
  BY <1>1, <1>5, <1>7, <1>8, <1>9, <1>10, <1>11 DEF QueueInv, Queued, States, Over
<1>13. ASSUME NEW w \in ToSet(posted) \cap ToSet(entered)
       PROVE  \E k, l \in DOMAIN entered : k < l /\ entered[k] = w /\ entered[l] = s
  <2>1. PICK k \in DOMAIN entered : entered[k] = w
    BY DEF ToSet
  <2> DEFINE l == Len(entered) - Len(queue) + 1
  <2>2. l \in DOMAIN entered /\ l \in Nat /\ k \in Nat
    BY <1>2, <1>5
  <2>3. entered[l] = s
    BY <1>2, <1>5, <1>6 DEF QueueInv
  <2>4. k < l
    <3> SUFFICES ASSUME ~(k < l) PROVE FALSE
      OBVIOUS
    <3> DEFINE i == k - (Len(entered) - Len(queue))
    <3>1. i \in 1..Len(queue) /\ Len(entered) - Len(queue) + i = k
      BY <1>2, <1>5, <2>2
    <3>2. queue[i] = w
      BY <2>1, <3>1 DEF QueueInv
    <3>3. w \in ToSet(queue)
      BY <1>2, <3>1, <3>2 DEF ToSet
    <3>4. state[w] \in Queued /\ state[w] \in Over
      BY <3>3 DEF QueueInv, PostedInv
    <3> QED  BY <3>4 DEF Queued, Over
  <2> QED  BY <2>1, <2>2, <2>3, <2>4
<1>14. CASE posted' = posted
  <2>1. \A w \in ToSet(posted) : state'[w] \in Over
    BY <1>1, <1>2, <1>3 DEF PostedInv
  <2> QED  BY <1>12, <1>14, <2>1 DEF PostedInv, FirstInFirstOut, Over
<1>15. CASE posted' = Append(posted, s)
  <2>1. /\ posted' \in Seq(Sends) /\ IsInjective(posted')
        /\ ToSet(posted') = ToSet(posted) \cup {s} /\ FirstInFirstOut'
    BY <1>3, <1>13, <1>15, PostKeepsOrder
  <2>2. \A w \in ToSet(posted') : state'[w] \in Over
    BY <1>1, <1>2, <1>3, <2>1 DEF PostedInv
  <2> QED  BY <1>12, <2>1, <2>2 DEF PostedInv, Over
<1> QED  BY <1>14, <1>15

LEMMA OutboxInitInv == Init => OutboxInv
<1> SUFFICES ASSUME Init PROVE OutboxInv
  OBVIOUS
<1>1. /\ now = 0 /\ state = [s \in Sends |-> "idle"]
      /\ queue = << >> /\ posted = << >> /\ entered = << >>
  BY DEF Init
<1>2. now \in 0..LastTime
  BY <1>1, TimesAssumption DEF LastTime
<1>3. << >> \in Seq(Sends) /\ Len(<< >>) = 0 /\ ToSet(<< >>) = {} /\ IsInjective(<< >>)
  BY DEF ToSet, IsInjective
<1>4. QueueInv
  BY <1>1, <1>3 DEF QueueInv, States, Over, Queued
<1>5. PostedInv
  <2>1. DOMAIN posted = {}
    BY <1>1
  <2> QED  BY <1>1, <1>3, <2>1 DEF PostedInv, FirstInFirstOut
<1> QED  BY <1>2, <1>4, <1>5 DEF OutboxInv

LEMMA SendKeeps ==
  ASSUME OutboxInv, NEW s \in Sends, Deliver(s) \/ Turn(s) \/ Wake(s) \/ Answer(s)
  PROVE  OutboxInv'
<1>1. QueueInv /\ PostedInv
  BY DEF OutboxInv
<1>2. now' = now
  BY DEF Deliver, Turn, Wake, Answer, DirectPosted, DirectFailed, TurnPosted, TurnFailed,
         DirectRefused, TurnRefused
<1>3. {"posted", "failed", "refused", "gaveup"} \subseteq Over
  BY DEF Over
<1>4. ASSUME state[s] \in {"asleep", "calling"} PROVE s = Head(queue) /\ state[s] \in Queued
  BY <1>1, <1>4 DEF QueueInv, Queued
<1>5. ASSUME Deliver(s) PROVE QueueInv' /\ PostedInv'
  <2>1. state[s] \in {"idle", "direct"} /\ posted' = posted
    BY <1>5 DEF Deliver
  <2>2. CASE Recovering
    BY <1>1, <1>5, <2>1, <2>2, EnqueueKeeps DEF Deliver
  <2>3. CASE ~Recovering
    <3>1. state' = [state EXCEPT ![s] = "direct"] /\ UNCHANGED << queue, entered >>
      BY <1>5, <2>3 DEF Deliver, Call
    <3> QED  BY <1>1, <2>1, <3>1, DirectKeeps
  <2> QED  BY <2>2, <2>3
<1>6. ASSUME Turn(s) PROVE QueueInv' /\ PostedInv'
  <2>1. s = Head(queue) /\ state[s] \in Queued /\ UNCHANGED << posted, entered >>
    BY <1>6 DEF Turn, Queued
  <2>2. CASE state' = [state EXCEPT ![s] = "gaveup"] /\ queue' = Tail(queue)
    BY <1>1, <1>3, <2>1, <2>2, LeaveKeeps
  <2>3. CASE \E v \in {"asleep", "calling"} : state' = [state EXCEPT ![s] = v] /\ queue' = queue
    BY <1>1, <2>1, <2>3, HeadKeeps DEF Queued
  <2> QED  BY <1>6, <2>2, <2>3 DEF Turn, LeaveQueue, Call
<1>7. ASSUME Wake(s) PROVE QueueInv' /\ PostedInv'
  <2>1. /\ state[s] \in {"asleep", "calling"} /\ state' = [state EXCEPT ![s] = "calling"]
        /\ UNCHANGED << queue, posted, entered >>
    BY <1>7 DEF Wake, Call
  <2> QED  BY <1>1, <1>4, <2>1, HeadKeeps DEF Queued
<1>8. ASSUME DirectPosted(s) \/ DirectFailed(s) PROVE QueueInv' /\ PostedInv'
  <2>1. /\ state[s] \in {"idle", "direct"} /\ UNCHANGED << queue, entered >>
        /\ posted' \in {posted, Append(posted, s)}
        /\ \E v \in Over : state' = [state EXCEPT ![s] = v]
    BY <1>3, <1>8 DEF DirectPosted, DirectFailed
  <2> QED  BY <1>1, <2>1, DirectKeeps
<1>9. ASSUME NEW ra \in RetryAfters, DirectRefused(s, ra) PROVE QueueInv' /\ PostedInv'
  <2>1. state[s] \in {"idle", "direct"} /\ posted' = posted
    BY <1>9 DEF DirectRefused
  <2>2. CASE s \in Uploads
    <3>1. state' = [state EXCEPT ![s] = "refused"] /\ UNCHANGED << queue, entered >>
      BY <1>9, <2>2 DEF DirectRefused
    <3> QED  BY <1>1, <1>3, <2>1, <3>1, DirectKeeps
  <2>3. CASE s \notin Uploads
    BY <1>1, <1>9, <2>1, <2>3, EnqueueKeeps DEF DirectRefused
  <2> QED  BY <2>2, <2>3
<1>10. ASSUME TurnPosted(s) \/ TurnFailed(s) PROVE QueueInv' /\ PostedInv'
  <2>1. /\ state[s] \in {"asleep", "calling"} /\ queue' = Tail(queue) /\ entered' = entered
        /\ posted' \in {posted, Append(posted, s)}
        /\ \E v \in Over : state' = [state EXCEPT ![s] = v]
    BY <1>3, <1>10 DEF TurnPosted, TurnFailed, LeaveQueue
  <2> QED  BY <1>1, <1>4, <2>1, LeaveKeeps
<1>11. ASSUME NEW ra \in RetryAfters, TurnRefused(s, ra) PROVE QueueInv' /\ PostedInv'
  <2>1. state[s] \in {"asleep", "calling"} /\ UNCHANGED << posted, entered >>
    BY <1>11 DEF TurnRefused
  <2>2. CASE s \in Uploads
    <3>1. state' = [state EXCEPT ![s] = "refused"] /\ queue' = Tail(queue)
      BY <1>11, <2>2 DEF TurnRefused, LeaveQueue
    <3> QED  BY <1>1, <1>3, <1>4, <2>1, <3>1, LeaveKeeps
  <2>3. CASE s \notin Uploads
    <3>1. state' = [state EXCEPT ![s] = "waiting"] /\ queue' = queue
      BY <1>11, <2>3 DEF TurnRefused, KeepTurn
    <3> QED  BY <1>1, <1>4, <2>1, <3>1, HeadKeeps DEF Queued
  <2> QED  BY <2>2, <2>3
<1>12. QueueInv' /\ PostedInv'
  BY <1>5, <1>6, <1>7, <1>8, <1>9, <1>10, <1>11 DEF Answer
<1> QED  BY <1>2, <1>12 DEF OutboxInv, LastTime

LEMMA OutboxNextInv == OutboxInv /\ [Next]_vars => OutboxInv'
<1> SUFFICES ASSUME OutboxInv, [Next]_vars PROVE OutboxInv'
  OBVIOUS
<1>1. CASE Tick
  <2>1. now' \in 0..LastTime
    BY <1>1, TimesAssumption DEF OutboxInv, Tick, LastTime
  <2>2. UNCHANGED << state, queue, posted, entered >>
    BY <1>1 DEF Tick
  <2> QED  BY <2>1, <2>2 DEF OutboxInv, QueueInv, PostedInv, FirstInFirstOut, LastTime, States,
                             Over, Queued
<1>2. CASE UNCHANGED vars
  BY <1>2 DEF vars, OutboxInv, QueueInv, PostedInv, FirstInFirstOut, LastTime, States, Over, Queued
<1> QED  BY <1>1, <1>2, SendKeeps DEF Next

\* No message goes out twice, and those that queued go out in their order,
\* whatever Telegram refuses, fails or posts all the same.
THEOREM OutboxCorrect == Spec => []OutboxOK
<1>1. OutboxInv => OutboxOK
  BY QueueInjective DEF OutboxInv, QueueInv, PostedInv, OutboxOK, TypeOK, PostedOnce, Queued
<1> QED  BY <1>1, OutboxInitInv, OutboxNextInv, PTL DEF Spec
=============================================================================
