----------------------------- MODULE ChatPanels -----------------------------
(***************************************************************************)
(* The rollcalls of one chat and their panels.  People address a rollcall  *)
(* by its number, its position in the manager's list, and the panels are   *)
(* kept by number too (_panel_msg_ids); closing a rollcall renumbers those *)
(* after it.  Changes of the list are made under the chat write lock and   *)
(* do not wait; the Telegram calls they cause are made after it is         *)
(* released, and whatever happens before their answer happens in between.  *)
(* Buttons carry the rollcall's database id.                               *)
(***************************************************************************)
EXTENDS Naturals, Sequences, FiniteSets, SequencesExt

CONSTANTS
  MaxRollCalls,  \* MAX_ROLLCALLS_PER_CHAT
  MaxIds,        \* bound on the rollcalls ever started
  MaxMessages,   \* bound on the panels ever posted
  MaxCalls       \* bound on the calls under way at a time

ASSUME LimitsAssumption ==
  MaxRollCalls \in Nat \ {0} /\ {MaxIds, MaxMessages, MaxCalls} \subseteq Nat

VARIABLES
  open,     \* the ids of the active rollcalls, in order
  created,  \* the last id given
  panels,   \* _panel_msg_ids of the chat: number -> message, 0 for none
  saved,    \* rollcalls.panel_msg_id: id -> message, 0 for none
  msgs,     \* the panel messages: whose list each shows, whose buttons it has
  calls,    \* the Telegram calls under way, with what their handler knows
  vote,     \* history: the rollcall last tapped for, and the one voted in
  strays    \* history: how rollcalls closed without their panels keeping up

vars == << open, created, panels, saved, msgs, calls, vote, strays >>

Ids      == 1..MaxIds
Numbers  == 1..MaxRollCalls
PanelCalls == {"send", "edit", "refresh", "redraw"}
Kinds    == PanelCalls \cup {"strip", "tap", "voted", "settle"}

IsOpen(id)     == id \in ToSet(open)
NumberOf(id)   == CHOOSE n \in DOMAIN open : open[n] = id
IdAt(n)        == IF n \in DOMAIN open THEN open[n] ELSE 0

Doing(kind, id, number, msg, buttons) ==
  [kind |-> kind, rc |-> id, number |-> number, msg |-> msg, buttons |-> buttons]

Drawing(id) == \E c \in calls : c.rc = id /\ c.kind \in {"send", "edit"}

\* The calls that are left once `done` has ended and `more` have begun.
Proceed(done, more) ==
  /\ calls' = (calls \ done) \cup more
  /\ Cardinality(calls') <= MaxCalls
  /\ Len(msgs) < MaxMessages \/ \A c \in more : c.kind # "send"

-----------------------------------------------------------------------------
(***************************************************************************)
(* _render_panel, up to its first await.                                   *)
(***************************************************************************)
Known(n, table) == IF table[n] # 0 THEN table[n] ELSE saved[open[n]]

DrawCall(n, table) ==
  IF Known(n, table) # 0
  THEN Doing("edit", open[n], n, Known(n, table), open[n])
  ELSE Doing("send", open[n], n, 0, open[n])

\* coalesce draws once at a time and again afterwards: the second draw is
\* another Draw step.
Redraw(n, table, done) ==
  IF Drawing(open[n])
  THEN panels' = table /\ Proceed(done, {})
  ELSE panels' = [table EXCEPT ![n] = Known(n, table)] /\ Proceed(done, {DrawCall(n, table)})

(***************************************************************************)
(* Starting, drawing and voting.                                           *)
(***************************************************************************)
\* Slip: the newest rollcall comes first.
Newest(id) == << id >> \o open

AddRollCall(id) == Append(open, id)

Start ==
  /\ Len(open) < MaxRollCalls /\ created < MaxIds
  /\ created' = created + 1
  /\ open' = AddRollCall(created')
  /\ Proceed({}, {Doing("send", created', Len(open'), 0, created')})
  /\ UNCHANGED << panels, saved, msgs, vote, strays >>

Draw(n) ==
  /\ ~Drawing(open[n])
  /\ Redraw(n, panels, {})
  /\ UNCHANGED << open, created, saved, msgs, vote, strays >>

\* /panel, a start on the web, and the panels posted again after an end by
\* button: a message of its own, drawn beside any other draw.
NewPanel(n) ==
  /\ panels' = [panels EXCEPT ![n] = Known(n, panels)]
  /\ Proceed({}, {Doing("send", open[n], n, 0, open[n])})
  /\ UNCHANGED << open, created, saved, msgs, vote, strays >>

\* A button of message m is tapped; the handler looks up the rollcall and
\* its number, and waits for the chat's write lock before it votes.
Tap(m) ==
  /\ IsOpen(msgs[m].buttons)
  /\ Proceed({}, {Doing("tap", msgs[m].buttons, NumberOf(msgs[m].buttons), m, msgs[m].text)})
  /\ UNCHANGED << open, created, panels, saved, msgs, vote, strays >>

\* A panel of a closed rollcall is refused and loses its buttons.
Refuse(m) ==
  /\ msgs[m].buttons # 0 /\ ~IsOpen(msgs[m].buttons)
  /\ Proceed({}, {Doing("strip", 0, 0, m, 0)})
  /\ UNCHANGED << open, created, panels, saved, msgs, vote, strays >>

\* Slip: the vote goes to the number the rollcall had when tapped.
VoteByNumber(c) ==
  /\ c.kind = "tap"
  /\ vote' = [tapped |-> c.buttons, voted |-> IdAt(c.number)]
  /\ Proceed({c}, {[c EXCEPT !.kind = "voted"]})
  /\ UNCHANGED << open, created, panels, saved, msgs, strays >>

VoteById(c) ==
  /\ c.kind = "tap"
  /\ vote' = [tapped |-> c.buttons, voted |-> IF IsOpen(c.rc) THEN c.rc ELSE 0]
  /\ Proceed({c}, IF IsOpen(c.rc) THEN {[c EXCEPT !.kind = "voted"]}
                   ELSE {Doing("strip", 0, 0, c.msg, 0)})
  /\ UNCHANGED << open, created, panels, saved, msgs, strays >>

\* Slip: the announcement over, the number is still the one it was before.
AfterVoteStale(c) ==
  /\ c.kind = "voted"
  /\ panels' = [panels EXCEPT ![c.number] = c.msg]
  /\ Proceed({c}, {Doing("edit", c.rc, c.number, c.msg, IdAt(c.number))})
  /\ UNCHANGED << open, created, saved, msgs, vote, strays >>

\* After the announcement the tapped message becomes the panel.
AfterVote(c) ==
  /\ c.kind = "voted"
  /\ IF IsOpen(c.rc)
     THEN Redraw(NumberOf(c.rc), [panels EXCEPT ![NumberOf(c.rc)] = c.msg], {c})
     ELSE Proceed({c}, {}) /\ UNCHANGED panels
  /\ UNCHANGED << open, created, saved, msgs, vote, strays >>

(***************************************************************************)
(* The Refresh and Back buttons: the list is that of the rollcall found    *)
(* when tapped, the buttons are those of its number after the tap is       *)
(* answered.                                                               *)
(***************************************************************************)
TapRefresh(m) ==
  /\ IsOpen(msgs[m].buttons)
  /\ Proceed({}, {Doing("refresh", msgs[m].buttons, NumberOf(msgs[m].buttons), m, 0)})
  /\ UNCHANGED << open, created, panels, saved, msgs, vote, strays >>

RefreshDraw(c) ==
  /\ c.kind = "refresh"
  /\ Proceed({c}, {[c EXCEPT !.kind = "redraw", !.buttons = IdAt(c.number)]})
  /\ UNCHANGED << open, created, panels, saved, msgs, vote, strays >>

Refreshed(c) ==
  /\ c.kind = "redraw"
  /\ msgs' = [msgs EXCEPT ![c.msg] = [text |-> c.rc, buttons |-> c.buttons]]
  /\ \/ panels' = [panels EXCEPT ![c.number] = c.msg]
     \/ panels' = panels
  /\ Proceed({c}, {})
  /\ UNCHANGED << open, created, saved, vote, strays >>

(***************************************************************************)
(* What becomes of the calls.                                              *)
(***************************************************************************)
Edited(c) ==
  /\ c.kind = "edit"
  /\ msgs' = [msgs EXCEPT ![c.msg] = [text |-> c.rc, buttons |-> c.buttons]]
  /\ Proceed({c}, {})
  /\ UNCHANGED << open, created, panels, saved, vote, strays >>

\* The message is deleted or the edit failed: the panel is posted anew.
EditLost(c) ==
  /\ c.kind = "edit"
  /\ Proceed({c}, {[c EXCEPT !.kind = "send", !.msg = 0]})
  /\ UNCHANGED << open, created, panels, saved, msgs, vote, strays >>

\* The answer is filed under the number the call began with.
Sent(c) ==
  /\ c.kind = "send" /\ Len(msgs) < MaxMessages
  /\ msgs' = Append(msgs, [text |-> c.rc, buttons |-> c.buttons])
  /\ panels' = [panels EXCEPT ![c.number] = Len(msgs')]
  /\ saved' = [saved EXCEPT ![c.rc] = Len(msgs')]
  /\ Proceed({c}, {})
  /\ UNCHANGED << open, created, vote, strays >>

Stripped(c) ==
  /\ c.kind = "strip"
  /\ msgs' = [msgs EXCEPT ![c.msg].buttons = 0]
  /\ Proceed({c}, {})
  /\ UNCHANGED << open, created, panels, saved, vote, strays >>

Failed(c) ==
  /\ c.kind \in {"send", "edit", "strip", "redraw"}
  /\ Proceed({c}, {})
  /\ UNCHANGED << open, created, panels, saved, msgs, vote, strays >>

(***************************************************************************)
(* Closing.                                                                *)
(***************************************************************************)
\* Slip: the panel of the closed rollcall is not forgotten.
KeepClosed(n, last) ==
  [k \in Numbers |-> IF k > n /\ k < last THEN panels[k + 1]
                     ELSE IF k = last /\ k # n THEN 0 ELSE panels[k]]

\* _close_panel_bookkeeping: of `last` panels forget the n-th, move the later
\* ones down.
Renumber(n, last) ==
  [k \in Numbers |-> IF k >= n /\ k < last THEN panels[k + 1]
                     ELSE IF k = last THEN 0 ELSE panels[k]]

Strips(msg) == IF msg = 0 THEN {} ELSE {Doing("strip", 0, 0, msg, 0)}

\* remove_rollcall, by one of the ways to get there.
Retire(n, way) ==
  /\ open' = RemoveAt(open, n)
  /\ strays' = strays \cup way \cup
       (IF \E c \in calls : c.kind \in PanelCalls THEN {"overlap"} ELSE {})
  /\ UNCHANGED << created, saved, msgs, vote >>

\* /erc, /xrc, their buttons and the auto-close.
Close(n) ==
  /\ Retire(n, {})
  /\ panels' = Renumber(n, Len(open))
  /\ Proceed({}, Strips(Known(n, panels)))

\* web_end_rollcall, web_cancel_rollcall and the token API's end.
CloseOnWeb(n) ==
  /\ Retire(n, {"web"})
  /\ UNCHANGED << panels, calls >>

\* /settle_dues ends the first rollcall and announces it, ...
Settle ==
  /\ open # << >>
  /\ Retire(1, {"settle"})
  /\ Proceed({}, {Doing("settle", open[1], Len(open), 0, 0)})
  /\ UNCHANGED panels

\* ... then does the bookkeeping of what it ended.
Settled(c) ==
  /\ c.kind = "settle"
  /\ panels' = Renumber(1, c.number)
  /\ Proceed({c}, Strips(IF panels[1] # 0 THEN panels[1] ELSE saved[c.rc]))
  /\ UNCHANGED << open, created, saved, msgs, vote, strays >>

\* periodic_cleanup drops the numbers past the last rollcall.
Sweep ==
  /\ panels' = [n \in Numbers |-> IF n <= Len(open) THEN panels[n] ELSE 0]
  /\ UNCHANGED << open, created, saved, msgs, calls, vote, strays >>

\* The process restarts: the rollcalls come back from the database in order,
\* the numbers' panels do not.
Restart ==
  /\ panels' = [n \in Numbers |-> 0]
  /\ Proceed(calls, {})
  /\ UNCHANGED << open, created, saved, msgs, vote, strays >>

Init ==
  /\ open = << >> /\ created = 0 /\ msgs = << >> /\ calls = {}
  /\ panels = [n \in Numbers |-> 0] /\ saved = [id \in Ids |-> 0]
  /\ vote = [tapped |-> 0, voted |-> 0] /\ strays = {}

Answer(c) ==
  \/ Edited(c) \/ EditLost(c) \/ Sent(c) \/ Stripped(c) \/ Failed(c)
  \/ VoteById(c) \/ AfterVote(c) \/ RefreshDraw(c) \/ Refreshed(c) \/ Settled(c)

ChatStep ==
  \/ Start \/ Settle \/ Sweep
  \/ \E n \in DOMAIN open : Draw(n) \/ NewPanel(n) \/ Close(n) \/ CloseOnWeb(n)
  \/ \E m \in DOMAIN msgs : Tap(m) \/ Refuse(m) \/ TapRefresh(m)
  \/ \E c \in calls : Answer(c)

Next == ChatStep \/ Restart

Spec == Init /\ [][Next]_vars

-----------------------------------------------------------------------------
\* The list holds at most MaxRollCalls ids, ascending; every panel known by
\* number or by id is a message.
TypeOK ==
  /\ Len(open) <= MaxRollCalls /\ ToSet(open) \subseteq 1..created
  /\ \A i, j \in DOMAIN open : i < j => open[i] < open[j]
  /\ \A n \in Numbers : panels[n] \in 0..Len(msgs)
  /\ \A id \in Ids : saved[id] \in 0..Len(msgs)
  /\ \A c \in calls : c.kind \in Kinds /\ c.msg \in 0..Len(msgs)

\* "Whatever runs once the lock is released edits the right message": the
\* panel kept under a number shows the list of the rollcall of that number,
\* and no number without a rollcall has a panel; unless a rollcall closed
\* outside the bookkeeping, or while a panel was being drawn.
PanelsOwnTheirNumber ==
  strays = {} =>
    \A n \in Numbers : panels[n] # 0 => IdAt(n) # 0 /\ msgs[panels[n]].text = IdAt(n)

PanelsKept == \A id \in Ids : saved[id] # 0 => msgs[saved[id]].text = id

\* The panel a rollcall comes back to after a restart still shows its list,
\* and no other rollcall was ever drawn over it.
SavedPanelsKept == strays = {} => PanelsKept

\* "A vote racing /erc lands in this rollcall or nowhere": whatever is closed,
\* started and renumbered between the tap and the vote, and however, the vote
\* is for the list that was tapped; unless one closed while a panel was drawn.
VotesLandWhereTapped == "overlap" \notin strays => vote.voted \in {0, vote.tapped}

\* "The db id is what the tap acts on": the buttons under a list act on the
\* rollcall whose list it is, unless a rollcall closed while one was drawn.
ButtonsMatchList ==
  "overlap" \notin strays => \A m \in DOMAIN msgs : msgs[m].buttons \in {0, msgs[m].text}

\* Number, row, text and buttons of a panel, and the votes made with them,
\* belong to one rollcall.
PanelsOK ==
  TypeOK /\ PanelsOwnTheirNumber /\ SavedPanelsKept /\ ButtonsMatchList /\ VotesLandWhereTapped
=============================================================================
