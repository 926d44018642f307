----------------------------- MODULE ChatProofs -----------------------------
(***************************************************************************)
(* Proofs about ChatPanels and AskFirst for any rollcalls, messages, calls *)
(* and questions: panels, buttons and votes keep with their rollcall while *)
(* rollcalls close and renumber, and what was asked about one rollcall and *)
(* one person is done to them or not at all.                               *)
(***************************************************************************)
EXTENDS AskFirst, DataLemmas

Message == [text : Ids, buttons : {0} \cup Ids]

CallRecord == [kind : Kinds, rc : {0} \cup Ids, number : {0} \cup Numbers, msg : Nat,
               buttons : {0} \cup Ids]

\* The calls about a message there is, and those that know its rollcall.
OnMessage == {"edit", "refresh", "redraw", "tap", "voted"}

(***************************************************************************)
(* What a handler knows of a call it waits for.  A number it computed      *)
(* before is still the number of its rollcall, unless a rollcall closed    *)
(* during a draw; the message it is about shows its rollcall, unless one   *)
(* closed outside the bookkeeping as well.                                 *)
(***************************************************************************)
CallTyped(c) ==
  /\ c \in CallRecord /\ c.msg <= Len(msgs)
  /\ c.kind \in OnMessage \cup {"strip"} => c.msg # 0
  /\ c.kind # "strip" => c.rc # 0 /\ c.number # 0
  /\ c.kind = "settle" => "settle" \in strays

CallAligned(c) ==
  /\ c.kind \in PanelCalls => c.number \in DOMAIN open /\ open[c.number] = c.rc
  /\ c.kind \in {"send", "edit", "redraw", "tap"} => c.buttons = c.rc

CallOK(c) ==
  /\ CallTyped(c)
  /\ "overlap" \notin strays => CallAligned(c)
  /\ strays = {} /\ c.kind \in OnMessage => msgs[c.msg].text = c.rc

ListTyped ==
  /\ created \in 0..MaxIds
  /\ open \in Seq(Ids) /\ Len(open) <= MaxRollCalls /\ ToSet(open) \subseteq 1..created
  /\ \A i, j \in DOMAIN open : i < j => open[i] < open[j]

TablesTyped ==
  /\ msgs \in Seq(Message)
  /\ panels \in [Numbers -> 0..Len(msgs)] /\ saved \in [Ids -> 0..Len(msgs)]

ChatInv ==
  /\ ListTyped /\ TablesTyped
  /\ \A c \in calls : CallOK(c)
  /\ PanelsOwnTheirNumber /\ SavedPanelsKept /\ ButtonsMatchList /\ VotesLandWhereTapped

-----------------------------------------------------------------------------
\* The limits are numbers.
LEMMA LimitFacts ==
  /\ MaxRollCalls \in Nat \ {0} /\ MaxIds \in Nat
  /\ \A n \in Ids : n \in Nat /\ n # 0
  /\ \A n \in Numbers : n \in Nat /\ n # 0
BY LimitsAssumption DEF Ids, Numbers

\* An active rollcall has one number, and that number is its own.
LEMMA NumberFacts ==
  ASSUME ListTyped
  PROVE  /\ DOMAIN open = 1..Len(open) /\ Len(open) \in Nat
         /\ \A n \in DOMAIN open : /\ n \in Numbers /\ open[n] \in Ids /\ IsOpen(open[n])
                                   /\ IdAt(n) = open[n]
         /\ \A id : IsOpen(id) => /\ NumberOf(id) \in DOMAIN open /\ open[NumberOf(id)] = id
                                  /\ NumberOf(id) \in Numbers /\ id \in Ids /\ id # 0
<1>1. DOMAIN open = 1..Len(open) /\ Len(open) \in Nat /\ Len(open) <= MaxRollCalls
  BY DEF ListTyped
<1>2. \A n \in DOMAIN open : n \in Numbers /\ open[n] \in Ids
  BY <1>1, LimitFacts DEF ListTyped, Numbers
<1>3. ASSUME NEW id, IsOpen(id)
      PROVE  /\ NumberOf(id) \in DOMAIN open /\ open[NumberOf(id)] = id
             /\ NumberOf(id) \in Numbers /\ id \in Ids /\ id # 0
  <2>1. \E n \in DOMAIN open : open[n] = id
    BY <1>3 DEF IsOpen, ToSet
  <2>2. NumberOf(id) \in DOMAIN open /\ open[NumberOf(id)] = id
    BY <2>1 DEF NumberOf
  <2> QED  BY <1>2, <2>2, LimitFacts
<1> QED  BY <1>1, <1>2, <1>3 DEF IsOpen, IdAt, ToSet

\* The message a rollcall's panel is known to be shows that rollcall.
LEMMA KnownFacts ==
  ASSUME ChatInv, NEW n \in DOMAIN open
  PROVE  /\ Known(n, panels) \in 0..Len(msgs)
         /\ strays = {} /\ Known(n, panels) # 0 => msgs[Known(n, panels)].text = open[n]
<1>1. n \in Numbers /\ open[n] \in Ids /\ IdAt(n) = open[n]
  BY NumberFacts DEF ChatInv
<1>2. panels[n] \in 0..Len(msgs) /\ saved[open[n]] \in 0..Len(msgs)
  BY <1>1 DEF ChatInv, TablesTyped
<1>3. CASE panels[n] # 0
  BY <1>1, <1>2, <1>3 DEF Known, ChatInv, PanelsOwnTheirNumber
<1>4. CASE panels[n] = 0
  BY <1>1, <1>2, <1>4 DEF Known, ChatInv, SavedPanelsKept, PanelsKept
<1> QED  BY <1>3, <1>4

(***************************************************************************)
(* A step that leaves the list of rollcalls alone.                         *)
(***************************************************************************)
ListStands == UNCHANGED << open, created, strays >>

\* No list is drawn over another rollcall's, as long as none went astray.
TextsStand ==
  /\ msgs' \in Seq(Message) /\ Len(msgs) <= Len(msgs')
  /\ strays = {} => \A m \in DOMAIN msgs : msgs'[m].text = msgs[m].text

LEMMA CallStands ==
  ASSUME ChatInv, ListStands, TextsStand, NEW c \in calls
  PROVE  CallOK(c)'
<1>1. CallOK(c) /\ Len(msgs) \in Nat /\ Len(msgs') \in Nat /\ DOMAIN msgs = 1..Len(msgs)
  BY DEF ChatInv, TablesTyped, TextsStand
<1>2. c.msg \in Nat /\ c.msg <= Len(msgs')
  BY <1>1 DEF CallOK, CallTyped, CallRecord, TextsStand
<1>3. CallTyped(c)'
  BY <1>1, <1>2 DEF CallOK, CallTyped, ListStands
<1>4. ("overlap" \notin strays => CallAligned(c))'
  BY <1>1 DEF CallOK, CallAligned, ListStands
<1>5. ASSUME strays = {}, c.kind \in OnMessage PROVE msgs'[c.msg].text = c.rc
  <2>1. c.msg \in DOMAIN msgs
    BY <1>1, <1>2, <1>5 DEF CallOK, CallTyped
  <2> QED  BY <1>1, <1>5, <2>1 DEF CallOK, TextsStand
<1> QED  BY <1>3, <1>4, <1>5 DEF CallOK, ListStands

\* Panels filed under a number or an id: as before, or of that rollcall.
LEMMA TablesStand ==
  ASSUME ChatInv, ListStands, TextsStand,
         panels' \in [Numbers -> 0..Len(msgs')], saved' \in [Ids -> 0..Len(msgs')],
         \A n \in Numbers : \/ panels'[n] \in {0, panels[n]}
                            \/ strays = {} => n \in DOMAIN open /\ msgs'[panels'[n]].text = open[n],
         \A id \in Ids : \/ saved'[id] = saved[id]
                         \/ strays = {} => msgs'[saved'[id]].text = id,
         \A c \in calls' : c \in calls \/ CallOK(c)',
         ButtonsMatchList', VotesLandWhereTapped'
  PROVE  ChatInv'
<1>1. UNCHANGED << open, created, strays >> /\ DOMAIN msgs = 1..Len(msgs)
  BY DEF ListStands, ChatInv, TablesTyped
<1>2. ListTyped' /\ TablesTyped'
  BY <1>1 DEF ChatInv, ListTyped, TablesTyped, TextsStand, Ids
<1>3. \A c \in calls' : CallOK(c)'
  BY CallStands
<1>4. PanelsOwnTheirNumber'
  <2> SUFFICES ASSUME strays = {}, NEW n \in Numbers, panels'[n] # 0
               PROVE  IdAt(n) # 0 /\ msgs'[panels'[n]].text = IdAt(n)
    BY <1>1 DEF PanelsOwnTheirNumber, IdAt
  <2>1. CASE panels'[n] = panels[n]
    <3>1. IdAt(n) # 0 /\ msgs[panels[n]].text = IdAt(n)
      BY <2>1 DEF ChatInv, PanelsOwnTheirNumber
    <3>2. panels[n] \in DOMAIN msgs
      BY <1>1, <2>1 DEF ChatInv, TablesTyped
    <3> QED  BY <2>1, <3>1, <3>2 DEF TextsStand
  <2>2. CASE n \in DOMAIN open /\ msgs'[panels'[n]].text = open[n]
    BY <2>2, NumberFacts, LimitFacts DEF ChatInv, IdAt
  <2> QED  BY <2>1, <2>2
<1>5. SavedPanelsKept'
  <2> SUFFICES ASSUME strays = {}, NEW id \in Ids, saved'[id] # 0
               PROVE  msgs'[saved'[id]].text = id
    BY <1>1 DEF SavedPanelsKept, PanelsKept
  <2>1. CASE saved'[id] = saved[id]
    <3>1. msgs[saved[id]].text = id
      BY <2>1 DEF ChatInv, SavedPanelsKept, PanelsKept
    <3>2. saved[id] \in DOMAIN msgs
      BY <1>1, <2>1 DEF ChatInv, TablesTyped
    <3> QED  BY <2>1, <3>1, <3>2 DEF TextsStand
  <2> QED  BY <2>1
<1> QED  BY <1>2, <1>3, <1>4, <1>5 DEF ChatInv

\* A step that changes the calls under way and nothing they rest on.
LEMMA CallsChange ==
  ASSUME ChatInv, UNCHANGED << open, created, panels, saved, msgs, strays >>,
         \A c \in calls' : c \in calls \/ CallOK(c), VotesLandWhereTapped'
  PROVE  ChatInv'
<1>1. ListStands /\ TextsStand
  BY DEF ListStands, TextsStand, ChatInv, TablesTyped
<1>2. \A c : CallOK(c) => CallOK(c)'
  BY DEF CallOK, CallTyped, CallAligned
<1>3. ButtonsMatchList'
  BY DEF ChatInv, ButtonsMatchList
<1>4. panels' \in [Numbers -> 0..Len(msgs')] /\ saved' \in [Ids -> 0..Len(msgs')]
  BY DEF ChatInv, TablesTyped
<1> QED  BY <1>1, <1>2, <1>3, <1>4, TablesStand

LEMMA MessageFacts ==
  ASSUME ChatInv
  PROVE  /\ DOMAIN msgs = 1..Len(msgs) /\ Len(msgs) \in Nat
         /\ \A m \in DOMAIN msgs : /\ m \in Nat /\ m # 0 /\ m <= Len(msgs)
                                   /\ msgs[m] \in Message
                                   /\ msgs[m].text \in Ids /\ msgs[m].buttons \in {0} \cup Ids
         /\ \A c \in calls : CallOK(c) /\ CallTyped(c) /\ c \in CallRecord /\ c.msg \in Nat
<1>1. msgs \in Seq(Message) /\ DOMAIN msgs = 1..Len(msgs) /\ Len(msgs) \in Nat
  BY DEF ChatInv, TablesTyped
<1>2. \A m \in DOMAIN msgs : m \in Nat /\ m # 0 /\ m <= Len(msgs) /\ msgs[m] \in Message
  BY <1>1
<1>3. \A r \in Message : r.text \in Ids /\ r.buttons \in {0} \cup Ids
  BY DEF Message
<1>4. \A c \in calls : CallOK(c) /\ CallTyped(c) /\ c \in CallRecord /\ c.msg \in Nat
  BY DEF ChatInv, CallOK, CallTyped, CallRecord
<1> QED  BY <1>1, <1>2, <1>3, <1>4

\* A call that begins, by what it knows.
LEMMA DoingFacts ==
  ASSUME NEW k \in Kinds, NEW id \in {0} \cup Ids, NEW n \in {0} \cup Numbers, NEW m \in Nat,
         NEW b \in {0} \cup Ids
  PROVE  /\ Doing(k, id, n, m, b) \in CallRecord
         /\ Doing(k, id, n, m, b).kind = k /\ Doing(k, id, n, m, b).rc = id
         /\ Doing(k, id, n, m, b).number = n /\ Doing(k, id, n, m, b).msg = m
         /\ Doing(k, id, n, m, b).buttons = b
BY DEF Doing, CallRecord

LEMMA StripOK ==
  ASSUME ChatInv, NEW m \in DOMAIN msgs
  PROVE  CallOK(Doing("strip", 0, 0, m, 0))
<1> DEFINE d == Doing("strip", 0, 0, m, 0)
<1>1. /\ d \in CallRecord /\ d.kind = "strip" /\ d.msg = m
  BY MessageFacts, DoingFacts DEF Kinds
<1> HIDE DEF d
<1>2. CallOK(d)
  BY <1>1, MessageFacts DEF CallOK, CallTyped, CallAligned, OnMessage, PanelCalls
<1> QED  BY <1>2 DEF d

\* A button leads to the rollcall it carries, under the number it has now.
LEMMA TapKeeps ==
  ASSUME ChatInv, NEW m \in DOMAIN msgs, Tap(m) \/ TapRefresh(m) \/ Refuse(m)
  PROVE  ChatInv'
<1>1. UNCHANGED << open, created, panels, saved, msgs, strays, vote >>
  BY DEF Tap, TapRefresh, Refuse
<1>2. VotesLandWhereTapped'
  BY <1>1 DEF ChatInv, VotesLandWhereTapped
<1>3. CASE Refuse(m)
  <2>1. \A c \in calls' : c \in calls \/ c = Doing("strip", 0, 0, m, 0)
    BY <1>3 DEF Refuse, Proceed
  <2> QED  BY <1>1, <1>2, <2>1, StripOK, CallsChange
<1>4. CASE Tap(m) \/ TapRefresh(m)
  <2> DEFINE id == msgs[m].buttons
  <2>1. IsOpen(id) /\ id \in Ids /\ id # 0 /\ NumberOf(id) \in Numbers
        /\ NumberOf(id) \in DOMAIN open /\ open[NumberOf(id)] = id
    BY <1>4, NumberFacts DEF Tap, TapRefresh, ChatInv
  <2>2. /\ m \in Nat /\ m # 0 /\ m <= Len(msgs) /\ msgs[m].text \in Ids
        /\ "overlap" \notin strays => msgs[m].text = id
    BY <2>1, MessageFacts DEF ChatInv, ButtonsMatchList
  <2>3. CASE Tap(m)
    <3> DEFINE d == Doing("tap", id, NumberOf(id), m, msgs[m].text)
    <3>1. \A c \in calls' : c \in calls \/ c = d
      BY <2>3 DEF Tap, Proceed
    <3>2. d \in CallRecord /\ d.kind = "tap" /\ d.rc = id /\ d.number = NumberOf(id)
          /\ d.msg = m /\ d.buttons = msgs[m].text
      <4>1. "tap" \in Kinds /\ id \in {0} \cup Ids /\ NumberOf(id) \in {0} \cup Numbers
            /\ m \in Nat /\ msgs[m].text \in {0} \cup Ids
        BY <2>1, <2>2 DEF Kinds
      <4> HIDE DEF id
      <4> QED  BY <4>1 DEF Doing, CallRecord
    <3> HIDE DEF d
    <3>3. CallOK(d)
      BY <2>1, <2>2, <3>2, LimitFacts DEF CallOK, CallTyped, CallAligned, OnMessage, PanelCalls
    <3> QED  BY <1>1, <1>2, <3>1, <3>3, CallsChange
  <2>4. CASE TapRefresh(m)
    <3> DEFINE d == Doing("refresh", id, NumberOf(id), m, 0)
    <3>1. \A c \in calls' : c \in calls \/ c = d
      BY <2>4 DEF TapRefresh, Proceed
    <3>2. d \in CallRecord /\ d.kind = "refresh" /\ d.rc = id /\ d.number = NumberOf(id)
          /\ d.msg = m
      <4>1. "refresh" \in Kinds /\ id \in {0} \cup Ids /\ NumberOf(id) \in {0} \cup Numbers
            /\ m \in Nat /\ 0 \in {0} \cup Ids
        BY <2>1, <2>2 DEF Kinds, PanelCalls
      <4> HIDE DEF id
      <4> QED  BY <4>1 DEF Doing, CallRecord
    <3> HIDE DEF d
    <3>3. CallOK(d)
      BY <2>1, <2>2, <3>2, LimitFacts DEF CallOK, CallTyped, CallAligned, OnMessage, PanelCalls
    <3> QED  BY <1>1, <1>2, <3>1, <3>3, CallsChange
  <2> QED  BY <1>4, <2>3, <2>4
<1> QED  BY <1>3, <1>4

\* The vote itself, and what follows a call that only ends.
LEMMA EndKeeps ==
  ASSUME ChatInv, NEW c \in calls, EditLost(c) \/ Failed(c) \/ VoteById(c) \/ RefreshDraw(c)
  PROVE  ChatInv'
<1>1. UNCHANGED << open, created, panels, saved, msgs, strays >>
  BY DEF EditLost, Failed, VoteById, RefreshDraw
<1>2. /\ CallOK(c) /\ CallTyped(c) /\ c \in CallRecord /\ c.msg \in Nat /\ c.rc \in {0} \cup Ids
      /\ DOMAIN msgs = 1..Len(msgs) /\ Len(msgs) \in Nat
  BY MessageFacts DEF CallRecord
<1>3. CASE Failed(c)
  <2>1. calls' \subseteq calls /\ vote' = vote
    BY <1>3 DEF Failed, Proceed
  <2> QED  BY <1>1, <2>1, CallsChange DEF ChatInv, VotesLandWhereTapped
<1>4. CASE EditLost(c)
  <2> DEFINE d == [c EXCEPT !.kind = "send", !.msg = 0]
  <2>1. vote' = vote /\ c.kind = "edit" /\ \A e \in calls' : e \in calls \/ e = d
    BY <1>4 DEF EditLost, Proceed
  <2>2. d \in CallRecord /\ d.kind = "send" /\ d.msg = 0 /\ d.rc = c.rc /\ d.number = c.number
        /\ d.buttons = c.buttons
    BY <1>2 DEF CallRecord, Kinds, PanelCalls
  <2> HIDE DEF d
  <2>3. CallOK(d)
    BY <1>2, <2>1, <2>2 DEF CallOK, CallTyped, CallAligned, OnMessage, PanelCalls
  <2> QED  BY <1>1, <2>1, <2>3, CallsChange DEF ChatInv, VotesLandWhereTapped
<1>5. CASE VoteById(c)
  <2> DEFINE d == [c EXCEPT !.kind = "voted"]
  <2>1. /\ c.kind = "tap" /\ vote'.tapped = c.buttons /\ vote'.voted \in {0, c.rc}
        /\ \A e \in calls' : e \in calls \/ e = d \/ e = Doing("strip", 0, 0, c.msg, 0)
    BY <1>5 DEF VoteById, Proceed
  <2>2. d \in CallRecord /\ d.kind = "voted" /\ d.msg = c.msg /\ d.rc = c.rc /\ d.number = c.number
    BY <1>2 DEF CallRecord, Kinds
  <2> HIDE DEF d
  <2>3. CallOK(d)
    BY <1>2, <2>1, <2>2 DEF CallOK, CallTyped, CallAligned, OnMessage, PanelCalls
  <2>4. c.msg \in DOMAIN msgs
    BY <1>2, <2>1 DEF CallTyped, OnMessage
  <2>5. VotesLandWhereTapped'
    BY <1>1, <1>2, <2>1 DEF VotesLandWhereTapped, CallOK, CallAligned
  <2> QED  BY <1>1, <2>1, <2>3, <2>4, <2>5, StripOK, CallsChange
<1>6. CASE RefreshDraw(c)
  <2> DEFINE b == IdAt(c.number)
             d == [c EXCEPT !.kind = "redraw", !.buttons = b]
  <2>1. vote' = vote /\ c.kind = "refresh" /\ \A e \in calls' : e \in calls \/ e = d
    BY <1>6 DEF RefreshDraw, Proceed
  <2>2. b \in {0} \cup Ids /\ (c.number \in DOMAIN open => b = open[c.number])
    BY NumberFacts DEF ChatInv, IdAt
  <2>3. d \in CallRecord /\ d.kind = "redraw" /\ d.msg = c.msg /\ d.rc = c.rc
        /\ d.number = c.number /\ d.buttons = b
    BY <1>2, <2>2 DEF CallRecord, Kinds, PanelCalls
  <2> HIDE DEF b, d
  <2>4. CallOK(d)
    BY <1>2, <2>1, <2>2, <2>3 DEF CallOK, CallTyped, CallAligned, OnMessage, PanelCalls
  <2> QED  BY <1>1, <2>1, <2>4, CallsChange DEF ChatInv, VotesLandWhereTapped
<1> QED  BY <1>3, <1>4, <1>5, <1>6

(***************************************************************************)
(* Messages drawn, posted and stripped.                                    *)
(***************************************************************************)
LEMMA RewriteFacts ==
  ASSUME ChatInv, NEW m \in DOMAIN msgs, NEW t \in Ids, NEW b \in {0} \cup Ids,
         msgs' = [msgs EXCEPT ![m] = [text |-> t, buttons |-> b]], strays' = strays,
         strays = {} => t = msgs[m].text, "overlap" \notin strays => b \in {0, t}
  PROVE  TextsStand /\ Len(msgs') = Len(msgs) /\ ButtonsMatchList' /\ msgs'[m].text = t
<1>1. msgs \in Seq(Message) /\ DOMAIN msgs = 1..Len(msgs) /\ Len(msgs) \in Nat
  BY DEF ChatInv, TablesTyped
<1> DEFINE r == [text |-> t, buttons |-> b]
<1>2. r \in Message /\ r.text = t /\ r.buttons = b
  BY DEF Message
<1> HIDE DEF r
<1>3. msgs' = [msgs EXCEPT ![m] = r]
  BY DEF r
<1>4. msgs' \in Seq(Message) /\ Len(msgs') = Len(msgs) /\ DOMAIN msgs' = DOMAIN msgs
      /\ msgs'[m] = r /\ \A k \in DOMAIN msgs : k # m => msgs'[k] = msgs[k]
  BY <1>1, <1>2, <1>3
<1>5. TextsStand
  BY <1>1, <1>2, <1>4 DEF TextsStand
<1>6. ButtonsMatchList'
  BY <1>2, <1>4 DEF ChatInv, ButtonsMatchList
<1> QED  BY <1>2, <1>4, <1>5, <1>6

LEMMA DrawnKeeps ==
  ASSUME ChatInv, NEW c \in calls, Edited(c) \/ Stripped(c) \/ Refreshed(c)
  PROVE  ChatInv'
<1>1. /\ CallOK(c) /\ CallTyped(c) /\ c \in CallRecord /\ c.msg \in Nat /\ c.rc \in {0} \cup Ids
      /\ c.buttons \in {0} \cup Ids /\ DOMAIN msgs = 1..Len(msgs) /\ Len(msgs) \in Nat
  BY MessageFacts DEF CallRecord
<1>2. c.kind \in {"edit", "redraw", "strip"}
  BY DEF Edited, Stripped, Refreshed
<1>3. c.msg \in DOMAIN msgs
  BY <1>1, <1>2 DEF CallTyped, OnMessage
<1>4. /\ UNCHANGED << open, created, saved, vote, strays >> /\ calls' \subseteq calls
      /\ ListStands
  BY DEF Edited, Stripped, Refreshed, Proceed, ListStands
<1>5. VotesLandWhereTapped'
  BY <1>4 DEF ChatInv, VotesLandWhereTapped
<1>6. CASE Stripped(c)
  <2>1. msgs[c.msg] \in Message /\ msgs[c.msg].text \in Ids
    BY <1>3, MessageFacts
  <2>2. msgs' = [msgs EXCEPT ![c.msg].buttons = 0] /\ panels' = panels
    BY <1>6 DEF Stripped
  <2>3. msgs' = [msgs EXCEPT ![c.msg] = [text |-> msgs[c.msg].text, buttons |-> 0]]
    <3>1. ASSUME NEW r \in Message
          PROVE  [r EXCEPT !.buttons = 0] = [text |-> r.text, buttons |-> 0]
      BY DEF Message
    <3>2. [msgs[c.msg] EXCEPT !.buttons = 0] = [text |-> msgs[c.msg].text, buttons |-> 0]
      BY <2>1, <3>1
    <3>3. msgs' = [msgs EXCEPT ![c.msg] = [msgs[c.msg] EXCEPT !.buttons = 0]]
      BY <2>2
    <3> QED  BY <3>2, <3>3
  <2>4. TextsStand /\ Len(msgs') = Len(msgs) /\ ButtonsMatchList'
    BY <1>3, <1>4, <2>1, <2>3, RewriteFacts
  <2>5. panels' \in [Numbers -> 0..Len(msgs')] /\ saved' \in [Ids -> 0..Len(msgs')]
    BY <1>4, <2>2, <2>4 DEF ChatInv, TablesTyped
  <2> QED  BY <1>4, <1>5, <2>2, <2>4, <2>5, TablesStand
<1>7. CASE Edited(c) \/ Refreshed(c)
  <2>1. /\ c.kind \in {"edit", "redraw"}
        /\ msgs' = [msgs EXCEPT ![c.msg] = [text |-> c.rc, buttons |-> c.buttons]]
        /\ \/ panels' = panels
           \/ c.kind = "redraw" /\ panels' = [panels EXCEPT ![c.number] = c.msg]
    BY <1>7 DEF Edited, Refreshed
  <2>2. c.rc \in Ids /\ c.number \in Numbers
    BY <1>1, <2>1 DEF CallTyped, CallRecord
  <2>3. strays = {} => c.rc = msgs[c.msg].text
    BY <1>1, <2>1 DEF CallOK, OnMessage
  <2>4. "overlap" \notin strays => c.buttons \in {0, c.rc}
    BY <1>1, <2>1 DEF CallOK, CallAligned
  <2>5. TextsStand /\ Len(msgs') = Len(msgs) /\ ButtonsMatchList' /\ msgs'[c.msg].text = c.rc
    BY <1>1, <1>3, <1>4, <2>1, <2>2, <2>3, <2>4, RewriteFacts
  <2>6. panels \in [Numbers -> 0..Len(msgs')] /\ saved' \in [Ids -> 0..Len(msgs')]
        /\ c.msg \in 0..Len(msgs')
    BY <1>1, <1>3, <1>4, <2>5 DEF ChatInv, TablesTyped
  <2>7. panels' \in [Numbers -> 0..Len(msgs')]
    BY <2>1, <2>6
  <2>8. strays = {} /\ c.kind = "redraw" => c.number \in DOMAIN open /\ open[c.number] = c.rc
    BY <1>1 DEF CallOK, CallAligned, PanelCalls
  <2>9. \A n \in Numbers : \/ panels'[n] \in {0, panels[n]}
                           \/ strays = {} => n \in DOMAIN open /\ msgs'[panels'[n]].text = open[n]
    BY <2>1, <2>2, <2>5, <2>6, <2>8
  <2> QED  BY <1>4, <1>5, <2>5, <2>6, <2>7, <2>9, TablesStand
<1> QED  BY <1>6, <1>7

LEMMA SentKeeps ==
  ASSUME ChatInv, NEW c \in calls, Sent(c)
  PROVE  ChatInv'
<1>1. /\ CallOK(c) /\ CallTyped(c) /\ c \in CallRecord
      /\ msgs \in Seq(Message) /\ DOMAIN msgs = 1..Len(msgs) /\ Len(msgs) \in Nat
  BY MessageFacts DEF ChatInv, TablesTyped
<1> DEFINE r == [text |-> c.rc, buttons |-> c.buttons]
<1>2. /\ c.kind = "send" /\ msgs' = Append(msgs, r) /\ calls' \subseteq calls
      /\ panels' = [panels EXCEPT ![c.number] = Len(msgs')]
      /\ saved' = [saved EXCEPT ![c.rc] = Len(msgs')]
      /\ UNCHANGED << vote, strays >> /\ ListStands
  BY DEF Sent, Proceed, ListStands
<1>3. c.rc \in Ids /\ c.number \in Numbers /\ c.buttons \in {0} \cup Ids
  BY <1>1, <1>2 DEF CallTyped, CallRecord
<1>4. r \in Message /\ r.text = c.rc /\ r.buttons = c.buttons
  BY <1>3 DEF Message
<1> HIDE DEF r
<1>5. /\ msgs' \in Seq(Message) /\ Len(msgs') = Len(msgs) + 1 /\ DOMAIN msgs' = 1..(Len(msgs) + 1)
      /\ msgs'[Len(msgs')] = r /\ \A m \in DOMAIN msgs : msgs'[m] = msgs[m]
  BY <1>1, <1>2, <1>4
<1>6. TextsStand
  BY <1>1, <1>5 DEF TextsStand
<1>7. "overlap" \notin strays => c.buttons = c.rc /\ c.number \in DOMAIN open /\ open[c.number] = c.rc
  BY <1>1, <1>2 DEF CallOK, CallAligned, PanelCalls
<1>8. ButtonsMatchList'
  <2> SUFFICES ASSUME "overlap" \notin strays, NEW m \in DOMAIN msgs'
               PROVE  msgs'[m].buttons \in {0, msgs'[m].text}
    BY <1>2 DEF ButtonsMatchList
  <2>1. CASE m \in DOMAIN msgs
    BY <1>5, <2>1 DEF ChatInv, ButtonsMatchList
  <2>2. CASE m = Len(msgs')
    BY <1>4, <1>5, <1>7, <2>2
  <2> QED  BY <1>1, <1>5, <2>1, <2>2
<1>9. panels \in [Numbers -> 0..Len(msgs')] /\ saved \in [Ids -> 0..Len(msgs')]
      /\ Len(msgs') \in 0..Len(msgs')
  <2>1. 0..Len(msgs) \subseteq 0..Len(msgs') /\ Len(msgs') \in 0..Len(msgs')
    BY <1>1, <1>5
  <2> QED  BY <2>1 DEF ChatInv, TablesTyped
<1>10. panels' \in [Numbers -> 0..Len(msgs')] /\ saved' \in [Ids -> 0..Len(msgs')]
  BY <1>2, <1>9
<1>11. \A n \in Numbers : \/ panels'[n] \in {0, panels[n]}
                          \/ strays = {} => n \in DOMAIN open /\ msgs'[panels'[n]].text = open[n]
  BY <1>2, <1>3, <1>4, <1>5, <1>7, <1>9
<1>12. \A id \in Ids : \/ saved'[id] = saved[id]
                       \/ strays = {} => msgs'[saved'[id]].text = id
  BY <1>2, <1>3, <1>4, <1>5, <1>9
<1>13. VotesLandWhereTapped'
  BY <1>2 DEF ChatInv, VotesLandWhereTapped
<1> QED  BY <1>2, <1>6, <1>8, <1>10, <1>11, <1>12, <1>13, TablesStand

(***************************************************************************)
(* A draw begins: what it posts or edits is of the rollcall of that number.*)
(***************************************************************************)
LEMMA DrawKeeps ==
  ASSUME ChatInv, NEW n \in DOMAIN open, NEW m \in 0..Len(msgs),
         strays = {} /\ m # 0 => msgs[m].text = open[n],
         panels' \in {panels, [panels EXCEPT ![n] = m]},
         UNCHANGED << open, created, saved, msgs, vote, strays >>,
         \A c \in calls' : \/ c \in calls
                           \/ c = Doing("send", open[n], n, 0, open[n])
                           \/ m # 0 /\ c = Doing("edit", open[n], n, m, open[n])
  PROVE  ChatInv'
<1>1. ListStands /\ TextsStand
  BY DEF ListStands, TextsStand, ChatInv, TablesTyped
<1>2. n \in Numbers /\ open[n] \in Ids /\ n # 0 /\ open[n] # 0
  BY NumberFacts, LimitFacts DEF ChatInv
<1>3. panels \in [Numbers -> 0..Len(msgs)] /\ saved \in [Ids -> 0..Len(msgs)] /\ Len(msgs) \in Nat
  BY DEF ChatInv, TablesTyped
<1>4. panels' \in [Numbers -> 0..Len(msgs')] /\ saved' \in [Ids -> 0..Len(msgs')]
  BY <1>2, <1>3
<1>5. \A k \in Numbers : \/ panels'[k] \in {0, panels[k]}
                         \/ strays = {} => k \in DOMAIN open /\ msgs'[panels'[k]].text = open[k]
  BY <1>2, <1>3
<1>6. ASSUME NEW c \in calls', c \notin calls PROVE CallOK(c)'
  <2>1. /\ c \in CallRecord /\ c.rc = open[n] /\ c.number = n /\ c.buttons = open[n]
        /\ c.kind \in {"send", "edit"} /\ c.msg \in {0, m} /\ (c.kind = "edit" => c.msg = m /\ m # 0)
    <3>1. {"send", "edit"} \subseteq Kinds
      BY DEF Kinds, PanelCalls
    <3>2. m \in Nat
      BY <1>3
    <3>3. CASE c = Doing("send", open[n], n, 0, open[n])
      BY <1>2, <3>1, <3>3 DEF Doing, CallRecord
    <3>4. CASE m # 0 /\ c = Doing("edit", open[n], n, m, open[n])
      BY <1>2, <3>1, <3>2, <3>4 DEF Doing, CallRecord
    <3> QED  BY <1>6, <3>3, <3>4
  <2>2. c.msg <= Len(msgs)
    BY <1>3, <2>1
  <2>3. CallOK(c)
    BY <1>2, <2>1, <2>2 DEF CallOK, CallTyped, CallAligned, OnMessage, PanelCalls
  <2> QED  BY <2>3 DEF CallOK, CallTyped, CallAligned
<1>7. ButtonsMatchList' /\ VotesLandWhereTapped'
  BY DEF ChatInv, ButtonsMatchList, VotesLandWhereTapped
<1> QED  BY <1>1, <1>4, <1>5, <1>6, <1>7, TablesStand

LEMMA DrawsKeep ==
  ASSUME ChatInv, NEW n \in DOMAIN open, Draw(n) \/ NewPanel(n)
  PROVE  ChatInv'
<1>1. PICK m : m = Known(n, panels)
  OBVIOUS
<1>2. m \in 0..Len(msgs) /\ (strays = {} /\ m # 0 => msgs[m].text = open[n])
  BY <1>1, KnownFacts
<1>3. UNCHANGED << open, created, saved, msgs, vote, strays >>
  BY DEF Draw, NewPanel
<1>4. CASE Draw(n)
  <2>1. /\ ~Drawing(open[n]) /\ panels' = [panels EXCEPT ![n] = m]
        /\ calls' = calls \cup {DrawCall(n, panels)}
    BY <1>1, <1>4 DEF Draw, Redraw, Proceed
  <2>2. \A c \in calls' : \/ c \in calls
                          \/ c = Doing("send", open[n], n, 0, open[n])
                          \/ m # 0 /\ c = Doing("edit", open[n], n, m, open[n])
    BY <1>1, <2>1 DEF DrawCall
  <2> QED  BY <1>2, <1>3, <2>1, <2>2, DrawKeeps
<1>5. CASE NewPanel(n)
  <2>1. /\ panels' = [panels EXCEPT ![n] = m]
        /\ \A c \in calls' : c \in calls \/ c = Doing("send", open[n], n, 0, open[n])
    BY <1>1, <1>5 DEF NewPanel, Proceed
  <2> QED  BY <1>2, <1>3, <2>1, DrawKeeps
<1> QED  BY <1>4, <1>5

\* After the vote the tapped message becomes the panel of the rollcall.
LEMMA AfterVoteKeeps ==
  ASSUME ChatInv, NEW c \in calls, AfterVote(c)
  PROVE  ChatInv'
<1>1. UNCHANGED << open, created, saved, msgs, vote, strays >> /\ c.kind = "voted"
  BY DEF AfterVote
<1>2. CASE ~IsOpen(c.rc)
  <2>1. calls' \subseteq calls /\ panels' = panels
    BY <1>2 DEF AfterVote, Proceed
  <2> QED  BY <1>1, <2>1, CallsChange DEF ChatInv, VotesLandWhereTapped
<1>3. CASE IsOpen(c.rc)
  <2>1. PICK n \in DOMAIN open : n = NumberOf(c.rc) /\ open[n] = c.rc /\ n \in Numbers
    BY <1>3, NumberFacts DEF ChatInv
  <2>2. PICK m : m = c.msg
    OBVIOUS
  <2>3. /\ m \in 0..Len(msgs) /\ m # 0 /\ (strays = {} => msgs[m].text = open[n])
    BY <1>1, <2>1, <2>2, MessageFacts DEF CallOK, CallTyped, OnMessage
  <2> DEFINE table == [panels EXCEPT ![n] = m]
  <2>4. Redraw(n, table, {c})
    BY <1>3, <2>1, <2>2 DEF AfterVote
  <2>5. table[n] = m /\ Known(n, table) = m
    BY <2>1, <2>3 DEF ChatInv, TablesTyped, Known
  <2>6. [table EXCEPT ![n] = m] = table
    BY <2>5
  <2> HIDE DEF table
  <2>7. panels' = table
    BY <2>4, <2>5, <2>6 DEF Redraw
  <2>8. \A e \in calls' : e \in calls \/ e = DrawCall(n, table)
    BY <2>4 DEF Redraw, Proceed
  <2>9. DrawCall(n, table) = Doing("edit", open[n], n, m, open[n])
    BY <2>3, <2>5 DEF DrawCall
  <2>10. panels' = [panels EXCEPT ![n] = m]
    BY <2>7 DEF table
  <2> QED  BY <1>1, <2>3, <2>8, <2>9, <2>10, DrawKeeps
<1> QED  BY <1>2, <1>3

(***************************************************************************)
(* Closing: the numbers after the closed one move down, and its panels     *)
(* with them; a call that draws a panel meanwhile is an overlap.           *)
(***************************************************************************)
\* The list without its n-th rollcall is still a list in order.
LEMMA RetireList ==
  ASSUME ListTyped, NEW n \in DOMAIN open, open' = RemoveAt(open, n), created' = created
  PROVE  /\ ListTyped' /\ DOMAIN open = 1..Len(open) /\ Len(open) \in Nat /\ n \in 1..Len(open)
         /\ Len(open') = Len(open) - 1 /\ DOMAIN open' = 1..(Len(open) - 1)
         /\ \A k \in 1..(Len(open) - 1) : open'[k] = IF k < n THEN open[k] ELSE open[k + 1]
<1>1. open \in Seq(Ids) /\ DOMAIN open = 1..Len(open) /\ Len(open) \in Nat /\ n \in 1..Len(open)
  BY DEF ListTyped
<1>2. /\ open' \in Seq(Ids) /\ Len(open') = Len(open) - 1
      /\ \A k \in 1..(Len(open) - 1) : open'[k] = IF k < n THEN open[k] ELSE open[k + 1]
  BY <1>1, RemoveAtElements
<1>3. DOMAIN open' = 1..(Len(open) - 1)
  BY <1>2
<1>4. \A k \in DOMAIN open' : /\ k \in DOMAIN open /\ k + 1 \in DOMAIN open
                              /\ open'[k] \in {open[k], open[k + 1]}
  BY <1>1, <1>2, <1>3
<1>5. ToSet(open') \subseteq 1..created'
  BY <1>4 DEF ListTyped, ToSet
<1>6. \A i, j \in DOMAIN open' : i < j => open'[i] < open'[j]
  <2> SUFFICES ASSUME NEW i \in DOMAIN open', NEW j \in DOMAIN open', i < j
               PROVE  open'[i] < open'[j]
    OBVIOUS
  <2> DEFINE f == IF i < n THEN i ELSE i + 1
             g == IF j < n THEN j ELSE j + 1
  <2>1. f \in DOMAIN open /\ g \in DOMAIN open /\ f < g
    BY <1>1, <1>3
  <2>2. open'[i] = open[f] /\ open'[j] = open[g]
    BY <1>2, <1>3
  <2> HIDE DEF f, g
  <2> QED  BY <2>1, <2>2 DEF ListTyped
<1>7. Len(open') <= MaxRollCalls
  BY <1>1, <1>2, LimitFacts DEF ListTyped
<1>8. created' \in 0..MaxIds
  BY DEF ListTyped
<1> QED  BY <1>1, <1>2, <1>3, <1>5, <1>6, <1>7, <1>8 DEF ListTyped

LEMMA RetireKeeps ==
  ASSUME ChatInv, NEW n \in DOMAIN open, NEW way, Retire(n, way),
         panels' \in [Numbers -> 0..Len(msgs)],
         way = {} => panels' = Renumber(n, Len(open)),
         \A c \in calls' : c \in calls \/ (c.kind \in {"strip", "settle"} /\ CallTyped(c)')
  PROVE  ChatInv'
<1>1. /\ UNCHANGED << created, saved, msgs, vote >> /\ strays \subseteq strays'
      /\ strays' = {} => strays = {} /\ way = {}
      /\ "overlap" \notin strays' =>
           "overlap" \notin strays /\ ~ \E c \in calls : c.kind \in PanelCalls
  BY DEF Retire
<1>2. /\ ListTyped' /\ DOMAIN open = 1..Len(open) /\ Len(open) \in Nat /\ n \in 1..Len(open)
      /\ Len(open') = Len(open) - 1 /\ DOMAIN open' = 1..(Len(open) - 1)
      /\ \A k \in 1..(Len(open) - 1) : open'[k] = IF k < n THEN open[k] ELSE open[k + 1]
  BY RetireList DEF Retire, ChatInv
<1>3. TablesTyped'
  BY <1>1 DEF ChatInv, TablesTyped
<1>4. ASSUME NEW c \in calls' PROVE CallOK(c)'
  <2>1. CASE c \in calls
    <3>1. CallOK(c)
      BY <2>1 DEF ChatInv
    <3>2. CallTyped(c)'
      BY <1>1, <3>1 DEF CallOK, CallTyped
    <3>3. ("overlap" \notin strays => CallAligned(c))'
      BY <1>1, <2>1, <3>1 DEF CallOK, CallAligned
    <3> QED  BY <1>1, <3>1, <3>2, <3>3 DEF CallOK
  <2>2. CASE c.kind \in {"strip", "settle"} /\ CallTyped(c)'
    BY <2>2 DEF CallOK, CallAligned, OnMessage, PanelCalls
  <2> QED  BY <2>1, <2>2
<1>5. PanelsOwnTheirNumber'
  <2> SUFFICES ASSUME strays' = {}, NEW k \in Numbers, panels'[k] # 0
               PROVE  k \in DOMAIN open' /\ open'[k] # 0 /\ msgs[panels'[k]].text = open'[k]
    BY <1>1 DEF PanelsOwnTheirNumber, IdAt
  <2>1. panels' = Renumber(n, Len(open)) /\ strays = {}
    BY <1>1
  <2>2. panels'[k] = IF k >= n /\ k < Len(open) THEN panels[k + 1]
                     ELSE IF k = Len(open) THEN 0 ELSE panels[k]
    BY <2>1 DEF Renumber
  <2>3. k \in Nat /\ k # 0 /\ n \in Nat
    BY <1>2, LimitFacts
  <2>4. \A j \in Numbers : panels[j] # 0 =>
          j \in DOMAIN open /\ open[j] # 0 /\ msgs[panels[j]].text = open[j]
    BY <2>1 DEF ChatInv, PanelsOwnTheirNumber, IdAt
  <2>5. CASE k >= n /\ k < Len(open)
    <3>1. k + 1 \in Numbers
      BY <1>2, <2>3, <2>5, LimitFacts DEF Numbers, ChatInv, ListTyped
    <3>2. panels'[k] = panels[k + 1]
      BY <2>2, <2>5
    <3>3. open'[k] = open[k + 1] /\ k \in DOMAIN open'
      BY <1>2, <2>3, <2>5
    <3> QED  BY <2>4, <3>1, <3>2, <3>3
  <2>6. CASE ~(k >= n /\ k < Len(open))
    <3>1. panels'[k] = panels[k] /\ k # Len(open)
      BY <2>2, <2>6
    <3>2. k \in DOMAIN open /\ open[k] # 0 /\ msgs[panels[k]].text = open[k]
      BY <2>4, <3>1
    <3>3. open'[k] = open[k] /\ k \in DOMAIN open'
      BY <1>2, <2>3, <2>6, <3>1, <3>2
    <3> QED  BY <3>1, <3>2, <3>3
  <2> QED  BY <2>5, <2>6
<1>6. SavedPanelsKept' /\ ButtonsMatchList' /\ VotesLandWhereTapped'
  BY <1>1 DEF ChatInv, SavedPanelsKept, PanelsKept, ButtonsMatchList, VotesLandWhereTapped
<1> QED  BY <1>2, <1>3, <1>4, <1>5, <1>6 DEF ChatInv

\* Moved down, the panels kept by number are still messages.
LEMMA RenumberFacts ==
  ASSUME ChatInv, NEW n \in Nat \ {0}, NEW last \in Nat, last <= MaxRollCalls
  PROVE  Renumber(n, last) \in [Numbers -> 0..Len(msgs)]
<1>1. panels \in [Numbers -> 0..Len(msgs)] /\ 0 \in 0..Len(msgs)
  BY DEF ChatInv, TablesTyped
<1>2. \A k \in Numbers : k < last => k + 1 \in Numbers
  BY LimitFacts DEF Numbers
<1> QED  BY <1>1, <1>2 DEF Renumber

LEMMA StripsOK ==
  ASSUME ChatInv, NEW m \in 0..Len(msgs), NEW d \in Strips(m)
  PROVE  d.kind = "strip" /\ CallTyped(d) /\ CallOK(d)
<1>1. m # 0 /\ d = Doing("strip", 0, 0, m, 0)
  BY DEF Strips
<1>2. m \in DOMAIN msgs
  BY <1>1, MessageFacts
<1>3. CallOK(d)
  BY <1>1, <1>2, StripOK
<1> QED  BY <1>1, <1>3 DEF CallOK, Doing

LEMMA CloseKeeps ==
  ASSUME ChatInv, NEW n \in DOMAIN open, Close(n) \/ CloseOnWeb(n)
  PROVE  ChatInv'
<1>1. DOMAIN open = 1..Len(open) /\ Len(open) \in Nat /\ Len(open) <= MaxRollCalls
  BY DEF ChatInv, ListTyped
<1>2. CASE CloseOnWeb(n)
  <2>1. Retire(n, {"web"}) /\ calls' = calls /\ panels' = panels
    BY <1>2 DEF CloseOnWeb
  <2>2. panels' \in [Numbers -> 0..Len(msgs)]
    BY <2>1 DEF ChatInv, TablesTyped
  <2> QED  BY <2>1, <2>2, RetireKeeps
<1>3. CASE Close(n)
  <2>1. PICK m : m = Known(n, panels)
    OBVIOUS
  <2>2. Retire(n, {}) /\ panels' = Renumber(n, Len(open))
        /\ \A c \in calls' : c \in calls \/ c \in Strips(m)
    BY <1>3, <2>1 DEF Close, Proceed
  <2>3. panels' \in [Numbers -> 0..Len(msgs)]
    BY <1>1, <2>2, RenumberFacts
  <2>4. m \in 0..Len(msgs)
    BY <2>1, KnownFacts
  <2>5. ASSUME NEW c \in Strips(m) PROVE c.kind = "strip" /\ CallTyped(c)'
    <3>1. c.kind = "strip" /\ CallTyped(c)
      BY <2>4, StripsOK
    <3>2. msgs' = msgs
      BY <2>2 DEF Retire
    <3> QED  BY <3>1, <3>2 DEF CallTyped
  <2> QED  BY <2>2, <2>3, <2>5, RetireKeeps
<1> QED  BY <1>2, <1>3

LEMMA SettleKeeps ==
  ASSUME ChatInv, Settle
  PROVE  ChatInv'
<1>1. /\ DOMAIN open = 1..Len(open) /\ Len(open) \in Nat /\ Len(open) <= MaxRollCalls
      /\ open \in Seq(Ids) /\ open # << >>
  BY DEF ChatInv, ListTyped, Settle
<1>2. 1 \in DOMAIN open /\ Len(open) \in Numbers /\ open[1] \in Ids
  BY <1>1, LimitFacts DEF Numbers
<1>3. Retire(1, {"settle"}) /\ panels' = panels
  BY DEF Settle
<1>4. panels' \in [Numbers -> 0..Len(msgs)]
  BY <1>3 DEF ChatInv, TablesTyped
<1> PICK first : first = open[1]
  OBVIOUS
<1> PICK last : last = Len(open)
  OBVIOUS
<1> DEFINE d == Doing("settle", first, last, 0, 0)
<1>5. \A c \in calls' : c \in calls \/ c = d
  BY DEF Settle, Proceed
<1>6. d \in CallRecord /\ d.kind = "settle" /\ d.rc = first /\ d.number = last /\ d.msg = 0
  <2>1. "settle" \in Kinds
    BY DEF Kinds
  <2> QED  BY <1>2, <2>1 DEF Doing, CallRecord
<1> HIDE DEF d
<1>7. "settle" \in strays' /\ msgs' = msgs /\ Len(msgs) \in Nat
  BY <1>3 DEF Retire, ChatInv, TablesTyped
<1>8. CallTyped(d)'
  BY <1>2, <1>6, <1>7, LimitFacts DEF CallTyped, OnMessage
<1> QED  BY <1>2, <1>3, <1>4, <1>5, <1>6, <1>8, RetireKeeps

\* The bookkeeping of /settle_dues comes after other panels were drawn.
LEMMA SettledKeeps ==
  ASSUME ChatInv, NEW c \in calls, Settled(c)
  PROVE  ChatInv'
<1>1. ListStands /\ TextsStand /\ strays # {}
  BY DEF Settled, ListStands, TextsStand, ChatInv, TablesTyped, CallOK, CallTyped
<1>2. /\ CallTyped(c) /\ c \in CallRecord /\ c.kind = "settle"
      /\ panels' = Renumber(1, c.number) /\ UNCHANGED << saved, msgs, vote, strays >>
  BY MessageFacts DEF Settled
<1>3. c.rc \in Ids /\ c.number \in Numbers
  BY <1>2 DEF CallTyped, CallRecord
<1>4. panels' \in [Numbers -> 0..Len(msgs)]
  <2>1. c.number \in Nat /\ c.number <= MaxRollCalls
    BY <1>3 DEF Numbers
  <2> QED  BY <1>2, <2>1, RenumberFacts
<1>5. PICK m : m = IF panels[1] # 0 THEN panels[1] ELSE saved[c.rc]
  OBVIOUS
<1>6. m \in 0..Len(msgs)
  BY <1>3, <1>5, LimitFacts DEF ChatInv, TablesTyped, Numbers
<1>7. \A e \in calls' : e \in calls \/ e \in Strips(m)
  BY <1>5 DEF Settled, Proceed
<1>8. \A e : CallOK(e) => CallOK(e)'
  BY <1>1, <1>2 DEF CallOK, CallTyped, CallAligned, ListStands
<1>9. \A e \in calls' : e \in calls \/ CallOK(e)'
  BY <1>6, <1>7, <1>8, StripsOK
<1>10. ButtonsMatchList' /\ VotesLandWhereTapped'
  BY <1>2 DEF ChatInv, ButtonsMatchList, VotesLandWhereTapped
<1>11. panels' \in [Numbers -> 0..Len(msgs')] /\ saved' \in [Ids -> 0..Len(msgs')]
  BY <1>2, <1>4 DEF ChatInv, TablesTyped
<1>12. /\ \A n \in Numbers : strays = {} => n \in DOMAIN open /\ msgs'[panels'[n]].text = open[n]
       /\ \A id \in Ids : saved'[id] = saved[id]
  BY <1>1, <1>2
<1> QED  BY <1>1, <1>9, <1>10, <1>11, <1>12, TablesStand

\* Numbers forgotten by the cleanup or with the process.
LEMMA ForgetKeeps ==
  ASSUME ChatInv, Sweep \/ Restart
  PROVE  ChatInv'
<1>1. /\ ListStands /\ TextsStand /\ calls' \subseteq calls
      /\ UNCHANGED << saved, msgs, vote, strays >>
  BY DEF Sweep, Restart, Proceed, ListStands, TextsStand, ChatInv, TablesTyped
<1>2. panels \in [Numbers -> 0..Len(msgs)] /\ 0 \in 0..Len(msgs) /\ saved \in [Ids -> 0..Len(msgs)]
  BY DEF ChatInv, TablesTyped
<1>3. panels' \in [Numbers -> 0..Len(msgs)] /\ \A n \in Numbers : panels'[n] \in {0, panels[n]}
  BY <1>2 DEF Sweep, Restart
<1>4. ButtonsMatchList' /\ VotesLandWhereTapped'
  BY <1>1 DEF ChatInv, ButtonsMatchList, VotesLandWhereTapped
<1> QED  BY <1>1, <1>2, <1>3, <1>4, TablesStand

(***************************************************************************)
(* A rollcall starts: it takes the last number, which has no panel.        *)
(***************************************************************************)
LEMMA StartList ==
  ASSUME ListTyped, Start
  PROVE  /\ ListTyped' /\ DOMAIN open = 1..Len(open) /\ Len(open) \in Nat
         /\ created' \in Ids /\ Len(open') = Len(open) + 1 /\ Len(open') \in Numbers
         /\ DOMAIN open' = 1..(Len(open) + 1) /\ open'[Len(open')] = created'
         /\ \A k \in DOMAIN open : open'[k] = open[k]
<1>1. /\ open \in Seq(Ids) /\ DOMAIN open = 1..Len(open) /\ Len(open) \in Nat
      /\ created \in Nat /\ created' = created + 1 /\ created' \in Ids
      /\ Len(open) < MaxRollCalls /\ created < MaxIds
  BY LimitFacts DEF ListTyped, Start, Ids
<1>2. open' = Append(open, created')
  BY DEF Start, AddRollCall
<1>3. /\ open' \in Seq(Ids) /\ Len(open') = Len(open) + 1 /\ open'[Len(open')] = created'
      /\ DOMAIN open' = 1..(Len(open) + 1) /\ \A k \in DOMAIN open : open'[k] = open[k]
  BY <1>1, <1>2
<1>4. \A k \in DOMAIN open : open[k] \in 1..created
  BY DEF ListTyped, ToSet
<1>5. ToSet(open') \subseteq 1..created'
  <2>1. \A k \in DOMAIN open' : open'[k] \in 1..created'
    BY <1>1, <1>3, <1>4
  <2> QED  BY <2>1 DEF ToSet
<1>6. \A i, j \in DOMAIN open' : i < j => open'[i] < open'[j]
  <2> SUFFICES ASSUME NEW i \in DOMAIN open', NEW j \in DOMAIN open', i < j
               PROVE  open'[i] < open'[j]
    OBVIOUS
  <2>1. i \in DOMAIN open /\ i \in Nat /\ j \in Nat
    BY <1>1, <1>3
  <2>2. CASE j \in DOMAIN open
    BY <1>3, <2>1, <2>2 DEF ListTyped
  <2>3. CASE j = Len(open')
    BY <1>1, <1>3, <1>4, <2>1, <2>3
  <2> QED  BY <1>1, <1>3, <2>2, <2>3
<1>7. Len(open') <= MaxRollCalls /\ created' \in 0..MaxIds /\ Len(open') \in Numbers
  BY <1>1, <1>3, LimitFacts DEF Numbers, Ids
<1> QED  BY <1>1, <1>3, <1>5, <1>6, <1>7 DEF ListTyped

LEMMA StartKeeps ==
  ASSUME ChatInv, Start
  PROVE  ChatInv'
<1>1. /\ ListTyped' /\ DOMAIN open = 1..Len(open) /\ Len(open) \in Nat
      /\ created' \in Ids /\ Len(open') = Len(open) + 1 /\ Len(open') \in Numbers
      /\ DOMAIN open' = 1..(Len(open) + 1) /\ open'[Len(open')] = created'
      /\ \A k \in DOMAIN open : open'[k] = open[k]
  BY StartList DEF ChatInv
<1>2. UNCHANGED << panels, saved, msgs, vote, strays >> /\ Len(msgs) \in Nat
  BY DEF Start, ChatInv, TablesTyped
<1>3. PICK id : id = created'
  OBVIOUS
<1>4. PICK n : n = Len(open')
  OBVIOUS
<1> DEFINE d == Doing("send", id, n, 0, id)
<1>5. \A c \in calls' : c \in calls \/ c = d
  BY <1>3, <1>4 DEF Start, Proceed
<1>6. d \in CallRecord /\ d.kind = "send" /\ d.rc = id /\ d.number = n /\ d.msg = 0 /\ d.buttons = id
  <2>1. "send" \in Kinds
    BY DEF Kinds, PanelCalls
  <2> QED  BY <1>1, <1>3, <1>4, <2>1 DEF Doing, CallRecord
<1> HIDE DEF d
<1>7. CallOK(d)'
  BY <1>1, <1>2, <1>3, <1>4, <1>6, LimitFacts
    DEF CallOK, CallTyped, CallAligned, OnMessage, PanelCalls
<1>8. ASSUME NEW c \in calls PROVE CallOK(c)'
  <2>1. CallOK(c)
    BY DEF ChatInv
  <2>2. \A k \in DOMAIN open : k \in DOMAIN open'
    BY <1>1
  <2>3. CallTyped(c)'
    BY <1>2, <2>1 DEF CallOK, CallTyped
  <2>4. ("overlap" \notin strays => CallAligned(c))'
    BY <1>1, <1>2, <2>1, <2>2 DEF CallOK, CallAligned
  <2> QED  BY <1>2, <2>1, <2>3, <2>4 DEF CallOK
<1>9. PanelsOwnTheirNumber'
  <2>1. \A k \in DOMAIN open : k \in DOMAIN open'
    BY <1>1
  <2> QED  BY <1>1, <1>2, <2>1 DEF ChatInv, PanelsOwnTheirNumber, IdAt
<1>10. TablesTyped' /\ SavedPanelsKept' /\ ButtonsMatchList' /\ VotesLandWhereTapped'
  BY <1>2 DEF ChatInv, TablesTyped, SavedPanelsKept, PanelsKept, ButtonsMatchList,
              VotesLandWhereTapped
<1> QED  BY <1>1, <1>5, <1>7, <1>8, <1>9, <1>10 DEF ChatInv

LEMMA ChatStart == Init => ChatInv
<1> SUFFICES ASSUME Init PROVE ChatInv
  OBVIOUS
<1>1. ListTyped
  BY LimitFacts DEF Init, ListTyped, ToSet
<1>2. TablesTyped
  BY DEF Init, TablesTyped
<1>3. PanelsOwnTheirNumber /\ SavedPanelsKept /\ ButtonsMatchList /\ VotesLandWhereTapped
  BY DEF Init, PanelsOwnTheirNumber, SavedPanelsKept, PanelsKept, ButtonsMatchList,
         VotesLandWhereTapped
<1> QED  BY <1>1, <1>2, <1>3 DEF ChatInv, Init

LEMMA ChatKeeps ==
  ASSUME ChatInv, [Next]_vars
  PROVE  ChatInv'
<1>1. CASE UNCHANGED vars
  <2>1. calls' = calls /\ UNCHANGED << open, created, panels, saved, msgs, strays, vote >>
    BY <1>1 DEF vars
  <2> QED  BY <2>1, CallsChange DEF ChatInv, VotesLandWhereTapped
<1>2. CASE Start \/ Settle \/ Sweep \/ Restart
  BY <1>2, StartKeeps, SettleKeeps, ForgetKeeps
<1>3. ASSUME NEW n \in DOMAIN open, Draw(n) \/ NewPanel(n) \/ Close(n) \/ CloseOnWeb(n)
      PROVE  ChatInv'
  BY <1>3, DrawsKeep, CloseKeeps
<1>4. ASSUME NEW m \in DOMAIN msgs, Tap(m) \/ Refuse(m) \/ TapRefresh(m)
      PROVE  ChatInv'
  BY <1>4, TapKeeps
<1>5. ASSUME NEW c \in calls, Answer(c)
      PROVE  ChatInv'
  BY <1>5, DrawnKeeps, EndKeeps, SentKeeps, AfterVoteKeeps, SettledKeeps DEF Answer
<1> QED  BY <1>1, <1>2, <1>3, <1>4, <1>5 DEF Next, ChatStep

\* The panels of a chat are in order, for any number of rollcalls, messages
\* and calls: the number, the row, the list and the buttons of a panel belong
\* to one rollcall, and a vote made with them lands there or nowhere.
LEMMA ChatInOrder == ChatInv => PanelsOK
<1> SUFFICES ASSUME ChatInv PROVE PanelsOK
  OBVIOUS
<1>1. \A c \in calls : c.kind \in Kinds /\ c.msg \in 0..Len(msgs)
  BY MessageFacts DEF CallRecord, CallTyped
<1>2. TypeOK
  BY <1>1 DEF ChatInv, ListTyped, TablesTyped, TypeOK
<1> QED  BY <1>2 DEF ChatInv, PanelsOK

-----------------------------------------------------------------------------
(***************************************************************************)
(* The questions and the changes.  No change that waits for the lock has a *)
(* warning: who was absent too often has said yes, or was IN.              *)
(***************************************************************************)
Statuses == {"none", "in", "out"}

Asked == {"reconf", "add", "delete", "move"}
Made  == {"vote", "add", "delete", "move"}

ChangeRecord ==
  [kind : Asked \cup Made, by : Member \cup Admin \cup {Web}, who : Person, to : Statuses,
   number : Numbers, rc : Nat, warn : {FALSE}, asked : Nat, tapped : Nat]

Question(q)  == q \in ChangeRecord /\ q.kind \in Asked /\ q.rc <= created
ChangeMade(a) == a \in ChangeRecord /\ a.kind \in Made /\ a.rc <= created

ActsTyped == IsFiniteSet(acts) /\ Cardinality(acts) <= MaxActs /\ \A a \in acts : ChangeMade(a)

\* A change made by tapping a posted question: what that one offers, or what
\* the tapper asked later.
TappedFor(a) == \E q \in prompts : q.asked = a.tapped /\ (Offers(q, a) \/ Superseded(q, a))
ActsTapped   == \A a \in acts : a.tapped # 0 => TappedFor(a)

\* Questions are numbered as they are asked; of two with one key the one that
\* stands is the newer.
Numbered ==
  /\ \A q \in pending \cup prompts : q.asked \in Nat /\ 0 < q.asked /\ q.asked <= asks
  /\ \A p, q \in pending \cup prompts : p.asked = q.asked => p = q
  /\ \A p \in pending, q \in prompts : Key(p) = Key(q) => q.asked <= p.asked

QuestionsTyped ==
  /\ \A q \in pending \cup prompts : Question(q)
  /\ \A p, q \in pending : Key(p) = Key(q) => p = q
  /\ asks \in 0..MaxAsks

AskInv ==
  /\ ChatInv
  /\ status \in [Ids -> [Person -> Statuses]] /\ overdue \subseteq Person
  /\ QuestionsTyped /\ Numbered /\ ActsTyped /\ ActsTapped

\* A question that is asked replaces the one its asker had.
LEMMA AskKeeps ==
  ASSUME AskInv, UNCHANGED vars, NEW q, Question(q), Ask(q)
  PROVE  AskInv'
<1>1. ChatInv'
  BY ChatKeeps DEF AskInv
<1> DEFINE new == [q EXCEPT !.asked = asks + 1]
<1>a. asks \in Nat
  BY AskAssumption DEF AskInv, QuestionsTyped
<1>b. Question(new) /\ Key(new) = Key(q) /\ new.asked = asks + 1
  <2>1. q \in ChangeRecord
    BY DEF Question
  <2>2. /\ new \in ChangeRecord /\ new.asked = asks + 1
        /\ new.kind = q.kind /\ new.by = q.by /\ new.who = q.who /\ new.rc = q.rc
    <3>1. PICK k \in Nat : k = asks + 1
      BY <1>a
    <3>2. new = [q EXCEPT !.asked = k]
      BY <3>1
    <3> HIDE DEF new
    <3> QED  BY <2>1, <3>1, <3>2 DEF ChangeRecord
  <2> HIDE DEF new
  <2> QED  BY <2>2 DEF Question, Key
<1>2. /\ UNCHANGED << created, status, overdue, acts >> /\ asks' = asks + 1 /\ asks < MaxAsks
      /\ pending' = (pending \ Standing(q)) \cup {new}
      /\ prompts \subseteq prompts' /\ prompts' \subseteq prompts \cup {new}
  BY DEF Ask, vars
<1> HIDE DEF new
<1>3. asks' \in 0..MaxAsks
  BY <1>2, AskAssumption DEF AskInv, QuestionsTyped
<1>4. \A p \in pending' \cup prompts' : Question(p)'
  BY <1>b, <1>2 DEF AskInv, QuestionsTyped, Question
<1>5. \A p, r \in pending' : Key(p) = Key(r) => p = r
  BY <1>b, <1>2 DEF AskInv, QuestionsTyped, Standing
<1>6. QuestionsTyped'
  BY <1>3, <1>4, <1>5 DEF QuestionsTyped
<1>7. ActsTyped'
  BY <1>2 DEF AskInv, ActsTyped, ChangeMade
<1>8. Numbered'
  <2>1. pending' \cup prompts' \subseteq pending \cup prompts \cup {new}
    BY <1>2
  <2>2. \A r \in pending \cup prompts : r.asked \in Nat /\ 0 < r.asked /\ r.asked <= asks
    BY DEF AskInv, Numbered
  <2>3. \A r \in pending' \cup prompts' : r.asked \in Nat /\ 0 < r.asked /\ r.asked <= asks'
    BY <1>a, <1>b, <1>2, <2>1, <2>2
  <2>4. \A p, r \in pending' \cup prompts' : p.asked = r.asked => p = r
    <3>1. \A r \in pending \cup prompts : r.asked # new.asked
      BY <1>a, <1>b, <2>2
    <3> QED  BY <2>1, <3>1 DEF AskInv, Numbered
  <2>5. ASSUME NEW p \in pending', NEW r \in prompts', Key(p) = Key(r) PROVE r.asked <= p.asked
    <3>1. CASE p = new
      BY <1>b, <1>2, <2>3, <3>1
    <3>2. CASE p # new
      <4>1. p \in pending /\ Key(p) # Key(new)
        BY <1>b, <1>2, <3>2 DEF Standing
      <4>2. r \in prompts
        BY <1>2, <2>5, <4>1
      <4> QED  BY <2>5, <4>1, <4>2 DEF AskInv, Numbered
    <3> QED  BY <3>1, <3>2
  <2> QED  BY <2>3, <2>4, <2>5 DEF Numbered
<1>9. ActsTapped'
  BY <1>2 DEF AskInv, ActsTapped, TappedFor
<1> QED  BY <1>1, <1>2, <1>6, <1>7, <1>8, <1>9 DEF AskInv

\* A change that begins to wait, and a question that is answered or dropped.
LEMMA WaitKeeps ==
  ASSUME AskInv, UNCHANGED << vars, status, prompts, asks >>, overdue' \subseteq Person,
         pending' \subseteq pending,
         UNCHANGED acts \/ \E a : Wait(a) /\ ChangeMade(a) /\ (a.tapped # 0 => TappedFor(a))
  PROVE  AskInv'
<1>1. ChatInv' /\ created' = created
  BY ChatKeeps DEF AskInv, vars
<1>2. QuestionsTyped'
  BY <1>1 DEF AskInv, QuestionsTyped, Question
<1>3. ActsTyped'
  <2>1. CASE UNCHANGED acts
    BY <1>1, <2>1 DEF AskInv, ActsTyped, ChangeMade
  <2>2. ASSUME NEW a, Wait(a), ChangeMade(a) PROVE ActsTyped'
    <3>1. acts' = acts \cup {a} /\ Cardinality(acts) < MaxActs /\ ChangeMade(a)
      BY <2>2 DEF Wait
    <3>2. IsFiniteSet(acts') /\ Cardinality(acts') <= Cardinality(acts) + 1
          /\ Cardinality(acts) \in Nat /\ Cardinality(acts') \in Nat
      <4>1. IsFiniteSet(acts)
        BY DEF AskInv, ActsTyped
      <4>2. IsFiniteSet(acts \cup {a}) /\ Cardinality(acts) \in Nat
            /\ Cardinality(acts \cup {a}) \in {Cardinality(acts), Cardinality(acts) + 1}
        BY <4>1, FS_AddElement, FS_CardinalityType
      <4> QED  BY <3>1, <4>2
    <3>3. Cardinality(acts') <= MaxActs
      BY <3>1, <3>2, AskAssumption
    <3> QED  BY <1>1, <3>1, <3>2, <3>3 DEF AskInv, ActsTyped, ChangeMade
  <2> QED  BY <2>1, <2>2
<1>4. Numbered'
  BY DEF AskInv, Numbered
<1>5. ActsTapped'
  <2>1. CASE UNCHANGED acts
    BY <2>1 DEF AskInv, ActsTapped, TappedFor
  <2>2. ASSUME NEW a, Wait(a), a.tapped # 0 => TappedFor(a) PROVE ActsTapped'
    BY <2>2 DEF Wait, AskInv, ActsTapped, TappedFor
  <2> QED  BY <2>1, <2>2
<1> QED  BY <1>1, <1>2, <1>3, <1>4, <1>5 DEF AskInv

\* What can be said of a change as it is asked for or made.
LEMMA ChangeFacts ==
  ASSUME NEW kind \in Asked \cup Made, NEW by \in Member \cup Admin \cup {Web}, NEW who \in Person,
         NEW to \in Statuses, NEW n \in Numbers, NEW id \in Nat
  PROVE  LET q == Change(kind, by, who, to, n, id)
         IN  q \in ChangeRecord /\ q.kind = kind /\ q.who = who /\ q.rc = id /\ q.tapped = 0
BY DEF Change, ChangeRecord

LEMMA ChangeId ==
  ASSUME NEW kind, NEW by, NEW who, NEW to, NEW n, NEW id, NEW k
  PROVE  [Change(kind, by, who, to, n, id) EXCEPT !.rc = k] = Change(kind, by, who, to, n, k)
<1>1. PICK no : no = FALSE
  OBVIOUS
<1>2. \A j, i : Change(j, by, who, to, n, i) =
        [kind |-> j, by |-> by, who |-> who, to |-> to, number |-> n, rc |-> i, warn |-> no,
         asked |-> 0, tapped |-> 0]
  BY <1>1, Zenon DEF Change
<1> QED  BY <1>2

LEMMA ChangeKind ==
  ASSUME NEW kind, NEW by, NEW who, NEW to, NEW n, NEW id, NEW k
  PROVE  [Change(kind, by, who, to, n, id) EXCEPT !.kind = k] = Change(k, by, who, to, n, id)
<1>1. PICK no : no = FALSE
  OBVIOUS
<1>2. \A j, i : Change(j, by, who, to, n, i) =
        [kind |-> j, by |-> by, who |-> who, to |-> to, number |-> n, rc |-> i, warn |-> no,
         asked |-> 0, tapped |-> 0]
  BY <1>1, Zenon DEF Change
<1> QED  BY <1>2

LEMMA IdFacts ==
  ASSUME ChatInv
  PROVE  /\ \A n : IdAt(n) \in Nat /\ IdAt(n) <= created
         /\ \A n \in DOMAIN open : /\ n \in Numbers /\ open[n] \in Ids /\ open[n] \in Nat
                                   /\ open[n] <= created /\ IdAt(n) = open[n]
         /\ created \in Nat /\ 0 <= created /\ 1 \in Numbers
<1>1. created \in Nat /\ 1 \in Numbers
  BY LimitFacts DEF ChatInv, ListTyped, Numbers
<1>2. ASSUME NEW n \in DOMAIN open PROVE open[n] \in Nat /\ open[n] <= created
  <2>1. open[n] \in ToSet(open)
    BY DEF ToSet
  <2>2. open[n] \in 1..created
    BY <2>1 DEF ChatInv, ListTyped
  <2> QED  BY <1>1, <2>2
<1>3. \A n \in DOMAIN open : n \in Numbers /\ open[n] \in Ids
  BY NumberFacts DEF ChatInv
<1>4. \A n : IdAt(n) = IF n \in DOMAIN open THEN open[n] ELSE 0
  BY DEF IdAt
<1>5. \A n : IdAt(n) \in Nat /\ IdAt(n) <= created
  BY <1>1, <1>2, <1>4
<1> QED  BY <1>1, <1>2, <1>3, <1>4, <1>5

\* Who is not overdue has nothing to be warned of.
LEMMA NotWarned ==
  ASSUME NEW q \in ChangeRecord, NEW id,
         q.who \notin overdue \/ (q.who \in Member /\ status[id][q.who] = "in")
  PROVE  Warned(q, id) = q
<1>1. (q.who \in overdue /\ (q.who \in Member => status[id][q.who] # "in")) = FALSE
  OBVIOUS
<1>2. [q EXCEPT !.warn = FALSE] = q
  BY DEF ChangeRecord
<1> QED  BY <1>1, <1>2 DEF Warned

LEMMA GateKeeps ==
  ASSUME AskInv, UNCHANGED vars, NEW m \in Member, NEW n \in DOMAIN open, InUser(m, n) \/ TapIn(m, n)
  PROVE  AskInv'
<1>1. n \in Numbers /\ open[n] \in Nat /\ open[n] <= created /\ 0 \in Nat /\ 0 <= created
  BY IdFacts DEF AskInv
<1>2. PICK id \in Nat : id = open[n] /\ id <= created
  BY <1>1
<1>3. PICK i \in {0, id} : Gated(Change("reconf", m, m, "in", n, i), id)
  BY <1>2 DEF InUser, TapIn
<1>4. "reconf" \in Asked /\ "vote" \in Made /\ "in" \in Statuses /\ m \in Person
      /\ m \in Member \cup Admin \cup {Web} /\ i \in Nat /\ i <= created
  BY <1>1, <1>2, <1>3 DEF Asked, Made, Statuses, Person
<1> DEFINE q == Change("reconf", m, m, "in", n, i)
           r == Change("reconf", m, m, "in", n, id)
           v == Change("vote", m, m, "in", n, i)
<1>5. /\ q.who = m /\ r \in ChangeRecord /\ r.kind = "reconf" /\ r.rc = id
      /\ v \in ChangeRecord /\ v.kind = "vote" /\ v.rc = i /\ v.who = m /\ v.tapped = 0
      /\ [q EXCEPT !.rc = id] = r /\ [q EXCEPT !.kind = "vote"] = v
  <2>1. "reconf" \in Asked \cup Made /\ "vote" \in Asked \cup Made
    BY <1>4
  <2>2. q.who = m
    BY <1>1, <1>4, <2>1, ChangeFacts
  <2>3. r \in ChangeRecord /\ r.kind = "reconf" /\ r.rc = id
    BY <1>1, <1>4, <2>1, ChangeFacts
  <2>4. v \in ChangeRecord /\ v.kind = "vote" /\ v.rc = i /\ v.who = m /\ v.tapped = 0
    BY <1>1, <1>4, <2>1, ChangeFacts
  <2>5. [q EXCEPT !.rc = id] = r
    BY ChangeId
  <2>6. [q EXCEPT !.kind = "vote"] = v
    BY ChangeKind
  <2> QED  BY <2>2, <2>3, <2>4, <2>5, <2>6
<1>6. Question(r) /\ ChangeMade(v)
  BY <1>2, <1>4, <1>5 DEF Question, ChangeMade
<1>7. Gated(q, id)
  BY <1>3
<1> HIDE DEF q, r, v
<1>8. CASE ReconfirmationNeeded(m, id)
  <2>1. Ask(r)
    BY <1>5, <1>7, <1>8 DEF Gated
  <2> QED  BY <1>6, <2>1, AskKeeps
<1>9. CASE ~ReconfirmationNeeded(m, id)
  <2>1. Wait(Warned(v, id)) /\ UNCHANGED << status, overdue, pending, prompts, asks >>
    BY <1>5, <1>7, <1>9 DEF Gated
  <2>2. Warned(v, id) = v
    BY <1>5, <1>9, NotWarned DEF ReconfirmationNeeded
  <2> QED  BY <1>5, <1>6, <2>1, <2>2, WaitKeeps DEF AskInv
<1> QED  BY <1>8, <1>9

LEMMA AskingKeeps ==
  ASSUME AskInv, UNCHANGED vars, Asking
  PROVE  AskInv'
<1>0. /\ "add" \in Asked /\ "delete" \in Asked /\ "move" \in Asked
      /\ "vote" \in Made /\ "add" \in Made
      /\ "in" \in Statuses /\ "out" \in Statuses /\ "none" \in Statuses
      /\ Member \subseteq Person /\ Guest \subseteq Person
      /\ 0 \in Nat /\ created \in Nat /\ 0 <= created /\ overdue \subseteq Person
  BY IdFacts DEF Asked, Made, Statuses, Person, AskInv
<1>1. ASSUME NEW n \in DOMAIN open, NEW m \in Member, InUser(m, n) \/ TapIn(m, n) \/ OutUser(m, n)
      PROVE  AskInv'
  <2>1. CASE OutUser(m, n)
    <3> DEFINE v == Change("vote", m, m, "out", n, 0)
    <3>1. n \in Numbers /\ m \in Person /\ m \in Member \cup Admin \cup {Web}
      BY <1>0, IdFacts DEF AskInv
    <3>2. v \in ChangeRecord /\ v.kind = "vote" /\ v.rc = 0 /\ v.tapped = 0
      BY <1>0, <3>1, ChangeFacts
    <3>3. ChangeMade(v)
      BY <1>0, <3>2 DEF ChangeMade
    <3>4. Wait(v) /\ UNCHANGED << status, overdue, pending, prompts, asks >>
      BY <2>1 DEF OutUser
    <3> HIDE DEF v
    <3> QED  BY <1>0, <3>2, <3>3, <3>4, WaitKeeps
  <2> QED  BY <1>1, <2>1, GateKeeps
<1>2. ASSUME NEW n \in DOMAIN open, NEW a \in Admin, NEW p \in Person, NEW to \in {"in", "out"},
             SetStatus(a, p, to, n)
      PROVE  AskInv'
  <2>1. PICK id : id = open[n] /\ id \in Nat /\ id <= created
    BY IdFacts DEF AskInv
  <2> DEFINE q == Change("move", a, p, to, n, id)
  <2>2. Question(q)
    BY <1>0, <2>1, IdFacts, ChangeFacts DEF AskInv, Question
  <2>3. Ask(q)
    BY <1>2, <2>1 DEF SetStatus
  <2> HIDE DEF q
  <2> QED  BY <2>2, <2>3, AskKeeps
<1>3. ASSUME NEW a \in Admin, NEW n \in Numbers, NEW x \in Guest, SetInFor(a, x, n)
      PROVE  AskInv'
  <2>1. PICK id : id = IdAt(n) /\ id \in Nat /\ id <= created
    BY IdFacts DEF AskInv
  <2> DEFINE q == Change("add", a, x, "in", n, id)
             v == Change("add", a, x, "in", n, 0)
  <2>2. Question(q) /\ ChangeMade(v) /\ v.who = x /\ v.tapped = 0 /\ v \in ChangeRecord
    BY <1>0, <2>1, ChangeFacts DEF Question, ChangeMade
  <2>3. CASE ProxyReconfirmationNeeded(x)
    <3>1. Ask(q)
      BY <1>3, <2>1, <2>3 DEF SetInFor
    <3> HIDE DEF q
    <3> QED  BY <2>2, <3>1, AskKeeps
  <2>4. CASE ~ProxyReconfirmationNeeded(x)
    <3>1. Wait(Warned(v, id)) /\ UNCHANGED << status, overdue, pending, prompts, asks >>
      BY <1>3, <2>1, <2>4 DEF SetInFor
    <3> HIDE DEF v
    <3>2. Warned(v, id) = v
      BY <2>2, <2>4, NotWarned DEF ProxyReconfirmationNeeded
    <3> QED  BY <1>0, <2>2, <3>1, <3>2, WaitKeeps
  <2> QED  BY <2>3, <2>4
<1>4. ASSUME NEW a \in Admin, NEW n \in Numbers, NEW x \in Guest, SetOutFor(a, x, n)
      PROVE  AskInv'
  <2> DEFINE v == Change("vote", a, x, "out", n, 0)
  <2>1. ChangeMade(v) /\ v.tapped = 0
    BY <1>0, ChangeFacts DEF ChangeMade
  <2>2. Wait(v) /\ UNCHANGED << status, overdue, pending, prompts, asks >>
    BY <1>4 DEF SetOutFor
  <2> HIDE DEF v
  <2> QED  BY <1>0, <2>1, <2>2, WaitKeeps
<1>5. ASSUME NEW a \in Admin, NEW n \in Numbers, NEW p \in Person, DeleteUser(a, p, n)
      PROVE  AskInv'
  <2>1. PICK id : id = IdAt(n) /\ id \in Nat /\ id <= created
    BY IdFacts DEF AskInv
  <2> DEFINE q == Change("delete", a, p, "none", n, id)
  <2>2. Question(q)
    BY <1>0, <2>1, ChangeFacts DEF Question
  <2>3. Ask(q)
    BY <1>5, <2>1 DEF DeleteUser
  <2> HIDE DEF q
  <2> QED  BY <2>2, <2>3, AskKeeps
<1> QED  BY <1>1, <1>2, <1>3, <1>4, <1>5 DEF Asking

\* A Yes under q that carries out the standing question p as v: q itself, or a
\* newer one.
Answers(q, p, v) ==
  /\ q.kind \in {"add", "delete", "move"} /\ p.kind = q.kind
  /\ IF q.kind = "add" THEN p.who = q.who ELSE p.by = q.by
  /\ \E n \in Numbers : /\ v = [p EXCEPT !.number = n, !.tapped = q.asked]
                        /\ q.kind = "delete" => n = q.number

LEMMA AnswerFits ==
  ASSUME AskInv, NEW q \in prompts, NEW p \in pending, NEW v, Answers(q, p, v)
  PROVE  ChangeMade(v) /\ TappedFor(v)
<1>1. Question(p) /\ p \in ChangeRecord /\ q \in ChangeRecord /\ p.rc <= created
      /\ q.kind \in {"add", "delete", "move"} /\ p.kind = q.kind
  BY DEF AskInv, QuestionsTyped, Question, Answers
<1>2. PICK n \in Numbers :
        v = [p EXCEPT !.number = n, !.tapped = q.asked] /\ (q.kind = "delete" => n = q.number)
  BY DEF Answers
<1>3. /\ v \in ChangeRecord /\ v.kind = p.kind /\ v.by = p.by /\ v.who = p.who /\ v.to = p.to
      /\ v.rc = p.rc /\ v.number = n /\ v.asked = p.asked /\ v.tapped = q.asked
  BY <1>1, <1>2 DEF ChangeRecord
<1>4. ChangeMade(v)
  BY <1>1, <1>3 DEF ChangeMade, Made
<1>5. CASE p = q
  BY <1>1, <1>3, <1>4, <1>5 DEF TappedFor, Offers
<1>6. CASE p # q
  <2>1. p.by = q.by => Key(p) = Key(q)
    BY <1>1 DEF Answers, Key
  <2>2. p.by = q.by => p.asked > q.asked
    <3>1. p.asked # q.asked /\ p.asked \in Nat /\ q.asked \in Nat
      BY <1>6 DEF AskInv, Numbered
    <3>2. Key(p) = Key(q) => q.asked <= p.asked
      BY DEF AskInv, Numbered
    <3> QED  BY <2>1, <3>1, <3>2
  <2>3. q.kind = "add" => v.who = q.who
    BY <1>3 DEF Answers
  <2>4. q.kind \in {"delete", "move"} => v.by = q.by
    BY <1>3 DEF Answers
  <2>5. q.kind = "delete" => v.number = q.number
    BY <1>2, <1>3
  <2>6. Superseded(q, v)
    BY <1>1, <1>3, <2>2, <2>3, <2>4, <2>5 DEF Superseded
  <2> QED  BY <1>3, <1>4, <2>6 DEF TappedFor
<1> QED  BY <1>4, <1>5, <1>6

LEMMA AnsweringKeeps ==
  ASSUME AskInv, UNCHANGED vars, Answering
  PROVE  AskInv'
<1>1. /\ \A q \in pending \cup prompts : Question(q)
      /\ overdue \subseteq Person
  BY DEF AskInv, QuestionsTyped
<1>2. ASSUME NEW q \in prompts, NEW to \in {"in", "out"}, Reconfirm(q, to)
      PROVE  AskInv'
  <2> DEFINE v == [q EXCEPT !.kind = "vote", !.to = to, !.tapped = q.asked]
  <2>1. Question(q) /\ q.kind = "reconf"
    BY <1>1, <1>2 DEF Reconfirm
  <2>2. v \in ChangeRecord /\ v.kind = "vote" /\ v.rc = q.rc /\ v.who = q.who /\ v.tapped = q.asked
    BY <2>1 DEF Question, ChangeRecord, Asked, Made, Statuses
  <2>4. Wait(v) /\ pending' \subseteq pending /\ UNCHANGED << status, overdue, prompts, asks >>
    BY <1>2 DEF Reconfirm
  <2> HIDE DEF v
  <2>3. ChangeMade(v)
    BY <2>1, <2>2 DEF ChangeMade, Question, Made
  <2>5. TappedFor(v)
    BY <2>1, <2>2 DEF TappedFor, Offers
  <2> QED  BY <1>1, <2>3, <2>4, <2>5, WaitKeeps
<1>3. ASSUME NEW q \in prompts, NEW p \in pending, NEW v, Answers(q, p, v),
             pending' = pending \ {p}, Wait(v) \/ UNCHANGED acts,
             UNCHANGED << status, overdue, prompts, asks >>
      PROVE  AskInv'
  <2>1. ChangeMade(v) /\ TappedFor(v)
    BY <1>3, AnswerFits
  <2> QED  BY <1>1, <1>3, <2>1, WaitKeeps
<1>4. \A p, q : p \in Standing(q) => p \in pending /\ p.kind = q.kind /\ Key(p) = Key(q)
  BY DEF Standing, Key
<1>a. ASSUME NEW q \in prompts, NEW p \in pending, q.kind \in {"delete", "move"}, Key(p) = Key(q),
             q.kind = "delete" => p.number = q.number
      PROVE  Answers(q, p, [p EXCEPT !.tapped = q.asked])
  <2>1. p \in ChangeRecord /\ q \in ChangeRecord
    BY <1>1 DEF Question
  <2>2. p.kind = q.kind /\ p.by = q.by
    BY <1>a DEF Key
  <2>3. [p EXCEPT !.tapped = q.asked] = [p EXCEPT !.number = p.number, !.tapped = q.asked]
    BY <2>1 DEF ChangeRecord
  <2>4. p.number \in Numbers
    BY <2>1 DEF ChangeRecord
  <2> QED  BY <1>a, <2>2, <2>3, <2>4 DEF Answers
<1>6. ASSUME NEW q \in prompts, ProxyAdd(q) PROVE AskInv'
  <2>1. q.kind = "add" /\ UNCHANGED << status, overdue, prompts, asks >>
    BY <1>6 DEF ProxyAdd
  <2>2. PICK p \in pending :
          /\ p.kind = "add" /\ p.who = q.who /\ pending' = pending \ {p}
          /\ Wait([p EXCEPT !.number = q.number, !.tapped = q.asked]) \/ UNCHANGED acts
    BY <1>6 DEF ProxyAdd
  <2>q. q \in ChangeRecord
    BY <1>1 DEF Question
  <2>3. q.number \in Numbers
    BY <2>q DEF ChangeRecord
  <2>4. Answers(q, p, [p EXCEPT !.number = q.number, !.tapped = q.asked])
    BY <2>1, <2>2, <2>3 DEF Answers
  <2> QED  BY <1>3, <2>1, <2>2, <2>4
<1>7. ASSUME NEW q \in prompts, DeleteConfirmed(q) PROVE AskInv'
  <2>1. q.kind = "delete" /\ UNCHANGED << status, overdue, prompts, asks >>
    BY <1>7 DEF DeleteConfirmed
  <2>2. PICK p \in Standing(q) :
          p.number = q.number /\ pending' = pending \ {p} /\ Wait([p EXCEPT !.tapped = q.asked])
    BY <1>7 DEF DeleteConfirmed
  <2>3. p \in pending /\ Answers(q, p, [p EXCEPT !.tapped = q.asked])
    BY <1>4, <1>a, <2>1, <2>2
  <2> QED  BY <1>3, <2>1, <2>2, <2>3
<1>8. ASSUME NEW q \in prompts, OverrideConfirmed(q) PROVE AskInv'
  <2>1. q.kind = "move" /\ UNCHANGED << status, overdue, prompts, asks >>
    BY <1>8 DEF OverrideConfirmed
  <2>2. PICK p \in Standing(q) : pending' = pending \ {p} /\ Wait([p EXCEPT !.tapped = q.asked])
    BY <1>8 DEF OverrideConfirmed
  <2>3. p \in pending /\ Answers(q, p, [p EXCEPT !.tapped = q.asked])
    BY <1>4, <1>a, <2>1, <2>2
  <2> QED  BY <1>3, <2>1, <2>2, <2>3
<1>9. ASSUME NEW q \in prompts, AskCancelled(q) PROVE AskInv'
  <2>1. pending' \subseteq pending /\ UNCHANGED << status, overdue, prompts, acts, asks >>
    BY <1>9 DEF AskCancelled
  <2> QED  BY <1>1, <2>1, WaitKeeps
<1>10. ASSUME NEW q \in pending, PrunePending(q) PROVE AskInv'
  <2>1. pending' \subseteq pending /\ UNCHANGED << status, overdue, prompts, acts, asks >>
    BY <1>10 DEF PrunePending
  <2> QED  BY <1>1, <2>1, WaitKeeps
<1> QED  BY <1>2, <1>6, <1>7, <1>8, <1>9, <1>10 DEF Answering

\* The web pages and the token API ask nobody, and nobody asks them.
LEMMA UnaskedKeeps ==
  ASSUME AskInv, UNCHANGED vars, Unasked
  PROVE  AskInv'
<1>1. /\ "vote" \in Made /\ "add" \in Made /\ "delete" \in Made /\ "move" \in Made
      /\ "none" \in Statuses /\ {"in", "out"} \subseteq Statuses
      /\ Member \subseteq Person /\ Guest \subseteq Person /\ overdue \subseteq Person
  BY DEF Made, Statuses, Person, AskInv
<1>2. ASSUME NEW n \in DOMAIN open, NEW id \in {0, open[n]}, NEW kind \in Made, NEW p \in Person,
             NEW to \in Statuses, NEW m \in {1, n}, FromWeb(kind, p, to, m, id)
      PROVE  AskInv'
  <2> DEFINE a == Change(kind, Web, p, to, m, id)
  <2>1. /\ m \in Numbers /\ id \in Nat /\ id <= created /\ kind \in Asked \cup Made
        /\ Web \in Member \cup Admin \cup {Web}
    BY IdFacts DEF AskInv
  <2>2. a \in ChangeRecord /\ a.kind = kind /\ a.rc = id /\ a.tapped = 0
    BY <2>1, ChangeFacts
  <2>3. Wait(a) /\ UNCHANGED << status, overdue, pending, prompts, asks >>
    BY <1>2 DEF FromWeb
  <2> HIDE DEF a
  <2>4. ChangeMade(a)
    BY <2>1, <2>2 DEF ChangeMade
  <2> QED  BY <1>1, <2>2, <2>3, <2>4, WaitKeeps
<1>3. PICK n \in DOMAIN open, to \in {"in", "out"} : \E id \in {0, open[n]} :
        \/ \E p \in Person : CastVote(p, to, n) \/ WebRemoveUser(p, n, id) \/ WebMoveUser(p, to, n, id)
        \/ \E m \in Member : id # 0 /\ VoteWeb(m, to, id)
        \/ \E x \in Guest  : WebProxyVote(x, to, n, id)
  BY DEF Unasked
<1>4. PICK id \in {0, open[n]} :
        \/ \E p \in Person : CastVote(p, to, n) \/ WebRemoveUser(p, n, id) \/ WebMoveUser(p, to, n, id)
        \/ \E m \in Member : id # 0 /\ VoteWeb(m, to, id)
        \/ \E x \in Guest  : WebProxyVote(x, to, n, id)
  BY <1>3
<1>5. ASSUME NEW p \in Person,
             CastVote(p, to, n) \/ WebRemoveUser(p, n, id) \/ WebMoveUser(p, to, n, id)
      PROVE  AskInv'
  BY <1>1, <1>2, <1>5 DEF CastVote, WebRemoveUser, WebMoveUser
<1>6. ASSUME NEW m \in Member, VoteWeb(m, to, id) PROVE AskInv'
  BY <1>1, <1>2, <1>6 DEF VoteWeb
<1>7. ASSUME NEW x \in Guest, WebProxyVote(x, to, n, id) PROVE AskInv'
  <2>1. PICK kind \in Made : FromWeb(kind, x, to, n, id)
    BY <1>1, <1>7 DEF WebProxyVote
  <2> QED  BY <1>1, <1>2, <2>1
<1> QED  BY <1>4, <1>5, <1>6, <1>7

\* What is done under the lock, and to whom.
LEMMA PerformFacts ==
  ASSUME AskInv, NEW a \in acts, Perform(a), NEW id \in Ids, NEW p \in Person, Altered(id, p)
  PROVE  /\ a.who = p /\ a \in acts \ acts' /\ ChangeMade(a) /\ a.warn = FALSE
         /\ id = Resolved(a) /\ Applies(a, status[id][p]) /\ status'[id][p] = a.to
<1>1. ChangeMade(a) /\ a.who \in Person /\ a.warn = FALSE
  BY DEF AskInv, ActsTyped, ChangeMade, ChangeRecord
<1>2. status \in [Ids -> [Person -> Statuses]] /\ acts' = acts \ {a}
  BY DEF AskInv, Perform
<1>3. PICK r : r = Resolved(a)
  OBVIOUS
<1>4. r # 0 /\ Applies(a, status[r][a.who]) /\ status' = [status EXCEPT ![r][a.who] = a.to]
  BY <1>2, <1>3 DEF Perform, Altered
<1>5. id = r /\ a.who = p
  <2>1. CASE id # r
    <3>1. status'[id] = status[id]
      BY <1>2, <1>4, <2>1
    <3> QED  BY <3>1 DEF Altered
  <2>2. CASE id = r /\ a.who # p
    <3>1. status[r] \in [Person -> Statuses]
      BY <1>2, <2>2
    <3>2. status'[r][p] = status[r][p]
      BY <1>2, <1>4, <2>2, <3>1
    <3> QED  BY <2>2, <3>2 DEF Altered
  <2> QED  BY <2>1, <2>2
<1>6. status'[id][p] = a.to
  BY <1>2, <1>4, <1>5
<1> QED  BY <1>1, <1>2, <1>3, <1>4, <1>5, <1>6

LEMMA PerformKeeps ==
  ASSUME AskInv, UNCHANGED vars, NEW a \in acts, Perform(a)
  PROVE  AskInv'
<1>1. ChatInv' /\ created' = created
  BY ChatKeeps DEF AskInv, vars
<1>2. acts' = acts \ {a} /\ UNCHANGED << overdue, pending, prompts, asks >>
  BY DEF Perform
<1>3. QuestionsTyped'
  BY <1>1, <1>2 DEF AskInv, QuestionsTyped, Question
<1>4. ActsTyped'
  <2>1. IsFiniteSet(acts) /\ Cardinality(acts) <= MaxActs /\ \A b \in acts : ChangeMade(b)
    BY DEF AskInv, ActsTyped
  <2>2. IsFiniteSet(acts') /\ Cardinality(acts') <= Cardinality(acts)
        /\ Cardinality(acts) \in Nat /\ Cardinality(acts') \in Nat
    BY <1>2, <2>1, FS_RemoveElement, FS_CardinalityType, FS_Subset
  <2>3. Cardinality(acts') <= MaxActs
    BY <2>1, <2>2, AskAssumption
  <2> QED  BY <1>1, <1>2, <2>1, <2>2, <2>3 DEF ActsTyped, ChangeMade
<1>5. status' \in [Ids -> [Person -> Statuses]]
  <2>1. a.to \in Statuses
    BY DEF AskInv, ActsTyped, ChangeMade, ChangeRecord
  <2>2. PICK r : r = Resolved(a)
    OBVIOUS
  <2>3. status' = status \/ status' = [status EXCEPT ![r][a.who] = a.to]
    BY <2>2 DEF Perform
  <2> QED  BY <2>1, <2>3 DEF AskInv
<1>6. Numbered' /\ ActsTapped'
  BY <1>2 DEF AskInv, Numbered, ActsTapped, TappedFor
<1> QED  BY <1>1, <1>2, <1>3, <1>4, <1>5, <1>6 DEF AskInv

\* Rollcalls start, close and renumber beside the questions; a restart
\* forgets the questions.
LEMMA MoveKeeps ==
  ASSUME AskInv, RollCallsMove
  PROVE  AskInv'
<1>1. [Next]_vars /\ UNCHANGED << status, overdue, prompts, asks >>
  BY DEF RollCallsMove, Next, asking, Forget
<1>2. ChatInv'
  BY <1>1, ChatKeeps DEF AskInv
<1>3. created \in Nat /\ created' \in Nat /\ created <= created'
  <2>1. created \in Nat /\ created' \in Nat
    BY <1>2, IdFacts DEF AskInv, ChatInv, ListTyped
  <2>2. created' = created \/ created' = created + 1
    BY <1>1 DEF Next, vars, ChatStep, Start, Settle, Sweep, Draw, NewPanel, Close, CloseOnWeb, Retire,
                Tap, Refuse, TapRefresh, Answer, Edited, EditLost, Sent, Stripped, Failed, VoteById,
                AfterVote, RefreshDraw, Refreshed, Settled, Restart
  <2> QED  BY <2>1, <2>2
<1>4. pending' \subseteq pending /\ (acts' = acts \/ acts' = {})
  BY DEF RollCallsMove, asking, Forget
<1>5. \A q \in ChangeRecord : q.rc <= created => q.rc <= created'
  BY <1>3 DEF ChangeRecord
<1>6. QuestionsTyped'
  BY <1>1, <1>4, <1>5 DEF AskInv, QuestionsTyped, Question
<1>7. ActsTyped'
  <2>1. CASE acts' = acts
    BY <1>5, <2>1 DEF AskInv, ActsTyped, ChangeMade
  <2>2. CASE acts' = {}
    BY <2>2, FS_EmptySet, AskAssumption DEF ActsTyped
  <2> QED  BY <1>4, <2>1, <2>2
<1>8. Numbered' /\ ActsTapped'
  BY <1>1, <1>4 DEF AskInv, Numbered, ActsTapped, TappedFor
<1> QED  BY <1>1, <1>2, <1>6, <1>7, <1>8 DEF AskInv

LEMMA AskStart == AskInit => AskInv
<1> SUFFICES ASSUME AskInit PROVE AskInv
  OBVIOUS
<1>1. ChatInv
  BY ChatStart DEF AskInit
<1>2. ActsTyped
  BY FS_EmptySet, AskAssumption DEF AskInit, ActsTyped
<1>3. QuestionsTyped
  BY AskAssumption DEF AskInit, QuestionsTyped
<1>4. Numbered /\ ActsTapped
  BY DEF AskInit, Numbered, ActsTapped
<1> QED  BY <1>1, <1>2, <1>3, <1>4 DEF AskInit, AskInv, Statuses

LEMMA AskStep == AskInv /\ [AskNext]_askVars => AskInv'
<1> SUFFICES ASSUME AskInv, [AskNext]_askVars PROVE AskInv'
  OBVIOUS
<1>1. CASE UNCHANGED askVars
  <2>1. UNCHANGED vars /\ UNCHANGED << status, overdue, pending, prompts, acts, asks >>
    BY <1>1 DEF askVars, asking
  <2> QED  BY <2>1, WaitKeeps DEF AskInv
<1>2. CASE RollCallsMove
  BY <1>2, MoveKeeps
<1>3. CASE ChatAsks
  <2>1. UNCHANGED vars
    BY <1>3 DEF ChatAsks
  <2>2. ASSUME NEW p \in Person, GhostCount(p) PROVE AskInv'
    <3>1. overdue' \subseteq Person /\ UNCHANGED << status, pending, prompts, acts, asks >>
      BY <2>2 DEF GhostCount, SymDiff, AskInv
    <3> QED  BY <2>1, <3>1, WaitKeeps
  <2> QED  BY <1>3, <2>1, <2>2, AskingKeeps, AnsweringKeeps, PerformKeeps DEF ChatAsks
<1>4. CASE WebChanges
  BY <1>4, UnaskedKeeps DEF WebChanges
<1> QED  BY <1>1, <1>2, <1>3, <1>4 DEF AskNext

LEMMA AskInvariance == AskSpec => []AskInv
BY AskStart, AskStep, PTL DEF AskSpec

LEMMA AskedInOrder == AskInv => AskTypeOK
<1> SUFFICES ASSUME AskInv PROVE AskTypeOK
  OBVIOUS
<1>1. \A q \in pending : Standing(q) = {q}
  BY DEF AskInv, QuestionsTyped, Standing
<1>3. \A p, q \in pending \cup prompts : p.asked = q.asked => p = q
  BY DEF AskInv, Numbered
<1>2. ASSUME NEW q \in pending \cup prompts \cup acts PROVE q.who \in Person /\ q.rc \in 0..created
  <2>1. q \in ChangeRecord /\ q.rc <= created
    BY DEF AskInv, QuestionsTyped, ActsTyped, Question, ChangeMade
  <2>2. q.who \in Person /\ q.rc \in Nat
    BY <2>1 DEF ChangeRecord
  <2> QED  BY <2>1, <2>2, IdFacts DEF AskInv
<1> QED  BY <1>1, <1>2, <1>3 DEF AskInv, QuestionsTyped, ActsTyped, AskTypeOK, Statuses

\* The panels and the questions of a chat are in order (ChatPanels and
\* AskFirst): the number, the row, the list and the buttons of a panel belong
\* to one rollcall, a vote made with them lands there or nowhere, and nobody
\* has two questions of one kind.
THEOREM ChatCorrect == AskSpec => []ChatOK
BY AskInvariance, ChatInOrder, AskedInOrder, PTL DEF AskInv, ChatOK

-----------------------------------------------------------------------------
\* Only what is done under the lock changes a list.
LEMMA OnlyPerformed ==
  ASSUME AskInv, [AskNext]_askVars, NEW id \in Ids, NEW p \in Person, Altered(id, p)
  PROVE  \E a \in acts : Perform(a) /\ UNCHANGED vars
<1>1. status' # status
  BY DEF Altered
<1>2. ~RollCallsMove /\ ~WebChanges /\ ~UNCHANGED askVars
  BY <1>1 DEF RollCallsMove, asking, Forget, WebChanges, Unasked, CastVote, VoteWeb, WebProxyVote,
              WebRemoveUser, WebMoveUser, FromWeb, askVars
<1>3. ~Asking
  <2>1. /\ \A q : ~Ask(q)
        /\ \A q, i : ~Gated(q, i)
    BY <1>1 DEF Gated, Ask
  <2>2. /\ \A m, n : ~InUser(m, n) /\ ~TapIn(m, n) /\ ~OutUser(m, n)
        /\ \A a, p_1, to, n : ~SetStatus(a, p_1, to, n)
        /\ \A a, x, n : ~SetInFor(a, x, n) /\ ~SetOutFor(a, x, n) /\ ~DeleteUser(a, x, n)
    BY <1>1, <2>1 DEF InUser, TapIn, OutUser, SetStatus, SetInFor, SetOutFor, DeleteUser
  <2> QED  BY <2>2 DEF Asking
<1>4. ~Answering /\ ~ \E q \in Person : GhostCount(q)
  BY <1>1 DEF Answering, Reconfirm, ProxyAdd, DeleteConfirmed, OverrideConfirmed, AskCancelled,
              PrunePending, GhostCount
<1> QED  BY <1>2, <1>3, <1>4 DEF AskNext, ChatAsks

\* What was tapped or sent for one rollcall changes that one or none, whatever
\* closed, started and renumbered in between; a Yes does what the question
\* under it offered, or what the tapper asked after it.
THEOREM WhereAsked == AskSpec => LandsWhereAsked
<1> DEFINE Lands(a, id) ==
             /\ a.rc \in {0, id}
             /\ a.tapped # 0 => \E q \in prompts : q.asked = a.tapped /\ (Offers(q, a) \/ Superseded(q, a))
           Step == \A id \in Ids, p \in Person : Altered(id, p) =>
                     LET Fits(a) == Lands(a, id) IN IsOpen(id) /\ Did(id, p, Fits)
<1>1. AskInv /\ [AskNext]_askVars => [Step]_asking
  <2> SUFFICES ASSUME AskInv, [AskNext]_askVars, NEW id \in Ids, NEW p \in Person, Altered(id, p)
               PROVE  IsOpen(id) /\ \E a \in acts \ acts' : a.who = p /\ Lands(a, id)
    BY DEF Did
  <2>1. PICK a \in acts : Perform(a)
    BY OnlyPerformed
  <2>2. a.who = p /\ a \in acts \ acts' /\ id = Resolved(a)
    BY <2>1, PerformFacts
  <2>3. id # 0
    BY LimitFacts
  <2>4. IsOpen(id) /\ a.rc \in {0, id}
    BY <2>2, <2>3, NumberFacts DEF Resolved, IdAt, AskInv, ChatInv
  <2>5. Lands(a, id)
    BY <2>4 DEF AskInv, ActsTapped, TappedFor
  <2> QED  BY <2>2, <2>4, <2>5
<1> QED  BY <1>1, AskInvariance, PTL DEF AskSpec, LandsWhereAsked

\* Nobody absent too often is put IN without a yes.
THEOREM InByYes == AskSpec => NobodyInUnasked
<1> DEFINE Step == \A id \in Ids, p \in Person : Altered(id, p) /\ status'[id][p] = "in" =>
                     LET Fits(a) == ~a.warn IN Did(id, p, Fits)
<1>1. AskInv /\ [AskNext]_askVars => [Step]_asking
  <2> SUFFICES ASSUME AskInv, [AskNext]_askVars, NEW id \in Ids, NEW p \in Person, Altered(id, p)
               PROVE  \E a \in acts \ acts' : a.who = p /\ ~a.warn
    BY DEF Did
  <2>1. PICK a \in acts : Perform(a)
    BY OnlyPerformed
  <2> QED  BY <2>1, PerformFacts
<1> QED  BY <1>1, AskInvariance, PTL DEF AskSpec, NobodyInUnasked

\* Who is on no list any more is never put back by a move or a deletion.
THEOREM GoneStaysGone == AskSpec => NotBroughtBack
<1> DEFINE Step == \A id \in Ids, p \in Person : Altered(id, p) /\ status[id][p] = "none" =>
                     LET Fits(a) == a.kind \in {"vote", "add"} IN Did(id, p, Fits)
<1>1. AskInv /\ [AskNext]_askVars => [Step]_asking
  <2> SUFFICES ASSUME AskInv, [AskNext]_askVars, NEW id \in Ids, NEW p \in Person, Altered(id, p),
                      status[id][p] = "none"
               PROVE  \E a \in acts \ acts' : a.who = p /\ a.kind \in {"vote", "add"}
    BY DEF Did
  <2>1. PICK a \in acts : Perform(a)
    BY OnlyPerformed
  <2>2. a.who = p /\ a \in acts \ acts' /\ ChangeMade(a) /\ Applies(a, "none")
    BY <2>1, PerformFacts
  <2> QED  BY <2>2 DEF Applies, ChangeMade, Made
<1> QED  BY <1>1, AskInvariance, PTL DEF AskSpec, NotBroughtBack
=============================================================================
