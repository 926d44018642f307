---------------------------- MODULE TemplateDesk ----------------------------
(***************************************************************************)
(* Everything an admin does to one template around its schedule: the save  *)
(* of /set_template, of the web form and of repeat=, the schedule commands *)
(* and the ticks of the /schedules panel, and the deletion, after which    *)
(* the same name may be saved again as a new template.  /set_template      *)
(* reads the template, may complain about unreadable values in the chat,   *)
(* and saves what it read with what it was given; the scheduler of         *)
(* TemplateSchedule starts from the row, and the fields, it read earlier.  *)
(***************************************************************************)
EXTENDS TemplateSchedule

CONSTANT Saves  \* what an admin may write: each field kept, cleared or set

VARIABLES
  fields,   \* when the rollcall closes: on a weekday at a time, or an offset
  draft,    \* what a /set_template that is still complaining will save
  ticked,   \* the template is in _sched_selection
  read      \* the fields on the row each scheduler read

deskVars == << fields, draft, ticked, read >>
allVars  == << vars, deskVars >>

Keep == -2   \* the argument is None
None == -1   \* the column is NULL; as an argument, "" clears it
Field == {"day", "time", "offset"}

ASSUME SavesAssumption ==
  /\ Saves \subseteq [Field -> Nat \cup {Keep, None}]
  /\ \A given \in Saves : given["day"] \in 0..(WeekLength - 1) \cup {Keep, None}

NoFields == [f \in Field |-> None]
NoDraft  == [f \in Field |-> Keep]

(***************************************************************************)
(* What a save writes, and when what is opened closes.                     *)
(***************************************************************************)
Merged(given, old) == [f \in Field |-> IF given[f] = Keep THEN old[f] ELSE given[f]]
Half(new) == (new["day"] = None) # (new["time"] = None)

\* Slip: half an event slot is saved.
AcceptsAll(given, new) == TRUE

\* Both or neither, unless the save touches neither.
Accepts(given, new) == given["day"] # Keep \/ given["time"] # Keep => ~Half(new)

\* Slip: the weekday of today, though the time has passed.
ThisWeekday(day, time, t) ==
  Min({At(d, [slot |-> time]) :
         d \in {e \in Day(t)..(Day(t) + WeekLength) : Weekday(e) = day}})

NextWeekday(day, time, t) ==
  Min({u \in {At(d, [slot |-> time]) :
                d \in {e \in Day(t)..(Day(t) + WeekLength) : Weekday(e) = day}} : u >= t})

Never == -1
CloseTime(new, t) ==
  IF new["day"] # None /\ new["time"] # None THEN NextWeekday(new["day"], new["time"], t)
  ELSE IF new["offset"] # None THEN t + new["offset"] ELSE Never

\* /schedule_template: within the week, the rollcall opens before its event.
OpensFirst(s) ==
  s.rec \in {"weekly", "biweekly"} /\ fields["day"] # None /\ fields["time"] # None =>
    s.day * SlotsPerDay + s.slot < fields["day"] * SlotsPerDay + fields["time"]

-----------------------------------------------------------------------------
\* The name is saved where no template is: a new one, without a schedule,
\* that keeps none of the old one's history.
Recreate ==
  /\ ~row.exists /\ edits < MaxEdits
  /\ edits' = edits + 1
  /\ row' = Blank /\ lost' = NoDate /\ waived' = NoDate /\ since' = clock /\ until' = OneYear
  /\ started' = [day |-> NoDate, times |-> 0]
  /\ UNCHANGED << clock, ticks >>

\* upsert_template: fields that are not given keep what the row has by now.
Upsert(given) ==
  LET new == Merged(given, IF row.exists THEN fields ELSE NoFields)
  IN  /\ Accepts(given, new)
      /\ UpsertTemplate \/ Recreate
      /\ fields' = new

\* /set_template passes every field it read, with the ones it was given in
\* their place; `garbled`, it first says which values it could not read.
SetTemplate(given, garbled) ==
  LET old == IF row.exists THEN fields ELSE NoFields
      all == [f \in Field |-> IF given[f] # Keep THEN given[f]
                              ELSE IF old[f] = None THEN Keep ELSE old[f]]
  IN  /\ draft = NoDraft
      /\ IF garbled THEN draft' = all /\ UNCHANGED << vars, fields >>
         ELSE Upsert(all) /\ UNCHANGED draft
      /\ UNCHANGED << ticked, read >>

SaveDraft ==
  /\ draft # NoDraft
  /\ draft' = NoDraft
  /\ Upsert(draft) \/ (~Accepts(draft, Merged(draft, IF row.exists THEN fields ELSE NoFields))
                       /\ UNCHANGED << vars, fields >>)
  /\ UNCHANGED << ticked, read >>

\* The web form sends every field: an event slot left blank is cleared.
WebUpdateTemplate(given) ==
  /\ Upsert([f \in Field |-> IF f # "offset" /\ given[f] = Keep THEN None ELSE given[f]])
  /\ UNCHANGED << draft, ticked, read >>

\* repeat=: the rollcall's settings saved, its own weekday and time scheduled.
RepeatFlag(s) ==
  /\ SetSchedule(s, TRUE)
  /\ UNCHANGED deskVars

ScheduleTemplateCmd(s) ==
  /\ OpensFirst(s)
  /\ SetSchedule(s, FALSE)
  /\ UNCHANGED deskVars

ScheduleTemplateOff == DisableSchedule /\ UNCHANGED deskVars

WebSetTemplateSchedule(s) == SetSchedule(s, FALSE) /\ UNCHANGED deskVars

\* Any older "Yes" deletes whatever template has the name now.
DeleteTapped == DeleteTemplate /\ fields' = NoFields /\ UNCHANGED << draft, ticked, read >>

(***************************************************************************)
(* The /schedules panel: the ticks are the chat's, not the message's.      *)
(***************************************************************************)
Tap(to) == ticked' = to /\ UNCHANGED << vars, fields, draft, read >>

TickOne   == row.exists /\ row.slot # NoSlot /\ Tap(~ticked)
\* A daily schedule has no day, and is passed over.
TickAll   == row.exists /\ row.slot # NoSlot /\ row.rec # "daily" /\ Tap(TRUE)
TickClear == ticked /\ Tap(FALSE)

ApplyTicked(on) ==
  /\ ticked /\ ticked' = FALSE
  /\ IF row.exists THEN (IF on THEN EnableSchedule ELSE DisableSchedule)
     ELSE UNCHANGED vars
  /\ UNCHANGED << fields, draft, read >>

(***************************************************************************)
(* The scheduler, with the fields it read.                                 *)
(***************************************************************************)
\* Only the bot's process holds drafts and ticks.
DeskRestart(p) ==
  /\ Restart(p)
  /\ \/ draft' = NoDraft /\ ticked' = FALSE
     \/ UNCHANGED << draft, ticked >>
  /\ read' = [read EXCEPT ![p] = NoFields]
  /\ UNCHANGED fields

DeskTick(p) ==
  /\ \/ ReadTemplates(p) /\ read' = [read EXCEPT ![p] = fields]
     \/ /\ ExpireSchedule(p) \/ PassOver(p) \/ ChatIsFull(p) \/ AutoStart(p)
        /\ read' = [read EXCEPT ![p] = NoFields]
  /\ UNCHANGED << fields, draft, ticked >>

DeskInit ==
  /\ Init
  /\ fields = NoFields /\ draft = NoDraft /\ ticked = FALSE
  /\ read = [p \in Schedulers |-> NoFields]

SaveStep ==
  \/ \E given \in Saves, garbled \in BOOLEAN : SetTemplate(given, garbled)
  \/ SaveDraft
  \/ \E given \in Saves : WebUpdateTemplate(given)
  \/ DeleteTapped

PanelStep ==
  \/ TickOne \/ TickAll \/ TickClear
  \/ \E on \in BOOLEAN : ApplyTicked(on)

SwitchStep ==
  \/ \E s \in Schedules :
       RepeatFlag(s) \/ ScheduleTemplateCmd(s) \/ WebSetTemplateSchedule(s)
  \/ ScheduleTemplateOff \/ PanelStep

DeskNext ==
  \/ SaveStep \/ SwitchStep
  \/ Pass /\ UNCHANGED deskVars
  \/ \E p \in Schedulers : DeskRestart(p) \/ DeskTick(p)

DeskSpec == DeskInit /\ [][DeskNext]_allVars

-----------------------------------------------------------------------------
\* "A template that never closes": what the scheduler opens from a template
\* that says when it closes has a close time, and one still to come, however
\* the commands, the web form and a complaining /set_template cross.
OpensWithItsClose ==
  [][\A p \in Schedulers :
       Starts(p) /\ read[p] # NoFields => CloseTime(read[p], clock) >= clock]_allVars

\* What the scheduler goes by is the admins' to change: a save of the other
\* fields leaves the schedule and its stamp as they are by then, also when
\* the save began before somebody paused or moved it.
SavesSpareSchedule == [][fields' # fields /\ row'.exists /\ row.exists => row' = row]_allVars

\* What was set comes about, and a save changes none of it.
DeskKept == ScheduleKept /\ OpensWithItsClose /\ SavesSpareSchedule
=============================================================================
