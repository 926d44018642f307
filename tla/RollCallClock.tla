---------------------------- MODULE RollCallClock ----------------------------
(***************************************************************************)
(* The clock of a chat: the per-chat loop that sends the reminders of the  *)
(* open rollcalls and closes those whose time has come, the commands that  *)
(* set a close time or a reminder, and the one-time schedules that start a *)
(* rollcall by themselves.  The list of rollcalls, which commands change   *)
(* while the loop sleeps or waits for Telegram, is RollCallRegistry.       *)
(*                                                                         *)
(* Of the loop's three one-shot messages to those who have not voted only  *)
(* the one that needs no close time, /remind_after_open, is kept.          *)
(***************************************************************************)
EXTENDS RollCallRegistry

CONSTANTS Horizon,      \* the last moment
          Once,         \* one-time schedules
          Hours         \* how long before the close, or after the start, a message is due

ASSUME ClockAssumption == Horizon \in Nat /\ Hours \in Nat \ {0}

VARIABLES now,
          row, mem,     \* a rollcall's settings, in the table and in memory
          afterOpen,    \* reminder_after_open_hours
          loop,         \* off, asleep, or where in a pass it is
          snap, at,     \* the pass's copy of the list and its place in it
          seen,         \* the time it read before it sent a message
          once,         \* the rows of the one-time schedules
          fetched,      \* those the scheduler has read as due
          promise,      \* the close time an admin was last told, or 0
          owed,         \* reminders set and not sent
          fires         \* rollcalls a one-time schedule has started

loopVars == <<loop, snap, at, seen>>
onceVars == <<once, fetched, fires>>
settingVars == <<row, mem, afterOpen, promise, owed>>
clockVars == <<now, settingVars, loopVars, onceVars>>
timedVars == <<registryVars, clockVars>>

Moments == 0 .. Horizon
Settings == [opened : Moments, closes : Moments, reminder : {0, Hours}, greeted : BOOLEAN]
Fresh(c) == [opened |-> now, closes |-> c, reminder |-> 0, greeted |-> FALSE]
Unset == [opened |-> 0, closes |-> 0, reminder |-> 0, greeted |-> FALSE]

ClockInit == /\ now = 0
             /\ row = [r \in Ids |-> Unset] /\ mem = row
             /\ afterOpen = 0
             /\ loop = "off" /\ snap = <<>> /\ at = 1 /\ seen = 0
             /\ once = [s \in Once |-> "none"] /\ fetched = {}
             /\ promise = [r \in Ids |-> 0]
             /\ owed = [r \in Ids |-> 0]
             /\ fires = [s \in Once |-> 0]

TimedInit == RegistryInit /\ ClockInit

\* An open rollcall has a close time, or its after-open message is to be sent.
LoopNeeded(l, m, hours) ==
  \E i \in DOMAIN l : m[l[i]].closes # 0 \/ (hours > 0 /\ ~m[l[i]].greeted)

EnsureLoop == loop' = IF loop = "off" /\ LoopNeeded(list', mem', afterOpen')
                      THEN "asleep" ELSE loop

-----------------------------------------------------------------------------
(* Starting a rollcall, by /rc, /repeat, from a template or by a schedule.  *)

\* Slip: the way a rollcall is started does not start the loop.
CreateUnwatched(r, c) ==
  /\ AddRollCall(r)
  /\ mem' = [mem EXCEPT ![r] = Fresh(c)] /\ row' = [row EXCEPT ![r] = Fresh(c)]
  /\ promise' = [promise EXCEPT ![r] = c]
  /\ UNCHANGED <<mishaps, now, afterOpen, owed, loopVars>>

\* The rollcall is created, its settings are put on it, and it is saved; when
\* that write fails the starter is told so, the rollcall stays, its row has no
\* close time and the loop is not started for it.
Create(r, c) ==
  /\ AddRollCall(r)
  /\ mem' = [mem EXCEPT ![r] = Fresh(c)]
  /\ UNCHANGED <<now, afterOpen, owed, snap, at, seen>>
  /\ \/ /\ row' = [row EXCEPT ![r] = Fresh(c)]
        /\ promise' = [promise EXCEPT ![r] = c]
        /\ EnsureLoop
        /\ UNCHANGED mishaps
     \/ /\ Fails
        /\ row' = [row EXCEPT ![r] = Fresh(0)]
        /\ UNCHANGED <<promise, loop>>

StartRollCall == \E r \in Ids, c \in Moments : ~ChatIsFull /\ Create(r, c) /\ UNCHANGED onceVars

\* /repeat takes no close time over from the rollcall it repeats.
RepeatRollCall == /\ \E q \in Ids : status[q] = "ended"
                  /\ \E r \in Ids : ~ChatIsFull /\ Create(r, 0) /\ UNCHANGED onceVars

-----------------------------------------------------------------------------
(* Settings.                                                               *)

\* Memory is changed first; a failed save leaves it so and tells the admin no.
Save(r, m) ==
  /\ mem' = [mem EXCEPT ![r] = m]
  /\ \/ row' = [row EXCEPT ![r].closes = m.closes, ![r].reminder = m.reminder] /\ UNCHANGED mishaps
     \/ Fails /\ UNCHANGED row
  /\ UNCHANGED <<now, status, cancelled, list, counted, cut, taps, reasonFor>>
Saved == UNCHANGED mishaps

SetRollCallTime(r, c) ==
  /\ r \in OnList /\ c >= now /\ c # 0
  /\ Save(r, [mem[r] EXCEPT !.closes = c, !.reminder = 0])
  /\ promise' = [promise EXCEPT ![r] = IF mishaps' = mishaps THEN c ELSE 0]
  /\ UNCHANGED afterOpen
  /\ IF mishaps' = mishaps THEN EnsureLoop ELSE UNCHANGED loop
  /\ UNCHANGED <<owed, snap, at, seen, onceVars>>

CancelRollCallTime(r) ==
  /\ r \in OnList
  /\ Save(r, [mem[r] EXCEPT !.closes = 0, !.reminder = 0])
  /\ promise' = [promise EXCEPT ![r] = 0]
  /\ UNCHANGED <<afterOpen, owed, loopVars, onceVars>>

SetReminder(r) ==
  /\ r \in OnList /\ mem[r].closes # 0
  /\ mem[r].closes - Hours >= now
  /\ Save(r, [mem[r] EXCEPT !.reminder = Hours])
  /\ owed' = [owed EXCEPT ![r] = 1]
  /\ UNCHANGED <<afterOpen, promise, loopVars, onceVars>>

RemindAfterOpen ==
  /\ afterOpen' = Hours - afterOpen
  /\ UNCHANGED <<row, mem, promise, owed, registryVars>>
  /\ IF afterOpen' > 0 THEN EnsureLoop ELSE UNCHANGED loop
  /\ UNCHANGED <<now, snap, at, seen, onceVars>>

-----------------------------------------------------------------------------
(* The loop.                                                               *)

Wake == /\ loop = "asleep"
        /\ IF list = <<>> THEN loop' = "off" /\ UNCHANGED <<snap, at>>
           ELSE loop' = "pass" /\ snap' = list /\ at' = 1
        /\ UNCHANGED <<registryVars, now, settingVars, seen, onceVars>>

Visiting(r) == at <= Len(snap) /\ r = snap[at]
\* Slip: the pass goes over the list that it shortens.
SkipOne == loop' = "pass" /\ at' = at + 2 /\ seen' = 0 /\ UNCHANGED <<snap, onceVars, now>>
NextOne == loop' = "pass" /\ at' = at + 1 /\ seen' = 0 /\ UNCHANGED <<snap, onceVars, now>>
Persists(field, r, v) == \/ row' = [row EXCEPT ![r] = [@ EXCEPT ![field] = v]] /\ UNCHANGED mishaps
                         \/ Fails /\ UNCHANGED row
ListStays == UNCHANGED <<status, cancelled, list, counted, cut, taps, reasonFor>>

GreetDue(r) == /\ ~mem[r].greeted
               /\ afterOpen > 0
               /\ now >= mem[r].opened + afterOpen

\* The after-open message: the flag is set and stored, then the messages go.
Greet(r) == /\ loop = "pass" /\ Visiting(r) /\ GreetDue(r)
            /\ mem' = [mem EXCEPT ![r].greeted = TRUE]
            /\ Persists("greeted", r, TRUE)
            /\ loop' = "greeting" /\ seen' = now
            /\ ListStays /\ UNCHANGED <<now, afterOpen, promise, owed, snap, at, onceVars>>

\* The rest of a visit goes by the time t read at its beginning.
Judging(r, t) == /\ Visiting(r)
                 /\ \/ loop = "pass" /\ ~GreetDue(r) /\ t = now
                    \/ loop = "greeting" /\ t = seen

ReminderDue(r, t) == mem[r].reminder # 0 /\ t >= mem[r].closes - mem[r].reminder

PassOver(r, t) == /\ Judging(r, t)
                  /\ mem[r].closes = 0 \/ (t < mem[r].closes /\ ~ReminderDue(r, t))
                  /\ NextOne /\ UNCHANGED <<registryVars, settingVars>>

\* Slip: the reminder is cleared in memory only.
ClearInMemory(r) == mem' = [mem EXCEPT ![r].reminder = 0] /\ UNCHANGED <<row, mishaps>>
ClearReminder(r) == /\ mem' = [mem EXCEPT ![r].reminder = 0]
                    /\ Persists("reminder", r, 0)

\* The reminder is cleared, in memory and in its row, before it is sent; what
\* becomes of the send changes nothing.
Remind(r, t) == /\ Judging(r, t)
                /\ mem[r].closes # 0 /\ ReminderDue(r, t) /\ t < mem[r].closes
                /\ ClearReminder(r)
                /\ owed' = IF mishaps' = mishaps THEN [owed EXCEPT ![r] = @ - 1] ELSE owed
                /\ NextOne /\ ListStays /\ UNCHANGED <<afterOpen, promise>>

\* Slip: a rollcall with a reminder still set is not closed.
DueWithoutReminder(r, t) ==
  /\ Judging(r, t)
  /\ mem[r].closes # 0 /\ t >= mem[r].closes /\ mem[r].reminder = 0
  /\ loop' = "closing" /\ seen' = 0
  /\ UNCHANGED <<registryVars, now, settingVars, snap, at, onceVars>>

\* The close time has come: a reminder that was due is dropped, and the loop
\* waits for the chat's lock.
Due(r, t) == /\ Judging(r, t)
             /\ mem[r].closes # 0 /\ t >= mem[r].closes
             /\ IF mem[r].reminder # 0 THEN ClearReminder(r) ELSE UNCHANGED <<mem, row, mishaps>>
             /\ loop' = "closing" /\ seen' = 0
             /\ ListStays /\ UNCHANGED <<now, afterOpen, promise, owed, snap, at, onceVars>>

\* Slip: the loop goes by the number the rollcall had when the pass began.
ClosingByNumber == IF at \in DOMAIN list THEN list[at] ELSE snap[at]

Closing == snap[at]

\* Slip: what happened while the loop waited for the lock is not looked at.
CloseUnchecked ==
  /\ loop = "closing"
  /\ EndRollCall(Closing) /\ UNCHANGED <<taps, reasonFor>>
  /\ mem' = IF list' = list THEN mem ELSE [mem EXCEPT ![Closing].closes = 0]
  /\ NextOne /\ UNCHANGED <<row, afterOpen, promise, owed>>

\* Under the lock: the rollcall may have been closed while the loop waited.
AutoClose ==
  /\ loop = "closing"
  /\ \/ Closing \notin OnList /\ UNCHANGED <<registryVars, mem>>
     \/ /\ Closing \in OnList
        /\ EndRollCall(Closing) /\ UNCHANGED <<taps, reasonFor>>
        /\ mem' = IF list' = list THEN mem ELSE [mem EXCEPT ![Closing].closes = 0]
  /\ NextOne /\ UNCHANGED <<row, afterOpen, promise, owed>>

PassEnds == /\ loop = "pass" /\ at > Len(snap)
            /\ loop' = IF LoopNeeded(list, mem, afterOpen) THEN "asleep" ELSE "off"
            /\ snap' = <<>> /\ at' = 1
            /\ UNCHANGED <<registryVars, now, settingVars, seen, onceVars>>

Loop == \/ Wake \/ AutoClose \/ PassEnds
        \/ \E r \in Ids : \/ Greet(r)
                          \/ \E t \in Moments : PassOver(r, t) \/ Remind(r, t) \/ Due(r, t)

-----------------------------------------------------------------------------
(* One-time schedules.  When a row is due is left out: any row may be read  *)
(* as due by the next tick.                                                *)

RestOnce == UNCHANGED <<registryVars, now, settingVars, loopVars>>

ScheduleOnce(s) == /\ once[s] = "none"
                   /\ once' = [once EXCEPT ![s] = "waiting"]
                   /\ RestOnce /\ UNCHANGED <<fetched, fires>>

CancelPendingOnce(s) == /\ once[s] = "waiting"
                        /\ once' = [once EXCEPT ![s] = "deleted"]
                        /\ RestOnce /\ UNCHANGED <<fetched, fires>>

\* The tick reads the rows that are due; those behind the first wait for the
\* messages of the ones ahead, and another process may have read them too.
FetchOnce == /\ fetched = {}
             /\ \E due \in SUBSET {s \in Once : once[s] = "waiting"} : fetched' = due
             /\ RestOnce /\ UNCHANGED <<once, fires>>

\* Slip: the claim does not ask whether the row is still to be fired.
ClaimedAnyway(s) == once' = [once EXCEPT ![s] = "fired"]

\* The claim is one conditional write.
Claimed(s) == once[s] = "waiting" /\ once' = [once EXCEPT ![s] = "fired"]
NotClaimed(s) == once[s] # "waiting" /\ UNCHANGED once

TakeUp(s) == s \in fetched /\ fetched' = fetched \ {s}

\* A chat that is full loses the firing.
FireFull(s) == /\ TakeUp(s) /\ ChatIsFull
               /\ Claimed(s) \/ NotClaimed(s)
               /\ RestOnce /\ UNCHANGED fires

FireLost(s) == /\ TakeUp(s) /\ ~ChatIsFull /\ NotClaimed(s)
               /\ RestOnce /\ UNCHANGED fires

\* The row is claimed, then the rollcall is created from its template.
Fire(s) == /\ TakeUp(s) /\ ~ChatIsFull /\ Claimed(s)
           /\ \E r \in Ids, c \in Moments : Create(r, c)
           /\ fires' = [fires EXCEPT ![s] = @ + 1]

-----------------------------------------------------------------------------
Tick == /\ now < Horizon /\ now' = now + 1
        /\ UNCHANGED <<registryVars, settingVars, loopVars, onceVars>>

\* A start loads the rollcalls and, where one needs it, starts the loop.
Reboot == /\ mem' = row
          /\ UNCHANGED <<now, row, afterOpen, promise, owed, fires>>
          /\ loop' = IF LoopNeeded(list', mem', afterOpen) THEN "asleep" ELSE "off"
          /\ snap' = <<>> /\ at' = 1 /\ seen' = 0
          /\ fetched' = {}

\* Death in general, or after a schedule was claimed and before its rollcall.
Crash == \/ Dies /\ Reboot /\ UNCHANGED once
         \/ \E s \in fetched : RestartBot /\ Reboot /\ ~ChatIsFull /\ Claimed(s)

ByHand == \/ \E r \in Ids : TapEndConfirm(r)
          \/ GivesAnswer \/ Removals

Set == \E r \in Ids : \/ \E c \in Moments : SetRollCallTime(r, c)
                      \/ CancelRollCallTime(r) \/ SetReminder(r)

Schedule == \/ FetchOnce
            \/ \E s \in Once : \/ ScheduleOnce(s) \/ CancelPendingOnce(s)
                               \/ FireFull(s) \/ FireLost(s) \/ Fire(s)

TimedNext == \/ StartRollCall \/ RepeatRollCall
             \/ ByHand /\ UNCHANGED clockVars
             \/ Set \/ RemindAfterOpen
             \/ Loop \/ Schedule \/ Tick \/ Crash

\* The loop and the clock do not stop while the bot runs.
TimedSpec == TimedInit /\ [][TimedNext]_timedVars /\ WF_timedVars(Loop) /\ WF_timedVars(Tick)

-----------------------------------------------------------------------------
\* Types of the clock.
ClockTypeOK ==
  /\ RegistryTypeOK
  /\ now \in Moments
  /\ row \in [Ids -> Settings] /\ mem \in [Ids -> Settings]
  /\ afterOpen \in {0, Hours}
  /\ loop \in {"off", "asleep", "pass", "greeting", "closing"}
  /\ snap \in Seq(Ids) /\ at \in 1 .. Len(snap) + 1 /\ seen \in Moments
  /\ once \in [Once -> {"none", "waiting", "fired", "deleted"}] /\ fetched \subseteq Once
  /\ promise \in [Ids -> Moments]

\* An admin was told when this open rollcall will close, and no later command
\* about its time failed.
Promised(r) == r \in OnList /\ promise[r] # 0

\* While an open rollcall has a close time somebody was told of, the loop that
\* enforces it runs, whichever way the rollcall was started or the time set,
\* and after a restart.
PromisesAreWatched == (\E r \in Ids : Promised(r)) => loop # "off"

\* Such a rollcall is closed in the end, or its close time cancelled.
AutoCloses == \A r \in Ids : Promised(r) ~> ~Promised(r)

\* A reminder that was set is sent once, restarts included, unless the write
\* that clears it fails.
RemindedOnce == \A r \in Ids : owed[r] >= 0

\* The loop closes the rollcall whose time it found passed, and no other,
\* however the list moved while it waited for the lock.
ClosesItsOwn ==
  [][loop = "closing" /\ loop' = "pass" /\ list' # list => list' = RemoveFirst(list, snap[at])]_timedVars

\* A one-time schedule starts one rollcall at most, and none once an admin was
\* told it is cancelled, deaths and rows read before the cancellation included.
FiresOnce ==
  [][\A s \in Once : fires'[s] # fires[s] => fires[s] = 0 /\ once[s] = "waiting"]_timedVars

\* While a close time was promised the loop runs, and it reminds once.
ClockOK == ClockTypeOK /\ PromisesAreWatched /\ RemindedOnce

\* What was decided before a wait is done to its own rollcall or not at all:
\* a confirmed end, a passed close time, a due schedule.
ActsAsDecided == ConfirmedOnly /\ ClosesItsOwn /\ FiresOnce
=============================================================================
