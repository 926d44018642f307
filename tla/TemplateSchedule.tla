-------------------------- MODULE TemplateSchedule --------------------------
(***************************************************************************)
(* A template that starts a rollcall by itself: the minute tick of         *)
(* check_reminders.check_template_schedules, the admins who set, switch    *)
(* and edit the schedule (services/templates), and the stamp               *)
(* last_scheduled_date between them.  A tick reads every template, then    *)
(* works through them with Telegram calls in between, so the row it acts   *)
(* on may be old; two processes may tick side by side (a rolling restart); *)
(* either may die between its claim and the rollcall.                      *)
(* Time is a number of slots; a day has SlotsPerDay of them.               *)
(***************************************************************************)
EXTENDS Integers, FiniteSets, FiniteSetsExt

CONSTANTS
  Schedules,    \* what an admin may set: recurrence, day, slot and last day
  WeekLength,   \* days in a week
  MonthEnds,    \* the days on which a month ends
  SlotsPerDay,
  Window,       \* SCHEDULE_CATCHUP_MINUTES, in slots
  CatchupDays,  \* SCHEDULE_CATCHUP_DAYS
  LastTime,     \* bound on the clock
  MaxEdits,     \* bound on the changes an admin makes
  MaxHold,      \* bound on how long a tick sits on the row it read
  Schedulers,   \* the processes that tick
  Sqlite        \* db_type is sqlite

ASSUME CalendarAssumption ==
  /\ {SlotsPerDay, WeekLength} \subseteq Nat \ {0}
  /\ {Window, CatchupDays, LastTime, MaxEdits, MaxHold} \subseteq Nat
  /\ CatchupDays < WeekLength /\ Window < SlotsPerDay
  /\ MonthEnds \subseteq Nat
ASSUME ScheduleAssumption ==
  Schedules \subseteq [rec : {"daily", "weekly", "biweekly", "monthly"},
                       day : Nat, slot : 0..(SlotsPerDay - 1), expires : Nat \ {0}]

VARIABLES
  clock,
  row,       \* the template's schedule columns
  ticks,     \* what each process is doing, the row it read and when
  edits,     \* how many changes the admin has made
  started,   \* history: the last day that counts as started, how often that day
  lost,      \* history: the last day claimed without a rollcall
  waived,    \* history: the last day whose slot had passed when it was set
  since,     \* history: when the slot was set or switched on
  until      \* history: the expiry the admin set

vars == << clock, row, ticks, edits, started, lost, waived, since, until >>

NoDate == 0
NoSlot == -1
\* The clock starts late enough for every day looked back to, to be a date.
Day(t)    == CatchupDays + 1 + t \div SlotsPerDay
At(d, s)  == (d - CatchupDays - 1) * SlotsPerDay + s.slot
Today     == Day(clock)
OneYear   == Day(LastTime) + 1
Latest(S) == Max(S \cup {NoDate})
Later(c, d) == IF c > d THEN c ELSE d

-----------------------------------------------------------------------------
(***************************************************************************)
(* When a schedule is due.                                                 *)
(***************************************************************************)
Weekday(d)     == d % WeekLength
MonthBefore(d) == Latest({e \in MonthEnds : e < d})
MonthLength(d) == Min({e \in MonthEnds : e >= d}) - MonthBefore(d)

\* Day 31 of a shorter month is its last day.
OnItsDay(s, d) ==
  \/ s.rec = "daily"
  \/ s.rec \in {"weekly", "biweekly"} /\ Weekday(d) = s.day
  \/ s.rec = "monthly" /\ d - MonthBefore(d) = Min({s.day, MonthLength(d)})

MatchesRecurrence(s, d) ==
  /\ OnItsDay(s, d)
  /\ s.rec = "biweekly" /\ s.last # NoDate => d - s.last >= 2 * WeekLength

IsDueNow(s, t) ==
  /\ s.last # Day(t)
  /\ t - At(Day(t), s) \in 0..Window
  /\ MatchesRecurrence(s, Day(t))

\* Slip: only a stamp of that very day counts as its start.
MissedUnlessEqual(s, t) ==
  /\ s.rec = "weekly"
  /\ \E d \in (Day(t) - CatchupDays)..Day(t) :
       Weekday(d) = s.day /\ s.last # d /\ t > At(d, s)

\* Slip: yesterday is already too late.
NeverMissed(s, t) == FALSE

\* A weekly start that an outage or a full chat swallowed is made up for.
MissedWithinDays(s, t) ==
  /\ s.rec = "weekly"
  /\ \E d \in (Day(t) - CatchupDays)..Day(t) :
       Weekday(d) = s.day /\ s.last < d /\ t > At(d, s)

\* Slip: the schedule runs one day too long.
ExpiredLate(s, t) == s.expires # NoDate /\ Day(t) > s.expires + 1

Due(s, t)     == IsDueNow(s, t) \/ MissedWithinDays(s, t)
Expired(s, t) == s.expires # NoDate /\ Day(t) > s.expires

(***************************************************************************)
(* What the stamp becomes when an admin changes the schedule.              *)
(***************************************************************************)
\* Slip: a slot set now may owe a start from before it existed.
NoStaleOccurrence(s, t) == NoDate

\* A week is longer than the days looked back on: at most one such day.
StaleOccurrence(s, t) ==
  LET stale == {d \in (Day(t) - CatchupDays)..Day(t) :
                  /\ s.rec = "weekly" /\ s.slot # NoSlot
                  /\ Weekday(d) = s.day /\ t - At(d, s) > Window}
  IN  IF stale = {} THEN NoDate ELSE CHOOSE d \in stale : TRUE

SameSlot(old, new) ==
  old.on /\ << old.rec, old.day, old.slot >> = << new.rec, new.day, new.slot >>

\* Slip: every save forgets the stamp.
ForgetFired(old, new, t, firedToday) == NoDate

LastFired(old, new, t, firedToday) ==
  Later(old.last, Later(IF firedToday THEN Day(t) ELSE NoDate,
                        IF SameSlot(old, new) THEN NoDate ELSE StaleOccurrence(new, t)))

-----------------------------------------------------------------------------
Blank == [rec |-> "weekly", day |-> 0, slot |-> NoSlot, on |-> FALSE, exists |-> TRUE,
          expires |-> NoDate, last |-> NoDate]
Idle == [doing |-> "idle", row |-> Blank, at |-> 0]
Started(d) == [day |-> d, times |-> IF started.day = d THEN started.times + 1 ELSE 1]

Change ==
  /\ row.exists /\ edits < MaxEdits
  /\ edits' = edits + 1
  /\ UNCHANGED << clock, ticks, lost >>

\* A slot counts from now on.
Waive(new) ==
  /\ since' = clock
  /\ waived' = Later(waived, StaleOccurrence(new, clock))

\* set_schedule, for a year unless told otherwise; `byHand` after /src or
\* /repeat with repeat=, which has just started today's rollcall.
SetSchedule(s, byHand) ==
  /\ Change
  /\ byHand => s.expires = OneYear /\ clock = At(Today, s) /\ OnItsDay(s, Today)
  /\ LET new == [row EXCEPT !.rec = s.rec, !.day = s.day, !.slot = s.slot, !.on = TRUE,
                            !.expires = s.expires]
     IN  /\ row' = [new EXCEPT !.last = LastFired(row, new, clock, byHand)]
         /\ IF SameSlot(row, new) THEN UNCHANGED << since, waived >> ELSE Waive(new)
  /\ until' = s.expires
  /\ started' = IF byHand /\ started.day # Today THEN Started(Today) ELSE started

DisableSchedule ==
  /\ Change
  /\ row' = [row EXCEPT !.on = FALSE]
  /\ UNCHANGED << started, waived, since, until >>

EnableSchedule ==
  /\ Change
  /\ row' = IF row.on THEN row
            ELSE [row EXCEPT !.on = TRUE, !.last = LastFired(row, row, clock, FALSE)]
  /\ IF row.on THEN UNCHANGED << since, waived >> ELSE Waive(row)
  /\ UNCHANGED << started, until >>

\* Slip: the row is replaced, and its schedule with it.
ReplaceRow ==
  /\ Change
  /\ row' = Blank
  /\ UNCHANGED << started, waived, since, until >>

\* upsert_template: SQLite replaces the row and names every schedule column
\* but the expiry.
UpsertTemplate ==
  /\ Change
  /\ row' = IF Sqlite THEN [row EXCEPT !.expires = NoDate] ELSE row
  /\ UNCHANGED << started, waived, since, until >>

DeleteTemplate ==
  /\ Change
  /\ row' = [row EXCEPT !.exists = FALSE, !.on = FALSE]
  /\ UNCHANGED << started, waived, since, until >>

(***************************************************************************)
(* The tick.                                                               *)
(***************************************************************************)
\* A process dies, whatever it was doing, and comes back; start-up gives a
\* schedule without an end another year.
Restart(p) ==
  /\ ticks' = [ticks EXCEPT ![p] = Idle]
  /\ row' = IF row.on /\ row.expires = NoDate THEN [row EXCEPT !.expires = OneYear] ELSE row
  /\ UNCHANGED << clock, edits, started, lost, waived, since, until >>

ReadTemplates(p) ==
  /\ ticks[p].doing = "idle" /\ row.on /\ row.slot # NoSlot
  /\ ticks' = [ticks EXCEPT ![p] = [doing |-> "tick", row |-> row, at |-> clock]]
  /\ UNCHANGED << clock, row, edits, started, lost, waived, since, until >>

\* The template's turn, on the row that was read.
Turn(p) ==
  /\ ticks[p].doing = "tick"
  /\ ticks' = [ticks EXCEPT ![p] = Idle]
  /\ UNCHANGED << clock, edits, waived, since, until >>

ExpireSchedule(p) ==
  /\ Expired(ticks[p].row, clock)
  /\ row' = [row EXCEPT !.on = FALSE]
  /\ Turn(p)
  /\ UNCHANGED << started, lost >>

PassOver(p) ==
  /\ ~Expired(ticks[p].row, clock) /\ ~Due(ticks[p].row, clock)
  /\ UNCHANGED << row, started, lost >>
  /\ Turn(p)

\* Three rollcalls are open: no stamp, the next tick looks again.
ChatIsFull(p) ==
  /\ ~Expired(ticks[p].row, clock) /\ Due(ticks[p].row, clock)
  /\ UNCHANGED << row, started, lost >>
  /\ Turn(p)

\* Slip: the stamp is written without a look at what it was.
ClaimAlways(s) == row.exists

\* update_template_last_scheduled_date: whoever stamps the day first starts.
Claim(s) == row.exists /\ row.last # Today

AutoStart(p) ==
  /\ ~Expired(ticks[p].row, clock) /\ Due(ticks[p].row, clock)
  /\ IF Claim(ticks[p].row)
     THEN /\ row' = [row EXCEPT !.last = Today]
          \* The rollcall is created, or its creation fails or the process dies.
          /\ \/ started' = Started(Today) /\ UNCHANGED lost
             \/ lost' = Today /\ UNCHANGED started
     ELSE UNCHANGED << row, started, lost >>
  /\ Turn(p)

Pass ==
  /\ clock < LastTime
  /\ \A p \in Schedulers : ticks[p].doing = "tick" => clock - ticks[p].at < MaxHold
  /\ clock' = clock + 1
  /\ UNCHANGED << row, ticks, edits, started, lost, waived, since, until >>

Init ==
  /\ clock = 0 /\ edits = 0
  /\ row = Blank
  /\ ticks = [p \in Schedulers |-> Idle]
  /\ started = [day |-> NoDate, times |-> 0]
  /\ lost = NoDate /\ waived = NoDate /\ since = 0 /\ until = OneYear

AdminStep ==
  \/ \E s \in Schedules, byHand \in BOOLEAN : SetSchedule(s, byHand)
  \/ DisableSchedule \/ EnableSchedule \/ UpsertTemplate \/ DeleteTemplate

TickStep(p) ==
  \/ Restart(p) \/ ReadTemplates(p)
  \/ ExpireSchedule(p) \/ PassOver(p) \/ ChatIsFull(p) \/ AutoStart(p)

Next == AdminStep \/ Pass \/ \E p \in Schedulers : TickStep(p)

Spec == Init /\ [][Next]_vars

-----------------------------------------------------------------------------
TypeOK ==
  /\ clock \in 0..LastTime /\ edits \in 0..MaxEdits
  /\ << row.rec, row.day, row.slot >> \in
       {<< s.rec, s.day, s.slot >> : s \in Schedules} \cup {<< "weekly", 0, NoSlot >>}
  /\ row.on => row.exists
  /\ row.last \in started.day..Today
  /\ started.day \in 0..Today /\ lost \in 0..Today
  /\ \A p \in Schedulers : ticks[p].doing \in {"idle", "tick"}

\* The stamp is "what stops two overlapping scheduler processes from both
\* auto-starting the same occurrence": at most one start a day, counting the
\* one made by hand, whoever ticks, dies or saves the schedule meanwhile.
OncePerDay == started.times <= 1

\* p starts the rollcall; the row p read is the row there is.
Read(p)   == ticks[p].row
Fresh(p)  == row.on /\ row = Read(p)
Done(p)   == ticks[p].doing = "tick" /\ ticks'[p].doing = "idle"
Starts(p) == Done(p) /\ started' # started

\* A weekly occurrence is started once, in time or as a catch-up ("Sunday
\* fired Monday 00:00 and then again Tuesday 00:00"), and two biweekly starts
\* are two weeks apart, however often the schedule is saved in between.
SpacedOut ==
  [][\A p \in Schedulers : Starts(p) /\ Fresh(p) /\ started.day # NoDate =>
       /\ Read(p).rec = "biweekly" => Today - started.day >= 2 * WeekLength
       /\ Read(p).rec = "weekly" =>
            \E d \in (started.day + 1)..Today : Weekday(d) = Read(p).day]_vars

\* "A slot configured now doesn't owe a catch-up fire for a moment that passed
\* before it existed": a start is at most Window late, or makes up for a
\* weekly slot of the last days that was on at the time.
NotTooLate ==
  [][\A p \in Schedulers : Starts(p) /\ Fresh(p) =>
       \E d \in (Today - CatchupDays)..Today :
         /\ clock >= At(d, row) /\ At(d, row) + Window >= since
         /\ row.rec = "weekly" \/ (d = Today /\ clock - At(d, row) <= Window)]_vars

\* A weekly slot of the last days, while its schedule was on, that neither
\* started nor was lost to a crash, nor fell on a day whose earlier slot had
\* passed when it was set (a stamp never goes back: that day is gone).
Owed ==
  /\ row.on /\ row.rec = "weekly" /\ ~Expired(row, clock)
  /\ \E d \in (Today - CatchupDays)..Today :
       /\ Weekday(d) = row.day /\ clock > At(d, row) /\ At(d, row) >= since
       /\ started.day < d /\ lost < d /\ waived < d

\* Once a tick has had its turn with room for a rollcall, nothing is owed.
MissedIsMadeUp ==
  [][\A p \in Schedulers :
       Done(p) /\ Fresh(p) /\ (PassOver(p) \/ AutoStart(p)) => ~Owed']_vars

\* "So a schedule can never be silently left running": nothing starts by
\* itself after the day the admin set.
ExpiryHonoured ==
  [][\A p \in Schedulers : Starts(p) /\ Fresh(p) => Today <= until]_vars

\* Nothing starts by itself but what the schedule asks for: each occurrence
\* once, none from before the schedule, none after its last day.
StartsAreDue == SpacedOut /\ NotTooLate /\ ExpiryHonoured

\* What was set comes about: starts that are due, and those that were missed.
ScheduleKept == StartsAreDue /\ MissedIsMadeUp
=============================================================================
