----------------------- MODULE TemplateScheduleProofs -----------------------
(***************************************************************************)
(* Proofs about TemplateSchedule for any schedules, calendar, window,      *)
(* bounds and number of scheduler processes, then about TemplateDesk for   *)
(* any saves: the stamp never runs behind the last start nor ahead of the  *)
(* clock, so a day is started once; why the stamp is where it is, so       *)
(* nothing starts twice or too late and nothing missed is forgotten.       *)
(***************************************************************************)
EXTENDS TemplateDesk, DataLemmas

Row == [rec : {"daily", "weekly", "biweekly", "monthly"}, day : Nat,
        slot : Int, on : BOOLEAN, exists : BOOLEAN, expires : Nat, last : Nat]

\* The inductive invariant.
Inv ==
  /\ clock \in Nat /\ row \in Row
  /\ started \in [day : Nat, times : Nat]
  /\ started.day <= row.last /\ row.last <= Today
  /\ started.times <= 1

\* A day is a date, and later is not an earlier day.
LEMMA DayFacts ==
  ASSUME NEW t \in Nat
  PROVE  Day(t) \in Nat /\ Day(t) <= Day(t + 1)
<1> DEFINE n == SlotsPerDay
           q == t \div n
           r == (t + 1) \div n
<1>1. n \in Nat /\ n > 0 /\ CatchupDays \in Nat
  BY CalendarAssumption
<1>2. q \in Nat /\ r \in Nat
  BY <1>1
<1>3. n * q <= t /\ t + 1 < n * r + n
  BY <1>1
<1> HIDE DEF n, q, r
<1>4. q <= r
  <2>1. SUFFICES ASSUME r + 1 <= q PROVE FALSE
    BY <1>2
  <2>2. n * (r + 1) <= n * q
    BY <1>1, <1>2, <2>1
  <2>3. n * (r + 1) = n * r + n
    BY <1>1, <1>2
  <2> QED  BY <1>1, <1>2, <1>3, <2>2, <2>3
<1> QED  BY <1>1, <1>2, <1>4 DEF Day, q, r, n

\* A set of schedules, and what an admin may set.
LEMMA ScheduleFacts ==
  /\ OneYear \in Nat
  /\ \A s \in Schedules :
       /\ s.rec \in {"daily", "weekly", "biweekly", "monthly"} /\ s.day \in Nat
       /\ s.slot \in Int /\ s.expires \in Nat
<1>1. LastTime \in Nat
  BY CalendarAssumption
<1>2. OneYear \in Nat
  BY <1>1, DayFacts DEF OneYear
<1> QED  BY <1>2, ScheduleAssumption

\* Whatever is saved, the stamp never goes back and never lies ahead; a start
\* by hand is stamped with its own day, a slot set too late with the day gone.
LEMMA LastFiredFacts ==
  ASSUME NEW old \in Row, NEW new, NEW t \in Nat, NEW firedToday \in BOOLEAN, old.last <= Day(t)
  PROVE  LET f  == LastFired(old, new, t, firedToday)
             st == StaleOccurrence(new, t)
         IN  /\ f \in Nat /\ st \in Nat /\ old.last <= f /\ f <= Day(t)
             /\ f = old.last \/ (f = Day(t) /\ firedToday) \/ (f = st /\ ~SameSlot(old, new))
             /\ ~SameSlot(old, new) => st <= f
             /\ firedToday => f = Day(t)
<1> DEFINE st == StaleOccurrence(new, t)
           stale == {d \in (Day(t) - CatchupDays)..Day(t) :
                       /\ new.rec = "weekly" /\ new.slot # NoSlot
                       /\ Weekday(d) = new.day /\ t - At(d, new) > Window}
<1>1. Day(t) \in Nat /\ old.last \in Nat /\ CatchupDays \in Nat
  BY DayFacts, CalendarAssumption DEF Row
<1>2. Day(t) - CatchupDays \in Nat
  BY <1>1, CalendarAssumption DEF Day
<1>3. st \in 0..Day(t)
  <2>1. CASE stale = {}
    BY <2>1, <1>1 DEF StaleOccurrence, NoDate
  <2>2. CASE stale # {}
    <3>1. st \in stale
      BY <2>2 DEF StaleOccurrence
    <3> HIDE DEF st
    <3> QED  BY <3>1, <1>1, <1>2
  <2> QED  BY <2>1, <2>2
<1> HIDE DEF st
<1>4. LastFired(old, new, t, firedToday) =
        Later(old.last, Later(IF firedToday THEN Day(t) ELSE NoDate,
                              IF SameSlot(old, new) THEN NoDate ELSE st))
  BY DEF LastFired, st
<1>5. st \in Nat /\ st <= Day(t)
  BY <1>1, <1>3
<1>6. CASE SameSlot(old, new)
  BY <1>1, <1>4, <1>5, <1>6 DEF Later, NoDate, st
<1>7. CASE ~SameSlot(old, new)
  BY <1>1, <1>4, <1>5, <1>7 DEF Later, NoDate, st
<1> QED  BY <1>6, <1>7

LEMMA InitInv == Init => Inv
<1> SUFFICES ASSUME Init PROVE Inv
  OBVIOUS
<1>1. Today \in Nat /\ clock \in Nat
  BY DayFacts DEF Init, Today
<1>2. row \in Row /\ row.last = 0
  BY DEF Init, Blank, Row, NoDate, NoSlot
<1>3. started \in [day : Nat, times : Nat] /\ started.day = 0 /\ started.times = 0
  BY DEF Init, NoDate
<1> QED  BY <1>1, <1>2, <1>3 DEF Inv

\* A start on a day without one is that day's first.
LEMMA StartedFacts ==
  ASSUME Inv, started.day # Today
  PROVE  Started(Today) = [day |-> Today, times |-> 1]
BY DEF Started

LEMMA NextInv == Inv /\ [Next]_vars => Inv'
<1> SUFFICES ASSUME Inv, [Next]_vars PROVE Inv'
  OBVIOUS
<1>0. /\ clock \in Nat /\ row \in Row /\ Today \in Nat
      /\ started \in [day : Nat, times : Nat]
      /\ started.day <= row.last /\ row.last <= Today /\ started.times <= 1
      /\ {row.last, started.day, started.times} \subseteq Nat
  BY DayFacts DEF Inv, Today, Row
<1>t. clock' = clock => Today' = Today
  BY DEF Today, Day
\* Neither the clock nor the stamp nor the starts: nothing to show.
<1>a. ASSUME UNCHANGED << clock, started >>, row' \in Row, row'.last = row.last
      PROVE  Inv'
  BY <1>0, <1>t, <1>a DEF Inv
<1>1. ASSUME NEW s \in Schedules, NEW byHand \in BOOLEAN, SetSchedule(s, byHand)
      PROVE  Inv'
  <2> DEFINE new  == [row EXCEPT !.rec = s.rec, !.day = s.day, !.slot = s.slot, !.on = TRUE,
                                 !.expires = s.expires]
             last == LastFired(row, new, clock, byHand)
  <2>1. /\ last \in Nat /\ row.last <= last /\ last <= Today
        /\ byHand => last = Today
    BY <1>0, LastFiredFacts DEF Today
  <2>2. new \in Row
    BY <1>0, ScheduleFacts DEF Row
  <2>3. row' = [new EXCEPT !.last = last] /\ clock' = clock
    BY <1>1 DEF SetSchedule, Change
  <2>4. started' = IF byHand /\ started.day # Today THEN Started(Today) ELSE started
    BY <1>1 DEF SetSchedule
  <2> HIDE DEF new, last
  <2>5. row' \in Row /\ row'.last = last
    BY <2>1, <2>2, <2>3 DEF Row
  <2>6. CASE byHand /\ started.day # Today
    <3>1. started' = [day |-> Today, times |-> 1]
      BY <2>4, <2>6, StartedFacts
    <3> QED  BY <1>0, <1>t, <2>1, <2>3, <2>5, <2>6, <3>1 DEF Inv
  <2>7. CASE ~(byHand /\ started.day # Today)
    <3>1. started' = started
      BY <2>4, <2>7
    <3> QED  BY <1>0, <1>t, <2>1, <2>3, <2>5, <3>1 DEF Inv
  <2> QED  BY <2>6, <2>7
<1>2. CASE DisableSchedule
  BY <1>0, <1>2, <1>a DEF DisableSchedule, Change, Row
<1>3. CASE EnableSchedule
  <2> DEFINE last == LastFired(row, row, clock, FALSE)
  <2>1. last \in Nat /\ row.last <= last /\ last <= Today
    BY <1>0, LastFiredFacts DEF Today
  <2>2. clock' = clock /\ started' = started
    BY <1>3 DEF EnableSchedule, Change
  <2>3. row' = IF row.on THEN row ELSE [row EXCEPT !.on = TRUE, !.last = last]
    BY <1>3 DEF EnableSchedule
  <2> HIDE DEF last
  <2>4. row' \in Row /\ (row'.last = row.last \/ row'.last = last)
    BY <1>0, <2>1, <2>3 DEF Row
  <2> QED  BY <1>0, <1>t, <2>1, <2>2, <2>4 DEF Inv
<1>4. CASE UpsertTemplate
  BY <1>0, <1>4, <1>a DEF UpsertTemplate, Change, Row, NoDate
<1>5. CASE DeleteTemplate
  BY <1>0, <1>5, <1>a DEF DeleteTemplate, Change, Row
<1>6. CASE Pass
  <2>1. clock' = clock + 1 /\ UNCHANGED << row, started >>
    BY <1>6 DEF Pass
  <2>2. Today' \in Nat /\ Today <= Today'
    BY <1>0, <2>1, DayFacts DEF Today
  <2> QED  BY <1>0, <2>1, <2>2 DEF Inv
<1>7. ASSUME NEW p \in Schedulers, TickStep(p) PROVE Inv'
  <2>1. CASE Restart(p)
    BY <1>0, <1>a, <2>1, ScheduleFacts DEF Restart, Row
  <2>2. CASE ReadTemplates(p)
    BY <1>0, <1>a, <2>2 DEF ReadTemplates
  <2>3. CASE ExpireSchedule(p)
    BY <1>0, <1>a, <2>3 DEF ExpireSchedule, Turn, Row
  <2>4. CASE PassOver(p) \/ ChatIsFull(p)
    BY <1>0, <1>a, <2>4 DEF PassOver, ChatIsFull, Turn
  <2>5. CASE AutoStart(p)
    <3>1. clock' = clock
      BY <2>5 DEF AutoStart, Turn
    <3>2. CASE Claim(ticks[p].row)
      <4>1. /\ row' = [row EXCEPT !.last = Today] /\ row.last # Today
            /\ started' = Started(Today) \/ started' = started
        BY <2>5, <3>2 DEF AutoStart, Claim
      <4>2. row' \in Row /\ row'.last = Today
        BY <1>0, <4>1 DEF Row
      <4>3. started.day # Today
        BY <1>0, <4>1
      <4>4. Started(Today) = [day |-> Today, times |-> 1]
        BY <4>3, StartedFacts
      <4> QED  BY <1>0, <1>t, <3>1, <4>1, <4>2, <4>4 DEF Inv
    <3>3. CASE ~Claim(ticks[p].row)
      BY <1>0, <1>a, <2>5, <3>1, <3>3 DEF AutoStart
    <3> QED  BY <3>2, <3>3
  <2> QED  BY <1>7, <2>1, <2>2, <2>3, <2>4, <2>5 DEF TickStep
<1>8. CASE UNCHANGED vars
  BY <1>0, <1>8, <1>a DEF vars
<1> QED  BY <1>1, <1>2, <1>3, <1>4, <1>5, <1>6, <1>7, <1>8 DEF Next, AdminStep

\* The stamp lies between the last start and today, and that start was its
\* day's only one, whoever ticks, dies, edits or reads an old row.
THEOREM StampBetween == Spec => []Inv
<1> QED  BY InitInv, NextInv, PTL DEF Spec

\* update_template_last_scheduled_date: no two processes start the same day's
\* rollcall, and none starts what was started by hand that day.
THEOREM StartedOnce == Spec => []OncePerDay
<1>1. Inv => OncePerDay
  BY DEF Inv, OncePerDay
<1> QED  BY <1>1, StampBetween, PTL

-----------------------------------------------------------------------------
(***************************************************************************)
(* What comes about.  Beside Inv: why the stamp is where it is, and that   *)
(* no slot is owed from before it was set.                                 *)
(***************************************************************************)
\* The stamp is a start's, a lost start's, or a slot's set too late.
StampExplained == row.last <= started.day \/ row.last <= lost \/ row.last <= waived

SlotTyped == row.slot \in 0..(SlotsPerDay - 1) \cup {NoSlot}

\* A day of the last ones whose slot was more than Window past at t.
Passed(s, d, t) ==
  /\ Day(t) - CatchupDays <= d /\ d <= Day(t)
  /\ Weekday(d) = s.day /\ t - At(d, s) > Window

PassedAreStamped ==
  row.on /\ row.rec = "weekly" /\ row.slot # NoSlot =>
    \A d \in Nat : Passed(row, d, since) => d <= row.last

TicksTyped ==
  /\ ticks \in [Schedulers -> [doing : {"idle", "tick"}, row : Row, at : Nat]]
  /\ \A p \in Schedulers : ticks[p].doing = "tick" => ticks[p].row.slot # NoSlot

KeptInv ==
  /\ clock <= LastTime /\ since \in Nat /\ since <= clock
  /\ lost \in Nat /\ waived \in Nat
  /\ row.on => row.exists
  /\ StampExplained /\ SlotTyped /\ PassedAreStamped /\ TicksTyped

\* The expiry a row carries is the one that was set: SQLite's save, which
\* drops it, aside.
ExpiryInv ==
  /\ until \in Nat /\ until # NoDate
  /\ row.expires = until \/ (row.expires = NoDate /\ until = OneYear)

-----------------------------------------------------------------------------
\* Fewer days apart than a week, two days with the same name are one.
LEMMA WeekdayUnique ==
  ASSUME NEW a \in Nat, NEW b \in Nat, a <= b, b - a < WeekLength, Weekday(a) = Weekday(b)
  PROVE  a = b
<1> DEFINE n == WeekLength
           q == a \div n
           r == b \div n
           m == a % n
<1>1. n \in Nat /\ n > 0
  BY CalendarAssumption
<1>2. q \in Nat /\ r \in Nat /\ m \in Nat
  BY <1>1
<1>3. a = n * q + m /\ b = n * r + m
  BY <1>1 DEF Weekday
<1>4. b - a < n /\ a <= b
  OBVIOUS
<1> HIDE DEF n, q, r, m
<1>5. ~(q + 1 <= r)
  <2> SUFFICES ASSUME q + 1 <= r PROVE FALSE
    OBVIOUS
  <2>1. n * (q + 1) <= n * r
    BY <1>1, <1>2
  <2>2. n * (q + 1) = n * q + n
    BY <1>1, <1>2
  <2>3. n * q \in Nat /\ n * r \in Nat
    BY <1>1, <1>2
  <2> HIDE DEF n
  <2> QED  BY <1>1, <1>2, <1>3, <1>4, <2>1, <2>2, <2>3
<1>6. ~(r + 1 <= q)
  <2> SUFFICES ASSUME r + 1 <= q PROVE FALSE
    OBVIOUS
  <2>1. n * (r + 1) <= n * q
    BY <1>1, <1>2
  <2>2. n * (r + 1) = n * r + n
    BY <1>1, <1>2
  <2>3. n * q \in Nat /\ n * r \in Nat
    BY <1>1, <1>2
  <2> QED  BY <1>1, <1>2, <1>3, <1>4, <2>1, <2>2, <2>3
<1>7. q = r
  BY <1>2, <1>5, <1>6
<1> QED  BY <1>3, <1>7

\* A later moment is not on an earlier day.
LEMMA DayMonotone ==
  ASSUME NEW t \in Nat, NEW u \in Nat, t <= u
  PROVE  Day(t) <= Day(u)
<1> DEFINE n == SlotsPerDay
           q == t \div n
           r == u \div n
<1>1. n \in Nat /\ n > 0 /\ CatchupDays \in Nat
  BY CalendarAssumption
<1>2. q \in Nat /\ r \in Nat
  BY <1>1
<1>3. n * q <= t /\ u < n * r + n
  BY <1>1
<1> HIDE DEF n, q, r
<1>4. q <= r
  <2>1. SUFFICES ASSUME r + 1 <= q PROVE FALSE
    BY <1>2
  <2>2. n * (r + 1) <= n * q
    BY <1>1, <1>2, <2>1
  <2>3. n * (r + 1) = n * r + n
    BY <1>1, <1>2
  <2> QED  BY <1>1, <1>2, <1>3, <2>2, <2>3
<1> QED  BY <1>1, <1>2, <1>4 DEF Day, q, r, n

\* A slot lies on its day: what is past is not on a day to come.
LEMMA SlotOnItsDay ==
  ASSUME NEW t \in Nat, NEW d \in Nat, NEW s, s.slot \in Nat, At(d, s) <= t, CatchupDays + 1 <= d
  PROVE  d <= Day(t) /\ At(d, s) \in Int
<1> DEFINE n == SlotsPerDay
           q == t \div n
           k == d - CatchupDays - 1
<1>1. n \in Nat /\ n > 0 /\ CatchupDays \in Nat
  BY CalendarAssumption
<1>2. q \in Nat /\ k \in Nat /\ k * n \in Nat
  BY <1>1
<1>3. t < n * q + n /\ k * n + s.slot <= t
  BY <1>1 DEF At
<1>4. k * n + s.slot \in Int
  BY <1>2
<1> HIDE DEF n, q, k
<1>5. k <= q
  <2>1. SUFFICES ASSUME q + 1 <= k PROVE FALSE
    BY <1>2
  <2>2. n * (q + 1) <= n * k
    BY <1>1, <1>2, <2>1
  <2>3. n * (q + 1) = n * q + n /\ n * k = k * n
    BY <1>1, <1>2
  <2>4. n * q \in Nat
    BY <1>1, <1>2
  <2> QED  BY <1>1, <1>2, <1>3, <2>2, <2>3, <2>4
<1> QED  BY <1>1, <1>2, <1>4, <1>5 DEF Day, At, q, n, k

\* Of a weekly slot one day at most is passed, and it is the one stamped.
LEMMA PassedIsStale ==
  ASSUME NEW t \in Nat, NEW s, s.rec = "weekly", s.slot # NoSlot, NEW d \in Nat, Passed(s, d, t)
  PROVE  StaleOccurrence(s, t) = d
<1> DEFINE stale == {e \in (Day(t) - CatchupDays)..Day(t) :
                       /\ s.rec = "weekly" /\ s.slot # NoSlot
                       /\ Weekday(e) = s.day /\ t - At(e, s) > Window}
<1>1. Day(t) \in Nat /\ CatchupDays \in Nat /\ WeekLength \in Nat /\ CatchupDays < WeekLength
  BY DayFacts, CalendarAssumption
<1>2. d \in stale
  BY <1>1 DEF Passed
<1>3. ASSUME NEW e \in stale PROVE e = d
  <2>1. e \in Nat /\ Weekday(e) = Weekday(d)
    BY <1>1, CalendarAssumption DEF Passed, Day
  <2>2. Day(t) - CatchupDays <= e /\ e <= Day(t) /\ Day(t) - CatchupDays <= d /\ d <= Day(t)
    BY <1>1 DEF Passed
  <2>3. e - d < WeekLength /\ d - e < WeekLength /\ (e <= d \/ d <= e)
    BY <1>1, <2>1, <2>2
  <2> QED  BY <2>1, <2>3, WeekdayUnique
<1>4. StaleOccurrence(s, t) = CHOOSE e \in stale : TRUE
  BY <1>2 DEF StaleOccurrence
<1> QED  BY <1>2, <1>3, <1>4

\* What Inv says of the numbers.
LEMMA InvFacts ==
  ASSUME Inv
  PROVE  /\ clock \in Nat /\ row \in Row /\ Today \in Nat
         /\ started \in [day : Nat, times : Nat]
         /\ started.day <= row.last /\ row.last <= Today
         /\ {row.last, row.day, row.expires, started.day} \subseteq Nat
BY DayFacts DEF Inv, Row, Today

\* A step that leaves stamp, slot and history alone.
LEMMA KeptUnchanged ==
  ASSUME Inv, KeptInv, UNCHANGED << since, lost, waived, started >>,
         clock' = clock \/ (clock' = clock + 1 /\ clock' <= LastTime),
         row'.last = row.last, row'.slot = row.slot, row'.rec = row.rec, row'.day = row.day,
         row'.on => row.on, row'.on => row'.exists, TicksTyped'
  PROVE  KeptInv'
<1>1. clock \in Nat
  BY InvFacts
<1>2. since <= clock' /\ clock' <= LastTime
  BY <1>1 DEF KeptInv
<1>3. StampExplained'
  BY DEF KeptInv, StampExplained
<1>4. SlotTyped'
  BY DEF KeptInv, SlotTyped
<1>5. \A d, t : Passed(row', d, t) <=> Passed(row, d, t)
  BY DEF Passed, At
<1>6. PassedAreStamped'
  BY <1>5 DEF KeptInv, PassedAreStamped
<1> QED  BY <1>2, <1>3, <1>4, <1>6 DEF KeptInv

\* Setting a slot or switching it on: the new row keeps what KeptInv asks.
LEMMA KeptBySetting ==
  ASSUME Inv, KeptInv, NEW new \in Row, NEW fired \in BOOLEAN,
         new.on, new.exists, new.slot \in 0..(SlotsPerDay - 1) \cup {NoSlot},
         UNCHANGED << clock, lost, ticks >>,
         row' = [new EXCEPT !.last = LastFired(row, new, clock, fired)],
         IF SameSlot(row, new) THEN UNCHANGED << since, waived >> ELSE Waive(new),
         started.day <= started'.day, started'.day \in Nat, fired => started'.day = Today
  PROVE  KeptInv'
<1> DEFINE f == LastFired(row, new, clock, fired)
           st == StaleOccurrence(new, clock)
<1>0. /\ clock \in Nat /\ row \in Row /\ Today \in Nat /\ row.last <= Today
      /\ {row.last, started.day} \subseteq Nat
  BY InvFacts
<1>1. /\ f \in Nat /\ st \in Nat /\ row.last <= f /\ f <= Today
      /\ f = row.last \/ (f = Today /\ fired) \/ (f = st /\ ~SameSlot(row, new))
      /\ ~SameSlot(row, new) => st <= f
  BY <1>0, LastFiredFacts DEF Today
<1> HIDE DEF f
<1>2. /\ row'.last = f /\ row'.slot = new.slot /\ row'.rec = new.rec /\ row'.day = new.day
      /\ row'.on /\ row'.exists
  <2>1. row' = [new EXCEPT !.last = f]
    BY DEF f
  <2>2. /\ row'.last = f /\ row'.slot = new.slot /\ row'.rec = new.rec /\ row'.day = new.day
        /\ row'.on = new.on /\ row'.exists = new.exists
    BY <2>1 DEF Row
  <2> QED  BY <2>2
<1>3. StampExplained' /\ waived' \in Nat /\ since' \in Nat /\ since' <= clock'
  <2>1. CASE SameSlot(row, new)
    BY <1>0, <1>1, <1>2, <2>1 DEF KeptInv, StampExplained
  <2>2. CASE ~SameSlot(row, new)
    <3>1. since' = clock /\ waived' = Later(waived, st)
      BY <2>2 DEF Waive
    <3> HIDE DEF st
    <3>2. waived' \in Nat /\ waived <= waived' /\ st <= waived'
      BY <1>1, <3>1 DEF KeptInv, Later
    <3> QED  BY <1>0, <1>1, <1>2, <2>2, <3>1, <3>2 DEF KeptInv, StampExplained
  <2> QED  BY <2>1, <2>2
<1>4. SlotTyped'
  BY <1>2 DEF SlotTyped
<1>5. \A d, t : Passed(row', d, t) <=> Passed(new, d, t)
  BY <1>2 DEF Passed, At
<1>6. ASSUME new.rec = "weekly", new.slot # NoSlot, NEW d \in Nat, Passed(new, d, since')
      PROVE  d <= f
  <2>1. CASE SameSlot(row, new)
    <3>1. row.on /\ row.rec = new.rec /\ row.day = new.day /\ row.slot = new.slot /\ since' = since
      BY <2>1 DEF SameSlot
    <3>2. Passed(row, d, since)
      BY <1>6, <3>1 DEF Passed, At
    <3>3. d <= row.last
      BY <1>6, <3>1, <3>2 DEF KeptInv, PassedAreStamped
    <3> QED  BY <1>0, <1>1, <3>3
  <2>2. CASE ~SameSlot(row, new)
    <3>1. since' = clock
      BY <2>2 DEF Waive
    <3>2. st = d
      BY <1>0, <1>6, <3>1, PassedIsStale
    <3> QED  BY <1>1, <2>2, <3>2
  <2> QED  BY <2>1, <2>2
<1>7. PassedAreStamped'
  BY <1>2, <1>5, <1>6 DEF PassedAreStamped
<1>8. TicksTyped'
  BY DEF KeptInv, TicksTyped
<1> QED  BY <1>2, <1>3, <1>4, <1>7, <1>8 DEF KeptInv

LEMMA KeptInit == Init => KeptInv
<1> SUFFICES ASSUME Init PROVE KeptInv
  OBVIOUS
<1>1. LastTime \in Nat /\ SlotsPerDay \in Nat
  BY CalendarAssumption
<1>2. StampExplained /\ SlotTyped /\ PassedAreStamped
  BY DEF Init, Blank, StampExplained, SlotTyped, PassedAreStamped, NoDate
<1>3. TicksTyped
  <2>1. Idle \in [doing : {"idle", "tick"}, row : Row, at : Nat] /\ Idle.doing = "idle"
    BY DEF Idle, Blank, Row, NoSlot, NoDate
  <2> QED  BY <2>1 DEF Init, TicksTyped
<1> QED  BY <1>1, <1>2, <1>3 DEF Init, KeptInv, Blank, NoDate

\* A process that is done holds nothing.
LEMMA IdleTyped ==
  ASSUME TicksTyped, NEW p \in Schedulers, ticks' = [ticks EXCEPT ![p] = Idle]
  PROVE  TicksTyped'
<1>1. Idle \in [doing : {"idle", "tick"}, row : Row, at : Nat] /\ Idle.doing = "idle"
  BY DEF Idle, Blank, Row, NoSlot, NoDate
<1>2. ticks' \in [Schedulers -> [doing : {"idle", "tick"}, row : Row, at : Nat]]
  BY <1>1 DEF TicksTyped
<1>3. \A q \in Schedulers : ticks'[q].doing = "tick" => ticks'[q] = ticks[q]
  BY <1>1 DEF TicksTyped
<1> QED  BY <1>2, <1>3 DEF TicksTyped

LEMMA KeptNext == Inv /\ KeptInv /\ [Next]_vars => KeptInv'
<1> SUFFICES ASSUME Inv, KeptInv, [Next]_vars PROVE KeptInv'
  OBVIOUS
<1>0. /\ clock \in Nat /\ row \in Row /\ Today \in Nat
      /\ started \in [day : Nat, times : Nat]
      /\ started.day <= row.last /\ row.last <= Today
      /\ {row.last, row.day, row.expires, started.day} \subseteq Nat
  BY InvFacts
<1>t. UNCHANGED ticks => TicksTyped'
  BY DEF KeptInv, TicksTyped
<1>1. ASSUME NEW s \in Schedules, NEW byHand \in BOOLEAN, SetSchedule(s, byHand)
      PROVE  KeptInv'
  <2> DEFINE new == [row EXCEPT !.rec = s.rec, !.day = s.day, !.slot = s.slot, !.on = TRUE,
                                !.expires = s.expires]
  <2>1. new \in Row /\ new.on
    BY <1>0, ScheduleFacts DEF Row
  <2>2. new.exists = row.exists /\ new.slot = s.slot
    BY <1>0 DEF Row
  <2>3. s.slot \in 0..(SlotsPerDay - 1)
    BY ScheduleAssumption
  <2>4. /\ row' = [new EXCEPT !.last = LastFired(row, new, clock, byHand)]
        /\ IF SameSlot(row, new) THEN UNCHANGED << since, waived >> ELSE Waive(new)
        /\ row.exists /\ UNCHANGED << clock, lost, ticks >>
        /\ started' = IF byHand /\ started.day # Today THEN Started(Today) ELSE started
    BY <1>1 DEF SetSchedule, Change
  <2>5. /\ started.day <= started'.day /\ started'.day \in Nat
        /\ byHand => started'.day = Today
    <3>1. CASE byHand /\ started.day # Today
      BY <1>0, <2>4, <3>1 DEF Started
    <3>2. CASE ~(byHand /\ started.day # Today)
      BY <1>0, <2>4, <3>2
    <3> QED  BY <3>1, <3>2
  <2> HIDE DEF new
  <2>6. new.exists /\ new.slot \in 0..(SlotsPerDay - 1) \cup {NoSlot}
    BY <2>2, <2>3, <2>4
  <2> QED  BY <2>1, <2>4, <2>5, <2>6, KeptBySetting
<1>2. CASE DisableSchedule
  BY <1>0, <1>2, <1>t, KeptUnchanged DEF DisableSchedule, Change, Row
<1>3. CASE EnableSchedule
  <2>1. CASE row.on
    BY <1>0, <1>3, <1>t, <2>1, KeptUnchanged DEF EnableSchedule, Change, KeptInv
  <2>2. CASE ~row.on
    <3> DEFINE new == [row EXCEPT !.on = TRUE]
    <3>1. /\ row' = [row EXCEPT !.on = TRUE, !.last = LastFired(row, row, clock, FALSE)]
          /\ Waive(row) /\ row.exists /\ UNCHANGED << clock, lost, ticks, started >>
      BY <1>3, <2>2 DEF EnableSchedule, Change
    <3>2. new \in Row /\ new.on
      BY <1>0 DEF Row
    <3>3. /\ new.exists = row.exists /\ new.slot = row.slot /\ new.rec = row.rec
          /\ new.day = row.day
      BY <1>0 DEF Row
    <3>4. ~SameSlot(row, new) /\ ~SameSlot(row, row)
      BY <2>2 DEF SameSlot
    <3>5. \A d : At(d, new) = At(d, row)
      BY <3>3 DEF At
    <3>6. StaleOccurrence(new, clock) = StaleOccurrence(row, clock)
      <4> DEFINE stale(s) == {d \in (Day(clock) - CatchupDays)..Day(clock) :
                                /\ s.rec = "weekly" /\ s.slot # NoSlot
                                /\ Weekday(d) = s.day /\ clock - At(d, s) > Window}
      <4> HIDE DEF new
      <4>1. stale(new) = stale(row)
        BY <3>3, <3>5
      <4>2. /\ StaleOccurrence(new, clock) = IF stale(new) = {} THEN NoDate
                                             ELSE CHOOSE d \in stale(new) : TRUE
            /\ StaleOccurrence(row, clock) = IF stale(row) = {} THEN NoDate
                                             ELSE CHOOSE d \in stale(row) : TRUE
        BY DEF StaleOccurrence
      <4> HIDE DEF stale
      <4> QED  BY <4>1, <4>2
    <3>7. LastFired(row, new, clock, FALSE) = LastFired(row, row, clock, FALSE)
      BY <3>4, <3>6 DEF LastFired
    <3>8. row' = [new EXCEPT !.last = LastFired(row, new, clock, FALSE)]
      BY <3>1, <3>7
    <3> HIDE DEF new
    <3>9. /\ IF SameSlot(row, new) THEN UNCHANGED << since, waived >> ELSE Waive(new)
          /\ new.exists /\ new.slot \in 0..(SlotsPerDay - 1) \cup {NoSlot}
      BY <3>1, <3>3, <3>4, <3>6 DEF Waive, KeptInv, SlotTyped
    <3>10. started.day <= started'.day /\ started'.day \in Nat
      BY <1>0, <3>1
    <3> QED  BY <3>1, <3>2, <3>8, <3>9, <3>10, KeptBySetting
  <2> QED  BY <2>1, <2>2
<1>4. CASE UpsertTemplate
  BY <1>0, <1>4, <1>t, KeptUnchanged DEF UpsertTemplate, Change, Row
<1>5. CASE DeleteTemplate
  BY <1>0, <1>5, <1>t, KeptUnchanged DEF DeleteTemplate, Change, Row
<1>6. CASE Pass
  <2>1. clock' <= LastTime
    BY <1>0, <1>6, CalendarAssumption DEF Pass
  <2> QED  BY <1>6, <1>t, <2>1, KeptUnchanged DEF Pass, KeptInv
<1>7. ASSUME NEW p \in Schedulers, TickStep(p) PROVE KeptInv'
  <2>0. ticks' = [ticks EXCEPT ![p] = Idle] => TicksTyped'
    BY IdleTyped DEF KeptInv
  <2>1. CASE Restart(p)
    BY <1>0, <2>0, <2>1, KeptUnchanged DEF Restart, Row, KeptInv
  <2>2. CASE ReadTemplates(p)
    <3> DEFINE n == [doing |-> "tick", row |-> row, at |-> clock]
    <3>1. /\ n \in [doing : {"idle", "tick"}, row : Row, at : Nat] /\ n.row.slot # NoSlot
          /\ ticks' = [ticks EXCEPT ![p] = n]
      BY <1>0, <2>2 DEF ReadTemplates
    <3> HIDE DEF n
    <3>2. TicksTyped'
      BY <3>1 DEF KeptInv, TicksTyped
    <3> QED  BY <2>2, <3>2, KeptUnchanged DEF ReadTemplates, KeptInv
  <2>3. CASE ExpireSchedule(p)
    BY <1>0, <2>0, <2>3, KeptUnchanged DEF ExpireSchedule, Turn, Row
  <2>4. CASE PassOver(p) \/ ChatIsFull(p)
    BY <2>0, <2>4, KeptUnchanged DEF PassOver, ChatIsFull, Turn, KeptInv
  <2>5. CASE AutoStart(p)
    <3>1. UNCHANGED << clock, waived, since >> /\ TicksTyped'
      BY <2>0, <2>5 DEF AutoStart, Turn
    <3>2. CASE Claim(ticks[p].row)
      <4>1. /\ row' = [row EXCEPT !.last = Today]
            /\ \/ started' = Started(Today) /\ UNCHANGED lost
               \/ lost' = Today /\ UNCHANGED started
            /\ row.exists
        BY <2>5, <3>2 DEF AutoStart, Claim
      <4>2. /\ row'.last = Today /\ row'.slot = row.slot /\ row'.rec = row.rec /\ row'.day = row.day
            /\ row'.on = row.on /\ row'.exists = row.exists
        BY <1>0, <4>1 DEF Row
      <4>3. lost' \in Nat /\ StampExplained'
        <5>1. Started(Today).day = Today
          BY DEF Started
        <5> QED  BY <1>0, <4>1, <4>2, <5>1 DEF StampExplained, KeptInv
      <4>4. SlotTyped'
        BY <4>2 DEF KeptInv, SlotTyped
      <4>5. PassedAreStamped'
        <5>1. \A d, t : Passed(row', d, t) <=> Passed(row, d, t)
          BY <4>2 DEF Passed, At
        <5>2. \A d \in Nat : d <= row.last => d <= Today
          BY <1>0
        <5> QED  BY <3>1, <4>2, <5>1, <5>2 DEF KeptInv, PassedAreStamped
      <4> QED  BY <3>1, <4>1, <4>2, <4>3, <4>4, <4>5 DEF KeptInv
    <3>3. CASE ~Claim(ticks[p].row)
      BY <2>5, <3>1, <3>3, KeptUnchanged DEF AutoStart, KeptInv
    <3> QED  BY <3>2, <3>3
  <2> QED  BY <1>7, <2>1, <2>2, <2>3, <2>4, <2>5 DEF TickStep
<1>8. CASE UNCHANGED vars
  BY <1>8, <1>t, KeptUnchanged DEF vars, KeptInv
<1> QED  BY <1>1, <1>2, <1>3, <1>4, <1>5, <1>6, <1>7, <1>8 DEF Next, AdminStep
-----------------------------------------------------------------------------
(***************************************************************************)
(* The desk: the same stamp under everything an admin does, and the fields *)
(* that say when a rollcall closes.                                        *)
(***************************************************************************)
\* Every step of the desk is one of the schedule, or makes the template anew.
LEMMA DeskStep == [DeskNext]_allVars => [Next]_vars \/ Recreate
BY DEF DeskNext, SaveStep, SwitchStep, PanelStep, SetTemplate, SaveDraft, WebUpdateTemplate, Upsert,
       DeleteTapped, RepeatFlag, ScheduleTemplateCmd, WebSetTemplateSchedule, ScheduleTemplateOff,
       TickOne, TickAll, TickClear, Tap, ApplyTicked, DeskRestart, DeskTick, allVars,
       Next, AdminStep, TickStep

LEMMA RecreateKeeps == Inv /\ KeptInv /\ Recreate => Inv' /\ KeptInv'
<1> SUFFICES ASSUME Inv, KeptInv, Recreate PROVE Inv' /\ KeptInv'
  OBVIOUS
<1>1. /\ row' = Blank /\ clock' = clock /\ since' = clock /\ lost' = 0 /\ waived' = 0
      /\ started' = [day |-> 0, times |-> 0] /\ ticks' = ticks
  BY DEF Recreate, NoDate
<1>2. Today' \in Nat /\ clock \in Nat
  BY <1>1, InvFacts DEF Today, Day
<1>3. row' \in Row /\ row'.last = 0 /\ ~row'.on /\ row'.slot = NoSlot
  BY <1>1 DEF Blank, Row, NoDate, NoSlot
<1>4. Inv'
  BY <1>1, <1>2, <1>3 DEF Inv
<1>5. StampExplained' /\ SlotTyped' /\ PassedAreStamped'
  BY <1>1, <1>3 DEF StampExplained, SlotTyped, PassedAreStamped
<1>6. KeptInv'
  BY <1>1, <1>2, <1>3, <1>5 DEF KeptInv, TicksTyped
<1> QED  BY <1>4, <1>6

\* A scheduler that starts a rollcall has claimed the day for it.
LEMMA StartsParts ==
  ASSUME Inv, KeptInv, [Next]_vars \/ Recreate, NEW p \in Schedulers, Starts(p)
  PROVE  /\ AutoStart(p) /\ ticks[p].doing = "tick" /\ row.exists /\ row.last # Today
         /\ started' = Started(Today) /\ lost' = lost /\ row' = [row EXCEPT !.last = Today]
<1>1. ticks[p].doing = "tick" /\ ticks'[p].doing = "idle" /\ ticks' # ticks /\ started' # started
  BY DEF Starts, Done
<1>2. ticks \in [Schedulers -> [doing : {"idle", "tick"}, row : Row, at : Nat]]
  BY DEF KeptInv, TicksTyped
<1>3. PICK q \in Schedulers : TickStep(q)
  BY <1>1 DEF Next, AdminStep, SetSchedule, DisableSchedule, EnableSchedule, UpsertTemplate,
              DeleteTemplate, Change, Pass, Recreate, vars
<1>4. AutoStart(q)
  BY <1>1, <1>3 DEF TickStep, Restart, ReadTemplates, ExpireSchedule, PassOver, ChatIsFull
<1>5. q = p
  BY <1>1, <1>2, <1>4 DEF AutoStart, Turn
<1> QED  BY <1>1, <1>4, <1>5 DEF AutoStart, Claim

\* Each occurrence is started once.
LEMMA SpacedStep ==
  ASSUME Inv, KeptInv, [Next]_vars \/ Recreate, NEW p \in Schedulers,
         Starts(p), Fresh(p), started.day # NoDate
  PROVE  /\ Read(p).rec = "biweekly" => Today - started.day >= 2 * WeekLength
         /\ Read(p).rec = "weekly" =>
              \E d \in (started.day + 1)..Today : Weekday(d) = Read(p).day
<1>1. /\ Today \in Nat /\ {row.last, started.day} \subseteq Nat
      /\ started.day <= row.last /\ row.last <= Today
  BY InvFacts
<1>2. Read(p) = row /\ Due(row, clock) /\ row.last # Today
  BY StartsParts DEF Fresh, Read, AutoStart
<1>3. WeekLength \in Nat /\ CatchupDays \in Nat
  BY CalendarAssumption
<1>4. CASE IsDueNow(row, clock)
  <2>1. OnItsDay(row, Today)
    BY <1>4 DEF IsDueNow, MatchesRecurrence, Today
  <2>2. row.rec = "biweekly" => Today - row.last >= 2 * WeekLength
    BY <1>1, <1>4 DEF IsDueNow, MatchesRecurrence, Today, NoDate
  <2>3. row.rec = "biweekly" => Today - started.day >= 2 * WeekLength
    BY <1>1, <1>3, <2>2
  <2>4. row.rec = "weekly" => Weekday(Today) = row.day
    BY <2>1 DEF OnItsDay
  <2>5. Today \in (started.day + 1)..Today
    BY <1>1, <1>2
  <2> QED  BY <1>2, <2>3, <2>4, <2>5
<1>5. CASE MissedWithinDays(row, clock)
  <2>1. PICK d \in (Today - CatchupDays)..Today : Weekday(d) = row.day /\ row.last < d
    BY <1>5 DEF MissedWithinDays, Today
  <2>2. d \in (started.day + 1)..Today
    BY <1>1, <1>3, <2>1
  <2> QED  BY <1>2, <1>5, <2>1, <2>2 DEF MissedWithinDays
<1> QED  BY <1>2, <1>4, <1>5 DEF Due

\* Nothing starts too late, or for a slot from before it was set.
LEMMA NotTooLateStep ==
  ASSUME Inv, KeptInv, [Next]_vars \/ Recreate, NEW p \in Schedulers, Starts(p), Fresh(p)
  PROVE  \E d \in (Today - CatchupDays)..Today :
           /\ clock >= At(d, row) /\ At(d, row) + Window >= since
           /\ row.rec = "weekly" \/ (d = Today /\ clock - At(d, row) <= Window)
<1>1. Today \in Nat /\ clock \in Nat /\ row.last \in Nat /\ row.last <= Today
  BY InvFacts
<1>2. /\ Due(row, clock) /\ row.last # Today /\ row.on
      /\ row.slot \in 0..(SlotsPerDay - 1)
  <2>1. Read(p) = row /\ Due(row, clock) /\ row.last # Today /\ row.on /\ ticks[p].doing = "tick"
    BY StartsParts DEF Fresh, Read, AutoStart
  <2>2. row.slot # NoSlot
    BY <2>1 DEF KeptInv, TicksTyped, Read
  <2> QED  BY <2>1, <2>2 DEF KeptInv, SlotTyped
<1>3. /\ Window \in Nat /\ CatchupDays \in Nat /\ SlotsPerDay \in Nat
      /\ since \in Nat /\ since <= clock
  BY CalendarAssumption DEF KeptInv
<1>4. \A d \in Int : At(d, row) \in Int
  <2>1. row.slot \in Int
    BY <1>2, <1>3
  <2> QED  BY <1>3, <2>1 DEF At
<1>5. CASE IsDueNow(row, clock)
  <2>1. clock - At(Today, row) \in 0..Window
    BY <1>5 DEF IsDueNow, Today
  <2>2. At(Today, row) \in Int
    BY <1>1, <1>4
  <2>3. /\ clock >= At(Today, row) /\ At(Today, row) + Window >= since
        /\ clock - At(Today, row) <= Window
    BY <1>1, <1>3, <2>1, <2>2
  <2>4. Today \in (Today - CatchupDays)..Today
    BY <1>1, <1>3
  <2> QED  BY <2>3, <2>4
<1>6. CASE MissedWithinDays(row, clock)
  <2>1. PICK d \in (Today - CatchupDays)..Today :
          Weekday(d) = row.day /\ row.last < d /\ clock > At(d, row)
    BY <1>6 DEF MissedWithinDays, Today
  <2>2. row.rec = "weekly" /\ At(d, row) \in Int /\ d \in Nat /\ Today - CatchupDays <= d
    BY <1>1, <1>3, <1>4, <1>6, <2>1 DEF MissedWithinDays
  <2>3. ASSUME ~(At(d, row) + Window >= since) PROVE FALSE
    <3>1. since - At(d, row) > Window /\ At(d, row) <= since
      BY <1>3, <2>2, <2>3
    <3>2. Day(since) \in Nat /\ Day(since) <= Today
      BY <1>1, <1>3, DayFacts, DayMonotone DEF Today
    <3>3. d <= Day(since)
      <4>1. CASE CatchupDays + 1 <= d
        <5>1. row.slot \in Nat
          BY <1>2, <1>3
        <5> QED  BY <1>3, <2>2, <3>1, <4>1, <5>1, SlotOnItsDay
      <4>2. CASE ~(CatchupDays + 1 <= d)
        <5>1. CatchupDays + 1 <= Day(since)
          BY <1>3, CalendarAssumption DEF Day
        <5> QED  BY <1>3, <2>2, <3>2, <4>2, <5>1
      <4> QED  BY <4>1, <4>2
    <3>4. Passed(row, d, since)
      BY <1>1, <1>3, <2>1, <2>2, <3>1, <3>2, <3>3 DEF Passed
    <3>5. d <= row.last
      <4>1. row.slot # NoSlot
        BY <1>2, <1>3 DEF NoSlot
      <4> QED  BY <1>2, <2>2, <3>4, <4>1 DEF KeptInv, PassedAreStamped
    <3> QED  BY <1>1, <2>1, <2>2, <3>5
  <2>4. clock >= At(d, row)
    BY <1>1, <2>1, <2>2
  <2> QED  BY <2>1, <2>2, <2>3, <2>4
<1> QED  BY <1>2, <1>5, <1>6 DEF Due

\* After a turn with room for a rollcall, nothing is owed.
LEMMA MadeUpStep ==
  ASSUME Inv, KeptInv, NEW p \in Schedulers, Fresh(p), PassOver(p) \/ AutoStart(p)
  PROVE  ~Owed'
<1> SUFFICES ASSUME Owed' PROVE FALSE
  OBVIOUS
<1>1. /\ Today \in Nat /\ clock \in Nat /\ {row.last, started.day} \subseteq Nat
      /\ row.last <= Today /\ row \in Row
      /\ lost \in Nat /\ waived \in Nat /\ CatchupDays \in Nat
  BY InvFacts, CalendarAssumption DEF KeptInv
<1>2. clock' = clock /\ Today' = Today /\ waived' = waived /\ Read(p) = row /\ row.on /\ row.exists
  BY DEF PassOver, AutoStart, Turn, Fresh, KeptInv, Today, Day
<1>3. PICK d \in (Today - CatchupDays)..Today :
        /\ Weekday(d) = row'.day /\ clock > At(d, row')
        /\ started'.day < d /\ lost' < d /\ waived < d
  BY <1>2 DEF Owed
<1>4. row'.rec = "weekly" /\ ~Expired(row', clock)
  BY <1>2 DEF Owed
<1>5. d \in Int /\ d <= Today
  BY <1>1, <1>3
<1>6. StampExplained
  BY DEF KeptInv
<1>7. CASE UNCHANGED << row, started, lost >>
  <2>1. row.last < d
    BY <1>1, <1>3, <1>5, <1>6, <1>7 DEF StampExplained
  <2>2. row.last # Today
    BY <1>1, <1>5, <2>1
  <2>3. Due(row, clock)
    BY <1>3, <1>4, <1>7, <2>1 DEF Due, MissedWithinDays, Today
  <2>4. ~PassOver(p)
    BY <1>2, <2>3 DEF PassOver, Read
  <2>5. row' = [row EXCEPT !.last = Today]
    BY <1>2, <2>2, <2>4 DEF AutoStart, Claim
  <2> QED  BY <1>1, <1>7, <2>2, <2>5 DEF Row
<1>8. CASE started' = Started(Today) \/ lost' = Today
  BY <1>1, <1>3, <1>5, <1>8 DEF Started
<1> QED  BY <1>7, <1>8 DEF PassOver, AutoStart
-----------------------------------------------------------------------------
(***************************************************************************)
(* When what is opened closes.                                             *)
(***************************************************************************)
\* The fields of a row, and those of a save, where a field may be kept.
FieldsOf(also) ==
  {g \in [Field -> Nat \cup {None} \cup also] : g["day"] \in 0..(WeekLength - 1) \cup {None} \cup also}

FieldsInv ==
  /\ fields \in FieldsOf({}) /\ ~Half(fields)
  /\ draft \in FieldsOf({Keep})
  /\ read \in [Schedulers -> FieldsOf({})] /\ \A p \in Schedulers : ~Half(read[p])

LEMMA NoFieldsTyped == NoFields \in FieldsOf({}) /\ ~Half(NoFields)
BY DEF NoFields, FieldsOf, Half, Field

\* A save that is accepted leaves no half an event slot.
LEMMA MergedTyped ==
  ASSUME NEW given \in FieldsOf({Keep}), NEW old \in FieldsOf({}), ~Half(old),
         Accepts(given, Merged(given, old))
  PROVE  Merged(given, old) \in FieldsOf({}) /\ ~Half(Merged(given, old))
<1> DEFINE new == Merged(given, old)
<1>1. \A f \in Field : new[f] = IF given[f] = Keep THEN old[f] ELSE given[f]
  BY DEF Merged
<1>2. \A f \in Field : new[f] \in Nat \cup {None}
  BY <1>1 DEF FieldsOf
<1>3. "day" \in Field /\ "time" \in Field
  BY DEF Field
<1>4. new["day"] \in 0..(WeekLength - 1) \cup {None}
  BY <1>1, <1>3 DEF FieldsOf
<1>5. new \in FieldsOf({})
  <2>1. new \in [Field -> Nat \cup {None}]
    BY <1>2 DEF Merged
  <2> HIDE DEF new
  <2> QED  BY <1>4, <2>1 DEF FieldsOf
<1>6. ~Half(new)
  <2>1. CASE given["day"] = Keep /\ given["time"] = Keep
    <3>1. new["day"] = old["day"] /\ new["time"] = old["time"]
      BY <1>1, <1>3, <2>1
    <3> HIDE DEF new
    <3> QED  BY <3>1 DEF Half
  <2>2. CASE ~(given["day"] = Keep /\ given["time"] = Keep)
    BY <2>2 DEF Accepts
  <2> QED  BY <2>1, <2>2
<1> QED  BY <1>5, <1>6

LEMMA UpsertTyped ==
  ASSUME FieldsInv, NEW given \in FieldsOf({Keep}), Upsert(given)
  PROVE  fields' \in FieldsOf({}) /\ ~Half(fields')
<1> DEFINE old == IF row.exists THEN fields ELSE NoFields
<1>1. old \in FieldsOf({}) /\ ~Half(old)
  BY NoFieldsTyped DEF FieldsInv
<1>2. Accepts(given, Merged(given, old)) /\ fields' = Merged(given, old)
  BY DEF Upsert
<1> HIDE DEF old
<1> QED  BY <1>1, <1>2, MergedTyped

LEMMA SavesTyped == \A given \in Saves : given \in FieldsOf({Keep})
BY SavesAssumption DEF FieldsOf

LEMMA FieldsInit == DeskInit => FieldsInv
<1> SUFFICES ASSUME DeskInit PROVE FieldsInv
  OBVIOUS
<1>1. NoDraft \in FieldsOf({Keep})
  BY DEF NoDraft, FieldsOf, Field
<1> QED  BY <1>1, NoFieldsTyped DEF DeskInit, FieldsInv

LEMMA FieldsNext == FieldsInv /\ [DeskNext]_allVars => FieldsInv'
<1> SUFFICES ASSUME FieldsInv, [DeskNext]_allVars PROVE FieldsInv'
  OBVIOUS
<1>0. NoDraft \in FieldsOf({Keep})
  BY DEF NoDraft, FieldsOf, Field
<1>k. ASSUME UNCHANGED << fields, draft, read >> PROVE FieldsInv'
  BY <1>k DEF FieldsInv
<1>u. ASSUME fields' \in FieldsOf({}), ~Half(fields'), draft' \in FieldsOf({Keep}), read' = read
      PROVE  FieldsInv'
  BY <1>u DEF FieldsInv
<1>1. ASSUME NEW given \in Saves, NEW garbled \in BOOLEAN, SetTemplate(given, garbled)
      PROVE  FieldsInv'
  <2> DEFINE old == IF row.exists THEN fields ELSE NoFields
             all == [f \in Field |-> IF given[f] # Keep THEN given[f]
                                     ELSE IF old[f] = None THEN Keep ELSE old[f]]
  <2>1. all \in FieldsOf({Keep})
    <3>1. given \in FieldsOf({Keep}) /\ old \in FieldsOf({})
      BY SavesTyped, NoFieldsTyped DEF FieldsInv
    <3>2. \A f \in Field : all[f] \in Nat \cup {None} \cup {Keep}
      BY <3>1 DEF FieldsOf
    <3>3. all["day"] \in 0..(WeekLength - 1) \cup {None} \cup {Keep}
      BY <3>1 DEF FieldsOf, Field
    <3> QED  BY <3>2, <3>3 DEF FieldsOf
  <2>2. /\ IF garbled THEN draft' = all /\ UNCHANGED << vars, fields >>
           ELSE Upsert(all) /\ UNCHANGED draft
        /\ read' = read
    BY <1>1 DEF SetTemplate
  <2> HIDE DEF all
  <2>3. CASE garbled
    BY <1>u, <2>1, <2>2, <2>3 DEF FieldsInv
  <2>4. CASE ~garbled
    <3>1. fields' \in FieldsOf({}) /\ ~Half(fields')
      BY <2>1, <2>2, <2>4, UpsertTyped
    <3> QED  BY <1>u, <2>2, <2>4, <3>1 DEF FieldsInv
  <2> QED  BY <2>3, <2>4
<1>2. CASE SaveDraft
  <2>1. draft' = NoDraft /\ read' = read /\ (Upsert(draft) \/ fields' = fields)
    BY <1>2 DEF SaveDraft
  <2>2. fields' \in FieldsOf({}) /\ ~Half(fields')
    BY <2>1, UpsertTyped DEF FieldsInv
  <2> QED  BY <1>0, <1>u, <2>1, <2>2
<1>3. ASSUME NEW given \in Saves, WebUpdateTemplate(given) PROVE FieldsInv'
  <2> DEFINE all == [f \in Field |-> IF f # "offset" /\ given[f] = Keep THEN None ELSE given[f]]
  <2>1. all \in FieldsOf({Keep})
    <3>1. given \in FieldsOf({Keep})
      BY SavesTyped
    <3>2. \A f \in Field : all[f] \in Nat \cup {None} \cup {Keep}
      BY <3>1 DEF FieldsOf
    <3>3. all["day"] \in 0..(WeekLength - 1) \cup {None} \cup {Keep}
      BY <3>1 DEF FieldsOf, Field
    <3> QED  BY <3>2, <3>3 DEF FieldsOf
  <2>2. Upsert(all) /\ UNCHANGED << draft, read >>
    BY <1>3 DEF WebUpdateTemplate
  <2> HIDE DEF all
  <2>3. fields' \in FieldsOf({}) /\ ~Half(fields')
    BY <2>1, <2>2, UpsertTyped
  <2> QED  BY <1>u, <2>2, <2>3 DEF FieldsInv
<1>4. CASE DeleteTapped
  BY <1>4, <1>u, NoFieldsTyped DEF DeleteTapped, FieldsInv
<1>5. CASE SwitchStep
  BY <1>5, <1>k DEF SwitchStep, PanelStep, RepeatFlag, ScheduleTemplateCmd, WebSetTemplateSchedule,
       ScheduleTemplateOff, TickOne, TickAll, TickClear, Tap, ApplyTicked, deskVars
<1>6. CASE UNCHANGED deskVars
  BY <1>6, <1>k DEF deskVars
<1>7. ASSUME NEW p \in Schedulers, DeskRestart(p) \/ DeskTick(p) PROVE FieldsInv'
  <2>1. /\ fields' = fields /\ (draft' = NoDraft \/ draft' = draft)
        /\ \E g \in {NoFields, fields} : read' = [read EXCEPT ![p] = g]
    BY <1>7 DEF DeskRestart, DeskTick
  <2>2. PICK g \in {NoFields, fields} : read' = [read EXCEPT ![p] = g]
    BY <2>1
  <2>3. g \in FieldsOf({}) /\ ~Half(g)
    BY <2>2, NoFieldsTyped DEF FieldsInv
  <2>4. read' \in [Schedulers -> FieldsOf({})] /\ \A q \in Schedulers : ~Half(read'[q])
    BY <2>2, <2>3 DEF FieldsInv
  <2> QED  BY <1>0, <2>1, <2>4 DEF FieldsInv
<1> QED  BY <1>1, <1>2, <1>3, <1>4, <1>5, <1>6, <1>7 DEF DeskNext, SaveStep, allVars

\* Of any days that follow on each other, a week long, one has the name.
LEMMA WeekdayThere ==
  ASSUME NEW a \in Nat, NEW w \in 0..(WeekLength - 1)
  PROVE  \E d \in a..(a + WeekLength - 1) : Weekday(d) = w
<1> DEFINE n == WeekLength
           q == a \div n
           m == a % n
<1>1. n \in Nat /\ n > 0 /\ w \in Nat /\ w < n
  BY CalendarAssumption
<1>2. q \in Nat /\ m \in Nat /\ m < n /\ a = n * q + m
  BY <1>1
<1>3. ASSUME NEW k \in Nat PROVE n * k + w \in Nat /\ (n * k + w) % n = w
  <2> DEFINE x == n * k + w
             r == x \div n
             s == x % n
  <2>0. n * k \in Nat /\ x \in Nat
    BY <1>1
  <2>1. x \in Nat /\ r \in Nat /\ s \in Nat /\ s < n /\ x = n * r + s
    <3> HIDE DEF x, n
    <3> QED  BY <1>1, <2>0
  <2>2. n * k \in Nat /\ n * r \in Nat /\ x = n * k + w
    BY <1>1, <2>1
  <2> HIDE DEF n, x, r, s
  <2>3. ~(k + 1 <= r)
    <3> SUFFICES ASSUME k + 1 <= r PROVE FALSE
      OBVIOUS
    <3>1. n * (k + 1) <= n * r /\ n * (k + 1) = n * k + n
      BY <1>1, <2>1
    <3> QED  BY <1>1, <2>1, <2>2, <3>1
  <2>4. ~(r + 1 <= k)
    <3> SUFFICES ASSUME r + 1 <= k PROVE FALSE
      OBVIOUS
    <3>1. n * (r + 1) <= n * k /\ n * (r + 1) = n * r + n
      BY <1>1, <2>1
    <3> QED  BY <1>1, <2>1, <2>2, <3>1
  <2>5. r = k
    BY <2>1, <2>3, <2>4
  <2> QED  BY <1>1, <2>1, <2>2, <2>5 DEF x, s
<1>4. CASE m <= w
  <2>1. n * q \in Nat
    BY <1>1, <1>2
  <2>2. n * q + w \in a..(a + n - 1)
    <3> HIDE DEF n, q, m
    <3> QED  BY <1>1, <1>2, <1>4, <2>1
  <2> QED  BY <1>2, <1>3, <2>2 DEF Weekday
<1>5. CASE w < m
  <2>1. n * q \in Nat /\ n * (q + 1) = n * q + n
    BY <1>1, <1>2
  <2>2. n * (q + 1) + w \in a..(a + n - 1)
    <3> HIDE DEF n, q, m
    <3> QED  BY <1>1, <1>2, <1>5, <2>1
  <2>3. q + 1 \in Nat
    BY <1>2
  <2> QED  BY <1>3, <2>2, <2>3 DEF Weekday
<1> QED  BY <1>1, <1>2, <1>4, <1>5

\* The next weekday and time is not past.
LEMMA NextWeekdayAhead ==
  ASSUME NEW t \in Nat, NEW w \in 0..(WeekLength - 1), NEW time \in Nat
  PROVE  NextWeekday(w, time, t) >= t
<1> DEFINE days == {e \in Day(t)..(Day(t) + WeekLength) : Weekday(e) = w}
           at(d) == At(d, [slot |-> time])
           ahead == {u \in {at(d) : d \in days} : u >= t}
<1>1. /\ Day(t) \in Nat /\ CatchupDays \in Nat /\ SlotsPerDay \in Nat \ {0}
      /\ WeekLength \in Nat \ {0} /\ CatchupDays + 1 <= Day(t) /\ Day(t) + 1 \in Nat
  <2>1. CatchupDays \in Nat /\ t \div SlotsPerDay \in Nat
    BY CalendarAssumption
  <2>2. Day(t) \in Nat /\ Day(t) = CatchupDays + 1 + t \div SlotsPerDay
    BY DayFacts DEF Day
  <2>3. SlotsPerDay \in Nat \ {0} /\ WeekLength \in Nat \ {0}
    BY CalendarAssumption
  <2> QED  BY <2>1, <2>2, <2>3
<1>2. PICK d \in (Day(t) + 1)..(Day(t) + 1 + WeekLength - 1) : Weekday(d) = w
  BY <1>1, WeekdayThere
<1>3. d \in days /\ d \in Nat /\ Day(t) + 1 <= d
  BY <1>1, <1>2
<1>4. \A e \in days : at(e) \in Int
  BY <1>1 DEF At
<1>5. at(d) >= t
  <2> DEFINE n == SlotsPerDay
             q == t \div n
             k == d - CatchupDays - 1
  <2>1. q \in Nat /\ n \in Nat /\ t < n * q + n /\ Day(t) = CatchupDays + 1 + q
    BY <1>1 DEF Day
  <2>2. k \in Nat /\ q + 1 <= k
    BY <1>1, <1>3, <2>1
  <2>3. at(d) = k * n + time
    BY DEF At
  <2> HIDE DEF n, q, k, at
  <2>4. n * (q + 1) <= n * k /\ n * (q + 1) = n * q + n /\ n * k = k * n
    BY <2>1, <2>2
  <2>5. n * k \in Nat /\ n * q \in Nat
    BY <2>1, <2>2
  <2> QED  BY <2>1, <2>3, <2>4, <2>5
<1>6. at(d) \in ahead
  BY <1>3, <1>5
<1> HIDE DEF days, at
<1>7. ahead \in SUBSET Nat /\ ahead # {}
  BY <1>4, <1>6
<1> HIDE DEF ahead
<1>8. \E u \in ahead : \A v \in ahead : u <= v
  BY <1>7, Smallest
<1>9. Min(ahead) \in ahead
  BY <1>8 DEF Min
<1>10. NextWeekday(w, time, t) = Min(ahead)
  BY DEF NextWeekday, ahead, days, at
<1> QED  BY <1>9, <1>10 DEF ahead

\* What is opened from fields that say when it closes closes then.
LEMMA ClosesAhead ==
  ASSUME Inv, FieldsInv, NEW p \in Schedulers, read[p] # NoFields
  PROVE  CloseTime(read[p], clock) >= clock
<1> DEFINE g == read[p]
<1>1. clock \in Nat
  BY InvFacts
<1>2. g \in FieldsOf({}) /\ ~Half(g) /\ g # NoFields
  BY DEF FieldsInv
<1> HIDE DEF g
<1>3. "day" \in Field /\ "time" \in Field /\ "offset" \in Field
  BY DEF Field
<1>4. CASE g["day"] # None /\ g["time"] # None
  <2>1. g["day"] \in 0..(WeekLength - 1) /\ g["time"] \in Nat
    BY <1>2, <1>3, <1>4 DEF FieldsOf
  <2>2. NextWeekday(g["day"], g["time"], clock) >= clock
    BY <1>1, <2>1, NextWeekdayAhead
  <2> QED  BY <1>4, <2>2 DEF CloseTime, g
<1>5. CASE g["day"] = None /\ g["time"] = None
  <2>1. g["offset"] # None
    <3>1. SUFFICES ASSUME g["offset"] = None PROVE FALSE
      OBVIOUS
    <3>2. \A f \in Field : g[f] = None
      BY <1>5, <3>1 DEF Field
    <3> QED  BY <1>2, <3>2 DEF NoFields, FieldsOf
  <2>2. g["offset"] \in Nat
    BY <1>2, <1>3, <2>1 DEF FieldsOf
  <2>3. CloseTime(g, clock) = clock + g["offset"]
    BY <1>5, <2>1 DEF CloseTime
  <2> QED  BY <1>1, <2>2, <2>3 DEF g
<1> QED  BY <1>2, <1>4, <1>5 DEF Half

-----------------------------------------------------------------------------
\* The expiry: on SQLite a save of the fields drops it.
LEMMA ExpiryInit == Init => ExpiryInv
<1> SUFFICES ASSUME Init PROVE ExpiryInv
  OBVIOUS
<1>1. until = OneYear /\ row.expires = NoDate
  BY DEF Init, Blank
<1>2. OneYear \in Nat /\ OneYear # NoDate
  BY DayFacts, CalendarAssumption DEF OneYear, NoDate
<1> QED  BY <1>1, <1>2 DEF ExpiryInv

LEMMA ExpiryNext ==
  ASSUME ~Sqlite, Inv, ExpiryInv, [Next]_vars \/ Recreate
  PROVE  ExpiryInv'
<1>0. row \in Row /\ until \in Nat /\ until # NoDate /\ OneYear \in Nat /\ OneYear # NoDate
  <2>1. OneYear \in Nat /\ OneYear # NoDate
    BY DayFacts, CalendarAssumption DEF OneYear, NoDate
  <2> QED  BY <2>1, InvFacts DEF ExpiryInv
<1>k. ASSUME until' = until, row'.expires = row.expires PROVE ExpiryInv'
  BY <1>k DEF ExpiryInv
<1>1. ASSUME NEW s \in Schedules, NEW byHand \in BOOLEAN, SetSchedule(s, byHand) PROVE ExpiryInv'
  <2> DEFINE new == [row EXCEPT !.rec = s.rec, !.day = s.day, !.slot = s.slot, !.on = TRUE,
                                !.expires = s.expires]
             f == LastFired(row, new, clock, byHand)
  <2>1. row' = [new EXCEPT !.last = f] /\ until' = s.expires
    BY <1>1 DEF SetSchedule
  <2>2. new \in Row /\ new.expires = s.expires
    BY <1>0, ScheduleFacts DEF Row
  <2> HIDE DEF new, f
  <2>3. row'.expires = s.expires
    BY <2>1, <2>2 DEF Row
  <2>4. s.expires \in Nat /\ s.expires # NoDate
    BY ScheduleAssumption DEF NoDate
  <2> QED  BY <2>1, <2>3, <2>4 DEF ExpiryInv
<1>2. CASE DisableSchedule
  BY <1>0, <1>2, <1>k DEF DisableSchedule, Row
<1>3. CASE EnableSchedule
  <2> DEFINE f == LastFired(row, row, clock, FALSE)
  <2>1. until' = until /\ (row' = row \/ row' = [row EXCEPT !.on = TRUE, !.last = f])
    BY <1>3 DEF EnableSchedule
  <2> HIDE DEF f
  <2>2. row'.expires = row.expires
    BY <1>0, <2>1 DEF Row
  <2> QED  BY <1>k, <2>1, <2>2
<1>4. CASE UpsertTemplate
  BY <1>4, <1>k DEF UpsertTemplate
<1>5. CASE DeleteTemplate
  BY <1>0, <1>5, <1>k DEF DeleteTemplate, Row
<1>6. CASE Pass
  BY <1>6, <1>k DEF Pass
<1>7. ASSUME NEW p \in Schedulers, TickStep(p) PROVE ExpiryInv'
  <2>1. CASE Restart(p)
    <3>1. CASE row.on /\ row.expires = NoDate
      <4>1. row'.expires = OneYear /\ until' = until
        BY <1>0, <2>1, <3>1 DEF Restart, Row
      <4> QED  BY <1>0, <3>1, <4>1 DEF ExpiryInv
    <3>2. CASE ~(row.on /\ row.expires = NoDate)
      BY <1>k, <2>1, <3>2 DEF Restart
    <3> QED  BY <3>1, <3>2
  <2>2. CASE ReadTemplates(p) \/ PassOver(p) \/ ChatIsFull(p)
    BY <1>k, <2>2 DEF ReadTemplates, PassOver, ChatIsFull, Turn
  <2>3. CASE ExpireSchedule(p)
    BY <1>0, <1>k, <2>3 DEF ExpireSchedule, Turn, Row
  <2>4. CASE AutoStart(p)
    BY <1>0, <1>k, <2>4 DEF AutoStart, Turn, Row
  <2> QED  BY <1>7, <2>1, <2>2, <2>3, <2>4 DEF TickStep
<1>8. CASE UNCHANGED vars
  BY <1>8, <1>k DEF vars
<1>9. CASE Recreate
  BY <1>0, <1>9 DEF Recreate, Blank, ExpiryInv
<1> QED  BY <1>1, <1>2, <1>3, <1>4, <1>5, <1>6, <1>7, <1>8, <1>9 DEF Next, AdminStep

LEMMA ExpiryStep ==
  ASSUME Inv, KeptInv, ExpiryInv, [Next]_vars \/ Recreate, NEW p \in Schedulers,
         Starts(p), Fresh(p)
  PROVE  Today <= until
<1>1. Read(p) = row /\ ~Expired(row, clock)
  BY StartsParts DEF Fresh, Read, AutoStart
<1>2. Today \in Nat /\ row.expires \in Nat /\ until \in Nat /\ until # NoDate
  BY InvFacts DEF ExpiryInv
<1>3. Today <= OneYear /\ OneYear \in Nat
  <2>1. clock \in Nat /\ clock <= LastTime /\ LastTime \in Nat
    BY InvFacts, CalendarAssumption DEF KeptInv
  <2>2. Today <= Day(LastTime) /\ Day(LastTime) \in Nat
    BY <2>1, DayFacts, DayMonotone DEF Today
  <2> QED  BY <1>2, <2>2 DEF OneYear
<1>4. row.expires = NoDate \/ Today <= row.expires
  BY <1>1, <1>2 DEF Expired, Today
<1> QED  BY <1>2, <1>3, <1>4 DEF ExpiryInv

\* A save leaves the row alone.
LEMMA SpareStep ==
  ASSUME ~Sqlite, Inv, [DeskNext]_allVars, fields' # fields, row'.exists, row.exists
  PROVE  row' = row
<1>u. ASSUME NEW given, Upsert(given) PROVE row' = row
  BY <1>u DEF Upsert, UpsertTemplate, Recreate
<1>1. CASE SaveStep
  <2>1. CASE DeleteTapped
    <3>1. row' = [row EXCEPT !.exists = FALSE, !.on = FALSE] /\ row \in Row
      BY <2>1, InvFacts DEF DeleteTapped, DeleteTemplate
    <3>2. row'.exists = FALSE
      BY <3>1 DEF Row
    <3> QED  BY <3>2
  <2>2. ASSUME NEW given \in Saves, NEW garbled \in BOOLEAN, SetTemplate(given, garbled)
        PROVE  row' = row
    BY <1>u, <2>2 DEF SetTemplate
  <2>3. CASE SaveDraft
    BY <1>u, <2>3 DEF SaveDraft, vars
  <2>4. ASSUME NEW given \in Saves, WebUpdateTemplate(given) PROVE row' = row
    BY <1>u, <2>4 DEF WebUpdateTemplate
  <2> QED  BY <1>1, <2>1, <2>2, <2>3, <2>4 DEF SaveStep
<1>2. CASE SwitchStep
  BY <1>2 DEF SwitchStep, PanelStep, RepeatFlag, ScheduleTemplateCmd, WebSetTemplateSchedule,
     ScheduleTemplateOff, TickOne, TickAll, TickClear, Tap, ApplyTicked, deskVars
<1>3. CASE UNCHANGED deskVars
  BY <1>3 DEF deskVars
<1>4. ASSUME NEW p \in Schedulers, DeskRestart(p) \/ DeskTick(p) PROVE row' = row
  BY <1>4 DEF DeskRestart, DeskTick
<1> QED  BY <1>1, <1>2, <1>3, <1>4 DEF DeskNext, allVars

-----------------------------------------------------------------------------
\* What holds in every state of the desk.
DeskInv == Inv /\ KeptInv /\ FieldsInv

LEMMA DeskInitInv == DeskInit => DeskInv
BY InitInv, KeptInit, FieldsInit DEF DeskInit, DeskInv

LEMMA DeskNextInv == DeskInv /\ [DeskNext]_allVars => DeskInv'
BY DeskStep, NextInv, KeptNext, RecreateKeeps, FieldsNext DEF DeskInv

LEMMA StartsStep ==
  ASSUME DeskInv, [DeskNext]_allVars
  PROVE  /\ [\A p \in Schedulers : Starts(p) /\ Fresh(p) /\ started.day # NoDate =>
               /\ Read(p).rec = "biweekly" => Today - started.day >= 2 * WeekLength
               /\ Read(p).rec = "weekly" =>
                    \E d \in (started.day + 1)..Today : Weekday(d) = Read(p).day]_vars
         /\ [\A p \in Schedulers : Starts(p) /\ Fresh(p) =>
               \E d \in (Today - CatchupDays)..Today :
                 /\ clock >= At(d, row) /\ At(d, row) + Window >= since
                 /\ row.rec = "weekly" \/ (d = Today /\ clock - At(d, row) <= Window)]_vars
BY DeskStep, SpacedStep, NotTooLateStep DEF DeskInv

\* A schedule that did not change since it was read starts each occurrence
\* once (check_reminders._missed_within_days, _matches_recurrence), two
\* biweekly ones two weeks apart, whatever is saved, paused or deleted by any
\* road, and whoever ticks.
THEOREM OccurrencesOnce == DeskSpec => SpacedOut
<1>1. DeskInv /\ [DeskNext]_allVars =>
        [\A p \in Schedulers : Starts(p) /\ Fresh(p) /\ started.day # NoDate =>
               /\ Read(p).rec = "biweekly" => Today - started.day >= 2 * WeekLength
               /\ Read(p).rec = "weekly" =>
                    \E d \in (started.day + 1)..Today : Weekday(d) = Read(p).day]_vars
  BY StartsStep
<1> QED  BY <1>1, DeskInitInv, DeskNextInv, PTL DEF DeskSpec, SpacedOut

\* "A slot configured now doesn't owe a catch-up fire for a moment that passed
\* before it existed" (services/templates._last_fired_after_schedule_edit).
THEOREM NoneTooLate == DeskSpec => NotTooLate
<1>1. DeskInv /\ [DeskNext]_allVars =>
        [\A p \in Schedulers : Starts(p) /\ Fresh(p) =>
               \E d \in (Today - CatchupDays)..Today :
                 /\ clock >= At(d, row) /\ At(d, row) + Window >= since
                 /\ row.rec = "weekly" \/ (d = Today /\ clock - At(d, row) <= Window)]_vars
  BY StartsStep
<1> QED  BY <1>1, DeskInitInv, DeskNextInv, PTL DEF DeskSpec, NotTooLate

\* After a turn with room for a rollcall no weekly start is owed, but one that
\* was lost to a crash or waived when its slot was set.
THEOREM MissedMadeUp == DeskSpec => MissedIsMadeUp
<1>1. DeskInv /\ [DeskNext]_allVars =>
        [\A p \in Schedulers :
           Done(p) /\ Fresh(p) /\ (PassOver(p) \/ AutoStart(p)) => ~Owed']_vars
  BY MadeUpStep DEF DeskInv
<1> QED  BY <1>1, DeskInitInv, DeskNextInv, PTL DEF DeskSpec, MissedIsMadeUp

\* What the scheduler opens from a template that says when it closes has a
\* close time, and one to come (check_reminders._auto_start_from_template).
THEOREM ClosesAsSaid == DeskSpec => OpensWithItsClose
<1>1. DeskInv /\ [DeskNext]_allVars =>
        [\A p \in Schedulers :
           Starts(p) /\ read[p] # NoFields => CloseTime(read[p], clock) >= clock]_allVars
  BY ClosesAhead DEF DeskInv
<1> QED  BY <1>1, DeskInitInv, DeskNextInv, PTL DEF DeskSpec, OpensWithItsClose

\* A day is started once, also with templates deleted and made anew.
THEOREM DeskStartsOnce == DeskSpec => []OncePerDay
<1>1. DeskInv => OncePerDay
  BY DEF DeskInv, Inv, OncePerDay
<1> QED  BY <1>1, DeskInitInv, DeskNextInv, PTL DEF DeskSpec

\* On Postgres, where a save leaves the expiry alone, all that was set comes
\* about: what starts is due, nothing starts after the last day, what was
\* missed is made up, and a save of the fields leaves the schedule alone.
THEOREM KeptOnPostgres ==
  ASSUME ~Sqlite
  PROVE  DeskSpec => DeskKept
<1> DEFINE J == DeskInv /\ ExpiryInv
<1>1. DeskInit => J
  BY DeskInitInv, ExpiryInit DEF DeskInit
<1>2. J /\ [DeskNext]_allVars => J'
  BY DeskNextInv, DeskStep, ExpiryNext DEF DeskInv
<1>3. J /\ [DeskNext]_allVars => [\A p \in Schedulers : Starts(p) /\ Fresh(p) => Today <= until]_vars
  BY DeskStep, ExpiryStep DEF DeskInv
<1>4. J /\ [DeskNext]_allVars => [fields' # fields /\ row'.exists /\ row.exists => row' = row]_allVars
  BY SpareStep DEF DeskInv
<1> HIDE DEF J
<1>5. DeskSpec => ExpiryHonoured
  BY <1>1, <1>2, <1>3, PTL DEF DeskSpec, ExpiryHonoured
<1>6. DeskSpec => SavesSpareSchedule
  BY <1>1, <1>2, <1>4, PTL DEF DeskSpec, SavesSpareSchedule
<1> QED
  BY <1>5, <1>6, OccurrencesOnce, NoneTooLate, MissedMadeUp, ClosesAsSaid
  DEF DeskKept, ScheduleKept, StartsAreDue
=============================================================================
