------------------------ MODULE MCTemplateSchedule ------------------------
(* A week of three days; months of two and four days, so that day 3 is once  *)
(* the last day, the second; the clock sees two biweekly slots, and weekly  *)
(* slots that are missed and made up for in between, one of them on a day   *)
(* whose earlier slot may have passed.                                      *)
EXTENDS TemplateDesk, TLC

CONSTANTS p1, p2

Entry(rec, day, slot, end) == [rec |-> rec, day |-> day, slot |-> slot, expires |-> end]
MCSchedules ==
  {Entry("weekly", 0, 0, OneYear), Entry("weekly", 0, 2, OneYear), Entry("weekly", 1, 1, 5),
   Entry("biweekly", 0, 0, OneYear), Entry("daily", 0, 1, 5), Entry("monthly", 3, 1, OneYear)}
MCMonthEnds  == {2, 4, 8, 12}
MCSchedulers == {p1, p2}
Alike        == Permutations(MCSchedulers)

Write(day, time, offset) ==
  [f \in Field |-> IF f = "day" THEN day ELSE IF f = "time" THEN time ELSE offset]
MCSaves == {Write(1, 0, Keep), Write(2, Keep, Keep)}

\* Bounds of the run: two changes, and a third that saves what waits or makes
\* a deleted template anew; a template with closing fields, or deleted, is
\* scheduled one way and watched for fewer days; the panel is tapped between
\* the two changes.
Plain    == fields = NoFields /\ draft = NoDraft /\ ~ticked /\ row.exists /\ edits < 3
FewSaves == clock <= 4 /\ (edits < 2 \/ draft # NoDraft \/ ~row.exists)
FewTaps  == edits = 1 /\ clock <= 4
FewDays  == Plain \/ clock < 7
Once(s)  == edits < 2 /\ (Plain \/ s = Entry("daily", 0, 1, 5))

MCNext ==
  \/ FewSaves /\ SaveStep
  \/ FewTaps /\ PanelStep
  \/ \E s \in Schedules :
       /\ Once(s)
       /\ RepeatFlag(s) \/ ScheduleTemplateCmd(s) \/ WebSetTemplateSchedule(s)
  \/ edits < 2 /\ ScheduleTemplateOff
  \/ FewDays /\ Pass /\ UNCHANGED deskVars
  \/ \E p \in Schedulers : DeskRestart(p) \/ DeskTick(p)
MCSpec == DeskInit /\ [][MCNext]_allVars
=============================================================================
