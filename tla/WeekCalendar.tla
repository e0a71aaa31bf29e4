---------------------------- MODULE WeekCalendar ----------------------------
(***************************************************************************)
(* The calendar that the bot, the reminder worker, the planner and the     *)
(* dashboard share without calling each other: which Monday names the week *)
(* an answer is about, when reminders fall due, which date a column keeps  *)
(* of a time, and which days people read.                                  *)
(*                                                                         *)
(* Time is in minutes since a Monday 00:00 UTC, days are numbered from     *)
(* that Monday.  A time value has an instant and a location, as in Go, and *)
(* a location is its offset from UTC: zones with a change of clocks are    *)
(* left out.                                                               *)
(***************************************************************************)
EXTENDS Integers

DayLength == 1440
UTC == 0

-----------------------------------------------------------------------------
(* The time package.                                                       *)

Time(at, zone) == [at |-> at, zone |-> zone]

In(t, zone) == Time(t.at, zone)

DateOf(t)  == (t.at + t.zone) \div DayLength
ClockOf(t) == (t.at + t.zone) % DayLength

\* 0 is Sunday.
Weekday(t) == (DateOf(t) + 1) % 7
Monday     == 1

Date(day, clock, zone) == Time(day * DayLength + clock - zone, zone)

AddDate(t, days) == Date(DateOf(t) + days, ClockOf(t), t.zone)

-----------------------------------------------------------------------------
(* Date columns.  The driver writes the date a time has in its location    *)
(* and reads midnight UTC.                                                 *)

Column(t)  == DateOf(t)
Read(date) == Date(date, 0, UTC)

-----------------------------------------------------------------------------
(* Weeks.                                                                  *)

ThisMonday(t) == LET days == (Monday - Weekday(t) + 7) % 7  \* bug: Monday itself counts
                 IN  Date(DateOf(t) + days, 0, t.zone)

\* telegram.nextMonday: the Monday after the day of t.
nextMonday(t) ==
  LET days == (Monday - Weekday(t) + 7) % 7
  IN  Date(DateOf(t) + (IF days = 0 THEN 7 ELSE days), 0, t.zone)

\* reminder.targetWeekStart says the same in words of its own.
targetWeekStart(now, zone) ==
  LET today == Date(DateOf(now), 0, zone)
      days  == (Monday - Weekday(today) + 7) % 7
  IN  AddDate(today, IF days = 0 THEN 7 ELSE days)

SundayWeekStart(t, zone) ==  \* bug: the week begins with Sunday
  LET local == In(t, zone) IN Date(DateOf(local) - Weekday(local), 0, zone)

\* store.WeekStart: the Monday of the week t lies in.
WeekStart(t, zone) ==
  LET local == In(t, zone)
      since == Weekday(local) - Monday
      monday == AddDate(local, -(IF since < 0 THEN since + 7 ELSE since))
  IN  Date(DateOf(monday), 0, zone)

\* The date a form or a query names (dashboard.parseWeekForm, api.parseWeekStart).
parseWeek(date, zone) == WeekStart(Date(date, 0, zone), zone)

\* planner.shiftDate: the day of a shift template in a week.
shiftDate(weekStart, weekday) ==
  AddDate(weekStart, IF weekday = 0 THEN 6 ELSE weekday - 1)

-----------------------------------------------------------------------------
(* Reminders.                                                              *)

reminderHour   == 10 * 60
reminderWindow == 24 * 60

DueAt(weekStart, days, zone) ==
  Date(DateOf(AddDate(weekStart, -days)), reminderHour, zone)

reminderDueAt(weekStart, zone) == DueAt(weekStart, 4, zone)
nagDueAt(weekStart, zone)      == DueAt(weekStart, 2, zone)

isDue(now, dueAt) ==
  now.at >= dueAt.at /\ now.at < dueAt.at + reminderWindow

-----------------------------------------------------------------------------
(* What people read.                                                       *)

\* messageForKind: the first and the last day a message names.
NamedWeek(weekStart) == <<DateOf(weekStart), DateOf(AddDate(weekStart, 6))>>

\* sendOne reads the week from the table and names it in the shop's zone.
NamedBy(date, zone) == NamedWeek(In(Read(date), zone))

\* groupAssignments: the day under which the dashboard shows an assignment.
ShownOn(date, zone) == DateOf(In(Read(date), zone))

-----------------------------------------------------------------------------
(* Answers.                                                                *)

\* slotIntersectsWeek, for the slots the model proposes for a week.
Intersects(slot, weekStart) ==
  /\ slot.start < AddDate(weekStart, 7).at
  /\ slot.end > weekStart.at

\* validateAvailabilitySlots, but for the range of the preferences.
ValidSlot(slot, weekStart) ==
  slot.end > slot.start /\ Intersects(slot, weekStart)
=============================================================================
