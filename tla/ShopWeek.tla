------------------------------ MODULE ShopWeek ------------------------------
(***************************************************************************)
(* A shop's weeks as the bot, the reminder worker and the planner go       *)
(* through them.  They meet only in the tables, where every row carries    *)
(* the date of a Monday that each of them computes for itself from the     *)
(* time or the form it is given (WeekCalendar): an answer must reach the   *)
(* week that was asked about and the plan that is made for it.             *)
(*                                                                         *)
(* Handlers are single steps here.  What happens between their calls is    *)
(* the subject of AvailabilityIntake, ReminderDelivery and PlannerRun.     *)
(***************************************************************************)
EXTENDS WeekCalendar, FiniteSets

CONSTANTS
  Employees,  \* employees with a Telegram account
  Zones,      \* offsets of the zones the shop may be in, in minutes
  Moments,    \* times of the shop's clock at which something may happen
  FormDates,  \* dates the owner may pick on the dashboard
  DraftTTL,   \* life of a draft in minutes (DefaultAvailabilityDraftTTL, 30)
  MaxDrafts,  \* bound on the drafts there are at once
  MaxPlans    \* bound on the weeks the owner plans

ASSUME ShopWeekAssumption ==
  /\ \A z \in Zones : z \in Int /\ -DayLength < z /\ z < DayLength
  /\ Moments \subseteq Int
  /\ FormDates \subseteq Int
  /\ DraftTTL \in Nat \ {0}
  /\ MaxDrafts \in Nat /\ MaxPlans \in Nat

Kinds == {"reminder", "nag"}

VARIABLES
  zone,      \* the shop's zone
  clock,     \* the instant it is
  active,    \* employees whose is_active is true
  drafts,    \* availability_drafts
  answers,   \* availabilities
  created,   \* reminder_deliveries: the keys of its rows ...
  pending,   \* ... and of those whose status is pending
  messages,  \* history: the reminders and nags people got
  stranded,  \* history: rows a tick left pending
  plans      \* schedules

weekVars == <<drafts, answers, plans>>
tickVars == <<created, pending, messages, stranded>>
vars     == <<zone, clock, active, weekVars, tickVars>>

\* time.Now() in the shop's zone.
Now == In(Time(clock, UTC), zone)

Init ==
  /\ zone \in Zones
  /\ \E m \in Moments : clock = m - zone
  /\ active \in SUBSET Employees
  /\ drafts = {} /\ answers = {} /\ plans = {}
  /\ created = {} /\ pending = {} /\ messages = {} /\ stranded = {}

-----------------------------------------------------------------------------
Advance ==
  /\ \E m \in Moments : m - zone > clock /\ clock' = m - zone
  /\ UNCHANGED <<zone, active, weekVars, tickVars>>

SetActive(e) ==
  /\ active' = IF e \in active THEN active \ {e} ELSE active \cup {e}
  /\ UNCHANGED <<zone, clock, weekVars, tickVars>>

-----------------------------------------------------------------------------
(* The bot.                                                                *)

\* The hours of a local day, which the model answers are about.
WholeDay(day) ==
  [start |-> Date(day, 0, zone).at, end |-> Date(day + 1, 0, zone).at]

\* An employee says which day they can work; the language model may put it
\* into any week, and slots outside the target week are refused.
Message(e, day) ==
  /\ e \in active
  /\ Cardinality(drafts) < MaxDrafts
  /\ ValidSlot(WholeDay(day), nextMonday(Now))
  /\ drafts' = drafts \cup {[emp |-> e, week |-> Column(nextMonday(Now)),
                             slot |-> WholeDay(day), made |-> clock]}
  /\ UNCHANGED <<zone, clock, active, answers, plans, tickVars>>

Others(e, week) == {a \in answers : ~(a.emp = e /\ a.week = week)}

WeekWhenConfirmed(d) == Column(nextMonday(Now))  \* bug: computed anew
\* The draft's week is read as midnight UTC and written again.
WeekOf(d)            == Column(Read(d.week))

Confirm(d) ==
  LET week == WeekOf(d)
  IN  /\ d \in drafts
      /\ d.made + DraftTTL > clock
      /\ answers' = Others(d.emp, week) \cup
           {[emp |-> d.emp, week |-> week, slot |-> d.slot, written |-> d.made]}
      /\ drafts' = drafts \ {d}
      /\ UNCHANGED <<zone, clock, active, plans, tickVars>>

\* Cancel, or the draft has expired.
Discard(d) ==
  /\ d \in drafts
  /\ drafts' = drafts \ {d}
  /\ UNCHANGED <<zone, clock, active, answers, plans, tickVars>>

-----------------------------------------------------------------------------
(* The reminder worker.                                                    *)

Rows(es, week, kind) == {[emp |-> e, week |-> week, kind |-> kind] : e \in es}

Due ==
  LET target == targetWeekStart(Now, zone)
      week   == Column(target)
      answered == {a.emp : a \in {x \in answers : x.week = week}}
  IN  (IF isDue(Now, reminderDueAt(target, zone))
       THEN Rows(active, week, "reminder") ELSE {})
      \cup
      (IF isDue(Now, nagDueAt(target, zone))
       THEN Rows(active \ answered, week, "nag") ELSE {})

EveryDue == Due            \* bug: rows are created although they are there
NewRows  == Due \ created

\* A tick creates the rows that are due and not there, and sends the pending
\* ones.  Some fail, and some stay pending: the process dies before their turn.
Tick ==
  LET todo == pending \cup NewRows
  IN  \E got, failed \in SUBSET todo :
        /\ got \cap failed = {}
        /\ created' = created \cup Due
        /\ pending' = todo \ (got \cup failed)
        /\ stranded' = stranded \cup pending'
        /\ messages' = messages \cup
             {[row |-> r, at |-> clock, named |-> NamedBy(r.week, zone)] : r \in got}
        /\ UNCHANGED <<zone, clock, active, weekVars>>

-----------------------------------------------------------------------------
(* The dashboard and the planner.                                          *)

\* The shop's one shift of a day.
ShiftFrom == 8 * 60
ShiftTo   == 14 * 60

\* clockOnDate: a time of the shift's day.
ClockOn(day, clockTime) == Date(DateOf(In(day, zone)), clockTime, zone).at

\* The days of a week on which an answer offers the shift's hours.
OfferedDays(weekStart, slot) ==
  {Column(day) : day \in
    {x \in {shiftDate(weekStart, w) : w \in 0..6} :
       slot.start <= ClockOn(x, ShiftFrom) /\ ClockOn(x, ShiftTo) <= slot.end}}

AnswerFor(e, week)   == {a \in answers : a.emp = e /\ a.week = week}

\* The owner picks a date and has its week planned, once.
Generate(date) ==
  LET weekStart == WeekStart(parseWeek(date, zone), zone)
      week == Column(weekStart)
  IN  /\ active # {}
      /\ Cardinality(plans) < MaxPlans
      /\ \A p \in plans : p.week # week
      /\ plans' = plans \cup
           {[week |-> week, picked |-> date, team |-> active,
             offers |-> {o \in active \X (week..(week + 6)) :
                 \E a \in AnswerFor(o[1], week) : o[2] \in OfferedDays(weekStart, a.slot)}]}
      /\ UNCHANGED <<zone, clock, active, drafts, answers, tickVars>>

-----------------------------------------------------------------------------
Next ==
  \/ Advance
  \/ \E e \in Employees : SetActive(e)
  \/ \E e \in Employees, day \in FormDates : Message(e, day)
  \/ \E d \in drafts : Confirm(d) \/ Discard(d)
  \/ Tick
  \/ \E date \in FormDates : Generate(date)

Spec == Init /\ [][Next]_vars

-----------------------------------------------------------------------------
(* Properties.                                                             *)

Keys     == [emp : Employees, week : Int, kind : Kinds]
Slots    == [start : Int, end : Int]

\* The day it is, or was at some instant, in the shop.
DayAt(at) == DateOf(Time(at, zone))

\* Monday is day 0 of the calendar.
IsMonday(day) == day % 7 = 0

\* Every variable has its type, and every week in a table is named by a Monday.
TypeOK ==
  /\ zone \in Zones /\ clock \in Int
  /\ active \subseteq Employees
  /\ \A d \in drafts : d \in [emp : Employees, week : Int, slot : Slots, made : Int]
  /\ \A a \in answers : a \in [emp : Employees, week : Int, slot : Slots, written : Int]
  /\ created \subseteq Keys /\ pending \subseteq created /\ stranded \subseteq created
  /\ \A m \in messages : m.row \in created /\ m.at \in Int
  /\ \A x \in drafts \cup answers \cup created \cup plans : IsMonday(x.week)

\* Whoever answers a reminder or a nag before the week it names begins answers
\* for that week, at whatever hour, however late the message went out, and also
\* when the answer is confirmed after midnight: the worker and the bot compute
\* the week apart (targetWeekStart, nextMonday) and the table keeps dates.  West
\* of Greenwich the message names another week (MessagesNameTheWeek).
RepliesCountForTheWeekNamed ==
  zone >= 0 =>
    \A m \in messages, a \in answers :
      m.at <= a.written /\ DayAt(a.written) < m.named[1] => a.week = m.named[1]

\* 10:00 of the Thursday, or Saturday, before the week of row r.
FirstHour(r) == Date(r.week - (IF r.kind = "reminder" THEN 4 ELSE 2), 600, zone).at

\* Nobody is asked twice of one kind about one week, and nobody before Thursday
\* (Saturday, for a nag) 10:00 of the shop's clock or after that hour of the
\* next day, unless a tick left the row behind for a later one.
AskedOnceInTime ==
  \A m \in messages :
    /\ \A n \in messages : n.row = m.row => n = m
    /\ m.at >= FirstHour(m.row)
    /\ m.at < FirstHour(m.row) + DayLength \/ m.row \in stranded

\* A plan is made for the week of the date the owner picked, Monday to Sunday,
\* and has somebody offered on a day exactly if their answer names that day and
\* was written on one of the seven days before the week; east of Greenwich the
\* dashboard shows the day as planned.  Drafts, answers and plans each compute
\* their own Monday and store dates, read back as midnight UTC.
PlansFindTheAnswers ==
  [][\A p \in plans' \ plans :
       /\ IsMonday(p.week) /\ p.picked \in p.week..(p.week + 6)
       /\ \A e \in p.team, day \in p.week..(p.week + 6) :
            /\ <<e, day>> \in p.offers <=>
                 \E a \in answers :
                   /\ a.emp = e /\ DayAt(a.slot.start) = day
                   /\ DayAt(a.written) \in (p.week - 7)..(p.week - 1)
            /\ zone >= 0 => ShownOn(day, zone) = day]_vars

\* README: "Each shop uses its own timezone".  A message names the week its row
\* is about, in every zone.  Violated west of Greenwich, where midnight UTC is
\* still the day before.
MessagesNameTheWeek ==
  \A m \in messages : m.named = <<m.row.week, m.row.week + 6>>
=============================================================================
