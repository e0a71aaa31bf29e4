--------------------------- MODULE ShopWeekProofs ---------------------------
(* The calendar's arithmetic holds at every instant and in every zone, and *)
(* ShopWeek is correct for any employees, moments, dates and zones.        *)
EXTENDS ShopWeek, TLAPS

-----------------------------------------------------------------------------
(* The calendar.                                                           *)

\* Quotient and remainder by the length of a day.
LEMMA DayArithmetic ==
  ASSUME NEW n \in Int
  PROVE  /\ n \div DayLength \in Int
         /\ (n \div DayLength) * DayLength <= n
         /\ n < (n \div DayLength) * DayLength + DayLength
         /\ n % DayLength \in 0..(DayLength - 1)
         /\ n = ((n \div DayLength) * DayLength) + (n % DayLength)
BY DEF DayLength

\* A date and a clock time name the instant they were made of.
LEMMA DateRoundTrip ==
  ASSUME NEW day \in Int, NEW clk \in 0..(DayLength - 1), NEW z \in Int
  PROVE  /\ DateOf(Date(day, clk, z)) = day
         /\ ClockOf(Date(day, clk, z)) = clk
         /\ Date(day, clk, z).zone = z
         /\ Date(day, clk, z).at = day * DayLength + clk - z
<1>1. Date(day, clk, z).at + z = day * DayLength + clk /\ Date(day, clk, z).zone = z
      /\ Date(day, clk, z).at = day * DayLength + clk - z
  BY DEF Date, Time, DayLength
<1>2. (day * DayLength + clk) \div DayLength = day
  BY DEF DayLength
<1>3. (day * DayLength + clk) % DayLength = clk
  BY DEF DayLength
<1> QED
  BY <1>1, <1>2, <1>3 DEF DateOf, ClockOf

\* Midnight of a day.
LEMMA MidnightRoundTrip ==
  ASSUME NEW day \in Int, NEW z \in Int
  PROVE  /\ DateOf(Date(day, 0, z)) = day
         /\ ClockOf(Date(day, 0, z)) = 0
         /\ Date(day, 0, z).zone = z
         /\ Date(day, 0, z).at = day * DayLength - z
<1>1. 0 \in 0..(DayLength - 1)
  BY DEF DayLength
<1> QED
  BY <1>1, DateRoundTrip DEF DayLength

Times == [at : Int, zone : Int]

\* A date is a time.
LEMMA DateIsTime ==
  ASSUME NEW day \in Int, NEW clk \in Int, NEW z \in Int
  PROVE  Date(day, clk, z) \in Times
BY DEF Date, Time, Times, DayLength

\* nextMonday and targetWeekStart name the one Monday among the seven days
\* after today.
LEMMA NextMondayIsNext ==
  ASSUME NEW t \in Times
  PROVE  LET day == DateOf(nextMonday(t))
         IN  /\ day \in (DateOf(t) + 1)..(DateOf(t) + 7)
             /\ IsMonday(day)
             /\ nextMonday(t) = Date(day, 0, t.zone)
             /\ targetWeekStart(t, t.zone) = nextMonday(t)
<1> DEFINE d == DateOf(t)
           back == (Monday - Weekday(t) + 7) % 7
           ahead == IF back = 0 THEN 7 ELSE back
<1>1. d \in Int /\ t.zone \in Int
  BY DayArithmetic DEF Times, DateOf
<1>2. Weekday(t) = (d + 1) % 7
  BY DEF Weekday
<1>3. ahead \in 1..7 /\ (d + ahead) % 7 = 0
  BY <1>1, <1>2 DEF Monday
<1>4. nextMonday(t) = Date(d + ahead, 0, t.zone)
  BY DEF nextMonday
<1>5. DateOf(nextMonday(t)) = d + ahead
  BY <1>1, <1>3, <1>4, MidnightRoundTrip
<1>6. targetWeekStart(t, t.zone) = nextMonday(t)
  <2> DEFINE today == Date(d, 0, t.zone)
  <2>1. DateOf(today) = d /\ ClockOf(today) = 0 /\ today.zone = t.zone
    BY <1>1, MidnightRoundTrip
  <2>2. Weekday(today) = Weekday(t)
    BY <2>1 DEF Weekday
  <2>3. AddDate(today, ahead) = Date(d + ahead, 0, t.zone)
    BY <2>1 DEF AddDate
  <2> QED
    BY <1>4, <2>2, <2>3 DEF targetWeekStart
<1>7. DateOf(nextMonday(t)) \in (d + 1)..(d + 7)
  BY <1>1, <1>3, <1>5
<1> QED
  BY <1>3, <1>4, <1>5, <1>6, <1>7 DEF IsMonday

\* Two Mondays among the seven days after a day are one.
LEMMA OneMondayAhead ==
  ASSUME NEW d \in Int, NEW x \in (d + 1)..(d + 7), NEW y \in (d + 1)..(d + 7),
         IsMonday(x), IsMonday(y)
  PROVE  x = y
BY DEF IsMonday

\* WeekStart names the Monday on or before the day, in the zone.
LEMMA WeekStartIsMonday ==
  ASSUME NEW t \in Times, NEW z \in Int
  PROVE  LET day == DateOf(WeekStart(t, z))
         IN  /\ day \in Int /\ IsMonday(day)
             /\ DateOf(In(t, z)) \in day..(day + 6)
             /\ WeekStart(t, z) = Date(day, 0, z)
             /\ WeekStart(t, z) \in Times
<1> DEFINE local == In(t, z)
           d == DateOf(local)
           since == Weekday(local) - Monday
           back == IF since < 0 THEN since + 7 ELSE since
           monday == AddDate(local, -back)
<1>1. local \in Times /\ local.zone = z
  BY DEF In, Time, Times
<1>2. d \in Int /\ ClockOf(local) \in 0..(DayLength - 1)
  BY <1>1, DayArithmetic DEF Times, DateOf, ClockOf
<1>3. back \in 0..6 /\ (d - back) % 7 = 0 /\ d - back \in Int
  BY <1>2 DEF Weekday, Monday
<1>4. monday = Date(d - back, ClockOf(local), z)
  BY <1>1, <1>2, <1>3 DEF AddDate
<1>5. DateOf(Date(d - back, ClockOf(local), z)) = d - back
  <2> HIDE DEF back, d, local
  <2> QED
    BY <1>2, <1>3, DateRoundTrip
<1>6. WeekStart(t, z) = Date(d - back, 0, z)
  BY <1>4, <1>5 DEF WeekStart
<1> HIDE DEF back
<1>7. DateOf(WeekStart(t, z)) = d - back
  BY <1>3, <1>6, MidnightRoundTrip
<1>8. d \in (d - back)..((d - back) + 6)
  <2> HIDE DEF d, local
  <2>1. d - back <= d /\ d <= (d - back) + 6
    BY <1>2, <1>3
  <2> QED
    BY <1>2, <1>3, <2>1
<1>9. WeekStart(t, z) \in Times
  BY <1>3, <1>6, DateIsTime
<1> QED
  BY <1>3, <1>6, <1>7, <1>8, <1>9 DEF IsMonday

\* The week of a picked date, computed by the form and again by the planner.
LEMMA WeekOfPickedDate ==
  ASSUME NEW date \in Int, NEW z \in Int
  PROVE  LET start == WeekStart(parseWeek(date, z), z)
             week  == Column(start)
         IN  /\ week \in Int /\ IsMonday(week)
             /\ date \in week..(week + 6)
             /\ start = Date(week, 0, z)
<1> DEFINE picked == Date(date, 0, z)
           first == parseWeek(date, z)
           m == DateOf(first)
           start == WeekStart(first, z)
<1>1. picked \in Times /\ In(picked, z) = picked /\ DateOf(picked) = date
  <2>1. picked = [at |-> date * DayLength + 0 - z, zone |-> z]
    BY DEF Date, Time
  <2>2. picked \in Times /\ In(picked, z) = picked
    BY <2>1 DEF Times, In, Time, DayLength
  <2> QED
    BY <2>2, MidnightRoundTrip
<1>2. /\ m \in Int /\ IsMonday(m) /\ date \in m..(m + 6)
      /\ first = Date(m, 0, z) /\ first \in Times
  BY <1>1, WeekStartIsMonday DEF parseWeek
<1>3. In(first, z) = first
  BY <1>2 DEF In, Date, Time
<1> HIDE DEF first
<1>4. /\ DateOf(start) \in Int /\ IsMonday(DateOf(start))
      /\ m \in DateOf(start)..(DateOf(start) + 6)
      /\ start = Date(DateOf(start), 0, z)
  BY <1>2, <1>3, WeekStartIsMonday
<1>5. DateOf(start) = m
  BY <1>2, <1>4 DEF IsMonday
<1> QED
  BY <1>2, <1>4, <1>5 DEF Column, first

\* East of Greenwich a date is read back as itself, and named in full.
LEMMA DateReadBack ==
  ASSUME NEW date \in Int, NEW z \in Int, 0 <= z, z < DayLength
  PROVE  /\ ShownOn(date, z) = date
         /\ NamedBy(date, z) = <<date, date + 6>>
<1> DEFINE x == In(Read(date), z)
<1>1. x = [at |-> date * DayLength, zone |-> z]
  BY DEF In, Read, Date, Time, UTC, DayLength
<1>2. x.at + x.zone = date * DayLength + z
  BY <1>1
<1>3. DateOf(x) = date /\ ClockOf(x) = z
  BY <1>2 DEF DateOf, ClockOf, DayLength
<1>4. AddDate(x, 6) = Date(date + 6, z, z)
  BY <1>1, <1>3 DEF AddDate
<1>5. DateOf(AddDate(x, 6)) = date + 6
  <2>1. date + 6 \in Int /\ z \in 0..(DayLength - 1)
    BY DEF DayLength
  <2> QED
    BY <1>4, <2>1, DateRoundTrip
<1> QED
  BY <1>3, <1>5 DEF ShownOn, NamedBy, NamedWeek

\* When the reminder and the nag of a week fall due.
LEMMA DueAtIsTen ==
  ASSUME NEW week \in Int, NEW days \in 0..7, NEW z \in Int
  PROVE  DueAt(Date(week, 0, z), days, z) = Date(week - days, 600, z)
<1> DEFINE x == Date(week, 0, z)
<1>1. DateOf(x) = week /\ ClockOf(x) = 0 /\ x.zone = z
  BY MidnightRoundTrip
<1>2. AddDate(x, -days) = Date(week - days, 0, z)
  BY <1>1 DEF AddDate
<1>3. DateOf(AddDate(x, -days)) = week - days
  BY <1>2, MidnightRoundTrip
<1> QED
  BY <1>3 DEF DueAt, reminderHour

-----------------------------------------------------------------------------
(* The inductive invariant: drafts and answers carry the week that follows *)
(* the day they were written on and lie in it, rows and messages come      *)
(* neither before their week is the next one nor before their hour.        *)

Following(at) == Column(nextMonday(Time(at, zone)))

ClockOK == zone \in Zones /\ clock \in Int /\ active \subseteq Employees

\* What an answer or a draft is, written at an instant.
Written(x, at) ==
  /\ x.emp \in Employees /\ at \in Int
  /\ x.week = Following(at)
  /\ \E day \in x.week..(x.week + 6) : x.slot = WholeDay(day)

WeeksOK ==
  /\ \A d \in drafts : d \in [emp : Employees, week : Int, slot : Slots, made : Int]
                       /\ Written(d, d.made)
  /\ \A a \in answers : a \in [emp : Employees, week : Int, slot : Slots, written : Int]
                        /\ Written(a, a.written)
  /\ \A p \in plans : IsMonday(p.week)

\* A row the worker may have made by the instant at.
Made(r, at) ==
  /\ r \in Keys /\ IsMonday(r.week)
  /\ DayAt(at) >= r.week - 7
  /\ at >= FirstHour(r)

Sent(m) ==
  /\ m.row \in created \ pending
  /\ m.at \in Int /\ m.at <= clock
  /\ Made(m.row, m.at)
  /\ m.at < FirstHour(m.row) + DayLength \/ m.row \in stranded
  /\ m.named = NamedBy(m.row.week, zone)
  /\ \A n \in messages : n.row = m.row => n = m

MailOK ==
  /\ \A r \in created : Made(r, clock)
  /\ pending \subseteq created /\ pending \subseteq stranded /\ stranded \subseteq created
  /\ \A m \in messages : Sent(m)

IInv == ClockOK /\ WeeksOK /\ MailOK

-----------------------------------------------------------------------------
LEMMA ZoneIsOffset ==
  ASSUME ClockOK
  PROVE  zone \in Int /\ -DayLength < zone /\ zone < DayLength
BY ShopWeekAssumption DEF ClockOK

LEMMA DayIsInt ==
  ASSUME ClockOK, NEW at \in Int
  PROVE  DayAt(at) \in Int /\ Time(at, zone) \in Times
<1>1. zone \in Int
  BY ZoneIsOffset
<1>2. Time(at, zone) \in Times /\ Time(at, zone).at + Time(at, zone).zone \in Int
  BY <1>1 DEF Time, Times
<1> QED
  BY <1>2, DayArithmetic DEF DayAt, DateOf

\* Days do not go back.
LEMMA DaysGoOn ==
  ASSUME ClockOK, NEW at \in Int, NEW later \in Int, at <= later
  PROVE  DayAt(at) <= DayAt(later)
<1>1. zone \in Int
  BY ZoneIsOffset
<1>2. (at + zone) \div DayLength <= (later + zone) \div DayLength
  BY <1>1 DEF DayLength
<1> QED
  BY <1>2 DEF DayAt, DateOf, Time

\* The week after an instant is the Monday among the next seven days.
LEMMA FollowingWeek ==
  ASSUME ClockOK, NEW at \in Int
  PROVE  /\ Following(at) \in (DayAt(at) + 1)..(DayAt(at) + 7)
         /\ Following(at) \in Int
         /\ IsMonday(Following(at))
         /\ nextMonday(Time(at, zone)) = Date(Following(at), 0, zone)
         /\ targetWeekStart(Time(at, zone), zone) = Date(Following(at), 0, zone)
<1>1. Time(at, zone) \in Times /\ Time(at, zone).zone = zone /\ DayAt(at) \in Int
  BY DayIsInt DEF Time
<1> QED
  BY <1>1, NextMondayIsNext DEF Following, Column, DayAt

LEMMA NowIsClock ==
  ASSUME ClockOK
  PROVE  Now = Time(clock, zone)
BY DEF Now, In, Time

\* What depends on the zone alone stays.
LEMMA ZoneKept ==
  ASSUME zone' = zone
  PROVE  /\ \A at : DayAt(at)' = DayAt(at) /\ Following(at)' = Following(at)
         /\ \A day : WholeDay(day)' = WholeDay(day)
         /\ \A r : FirstHour(r)' = FirstHour(r)
BY DEF DayAt, Following, WholeDay, FirstHour

LEMMA WrittenKept ==
  ASSUME zone' = zone, NEW x, NEW at
  PROVE  Written(x, at)' <=> Written(x, at)
BY ZoneKept DEF Written

LEMMA HourIsInt ==
  ASSUME ClockOK, NEW r \in Keys
  PROVE  FirstHour(r) \in Int
<1>1. zone \in Int /\ r.week \in Int
  BY ZoneIsOffset DEF Keys
<1> QED
  BY <1>1 DEF FirstHour, Date, Time, DayLength

\* What was made in time stays so.
LEMMA MadeKept ==
  ASSUME ClockOK, zone' = zone, NEW r, NEW at
  PROVE  Made(r, at)' <=> Made(r, at)
BY ZoneKept DEF Made

LEMMA MadeStays ==
  ASSUME ClockOK, zone' = zone, clock' \in Int, clock <= clock', NEW r, Made(r, clock)
  PROVE  Made(r, clock)'
<1>1. r \in Keys /\ r.week \in Int
  BY DEF Made, Keys
<1>2. DayAt(clock) <= DayAt(clock') /\ DayAt(clock) \in Int /\ DayAt(clock') \in Int
  BY DaysGoOn, DayIsInt DEF ClockOK
<1>3. DayAt(clock)' = DayAt(clock')
  BY DEF DayAt
<1>4. FirstHour(r) \in Int /\ FirstHour(r)' = FirstHour(r)
  BY <1>1, HourIsInt, ZoneKept
<1>5. DayAt(clock)' >= r.week - 7 /\ clock' >= FirstHour(r)'
  BY <1>1, <1>2, <1>3, <1>4 DEF Made, ClockOK
<1> QED
  BY <1>1, <1>5 DEF Made

\* Steps that leave a group of tables alone.
LEMMA WeeksKept ==
  ASSUME WeeksOK, zone' = zone, UNCHANGED weekVars
  PROVE  WeeksOK'
<1>1. drafts' = drafts /\ answers' = answers /\ plans' = plans
  BY DEF weekVars
<1> QED
  BY <1>1, WrittenKept DEF WeeksOK

LEMMA MailKept ==
  ASSUME ClockOK, MailOK, zone' = zone, clock' \in Int, clock <= clock',
         UNCHANGED tickVars
  PROVE  MailOK'
<1>1. UNCHANGED <<created, pending, messages, stranded>>
  BY DEF tickVars
<1>2. \A r \in created : Made(r, clock)'
  BY MadeStays DEF MailOK
<1>3. \A m \in messages' : Sent(m)'
  <2> SUFFICES ASSUME NEW m \in messages PROVE Sent(m)'
    BY <1>1
  <2>1. Sent(m)
    BY DEF MailOK
  <2>2. Made(m.row, m.at)'
    BY <2>1, MadeKept DEF Sent
  <2>3. m.at <= clock'
    BY <2>1 DEF Sent, ClockOK
  <2> QED
    BY <1>1, <2>1, <2>2, <2>3, ZoneKept DEF Sent
<1> QED
  BY <1>1, <1>2, <1>3 DEF MailOK

-----------------------------------------------------------------------------
(* Every step keeps it.                                                    *)

\* The invariant holds at the start.
THEOREM InitIInv == Init => IInv
<1> SUFFICES ASSUME Init PROVE IInv
  OBVIOUS
<1>1. zone \in Int
  BY ShopWeekAssumption DEF Init
<1>2. ClockOK
  <2>1. PICK m \in Moments : clock = m - zone
    BY DEF Init
  <2>2. clock \in Int
    BY <1>1, <2>1, ShopWeekAssumption
  <2> QED
    BY <2>2 DEF Init, ClockOK
<1>3. WeeksOK /\ MailOK
  BY DEF Init, WeeksOK, MailOK
<1> QED
  BY <1>2, <1>3 DEF IInv

LEMMA WholeDayIsDay ==
  ASSUME ClockOK, NEW day \in Int
  PROVE  /\ WholeDay(day).start = day * DayLength - zone
         /\ WholeDay(day).end = (day + 1) * DayLength - zone
         /\ WholeDay(day) \in Slots
         /\ DayAt(WholeDay(day).start) = day
<1>1. zone \in Int
  BY ZoneIsOffset
<1>2. Date(day, 0, zone).at = day * DayLength - zone
  BY <1>1, MidnightRoundTrip
<1>3. Date(day + 1, 0, zone).at = (day + 1) * DayLength - zone
  BY <1>1, MidnightRoundTrip
<1>4. Time(Date(day, 0, zone).at, zone) = Date(day, 0, zone)
  BY DEF Date, Time
<1>5. DateOf(Date(day, 0, zone)) = day
  BY <1>1, MidnightRoundTrip
<1> QED
  BY <1>1, <1>2, <1>3, <1>4, <1>5 DEF WholeDay, Slots, DayAt, DayLength

\* A slot the bot accepts lies in the week after the message.
LEMMA AcceptedDay ==
  ASSUME ClockOK, NEW day \in Int, ValidSlot(WholeDay(day), nextMonday(Now))
  PROVE  day \in Following(clock)..(Following(clock) + 6)
<1> DEFINE w == Following(clock)
           monday == Date(w, 0, zone)
<1>1. w \in Int /\ nextMonday(Now) = monday /\ zone \in Int
  BY FollowingWeek, NowIsClock, ZoneIsOffset DEF ClockOK
<1> HIDE DEF w
<1>2. monday.at = w * DayLength - zone
  BY <1>1, MidnightRoundTrip
<1>3. AddDate(monday, 7) = Date(w + 7, 0, zone)
  BY <1>1, MidnightRoundTrip DEF AddDate
<1>4. AddDate(monday, 7).at = (w + 7) * DayLength - zone
  BY <1>1, <1>3, MidnightRoundTrip
<1>5. /\ WholeDay(day).start < AddDate(monday, 7).at
      /\ WholeDay(day).end > monday.at
  BY <1>1 DEF ValidSlot, Intersects
<1>6. /\ day * DayLength - zone < (w + 7) * DayLength - zone
      /\ (day + 1) * DayLength - zone > w * DayLength - zone
  BY <1>2, <1>4, <1>5, WholeDayIsDay
<1>7. day < w + 7 /\ w < day + 1
  BY <1>1, <1>6 DEF DayLength
<1>8. day \in w..(w + 6)
  BY <1>1, <1>7
<1> QED
  BY <1>8 DEF w

LEMMA MessageKeeps ==
  ASSUME IInv, NEW e \in Employees, NEW day \in Int, Message(e, day)
  PROVE  IInv'
<1> DEFINE new == [emp |-> e, week |-> Following(clock), slot |-> WholeDay(day), made |-> clock]
<1>1. /\ drafts' = drafts \cup {new}
      /\ UNCHANGED <<zone, clock, active, answers, plans, tickVars>>
      /\ ValidSlot(WholeDay(day), nextMonday(Now))
  BY NowIsClock DEF Message, Following, IInv
<1>2. ClockOK' /\ MailOK'
  BY <1>1, MailKept DEF IInv, ClockOK
<1>3. new \in [emp : Employees, week : Int, slot : Slots, made : Int]
  BY FollowingWeek, WholeDayIsDay DEF IInv, ClockOK
<1>4. Written(new, new.made)
  <2>1. day \in Following(clock)..(Following(clock) + 6)
    BY <1>1, AcceptedDay DEF IInv
  <2> QED
    BY <2>1 DEF Written, IInv, ClockOK
<1>5. WeeksOK'
  <2> HIDE DEF new
  <2>1. \A d \in drafts' :
          d \in [emp : Employees, week : Int, slot : Slots, made : Int] /\ Written(d, d.made)
    BY <1>1, <1>3, <1>4 DEF IInv, WeeksOK
  <2> QED
    BY <1>1, <2>1, WrittenKept DEF IInv, WeeksOK
<1> QED
  BY <1>2, <1>5 DEF IInv

\* A date column gives back the date it was given.
LEMMA ColumnKeepsDate ==
  ASSUME NEW date \in Int
  PROVE  Column(Read(date)) = date
BY MidnightRoundTrip DEF Column, Read, UTC

LEMMA ConfirmKeeps ==
  ASSUME IInv, NEW d \in drafts, Confirm(d)
  PROVE  IInv'
<1> DEFINE new == [emp |-> d.emp, week |-> d.week, slot |-> d.slot, written |-> d.made]
<1>1. d \in [emp : Employees, week : Int, slot : Slots, made : Int] /\ Written(d, d.made)
  BY DEF IInv, WeeksOK
<1>2. WeekOf(d) = d.week
  BY <1>1, ColumnKeepsDate DEF WeekOf
<1>3. /\ answers' = Others(d.emp, d.week) \cup {new}
      /\ drafts' = drafts \ {d}
      /\ UNCHANGED <<zone, clock, active, plans, tickVars>>
  BY <1>2 DEF Confirm
<1>4. ClockOK' /\ MailOK'
  BY <1>3, MailKept DEF IInv, ClockOK
<1>5. /\ new \in [emp : Employees, week : Int, slot : Slots, written : Int]
      /\ Written(new, new.written)
  BY <1>1 DEF Written
<1>6. WeeksOK'
  <2> HIDE DEF new
  <2>1. \A a \in answers' :
          a \in [emp : Employees, week : Int, slot : Slots, written : Int] /\ Written(a, a.written)
    BY <1>3, <1>5 DEF IInv, WeeksOK, Others
  <2> QED
    BY <1>3, <2>1, WrittenKept DEF IInv, WeeksOK
<1> QED
  BY <1>4, <1>6 DEF IInv

LEMMA DiscardKeeps ==
  ASSUME IInv, NEW d \in drafts, Discard(d)
  PROVE  IInv'
<1>1. /\ drafts' = drafts \ {d}
      /\ UNCHANGED <<zone, clock, active, answers, plans, tickVars>>
  BY DEF Discard
<1>2. ClockOK' /\ MailOK'
  BY <1>1, MailKept DEF IInv, ClockOK
<1>3. WeeksOK'
  BY <1>1, WrittenKept DEF IInv, WeeksOK
<1> QED
  BY <1>2, <1>3 DEF IInv

LEMMA GenerateKeeps ==
  ASSUME IInv, NEW date \in Int, Generate(date)
  PROVE  IInv'
<1> DEFINE week == Column(WeekStart(parseWeek(date, zone), zone))
<1>1. UNCHANGED <<zone, clock, active, drafts, answers, tickVars>>
  BY DEF Generate
<1>2. \A p \in plans' \ plans : p.week = week
  BY DEF Generate
<1>3. IsMonday(week)
  BY WeekOfPickedDate, ZoneIsOffset DEF IInv
<1>4. ClockOK' /\ MailOK'
  BY <1>1, MailKept DEF IInv, ClockOK
<1>5. WeeksOK'
  BY <1>1, <1>2, <1>3, WrittenKept DEF IInv, WeeksOK
<1> QED
  BY <1>4, <1>5 DEF IInv

\* A row a tick creates is about the week that follows, within its hours.
LEMMA DueRow ==
  ASSUME ClockOK, NEW r \in Due
  PROVE  Made(r, clock) /\ clock < FirstHour(r) + DayLength
<1> DEFINE F == Following(clock)
           target == targetWeekStart(Now, zone)
<1>1. /\ F \in Int /\ IsMonday(F) /\ F \in (DayAt(clock) + 1)..(DayAt(clock) + 7)
      /\ target = Date(F, 0, zone)
      /\ DayAt(clock) \in Int /\ zone \in Int
  BY FollowingWeek, NowIsClock, DayIsInt, ZoneIsOffset DEF ClockOK
<1> HIDE DEF F
<1>2. Column(target) = F
  BY <1>1, MidnightRoundTrip DEF Column
<1>3. /\ reminderDueAt(target, zone) = Date(F - 4, 600, zone)
      /\ nagDueAt(target, zone) = Date(F - 2, 600, zone)
  BY <1>1, DueAtIsTen DEF reminderDueAt, nagDueAt
<1>4. PICK e \in Employees, days \in {2, 4} :
        /\ r = [emp |-> e, week |-> F, kind |-> IF days = 4 THEN "reminder" ELSE "nag"]
        /\ isDue(Now, Date(F - days, 600, zone))
  <2> HIDE DEF target
  <2>1. CASE r \in Rows(active, F, "reminder") /\ isDue(Now, reminderDueAt(target, zone))
    BY <1>3, <2>1 DEF Rows, ClockOK
  <2>2. CASE r \in Rows(active \ {a.emp : a \in {x \in answers : x.week = F}}, F, "nag")
             /\ isDue(Now, nagDueAt(target, zone))
    <3>1. PICK e \in active : r = [emp |-> e, week |-> F, kind |-> "nag"]
      BY <2>2 DEF Rows
    <3>2. e \in Employees
      BY DEF ClockOK
    <3> QED
      BY <1>3, <2>2, <3>1, <3>2
  <2>3. \/ r \in Rows(active, F, "reminder") /\ isDue(Now, reminderDueAt(target, zone))
        \/ /\ r \in Rows(active \ {a.emp : a \in {x \in answers : x.week = F}}, F, "nag")
           /\ isDue(Now, nagDueAt(target, zone))
    BY <1>2 DEF Due, target
  <2> QED
    BY <2>1, <2>2, <2>3
<1>5. FirstHour(r) = Date(F - days, 600, zone).at
  BY <1>4 DEF FirstHour
<1>6. clock >= FirstHour(r) /\ clock < FirstHour(r) + DayLength
  <2>1. Now.at = clock
    BY NowIsClock DEF Time
  <2> QED
    BY <1>4, <1>5, <2>1 DEF isDue, reminderWindow, DayLength
<1>7. r \in Keys /\ r.week = F
  BY <1>1, <1>4 DEF Keys, Kinds
<1> QED
  BY <1>1, <1>6, <1>7 DEF Made

LEMMA TickKeeps ==
  ASSUME IInv, Tick
  PROVE  IInv'
<1> DEFINE todo == pending \cup NewRows
<1>1. PICK got \in SUBSET todo, failed \in SUBSET todo :
        /\ created' = created \cup Due
        /\ pending' = todo \ (got \cup failed)
        /\ stranded' = stranded \cup pending'
        /\ messages' = messages \cup
             {[row |-> r, at |-> clock, named |-> NamedBy(r.week, zone)] : r \in got}
        /\ UNCHANGED <<zone, clock, active, weekVars>>
  BY DEF Tick
<1>2. todo \subseteq created \cup Due /\ \A r \in created \ pending : r \notin todo
  BY DEF NewRows, IInv, MailOK
<1>3. ClockOK' /\ WeeksOK'
  BY <1>1, WeeksKept DEF IInv, ClockOK
<1>4. \A r \in created' : Made(r, clock)'
  <2> SUFFICES ASSUME NEW r \in created \cup Due PROVE Made(r, clock)'
    BY <1>1
  <2>1. Made(r, clock)
    BY DueRow DEF IInv, MailOK
  <2> QED
    BY <1>1, <2>1, MadeStays DEF IInv, ClockOK
<1>5. pending' \subseteq created' /\ pending' \subseteq stranded' /\ stranded' \subseteq created'
  BY <1>1, <1>2 DEF IInv, MailOK
<1>6. ASSUME NEW m \in messages PROVE Sent(m)'
  <2>1. Sent(m)
    BY DEF IInv, MailOK
  <2>2. m.row \in created' \ pending'
    BY <1>1, <1>2, <2>1 DEF Sent
  <2>3. \A n \in messages' : n.row = m.row => n = m
    BY <1>1, <1>2, <2>1 DEF Sent
  <2>4. Made(m.row, m.at)'
    BY <1>1, <2>1, MadeKept DEF Sent, IInv
  <2>5. m.at < FirstHour(m.row)' + DayLength \/ m.row \in stranded'
    BY <1>1, <2>1, ZoneKept DEF Sent
  <2> QED
    BY <1>1, <2>1, <2>2, <2>3, <2>4, <2>5 DEF Sent
<1>7. ASSUME NEW r \in got
      PROVE  Sent([row |-> r, at |-> clock, named |-> NamedBy(r.week, zone)])'
  <2> DEFINE m == [row |-> r, at |-> clock, named |-> NamedBy(r.week, zone)]
  <2>1. r \in created' \ pending'
    BY <1>1, <1>2
  <2>2. Made(r, clock)
    BY <1>2, DueRow DEF IInv, MailOK
  <2>3. Made(r, clock)'
    BY <1>1, <2>2, MadeStays DEF IInv, ClockOK
  <2>4. clock < FirstHour(r)' + DayLength \/ r \in stranded'
    <3>1. CASE r \in pending
      BY <1>1, <3>1 DEF IInv, MailOK
    <3>2. CASE r \in Due
      BY <1>1, <3>2, DueRow, ZoneKept DEF IInv
    <3> QED
      BY <3>1, <3>2 DEF NewRows
  <2>5. \A n \in messages' : n.row = r => n = m
    <3>1. \A n \in messages : n.row # r
      BY <1>2 DEF IInv, MailOK, Sent
    <3> QED
      BY <1>1, <3>1
  <2>6. clock \in Int /\ clock <= clock
    BY DEF IInv, ClockOK
  <2>7. Made(r, m.at)'
    <3>1. Made(r, clock)' <=> Made(r, m.at)'
      BY <1>1 DEF Made, DayAt, FirstHour
    <3> QED
      BY <2>3, <3>1
  <2> QED
    BY <1>1, <2>1, <2>4, <2>5, <2>6, <2>7 DEF Sent
<1>8. MailOK'
  BY <1>1, <1>4, <1>5, <1>6, <1>7 DEF MailOK
<1> QED
  BY <1>3, <1>8 DEF IInv

LEMMA AdvanceKeeps ==
  ASSUME IInv, Advance
  PROVE  IInv'
<1>1. PICK m \in Moments : m - zone > clock /\ clock' = m - zone
  BY DEF Advance
<1>2. UNCHANGED <<zone, active, weekVars, tickVars>>
  BY DEF Advance
<1>3. clock' \in Int /\ clock <= clock'
  BY <1>1, ZoneIsOffset, ShopWeekAssumption DEF IInv, ClockOK
<1>4. ClockOK' /\ WeeksOK' /\ MailOK'
  BY <1>2, <1>3, WeeksKept, MailKept DEF IInv, ClockOK
<1> QED
  BY <1>4 DEF IInv

LEMMA SetActiveKeeps ==
  ASSUME IInv, NEW e \in Employees, SetActive(e)
  PROVE  IInv'
<1>1. /\ active' \subseteq Employees
      /\ UNCHANGED <<zone, clock, weekVars, tickVars>>
  BY DEF SetActive, IInv, ClockOK
<1>2. ClockOK' /\ WeeksOK' /\ MailOK'
  BY <1>1, WeeksKept, MailKept DEF IInv, ClockOK
<1> QED
  BY <1>2 DEF IInv

\* No step, of whomever, disturbs the invariant.
THEOREM NextIInv == IInv /\ [Next]_vars => IInv'
<1> SUFFICES ASSUME IInv, [Next]_vars PROVE IInv'
  OBVIOUS
<1>1. CASE Advance
  BY <1>1, AdvanceKeeps
<1>2. CASE \E e \in Employees : SetActive(e)
  BY <1>2, SetActiveKeeps
<1>3. CASE \E e \in Employees, day \in FormDates : Message(e, day)
  BY <1>3, MessageKeeps, ShopWeekAssumption
<1>4. CASE \E d \in drafts : Confirm(d) \/ Discard(d)
  BY <1>4, ConfirmKeeps, DiscardKeeps
<1>5. CASE Tick
  BY <1>5, TickKeeps
<1>6. CASE \E date \in FormDates : Generate(date)
  BY <1>6, GenerateKeeps, ShopWeekAssumption
<1>7. CASE UNCHANGED vars
  <2>1. UNCHANGED <<zone, clock, active, weekVars, tickVars>>
    BY <1>7 DEF vars
  <2>2. ClockOK' /\ WeeksOK' /\ MailOK'
    BY <2>1, WeeksKept, MailKept DEF IInv, ClockOK
  <2> QED
    BY <2>2 DEF IInv
<1> QED
  BY <1>1, <1>2, <1>3, <1>4, <1>5, <1>6, <1>7 DEF Next

\* The invariant holds in every reachable state.
THEOREM ShopWeekInvariant == Spec => []IInv
BY InitIInv, NextIInv, PTL DEF Spec

-----------------------------------------------------------------------------
(* What follows.                                                           *)

\* Every variable has its type and every week in a table is a Monday's date.
THEOREM ShopWeekTypeCorrect == Spec => []TypeOK
<1>1. IInv => TypeOK
  <2> SUFFICES ASSUME IInv PROVE TypeOK
    OBVIOUS
  <2>1. \A x \in drafts \cup answers : IsMonday(x.week)
    BY FollowingWeek DEF IInv, WeeksOK, Written
  <2>2. created \subseteq Keys /\ \A x \in created : IsMonday(x.week)
    BY DEF IInv, MailOK, Made
  <2>3. \A m \in messages : m.row \in created /\ m.at \in Int
    BY DEF IInv, MailOK, Sent
  <2>4. pending \subseteq created /\ stranded \subseteq created
    BY DEF IInv, MailOK
  <2> QED
    BY <2>1, <2>2, <2>3, <2>4 DEF TypeOK, IInv, ClockOK, WeeksOK
<1> QED
  BY <1>1, ShopWeekInvariant, PTL

\* East of Greenwich, in every zone, an answer given after a reminder about a
\* week and before that week counts for it: a row is made within the seven days
\* before its week, so the Monday after the answer is that week's own.
THEOREM RepliesAlwaysCount == Spec => []RepliesCountForTheWeekNamed
<1>1. IInv => RepliesCountForTheWeekNamed
  <2> SUFFICES ASSUME IInv, zone >= 0, NEW m \in messages, NEW a \in answers,
                      m.at <= a.written, DayAt(a.written) < m.named[1]
               PROVE  a.week = m.named[1]
    BY DEF RepliesCountForTheWeekNamed
  <2> DEFINE week == m.row.week
  <2>1. ClockOK /\ zone \in Int /\ zone < DayLength
    BY ZoneIsOffset DEF IInv
  <2>2. /\ week \in Int /\ IsMonday(week) /\ m.at \in Int
        /\ DayAt(m.at) >= week - 7 /\ m.named = NamedBy(week, zone)
    BY DEF IInv, MailOK, Sent, Made, Keys
  <2>3. a.written \in Int /\ a.week = Following(a.written)
    BY DEF IInv, WeeksOK, Written
  <2> HIDE DEF week
  <2>4. m.named = <<week, week + 6>>
    BY <2>1, <2>2, DateReadBack
  <2>5. m.named[1] = week
    BY <2>4
  <2>6. /\ DayAt(a.written) \in Int /\ DayAt(m.at) \in Int
        /\ DayAt(m.at) <= DayAt(a.written)
    BY <2>1, <2>2, <2>3, DayIsInt, DaysGoOn
  <2>7. week \in (DayAt(a.written) + 1)..(DayAt(a.written) + 7)
    BY <2>2, <2>5, <2>6
  <2>8. /\ a.week \in (DayAt(a.written) + 1)..(DayAt(a.written) + 7)
        /\ IsMonday(a.week)
    BY <2>1, <2>3, FollowingWeek
  <2> QED
    BY <2>2, <2>5, <2>6, <2>7, <2>8, OneMondayAhead
<1> QED
  BY <1>1, ShopWeekInvariant, PTL

\* However the worker's ticks, its deaths and people's answers interleave,
\* nobody is asked twice of a kind about a week, or outside its hours unless
\* the row was left behind.
THEOREM AskedOnlyOnceInTime == Spec => []AskedOnceInTime
<1>1. IInv => AskedOnceInTime
  <2> SUFFICES ASSUME IInv PROVE AskedOnceInTime
    OBVIOUS
  <2>1. \A m \in messages : Sent(m)
    BY DEF IInv, MailOK
  <2> QED
    BY <2>1 DEF AskedOnceInTime, Sent, Made
<1> QED
  BY <1>1, ShopWeekInvariant, PTL

\* A shift date is a day of the week, and every day of the week is one.
LEMMA ShiftDateIsDay ==
  ASSUME NEW w \in Int, NEW z \in Int, NEW k \in 0..6
  PROVE  /\ shiftDate(Date(w, 0, z), k) = Date(w + (IF k = 0 THEN 6 ELSE k - 1), 0, z)
         /\ Column(shiftDate(Date(w, 0, z), k)) = w + (IF k = 0 THEN 6 ELSE k - 1)
<1> DEFINE days == IF k = 0 THEN 6 ELSE k - 1
<1>1. days \in Int /\ w + days \in Int
  OBVIOUS
<1> HIDE DEF days
<1>2. AddDate(Date(w, 0, z), days) = Date(w + days, 0, z)
  BY <1>1, MidnightRoundTrip DEF AddDate
<1>3. DateOf(Date(w + days, 0, z)) = w + days
  BY <1>1, MidnightRoundTrip
<1> QED
  BY <1>2, <1>3 DEF shiftDate, Column, days

\* The instant of a clock time on a day.
LEMMA ClockOnDay ==
  ASSUME ClockOK, NEW day \in Int, NEW clk \in 0..(DayLength - 1)
  PROVE  ClockOn(Date(day, 0, zone), clk) = day * DayLength + clk - zone
<1>1. zone \in Int
  BY ZoneIsOffset
<1>2. In(Date(day, 0, zone), zone) = Date(day, 0, zone)
  BY DEF In, Date, Time
<1>3. DateOf(Date(day, 0, zone)) = day
  BY <1>1, MidnightRoundTrip
<1> QED
  BY <1>1, <1>2, <1>3, DateRoundTrip DEF ClockOn

\* Whoever offers a day of the week offers the shift of that day and no other.
LEMMA OfferedIsDay ==
  ASSUME ClockOK, NEW w \in Int, NEW day \in w..(w + 6)
  PROVE  OfferedDays(Date(w, 0, zone), WholeDay(day)) = {day}
<1> DEFINE start == Date(w, 0, zone)
           slot  == WholeDay(day)
           Fits(x) == slot.start <= ClockOn(x, ShiftFrom) /\ ClockOn(x, ShiftTo) <= slot.end
           Shift(k) == shiftDate(start, k)
<1>1. zone \in Int /\ day \in Int
  BY ZoneIsOffset
<1>2. ASSUME NEW k \in 0..6
      PROVE  Fits(Shift(k)) <=> Column(Shift(k)) = day
  <2> DEFINE x == w + (IF k = 0 THEN 6 ELSE k - 1)
  <2>1. Shift(k) = Date(x, 0, zone) /\ Column(Shift(k)) = x
    BY <1>1, ShiftDateIsDay
  <2>2. x \in Int
    OBVIOUS
  <2> HIDE DEF x
  <2>3. /\ ClockOn(Date(x, 0, zone), ShiftFrom) = x * DayLength + 480 - zone
        /\ ClockOn(Date(x, 0, zone), ShiftTo) = x * DayLength + 840 - zone
    <3>1. ShiftFrom = 480 /\ ShiftTo = 840
      BY DEF ShiftFrom, ShiftTo
    <3>2. 480 \in 0..(DayLength - 1) /\ 840 \in 0..(DayLength - 1)
      BY DEF DayLength
    <3> QED
      BY <2>2, <3>1, <3>2, ClockOnDay
  <2>4. slot.start = day * DayLength - zone /\ slot.end = (day + 1) * DayLength - zone
    BY <1>1, WholeDayIsDay
  <2>5. (/\ day * DayLength - zone <= x * DayLength + 480 - zone
         /\ x * DayLength + 840 - zone <= (day + 1) * DayLength - zone) <=> x = day
    BY <1>1, <2>2 DEF DayLength
  <2> QED
    BY <2>1, <2>3, <2>4, <2>5
<1>3. \E k \in 0..6 : Column(Shift(k)) = day
  <2> DEFINE n == IF day = w + 6 THEN 0 ELSE day - w + 1
  <2>1. n \in 0..6 /\ w + (IF n = 0 THEN 6 ELSE n - 1) = day
    BY <1>1
  <2> QED
    BY <1>1, <2>1, ShiftDateIsDay
<1>4. OfferedDays(start, slot) =
        {Column(x) : x \in {y \in {Shift(k) : k \in 0..6} : Fits(y)}}
  BY DEF OfferedDays
<1> HIDE DEF Fits, Shift
<1>5. {Column(x) : x \in {y \in {Shift(k) : k \in 0..6} : Fits(y)}} = {day}
  BY <1>2, <1>3
<1> QED
  BY <1>4, <1>5

\* Every plan made finds the answers written in the seven days before its week
\* and no others, at whatever hours and in whatever zone they were written.
THEOREM PlansAlwaysFindTheAnswers == Spec => PlansFindTheAnswers
<1> DEFINE Found(p) ==
      /\ IsMonday(p.week) /\ p.picked \in p.week..(p.week + 6)
      /\ \A e \in p.team, day \in p.week..(p.week + 6) :
           /\ <<e, day>> \in p.offers <=>
                \E a \in answers :
                  /\ a.emp = e /\ DayAt(a.slot.start) = day
                  /\ DayAt(a.written) \in (p.week - 7)..(p.week - 1)
           /\ zone >= 0 => ShownOn(day, zone) = day
<1>1. ASSUME IInv, NEW date \in FormDates, Generate(date), NEW p \in plans' \ plans
      PROVE  Found(p)
  <2> DEFINE start == WeekStart(parseWeek(date, zone), zone)
             week  == Column(start)
  <2>1. /\ p.week = week /\ p.picked = date /\ p.team = active
        /\ p.offers = {o \in active \X (week..(week + 6)) :
             \E a \in AnswerFor(o[1], week) : o[2] \in OfferedDays(start, a.slot)}
    BY <1>1 DEF Generate
  <2>2. date \in Int /\ zone \in Int /\ ClockOK
    BY <1>1, ZoneIsOffset, ShopWeekAssumption DEF IInv
  <2>3. /\ week \in Int /\ IsMonday(week) /\ date \in week..(week + 6)
        /\ start = Date(week, 0, zone)
    BY <2>2, WeekOfPickedDate
  <2> HIDE DEF start, week
  <2>4. ASSUME NEW a \in answers
        PROVE  /\ a.week = week <=> DayAt(a.written) \in (week - 7)..(week - 1)
               /\ a.week = week =>
                    \A day \in Int : day \in OfferedDays(start, a.slot) <=>
                                       DayAt(a.slot.start) = day
    <3>1. /\ a.written \in Int /\ a.week = Following(a.written) /\ a.week \in Int
          /\ \E day \in a.week..(a.week + 6) : a.slot = WholeDay(day)
      BY <1>1 DEF IInv, WeeksOK, Written
    <3>2. /\ a.week \in (DayAt(a.written) + 1)..(DayAt(a.written) + 7)
          /\ IsMonday(a.week) /\ DayAt(a.written) \in Int
      BY <2>2, <3>1, FollowingWeek, DayIsInt
    <3>3. a.week = week <=> DayAt(a.written) \in (week - 7)..(week - 1)
      <4>1. ASSUME DayAt(a.written) \in (week - 7)..(week - 1) PROVE a.week = week
        <5>1. week \in (DayAt(a.written) + 1)..(DayAt(a.written) + 7)
          BY <2>3, <3>2, <4>1
        <5> QED
          BY <2>3, <3>2, <5>1, OneMondayAhead
      <4>2. ASSUME a.week = week PROVE DayAt(a.written) \in (week - 7)..(week - 1)
        BY <2>3, <3>2, <4>2
      <4> QED
        BY <4>1, <4>2
    <3>4. ASSUME a.week = week, NEW day \in Int
          PROVE  day \in OfferedDays(start, a.slot) <=> DayAt(a.slot.start) = day
      <4>1. PICK d \in week..(week + 6) : a.slot = WholeDay(d)
        BY <3>1, <3>4
      <4>2. OfferedDays(start, a.slot) = {d}
        BY <2>2, <2>3, <4>1, OfferedIsDay
      <4>3. DayAt(a.slot.start) = d
        BY <2>2, <2>3, <4>1, WholeDayIsDay
      <4> QED
        BY <4>2, <4>3
    <3> QED
      BY <3>3, <3>4
  <2>5. ASSUME NEW e \in p.team, NEW day \in p.week..(p.week + 6)
        PROVE  /\ <<e, day>> \in p.offers <=>
                    \E a \in answers :
                      /\ a.emp = e /\ DayAt(a.slot.start) = day
                      /\ DayAt(a.written) \in (p.week - 7)..(p.week - 1)
               /\ zone >= 0 => ShownOn(day, zone) = day
    <3>1. <<e, day>> \in p.offers <=>
            \E a \in AnswerFor(e, week) : day \in OfferedDays(start, a.slot)
      BY <2>1, <2>5
    <3>2. day \in Int
      BY <2>1, <2>3
    <3>3. <<e, day>> \in p.offers <=>
            \E a \in answers : a.emp = e /\ a.week = week /\ DayAt(a.slot.start) = day
      BY <2>4, <3>1, <3>2 DEF AnswerFor
    <3>4. zone >= 0 => ShownOn(day, zone) = day
      BY <2>2, <3>2, ZoneIsOffset, DateReadBack
    <3> QED
      BY <2>1, <2>4, <3>3, <3>4
  <2> QED
    BY <2>1, <2>3, <2>5
<1>2. IInv /\ [Next]_vars => [\A p \in plans' \ plans : Found(p)]_vars
  <2> SUFFICES ASSUME IInv, Next, NEW p \in plans' \ plans PROVE Found(p)
    OBVIOUS
  <2> HIDE DEF Found
  <2>1. CASE \E date \in FormDates : Generate(date)
    BY <1>1, <2>1
  <2>2. CASE plans' = plans
    BY <2>2
  <2>3. Advance => plans' = plans
    BY DEF Advance, weekVars
  <2>4. \A e \in Employees : SetActive(e) => plans' = plans
    BY DEF SetActive, weekVars
  <2>5. \A e \in Employees, day \in FormDates : Message(e, day) => plans' = plans
    BY DEF Message
  <2>6. \A d \in drafts : Confirm(d) \/ Discard(d) => plans' = plans
    BY DEF Confirm, Discard
  <2>7. Tick => plans' = plans
    BY DEF Tick, weekVars
  <2> QED
    BY <2>1, <2>2, <2>3, <2>4, <2>5, <2>6, <2>7 DEF Next
<1>3. Spec => [][\A p \in plans' \ plans : Found(p)]_vars
  BY <1>2, ShopWeekInvariant, PTL DEF Spec
<1> QED
  BY <1>3 DEF PlansFindTheAnswers
=============================================================================
