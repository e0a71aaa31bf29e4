--------------------------- MODULE PlannerConvert ---------------------------
(***************************************************************************)
(* What the planner makes of the shop's rows before it calls the solver:   *)
(* shift templates become shifts of one week, an employee's answer becomes *)
(* a preference per shift, rule rows become penalty rules.                 *)
(*                                                                         *)
(* A time is a number of ticks since Monday 00:00 of the planned week, in  *)
(* the shop's time zone.  An answer is a set of slots                      *)
(* [start, end, preference], whose order does not matter to the code.      *)
(***************************************************************************)
EXTENDS Naturals

CONSTANTS
  DayLength,   \* ticks of a day
  NameKey      \* NameKey[n]: display name n in lower case, without spaces around it

ASSUME PlannerConvertAssumption == DayLength \in Nat \ {0}

-----------------------------------------------------------------------------
(* Shifts.                                                                 *)

SundayFirst(weekday) == weekday  \* bug: days counted from Sunday, as Go does

\* shiftDate: days from Monday; weekday 0 is Sunday, the last day.
DayOf(weekday) == IF weekday = 0 THEN 6 ELSE weekday - 1

\* clockOnDate: the hour `clock` of that day.
At(weekday, clock) == DayOf(weekday) * DayLength + clock

SameDayEnd(t) == At(t.weekday, t.to)  \* bug: the end is never moved to the next day

\* A template that ends at or before its start ends on the next day.
EndOf(t) ==
  LET end == At(t.weekday, t.to)
  IN  IF end > At(t.weekday, t.from) THEN end ELSE end + DayLength

ShiftOf(t) == [start |-> At(t.weekday, t.from), end |-> EndOf(t)]

-----------------------------------------------------------------------------
(* Answers.                                                                *)

\* timesOverlap of slot s and shift x.
TimesOverlap(s, x) == s.start < x.end /\ x.start < s.end

Covers(s, x) == s.start <= x.start /\ x.end <= s.end

\* bug: a refusal only counts when it spans the whole shift
RefusedWhole(answer, x) == \E s \in answer : s.preference = 0 /\ Covers(s, x)
Refused(answer, x)      == \E s \in answer : s.preference = 0 /\ TimesOverlap(s, x)

\* bug: a slot that ends with the shift is taken to end too early
Exceeding(answer, x) == {s \in answer : s.preference > 0 /\ s.start <= x.start /\ x.end < s.end}
Covering(answer, x)  == {s \in answer : s.preference > 0 /\ Covers(s, x)}

\* preferenceForShift: refused if any part is, otherwise the best of the slots
\* that each cover the whole shift; unavailable without one.
PreferenceForShift(answer, x) ==
  IF Refused(answer, x) \/ Covering(answer, x) = {} THEN 0
  ELSE IF \E s \in Covering(answer, x) : s.preference = 2 THEN 2 ELSE 1

-----------------------------------------------------------------------------
(* Rules.  A row is [active, kind, weight, jsonWeight] and, if its JSON has *)
(* "params", also the field params.                                        *)

CaseSensitive(n) == n  \* bug: names compared as they are written
KeyOf(n)         == NameKey[n]

\* mapRules' byName, from the employees' names: a key two share means the one listed last,
\* which may be either.
ByNames(names) ==
  LET team == DOMAIN names
      keys == {KeyOf(names[e]) : e \in team}
  IN  {f \in [keys -> team] : \A k \in keys : KeyOf(names[f[k]]) = k}

\* ruleWeight: the column, else the JSON's weight, else 1.
Weight(row) ==
  IF row.weight > 0 THEN row.weight
  ELSE IF row.jsonWeight > 0 THEN row.jsonWeight ELSE 1

MondayToSunday == 1..7  \* bug: Sunday counted as 7
Weekdays       == 0..6

Known(byName, n) == KeyOf(n) \in DOMAIN byName

\* The rows the solver gets a penalty for; the other active ones are warned
\* about.
Understood(row, byName) ==
  /\ "params" \in DOMAIN row
  /\ \/ /\ row.kind = "avoid_pair"
        /\ Known(byName, row.params.a) /\ Known(byName, row.params.b)
     \/ /\ row.kind = "day_off"
        /\ row.params.weekday \in Weekdays
        /\ Known(byName, row.params.employee)

PenaltyOf(row, byName) ==
  IF row.kind = "avoid_pair"
  THEN [kind |-> row.kind, weight |-> Weight(row),
        a |-> byName[KeyOf(row.params.a)], b |-> byName[KeyOf(row.params.b)]]
  ELSE [kind |-> row.kind, weight |-> Weight(row), weekday |-> row.params.weekday,
        employee |-> byName[KeyOf(row.params.employee)]]
=============================================================================
