--------------------------- MODULE ScheduleScore ---------------------------
(***************************************************************************)
(* The soft side of the solver: solver.Scorer and its penalty rules.       *)
(* A schedule maps each shift to the set of employees who work it; a score *)
(* is 2 * n times the code's, n the number of employees, so that the       *)
(* weight 0.5 and the standard deviation of n numbers are integers.        *)
(***************************************************************************)
EXTENDS Integers, FiniteSets, FiniteSetsExt

CONSTANTS
  Employees, Shifts,
  Hours,       \* Hours[s]: how long shift s is
  Weekday,     \* Weekday[s]: the day it starts on
  MinStaff,    \* MinStaff[s]: how many it needs
  Preference,  \* Preference[e, s]: 0 unavailable, 1 available, 2 preferred
  Rules        \* the shop's rules: [kind |-> "avoid_pair", a, b, weight], with
               \* two employees, and [kind |-> "day_off", employee, weekday, weight]

N == Cardinality(Employees)

\* candidatePresets, twice their value.
Weights == [
  balanced        |-> [preference |-> 4, fairness |-> 2, coverage |-> 200],
  fairnessFirst   |-> [preference |-> 2, fairness |-> 6, coverage |-> 200],
  preferenceFirst |-> [preference |-> 8, fairness |-> 1, coverage |-> 200]]

WorkedBy(sched, e) == {s \in Shifts : e \in sched[s]}
HoursFor(sched, e) == MapThenSumSet(LAMBDA s : Hours[s], WorkedBy(sched, e))

\* The shifts a rule counts: where two people work together, or where one
\* works on the day off.
Penalised(rule, sched) ==
  IF rule.kind = "avoid_pair"
  THEN {s \in Shifts : {rule.a, rule.b} \subseteq sched[s]}
  ELSE {s \in WorkedBy(sched, rule.employee) : Weekday[s] = rule.weekday}

Penalty(rule, sched) == rule.weight * Cardinality(Penalised(rule, sched))

Missing(sched, s) ==
  IF Cardinality(sched[s]) < MinStaff[s] THEN MinStaff[s] - Cardinality(sched[s]) ELSE 0

PreferredAssignments(sched) ==
  {p \in Employees \X Shifts : p[1] \in sched[p[2]] /\ Preference[p] = 2}

\* N times the standard deviation of the employees' hours, rounded down:
\* Sqrt(N * (sum of squares) - (square of the sum)).
Spread(sched) ==
  LET h(e) == HoursFor(sched, e)
      sum  == MapThenSumSet(h, Employees)
      square == N * MapThenSumSet(LAMBDA e : h(e) * h(e), Employees) - sum * sum
  IN  CHOOSE r \in 0..square : r * r <= square /\ (r + 1) * (r + 1) > square

ScoreOf(preset, sched) ==
  LET w == Weights[preset]
  IN  N * w.preference * Cardinality(PreferredAssignments(sched))
      - N * w.coverage * MapThenSumSet(LAMBDA s : Missing(sched, s), Shifts)
      - w.fairness * Spread(sched)
      - 2 * N * MapThenSumSet(LAMBDA r : Penalty(r, sched), Rules)
=============================================================================
