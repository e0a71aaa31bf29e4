--------------------------- MODULE ScheduleSearch --------------------------
(***************************************************************************)
(* The solver: GenerateCandidates builds each candidate schedule of a week *)
(* by a greedy assignment and an annealing search, and retries a search    *)
(* that ends in a schedule it has already.  Random choices are choices of  *)
(* the model, and so is the number of annealing iterations.                *)
(*                                                                         *)
(* A schedule maps a shift to the set of its employees: the code's list    *)
(* without its order.  CanAssign refuses someone who is on the shift, so a *)
(* list never repeats anybody.                                             *)
(***************************************************************************)
EXTENDS Integers, Sequences, FiniteSets

CONSTANTS
  Employees, Shifts,
  Start, End,     \* when each shift starts and ends
  MinStaff,       \* how many each shift needs
  MaxStaff,       \* how many it takes; 0 for as many as it needs
  MaxHours,       \* the most each employee works in the week; 0 for no limit
  Preference,     \* Preference[<<e, s>>]: 0 unavailable, 1 available, 2 preferred
  HoursOf,        \* HoursOf[S]: the length of the shifts in S together
  Presets,        \* the weight preset of each candidate, in order
  Score(_, _),    \* Score(preset, sched)
  MaxAttempts     \* searches per candidate (maxAttempts, 4)

Schedules == [Shifts -> SUBSET Employees]
Empty     == [s \in Shifts |-> {}]

\* What Problem.Validate asks of shifts and limits.  Ids are distinct here.
Validate ==
  /\ \A s \in Shifts :
       /\ Start[s] < End[s]
       /\ MinStaff[s] >= 0 /\ (MaxStaff[s] = 0 \/ MaxStaff[s] >= MinStaff[s])
  /\ \A e \in Employees : MaxHours[e] >= 0

ASSUME ScheduleSearchAssumption ==
  /\ IsFiniteSet(Employees)
  /\ Start \in [Shifts -> Int] /\ End \in [Shifts -> Int]
  /\ MinStaff \in [Shifts -> Int] /\ MaxStaff \in [Shifts -> Int]
  /\ MaxHours \in [Employees -> Int]
  /\ Preference \in [Employees \X Shifts -> 0..2]
  /\ Presets \in Seq(STRING) /\ Presets # <<>>
  /\ MaxAttempts \in Nat \ {0}
  /\ Validate

\* HoursOf is the sum of the shifts' lengths.
ASSUME HoursAssumption ==
  /\ HoursOf \in [SUBSET Shifts -> Nat]
  /\ HoursOf[{}] = 0
  /\ \A S \in SUBSET Shifts : \A s \in Shifts \ S :
       HoursOf[S \cup {s}] = HoursOf[S] + HoursOf[{s}]

ASSUME ScoreAssumption ==
  \A i \in 1..Len(Presets) : \A sched \in Schedules : Score(Presets[i], sched) \in Int

VARIABLES
  phase,     \* "greedy", "anneal" or "done"
  unfilled,  \* shifts Greedy has still to fill
  start,     \* the schedule Greedy ended with
  cur, best, \* the schedule of the search and the best one it has seen
  attempt,   \* the search for the candidate under way
  found      \* the schedules of the candidates so far

vars == <<phase, unfilled, start, cur, best, attempt, found>>

-----------------------------------------------------------------------------
(* Hard constraints.                                                       *)

Overlaps(s, t) == Start[s] < End[t] /\ Start[t] < End[s]
Capacity(s)    == IF MaxStaff[s] = 0 THEN MinStaff[s] ELSE MaxStaff[s]

WorkedBy(sched, e) == {s \in Shifts : e \in sched[s]}
HoursFor(sched, e) == HoursOf[WorkedBy(sched, e)]

HoursWithout(sched, e, s) == HoursFor(sched, e)  \* bug: the new shift not counted
HoursWith(sched, e, s)    == HoursFor(sched, e) + HoursOf[{s}]

CanAssign(sched, e, s) ==
  /\ Preference[<<e, s>>] # 0
  /\ Cardinality(sched[s]) < Capacity(s)
  /\ e \notin sched[s]
  /\ MaxHours[e] > 0 => HoursWith(sched, e, s) <= MaxHours[e]
  /\ \A t \in Shifts \ {s} : e \in sched[t] => ~Overlaps(t, s)

Assign(sched, s, e)   == [sched EXCEPT ![s] = @ \cup {e}]
Unassign(sched, s, e) == [sched EXCEPT ![s] = @ \ {e}]

\* What Validate finds wrong with a schedule, the missing heads apart.
Overstaffed(sched)  == {s \in Shifts : Cardinality(sched[s]) > Capacity(s)}
Unavailable(sched)  == {p \in Employees \X Shifts : p[1] \in sched[p[2]] /\ Preference[p] = 0}
DoubleBooked(sched) == {p \in Shifts \X Shifts :
  p[1] # p[2] /\ Overlaps(p[1], p[2]) /\ sched[p[1]] \cap sched[p[2]] # {}}
Overworked(sched)   == {e \in Employees : MaxHours[e] > 0 /\ HoursFor(sched, e) > MaxHours[e]}

Feasible(sched) ==
  /\ Overstaffed(sched) = {}
  /\ Unavailable(sched) = {}
  /\ DoubleBooked(sched) = {}
  /\ Overworked(sched) = {}

-----------------------------------------------------------------------------
(* The moves of the annealing search: what each may return.                *)

Added(sched) == {Assign(sched, p[1], p[2]) :
  p \in {q \in Shifts \X Employees : CanAssign(sched, q[2], q[1])}}

DroppableAtMin(sched, s) == Cardinality(sched[s]) >= MinStaff[s]  \* bug: off by one
Droppable(sched, s)      == Cardinality(sched[s]) > MinStaff[s]

Dropped(sched) == {Unassign(sched, p[1], p[2]) :
  p \in {q \in Shifts \X Employees : q[2] \in sched[q[1]] /\ Droppable(sched, q[1])}}

\* On shift s, f in the place of e.
Replace(sched, s, e, f) == Assign(Unassign(sched, s, e), s, f)

CanReplace(sched, s, e, f) ==
  e \in sched[s] /\ e # f /\ CanAssign(Unassign(sched, s, e), f, s)

Replaced(sched) == {Replace(sched, p[1], p[2], p[3]) :
  p \in {q \in Shifts \X Employees \X Employees : CanReplace(sched, q[1], q[2], q[3])}}

\* Employee e of shift s and employee f of shift t change places: s is
\* refilled first, and t is checked with f on s already.
Without(sched, s, e, t, f) == Unassign(Unassign(sched, s, e), t, f)
Half(sched, s, e, t, f)    == Assign(Without(sched, s, e, t, f), s, f)
Swap(sched, s, e, t, f)    == Assign(Half(sched, s, e, t, f), t, e)

CanSwap(sched, s, e, t, f) ==
  /\ e \in sched[s] /\ f \in sched[t] /\ s # t /\ e # f
  /\ CanAssign(Without(sched, s, e, t, f), f, s)
  /\ CanAssign(Half(sched, s, e, t, f), e, t)

Swapped(sched) == {Swap(sched, p[1], p[2], p[3], p[4]) :
  p \in {q \in Shifts \X Employees \X Shifts \X Employees :
           CanSwap(sched, q[1], q[2], q[3], q[4])}}

Neighbors(sched) == Added(sched) \cup Dropped(sched) \cup Replaced(sched) \cup Swapped(sched)

-----------------------------------------------------------------------------
(* The greedy assignment.                                                  *)

Slack(s) == Cardinality({e \in Employees : Preference[<<e, s>>] # 0}) - MinStaff[s]

Before(s, t) == Slack(s) < Slack(t) \/ (Slack(s) = Slack(t) /\ Start[s] < Start[t])

\* The shift Greedy fills next; shifts that sort alike come in any order.
IsNext(s) == s \in unfilled /\ \A t \in unfilled : ~Before(t, s)

Better(e, f, s) ==
  \/ Preference[<<e, s>>] > Preference[<<f, s>>]
  \/ Preference[<<e, s>>] = Preference[<<f, s>>] /\ HoursFor(cur, e) < HoursFor(cur, f)

\* Bug: only those who prefer the shift.
EligibleKeen(s) == {e \in Employees : CanAssign(cur, e, s) /\ Preference[<<e, s>>] = 2}

\* pickCandidate: any of the best eligible employees.
Eligible(s) == {e \in Employees : CanAssign(cur, e, s)}
Picks(s)    == {e \in Eligible(s) : \A f \in Eligible(s) : ~Better(f, e, s)}

-----------------------------------------------------------------------------
Preset == Presets[Len(found) + 1]

Init ==
  /\ phase = "greedy"
  /\ unfilled = Shifts
  /\ start = Empty /\ cur = Empty /\ best = Empty
  /\ attempt = 1
  /\ found = <<>>

Fill(s, e) ==
  /\ phase = "greedy"
  /\ IsNext(s)
  /\ Cardinality(cur[s]) < MinStaff[s]
  /\ e \in Picks(s)
  /\ cur' = Assign(cur, s, e)
  /\ UNCHANGED <<phase, unfilled, start, best, attempt, found>>

\* The shift is full, or nobody can take it and it is left understaffed.
LeaveShift(s) ==
  /\ phase = "greedy"
  /\ IsNext(s)
  /\ Cardinality(cur[s]) >= MinStaff[s] \/ Eligible(s) = {}
  /\ unfilled' = unfilled \ {s}
  /\ UNCHANGED <<phase, start, cur, best, attempt, found>>

BeginAnneal ==
  /\ phase = "greedy"
  /\ unfilled = {}
  /\ phase' = "anneal"
  /\ start' = cur /\ best' = cur
  /\ UNCHANGED <<unfilled, cur, attempt, found>>

ImprovesCurrent(sched) == Score(Preset, sched) > Score(Preset, cur)  \* bug: not the best
Improves(sched)        == Score(Preset, sched) > Score(Preset, best)

\* A neighbour is accepted: always when it scores no worse, else by chance.
Accept(sched) ==
  /\ phase = "anneal"
  /\ sched \in Neighbors(cur)
  /\ cur' = sched
  /\ best' = IF Improves(sched) THEN sched ELSE best
  /\ UNCHANGED <<phase, unfilled, start, attempt, found>>

\* The same assignments: the code compares canonical strings (Fingerprint).
Seen(sched) == \E i \in 1..Len(found) : found[i] = sched

MayRetryOnceMore == attempt <= MaxAttempts  \* bug: off by one
MayRetry         == attempt < MaxAttempts

\* The next search starts from the empty schedule.
Restart ==
  /\ unfilled' = Shifts
  /\ start' = Empty /\ cur' = Empty /\ best' = Empty

\* The iterations are over and the best schedule is one already found.
Retry ==
  /\ phase = "anneal"
  /\ Seen(best) /\ MayRetry
  /\ attempt' = attempt + 1
  /\ phase' = "greedy"
  /\ Restart
  /\ UNCHANGED found

\* The iterations are over: the best schedule is the candidate.
Keep ==
  /\ phase = "anneal"
  /\ ~Seen(best) \/ ~MayRetry
  /\ found' = Append(found, best)
  /\ attempt' = 1
  /\ phase' = IF Len(found') = Len(Presets) THEN "done" ELSE "greedy"
  /\ Restart

Next ==
  \/ \E s \in Shifts : LeaveShift(s) \/ \E e \in Employees : Fill(s, e)
  \/ BeginAnneal
  \/ \E sched \in Neighbors(cur) : Accept(sched)
  \/ Retry \/ Keep

Spec == Init /\ [][Next]_vars

-----------------------------------------------------------------------------
(* Properties.                                                             *)

TypeOK ==
  /\ phase \in {"greedy", "anneal", "done"}
  /\ unfilled \subseteq Shifts
  /\ start \in Schedules /\ cur \in Schedules /\ best \in Schedules
  /\ attempt \in 1..MaxAttempts
  /\ found \in Seq(Schedules) /\ Len(found) <= Len(Presets)
  /\ phase = "done" <=> Len(found) = Len(Presets)

\* "Every schedule the solver produces satisfies [the hard constraints] by
\* construction": Validate finds nothing but missing heads in any schedule of
\* the search, whatever sequence of moves led there.
HardConstraintsHold ==
  /\ Feasible(start) /\ Feasible(cur) /\ Feasible(best)
  /\ \A i \in 1..Len(found) : Feasible(found[i])

\* moveDrop "never breaks the coverage hard constraint", and neither does any
\* other move: no shift has fewer people than Greedy gave it unless it still
\* has all it needs, in the schedule of the search and in the best one.
CoverageNeverLost ==
  phase = "anneal" =>
    \A s \in Shifts, sched \in {cur, best} :
      \/ Cardinality(sched[s]) >= Cardinality(start[s])
      \/ Cardinality(sched[s]) >= MinStaff[s]

\* Anneal's "result never scores below the starting point", nor below any
\* schedule it has been at.
NeverBelowStart ==
  phase = "anneal" =>
    /\ Score(Preset, best) >= Score(Preset, start)
    /\ Score(Preset, best) >= Score(Preset, cur)

\* Greedy leaves a shift understaffed only when nobody can take it, and what
\* it assigns afterwards never makes somebody available for it.
GreedyLeavesNoGap ==
  phase = "anneal" =>
    \A s \in Shifts : Cardinality(start[s]) < MinStaff[s] =>
      \A e \in Employees : ~CanAssign(start, e, s)
=============================================================================
