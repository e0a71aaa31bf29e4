--------------------------- MODULE PlanningProofs ---------------------------
(***************************************************************************)
(* Theorems about planning a week: about the solver (ScheduleSearch), for  *)
(* every team, set of shifts and scoring function; about the run of        *)
(* GenerateWeek that builds the solver's problem (PlannerRun), for every   *)
(* team, set of templates, answers and rules; and about the two together.  *)
(***************************************************************************)
EXTENDS ScheduleSearch, PlannerRun, FiniteSetTheorems, TLAPS

-----------------------------------------------------------------------------
(* Schedules: what assigning and unassigning do to one.                    *)

\* Head counts and hour limits of a problem that Validate accepts are natural.
LEMMA ProblemBounds ==
  /\ \A s \in Shifts : MinStaff[s] \in Nat /\ Capacity(s) \in Nat
  /\ \A e \in Employees : MaxHours[e] \in Nat
BY ScheduleSearchAssumption DEF Validate, Capacity

\* A shift's staff is a finite set.
LEMMA StaffFinite ==
  ASSUME NEW sched \in Schedules, NEW s \in Shifts
  PROVE  IsFiniteSet(sched[s]) /\ Cardinality(sched[s]) \in Nat
<1>1. sched[s] \in SUBSET Employees
  BY DEF Schedules
<1>2. IsFiniteSet(sched[s])
  BY <1>1, FS_Subset, ScheduleSearchAssumption
<1> QED BY <1>2, FS_CardinalityType

\* Assign changes the one shift, by the one employee.
LEMMA AssignFacts ==
  ASSUME NEW sched \in Schedules, NEW s \in Shifts, NEW e \in Employees
  PROVE  /\ Assign(sched, s, e) \in Schedules
         /\ Assign(sched, s, e)[s] = sched[s] \cup {e}
         /\ \A t \in Shifts \ {s} : Assign(sched, s, e)[t] = sched[t]
  BY DEF Assign, Schedules

\* So does Unassign.
LEMMA UnassignFacts ==
  ASSUME NEW sched \in Schedules, NEW s \in Shifts, NEW e \in Employees
  PROVE  /\ Unassign(sched, s, e) \in Schedules
         /\ Unassign(sched, s, e)[s] = sched[s] \ {e}
         /\ \A t \in Shifts \ {s} : Unassign(sched, s, e)[t] = sched[t]
  BY DEF Unassign, Schedules

\* Head counts after an assignment.
LEMMA AssignCount ==
  ASSUME NEW sched \in Schedules, NEW s \in Shifts, NEW e \in Employees,
         e \notin sched[s]
  PROVE  /\ Cardinality(Assign(sched, s, e)[s]) = Cardinality(sched[s]) + 1
         /\ \A t \in Shifts \ {s} :
              Cardinality(Assign(sched, s, e)[t]) = Cardinality(sched[t])
  BY AssignFacts, StaffFinite, FS_AddElement

\* Head counts after someone is taken off a shift.
LEMMA UnassignCount ==
  ASSUME NEW sched \in Schedules, NEW s \in Shifts, NEW e \in sched[s],
         e \in Employees
  PROVE  /\ Cardinality(Unassign(sched, s, e)[s]) = Cardinality(sched[s]) - 1
         /\ \A t \in Shifts \ {s} :
              Cardinality(Unassign(sched, s, e)[t]) = Cardinality(sched[t])
  BY UnassignFacts, StaffFinite, FS_RemoveElement

\* Who works where after an assignment.
LEMMA AssignWorkedBy ==
  ASSUME NEW sched \in Schedules, NEW s \in Shifts, NEW e \in Employees
  PROVE  /\ WorkedBy(Assign(sched, s, e), e) = WorkedBy(sched, e) \cup {s}
         /\ \A f \in Employees \ {e} :
              WorkedBy(Assign(sched, s, e), f) = WorkedBy(sched, f)
  BY AssignFacts DEF WorkedBy

\* And after someone is taken off a shift.
LEMMA UnassignWorkedBy ==
  ASSUME NEW sched \in Schedules, NEW s \in Shifts, NEW e \in Employees
  PROVE  /\ WorkedBy(Unassign(sched, s, e), e) = WorkedBy(sched, e) \ {s}
         /\ \A f \in Employees \ {e} :
              WorkedBy(Unassign(sched, s, e), f) = WorkedBy(sched, f)
  BY UnassignFacts DEF WorkedBy

-----------------------------------------------------------------------------
(* Hours.                                                                  *)

\* One more shift adds its own length.
LEMMA HoursAdd ==
  ASSUME NEW S \in SUBSET Shifts, NEW s \in Shifts
  PROVE  /\ HoursOf[S] \in Nat /\ HoursOf[{s}] \in Nat
         /\ s \notin S => HoursOf[S \cup {s}] = HoursOf[S] + HoursOf[{s}]
         /\ HoursOf[S] <= HoursOf[S \cup {s}]
<1>1. HoursOf[S] \in Nat /\ HoursOf[{s}] \in Nat
  BY HoursAssumption
<1>2. s \notin S => HoursOf[S \cup {s}] = HoursOf[S] + HoursOf[{s}]
  BY HoursAssumption
<1>3. s \in S => S \cup {s} = S
  OBVIOUS
<1> QED BY <1>1, <1>2, <1>3

\* One shift less never means more hours.
LEMMA HoursRemove ==
  ASSUME NEW S \in SUBSET Shifts, NEW s \in Shifts
  PROVE  HoursOf[S \ {s}] \in Nat /\ HoursOf[S \ {s}] <= HoursOf[S]
<1>1. S \ {s} \in SUBSET Shifts
  OBVIOUS
<1>2. HoursOf[S \ {s}] \in Nat /\ HoursOf[S \ {s}] <= HoursOf[(S \ {s}) \cup {s}]
  BY <1>1, HoursAdd
<1>3. CASE s \in S
  <2>1. (S \ {s}) \cup {s} = S
    BY <1>3
  <2> QED BY <1>2, <2>1
<1>4. CASE s \notin S
  <2>1. S \ {s} = S
    BY <1>4
  <2> QED BY <1>2, <2>1
<1> QED BY <1>3, <1>4

\* An employee's hours are a natural number.
LEMMA HoursForType ==
  ASSUME NEW sched \in Schedules, NEW e \in Employees
  PROVE  HoursFor(sched, e) \in Nat
  BY HoursAssumption DEF HoursFor, WorkedBy

-----------------------------------------------------------------------------
(* Feasible schedules stay so under every move.                            *)

\* Feasible, with the sets of violations spelled out.
LEMMA FeasibleMeans ==
  ASSUME NEW sched \in Schedules
  PROVE  Feasible(sched) <=>
         /\ \A s \in Shifts : ~(Cardinality(sched[s]) > Capacity(s))
         /\ \A s \in Shifts : \A e \in sched[s] : Preference[<<e, s>>] # 0
         /\ \A s, t \in Shifts :
              s # t /\ Overlaps(s, t) => sched[s] \cap sched[t] = {}
         /\ \A e \in Employees :
              MaxHours[e] > 0 => ~(HoursFor(sched, e) > MaxHours[e])
<1>1. Overstaffed(sched) = {} <=>
        \A s \in Shifts : ~(Cardinality(sched[s]) > Capacity(s))
  BY DEF Overstaffed
<1>2. Unavailable(sched) = {} <=>
        \A s \in Shifts : \A e \in sched[s] : Preference[<<e, s>>] # 0
  BY DEF Unavailable, Schedules
<1>3. DoubleBooked(sched) = {} <=>
        \A s, t \in Shifts : s # t /\ Overlaps(s, t) => sched[s] \cap sched[t] = {}
  <2>1. \A s, t \in Shifts : <<s, t>> \in DoubleBooked(sched) <=>
          s # t /\ Overlaps(s, t) /\ sched[s] \cap sched[t] # {}
    BY DEF DoubleBooked
  <2>2. \A p \in DoubleBooked(sched) : \E s, t \in Shifts : p = <<s, t>>
    BY DEF DoubleBooked
  <2>3. DoubleBooked(sched) = {} <=>
          \A s, t \in Shifts : <<s, t>> \notin DoubleBooked(sched)
    BY <2>2
  <2>4. (\A s, t \in Shifts : <<s, t>> \notin DoubleBooked(sched)) <=>
          \A s, t \in Shifts :
            s # t /\ Overlaps(s, t) => sched[s] \cap sched[t] = {}
    BY <2>1
  <2> QED BY <2>3, <2>4
<1>4. Overworked(sched) = {} <=>
        \A e \in Employees : MaxHours[e] > 0 => ~(HoursFor(sched, e) > MaxHours[e])
  BY DEF Overworked
<1> QED BY <1>1, <1>2, <1>3, <1>4 DEF Feasible

\* An assignment that CanAssign allows.
LEMMA AssignFeasible ==
  ASSUME NEW sched \in Schedules, NEW s \in Shifts, NEW e \in Employees,
         Feasible(sched), CanAssign(sched, e, s)
  PROVE  Feasible(Assign(sched, s, e))
<1> DEFINE new == Assign(sched, s, e)
<1>1. new \in Schedules /\ new[s] = sched[s] \cup {e}
      /\ \A t \in Shifts \ {s} : new[t] = sched[t]
  BY AssignFacts
<1>2. ASSUME NEW t \in Shifts PROVE ~(Cardinality(new[t]) > Capacity(t))
  <2>1. CASE t = s
    <3>1. Cardinality(sched[s]) < Capacity(s) /\ e \notin sched[s]
      BY DEF CanAssign
    <3>2. Cardinality(new[s]) = Cardinality(sched[s]) + 1
      BY <3>1, AssignCount
    <3>3. Cardinality(sched[s]) \in Nat /\ Capacity(s) \in Nat
      BY StaffFinite, ProblemBounds
    <3> QED BY <2>1, <3>1, <3>2, <3>3
  <2>2. CASE t # s
    BY <2>2, <1>1, FeasibleMeans
  <2> QED BY <2>1, <2>2
<1>3. ASSUME NEW t \in Shifts, NEW f \in new[t] PROVE Preference[<<f, t>>] # 0
  <2>1. CASE t = s /\ f = e
    BY <2>1 DEF CanAssign
  <2>2. CASE ~(t = s /\ f = e)
    BY <2>2, <1>1, <1>3, FeasibleMeans
  <2> QED BY <2>1, <2>2
<1>4. ASSUME NEW t \in Shifts, NEW u \in Shifts, t # u, Overlaps(t, u)
      PROVE  new[t] \cap new[u] = {}
  <2>1. sched[t] \cap sched[u] = {}
    BY <1>4, FeasibleMeans
  <2>2. \A v \in Shifts \ {s} : e \in sched[v] => ~Overlaps(v, s) /\ ~Overlaps(s, v)
    BY DEF CanAssign, Overlaps
  <2> QED BY <1>1, <1>4, <2>1, <2>2
<1>5. ASSUME NEW f \in Employees, MaxHours[f] > 0
      PROVE  ~(HoursFor(new, f) > MaxHours[f])
  <2>1. CASE f = e
    <3>1. HoursFor(sched, e) + HoursOf[{s}] <= MaxHours[e] /\ e \notin sched[s]
      BY <1>5, <2>1 DEF CanAssign, HoursWith
    <3>2. WorkedBy(sched, e) \in SUBSET Shifts /\ s \notin WorkedBy(sched, e)
      BY <3>1 DEF WorkedBy
    <3>3. HoursFor(new, e) = HoursFor(sched, e) + HoursOf[{s}]
      BY <3>2, HoursAdd, AssignWorkedBy DEF HoursFor
    <3>4. HoursFor(sched, e) \in Nat /\ HoursOf[{s}] \in Nat /\ MaxHours[e] \in Nat
      BY HoursForType, HoursAdd, ProblemBounds
    <3> QED BY <2>1, <3>1, <3>3, <3>4
  <2>2. CASE f # e
    <3>1. HoursFor(new, f) = HoursFor(sched, f)
      BY <2>2, AssignWorkedBy DEF HoursFor
    <3> QED BY <1>5, <3>1, FeasibleMeans
  <2> QED BY <2>1, <2>2
<1> QED BY <1>1, <1>2, <1>3, <1>4, <1>5, FeasibleMeans

\* Taking someone off a shift.
LEMMA UnassignFeasible ==
  ASSUME NEW sched \in Schedules, NEW s \in Shifts, NEW e \in Employees,
         Feasible(sched)
  PROVE  Feasible(Unassign(sched, s, e))
<1> DEFINE new == Unassign(sched, s, e)
<1>1. new \in Schedules /\ new[s] = sched[s] \ {e}
      /\ \A t \in Shifts \ {s} : new[t] = sched[t]
  BY UnassignFacts
<1>2. \A t \in Shifts : new[t] \subseteq sched[t]
  BY <1>1
<1>3. ASSUME NEW t \in Shifts PROVE ~(Cardinality(new[t]) > Capacity(t))
  <2>1. Cardinality(new[t]) <= Cardinality(sched[t])
    BY <1>2, StaffFinite, FS_Subset
  <2>2. Cardinality(new[t]) \in Nat /\ Cardinality(sched[t]) \in Nat
    BY <1>1, StaffFinite
  <2>3. Capacity(t) \in Nat
    BY ProblemBounds
  <2>4. ~(Cardinality(sched[t]) > Capacity(t))
    BY FeasibleMeans
  <2> QED BY <2>1, <2>2, <2>3, <2>4
<1>4. \A t \in Shifts : \A f \in new[t] : Preference[<<f, t>>] # 0
  BY <1>2, FeasibleMeans
<1>5. \A t, u \in Shifts : t # u /\ Overlaps(t, u) => new[t] \cap new[u] = {}
  BY <1>2, FeasibleMeans
<1>6. ASSUME NEW f \in Employees, MaxHours[f] > 0
      PROVE  ~(HoursFor(new, f) > MaxHours[f])
  <2>1. HoursFor(new, f) <= HoursFor(sched, f)
    <3>1. CASE f = e
      <4>1. WorkedBy(sched, e) \in SUBSET Shifts
        BY DEF WorkedBy
      <4>2. WorkedBy(new, e) = WorkedBy(sched, e) \ {s}
        BY UnassignWorkedBy
      <4> QED BY <3>1, <4>1, <4>2, HoursRemove DEF HoursFor
    <3>2. CASE f # e
      BY <3>2, UnassignWorkedBy, HoursForType DEF HoursFor
    <3> QED BY <3>1, <3>2
  <2>2. HoursFor(new, f) \in Nat /\ HoursFor(sched, f) \in Nat
    BY <1>1, HoursForType
  <2>3. ~(HoursFor(sched, f) > MaxHours[f]) /\ MaxHours[f] \in Nat
    BY <1>6, FeasibleMeans, ProblemBounds
  <2> QED BY <2>1, <2>2, <2>3
<1> QED BY <1>1, <1>3, <1>4, <1>5, <1>6, FeasibleMeans

\* Every move of the search leads from a schedule to a schedule, and from a
\* feasible one to a feasible one.
LEMMA NeighborFeasible ==
  ASSUME NEW sched \in Schedules, NEW new \in Neighbors(sched), Feasible(sched)
  PROVE  new \in Schedules /\ Feasible(new)
<1>1. CASE new \in Added(sched)
  <2>1. PICK s \in Shifts, e \in Employees :
          CanAssign(sched, e, s) /\ new = Assign(sched, s, e)
    BY <1>1 DEF Added
  <2> QED BY <2>1, AssignFacts, AssignFeasible
<1>2. CASE new \in Dropped(sched)
  <2>1. PICK s \in Shifts, e \in Employees : new = Unassign(sched, s, e)
    BY <1>2 DEF Dropped, Droppable
  <2> QED BY <2>1, UnassignFacts, UnassignFeasible
<1>3. CASE new \in Replaced(sched)
  <2>1. PICK s \in Shifts, e \in Employees, f \in Employees :
          CanReplace(sched, s, e, f) /\ new = Replace(sched, s, e, f)
    BY <1>3 DEF Replaced
  <2>2. Unassign(sched, s, e) \in Schedules /\ Feasible(Unassign(sched, s, e))
    BY UnassignFacts, UnassignFeasible
  <2> QED BY <2>1, <2>2, AssignFacts, AssignFeasible DEF CanReplace, Replace
<1>4. CASE new \in Swapped(sched)
  <2>1. PICK s \in Shifts, e \in Employees, t \in Shifts, f \in Employees :
          CanSwap(sched, s, e, t, f) /\ new = Swap(sched, s, e, t, f)
    BY <1>4 DEF Swapped
  <2>2. Without(sched, s, e, t, f) \in Schedules /\ Feasible(Without(sched, s, e, t, f))
    BY UnassignFacts, UnassignFeasible DEF Without
  <2>3. Half(sched, s, e, t, f) \in Schedules /\ Feasible(Half(sched, s, e, t, f))
    BY <2>1, <2>2, AssignFacts, AssignFeasible DEF Half, CanSwap
  <2> QED BY <2>1, <2>3, AssignFacts, AssignFeasible DEF Swap, CanSwap
<1> QED BY <1>1, <1>2, <1>3, <1>4 DEF Neighbors

\* The schedule a search starts from.
LEMMA EmptyFeasible == Empty \in Schedules /\ Feasible(Empty)
<1>1. Empty \in Schedules
  BY DEF Empty, Schedules
<1>2. \A s \in Shifts : Empty[s] = {}
  BY DEF Empty
<1>3. ASSUME NEW s \in Shifts PROVE ~(Cardinality(Empty[s]) > Capacity(s))
  <2>1. Cardinality(Empty[s]) = 0
    BY <1>2, FS_EmptySet
  <2>2. Capacity(s) \in Nat
    BY ProblemBounds
  <2> QED BY <2>1, <2>2
<1>4. ASSUME NEW e \in Employees PROVE ~(HoursFor(Empty, e) > MaxHours[e])
  <2>1. WorkedBy(Empty, e) = {}
    BY <1>2 DEF WorkedBy
  <2>2. HoursFor(Empty, e) = 0
    BY <2>1, HoursAssumption DEF HoursFor
  <2> QED BY <2>2, ProblemBounds
<1> QED BY <1>1, <1>2, <1>3, <1>4, FeasibleMeans

-----------------------------------------------------------------------------
(* Type correctness and the hard constraints.                              *)

SearchInv == TypeOK /\ HardConstraintsHold

\* What restarting leaves.
LEMMA RestartFacts ==
  ASSUME Restart
  PROVE  /\ unfilled' = Shifts
         /\ start' \in Schedules /\ cur' \in Schedules /\ best' \in Schedules
         /\ Feasible(start') /\ Feasible(cur') /\ Feasible(best')
  BY EmptyFeasible DEF Restart

LEMMA SearchInit == Init => SearchInv
<1> SUFFICES ASSUME Init PROVE SearchInv
  OBVIOUS
<1>1. Len(Presets) \in Nat /\ Len(Presets) > 0
  BY ScheduleSearchAssumption
<1>2. TypeOK
  BY <1>1, EmptyFeasible, ScheduleSearchAssumption DEF Init, TypeOK
<1>3. HardConstraintsHold
  BY EmptyFeasible DEF Init, HardConstraintsHold
<1> QED BY <1>2, <1>3 DEF SearchInv

LEMMA SearchStep == SearchInv /\ [Next]_vars => SearchInv'
<1> SUFFICES ASSUME SearchInv, [Next]_vars PROVE SearchInv'
  OBVIOUS
<1> USE DEF SearchInv
<1>1. ASSUME NEW s \in Shifts, NEW e \in Employees, Fill(s, e) PROVE SearchInv'
  <2>1. CanAssign(cur, e, s)
    BY <1>1 DEF Fill, Picks, Eligible
  <2>2. cur' \in Schedules /\ Feasible(cur')
    BY <1>1, <2>1, AssignFacts, AssignFeasible DEF Fill, TypeOK, HardConstraintsHold
  <2> QED BY <1>1, <2>2 DEF Fill, TypeOK, HardConstraintsHold
<1>2. ASSUME NEW s \in Shifts, LeaveShift(s) PROVE SearchInv'
  BY <1>2 DEF LeaveShift, TypeOK, HardConstraintsHold
<1>3. ASSUME BeginAnneal PROVE SearchInv'
  BY <1>3 DEF BeginAnneal, TypeOK, HardConstraintsHold
<1>4. ASSUME NEW sched \in Neighbors(cur), Accept(sched) PROVE SearchInv'
  <2>1. sched \in Schedules /\ Feasible(sched)
    BY NeighborFeasible DEF TypeOK, HardConstraintsHold
  <2> QED BY <1>4, <2>1 DEF Accept, TypeOK, HardConstraintsHold
<1>5. ASSUME Retry PROVE SearchInv'
  <2>1. attempt' \in 1..MaxAttempts
    BY <1>5, ScheduleSearchAssumption DEF Retry, MayRetry, TypeOK
  <2> QED BY <1>5, <2>1, RestartFacts DEF Retry, TypeOK, HardConstraintsHold
<1>6. ASSUME Keep PROVE SearchInv'
  <2>1. found' = Append(found, best) /\ phase = "anneal"
    BY <1>6 DEF Keep
  <2>2. found' \in Seq(Schedules) /\ Len(found') = Len(found) + 1
        /\ \A i \in 1..Len(found') :
             found'[i] = IF i = Len(found) + 1 THEN best ELSE found[i]
    BY <2>1 DEF TypeOK
  <2>3. Len(Presets) \in Nat /\ Len(found) \in Nat
    BY ScheduleSearchAssumption DEF TypeOK
  <2>4. Len(found) < Len(Presets)
    BY <2>1, <2>3 DEF TypeOK
  <2>5. TypeOK'
    BY <1>6, <2>2, <2>3, <2>4, RestartFacts, ScheduleSearchAssumption DEF Keep, TypeOK
  <2>6. \A i \in 1..Len(found') : Feasible(found'[i])
    BY <2>2, <2>3 DEF HardConstraintsHold
  <2> QED BY <1>6, <2>5, <2>6, RestartFacts DEF Keep, HardConstraintsHold
<1>7. ASSUME UNCHANGED vars PROVE SearchInv'
  BY <1>7 DEF vars, TypeOK, HardConstraintsHold
<1> QED BY <1>1, <1>2, <1>3, <1>4, <1>5, <1>6, <1>7 DEF Next

\* No run of the solver leaves the types, whatever it draws.
THEOREM SearchTypeCorrect == Spec => []TypeOK
<1>1. Spec => []SearchInv
  BY SearchInit, SearchStep, PTL DEF Spec
<1> QED BY <1>1, PTL DEF SearchInv

\* The solver's central promise: for every team, every set of shifts and any
\* scoring, each schedule it builds, visits or returns respects availability,
\* capacity, maximum hours and double-booking.
THEOREM HardConstraintsAlways == Spec => []HardConstraintsHold
<1>1. Spec => []SearchInv
  BY SearchInit, SearchStep, PTL DEF Spec
<1> QED BY <1>1, PTL DEF SearchInv

-----------------------------------------------------------------------------
(* Coverage.                                                               *)

\* Head counts after a replacement: nobody more, nobody less.
LEMMA ReplaceCount ==
  ASSUME NEW sched \in Schedules, NEW s \in Shifts, NEW e \in Employees,
         NEW f \in Employees, CanReplace(sched, s, e, f)
  PROVE  \A u \in Shifts :
           Cardinality(Replace(sched, s, e, f)[u]) = Cardinality(sched[u])
<1> DEFINE out == Unassign(sched, s, e)
<1>1. e \in sched[s] /\ f \notin out[s]
  BY DEF CanReplace, CanAssign
<1>2. out \in Schedules
  BY UnassignFacts
<1>3. /\ Cardinality(out[s]) = Cardinality(sched[s]) - 1
      /\ \A u \in Shifts \ {s} : Cardinality(out[u]) = Cardinality(sched[u])
  BY <1>1, UnassignCount
<1>4. /\ Cardinality(Assign(out, s, f)[s]) = Cardinality(out[s]) + 1
      /\ \A u \in Shifts \ {s} : Cardinality(Assign(out, s, f)[u]) = Cardinality(out[u])
  BY <1>1, <1>2, AssignCount
<1>5. Cardinality(sched[s]) \in Nat
  BY StaffFinite
<1> QED BY <1>3, <1>4, <1>5 DEF Replace

\* And after a swap.
LEMMA SwapCount ==
  ASSUME NEW sched \in Schedules, NEW s \in Shifts, NEW e \in Employees,
         NEW t \in Shifts, NEW f \in Employees, CanSwap(sched, s, e, t, f)
  PROVE  \A u \in Shifts :
           Cardinality(Swap(sched, s, e, t, f)[u]) = Cardinality(sched[u])
<1> DEFINE one  == Unassign(sched, s, e)
           none == Without(sched, s, e, t, f)
           half == Half(sched, s, e, t, f)
<1>1. e \in sched[s] /\ f \in sched[t] /\ s # t /\ f \notin none[s] /\ e \notin half[t]
  BY DEF CanSwap, CanAssign
<1>2. one \in Schedules /\ f \in one[t]
  BY <1>1, UnassignFacts
<1>3. none \in Schedules /\ half \in Schedules
  BY <1>2, UnassignFacts, AssignFacts DEF Without, Half
<1>4. /\ Cardinality(one[s]) = Cardinality(sched[s]) - 1
      /\ \A u \in Shifts \ {s} : Cardinality(one[u]) = Cardinality(sched[u])
  BY <1>1, UnassignCount
<1>5. /\ Cardinality(none[t]) = Cardinality(one[t]) - 1
      /\ \A u \in Shifts \ {t} : Cardinality(none[u]) = Cardinality(one[u])
  BY <1>2, UnassignCount DEF Without
<1>6. /\ Cardinality(half[s]) = Cardinality(none[s]) + 1
      /\ \A u \in Shifts \ {s} : Cardinality(half[u]) = Cardinality(none[u])
  BY <1>1, <1>3, AssignCount DEF Half
<1>7. /\ Cardinality(Assign(half, t, e)[t]) = Cardinality(half[t]) + 1
      /\ \A u \in Shifts \ {t} : Cardinality(Assign(half, t, e)[u]) = Cardinality(half[u])
  BY <1>1, <1>3, AssignCount
<1>8. Cardinality(sched[s]) \in Nat /\ Cardinality(sched[t]) \in Nat
  BY StaffFinite
<1>9. ASSUME NEW u \in Shifts
      PROVE  Cardinality(Assign(half, t, e)[u]) = Cardinality(sched[u])
  <2>1. CASE u = s
    BY <2>1, <1>1, <1>4, <1>5, <1>6, <1>7, <1>8
  <2>2. CASE u = t
    BY <2>2, <1>1, <1>4, <1>5, <1>6, <1>7, <1>8
  <2>3. CASE u # s /\ u # t
    BY <2>3, <1>4, <1>5, <1>6, <1>7
  <2> QED BY <2>1, <2>2, <2>3
<1> QED BY <1>9 DEF Swap

\* A move takes someone off a shift only when it has more than it needs.
LEMMA NeighborCount ==
  ASSUME NEW sched \in Schedules, NEW new \in Neighbors(sched), NEW u \in Shifts
  PROVE  \/ Cardinality(new[u]) >= Cardinality(sched[u])
         \/ Cardinality(new[u]) >= MinStaff[u]
<1>0. Cardinality(sched[u]) \in Nat /\ MinStaff[u] \in Nat
  BY StaffFinite, ProblemBounds
<1>1. CASE new \in Added(sched)
  <2>1. PICK s \in Shifts, e \in Employees :
          CanAssign(sched, e, s) /\ new = Assign(sched, s, e)
    BY <1>1 DEF Added
  <2> QED BY <1>0, <2>1, AssignCount DEF CanAssign
<1>2. CASE new \in Dropped(sched)
  <2>1. PICK s \in Shifts, e \in Employees :
          /\ e \in sched[s] /\ Cardinality(sched[s]) > MinStaff[s]
          /\ new = Unassign(sched, s, e)
    BY <1>2 DEF Dropped, Droppable
  <2> QED BY <1>0, <2>1, UnassignCount
<1>3. CASE new \in Replaced(sched)
  <2>1. PICK s \in Shifts, e \in Employees, f \in Employees :
          CanReplace(sched, s, e, f) /\ new = Replace(sched, s, e, f)
    BY <1>3 DEF Replaced
  <2> QED BY <1>0, <2>1, ReplaceCount
<1>4. CASE new \in Swapped(sched)
  <2>1. PICK s \in Shifts, e \in Employees, t \in Shifts, f \in Employees :
          CanSwap(sched, s, e, t, f) /\ new = Swap(sched, s, e, t, f)
    BY <1>4 DEF Swapped
  <2> QED BY <1>0, <2>1, SwapCount
<1> QED BY <1>1, <1>2, <1>3, <1>4 DEF Neighbors

LEMMA CoverageStep ==
  SearchInv /\ CoverageNeverLost /\ [Next]_vars => CoverageNeverLost'
<1> SUFFICES ASSUME SearchInv, CoverageNeverLost, [Next]_vars
             PROVE  CoverageNeverLost'
  OBVIOUS
<1>1. ASSUME NEW s \in Shifts, NEW e \in Employees, Fill(s, e)
      PROVE  CoverageNeverLost'
  BY <1>1 DEF Fill, CoverageNeverLost
<1>2. ASSUME NEW s \in Shifts, LeaveShift(s) PROVE CoverageNeverLost'
  BY <1>2 DEF LeaveShift, CoverageNeverLost
<1>3. ASSUME BeginAnneal PROVE CoverageNeverLost'
  <2>1. \A s \in Shifts : Cardinality(cur[s]) \in Nat
    BY StaffFinite DEF SearchInv, TypeOK
  <2> QED BY <1>3, <2>1 DEF BeginAnneal, CoverageNeverLost
<1>4. ASSUME NEW sched \in Neighbors(cur), Accept(sched) PROVE CoverageNeverLost'
  <2>1. sched \in Schedules
    BY NeighborFeasible DEF SearchInv, TypeOK, HardConstraintsHold
  <2>2. ASSUME NEW s \in Shifts
        PROVE  \/ Cardinality(sched[s]) >= Cardinality(start[s])
               \/ Cardinality(sched[s]) >= MinStaff[s]
    <3>1. /\ Cardinality(sched[s]) \in Nat /\ Cardinality(cur[s]) \in Nat
          /\ Cardinality(start[s]) \in Nat /\ MinStaff[s] \in Nat
      BY <2>1, StaffFinite, ProblemBounds DEF SearchInv, TypeOK
    <3>2. \/ Cardinality(cur[s]) >= Cardinality(start[s])
          \/ Cardinality(cur[s]) >= MinStaff[s]
      BY <1>4 DEF Accept, CoverageNeverLost
    <3>3. \/ Cardinality(sched[s]) >= Cardinality(cur[s])
          \/ Cardinality(sched[s]) >= MinStaff[s]
      BY NeighborCount DEF SearchInv, TypeOK
    <3> QED BY <3>1, <3>2, <3>3
  <2>3. cur' = sched /\ best' \in {sched, best} /\ start' = start /\ phase = "anneal"
    BY <1>4 DEF Accept
  <2> QED BY <2>2, <2>3 DEF CoverageNeverLost
<1>5. ASSUME Retry PROVE CoverageNeverLost'
  BY <1>5 DEF Retry, CoverageNeverLost
<1>6. ASSUME Keep PROVE CoverageNeverLost'
  <2>1. phase' # "anneal"
    BY <1>6 DEF Keep
  <2> QED BY <2>1 DEF CoverageNeverLost
<1>7. ASSUME UNCHANGED vars PROVE CoverageNeverLost'
  BY <1>7 DEF vars, CoverageNeverLost
<1> QED BY <1>1, <1>2, <1>3, <1>4, <1>5, <1>6, <1>7 DEF Next

\* Annealing never trades a filled post for a better score.
THEOREM CoverageAlways == Spec => []CoverageNeverLost
<1>1. Init => CoverageNeverLost
  BY DEF Init, CoverageNeverLost
<1>2. Spec => [](SearchInv /\ CoverageNeverLost)
  BY <1>1, SearchInit, SearchStep, CoverageStep, PTL DEF Spec
<1> QED BY <1>2, PTL

-----------------------------------------------------------------------------
(* The score.                                                              *)

\* While a candidate is missing the scores of its preset are integers.
LEMMA ScoreType ==
  ASSUME TypeOK, phase # "done", NEW sched \in Schedules
  PROVE  Score(Preset, sched) \in Int
<1>1. Len(found) \in Nat /\ Len(Presets) \in Nat
  BY ScheduleSearchAssumption DEF TypeOK
<1>2. Len(found) + 1 \in 1..Len(Presets)
  BY <1>1 DEF TypeOK
<1> QED BY <1>2, ScoreAssumption DEF Preset

LEMMA ScoreStep ==
  SearchInv /\ NeverBelowStart /\ [Next]_vars => NeverBelowStart'
<1> SUFFICES ASSUME SearchInv, NeverBelowStart, [Next]_vars
             PROVE  NeverBelowStart'
  OBVIOUS
<1>1. ASSUME NEW s \in Shifts, NEW e \in Employees, Fill(s, e)
      PROVE  NeverBelowStart'
  BY <1>1 DEF Fill, NeverBelowStart
<1>2. ASSUME NEW s \in Shifts, LeaveShift(s) PROVE NeverBelowStart'
  BY <1>2 DEF LeaveShift, NeverBelowStart
<1>3. ASSUME BeginAnneal PROVE NeverBelowStart'
  <2>1. Score(Preset, cur) \in Int
    BY <1>3, ScoreType DEF SearchInv, TypeOK, BeginAnneal
  <2>2. Preset' = Preset
    BY <1>3 DEF BeginAnneal, Preset
  <2> QED BY <1>3, <2>1, <2>2 DEF BeginAnneal, NeverBelowStart
<1>4. ASSUME NEW sched \in Neighbors(cur), Accept(sched) PROVE NeverBelowStart'
  <2>1. sched \in Schedules
    BY NeighborFeasible DEF SearchInv, TypeOK, HardConstraintsHold
  <2>2. /\ Score(Preset, sched) \in Int /\ Score(Preset, best) \in Int
        /\ Score(Preset, start) \in Int
    BY <1>4, <2>1, ScoreType DEF SearchInv, TypeOK, Accept
  <2>3. Preset' = Preset
    BY <1>4 DEF Accept, Preset
  <2>4. Score(Preset, best) >= Score(Preset, start)
    BY <1>4 DEF Accept, NeverBelowStart
  <2> QED BY <1>4, <2>2, <2>3, <2>4 DEF Accept, Improves, NeverBelowStart
<1>5. ASSUME Retry PROVE NeverBelowStart'
  BY <1>5 DEF Retry, NeverBelowStart
<1>6. ASSUME Keep PROVE NeverBelowStart'
  <2>1. phase' # "anneal"
    BY <1>6 DEF Keep
  <2> QED BY <2>1 DEF NeverBelowStart
<1>7. ASSUME UNCHANGED vars PROVE NeverBelowStart'
  BY <1>7 DEF vars, NeverBelowStart, Preset
<1> QED BY <1>1, <1>2, <1>3, <1>4, <1>5, <1>6, <1>7 DEF Next

\* Whatever the scoring function, the best schedule of a search scores at
\* least as much as the greedy one and as the one the search is at.
THEOREM NeverBelowStartAlways == Spec => []NeverBelowStart
<1>1. Init => NeverBelowStart
  BY DEF Init, NeverBelowStart
<1>2. Spec => [](SearchInv /\ NeverBelowStart)
  BY <1>1, SearchInit, SearchStep, ScoreStep, PTL DEF Spec
<1> QED BY <1>2, PTL

-----------------------------------------------------------------------------
(* Greedy.                                                                 *)

\* Shift s has all it needs in the schedule, or nobody can take it.
NoGap(sched, s) ==
  Cardinality(sched[s]) < MinStaff[s] =>
    \A e \in Employees : ~CanAssign(sched, e, s)

\* The shifts Greedy is done with have no gap.
DoneHaveNoGap ==
  phase = "greedy" => \A s \in Shifts \ unfilled : NoGap(cur, s)

GreedyInv == DoneHaveNoGap /\ GreedyLeavesNoGap

\* An assignment makes nobody available for a shift who was not before.
LEMMA CanAssignShrinks ==
  ASSUME NEW sched \in Schedules, NEW s \in Shifts, NEW e \in Employees,
         NEW t \in Shifts, NEW f \in Employees,
         e \notin sched[s], CanAssign(Assign(sched, s, e), f, t)
  PROVE  CanAssign(sched, f, t)
<1> DEFINE new == Assign(sched, s, e)
<1>1. new \in Schedules /\ \A u \in Shifts : sched[u] \subseteq new[u]
  BY AssignFacts
<1>2. Cardinality(sched[t]) <= Cardinality(new[t])
  BY <1>1, StaffFinite, FS_Subset
<1>3. Cardinality(sched[t]) < Capacity(t)
  <2>1. Cardinality(sched[t]) \in Nat /\ Cardinality(new[t]) \in Nat /\ Capacity(t) \in Nat
    BY <1>1, StaffFinite, ProblemBounds
  <2>2. Cardinality(new[t]) < Capacity(t)
    BY DEF CanAssign
  <2> QED BY <1>2, <2>1, <2>2
<1>4. HoursFor(sched, f) <= HoursFor(new, f)
  <2>1. WorkedBy(sched, f) \in SUBSET Shifts
    BY DEF WorkedBy
  <2>2. WorkedBy(new, f) \in {WorkedBy(sched, f), WorkedBy(sched, f) \cup {s}}
    BY AssignWorkedBy
  <2>3. /\ HoursOf[WorkedBy(sched, f)] \in Nat
        /\ HoursOf[WorkedBy(sched, f)] <= HoursOf[WorkedBy(sched, f) \cup {s}]
    BY <2>1, HoursAdd
  <2>4. HoursOf[WorkedBy(sched, f)] <= HoursOf[WorkedBy(new, f)]
    <3>1. CASE WorkedBy(new, f) = WorkedBy(sched, f)
      BY <2>3, <3>1
    <3>2. CASE WorkedBy(new, f) = WorkedBy(sched, f) \cup {s}
      BY <2>3, <3>2
    <3> QED BY <2>2, <3>1, <3>2
  <2> QED BY <2>4 DEF HoursFor
<1>5. MaxHours[f] > 0 => HoursFor(sched, f) + HoursOf[{t}] <= MaxHours[f]
  <2>1. /\ HoursFor(sched, f) \in Nat /\ HoursFor(new, f) \in Nat
        /\ HoursOf[{t}] \in Nat /\ MaxHours[f] \in Nat
    BY <1>1, HoursForType, HoursAdd, ProblemBounds
  <2>2. MaxHours[f] > 0 => HoursFor(new, f) + HoursOf[{t}] <= MaxHours[f]
    BY DEF CanAssign, HoursWith
  <2> QED BY <1>4, <2>1, <2>2
<1>6. /\ Preference[<<f, t>>] # 0 /\ f \notin sched[t]
      /\ \A u \in Shifts \ {t} : f \in sched[u] => ~Overlaps(u, t)
  BY <1>1 DEF CanAssign
<1> QED BY <1>3, <1>5, <1>6 DEF CanAssign, HoursWith

LEMMA GreedyStep == SearchInv /\ GreedyInv /\ [Next]_vars => GreedyInv'
<1> SUFFICES ASSUME SearchInv, GreedyInv, [Next]_vars PROVE GreedyInv'
  OBVIOUS
<1> USE DEF GreedyInv
<1>1. ASSUME NEW s \in Shifts, NEW e \in Employees, Fill(s, e) PROVE GreedyInv'
  <2>1. cur \in Schedules /\ CanAssign(cur, e, s) /\ e \notin cur[s] /\ s \in unfilled
    BY <1>1 DEF Fill, Picks, Eligible, CanAssign, IsNext, SearchInv, TypeOK
  <2>2. ASSUME NEW t \in Shifts \ unfilled PROVE NoGap(Assign(cur, s, e), t)
    <3>1. Assign(cur, s, e)[t] = cur[t]
      BY <2>1, AssignFacts
    <3>2. NoGap(cur, t)
      BY <1>1 DEF Fill, DoneHaveNoGap
    <3> QED BY <2>1, <3>1, <3>2, CanAssignShrinks DEF NoGap
  <2> QED BY <1>1, <2>2 DEF Fill, DoneHaveNoGap, GreedyLeavesNoGap
<1>2. ASSUME NEW s \in Shifts, LeaveShift(s) PROVE GreedyInv'
  <2>1. Cardinality(cur[s]) \in Nat /\ MinStaff[s] \in Nat
    BY StaffFinite, ProblemBounds DEF SearchInv, TypeOK
  <2>2. NoGap(cur, s)
    BY <1>2, <2>1 DEF LeaveShift, Eligible, NoGap
  <2> QED BY <1>2, <2>2 DEF LeaveShift, DoneHaveNoGap, GreedyLeavesNoGap
<1>3. ASSUME BeginAnneal PROVE GreedyInv'
  <2>1. \A s \in Shifts : NoGap(cur, s)
    BY <1>3 DEF BeginAnneal, DoneHaveNoGap
  <2> QED BY <1>3, <2>1 DEF BeginAnneal, DoneHaveNoGap, GreedyLeavesNoGap, NoGap
<1>4. ASSUME NEW sched \in Neighbors(cur), Accept(sched) PROVE GreedyInv'
  BY <1>4 DEF Accept, DoneHaveNoGap, GreedyLeavesNoGap
<1>5. ASSUME Retry PROVE GreedyInv'
  BY <1>5 DEF Retry, Restart, DoneHaveNoGap, GreedyLeavesNoGap
<1>6. ASSUME Keep PROVE GreedyInv'
  <2>1. phase' # "anneal" /\ Shifts \ unfilled' = {}
    BY <1>6 DEF Keep, Restart
  <2> QED BY <2>1 DEF DoneHaveNoGap, GreedyLeavesNoGap
<1>7. ASSUME UNCHANGED vars PROVE GreedyInv'
  BY <1>7 DEF vars, DoneHaveNoGap, GreedyLeavesNoGap
<1> QED BY <1>1, <1>2, <1>3, <1>4, <1>5, <1>6, <1>7 DEF Next

\* A post Greedy leaves empty is one that nobody can take.
THEOREM GreedyLeavesNoGapAlways == Spec => []GreedyLeavesNoGap
<1>1. Init => GreedyInv
  BY DEF Init, GreedyInv, DoneHaveNoGap, GreedyLeavesNoGap
<1>2. Spec => [](SearchInv /\ GreedyInv)
  BY <1>1, SearchInit, SearchStep, GreedyStep, PTL DEF Spec
<1> QED BY <1>2, PTL DEF GreedyInv

-----------------------------------------------------------------------------
(* Hours: what the planner's conversions mean, hour by hour.               *)

\* A template's shift spans exactly the hours worked, and there are some.
LEMMA ShiftHours ==
  ASSUME NEW t \in Templates
  PROVE  LET x == ShiftOf(Template[t])
         IN  /\ x.start \in Int /\ x.end \in Int /\ x.start < x.end
             /\ Worked(t) = x.start..(x.end - 1)
<1> DEFINE w == Template[t].weekday
           from == Template[t].from
           to == Template[t].to
           day == DayOf(w) * DayLength
           long == (to + DayLength - from) % DayLength
<1>1. /\ DayLength \in Nat \ {0} /\ w \in 0..6 /\ from # to
      /\ from \in 0..(DayLength - 1) /\ to \in 0..(DayLength - 1)
  BY PlannerRunAssumption, PlannerConvertAssumption DEF ValidTemplate
<1>2. DayOf(w) = (w + 6) % 7 /\ DayOf(w) \in Nat
  BY <1>1 DEF DayOf
<1>3. day \in Nat
  BY <1>1, <1>2
<1>4. long = IF to > from THEN to - from ELSE to + DayLength - from
  BY <1>1
<1>5. ShiftOf(Template[t]) = [start |-> day + from, end |-> day + from + long]
  BY <1>1, <1>3, <1>4 DEF ShiftOf, At, EndOf
<1>6. Worked(t) = {day + from + i : i \in 0..(long - 1)}
  BY <1>2 DEF Worked
<1>7. long \in Nat \ {0}
  BY <1>1, <1>4
<1>8. {day + from + i : i \in 0..(long - 1)} = (day + from)..(day + from + long - 1)
  <2> HIDE DEF day, from, to, long
  <2>1. day \in Nat /\ from \in Nat /\ long \in Nat
    BY <1>1, <1>3, <1>7
  <2>2. ASSUME NEW n \in (day + from)..(day + from + long - 1)
        PROVE  n - (day + from) \in 0..(long - 1) /\ n = day + from + (n - (day + from))
    BY <2>1
  <2> QED BY <2>1, <2>2
<1>9. Worked(t) = (day + from)..(day + from + long - 1)
  BY <1>6, <1>8
<1> HIDE DEF day, from, to, long
<1>10. /\ day + from \in Int /\ day + from + long \in Int /\ day + from < day + from + long
       /\ Worked(t) = (day + from)..((day + from + long) - 1)
  BY <1>1, <1>3, <1>7, <1>9
<1>11. /\ ShiftOf(Template[t]).start = day + from
       /\ ShiftOf(Template[t]).end = day + from + long
  BY <1>5
<1> QED BY <1>10, <1>11

\* A slot covers a shift when it has all of its hours, and overlaps it when it
\* has one of them.
LEMMA SlotAndShift ==
  ASSUME NEW s, ValidSlot(s), NEW x, x.start \in Int, x.end \in Int, x.start < x.end
  PROVE  /\ Covers(s, x) <=> x.start..(x.end - 1) \subseteq SlotHours(s)
         /\ TimesOverlap(s, x) <=> (x.start..(x.end - 1)) \cap SlotHours(s) # {}
<1> DEFINE hours == x.start..(x.end - 1)
<1>1. s.start \in Int /\ s.end \in Int /\ s.start < s.end
  BY DEF ValidSlot
<1>2. x.start \in hours /\ x.end - 1 \in hours
  OBVIOUS
<1>3. Covers(s, x) => hours \subseteq SlotHours(s)
  BY <1>1 DEF Covers, SlotHours
<1>4. hours \subseteq SlotHours(s) => Covers(s, x)
  BY <1>1, <1>2 DEF Covers, SlotHours
<1>5. ASSUME TimesOverlap(s, x) PROVE hours \cap SlotHours(s) # {}
  <2>1. x.start \in SlotHours(s) \/ s.start \in hours
    BY <1>1, <1>5 DEF TimesOverlap, SlotHours
  <2>2. s.start \in SlotHours(s)
    BY <1>1 DEF SlotHours
  <2> QED BY <1>2, <2>1, <2>2
<1>6. hours \cap SlotHours(s) # {} => TimesOverlap(s, x)
  BY <1>1 DEF TimesOverlap, SlotHours
<1> QED BY <1>3, <1>4, <1>5, <1>6

\* No answer, or one the intake accepts.
Acceptable(a) == \A s \in a : ValidSlot(s)

LEMMA RefusedHours ==
  ASSUME NEW t \in Templates, NEW a, Acceptable(a)
  PROVE  Refused(a, ShiftOf(Template[t])) <=> Worked(t) \cap HoursIn(a, {0}) # {}
<1> DEFINE x == ShiftOf(Template[t])
<1>1. /\ x.start \in Int /\ x.end \in Int /\ x.start < x.end
      /\ Worked(t) = x.start..(x.end - 1)
  BY ShiftHours
<1> HIDE DEF x
<1>2. \A s \in a : TimesOverlap(s, x) <=> Worked(t) \cap SlotHours(s) # {}
  BY <1>1, SlotAndShift DEF Acceptable
<1>3. Refused(a, x) <=> \E s \in a : s.preference = 0 /\ Worked(t) \cap SlotHours(s) # {}
  BY <1>2 DEF Refused
<1>4. Worked(t) \cap HoursIn(a, {0}) # {}
      <=> \E s \in a : s.preference = 0 /\ Worked(t) \cap SlotHours(s) # {}
  BY DEF HoursIn
<1> QED BY <1>3, <1>4 DEF x

LEMMA CoveringHours ==
  ASSUME NEW t \in Templates, NEW a, Acceptable(a)
  PROVE  Covering(a, ShiftOf(Template[t]))
         = {s \in a : s.preference > 0 /\ Worked(t) \subseteq SlotHours(s)}
<1> DEFINE x == ShiftOf(Template[t])
<1>1. /\ x.start \in Int /\ x.end \in Int /\ x.start < x.end
      /\ Worked(t) = x.start..(x.end - 1)
  BY ShiftHours
<1> HIDE DEF x
<1>2. \A s \in a : Covers(s, x) <=> Worked(t) \subseteq SlotHours(s)
  BY <1>1, SlotAndShift DEF Acceptable
<1>3. Covering(a, x) = {s \in a : s.preference > 0 /\ Worked(t) \subseteq SlotHours(s)}
  BY <1>2 DEF Covering
<1> QED BY <1>3 DEF x

\* preferenceForShift compares ends of intervals; hour by hour it says this.  A
\* positive preference: every hour of the shift was offered with it, and none
\* refused.  Conversely, a slot that offers all of the shift's hours counts if
\* no hour was refused.
THEOREM PreferenceRespectsHours ==
  ASSUME NEW t \in Templates, NEW a, Acceptable(a)
  PROVE  LET p == PreferenceForShift(a, ShiftOf(Template[t]))
         IN  /\ p \in 0..2
             /\ p > 0 => /\ Worked(t) \subseteq HoursIn(a, {p})
                         /\ Worked(t) \cap HoursIn(a, {0}) = {}
             /\ (/\ \E s \in a : s.preference > 0 /\ Worked(t) \subseteq SlotHours(s)
                 /\ Worked(t) \cap HoursIn(a, {0}) = {})
                => p > 0
<1> DEFINE x == ShiftOf(Template[t])
           p == PreferenceForShift(a, x)
           covering == {s \in a : s.preference > 0 /\ Worked(t) \subseteq SlotHours(s)}
<1>1. Refused(a, x) <=> Worked(t) \cap HoursIn(a, {0}) # {}
  BY RefusedHours
<1>2. Covering(a, x) = covering
  BY CoveringHours
<1> HIDE DEF x
<1>3. p = IF Refused(a, x) \/ covering = {} THEN 0
          ELSE IF \E s \in covering : s.preference = 2 THEN 2 ELSE 1
  BY <1>2 DEF PreferenceForShift
<1>4. p \in 0..2
  BY <1>3
<1>5. ASSUME p > 0
      PROVE  Worked(t) \subseteq HoursIn(a, {p}) /\ Worked(t) \cap HoursIn(a, {0}) = {}
  <2>1. ~Refused(a, x) /\ covering # {}
    BY <1>3, <1>5
  <2>2. PICK s \in covering : s.preference = p
    <3>1. \A s \in covering : s.preference \in 1..2
      BY DEF Acceptable, ValidSlot
    <3> QED BY <1>3, <2>1, <3>1
  <2>3. Worked(t) \subseteq HoursIn(a, {p})
    BY <2>2 DEF HoursIn
  <2> QED BY <1>1, <2>1, <2>3
<1>6. covering # {} /\ Worked(t) \cap HoursIn(a, {0}) = {} => p > 0
  BY <1>1, <1>3
<1> QED BY <1>4, <1>5, <1>6 DEF x


-----------------------------------------------------------------------------
(* GenerateWeek.                                                           *)

NameMaps == UNION {[S -> Names] : S \in SUBSET Staff}

Histories ==
  [team    : NameMaps,
   answers : [Staff -> SUBSET (Answers \cup {NoAnswer})],
   some    : SUBSET Templates,
   all     : SUBSET Templates,
   rules   : SUBSET Rules]

PlanTypes ==
  /\ active \subseteq Staff /\ nameOf \in [Staff -> Names]
  /\ enabled \subseteq Templates
  /\ answerOf \in [Staff -> Answers \cup {NoAnswer}]
  /\ rules \subseteq Rules
  /\ changes \in 0..MaxChanges
  /\ pc \in {"idle", "team", "shifts", "answers", "built", "saved"}
  /\ shifts \subseteq Templates
  /\ during \in Histories

\* While the tables are read, the history follows them.
HistoryFollows ==
  /\ Running => /\ \A e \in Staff : answerOf[e] \in during.answers[e]
                /\ enabled \subseteq during.some
                /\ during.all \subseteq enabled
  /\ pc # "idle" => during.rules \subseteq rules

\* What the run has read of team and shifts is what the history allows.
ReadTeamAndShifts ==
  /\ pc # "idle" => team = during.team
  /\ pc = "idle" => team = NoFunction
  /\ pc \in {"shifts", "answers"} \/ Built =>
       during.all \subseteq shifts /\ shifts \subseteq during.some

\* The slots of an answer, none for somebody without one.
SlotsOf(b) == IF b = NoAnswer THEN {} ELSE b

\* Of everybody in the team it has read an answer that stood.
ReadAnAnswer ==
  pc = "answers" \/ Built =>
    \A e \in DOMAIN team : \E b \in Stood(e) : answers[e] = SlotsOf(b)

\* The penalties are those of rules among which are all there were at first.
Penalties(used, byName) ==
  [r \in {x \in used : RowOf(x).active /\ Understood(RowOf(x), byName)} |->
     PenaltyOf(RowOf(r), byName)]

WhatWasBuilt ==
  Built =>
    /\ problem = Problem
    /\ \E byName \in ByNames(team), used \in SUBSET rules :
         during.rules \subseteq used /\ penalties = Penalties(used, byName)

PlanInv ==
  PlanTypes /\ HistoryFollows /\ ReadTeamAndShifts /\ ReadAnAnswer /\ WhatWasBuilt

LEMMA PlanInitial == PlanInit => PlanInv
<1> SUFFICES ASSUME PlanInit PROVE PlanInv
  OBVIOUS
<1>1. NoFunction \in NameMaps
  BY DEF NoFunction, NameMaps
<1>2. PlanTypes
  BY <1>1, PlannerRunAssumption DEF PlanInit, PlanTypes, Histories
<1> QED BY <1>2
      DEF PlanInit, PlanInv, HistoryFollows, Running, ReadTeamAndShifts, ReadAnAnswer,
          WhatWasBuilt, Built

\* The team it works on is of the shop's staff.
LEMMA TeamIsStaff ==
  ASSUME PlanTypes, ReadTeamAndShifts
  PROVE  DOMAIN team \subseteq Staff /\ \A e \in DOMAIN team : team[e] \in Names
<1>1. during.team \in NameMaps
  BY DEF PlanTypes, Histories
<1>2. during.team = team \/ DOMAIN team = {}
  BY DEF ReadTeamAndShifts, NoFunction
<1> QED BY <1>1, <1>2 DEF NameMaps

\* A change of the tables leaves the run's own state alone.
LEMMA CopiesStay ==
  ASSUME PlanInv, UNCHANGED run,
         rules \subseteq rules', during'.team = during.team, during'.rules = during.rules,
         Built \/ pc = "idle" => during' = during,
         during'.all \subseteq during.all, during.some \subseteq during'.some,
         \A e \in DOMAIN team : during.answers[e] \subseteq during'.answers[e]
  PROVE  (ReadTeamAndShifts /\ ReadAnAnswer /\ WhatWasBuilt)'
<1> USE DEF run, copies, PlanInv
<1>1. ReadTeamAndShifts'
  BY DEF ReadTeamAndShifts, Built
<1>2. ReadAnAnswer'
  <2> SUFFICES ASSUME pc = "answers" \/ Built, NEW e \in DOMAIN team
               PROVE  \E b \in during'.answers[e] : answers[e] = SlotsOf(b)
    BY DEF ReadAnAnswer, Built, Stood
  <2> QED BY DEF ReadAnAnswer, Stood
<1>3. WhatWasBuilt'
  <2> SUFFICES ASSUME Built PROVE WhatWasBuilt'
    BY DEF WhatWasBuilt, Built
  <2>1. problem' = Problem'
    BY DEF WhatWasBuilt, Problem
  <2>2. PICK byName \in ByNames(team), used \in SUBSET rules :
          during.rules \subseteq used /\ penalties = Penalties(used, byName)
    BY DEF WhatWasBuilt
  <2>3. team' = team /\ penalties' = penalties /\ used \in SUBSET rules'
    BY <2>2
  <2> QED BY <2>1, <2>2, <2>3 DEF WhatWasBuilt
<1> QED BY <1>1, <1>2, <1>3

\* So do the changes of the tables, each with what the history keeps of it.
LEMMA TablesStep == PlanInv /\ Tables => PlanInv'
<1> SUFFICES ASSUME PlanInv, Tables PROVE PlanInv'
  OBVIOUS
<1> USE DEF PlanInv
<1>1. ASSUME Change PROVE changes' \in 0..MaxChanges /\ UNCHANGED run
  BY <1>1, PlannerRunAssumption DEF Change, PlanTypes
<1>2. ASSUME NEW e \in Staff,
             SetActive(e) \/ (\E n \in Names : Rename(e, n))
      PROVE  PlanInv'
  <2>1. PlanTypes'
    BY <1>1, <1>2 DEF PlanTypes, SetActive, Rename, run, copies
  <2>2. HistoryFollows'
    BY <1>1, <1>2 DEF HistoryFollows, SetActive, Rename, run, copies, Running
  <2>3. (ReadTeamAndShifts /\ ReadAnAnswer /\ WhatWasBuilt)'
    <3>1. Change /\ UNCHANGED <<rules, during>>
      BY <1>2 DEF SetActive, Rename
    <3> QED BY <1>1, <3>1, CopiesStay
  <2> QED BY <2>1, <2>2, <2>3
<1>3. ASSUME NEW t \in Templates, SetEnabled(t) PROVE PlanInv'
  <2>1. during \in Histories
    BY DEF PlanTypes
  <2>2. /\ during' \in Histories
        /\ during'.some = (IF Running THEN during.some \cup enabled' ELSE during.some)
        /\ during'.all = (IF Running THEN during.all \cap enabled' ELSE during.all)
        /\ during'.team = during.team /\ during'.answers = during.answers
        /\ during'.rules = during.rules
        /\ ~Running => during' = during
    <3>1. enabled' \subseteq Templates
      BY <1>3 DEF SetEnabled, PlanTypes
    <3>2. during' = IF Running
                    THEN [during EXCEPT !.some = @ \cup enabled', !.all = @ \cap enabled']
                    ELSE during
      BY <1>3 DEF SetEnabled
    <3>3. CASE Running
      BY <2>1, <3>1, <3>2, <3>3 DEF Histories
    <3>4. CASE ~Running
      BY <2>1, <3>2, <3>4
    <3> QED BY <3>3, <3>4
  <2>3. PlanTypes'
    BY <1>1, <1>3, <2>2 DEF PlanTypes, SetEnabled, run, copies
  <2>4. HistoryFollows'
    BY <1>1, <1>3, <2>2 DEF HistoryFollows, SetEnabled, run, copies, Running
  <2>5. (ReadTeamAndShifts /\ ReadAnAnswer /\ WhatWasBuilt)'
    <3>1. Change /\ UNCHANGED rules
      BY <1>3 DEF SetEnabled
    <3>2. Built \/ pc = "idle" => ~Running
      BY DEF Built, Running
    <3> QED BY <1>1, <2>2, <3>1, <3>2, CopiesStay
  <2> QED BY <2>3, <2>4, <2>5
<1>4. ASSUME NEW e \in Staff, NEW a \in Answers, ReplaceWeek(e, a) PROVE PlanInv'
  <2>1. during \in Histories
    BY DEF PlanTypes
  <2>2. /\ during' \in Histories
        /\ \A f \in Staff : during.answers[f] \subseteq during'.answers[f]
        /\ Running => a \in during'.answers[e]
        /\ during'.team = during.team /\ during'.some = during.some
        /\ during'.all = during.all /\ during'.rules = during.rules
        /\ ~Running => during' = during
    BY <1>4, <2>1 DEF ReplaceWeek, Histories
  <2>3. PlanTypes'
    BY <1>1, <1>4, <2>2 DEF PlanTypes, ReplaceWeek, run, copies
  <2>4. HistoryFollows'
    BY <1>1, <1>4, <2>2 DEF HistoryFollows, PlanTypes, ReplaceWeek, run, copies, Running
  <2>5. (ReadTeamAndShifts /\ ReadAnAnswer /\ WhatWasBuilt)'
    <3>1. Change /\ UNCHANGED rules
      BY <1>4 DEF ReplaceWeek
    <3>2. Built \/ pc = "idle" => ~Running
      BY DEF Built, Running
    <3>3. DOMAIN team \subseteq Staff
      BY TeamIsStaff
    <3> QED BY <1>1, <2>2, <3>1, <3>2, <3>3, CopiesStay
  <2> QED BY <2>3, <2>4, <2>5
<1>5. ASSUME NEW r \in Leaves, ConfirmLeave(r) PROVE PlanInv'
  <2>1. PlanTypes'
    BY <1>1, <1>5, PlannerRunAssumption DEF PlanTypes, ConfirmLeave, run, copies
  <2>2. HistoryFollows'
    BY <1>1, <1>5 DEF HistoryFollows, ConfirmLeave, run, copies, Running
  <2>3. (ReadTeamAndShifts /\ ReadAnAnswer /\ WhatWasBuilt)'
    <3>1. Change /\ UNCHANGED during /\ rules \subseteq rules'
      BY <1>5 DEF ConfirmLeave
    <3> QED BY <1>1, <3>1, CopiesStay
  <2> QED BY <2>1, <2>2, <2>3
<1> QED BY <1>2, <1>3, <1>4, <1>5 DEF Tables

LEMMA PlanUnchanged == PlanInv /\ UNCHANGED planVars => PlanInv'
<1> SUFFICES ASSUME PlanInv, UNCHANGED planVars PROVE PlanInv'
  OBVIOUS
<1>1. UNCHANGED <<tables, run, during>>
  BY DEF planVars
<1>2. PlanTypes' /\ HistoryFollows'
  BY <1>1 DEF PlanInv, PlanTypes, HistoryFollows, Running, tables, run, copies
<1>3. (ReadTeamAndShifts /\ ReadAnAnswer /\ WhatWasBuilt)'
  BY <1>1, CopiesStay DEF tables
<1> QED BY <1>2, <1>3 DEF PlanInv

\* The steps of the run.
LEMMA GenerateStep == PlanInv /\ GenerateWeek => PlanInv'
<1> SUFFICES ASSUME PlanInv, GenerateWeek PROVE PlanInv'
  OBVIOUS
<1> USE DEF PlanInv
<1>1. ASSUME ReadTeam PROVE PlanInv'
  <2>1. during' = [team |-> [e \in active |-> nameOf[e]],
                   answers |-> [e \in Staff |-> {answerOf[e]}],
                   some |-> enabled, all |-> enabled, rules |-> rules]
    BY <1>1 DEF ReadTeam
  <2>2. during'.team \in NameMaps
    <3>1. [e \in active |-> nameOf[e]] \in [active -> Names] /\ active \in SUBSET Staff
      BY DEF PlanTypes
    <3> QED BY <2>1, <3>1 DEF NameMaps
  <2>3. during' \in Histories
    BY <2>1, <2>2 DEF PlanTypes, Histories
  <2>4. PlanTypes'
    BY <1>1, <2>3 DEF ReadTeam, PlanTypes, tables
  <2>5. HistoryFollows'
    BY <1>1, <2>1 DEF ReadTeam, HistoryFollows, tables
  <2>6. ReadTeamAndShifts'
    BY <1>1, <2>1 DEF ReadTeam, ListedTeam, ReadTeamAndShifts, Built
  <2>7. ReadAnAnswer' /\ WhatWasBuilt'
    BY <1>1 DEF ReadTeam, ReadAnAnswer, WhatWasBuilt, Built
  <2> QED BY <2>4, <2>5, <2>6, <2>7
<1>2. ASSUME ReadShifts PROVE PlanInv'
  <2>1. PlanTypes' /\ HistoryFollows'
    BY <1>2 DEF ReadShifts, PlanTypes, HistoryFollows, Running, tables
  <2>2. ReadTeamAndShifts'
    BY <1>2 DEF ReadShifts, HistoryFollows, Running, ReadTeamAndShifts, Built
  <2>3. ReadAnAnswer' /\ WhatWasBuilt'
    BY <1>2 DEF ReadShifts, ReadAnAnswer, WhatWasBuilt, Built
  <2> QED BY <2>1, <2>2, <2>3
<1>3. ASSUME ReadAnswers PROVE PlanInv'
  <2>1. PlanTypes' /\ HistoryFollows'
    BY <1>3 DEF ReadAnswers, PlanTypes, HistoryFollows, Running, tables
  <2>2. ReadTeamAndShifts' /\ WhatWasBuilt'
    BY <1>3 DEF ReadAnswers, ReadTeamAndShifts, WhatWasBuilt, Built
  <2>3. ReadAnAnswer'
    <3>1. ASSUME NEW e \in DOMAIN team
          PROVE  answerOf[e] \in during.answers[e] /\ answers'[e] = SlotsOf(answerOf[e])
      BY <1>3, <3>1, TeamIsStaff DEF ReadAnswers, HistoryFollows, Running, SlotsOf
    <3> QED BY <1>3, <3>1 DEF ReadAnswers, ReadAnAnswer, Stood
  <2> QED BY <2>1, <2>2, <2>3
<1>4. ASSUME ReadRulesAndBuild PROVE PlanInv'
  <2>1. UNCHANGED <<team, shifts, answers, during, rules>>
    BY <1>4 DEF ReadRulesAndBuild, tables, copies
  <2>2. PlanTypes' /\ HistoryFollows'
    BY <1>4, <2>1 DEF ReadRulesAndBuild, PlanTypes, HistoryFollows, Running, tables
  <2>3. ReadTeamAndShifts'
    BY <1>4, <2>1 DEF ReadRulesAndBuild, ReadTeamAndShifts, Built
  <2>4. ReadAnAnswer'
    BY <1>4, <2>1 DEF ReadRulesAndBuild, ReadAnAnswer, Stood, Built
  <2>5. WhatWasBuilt'
    <3>1. problem' = Problem'
      BY <1>4, <2>1 DEF ReadRulesAndBuild, Problem
    <3>2. PICK byName \in ByNames(team) : penalties' = Penalties(rules, byName)
      BY <1>4 DEF ReadRulesAndBuild, NamesRead, Penalties
    <3>3. during'.rules \subseteq rules /\ rules \in SUBSET rules'
      BY <1>4, <2>1 DEF ReadRulesAndBuild, HistoryFollows
    <3> QED BY <2>1, <3>1, <3>2, <3>3 DEF WhatWasBuilt
  <2> QED BY <2>2, <2>3, <2>4, <2>5
<1>5. ASSUME Save PROVE PlanInv'
  <2>1. UNCHANGED <<tables, copies, problem, penalties, during>> /\ Built /\ Built'
    BY <1>5 DEF Save, Built
  <2>2. PlanTypes'
    BY <1>5, <2>1 DEF Save, PlanTypes, tables, copies
  <2>3. HistoryFollows'
    BY <1>5, <2>1 DEF Save, HistoryFollows, Running, tables
  <2>4. (ReadTeamAndShifts /\ ReadAnAnswer)'
    BY <1>5, <2>1 DEF Save, ReadTeamAndShifts, ReadAnAnswer, Stood, copies
  <2>5. WhatWasBuilt'
    BY <2>1 DEF WhatWasBuilt, Problem, tables, copies
  <2> QED BY <2>2, <2>3, <2>4, <2>5
<1>6. ASSUME NoShifts \/ Fail PROVE PlanInv'
  <2>1. Idle /\ UNCHANGED <<tables, during>>
    BY <1>6 DEF NoShifts, Fail
  <2>2. PlanTypes'
    BY <2>1 DEF Idle, PlanTypes, tables
  <2>3. HistoryFollows'
    BY <2>1 DEF Idle, HistoryFollows, Running
  <2> QED BY <2>1, <2>2, <2>3
        DEF Idle, ReadTeamAndShifts, ReadAnAnswer, WhatWasBuilt, Built
<1>7. ASSUME UNCHANGED planVars PROVE PlanInv'
  BY <1>7, PlanUnchanged
<1> QED BY <1>1, <1>2, <1>3, <1>4, <1>5, <1>6, <1>7 DEF GenerateWeek, Refuse

LEMMA PlanStep == PlanInv /\ [PlanNext]_planVars => PlanInv'
  BY TablesStep, GenerateStep, PlanUnchanged DEF PlanNext

LEMMA PlanInvAlways == PlanSpec => []PlanInv
  BY PlanInitial, PlanStep, PTL DEF PlanSpec


\* What it read of somebody is an answer that stood, and acceptable.
LEMMA AnswerRead ==
  ASSUME PlanInv, Built, NEW e \in DOMAIN team
  PROVE  \E b \in Stood(e) : answers[e] = SlotsOf(b) /\ Acceptable(answers[e])
<1>1. PICK b \in Stood(e) : answers[e] = SlotsOf(b)
  BY DEF PlanInv, ReadAnAnswer
<1>2. Stood(e) \subseteq Answers \cup {NoAnswer}
  BY TeamIsStaff DEF PlanInv, PlanTypes, Histories, Stood
<1>3. Acceptable(answers[e])
  BY <1>1, <1>2, PlannerRunAssumption DEF SlotsOf, Acceptable
<1> QED BY <1>1, <1>3

LEMMA ProblemRead ==
  ASSUME PlanInv, Built, NEW e \in DOMAIN team, NEW t \in shifts
  PROVE  /\ problem[<<e, t>>] = PreferenceForShift(answers[e], ShiftOf(Template[t]))
         /\ t \in Templates
  BY DEF PlanInv, WhatWasBuilt, Problem, PlanTypes

\* Types, and that every preference the solver is given is one it knows.
THEOREM PlanTypeCorrect == PlanSpec => []PlanTypeOK
<1>1. PlanInv => PlanTypeOK
  <2> SUFFICES ASSUME PlanInv PROVE PlanTypeOK
    OBVIOUS
  <2>1. ASSUME Built PROVE problem \in [(DOMAIN team) \X shifts -> 0..2]
    <3>1. ASSUME NEW e \in DOMAIN team, NEW t \in shifts
          PROVE  PreferenceForShift(answers[e], ShiftOf(Template[t])) \in 0..2
      BY <2>1, <3>1, AnswerRead, ProblemRead, PreferenceRespectsHours
    <3> QED BY <2>1, <3>1 DEF PlanInv, WhatWasBuilt, Problem
  <2>2. ASSUME Built PROVE DOMAIN penalties \subseteq rules
    BY <2>2 DEF PlanInv, WhatWasBuilt, Penalties
  <2> QED BY <2>1, <2>2, TeamIsStaff DEF PlanInv, PlanTypes, PlanTypeOK
<1> QED BY <1>1, PlanInvAlways, PTL

\* Whatever the tables become while the run reads them, it offers nobody for a
\* shift or an hour that no answer of theirs of that time allows.
THEOREM PlansWhatStoodAlways == PlanSpec => []PlansWhatStood
<1>1. PlanInv => PlansWhatStood
  <2> SUFFICES ASSUME PlanInv, Built, NEW e \in DOMAIN team, NEW t \in shifts,
                      problem[<<e, t>>] > 0
               PROVE  /\ e \in DOMAIN during.team /\ t \in during.some
                      /\ \E a \in Stood(e) \ {NoAnswer} :
                           /\ Worked(t) \subseteq HoursIn(a, {problem[<<e, t>>]})
                           /\ Worked(t) \cap HoursIn(a, {0}) = {}
    <3>1. PlanInv /\ Built => DOMAIN problem = (DOMAIN team) \X shifts
      BY DEF PlanInv, WhatWasBuilt, Problem
    <3>2. \A p \in (DOMAIN team) \X shifts :
            p = <<p[1], p[2]>> /\ p[1] \in DOMAIN team /\ p[2] \in shifts
      OBVIOUS
    <3> QED BY <3>1, <3>2 DEF PlansWhatStood
  <2>1. e \in DOMAIN during.team /\ t \in during.some
    BY DEF PlanInv, ReadTeamAndShifts, Built
  <2>2. PICK b \in Stood(e) : answers[e] = SlotsOf(b) /\ Acceptable(answers[e])
    BY AnswerRead
  <2>3. /\ Worked(t) \subseteq HoursIn(answers[e], {problem[<<e, t>>]})
        /\ Worked(t) \cap HoursIn(answers[e], {0}) = {}
    BY <2>2, ProblemRead, PreferenceRespectsHours
  <2>4. b # NoAnswer
    <3>1. Worked(t) # {}
      <4> DEFINE x == ShiftOf(Template[t])
      <4>1. /\ x.start \in Int /\ x.end \in Int /\ x.start < x.end
            /\ Worked(t) = x.start..(x.end - 1)
        BY ProblemRead, ShiftHours
      <4> HIDE DEF x
      <4>2. x.start \in Worked(t)
        BY <4>1
      <4> QED BY <4>2
    <3>2. HoursIn({}, {problem[<<e, t>>]}) = {}
      BY DEF HoursIn
    <3> QED BY <2>2, <2>3, <3>1, <3>2 DEF SlotsOf
  <2> QED BY <2>1, <2>2, <2>3, <2>4 DEF SlotsOf
<1> QED BY <1>1, PlanInvAlways, PTL

\* And it offers everybody for what their answer allowed all that time.
THEOREM AnswersInTimeCountAlways == PlanSpec => []AnswersInTimeCount
<1>1. PlanInv => AnswersInTimeCount
  <2> SUFFICES ASSUME PlanInv, Built, NEW e \in DOMAIN during.team, NEW t \in during.all,
                      NEW a \in Stood(e) \ {NoAnswer}, Stood(e) = {a},
                      \E s \in a : s.preference > 0 /\ Worked(t) \subseteq SlotHours(s),
                      Worked(t) \cap HoursIn(a, {0}) = {}
               PROVE  problem[<<e, t>>] > 0
    BY DEF AnswersInTimeCount
  <2>1. e \in DOMAIN team /\ t \in shifts
    BY DEF PlanInv, ReadTeamAndShifts, Built
  <2>2. answers[e] = a /\ Acceptable(a)
    BY <2>1, AnswerRead DEF SlotsOf
  <2>3. t \in Templates /\ problem[<<e, t>>] = PreferenceForShift(a, ShiftOf(Template[t]))
    BY <2>1, <2>2, ProblemRead
  <2>4. PreferenceForShift(a, ShiftOf(Template[t])) > 0
    BY <2>2, <2>3, PreferenceRespectsHours
  <2> QED BY <2>3, <2>4
<1> QED BY <1>1, PlanInvAlways, PTL

\* A name that means one employee of the team is resolved to that one.
LEMMA NameResolved ==
  ASSUME PlanInv, Built, NEW byName \in ByNames(team), NEW n, NEW x \in Staff, Means(n, x)
  PROVE  Known(byName, n) /\ byName[KeyOf(n)] = x
<1>1. team = during.team
  BY DEF PlanInv, ReadTeamAndShifts, Built
<1>2. x \in DOMAIN team /\ KeyOf(team[x]) = KeyOf(n)
  BY <1>1 DEF Means, KeyOf
<1>3. KeyOf(n) \in DOMAIN byName
  BY <1>2 DEF ByNames
<1>4. byName[KeyOf(n)] \in DOMAIN team /\ KeyOf(team[byName[KeyOf(n)]]) = KeyOf(n)
  BY <1>3 DEF ByNames
<1> QED BY <1>1, <1>3, <1>4 DEF Known, Means, KeyOf

\* Names the planner knows are those of people in the team.
LEMMA KnownIsTeam ==
  ASSUME NEW byName \in ByNames(team), NEW n, Known(byName, n)
  PROVE  byName[KeyOf(n)] \in DOMAIN team
  BY DEF ByNames, Known

\* No rule the owner wrote before the run is lost or weighed against the wrong
\* person, whatever the names are; and no penalty is about somebody who is not
\* of the problem.
THEOREM RulesReachTheirPeopleAlways == PlanSpec => []RulesReachTheirPeople
<1>1. ASSUME PlanInv, Built,
             NEW byName \in ByNames(team), NEW used \in SUBSET rules,
             during.rules \subseteq used, penalties = Penalties(used, byName)
      PROVE  RulesReachTheirPeople
  <2>1. RulesInTimeCount
    <3> SUFFICES ASSUME NEW r \in during.rules \ Leaves,
                        RuleRow[r].active, "params" \in DOMAIN RuleRow[r]
                 PROVE  LET row == RuleRow[r]
                        IN  /\ row.kind = "avoid_pair" => \A x, y \in Staff :
                                 Means(row.params.a, x) /\ Means(row.params.b, y)
                                 => /\ r \in DOMAIN penalties
                                    /\ penalties[r].a = x /\ penalties[r].b = y
                            /\ row.kind = "day_off" /\ row.params.weekday \in 0..6 =>
                                 \A x \in Staff : Means(row.params.employee, x)
                                 => r \in DOMAIN penalties /\ penalties[r].employee = x
      BY <1>1 DEF RulesInTimeCount
    <3> DEFINE row == RuleRow[r]
    <3>1. RowOf(r) = row /\ r \in used
      BY <1>1 DEF RowOf
    <3>2. Understood(row, byName) =>
            r \in DOMAIN penalties /\ penalties[r] = PenaltyOf(row, byName)
      BY <1>1, <3>1 DEF Penalties
    <3>3. ASSUME row.kind = "avoid_pair", NEW x \in Staff, NEW y \in Staff,
                 Means(row.params.a, x), Means(row.params.b, y)
          PROVE  r \in DOMAIN penalties /\ penalties[r].a = x /\ penalties[r].b = y
      <4>1. /\ Known(byName, row.params.a) /\ byName[KeyOf(row.params.a)] = x
            /\ Known(byName, row.params.b) /\ byName[KeyOf(row.params.b)] = y
        BY <1>1, <3>3, NameResolved
      <4>2. Understood(row, byName)
        BY <3>3, <4>1 DEF Understood
      <4> QED BY <3>2, <3>3, <4>1, <4>2 DEF PenaltyOf
    <3>4. ASSUME row.kind = "day_off", row.params.weekday \in 0..6,
                 NEW x \in Staff, Means(row.params.employee, x)
          PROVE  r \in DOMAIN penalties /\ penalties[r].employee = x
      <4>1. Known(byName, row.params.employee) /\ byName[KeyOf(row.params.employee)] = x
        BY <1>1, <3>4, NameResolved
      <4>2. Understood(row, byName)
        BY <3>4, <4>1 DEF Understood, Weekdays
      <4> QED BY <3>2, <3>4, <4>1, <4>2 DEF PenaltyOf
    <3> QED BY <3>3, <3>4
  <2>2. PenaltiesConcernTheTeam
    <3> SUFFICES ASSUME NEW r \in DOMAIN penalties
                 PROVE  LET people == IF penalties[r].kind = "avoid_pair"
                                      THEN {penalties[r].a, penalties[r].b}
                                      ELSE {penalties[r].employee}
                        IN  people \subseteq DOMAIN team
      BY DEF PenaltiesConcernTheTeam
    <3> DEFINE row == RowOf(r)
    <3>1. Understood(row, byName) /\ penalties[r] = PenaltyOf(row, byName)
      BY <1>1 DEF Penalties
    <3> HIDE DEF row
    <3>2. CASE row.kind = "avoid_pair"
      BY <3>1, <3>2, KnownIsTeam DEF Understood, PenaltyOf
    <3>3. CASE row.kind # "avoid_pair"
      BY <3>1, <3>3, KnownIsTeam DEF Understood, PenaltyOf
    <3> QED BY <3>2, <3>3
  <2> QED BY <2>1, <2>2 DEF RulesReachTheirPeople
<1>2. PlanInv => RulesReachTheirPeople
  <2>1. ~Built => RulesReachTheirPeople
    BY DEF RulesReachTheirPeople, RulesInTimeCount, PenaltiesConcernTheTeam
  <2> QED BY <1>1, <2>1 DEF PlanInv, WhatWasBuilt
<1> QED BY <1>2, PlanInvAlways, PTL

\* What PlanningLeave finds of one leave is so of all: the rule a confirmed leave
\* is stored as has no "params", and never becomes a penalty.
THEOREM LeavesNeverReachSolver ==
  PlanSpec => [](Built => Leaves \cap DOMAIN penalties = {})
<1>1. PlanInv => (Built => Leaves \cap DOMAIN penalties = {})
  <2> SUFFICES ASSUME PlanInv, Built, NEW r \in Leaves, r \in DOMAIN penalties
               PROVE  FALSE
    OBVIOUS
  <2>1. PICK byName : Understood(RowOf(r), byName)
    BY DEF PlanInv, WhatWasBuilt, Penalties
  <2>2. "params" \notin DOMAIN RowOf(r)
    BY DEF RowOf, LeaveRule
  <2> QED BY <2>1, <2>2 DEF Understood
<1> QED BY <1>1, PlanInvAlways, PTL


-----------------------------------------------------------------------------
(* The planner and the solver together.                                    *)

\* GenerateWeek calls the solver with the problem it has built.
HandedOver ==
  /\ Built
  /\ Employees = DOMAIN team /\ Shifts = shifts
  /\ Preference = problem
  /\ \A t \in Shifts : /\ Start[t] = ShiftOf(Template[t]).start
                       /\ End[t] = ShiftOf(Template[t]).end

\* Somebody of the team is to work shift t in schedule sched: the shift was on
\* and an answer of theirs offered all its hours, at some time of the run, and
\* no other shift of theirs in the schedule has any of its hours.
MayWork(sched, e, t) ==
  /\ e \in DOMAIN during.team /\ t \in during.some
  /\ \E a \in Stood(e) \ {NoAnswer} :
       /\ Worked(t) \subseteq HoursIn(a, {1, 2})
       /\ Worked(t) \cap HoursIn(a, {0}) = {}
  /\ \A u \in Shifts \ {t} : e \in sched[u] => Worked(t) \cap Worked(u) = {}

CandidatesRespectAnswers ==
  HandedOver => \A i \in 1..Len(found) : \A t \in Shifts, e \in Employees :
    e \in found[i][t] => MayWork(found[i], e, t)

\* From answers to candidates: in no candidate of the week does anybody work an
\* hour of a shift they did not offer or did refuse, or the same hour twice,
\* whatever the tables became while GenerateWeek read them and whatever moves
\* the search made.
THEOREM CandidatesRespectAnswersAlways ==
  PlanSpec /\ Spec => []CandidatesRespectAnswers
<1>1. ASSUME PlanInv, PlansWhatStood, TypeOK, HardConstraintsHold
      PROVE  CandidatesRespectAnswers
  <2> SUFFICES ASSUME HandedOver, NEW i \in 1..Len(found), NEW t \in Shifts,
                      NEW e \in Employees, e \in found[i][t]
               PROVE  MayWork(found[i], e, t)
    BY DEF CandidatesRespectAnswers
  <2>1. found[i] \in Schedules /\ Feasible(found[i])
    BY <1>1 DEF TypeOK, HardConstraintsHold
  <2>2. /\ Built /\ e \in DOMAIN team /\ t \in shifts
        /\ problem[<<e, t>>] = Preference[<<e, t>>]
    BY DEF HandedOver
  <2>3. Preference[<<e, t>>] \in 1..2
    <3>1. Preference[<<e, t>>] \in 0..2
      BY ScheduleSearchAssumption
    <3>2. Preference[<<e, t>>] # 0
      BY <2>1, FeasibleMeans
    <3> QED BY <3>1, <3>2
  <2>4. /\ e \in DOMAIN during.team /\ t \in during.some
        /\ \E a \in Stood(e) \ {NoAnswer} :
             /\ Worked(t) \subseteq HoursIn(a, {problem[<<e, t>>]})
             /\ Worked(t) \cap HoursIn(a, {0}) = {}
    <3> DEFINE p == <<e, t>>
    <3>1. p \in DOMAIN problem
      BY <1>1, <2>2 DEF PlanInv, WhatWasBuilt, Problem
    <3>2. p[1] = e /\ p[2] = t /\ problem[p] > 0
      BY <2>2, <2>3
    <3> HIDE DEF p
    <3>3. /\ e \in DOMAIN during.team /\ t \in during.some
          /\ \E a \in Stood(e) \ {NoAnswer} :
               /\ Worked(t) \subseteq HoursIn(a, {problem[p]})
               /\ Worked(t) \cap HoursIn(a, {0}) = {}
      BY <1>1, <2>2, <3>1, <3>2 DEF PlansWhatStood
    <3> QED BY <3>3 DEF p
  <2>5. \A a : HoursIn(a, {problem[<<e, t>>]}) \subseteq HoursIn(a, {1, 2})
    BY <2>2, <2>3 DEF HoursIn
  <2>6. ASSUME NEW u \in Shifts \ {t}, e \in found[i][u]
        PROVE  Worked(t) \cap Worked(u) = {}
    <3>1. ~Overlaps(t, u)
      BY <2>1, <2>6, FeasibleMeans
    <3>2. /\ Start[t] \in Int /\ End[t] \in Int /\ Start[u] \in Int /\ End[u] \in Int
          /\ Worked(t) = Start[t]..(End[t] - 1) /\ Worked(u) = Start[u]..(End[u] - 1)
      BY <1>1, ShiftHours DEF HandedOver, PlanInv, PlanTypes
    <3> QED BY <3>1, <3>2 DEF Overlaps
  <2> QED BY <2>4, <2>5, <2>6 DEF MayWork
<1>2. Spec => [](TypeOK /\ HardConstraintsHold)
  BY SearchTypeCorrect, HardConstraintsAlways, PTL
<1> QED BY <1>1, <1>2, PlanInvAlways, PlansWhatStoodAlways, PTL

\* All through the run e had one answer, with a slot that offers all of shift t's
\* hours and none that refuses one.
Offered(e, t) ==
  \E a \in Stood(e) \ {NoAnswer} :
    /\ Stood(e) = {a}
    /\ \E s \in a : s.preference > 0 /\ Worked(t) \subseteq SlotHours(s)
    /\ Worked(t) \cap HoursIn(a, {0}) = {}

\* Somebody cannot take shift t in schedule sched: they are on it, another shift
\* of theirs has some of its hours, or it is more than they may work in a week.
IsTaken(sched, e, t) ==
  \/ e \in sched[t]
  \/ \E u \in Shifts \ {t} : e \in sched[u] /\ Worked(t) \cap Worked(u) # {}
  \/ MaxHours[e] > 0 /\ HoursFor(sched, e) + HoursOf[{t}] > MaxHours[e]

OffersAreTaken ==
  HandedOver /\ phase = "anneal" => \A t \in Shifts \cap during.all, e \in Employees :
    Cardinality(start[t]) < MinStaff[t] /\ Offered(e, t) => IsTaken(start, e, t)

\* And the converse: a shift that was on throughout is left short of people only
\* when everybody who offered it is taken, so that no offer is lost on the way
\* from the answers to the schedule the search begins with.
THEOREM OffersAreTakenAlways == PlanSpec /\ Spec => []OffersAreTaken
<1>1. ASSUME PlanInv, AnswersInTimeCount, TypeOK, GreedyLeavesNoGap
      PROVE  OffersAreTaken
  <2> SUFFICES ASSUME HandedOver, phase = "anneal", NEW t \in Shifts \cap during.all,
                      NEW e \in Employees, Cardinality(start[t]) < MinStaff[t],
                      Offered(e, t)
               PROVE  IsTaken(start, e, t)
    BY DEF OffersAreTaken
  <2>1. ~CanAssign(start, e, t)
    BY <1>1 DEF GreedyLeavesNoGap
  <2>2. Preference[<<e, t>>] # 0
    <3>1. e \in DOMAIN during.team /\ Built /\ Preference[<<e, t>>] = problem[<<e, t>>]
      BY <1>1 DEF HandedOver, PlanInv, ReadTeamAndShifts, Built
    <3> QED BY <1>1, <3>1 DEF AnswersInTimeCount, Offered
  <2>3. Cardinality(start[t]) < Capacity(t)
    <3>1. Cardinality(start[t]) \in Nat /\ MinStaff[t] \in Nat /\ Capacity(t) \in Nat
      BY <1>1, StaffFinite, ProblemBounds DEF TypeOK
    <3>2. MinStaff[t] <= Capacity(t)
      BY <3>1, ScheduleSearchAssumption DEF Validate, Capacity
    <3> QED BY <3>1, <3>2
  <2>4. ASSUME NEW u \in Shifts \ {t}, Overlaps(u, t) PROVE Worked(t) \cap Worked(u) # {}
    <3>1. /\ Start[t] \in Int /\ End[t] \in Int /\ Start[u] \in Int /\ End[u] \in Int
          /\ Start[t] < End[t] /\ Start[u] < End[u]
          /\ Worked(t) = Start[t]..(End[t] - 1) /\ Worked(u) = Start[u]..(End[u] - 1)
      BY <1>1, ShiftHours DEF HandedOver, PlanInv, PlanTypes
    <3>2. Start[t] \in Worked(t) /\ Start[u] \in Worked(u)
      BY <3>1
    <3>3. Start[t] \in Worked(u) \/ Start[u] \in Worked(t)
      BY <2>4, <3>1 DEF Overlaps
    <3> QED BY <3>2, <3>3
  <2>5. CASE e \in start[t]
    BY <2>5 DEF IsTaken
  <2>6. CASE \E u \in Shifts \ {t} : e \in start[u] /\ Overlaps(u, t)
    BY <2>4, <2>6 DEF IsTaken
  <2>7. CASE ~(MaxHours[e] > 0 => HoursWith(start, e, t) <= MaxHours[e])
    <3>1. HoursFor(start, e) \in Nat /\ MaxHours[e] \in Nat
      BY <1>1, HoursForType, ProblemBounds DEF TypeOK
    <3>2. HoursOf[{t}] \in Nat
      BY HoursAssumption
    <3> QED BY <2>7, <3>1, <3>2 DEF HoursWith, IsTaken
  <2> QED BY <2>1, <2>2, <2>3, <2>5, <2>6, <2>7 DEF CanAssign
<1>2. Spec => [](TypeOK /\ GreedyLeavesNoGap)
  BY SearchTypeCorrect, GreedyLeavesNoGapAlways, PTL
<1> QED BY <1>1, <1>2, PlanInvAlways, AnswersInTimeCountAlways, PTL
=============================================================================
