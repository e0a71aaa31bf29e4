------------------------- MODULE MCScheduleSearch -------------------------
(* Instances of ScheduleSearch small enough for TLC, scored as the code    *)
(* does.                                                                   *)
EXTENDS ScheduleSearch, TLC, FiniteSetsExt

CONSTANTS an, binh, chi, early, middle, late, night

\* A day: early 8-12, middle 10-16 overlaps early and late, late 14-20, and
\* night 20-23 begins as late ends.
Starts == (early :> 8)  @@ (middle :> 10) @@ (late :> 14) @@ (night :> 20)
Ends   == (early :> 12) @@ (middle :> 16) @@ (late :> 20) @@ (night :> 23)
Hours  == [s \in Shifts |-> Ends[s] - Starts[s]]
HoursSum == [S \in SUBSET Shifts |-> MapThenSumSet(LAMBDA s : Hours[s], S)]

\* Early needs one and takes two, middle takes no more than the one it needs
\* (MaxStaff 0), late needs two and takes two: one too many for this team
\* once the overlapping shifts are filled.  Night needs nobody.
Needs == (early :> 1) @@ (middle :> 1) @@ (late :> 2) @@ (night :> 0)
Takes == (early :> 2) @@ (middle :> 0) @@ (late :> 2) @@ (night :> 1)

\* An may work nine hours: late and night, but not early and late; the others as much
\* as they like.
Limits == (an :> 9) @@ (binh :> 0) @@ (chi :> 0)

\* Chi cannot work early; An prefers early, Binh late.
Wishes == [p \in Employees \X Shifts |->
  CASE p = <<chi, early>> -> 0
    [] p \in {<<an, early>>, <<binh, late>>} -> 2
    [] OTHER -> 1]

PresetOrder == <<"balanced", "fairnessFirst", "preferenceFirst">>

Scoring == INSTANCE ScheduleScore WITH
  Weekday <- [s \in Shifts |-> 1],
  Rules <- {[kind |-> "avoid_pair", a |-> an, b |-> binh, weight |-> 1],
            [kind |-> "day_off", employee |-> an, weekday |-> 1, weight |-> 1]}

ScoreAsInCode(preset, sched) == Scoring!ScoreOf(preset, sched)
=============================================================================
