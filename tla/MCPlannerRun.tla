---------------------------- MODULE MCPlannerRun ----------------------------
(* An instance of PlannerRun small enough for TLC: days of four ticks, a    *)
(* shift in the middle of Monday and one over Sunday's midnight.            *)
EXTENDS PlannerRun, TLC

CONSTANTS anna, bob, Anna, ANNA, Bob, monday, sunday, pair, off, custom, old, leave

MCNameKey == (Anna :> "anna") @@ (ANNA :> "anna") @@ (Bob :> "bob")

MCTemplate == (monday :> [weekday |-> 1, from |-> 1, to |-> 3])
           @@ (sunday :> [weekday |-> 0, from |-> 3, to |-> 1])

Slot(p, from, to) == [start |-> from, end |-> to, preference |-> p]

\* The whole week; the week and beyond, less an hour of Monday; Monday in two
\* halves and the hours of the Sunday shift.
MCAnswers ==
  {{Slot(1, 0, 28)},
   {Slot(1, 0, 30), Slot(0, 2, 3)},
   {Slot(2, 0, 2), Slot(2, 2, 4), Slot(1, 27, 29)}}

Row(kind, weight, isActive) ==
  [active |-> isActive, kind |-> kind, weight |-> weight, jsonWeight |-> 3]

WithParams(row, params) ==
  [active |-> row.active, kind |-> row.kind, weight |-> row.weight,
   jsonWeight |-> row.jsonWeight, params |-> params]

MCRuleRow ==
     (pair :> WithParams(Row("avoid_pair", 2, TRUE), [a |-> Anna, b |-> Bob]))
  @@ (off :> WithParams(Row("day_off", 0, TRUE), [employee |-> Anna, weekday |-> 0]))
  @@ (custom :> Row("custom", 1, TRUE))
  @@ (old :> WithParams(Row("day_off", 1, FALSE), [employee |-> Bob, weekday |-> 9]))

MCLeaveOf == leave :> anna
=============================================================================
