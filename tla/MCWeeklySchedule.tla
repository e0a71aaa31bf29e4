------------------------- MODULE MCWeeklySchedule -------------------------
(* An instance of WeeklySchedule small enough for TLC.                       *)
EXTENDS WeeklySchedule, TLC

CONSTANTS s1, s2, e1

\* Every session belongs to the owner of s1; s2 is another tenant.
AllOwnS1 == [a \in Approvers |-> s1]

\* The one employee works in s2.
OneEmployee == e1 :> s2
=============================================================================
