----------------------- MODULE MCAvailabilityIntake -----------------------
(* An instance of AvailabilityIntake small enough for TLC.                   *)
EXTENDS AvailabilityIntake, TLC

CONSTANTS ann, bob, e1, e2, m1, m2

\* Ann works in two shops, as e1 and as e2; Bob only taps.
TwoShops == [e \in Employees |-> ann]

AllByAnn == [m \in Messages |-> ann]

Symmetry == Permutations(Handlers) \cup Permutations(Messages)
=============================================================================
