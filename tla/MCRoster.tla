------------------------------ MODULE MCRoster ------------------------------
(* An instance of Roster small enough for TLC.                             *)
EXTENDS Roster, TLC

CONSTANTS ann, s1, s2, j1, j2, q1, q2, q3

\* Ann follows the link of s1 twice.  Two requests come from the owner of s1,
\* one from the owner of s2.
AllByAnn == [s \in Starts |-> ann]
AllToS1  == [s \in Starts |-> s1]
TwoTabs  == (q1 :> s1) @@ (q2 :> s1) @@ (q3 :> s2)

Symmetry == Permutations(Starts) \cup Permutations({q1, q2})
=============================================================================
