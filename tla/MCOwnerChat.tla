---------------------------- MODULE MCOwnerChat ----------------------------
(* An instance of OwnerChat small enough for TLC.                          *)
EXTENDS OwnerChat, TLC

CONSTANTS u1

\* Every leave is dictated by the same account.
AllByU1 == [m \in Messages |-> u1]

\* Updates are handled alike, and shops are alike.
ChatSymmetry == Permutations(Handlers) \cup Permutations(Shops)
=============================================================================
