--------------------------- MODULE ScheduleBoard ---------------------------
(***************************************************************************)
(* What the weekly planning promises an owner, with every database         *)
(* transaction collapsed into one step.  A round is one shop's week.  Its  *)
(* candidates appear all together and once; approving one of them makes it *)
(* the only approved candidate of the round, and touches no other round.   *)
(***************************************************************************)
CONSTANTS
  Rounds,   \* the (shop, week) pairs that can be planned
  Labels    \* the variant labels a generation offers (uiLabels: A, B, C)

VARIABLES
  offered,  \* offered[r]: the labels of the candidates shown for round r
  picked    \* picked[r]: the labels of the approved candidates of round r

boardVars == <<offered, picked>>

BoardInit ==
  /\ offered = [r \in Rounds |-> {}]
  /\ picked = [r \in Rounds |-> {}]

\* A generation commits: the whole set of candidates, on an empty round only.
Offer(r) ==
  /\ offered[r] = {}
  /\ offered' = [offered EXCEPT ![r] = Labels]
  /\ UNCHANGED picked

\* An approval commits: one offered candidate replaces whatever was approved.
Pick(r, l) ==
  /\ l \in offered[r]
  /\ picked' = [picked EXCEPT ![r] = {l}]
  /\ UNCHANGED offered

BoardNext == \E r \in Rounds : Offer(r) \/ \E l \in Labels : Pick(r, l)

BoardSpec == BoardInit /\ [][BoardNext]_boardVars
=============================================================================
