----------------------- MODULE WeeklyScheduleProofs ------------------------
(***************************************************************************)
(* Proofs about WeeklySchedule for every set of shops, weeks, requests and *)
(* sessions and every number of candidates: its type invariant, that a     *)
(* round has at most one approved candidate and only whole generations,    *)
(* and that the transactions implement ScheduleBoard.                      *)
(***************************************************************************)
EXTENDS WeeklySchedule, TLAPS

(***************************************************************************)
(* The inductive invariant.  KeysUnique is the unique index of schedules.  *)
(* GenerationProgress says which rows an open generation has inserted.     *)
(* With GenerationWhole they make a round's candidates one generation, so  *)
(* the sibling set an approval reads stays the whole round until it ends.  *)
(* ApprovalProgress is then the two-phase locking argument: an approval    *)
(* about to commit holds every row of its round.                           *)
(***************************************************************************)
KeysUnique ==
  \A i, j \in committed \cup pending :
    RoundOf(i) = RoundOf(j) /\ i[2] = j[2] => i = j

GenerationWhole ==
  \A g \in Generators :
    \/ RowsOf(g) \subseteq committed /\ RowsOf(g) \subseteq filled
    \/ RowsOf(g) \cap committed = {}

GenerationProgress ==
  \A g \in Generators :
    /\ genPC[g] = "idle" => RowsOf(g) \cap pending = {}
    /\ genPC[g] # "idle" => RowsOf(g) \cap committed = {}
    /\ genPC[g] \in {"insert", "assign"} =>
         \A l \in Labels : l < genNext[g] =>
           <<g, l>> \in pending /\ <<g, l>> \in filled
    /\ genPC[g] = "assign" => <<g, genNext[g]>> \in pending
    /\ genPC[g] = "commit" =>
         RowsOf(g) \subseteq pending /\ RowsOf(g) \subseteq filled

ApprovedIsCommitted ==
  \A id \in Ids : status[id] = "approved" => id \in committed

LocksAreOwned ==
  \A id \in Ids : lock[id] # Free =>
    /\ id \in committed
    /\ appPC[lock[id]] \in {"demoting", "commit"}
    /\ RoundOf(id) = RoundOf(target[lock[id]])

ApprovalProgress ==
  \A a \in Approvers :
    /\ appPC[a] # "idle" => /\ target[a] \in committed
                            /\ RoundOf(target[a])[1] = OwnerShop[a]
    /\ toLock[a] \subseteq committed
    /\ appPC[a] = "demoting" =>
         \A id \in RowsIn(RoundOf(target[a])) :
           id = target[a] \/ id \in toLock[a] \/ lock[id] = a
    /\ appPC[a] = "demoting" =>
         \A id \in toLock[a] : RoundOf(id) = RoundOf(target[a])
    /\ appPC[a] = "commit" =>
         \A id \in RowsIn(RoundOf(target[a])) : lock[id] = a

IInv ==
  /\ TypeOK
  /\ KeysUnique
  /\ GenerationWhole
  /\ GenerationProgress
  /\ ApprovedIsCommitted
  /\ LocksAreOwned
  /\ ApprovalProgress
  /\ AtMostOneApproved

-----------------------------------------------------------------------------
(* Rows are pairs of a request and a label.                                *)

\* What the row names are made of; used to keep tuples out of the leaves.
LEMMA RowNames ==
  /\ \A id \in Ids : /\ id[1] \in Generators /\ id[2] \in Labels
                    /\ id = <<id[1], id[2]>>
  /\ \A g \in Generators : \A l \in Labels :
       /\ <<g, l>> \in Ids /\ <<g, l>> \in RowsOf(g)
       /\ <<g, l>>[1] = g /\ <<g, l>>[2] = l
  /\ \A g \in Generators : \A id : id \in RowsOf(g) <=> id \in Ids /\ id[1] = g
  /\ 1 \in Labels /\ Labels \subseteq Nat
  /\ \A l \in Labels : 1 <= l /\ l <= NumCandidates
  /\ \A l \in Labels : l # NumCandidates => l + 1 \in Labels
  /\ NumCandidates \in Labels
BY WeeklyScheduleAssumption DEF Ids, RowsOf, Labels

-----------------------------------------------------------------------------
(* Type correctness.                                                       *)

LEMMA TypeStep == TypeOK /\ [Next]_vars => TypeOK'
<1> SUFFICES ASSUME TypeOK, [Next]_vars PROVE TypeOK'
  OBVIOUS
<1> USE RowNames, WeeklyScheduleAssumption DEF TypeOK, genVars, appVars, voteVars
<1>1. ASSUME NEW g \in Generators, BeginCreate(g) PROVE TypeOK'
  BY <1>1 DEF BeginCreate
<1>2. ASSUME NEW g \in Generators, InsertRow(g) PROVE TypeOK'
  BY <1>2 DEF InsertRow
<1>3. ASSUME NEW g \in Generators, InsertAssignments(g) PROVE TypeOK'
  BY <1>3 DEF InsertAssignments
<1>4. ASSUME NEW g \in Generators, CommitCreate(g) PROVE TypeOK'
  BY <1>4 DEF CommitCreate
<1>5. ASSUME NEW g \in Generators, RollbackCreate(g) PROVE TypeOK'
  BY <1>5 DEF RollbackCreate
<1>6. ASSUME NEW a \in Approvers, NEW id \in Ids, LoadTarget(a, id) PROVE TypeOK'
  BY <1>6 DEF LoadTarget, InOwnShop
<1>7. ASSUME NEW a \in Approvers, DemoteSiblings(a) PROVE TypeOK'
  BY <1>7 DEF DemoteSiblings, Siblings, RowsIn
<1>8. ASSUME NEW a \in Approvers, NEW id \in Ids, LockSibling(a, id) PROVE TypeOK'
  BY <1>8 DEF LockSibling
<1>9. ASSUME NEW a \in Approvers, ApproveTarget(a) PROVE TypeOK'
  BY <1>9 DEF ApproveTarget
<1>10. ASSUME NEW a \in Approvers, CommitApprove(a) PROVE TypeOK'
  BY <1>10 DEF CommitApprove, Written, EndApprove, LocksFreed
<1>11. ASSUME NEW a \in Approvers, FailApprove(a) PROVE TypeOK'
  BY <1>11 DEF FailApprove, EndApprove, LocksFreed
<1>12. ASSUME NEW e \in Employees, NEW id \in Ids, CheckBallot(e, id) PROVE TypeOK'
  BY <1>12 DEF CheckBallot, MayVote, Ballot
<1>13. ASSUME NEW b \in ballots, WriteVote(b) PROVE TypeOK'
  <2>1. b.employee \in Employees /\ b.schedule \in Ids
    BY DEF Ballot
  <2>2. RoundOf(b.schedule) \in Shops \X Weeks
    BY <2>1 DEF RoundOf, Rounds
  <2>3. [shop |-> EmployeeShop[b.employee], employee |-> b.employee,
         week |-> RoundOf(b.schedule)[2], schedule |-> b.schedule] \in VoteRow
    BY <2>1, <2>2 DEF VoteRow
  <2>4. \A v \in VoteRow : [v EXCEPT !.schedule = b.schedule] \in VoteRow
    BY <2>1 DEF VoteRow
  <2> QED BY <1>13, <2>3, <2>4 DEF WriteVote
<1>14. ASSUME NEW b \in ballots, FailVote(b) PROVE TypeOK'
  BY <1>14 DEF FailVote
<1>15. CASE UNCHANGED vars
  BY <1>15 DEF vars
<1> QED
  BY <1>1, <1>2, <1>3, <1>4, <1>5, <1>6, <1>7, <1>8, <1>9, <1>10, <1>11,
     <1>12, <1>13, <1>14, <1>15
  DEF Next, Create, Approve, Vote, KeyTaken, FailCreate, BreakDeadlock

\* Every reachable state is well typed: rows, statuses, the requests' program
\* counters, locks and votes stay in the sets the schema and the handlers use.
THEOREM TypeCorrect == Spec => []TypeOK
<1>1. Init => TypeOK
  BY RowNames DEF Init, TypeOK
<1> QED BY <1>1, TypeStep, PTL DEF Spec

-----------------------------------------------------------------------------
(* The generation half of the invariant: unique keys, whole generations.   *)

GenInv == KeysUnique /\ GenerationWhole /\ GenerationProgress
AppInv ==
  ApprovedIsCommitted /\ LocksAreOwned /\ ApprovalProgress /\ AtMostOneApproved

\* Two committed candidates of one round come from the same generation.
LEMMA OneGenerationPerRound ==
  ASSUME TypeOK, KeysUnique, GenerationWhole,
         NEW i \in committed, NEW j \in committed, RoundOf(i) = RoundOf(j)
  PROVE  i[1] = j[1]
<1>1. i \in RowsOf(i[1]) /\ j \in RowsOf(j[1])
  BY RowNames DEF TypeOK
<1>2. <<i[1], 1>> \in committed /\ <<j[1], 1>> \in committed
  BY <1>1, RowNames DEF TypeOK, GenerationWhole
<1>3. <<i[1], 1>> = <<j[1], 1>>
  BY <1>2, RowNames DEF KeysUnique, RoundOf
<1> QED BY <1>3

\* A generation about to commit finds its round still empty.
LEMMA CommitFindsRoundEmpty ==
  ASSUME TypeOK, GenInv, NEW g \in Generators, genPC[g] = "commit"
  PROVE  \A j \in committed : RoundOf(j) # genRound[g]
<1> SUFFICES ASSUME NEW j \in committed, RoundOf(j) = genRound[g] PROVE FALSE
  OBVIOUS
<1>1. j \in Ids /\ j \in RowsOf(j[1]) /\ j[1] \in Generators
  BY RowNames DEF TypeOK
<1>2. <<j[1], 1>> \in committed
  BY <1>1, RowNames DEF GenInv, GenerationWhole
<1>3. <<g, 1>> \in pending /\ <<g, 1>> \notin committed
  BY RowNames DEF GenInv, GenerationProgress
<1>4. <<j[1], 1>> = <<g, 1>>
  BY <1>1, <1>2, <1>3, RowNames DEF GenInv, KeysUnique, RoundOf
<1> QED BY <1>2, <1>3, <1>4

\* The labels below the next one are those up to this one.
LEMMA BelowNext ==
  \A l, n \in Labels : (l < n + 1 => l <= n) /\ (l <= n => l < n \/ l = n)
BY RowNames

LEMMA GenStep ==
  ASSUME TypeOK, TypeOK', GenInv, NEW g \in Generators, Create(g)
  PROVE  GenInv'
<1> USE RowNames DEF TypeOK, GenInv
<1>0. genRound' = genRound /\ \A id : RoundOf(id)' = RoundOf(id)
  BY DEF Create, BeginCreate, InsertRow, InsertAssignments, CommitCreate,
         KeyTaken, FailCreate, RollbackCreate, RoundOf
<1>1. CASE BeginCreate(g)
  <2>1. GenerationProgress'
    BY <1>1 DEF BeginCreate, GenerationProgress
  <2> QED BY <1>0, <1>1, <2>1
    DEF BeginCreate, KeysUnique, GenerationWhole
<1>2. CASE InsertRow(g)
  <2> DEFINE x == <<g, genNext[g]>>
  <2>1. x \in Ids /\ x[1] = g /\ x[2] = genNext[g] /\ RoundOf(x) = genRound[g]
    BY DEF RoundOf
  <2>2. pending' = pending \cup {x} /\ UNCHANGED <<committed, filled, genNext>>
    BY <1>2 DEF InsertRow
  <2>3. \A j \in committed \cup pending :
          ~(RoundOf(j) = RoundOf(x) /\ j[2] = x[2])
    BY <1>2, <2>1 DEF InsertRow, SameKey
  <2> HIDE DEF x
  <2>4. KeysUnique'
    BY <1>0, <2>2, <2>3 DEF KeysUnique
  <2>5. GenerationWhole'
    BY <2>2 DEF GenerationWhole
  <2>6. ASSUME NEW h \in Generators, h # g PROVE x \notin RowsOf(h)
    BY <2>1, <2>6
  <2>7. GenerationProgress'
    BY <1>2, <2>2, <2>6 DEF InsertRow, GenerationProgress, x
  <2> QED BY <2>4, <2>5, <2>7
<1>3. CASE InsertAssignments(g)
  <2>1. filled' = filled \cup {<<g, genNext[g]>>}
        /\ UNCHANGED <<committed, pending>>
    BY <1>3 DEF InsertAssignments
  <2>2. KeysUnique' /\ GenerationWhole'
    BY <1>0, <2>1 DEF KeysUnique, GenerationWhole
  <2>3. \A l \in Labels : l <= genNext[g] =>
          <<g, l>> \in pending' /\ <<g, l>> \in filled'
    BY <1>3, <2>1, BelowNext DEF InsertAssignments, GenerationProgress
  <2>4. CASE genNext[g] = NumCandidates
    <3>1. RowsOf(g) \subseteq pending' /\ RowsOf(g) \subseteq filled'
      BY <2>3, <2>4
    <3> QED BY <1>3, <2>1, <2>2, <2>4, <3>1 DEF InsertAssignments, GenerationProgress
  <2>5. CASE genNext[g] # NumCandidates
    <3>1. genNext'[g] = genNext[g] + 1 /\ genPC'[g] = "insert"
      BY <1>3, <2>5 DEF InsertAssignments
    <3>2. \A l \in Labels : l < genNext'[g] => l <= genNext[g]
      BY <3>1, BelowNext
    <3> QED BY <1>3, <2>1, <2>2, <2>3, <3>1, <3>2
      DEF InsertAssignments, GenerationProgress
  <2> QED BY <2>4, <2>5
<1>4. CASE CommitCreate(g)
  <2>1. RowsOf(g) \subseteq pending /\ RowsOf(g) \subseteq filled
    BY <1>4 DEF CommitCreate, GenerationProgress
  <2>2. /\ committed' = committed \cup RowsOf(g)
        /\ pending' = pending \ RowsOf(g)
        /\ UNCHANGED <<filled, genNext>>
        /\ genPC' = [genPC EXCEPT ![g] = "idle"]
    BY <1>4, <2>1 DEF CommitCreate
  <2>3. KeysUnique'
    BY <1>0, <2>1, <2>2 DEF KeysUnique
  <2>4. ASSUME NEW h \in Generators, h # g PROVE RowsOf(h) \cap RowsOf(g) = {}
    BY <2>4
  <2>5. GenerationWhole'
    BY <2>1, <2>2, <2>4 DEF GenerationWhole
  <2>6. GenerationProgress'
    BY <2>2, <2>4 DEF GenerationProgress
  <2> QED BY <2>3, <2>5, <2>6
<1>5. CASE genPC[g] # "idle" /\ RollbackCreate(g)
  <2>1. /\ pending' = pending \ RowsOf(g) /\ filled' = filled \ RowsOf(g)
        /\ UNCHANGED <<committed, genNext>>
        /\ genPC' = [genPC EXCEPT ![g] = "idle"]
    BY <1>5 DEF RollbackCreate
  <2>2. ASSUME NEW h \in Generators, h # g PROVE RowsOf(h) \cap RowsOf(g) = {}
    BY <2>2
  <2>3. RowsOf(g) \cap committed = {}
    BY <1>5 DEF GenerationProgress
  <2>4. KeysUnique'
    BY <1>0, <2>1 DEF KeysUnique
  <2>5. GenerationWhole'
    BY <2>1, <2>2, <2>3 DEF GenerationWhole
  <2>6. GenerationProgress'
    BY <2>1, <2>2, <2>3 DEF GenerationProgress
  <2> QED BY <2>4, <2>5, <2>6
<1> QED BY <1>1, <1>2, <1>3, <1>4, <1>5 DEF Create, KeyTaken, FailCreate

-----------------------------------------------------------------------------
(* The approval half: locks are held to the end of the transaction.        *)

\* A generation's steps leave it alone: only its commit shows new rows, and
\* they belong to a round in which no approval can be under way.
LEMMA GenStepKeepsAppInv ==
  ASSUME TypeOK, GenInv, AppInv, NEW g \in Generators, Create(g)
  PROVE  AppInv'
<1> USE RowNames DEF TypeOK
<1>0. /\ UNCHANGED <<status, appPC, target, toLock, lock>>
      /\ \A id : RoundOf(id)' = RoundOf(id)
  BY DEF Create, BeginCreate, InsertRow, InsertAssignments, CommitCreate,
         KeyTaken, FailCreate, RollbackCreate, RoundOf, appVars
<1>1. CASE committed' = committed
  <2>1. \A r : RowsIn(r)' = RowsIn(r) /\ Approved(r)' = Approved(r)
    BY <1>0, <1>1 DEF RowsIn, Approved
  <2> QED BY <1>0, <1>1, <2>1
    DEF AppInv, ApprovedIsCommitted, LocksAreOwned, ApprovalProgress,
        AtMostOneApproved
<1>2. CASE CommitCreate(g)
  <2>1. /\ committed' = committed \cup (pending \cap RowsOf(g))
        /\ \A j \in committed : RoundOf(j) # genRound[g]
        /\ RowsOf(g) \cap committed = {}
    BY <1>2, CommitFindsRoundEmpty DEF CommitCreate, GenInv, GenerationProgress
  <2>2. \A id \in committed' \ committed :
          RoundOf(id) = genRound[g] /\ status[id] # "approved"
    BY <2>1 DEF RoundOf, AppInv, ApprovedIsCommitted
  <2>3. \A j \in committed : RowsIn(RoundOf(j))' = RowsIn(RoundOf(j))
    BY <1>0, <2>1, <2>2 DEF RowsIn
  <2>4. \A r : Approved(r)' = Approved(r)
    BY <1>0, <2>1, <2>2 DEF Approved, RowsIn
  <2>5. ApprovedIsCommitted' /\ LocksAreOwned' /\ AtMostOneApproved'
    BY <1>0, <2>1, <2>4
    DEF AppInv, ApprovedIsCommitted, LocksAreOwned, AtMostOneApproved
  <2>6. ApprovalProgress'
    BY <1>0, <2>1, <2>3 DEF AppInv, ApprovalProgress, RowsIn
  <2> QED BY <2>5, <2>6 DEF AppInv
<1> QED BY <1>1, <1>2
  DEF Create, BeginCreate, InsertRow, InsertAssignments, KeyTaken, FailCreate,
      RollbackCreate

\* An approval's end releases its locks and nobody else's.
LEMMA EndApproveKeepsProgress ==
  ASSUME TypeOK, TypeOK', AppInv, NEW a \in Approvers, EndApprove(a)
  PROVE  LocksAreOwned' /\ ApprovalProgress'
<1> USE RowNames, WeeklyScheduleAssumption DEF TypeOK
<1>1. /\ \A id \in Ids : lock'[id] = IF lock[id] = a THEN Free ELSE lock[id]
      /\ toLock' = [toLock EXCEPT ![a] = {}]
      /\ target' = [target EXCEPT ![a] = NoRow]
      /\ appPC' = [appPC EXCEPT ![a] = "idle"]
      /\ committed' = committed
      /\ \A id : RoundOf(id)' = RoundOf(id)
      /\ \A r : RowsIn(r)' = RowsIn(r)
  BY DEF EndApprove, LocksFreed, genVars, RowsIn, RoundOf
<1>2. LocksAreOwned'
  BY <1>1 DEF AppInv, LocksAreOwned
<1>3. ASSUME NEW b \in Approvers, b # a
      PROVE  /\ UNCHANGED <<toLock[b], target[b], appPC[b]>>
             /\ \A id \in Ids : lock[id] = b => lock'[id] = b
  BY <1>1, <1>3
<1>4. ApprovalProgress'
  BY <1>1, <1>3 DEF AppInv, ApprovalProgress, RowsIn
<1> QED BY <1>2, <1>4

LEMMA AppStep ==
  ASSUME TypeOK, TypeOK', AppInv, NEW a \in Approvers, Approve(a)
  PROVE  AppInv'
<1> USE RowNames, WeeklyScheduleAssumption DEF TypeOK
<1>0. /\ committed' = committed
      /\ \A id : RoundOf(id)' = RoundOf(id)
      /\ \A r : RowsIn(r)' = RowsIn(r)
  BY DEF Approve, LoadTarget, InOwnShop, LockSibling, DemoteSiblings, Siblings, ApproveTarget,
         CommitApprove, Written, FailApprove, BreakDeadlock, EndApprove, LocksFreed, genVars,
         RowsIn, RoundOf
<1>1. ASSUME UNCHANGED status
      PROVE  ApprovedIsCommitted' /\ AtMostOneApproved'
  BY <1>0, <1>1 DEF AppInv, ApprovedIsCommitted, AtMostOneApproved, Approved
<1>2. ASSUME NEW id \in Ids, LoadTarget(a, id) PROVE AppInv'
  <2>1. \A x \in Ids : lock[x] # a
    BY <1>2 DEF LoadTarget, InOwnShop, AppInv, LocksAreOwned
  <2>2. LocksAreOwned'
    BY <1>0, <1>2, <2>1 DEF LoadTarget, InOwnShop, AppInv, LocksAreOwned
  <2>3. ApprovalProgress'
    BY <1>0, <1>2 DEF LoadTarget, InOwnShop, AppInv, ApprovalProgress, RowsIn
  <2> QED BY <1>1, <1>2, <2>2, <2>3 DEF LoadTarget, InOwnShop, AppInv
<1>3. ASSUME DemoteSiblings(a) PROVE AppInv'
  <2>1. LocksAreOwned'
    BY <1>0, <1>3 DEF DemoteSiblings, Siblings, AppInv, LocksAreOwned
  <2>2. ApprovalProgress'
    BY <1>0, <1>3 DEF DemoteSiblings, Siblings, AppInv, ApprovalProgress, RowsIn
  <2> QED BY <1>1, <1>3, <2>1, <2>2 DEF DemoteSiblings, Siblings, AppInv
<1>4. ASSUME NEW id \in Ids, LockSibling(a, id) PROVE AppInv'
  <2>1. LocksAreOwned'
    BY <1>0, <1>4 DEF LockSibling, AppInv, LocksAreOwned, ApprovalProgress
  <2>2. ApprovalProgress'
    BY <1>0, <1>4 DEF LockSibling, AppInv, ApprovalProgress, RowsIn
  <2> QED BY <1>1, <1>4, <2>1, <2>2 DEF LockSibling, AppInv
<1>5. ASSUME ApproveTarget(a) PROVE AppInv'
  <2>1. target[a] \in Ids /\ target[a] \in committed
    BY <1>5 DEF ApproveTarget, AppInv, ApprovalProgress
  <2>2. LocksAreOwned'
    BY <1>0, <1>5, <2>1 DEF ApproveTarget, AppInv, LocksAreOwned
  <2>3. ApprovalProgress'
    BY <1>0, <1>5, <2>1 DEF ApproveTarget, AppInv, ApprovalProgress, RowsIn
  <2> QED BY <1>1, <1>5, <2>2, <2>3 DEF ApproveTarget, AppInv
<1>6. ASSUME CommitApprove(a) PROVE AppInv'
  <2> DEFINE r == RoundOf(target[a])
  <2>1. EndApprove(a) /\ target[a] \in committed
        /\ \A id \in RowsIn(r) : lock[id] = a
    BY <1>6 DEF CommitApprove, Written, AppInv, ApprovalProgress
  <2>2. \A id \in Ids : lock[id] = a => id \in RowsIn(r)
    BY DEF AppInv, LocksAreOwned, RowsIn
  <2>3. \A id \in Ids : status'[id] =
          IF lock[id] # a THEN status[id]
          ELSE IF id = target[a] THEN "approved" ELSE "draft"
    BY <1>6 DEF CommitApprove, Written
  <2>4. ApprovedIsCommitted'
    BY <1>0, <2>1, <2>3 DEF AppInv, ApprovedIsCommitted
  <2>5. ASSUME NEW s \in Rounds, NEW i \in Approved(s)', NEW j \in Approved(s)'
        PROVE  i = j
    <3>1. i \in RowsIn(s) /\ j \in RowsIn(s) /\ i \in Ids /\ j \in Ids
      BY <1>0 DEF Approved, RowsIn
    <3>2. CASE s = r
      BY <2>1, <2>3, <3>1, <3>2 DEF Approved
    <3>3. CASE s # r
      <4>1. lock[i] # a /\ lock[j] # a
        BY <2>2, <3>1, <3>3 DEF RowsIn
      <4>2. i \in Approved(s) /\ j \in Approved(s)
        BY <2>3, <3>1, <4>1 DEF Approved
      <4> QED BY <4>2 DEF AppInv, AtMostOneApproved
    <3> QED BY <3>2, <3>3
  <2>6. AtMostOneApproved'
    BY <2>5 DEF AtMostOneApproved
  <2> QED BY <2>1, <2>4, <2>6, EndApproveKeepsProgress DEF AppInv
<1>7. ASSUME FailApprove(a) PROVE AppInv'
  BY <1>1, <1>7, EndApproveKeepsProgress DEF FailApprove, AppInv
<1> QED BY <1>2, <1>3, <1>4, <1>5, <1>6, <1>7 DEF Approve, BreakDeadlock

-----------------------------------------------------------------------------
(* The theorems.                                                           *)

LEMMA InitIInv == Init => IInv
<1> SUFFICES ASSUME Init PROVE IInv
  OBVIOUS
<1> USE RowNames, WeeklyScheduleAssumption DEF Init
<1>1. TypeOK
  BY DEF TypeOK
<1>2. KeysUnique /\ GenerationWhole /\ ApprovedIsCommitted
  BY DEF KeysUnique, GenerationWhole, ApprovedIsCommitted
<1>3. GenerationProgress
  BY DEF GenerationProgress
<1>4. LocksAreOwned /\ ApprovalProgress
  BY DEF LocksAreOwned, ApprovalProgress
<1>5. AtMostOneApproved
  BY DEF AtMostOneApproved, Approved, RowsIn
<1> QED BY <1>1, <1>2, <1>3, <1>4, <1>5 DEF IInv

LEMMA StepIInv == IInv /\ [Next]_vars => IInv'
<1> SUFFICES ASSUME IInv, [Next]_vars PROVE IInv'
  OBVIOUS
<1>1. TypeOK /\ TypeOK' /\ GenInv /\ AppInv
  BY TypeStep DEF IInv, GenInv, AppInv
<1>2. ASSUME NEW g \in Generators, Create(g) PROVE GenInv' /\ AppInv'
  BY <1>1, <1>2, GenStep, GenStepKeepsAppInv
<1>3. ASSUME UNCHANGED genVars PROVE GenInv'
  BY <1>1, <1>3 DEF genVars, GenInv, KeysUnique, GenerationWhole,
                    GenerationProgress, RoundOf
<1>4. ASSUME NEW a \in Approvers, Approve(a) PROVE GenInv' /\ AppInv'
  <2>1. UNCHANGED genVars
    BY <1>4 DEF Approve, LoadTarget, InOwnShop, LockSibling, DemoteSiblings, Siblings,
                ApproveTarget, CommitApprove, Written, FailApprove, BreakDeadlock,
                EndApprove, LocksFreed
  <2> QED BY <1>1, <1>3, <1>4, <2>1, AppStep
<1>5. ASSUME UNCHANGED <<genVars, appVars>> PROVE GenInv' /\ AppInv'
  BY <1>1, <1>3, <1>5 DEF genVars, appVars, AppInv, ApprovedIsCommitted,
     LocksAreOwned, ApprovalProgress, AtMostOneApproved, Approved, RowsIn, RoundOf
<1>6. ASSUME Vote PROVE UNCHANGED <<genVars, appVars>>
  BY <1>6 DEF Vote, CheckBallot, MayVote, WriteVote, FailVote
<1>7. GenInv' /\ AppInv'
  BY <1>2, <1>4, <1>5, <1>6 DEF Next, vars
<1> QED BY <1>1, <1>7 DEF IInv, GenInv, AppInv

LEMMA InductiveInvariant == Spec => []IInv
BY InitIInv, StepIInv, PTL DEF Spec

\* However many owner sessions approve candidates of a round at once, and
\* whichever of them fail or deadlock, at most one candidate is approved.
THEOREM AtMostOneApprovedHolds == Spec => []AtMostOneApproved
BY InductiveInvariant, PTL DEF IInv

\* A round shows no candidates or exactly the complete, filled candidates of
\* one generation, for any number of concurrent generation requests.
THEOREM CandidatesCompleteHolds == Spec => []CandidatesComplete
<1>1. ASSUME IInv PROVE CandidatesComplete
  <2> SUFFICES ASSUME NEW r \in Rounds, NEW i \in RowsIn(r)
               PROVE \E g \in Generators :
                       RowsIn(r) = RowsOf(g) /\ RowsOf(g) \subseteq filled
    BY DEF CandidatesComplete
  <2>1. TypeOK /\ KeysUnique /\ GenerationWhole /\ i \in committed
        /\ committed \subseteq Ids /\ RoundOf(i) = r
    BY <1>1 DEF IInv, TypeOK, RowsIn
  <2>2. i[1] \in Generators /\ i \in RowsOf(i[1])
    BY <2>1, RowNames
  <2>3. RowsOf(i[1]) \subseteq committed /\ RowsOf(i[1]) \subseteq filled
    BY <2>1, <2>2 DEF GenerationWhole
  <2>4. ASSUME NEW j \in RowsIn(r) PROVE j \in RowsOf(i[1])
    <3>1. j \in committed /\ RoundOf(j) = RoundOf(i)
      BY <2>1 DEF RowsIn
    <3>2. j[1] = i[1]
      BY <2>1, <3>1, OneGenerationPerRound
    <3> QED BY <2>1, <2>2, <3>1, <3>2, RowNames
  <2>5. ASSUME NEW j \in RowsOf(i[1]) PROVE j \in RowsIn(r)
    BY <2>1, <2>2, <2>3, RowNames DEF RowsIn, RoundOf
  <2> QED BY <2>2, <2>3, <2>4, <2>5
<1> QED BY <1>1, InductiveInvariant, PTL

-----------------------------------------------------------------------------
(* Refinement: one board step per commit, none for any other step.         *)

LEMMA LabelsOfRows ==
  /\ LabelsOf({}) = {}
  /\ \A g \in Generators : LabelsOf(RowsOf(g)) = Labels
  /\ \A id \in Ids : LabelsOf({id}) = {id[2]}
  /\ \A S : \A id \in S : id[2] \in LabelsOf(S)
<1>1. LabelsOf({}) = {} /\ \A S : \A id \in S : id[2] \in LabelsOf(S)
  BY DEF LabelsOf
<1>2. ASSUME NEW g \in Generators PROVE LabelsOf(RowsOf(g)) = Labels
  <2>1. ASSUME NEW l \in Labels PROVE l \in LabelsOf(RowsOf(g))
    <3>1. <<g, l>> \in RowsOf(g) /\ <<g, l>>[2] = l
      BY RowNames
    <3> QED BY <3>1, <1>1
  <2>2. ASSUME NEW l \in LabelsOf(RowsOf(g)) PROVE l \in Labels
    BY RowNames DEF LabelsOf
  <2> QED BY <2>1, <2>2
<1>3. ASSUME NEW id \in Ids PROVE LabelsOf({id}) = {id[2]}
  BY DEF LabelsOf
<1> QED BY <1>1, <1>2, <1>3

\* A round that fills with one generation, all else unchanged, is an Offer.
LEMMA BoardOffer ==
  ASSUME NEW g \in Generators, NEW r \in Rounds,
         RowsIn(r) = {}, RowsIn(r)' = RowsOf(g),
         \A s \in Rounds : s # r => RowsIn(s)' = RowsIn(s),
         \A s \in Rounds : Approved(s)' = Approved(s)
  PROVE  Board!Offer(r)
<1> DEFINE off == [s \in Rounds |-> LabelsOf(RowsIn(s))]
           pck == [s \in Rounds |-> LabelsOf(Approved(s))]
<1>1. off' = [s \in Rounds |-> LabelsOf(RowsIn(s)')]
      /\ pck' = [s \in Rounds |-> LabelsOf(Approved(s)')]
  BY DEF LabelsOf
<1>2. LabelsOf(RowsIn(r)) = {} /\ LabelsOf(RowsIn(r)') = Labels
  BY LabelsOfRows
<1>3. off[r] = {} /\ pck' = pck
  BY <1>1, <1>2
<1>4. off' = [off EXCEPT ![r] = Labels]
  BY <1>1, <1>2
<1> QED BY <1>3, <1>4 DEF Board!Offer

\* A round in which one row becomes the approved one is a Pick.
LEMMA BoardPick ==
  ASSUME NEW r \in Rounds, NEW t \in Ids, t \in RowsIn(r), Approved(r)' = {t},
         \A s : RowsIn(s)' = RowsIn(s),
         \A s \in Rounds : s # r => Approved(s)' = Approved(s)
  PROVE  Board!Pick(r, t[2])
<1> DEFINE off == [s \in Rounds |-> LabelsOf(RowsIn(s))]
           pck == [s \in Rounds |-> LabelsOf(Approved(s))]
<1>1. off' = [s \in Rounds |-> LabelsOf(RowsIn(s)')]
      /\ pck' = [s \in Rounds |-> LabelsOf(Approved(s)')]
  BY DEF LabelsOf
<1>2. LabelsOf(Approved(r)') = {t[2]} /\ t[2] \in LabelsOf(RowsIn(r))
  BY LabelsOfRows
<1>3. t[2] \in off[r] /\ off' = off
  BY <1>1, <1>2
<1>4. pck' = [pck EXCEPT ![r] = {t[2]}]
  BY <1>1, <1>2
<1> QED BY <1>3, <1>4 DEF Board!Pick

LEMMA CommitCreateOffers ==
  ASSUME IInv, NEW g \in Generators, CommitCreate(g),
         NEW r \in Rounds, r = genRound[g]
  PROVE  Board!Offer(r)
<1> USE RowNames DEF TypeOK
<1>0. TypeOK /\ GenInv /\ ApprovedIsCommitted
  BY DEF IInv, GenInv
<1>2. committed' = committed \cup RowsOf(g) /\ RowsOf(g) \cap committed = {}
      /\ UNCHANGED <<status, genRound>>
  BY <1>0 DEF CommitCreate, GenInv, GenerationProgress, appVars
<1>3. \A j \in committed : RoundOf(j) # r
  BY <1>0, CommitFindsRoundEmpty DEF CommitCreate
<1>4. \A id \in RowsOf(g) : RoundOf(id) = r /\ status[id] # "approved"
  BY <1>0, <1>2 DEF RoundOf, ApprovedIsCommitted
<1>5. \A id : RoundOf(id)' = RoundOf(id)
  BY <1>2 DEF RoundOf
<1>6. RowsIn(r) = {} /\ RowsIn(r)' = RowsOf(g)
  BY <1>2, <1>3, <1>4, <1>5 DEF RowsIn
<1>7. \A s \in Rounds : s # r => RowsIn(s)' = RowsIn(s)
  BY <1>2, <1>4, <1>5 DEF RowsIn
<1>8. \A s \in Rounds : Approved(s)' = Approved(s)
  BY <1>2, <1>4, <1>5 DEF Approved, RowsIn
<1> QED BY <1>6, <1>7, <1>8, BoardOffer

LEMMA CommitApprovePicks ==
  ASSUME IInv, NEW a \in Approvers, CommitApprove(a),
         NEW t \in Ids, t = target[a], NEW r \in Rounds, r = RoundOf(t)
  PROVE  Board!Pick(r, t[2])
<1> USE RowNames, WeeklyScheduleAssumption DEF TypeOK
<1>0. TypeOK /\ LocksAreOwned /\ ApprovalProgress
  BY DEF IInv
<1>1. t \in committed /\ \A id \in RowsIn(r) : lock[id] = a
  BY <1>0 DEF CommitApprove, Written, ApprovalProgress
<1>2. t \in RowsIn(r)
  BY <1>1 DEF RowsIn
<1>3. /\ UNCHANGED <<committed, genRound>>
      /\ \A id : RoundOf(id)' = RoundOf(id)
      /\ \A id \in Ids : status'[id] =
            IF lock[id] # a THEN status[id]
            ELSE IF id = t THEN "approved" ELSE "draft"
  BY DEF CommitApprove, Written, EndApprove, LocksFreed, genVars, RoundOf
<1>4. \A s : RowsIn(s)' = RowsIn(s)
  BY <1>3 DEF RowsIn
<1>5. Approved(r)' = {t}
  <2>1. \A id \in RowsIn(r) : status'[id] = "approved" <=> id = t
    BY <1>0, <1>1, <1>3 DEF RowsIn
  <2> QED BY <1>2, <1>4, <2>1 DEF Approved
<1>6. \A s \in Rounds : s # r => Approved(s)' = Approved(s)
  <2>1. \A id \in Ids : lock[id] = a => RoundOf(id) = r
    BY <1>0 DEF LocksAreOwned
  <2> QED BY <1>0, <1>3, <1>4, <2>1 DEF Approved, RowsIn
<1> QED BY <1>2, <1>4, <1>5, <1>6, BoardPick

\* Every behaviour of the transactions is a behaviour of the board on which
\* a generation appears at once and an approval replaces the choice at once.
THEOREM ImplementsBoardHolds == Spec => ImplementsBoard
<1>1. Init => Board!BoardInit
  <2> SUFFICES ASSUME Init PROVE Board!BoardInit
    OBVIOUS
  <2>1. \A r \in Rounds : RowsIn(r) = {} /\ Approved(r) = {}
    BY DEF Init, RowsIn, Approved
  <2> QED BY <2>1, LabelsOfRows DEF Board!BoardInit
<1>2. ASSUME IInv, [Next]_vars
      PROVE  [Board!BoardNext]_(Board!boardVars)
  <2>1. ASSUME UNCHANGED <<committed, status, genRound>>
        PROVE  UNCHANGED Board!boardVars
    <3>1. \A r : RowsIn(r)' = RowsIn(r) /\ Approved(r)' = Approved(r)
      BY <2>1 DEF RowsIn, Approved, RoundOf
    <3> QED BY <3>1 DEF Board!boardVars
  <2>2. ASSUME NEW g \in Generators, Create(g)
        PROVE  CommitCreate(g) \/ UNCHANGED <<committed, status, genRound>>
    BY <2>2 DEF Create, BeginCreate, InsertRow, InsertAssignments, KeyTaken,
                FailCreate, RollbackCreate, appVars
  <2>3. ASSUME NEW a \in Approvers, Approve(a)
        PROVE  CommitApprove(a) \/ UNCHANGED <<committed, status, genRound>>
    BY <2>3 DEF Approve, LoadTarget, InOwnShop, LockSibling, DemoteSiblings, Siblings,
                ApproveTarget, FailApprove, BreakDeadlock, EndApprove, LocksFreed, genVars
  <2>4. ASSUME Vote \/ UNCHANGED vars
        PROVE  UNCHANGED <<committed, status, genRound>>
    BY <2>4 DEF Vote, CheckBallot, MayVote, WriteVote, FailVote, vars, genVars, appVars
  <2>5. ASSUME NEW g \in Generators, CommitCreate(g) PROVE Board!BoardNext
    <3>1. PICK r \in Rounds : r = genRound[g]
      BY <1>2 DEF IInv, TypeOK
    <3>2. Board!Offer(r)
      BY <1>2, <2>5, <3>1, CommitCreateOffers
    <3> QED BY <3>2 DEF Board!BoardNext
  <2>6. ASSUME NEW a \in Approvers, CommitApprove(a) PROVE Board!BoardNext
    <3>1. PICK t \in Ids : t = target[a]
      BY <1>2, <2>6 DEF IInv, TypeOK, CommitApprove, Written, ApprovalProgress
    <3>2. RoundOf(t) \in Rounds /\ t[2] \in Labels
      BY <1>2, <3>1, RowNames DEF IInv, TypeOK, RoundOf
    <3>3. PICK r \in Rounds : r = RoundOf(t)
      BY <3>2
    <3>4. Board!Pick(r, t[2])
      BY <1>2, <2>6, <3>1, <3>3, CommitApprovePicks
    <3> QED BY <3>2, <3>4 DEF Board!BoardNext
  <2> QED BY <1>2, <2>1, <2>2, <2>3, <2>4, <2>5, <2>6 DEF Next
<1> QED BY <1>1, <1>2, InductiveInvariant, PTL
        DEF Spec, ImplementsBoard, Board!BoardSpec

-----------------------------------------------------------------------------
(* Action properties.                                                      *)

\* Only a committing approval writes a status, and only in its own round.
LEMMA StatusWriters ==
  ASSUME [Next]_vars, status' # status
  PROVE  \E a \in Approvers : CommitApprove(a)
BY DEF Next, Create, BeginCreate, InsertRow, InsertAssignments, CommitCreate,
       KeyTaken, FailCreate, RollbackCreate, Approve, LoadTarget, InOwnShop, LockSibling,
       DemoteSiblings, Siblings, ApproveTarget, FailApprove, BreakDeadlock, Vote,
       CheckBallot, MayVote, WriteVote, FailVote, vars, appVars

\* No step changes the status of a candidate outside the round and the shop
\* of the approval that commits in it.
THEOREM StatusChangesInOwnRoundHolds == Spec => StatusChangesInOwnRound
<1>1. ASSUME IInv, [Next]_vars
      PROVE  [\A id \in Ids : status'[id] # status[id] =>
                \E a \in Approvers :
                  /\ appPC[a] = "commit" /\ appPC'[a] = "idle"
                  /\ OwnerShop[a] = RoundOf(id)[1]
                  /\ RoundOf(target[a]) = RoundOf(id)]_vars
  <2> SUFFICES ASSUME NEW id \in Ids, status'[id] # status[id]
               PROVE \E a \in Approvers :
                       /\ appPC[a] = "commit" /\ appPC'[a] = "idle"
                       /\ OwnerShop[a] = RoundOf(id)[1]
                       /\ RoundOf(target[a]) = RoundOf(id)
    OBVIOUS
  <2>1. PICK a \in Approvers : CommitApprove(a)
    BY <1>1, StatusWriters DEF vars, appVars
  <2>2. lock[id] = a /\ appPC[a] = "commit" /\ appPC'[a] = "idle"
    BY <1>1, <2>1 DEF CommitApprove, Written, EndApprove, LocksFreed, IInv, TypeOK
  <2>3. RoundOf(id) = RoundOf(target[a])
    BY <1>1, <2>2, WeeklyScheduleAssumption DEF IInv, LocksAreOwned
  <2>4. RoundOf(target[a])[1] = OwnerShop[a]
    BY <1>1, <2>2 DEF IInv, ApprovalProgress
  <2> QED BY <2>2, <2>3, <2>4
<1> QED BY <1>1, InductiveInvariant, PTL DEF Spec, StatusChangesInOwnRound

\* A round that has an approved candidate never loses it to an approval that
\* fails or is still under way.
THEOREM ApprovalIsKeptHolds == Spec => ApprovalIsKept
<1>1. ASSUME IInv, [Next]_vars
      PROVE  [\A r \in Rounds : Approved(r) # {} => Approved(r)' # {}]_vars
  <2> SUFFICES ASSUME NEW r \in Rounds, NEW i \in Approved(r)
               PROVE  Approved(r)' # {}
    OBVIOUS
  <2>1. genRound' = genRound /\ committed \subseteq committed'
        /\ i \in committed /\ RoundOf(i) = r /\ status[i] = "approved"
    BY <1>1 DEF Approved, RowsIn, Next, Create, BeginCreate, InsertRow,
       InsertAssignments, CommitCreate, KeyTaken, FailCreate, RollbackCreate,
       Approve, LoadTarget, InOwnShop, LockSibling, DemoteSiblings, Siblings, ApproveTarget,
       CommitApprove, Written, FailApprove, BreakDeadlock, EndApprove, LocksFreed, Vote,
       CheckBallot, MayVote, WriteVote, FailVote, vars, genVars
  <2>2. CASE status' = status
    BY <2>1, <2>2 DEF Approved, RowsIn, RoundOf
  <2>3. CASE status' # status
    <3>1. PICK a \in Approvers : CommitApprove(a)
      BY <1>1, <2>3, StatusWriters DEF vars, appVars
    <3>2. target[a] \in committed /\ target[a] \in Ids
          /\ lock[target[a]] = a
      BY <1>1, <3>1 DEF IInv, TypeOK, CommitApprove, Written, ApprovalProgress, RowsIn
    <3>3. status'[target[a]] = "approved"
      BY <3>1, <3>2 DEF CommitApprove, Written
    <3>4. CASE RoundOf(target[a]) = r
      BY <2>1, <3>2, <3>3, <3>4 DEF Approved, RowsIn, RoundOf
    <3>5. CASE RoundOf(target[a]) # r
      <4>1. i \in Ids /\ lock[i] # a
        BY <1>1, <2>1, <3>5, WeeklyScheduleAssumption
        DEF IInv, TypeOK, LocksAreOwned
      <4>2. status'[i] = "approved"
        BY <2>1, <3>1, <4>1 DEF CommitApprove, Written
      <4> QED BY <2>1, <4>2 DEF Approved, RowsIn, RoundOf
    <3> QED BY <3>4, <3>5
  <2> QED BY <2>2, <2>3
<1> QED BY <1>1, InductiveInvariant, PTL DEF Spec, ApprovalIsKept
-----------------------------------------------------------------------------
(* Votes.                                                                  *)

\* A schedule whose check a vote has passed stays committed, in the same round.
BallotsOK ==
  \A b \in ballots : /\ b.schedule \in committed
                     /\ RoundOf(b.schedule)[1] = EmployeeShop[b.employee]

LEMMA VoteStep ==
  ASSUME TypeOK, BallotsOK, VotesAreConsistent, [Next]_vars
  PROVE  BallotsOK' /\ VotesAreConsistent'
<1>1. genRound' = genRound /\ committed \subseteq committed'
  BY DEF Next, Create, BeginCreate, InsertRow, InsertAssignments, CommitCreate, KeyTaken,
         FailCreate, RollbackCreate, Approve, LoadTarget, DemoteSiblings, LockSibling,
         ApproveTarget, CommitApprove, FailApprove, BreakDeadlock, EndApprove, Vote,
         CheckBallot, WriteVote, FailVote, vars, genVars
<1>2. \A id : RoundOf(id)' = RoundOf(id)
  BY <1>1 DEF RoundOf
<1>3. CASE UNCHANGED voteVars
  BY <1>1, <1>2, <1>3 DEF voteVars, BallotsOK, VotesAreConsistent, SameVote
<1>4. ASSUME NEW e \in Employees, NEW id \in Ids, CheckBallot(e, id)
      PROVE  BallotsOK' /\ VotesAreConsistent'
  BY <1>1, <1>2, <1>4 DEF CheckBallot, MayVote, BallotsOK, VotesAreConsistent, SameVote
<1>5. ASSUME NEW b \in ballots, FailVote(b)
      PROVE  BallotsOK' /\ VotesAreConsistent'
  BY <1>1, <1>2, <1>5 DEF FailVote, BallotsOK, VotesAreConsistent, SameVote
<1>6. ASSUME NEW b \in ballots, WriteVote(b)
      PROVE  BallotsOK' /\ VotesAreConsistent'
  <2> DEFINE new == [shop |-> EmployeeShop[b.employee], employee |-> b.employee,
                     week |-> RoundOf(b.schedule)[2], schedule |-> b.schedule]
             old == {v \in votes : SameVote(v, new)}
  <2>1. /\ b.employee \in Employees /\ b.schedule \in Ids
        /\ b.schedule \in committed /\ RoundOf(b.schedule)[1] = EmployeeShop[b.employee]
    BY DEF TypeOK, Ballot, BallotsOK
  <2>2. RoundOf(b.schedule) = <<new.shop, new.week>>
    <3>1. RoundOf(b.schedule) \in Shops \X Weeks
      BY <2>1 DEF TypeOK, RoundOf, Ids, Rounds
    <3> QED
      BY <2>1, <3>1
  <2>3. \A v \in old : [v EXCEPT !.schedule = b.schedule] = new
    BY DEF SameVote, TypeOK, VoteRow
  <2>4. votes' = (votes \ old) \cup {new}
    <3>1. CASE old = {}
      BY <1>6, <3>1 DEF WriteVote
    <3>2. CASE old # {}
      <4>1. {[v EXCEPT !.schedule = b.schedule] : v \in old} = {new}
        BY <2>3, <3>2
      <4> QED
        BY <1>6, <3>2, <4>1 DEF WriteVote
    <3> QED
      BY <3>1, <3>2
  <2>5. \A v \in votes \ old : ~SameVote(v, new) /\ ~SameVote(new, v)
    BY DEF SameVote
  <2>6. BallotsOK'
    BY <1>1, <1>2, <1>6 DEF WriteVote, BallotsOK
  <2>7. \A v, w \in votes' : SameVote(v, w) => v = w
    <3> HIDE DEF new, old
    <3> QED
      BY <2>4, <2>5 DEF VotesAreConsistent, old
  <2>8. \A v \in votes' : /\ v.schedule \in committed'
                          /\ RoundOf(v.schedule)' = <<v.shop, v.week>>
                          /\ v.shop = EmployeeShop[v.employee]
    BY <1>1, <1>2, <2>1, <2>2, <2>4 DEF VotesAreConsistent
  <2> QED
    BY <2>6, <2>7, <2>8 DEF VotesAreConsistent, SameVote
<1>7. Next => UNCHANGED voteVars \/ Vote
  BY DEF Next, Create, BeginCreate, InsertRow, InsertAssignments, CommitCreate, KeyTaken,
         FailCreate, RollbackCreate, Approve, LoadTarget, DemoteSiblings, LockSibling,
         ApproveTarget, CommitApprove, FailApprove, BreakDeadlock, EndApprove
<1> QED
  BY <1>3, <1>4, <1>5, <1>6, <1>7 DEF Vote, vars

\* An employee has one vote in a round, for a committed candidate of it in the
\* employee's own shop, although the check and the write are two statements.
THEOREM VotesAreAlwaysConsistent == Spec => []VotesAreConsistent
<1>1. Init => BallotsOK /\ VotesAreConsistent
  BY DEF Init, BallotsOK, VotesAreConsistent
<1> QED
  BY <1>1, VoteStep, TypeCorrect, PTL DEF Spec
=============================================================================
