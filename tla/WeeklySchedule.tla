-------------------------- MODULE WeeklySchedule ---------------------------
(***************************************************************************)
(* The schedule tables as the handlers drive them: generation of a round's *)
(* candidates (planner.GenerateWeek, store.CreateCandidates), the owner's  *)
(* approval (store.Approve) and the employees' votes (store.Record).       *)
(*                                                                         *)
(* Each call is a database transaction under Postgres' default isolation,  *)
(* READ COMMITTED, and each of its statements is a step of its own:        *)
(*   - a statement sees the rows committed when it starts;                 *)
(*   - an INSERT whose unique key is held by an open transaction waits for *)
(*     it, and fails if that one commits;                                  *)
(*   - an UPDATE locks the rows it changes one at a time, in no particular *)
(*     order, waits for a row another transaction holds, and keeps its     *)
(*     locks to the end of the transaction.                                *)
(* Any statement can fail (lost connection, cancelled request, crash), and *)
(* then the deferred rollback undoes the transaction.                      *)
(***************************************************************************)
EXTENDS Naturals, FiniteSets

CONSTANTS
  Shops, Weeks,
  NumCandidates,  \* variants per generation: GenerateWeek asks for 3
  Generators,     \* generation requests; a request that fails may be sent again
  Approvers,      \* owner sessions that approve, one request at a time each
  OwnerShop,      \* OwnerShop[a]: the shop of session a
  Employees,
  EmployeeShop,   \* EmployeeShop[e]: the shop whose employee e is
  Free,           \* the holder of a row nobody has locked
  NoRow           \* the target of a session that is approving nothing

Labels == 1..NumCandidates
Rounds == Shops \X Weeks

ASSUME WeeklyScheduleAssumption ==
  /\ NumCandidates \in Nat \ {0}
  /\ OwnerShop \in [Approvers -> Shops]
  /\ EmployeeShop \in [Employees -> Shops]
  /\ Free \notin Approvers
  /\ NoRow \notin Generators \X Labels

\* A schedule row is named by the request that inserts it and by its label:
\* the row's uuid is fresh, so two requests never share one.
Ids == Generators \X Labels

VARIABLES
  committed,  \* schedule rows every transaction sees
  pending,    \* rows inserted by a transaction that is still open
  filled,     \* rows whose assignments have been inserted
  status,     \* the committed status column of each row
  genPC,      \* where each generation request stands
  genRound,   \* the shop and week it is sent for
  genNext,    \* the label it inserts next
  appPC,      \* where each approval stands
  target,     \* the schedule it approves
  toLock,     \* the siblings its UPDATE has still to lock
  lock,       \* lock[id]: the approval that holds row id
  ballots,    \* votes whose schedule has been checked, not yet written
  votes       \* the schedule_votes table

genVars  == <<committed, pending, filled, genPC, genRound, genNext>>
appVars  == <<status, appPC, target, toLock, lock>>
voteVars == <<ballots, votes>>
vars     == <<genVars, appVars, voteVars>>

RoundOf(id) == genRound[id[1]]
RowsOf(g)   == {g} \X Labels
RowsIn(r)   == {id \in committed : RoundOf(id) = r}
Approved(r) == {id \in RowsIn(r) : status[id] = "approved"}
LabelsOf(S) == {id[2] : id \in S}

Init ==
  /\ committed = {}
  /\ pending = {}
  /\ filled = {}
  /\ status = [id \in Ids |-> "draft"]
  /\ genPC = [g \in Generators |-> "idle"]
  /\ genRound \in [Generators -> Rounds]
  /\ genNext = [g \in Generators |-> 1]
  /\ appPC = [a \in Approvers |-> "idle"]
  /\ target = [a \in Approvers |-> NoRow]
  /\ toLock = [a \in Approvers |-> {}]
  /\ lock = [id \in Ids |-> Free]
  /\ ballots = {}
  /\ votes = {}

-----------------------------------------------------------------------------
(* Generation: store.CreateCandidates, called by planner.GenerateWeek.     *)

\* The transaction opens and finds no schedule of the round.  When it finds
\* one it answers ErrAlreadyExists and changes nothing.
BeginCreate(g) ==
  /\ genPC[g] = "idle"
  /\ RowsIn(genRound[g]) = {}
  /\ RowsOf(g) \cap committed = {}
  /\ genPC' = [genPC EXCEPT ![g] = "insert"]
  /\ genNext' = [genNext EXCEPT ![g] = 1]
  /\ UNCHANGED <<committed, pending, filled, genRound, appVars, voteVars>>

NoKey(S, g) == {}  \* bug: no unique index

\* The rows, in a set S, that share the unique key (shop, week, variant
\* label) with the row g inserts next.
SameKey(S, g) ==
  {id \in S : RoundOf(id) = genRound[g] /\ id[2] = genNext[g]}

\* Bug: no transaction around the INSERTs.
InsertRowAtOnce(g) ==
  /\ genPC[g] = "insert"
  /\ SameKey(committed \cup pending, g) = {}
  /\ committed' = committed \cup {<<g, genNext[g]>>}
  /\ genPC' = [genPC EXCEPT ![g] = "assign"]
  /\ UNCHANGED <<pending, filled, genRound, genNext, appVars, voteVars>>

\* INSERT of the next candidate.  It waits while another open transaction
\* holds the key.
InsertRow(g) ==
  /\ genPC[g] = "insert"
  /\ SameKey(committed \cup pending, g) = {}
  /\ pending' = pending \cup {<<g, genNext[g]>>}
  /\ genPC' = [genPC EXCEPT ![g] = "assign"]
  /\ UNCHANGED <<committed, filled, genRound, genNext, appVars, voteVars>>

\* The bulk INSERT of the candidate's assignments, then the next candidate.
InsertAssignments(g) ==
  /\ genPC[g] = "assign"
  /\ filled' = filled \cup {<<g, genNext[g]>>}
  /\ genPC' = [genPC EXCEPT ![g] =
                 IF genNext[g] = NumCandidates THEN "commit" ELSE "insert"]
  /\ genNext' = [genNext EXCEPT ![g] =
                   IF @ = NumCandidates THEN @ ELSE @ + 1]
  /\ UNCHANGED <<committed, pending, genRound, appVars, voteVars>>

CommitCreate(g) ==
  /\ genPC[g] = "commit"
  /\ committed' = committed \cup (pending \cap RowsOf(g))
  /\ pending' = pending \ RowsOf(g)
  /\ genPC' = [genPC EXCEPT ![g] = "idle"]
  /\ UNCHANGED <<filled, genRound, genNext, appVars, voteVars>>

\* The deferred rollback of CreateCandidates.
RollbackCreate(g) ==
  /\ pending' = pending \ RowsOf(g)
  /\ filled' = filled \ RowsOf(g)
  /\ genPC' = [genPC EXCEPT ![g] = "idle"]
  /\ UNCHANGED <<committed, genRound, genNext, appVars, voteVars>>

\* The key is taken by a committed row: the INSERT fails, ErrAlreadyExists.
KeyTaken(g) ==
  /\ genPC[g] = "insert"
  /\ SameKey(committed, g) # {}
  /\ RollbackCreate(g)

\* Any statement, or the commit itself, fails for a reason of its own.
FailCreate(g) ==
  /\ genPC[g] # "idle"
  /\ RollbackCreate(g)

-----------------------------------------------------------------------------
(* Approval: store.Approve.                                                *)

InAnyShop(a, id) == TRUE  \* bug: the query is not scoped to the shop
InOwnShop(a, id) == RoundOf(id)[1] = OwnerShop[a]

\* SELECT of the target among the session's own shop's schedules.  A row it
\* does not find answers ErrNotFound and changes nothing.
LoadTarget(a, id) ==
  /\ appPC[a] = "idle"
  /\ id \in committed
  /\ InOwnShop(a, id)
  /\ target' = [target EXCEPT ![a] = id]
  /\ appPC' = [appPC EXCEPT ![a] = "loaded"]
  /\ UNCHANGED <<status, toLock, lock, genVars, voteVars>>

\* Bug: only the sibling that is approved now is demoted.
ApprovedSiblings(id) == Approved(RoundOf(id)) \ {id}
Siblings(id)         == RowsIn(RoundOf(id)) \ {id}

\* UPDATE ... SET status = 'draft' starts: its rows are the siblings it sees.
DemoteSiblings(a) ==
  /\ appPC[a] = "loaded"
  /\ toLock' = [toLock EXCEPT ![a] = Siblings(target[a])]
  /\ appPC' = [appPC EXCEPT ![a] = "demoting"]
  /\ UNCHANGED <<status, target, lock, genVars, voteVars>>

\* Bug: each sibling is demoted at once, outside the transaction.
DemoteAtOnce(a, id) ==
  /\ appPC[a] = "demoting"
  /\ id \in toLock[a]
  /\ lock[id] = Free
  /\ status' = [status EXCEPT ![id] = "draft"]
  /\ toLock' = [toLock EXCEPT ![a] = @ \ {id}]
  /\ UNCHANGED <<lock, appPC, target, genVars, voteVars>>

\* The UPDATE reaches sibling id and locks it.
LockSibling(a, id) ==
  /\ appPC[a] = "demoting"
  /\ id \in toLock[a]
  /\ lock[id] = Free
  /\ lock' = [lock EXCEPT ![id] = a]
  /\ toLock' = [toLock EXCEPT ![a] = @ \ {id}]
  /\ UNCHANGED <<status, appPC, target, genVars, voteVars>>

\* UPDATE ... SET status = 'approved' of the target row.
ApproveTarget(a) ==
  /\ appPC[a] = "demoting"
  /\ toLock[a] = {}
  /\ lock[target[a]] = Free
  /\ lock' = [lock EXCEPT ![target[a]] = a]
  /\ appPC' = [appPC EXCEPT ![a] = "commit"]
  /\ UNCHANGED <<status, target, toLock, genVars, voteVars>>

LocksLeft(a)  == lock  \* bug: the transaction is neither committed nor rolled back
LocksFreed(a) == [id \in Ids |-> IF lock[id] = a THEN Free ELSE lock[id]]

\* The transaction is over: its locks are released.
EndApprove(a) ==
  /\ lock' = LocksFreed(a)
  /\ toLock' = [toLock EXCEPT ![a] = {}]
  /\ target' = [target EXCEPT ![a] = NoRow]
  /\ appPC' = [appPC EXCEPT ![a] = "idle"]
  /\ UNCHANGED <<genVars, voteVars>>

WrittenAsVoting(a, id) == IF id = target[a] THEN "approved" ELSE "voting"  \* bug
Written(a, id)         == IF id = target[a] THEN "approved" ELSE "draft"

\* The transaction's writes become visible: the rows it locked are drafts,
\* the target is approved.
CommitApprove(a) ==
  /\ appPC[a] = "commit"
  /\ status' = [id \in Ids |->
       IF lock[id] = a THEN Written(a, id) ELSE status[id]]
  /\ EndApprove(a)

\* A statement or the commit fails; the deferred rollback undoes the writes.
FailApprove(a) ==
  /\ appPC[a] # "idle"
  /\ UNCHANGED status
  /\ EndApprove(a)

\* The rows approval a still has to lock before it can go on.
Wanted(a) ==
  IF appPC[a] # "demoting" THEN {}
  ELSE IF toLock[a] # {} THEN toLock[a] ELSE {target[a]}

\* A set of approvals each of which waits for rows the others hold.
Deadlocked(D) ==
  \A a \in D : Wanted(a) # {} /\ \A id \in Wanted(a) : lock[id] \in D

\* Postgres breaks a deadlock by failing a statement of one of its members.
BreakDeadlock(a) ==
  /\ \E D \in SUBSET Approvers : a \in D /\ Deadlocked(D)
  /\ FailApprove(a)

-----------------------------------------------------------------------------
(* Votes: bot.handleVote and store.Record.                                 *)

Ballot  == [employee : Employees, schedule : Ids]
VoteRow == [shop : Shops, employee : Employees, week : Weeks, schedule : Ids]

VoteAnywhere(e, id) == TRUE  \* bug: the schedule's shop is not compared
MayVote(e, id)      == RoundOf(id)[1] = EmployeeShop[e]

\* Record reads the schedule and refuses one of another shop.
CheckBallot(e, id) ==
  /\ id \in committed
  /\ MayVote(e, id)
  /\ ballots' = ballots \cup {[employee |-> e, schedule |-> id]}
  /\ UNCHANGED <<votes, genVars, appVars>>

\* The row's unique key (shop, employee, week).
SameVote(v, w) ==
  v.shop = w.shop /\ v.employee = w.employee /\ v.week = w.week

\* INSERT ... ON CONFLICT DO UPDATE SET schedule_id.
WriteVote(b) ==
  LET new == [shop |-> EmployeeShop[b.employee], employee |-> b.employee,
              week |-> RoundOf(b.schedule)[2], schedule |-> b.schedule]
      old == {v \in votes : SameVote(v, new)}
  IN  /\ b \in ballots
      /\ ballots' = ballots \ {b}
      /\ votes' = IF old = {} THEN votes \cup {new}
                  ELSE (votes \ old) \cup
                       {[v EXCEPT !.schedule = b.schedule] : v \in old}
      /\ UNCHANGED <<genVars, appVars>>

\* The INSERT fails: the voter is told so and nothing is written.
FailVote(b) ==
  /\ b \in ballots
  /\ ballots' = ballots \ {b}
  /\ UNCHANGED <<votes, genVars, appVars>>

-----------------------------------------------------------------------------
Create(g) ==
  \/ BeginCreate(g)  \/ InsertRow(g) \/ InsertAssignments(g)
  \/ CommitCreate(g) \/ KeyTaken(g)  \/ FailCreate(g)

Approve(a) ==
  \/ \E id \in Ids : LoadTarget(a, id) \/ LockSibling(a, id)
  \/ DemoteSiblings(a) \/ ApproveTarget(a) \/ CommitApprove(a)
  \/ FailApprove(a)    \/ BreakDeadlock(a)

Vote ==
  \/ \E e \in Employees, id \in Ids : CheckBallot(e, id)
  \/ \E b \in ballots : WriteVote(b) \/ FailVote(b)

Next ==
  \/ \E g \in Generators : Create(g)
  \/ \E a \in Approvers : Approve(a)
  \/ Vote

Spec == Init /\ [][Next]_vars

-----------------------------------------------------------------------------
(* Properties.                                                             *)

TypeOK ==
  /\ committed \subseteq Ids
  /\ pending \subseteq Ids
  /\ filled \subseteq Ids
  /\ status \in [Ids -> {"draft", "approved"}]
  /\ genPC \in [Generators -> {"idle", "insert", "assign", "commit"}]
  /\ genRound \in [Generators -> Rounds]
  /\ genNext \in [Generators -> Labels]
  /\ appPC \in [Approvers -> {"idle", "loaded", "demoting", "commit"}]
  /\ target \in [Approvers -> Ids \cup {NoRow}]
  /\ toLock \in [Approvers -> SUBSET Ids]
  /\ lock \in [Ids -> Approvers \cup {Free}]
  /\ ballots \subseteq Ballot
  /\ votes \subseteq VoteRow

\* However approvals of one round interleave, at most one of its candidates
\* is approved: Approve "marks one schedule approved and demotes sibling
\* variants to draft", one locked row at a time.
AtMostOneApproved ==
  \A r \in Rounds : \A i, j \in Approved(r) : i = j

\* A round never shows part of a generation, a candidate without its
\* assignments, or candidates of two generations: CreateCandidates persists
\* "all schedule variants and assignments atomically", and a second request
\* that passed the existence check too meets the unique index.
CandidatesComplete ==
  \A r \in Rounds :
    RowsIn(r) = {} \/ \E g \in Generators :
                        RowsIn(r) = RowsOf(g) /\ RowsOf(g) \subseteq filled

\* Once the owner has approved a candidate of a round the round always has an
\* approved one: replacing it never passes through a state without any, and
\* a failed approval does not undo an earlier one.
ApprovalIsKept ==
  [][\A r \in Rounds : Approved(r) # {} => Approved(r)' # {}]_vars

\* A candidate's status changes only when an approval of its own round, by a
\* session of its own shop, commits: no shop touches another's schedules.
StatusChangesInOwnRound ==
  [][\A id \in Ids : status'[id] # status[id] =>
       \E a \in Approvers :
         /\ appPC[a] = "commit" /\ appPC'[a] = "idle"
         /\ OwnerShop[a] = RoundOf(id)[1]
         /\ RoundOf(target[a]) = RoundOf(id)]_vars

\* "One vote per employee per voting round (shop + week), across variants",
\* and the variant a vote names belongs to the vote's own shop and week.
VotesAreConsistent ==
  /\ \A v, w \in votes : SameVote(v, w) => v = w
  /\ \A v \in votes : /\ v.schedule \in committed
                      /\ RoundOf(v.schedule) = <<v.shop, v.week>>
                      /\ v.shop = EmployeeShop[v.employee]

\* The transactions implement the board on which each is one step.
Board == INSTANCE ScheduleBoard WITH
  offered <- [r \in Rounds |-> LabelsOf(RowsIn(r))],
  picked  <- [r \in Rounds |-> LabelsOf(Approved(r))]

ImplementsBoard == Board!BoardSpec

\* Handlers run to completion and statements return; a transaction waiting
\* for a row is in that row's queue, so it is served if the row is released
\* again and again; Postgres notices every deadlock.
Fairness ==
  /\ \A g \in Generators :
       /\ SF_vars(InsertRow(g))
       /\ WF_vars(InsertAssignments(g) \/ CommitCreate(g) \/ KeyTaken(g))
  /\ \A a \in Approvers :
       /\ WF_vars(DemoteSiblings(a) \/ CommitApprove(a))
       /\ SF_vars(\E id \in Ids : LockSibling(a, id))
       /\ SF_vars(ApproveTarget(a))
       /\ WF_vars(BreakDeadlock(a))

FairSpec == Spec /\ Fairness

\* Every generation and every approval ends, whatever rows and keys the
\* others hold: none is left waiting for a transaction that is gone, and two
\* approvals that wait for each other are not left so.
RequestsEnd ==
  /\ \A g \in Generators : genPC[g] # "idle" ~> genPC[g] = "idle"
  /\ \A a \in Approvers : appPC[a] # "idle" ~> appPC[a] = "idle"
=============================================================================
