-------------------------- MODULE ReminderDelivery -------------------------
(***************************************************************************)
(* The reminder worker: ticks that enqueue the Thursday reminders and the  *)
(* Saturday nags of one shop's target week as rows of reminder_deliveries, *)
(* send the pending rows to Telegram and mark them (reminder.Service), and *)
(* the HTTP endpoint that runs a tick for an external scheduler            *)
(* (reminder.HTTPHandler).                                                 *)
(*                                                                         *)
(* A tick is no transaction: every database call and every message is a    *)
(* step of its own, so ticks of two processes interleave, employees submit *)
(* and owners suspend people in between, and a crash or a failing call can *)
(* fall between the message and the mark that records it.                  *)
(***************************************************************************)
EXTENDS Naturals, FiniteSets

CONSTANTS
  Employees,   \* the shop's employees with a linked Telegram account
  Processes,   \* running copies of the app (cmd/app, cmd/bot)
  Ticks,       \* callers of Tick: the loop, or concurrent HTTP requests
  Hostings,    \* ways the ticks may be spread over the processes
  SendBatch,   \* rows one tick sends at most (defaultSendBatch, 100)
  MaxFaults    \* bound: crashes and failing calls in a behaviour, per hosting

ASSUME ReminderDeliveryAssumption ==
  /\ IsFiniteSet(Processes)
  /\ Hostings \subseteq [Ticks -> Processes]
  /\ SendBatch \in Nat \ {0}
  /\ MaxFaults \in [Hostings -> Nat]

Kinds == {"reminder", "nag"}

\* The unique key of a delivery row, within the one shop and target week.
Deliveries == Employees \X Kinds

VARIABLES
  clock,      \* the part of the week it is, by the shop's local time
  active,     \* employees whose is_active is true
  submitted,  \* employees with an availability row for the target week
  rows,       \* rows[d]: status of the delivery row, "none" without a row
  older,      \* older[d]: the rows with an earlier created_at
  host,       \* host[t]: the process that serves tick t
  running,    \* running[p]: the endpoint's guard against overlapping ticks
  pc,         \* where each tick stands
  now,        \* the time each tick was called with
  todo,       \* the rows each tick has still to create
  batch,      \* the pending rows each tick read and has still to send ...
  sending,    \* ... and the one it is sending, if any
  delivered,  \* history: messages Telegram delivered for each row
  unmarked,   \* history: of those, how many were not recorded in the row
  early,      \* history: employees who had submitted when the nags fell due
  faults      \* crashes and failing calls so far

tickVars == <<pc, now, todo, batch, sending>>
rowVars  == <<rows, older>>
history  == <<delivered, unmarked, early>>
vars     == <<clock, active, submitted, rowVars, host, running, tickVars, history, faults>>

-----------------------------------------------------------------------------
(* When messages are due.  The week before the target Monday, in the five  *)
(* parts the code tells apart: reminders from Thursday 10:00 for 24 hours, *)
(* nags from Saturday 10:00 for 24 hours.                                  *)

ReminderWindow == 1
NagWindow      == 3
Sunday         == 4

ReminderDue(time) == time = ReminderWindow
NagDue(time)      == time = NagWindow

Init ==
  /\ clock = 0
  /\ active \in SUBSET Employees
  /\ submitted = {}
  /\ rows = [d \in Deliveries |-> "none"]
  /\ older = [d \in Deliveries |-> {}]
  /\ host \in Hostings
  /\ running = [p \in Processes |-> FALSE]
  /\ pc = [t \in Ticks |-> "idle"]
  /\ now = [t \in Ticks |-> 0]
  /\ todo = [t \in Ticks |-> {}]
  /\ batch = [t \in Ticks |-> {}]
  /\ sending = [t \in Ticks |-> {}]
  /\ delivered = [d \in Deliveries |-> 0]
  /\ unmarked = [d \in Deliveries |-> 0]
  /\ early = {}
  /\ faults = 0

-----------------------------------------------------------------------------
(* The world around the worker.                                            *)

Advance ==
  /\ clock < Sunday
  /\ clock' = clock + 1
  /\ early' = IF NagDue(clock') THEN submitted ELSE early
  /\ UNCHANGED <<host, active, submitted, rowVars, running, tickVars, delivered,
                 unmarked, faults>>

\* An employee confirms an availability draft for the target week.
Submit(e) ==
  /\ submitted' = submitted \cup {e}
  /\ UNCHANGED <<host, clock, active, rowVars, running, tickVars, history, faults>>

\* The owner suspends or reactivates an employee.
SetActive(e) ==
  /\ active' = IF e \in active THEN active \ {e} ELSE active \cup {e}
  /\ UNCHANGED <<host, clock, submitted, rowVars, running, tickVars, history,
                 faults>>

-----------------------------------------------------------------------------
(* One tick.                                                               *)

UnguardedProcess(p) == TRUE  \* bug: no CompareAndSwap
NotRunning(p)       == ~running[p]

\* The process takes the tick unless one is running; a request that finds one
\* answers 204 and does nothing.
BeginTick(t) ==
  LET p == host[t]
  IN  /\ pc[t] = "idle"
      /\ NotRunning(p)
      /\ running' = [running EXCEPT ![p] = TRUE]
      /\ now' = [now EXCEPT ![t] = clock]
      /\ pc' = [pc EXCEPT ![t] = "begun"]
      /\ UNCHANGED <<host, clock, active, submitted, rowVars, todo, batch,
                     sending, history, faults>>

\* enqueueReminder reads the active employees.
ListReminded(t) ==
  /\ pc[t] = "begun"
  /\ pc' = [pc EXCEPT ![t] = "remind"]
  /\ todo' = [todo EXCEPT ![t] =
               IF ReminderDue(now[t]) THEN active \X {"reminder"} ELSE {}]
  /\ UNCHANGED <<host, clock, active, submitted, rowVars, running, now, batch,
                 sending, history, faults>>

Reopens(d) == rows[d] \in {"none", "failed"}  \* bug: a failed row is opened again
Fresh(d)   == rows[d] = "none"

\* CreatePending: a row that exists already is left as it is.
CreatePending(t, d) ==
  /\ pc[t] \in {"remind", "nag"}
  /\ d \in todo[t]
  /\ todo' = [todo EXCEPT ![t] = @ \ {d}]
  /\ IF Fresh(d)
     THEN /\ rows' = [rows EXCEPT ![d] = "pending"]
          /\ older' = [older EXCEPT ![d] = {x \in Deliveries : rows[x] # "none"}]
     ELSE UNCHANGED rowVars
  /\ UNCHANGED <<host, clock, active, submitted, running, pc, now, batch,
                 sending, history, faults>>

\* enqueueNag reads the active employees ...
ListActive(t) ==
  /\ pc[t] = "remind" /\ todo[t] = {}
  /\ pc' = [pc EXCEPT ![t] = IF NagDue(now[t]) THEN "submitted" ELSE "list"]
  /\ todo' = [todo EXCEPT ![t] =
               IF NagDue(now[t]) THEN active \X {"nag"} ELSE {}]
  /\ UNCHANGED <<host, clock, active, submitted, rowVars, running, now, batch,
                 sending, history, faults>>

WithSubmitted(ds)    == ds  \* bug: who has submitted stays in
WithoutSubmitted(ds) == ds \ (submitted \X {"nag"})

\* ... and then who has submitted, and drops those.
DropSubmitted(t) ==
  /\ pc[t] = "submitted"
  /\ pc' = [pc EXCEPT ![t] = "nag"]
  /\ todo' = [todo EXCEPT ![t] = WithoutSubmitted(@)]
  /\ UNCHANGED <<host, clock, active, submitted, rowVars, running, now, batch,
                 sending, history, faults>>

Pending == {d \in Deliveries : rows[d] = "pending"}

\* ListPending: the oldest pending rows, at most SendBatch of them.
Oldest(ds) == {d \in ds : Cardinality(ds \cap older[d]) < SendBatch}

ListPending(t) ==
  /\ pc[t] = "list" \/ (pc[t] = "nag" /\ todo[t] = {})
  /\ pc' = [pc EXCEPT ![t] = "send"]
  /\ batch' = [batch EXCEPT ![t] = Oldest(Pending)]
  /\ UNCHANGED <<host, clock, active, submitted, rowVars, running, now, todo,
                 sending, history, faults>>

\* sendOne up to the message.  Telegram delivers it and says so, or delivers
\* it and the answer is lost, or nothing is delivered (a lookup fails, a
\* blocked bot, no connection).
Send(t) ==
  /\ pc[t] = "send"
  /\ \E d \in batch[t] :
       /\ batch[t] \cap older[d] = {}
       /\ batch' = [batch EXCEPT ![t] = @ \ {d}]
       /\ sending' = [sending EXCEPT ![t] = {d}]
       /\ \E arrives, answered \in BOOLEAN :
            /\ answered => arrives
            /\ pc' = [pc EXCEPT ![t] = IF answered THEN "markSent"
                                       ELSE IF arrives THEN "markLost" ELSE "markFailed"]
            /\ delivered' = [delivered EXCEPT ![d] = IF arrives THEN @ + 1 ELSE @]
  /\ UNCHANGED <<host, clock, active, submitted, rowVars, running, now, todo,
                 unmarked, early, faults>>

Marking == {"markSent", "markLost", "markFailed"}

\* The row stays as it is after a message that did arrive.
NoteUnmarked(t) ==
  unmarked' = IF pc[t] \in {"markSent", "markLost"}
              THEN [d \in Deliveries |-> unmarked[d] + (IF d \in sending[t] THEN 1 ELSE 0)]
              ELSE unmarked

OutcomeDropped(t) == "dropped"  \* bug: a status the column does not have
OutcomeSent(t)    == "sent"     \* bug: a failed message is marked sent
OutcomePending(t) == IF pc[t] = "markSent" THEN "sent" ELSE "pending"  \* bug: no MarkFailed
Outcome(t)        == IF pc[t] = "markSent" THEN "sent" ELSE "failed"

\* MarkSent and MarkFailed set the status whatever it is by now.
Mark(t) ==
  /\ pc[t] \in Marking
  /\ rows' = [d \in Deliveries |-> IF d \in sending[t] THEN Outcome(t) ELSE rows[d]]
  /\ pc' = [pc EXCEPT ![t] = "send"]
  /\ sending' = [sending EXCEPT ![t] = {}]
  /\ UNCHANGED <<host, clock, active, submitted, older, running, now, todo, batch,
                 history, faults>>

\* The UPDATE fails: the error is logged and the loop goes on.
MarkFails(t) ==
  /\ pc[t] \in Marking
  /\ faults < MaxFaults[host]
  /\ faults' = faults + 1
  /\ NoteUnmarked(t)
  /\ pc' = [pc EXCEPT ![t] = "send"]
  /\ sending' = [sending EXCEPT ![t] = {}]
  /\ UNCHANGED <<host, clock, active, submitted, rowVars, running, now, todo, batch,
                 delivered, early>>

\* An enqueue step fails: the shop's tick is abandoned, the sending is not.
EnqueueFails(t) ==
  /\ pc[t] \in {"begun", "remind", "submitted", "nag"}
  /\ faults < MaxFaults[host]
  /\ faults' = faults + 1
  /\ pc' = [pc EXCEPT ![t] = "list"]
  /\ todo' = [todo EXCEPT ![t] = {}]
  /\ UNCHANGED <<host, clock, active, submitted, rowVars, running, now, batch,
                 sending, history>>

\* Tick returns and the deferred Store frees the guard.
Return(t) ==
  /\ pc' = [pc EXCEPT ![t] = "idle"]
  /\ running' = [running EXCEPT ![host[t]] = FALSE]
  /\ todo' = [todo EXCEPT ![t] = {}]
  /\ UNCHANGED <<host, clock, active, submitted, rowVars, now, batch, sending,
                 history>>

\* Nothing is left to send.
EndTick(t) ==
  /\ pc[t] = "send" /\ batch[t] = {}
  /\ UNCHANGED faults
  /\ Return(t)

\* The list of the shops or of the pending rows cannot be read.
ListFails(t) ==
  /\ pc[t] \in {"begun", "list"} \/ (pc[t] = "nag" /\ todo[t] = {})
  /\ faults < MaxFaults[host]
  /\ faults' = faults + 1
  /\ Return(t)

\* The process of a tick under way dies and comes back: all it held in memory
\* is gone.
Crash(t) ==
  LET p == host[t]
      gone == {u \in Ticks : host[u] = p}
  IN  /\ pc[t] # "idle"
      /\ faults < MaxFaults[host]
      /\ faults' = faults + 1
      /\ NoteUnmarked(t)
      /\ running' = [running EXCEPT ![p] = FALSE]
      /\ pc' = [u \in Ticks |-> IF u \in gone THEN "idle" ELSE pc[u]]
      /\ todo' = [u \in Ticks |-> IF u \in gone THEN {} ELSE todo[u]]
      /\ batch' = [u \in Ticks |-> IF u \in gone THEN {} ELSE batch[u]]
      /\ sending' = [u \in Ticks |-> IF u \in gone THEN {} ELSE sending[u]]
      /\ UNCHANGED <<host, clock, active, submitted, rowVars, now, delivered,
                     early>>

-----------------------------------------------------------------------------
Tick(t) ==
  \/ BeginTick(t) \/ ListReminded(t)
  \/ \E d \in Deliveries : CreatePending(t, d)
  \/ ListActive(t) \/ DropSubmitted(t) \/ ListPending(t)
  \/ Send(t) \/ Mark(t) \/ EndTick(t)

Fault(t) == MarkFails(t) \/ EnqueueFails(t) \/ ListFails(t) \/ Crash(t)

Environment == Advance \/ \E e \in Employees : Submit(e) \/ SetActive(e)

Next == Environment \/ \E t \in Ticks : Tick(t) \/ Fault(t)

Spec == Init /\ [][Next]_vars

\* The loop's ticker keeps firing, or the scheduler keeps posting, and a tick
\* that has begun goes on.
FairSpec == Spec /\ \A t \in Ticks : WF_vars(Tick(t))

-----------------------------------------------------------------------------
(* Properties.                                                             *)

TypeOK ==
  /\ clock \in 0..Sunday
  /\ active \subseteq Employees /\ submitted \subseteq Employees /\ early \subseteq Employees
  /\ rows \in [Deliveries -> {"none", "pending", "sent", "failed"}]
  /\ older \in [Deliveries -> SUBSET Deliveries]
  /\ host \in Hostings
  /\ running \in [Processes -> BOOLEAN]
  /\ pc \in [Ticks -> {"idle", "begun", "remind", "submitted", "nag", "list", "send"} \cup Marking]
  /\ now \in [Ticks -> 0..Sunday]
  /\ todo \in [Ticks -> SUBSET Deliveries]
  /\ batch \in [Ticks -> SUBSET Deliveries]
  /\ sending \in [Ticks -> SUBSET Deliveries]
  /\ delivered \in [Deliveries -> Nat]
  /\ unmarked \in [Deliveries -> Nat]
  /\ faults \in 0..MaxFaults[host]

\* README: "Delivery rows in the database prevent duplicate sends across
\* worker ticks".
NoDuplicateSends == \A d \in Deliveries : delivered[d] <= 1

\* The processes that serve ticks.
Copies     == {host[t] : t \in Ticks}
OneProcess == \A t, u \in Ticks : host[t] = host[u]

\* However the requests of each process overlap, its running flag keeps two of
\* its ticks from sending the same row: a message goes out once per process at
\* most, and once more for each earlier one that arrived and whose mark was lost
\* to a failing UPDATE or a crash.  With one process that is once, but for those.
ResentOnlyIfUnmarked ==
  \A d \in Deliveries : delivered[d] <= Cardinality(Copies) + unmarked[d]

Settled(d) == rows[d] \in {"sent", "failed"}

\* A row that is sent or failed is never opened again, and with one process it
\* stays what it is: no tick holds a stale pending row across another tick's
\* mark, and none tries a failed one again.
SettledStaysSettled ==
  [][\A d \in Deliveries : Settled(d) =>
       Settled(d)' /\ (OneProcess => rows'[d] = rows[d])]_vars

\* A row that says sent was delivered, with any number of processes.
SentWasDelivered == \A d \in Deliveries : rows[d] = "sent" => delivered[d] > 0

\* The rows tell which messages went out.
MarksAreTrue == ResentOnlyIfUnmarked /\ SentWasDelivered

\* Whoever had submitted before the nags fell due is never nagged, whichever
\* tick, process or retry enqueues them.
EarlyRespondersNotNagged ==
  \A e \in early : rows[<<e, "nag">>] = "none" /\ delivered[<<e, "nag">>] = 0

\* Every pending row is sent or given up in the end, although a tick sends at
\* most SendBatch rows, crashes lose its list and marks fail.
PendingSettles ==
  \A d \in Deliveries : rows[d] = "pending" ~> rows[d] \in {"sent", "failed"}
=============================================================================
