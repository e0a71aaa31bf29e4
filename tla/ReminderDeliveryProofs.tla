----------------------- MODULE ReminderDeliveryProofs -----------------------
(* What ReminderDelivery promises holds for any number of employees,       *)
(* processes, ticks and faults.                                            *)
EXTENDS ReminderDelivery, FiniteSetTheorems, TLAPS

-----------------------------------------------------------------------------
(* The inductive invariant.                                                *)

\* The running flag: a process serves one tick at a time.
Guarded ==
  /\ \A t \in Ticks : pc[t] # "idle" => running[host[t]]
  /\ \A t, u \in Ticks :
       pc[t] # "idle" /\ pc[u] # "idle" /\ host[t] = host[u] => t = u

\* What a tick holds has a row, it is not sending what is still in its list, and
\* what it is about to mark sent went out.
Holding ==
  /\ \A t \in Ticks : pc[t] \notin Marking => sending[t] = {}
  /\ \A t \in Ticks : pc[t] \notin Marking \cup {"send"} => batch[t] = {}
  /\ \A t \in Ticks : batch[t] \cap sending[t] = {}
  /\ \A t \in Ticks : \A d \in batch[t] \cup sending[t] : rows[d] # "none"
  /\ \A t \in Ticks : pc[t] = "markSent" => \A d \in sending[t] : delivered[d] > 0
  /\ \A d \in Deliveries : rows[d] = "sent" => delivered[d] > 0
  /\ \A d \in Deliveries : rows[d] = "none" => delivered[d] = 0

\* In one process the rows a tick holds are pending.
Alone ==
  OneProcess => \A t \in Ticks : \A d \in batch[t] \cup sending[t] : rows[d] = "pending"

\* Nags are made by ticks begun in the nag's window, without those who had
\* submitted when it opened.
Nags ==
  /\ early \subseteq submitted
  /\ clock < NagWindow => \A e \in Employees : rows[<<e, "nag">>] = "none"
  /\ \A t \in Ticks : now[t] <= clock
  /\ \A t \in Ticks : pc[t] \in {"submitted", "nag"} => now[t] = NagWindow
  /\ \A t \in Ticks : pc[t] = "remind" => \A e \in Employees : <<e, "nag">> \notin todo[t]
  /\ \A t \in Ticks : pc[t] = "nag" => \A e \in early : <<e, "nag">> \notin todo[t]
  /\ \A e \in early : rows[<<e, "nag">>] = "none"

IInv == TypeOK /\ Guarded /\ Holding /\ Alone /\ Nags

-----------------------------------------------------------------------------
\* The invariant holds at the start.
THEOREM InitIInv == Init => IInv
<1> SUFFICES ASSUME Init PROVE IInv
  OBVIOUS
<1>1. TypeOK
  BY ReminderDeliveryAssumption DEF Init, TypeOK, Sunday
<1>2. Guarded /\ Holding
  BY DEF Init, Guarded, Holding
<1>3. Alone
  BY DEF Init, Alone
<1>4. Nags
  BY DEF Init, Nags, Deliveries, Kinds
<1> QED
  BY <1>1, <1>2, <1>3, <1>4 DEF IInv

LEMMA AdvanceKeeps ==
  ASSUME IInv, Advance
  PROVE  IInv'
<1>1. TypeOK'
  BY DEF IInv, TypeOK, Advance, NagDue, Sunday, rowVars, tickVars
<1>2. Guarded'
  BY DEF IInv, Guarded, Advance, NagDue, Sunday, tickVars
<1>3. Holding'
  BY DEF IInv, Holding, Advance, NagDue, Sunday, rowVars, tickVars
<1>4. Alone'
  BY DEF IInv, Alone, OneProcess, Advance, NagDue, Sunday, rowVars,
     tickVars
<1>5. Nags'
  BY DEF IInv, TypeOK, Nags, Advance, NagDue, NagWindow, Sunday, rowVars, tickVars
<1> QED
  BY <1>1, <1>2, <1>3, <1>4, <1>5 DEF IInv

LEMMA SubmitKeeps ==
  ASSUME IInv, NEW e \in Employees, Submit(e)
  PROVE  IInv'
<1>1. TypeOK'
  BY DEF IInv, TypeOK, Submit, rowVars, tickVars, history
<1>2. Guarded'
  BY DEF IInv, Guarded, Submit, tickVars
<1>3. Holding'
  BY DEF IInv, Holding, Submit, rowVars, tickVars, history
<1>4. Alone'
  BY DEF IInv, Alone, OneProcess, Submit, rowVars, tickVars, history
<1>5. Nags'
  BY DEF IInv, Nags, Submit, rowVars, tickVars, history
<1> QED
  BY <1>1, <1>2, <1>3, <1>4, <1>5 DEF IInv

LEMMA SetActiveKeeps ==
  ASSUME IInv, NEW e \in Employees, SetActive(e)
  PROVE  IInv'
<1>1. TypeOK'
  BY DEF IInv, TypeOK, SetActive, rowVars, tickVars, history
<1>2. Guarded'
  BY DEF IInv, Guarded, SetActive, tickVars
<1>3. Holding'
  BY DEF IInv, Holding, SetActive, rowVars, tickVars, history
<1>4. Alone'
  BY DEF IInv, Alone, OneProcess, SetActive, rowVars, tickVars, history
<1>5. Nags'
  BY DEF IInv, Nags, SetActive, rowVars, tickVars, history
<1> QED
  BY <1>1, <1>2, <1>3, <1>4, <1>5 DEF IInv

LEMMA BeginTickKeeps ==
  ASSUME IInv, NEW t \in Ticks, BeginTick(t)
  PROVE  IInv'
<1>1. TypeOK'
  BY DEF IInv, TypeOK, BeginTick, rowVars, history
<1>2. Guarded'
  BY ReminderDeliveryAssumption DEF IInv, TypeOK, Guarded, BeginTick, NotRunning
<1>3. Holding'
  BY DEF IInv, Holding, BeginTick, rowVars, history, Marking
<1>4. Alone'
  BY DEF IInv, Alone, OneProcess, BeginTick, rowVars, history
<1>5. Nags'
  BY DEF IInv, TypeOK, Nags, BeginTick, rowVars, history
<1> QED
  BY <1>1, <1>2, <1>3, <1>4, <1>5 DEF IInv

LEMMA ListRemindedKeeps ==
  ASSUME IInv, NEW t \in Ticks, ListReminded(t)
  PROVE  IInv'
<1>1. TypeOK'
  BY DEF IInv, TypeOK, ListReminded, ReminderDue, rowVars, history, Deliveries, Kinds
<1>2. Guarded'
  BY DEF IInv, Guarded, ListReminded, ReminderDue
<1>3. Holding'
  BY DEF IInv, Holding, ListReminded, ReminderDue, rowVars, history, Marking
<1>4. Alone'
  BY DEF IInv, Alone, OneProcess, ListReminded, ReminderDue, rowVars,
     history
<1>5. Nags'
  BY DEF IInv, TypeOK, Nags, ListReminded, ReminderDue, rowVars, history
<1> QED
  BY <1>1, <1>2, <1>3, <1>4, <1>5 DEF IInv

LEMMA ListActiveKeeps ==
  ASSUME IInv, NEW t \in Ticks, ListActive(t)
  PROVE  IInv'
<1>1. TypeOK'
  BY DEF IInv, TypeOK, ListActive, NagDue, rowVars, history, Deliveries, Kinds
<1>2. Guarded'
  BY DEF IInv, Guarded, ListActive, NagDue
<1>3. Holding'
  BY DEF IInv, Holding, ListActive, NagDue, rowVars, history, Marking
<1>4. Alone'
  BY DEF IInv, Alone, OneProcess, ListActive, NagDue, rowVars, history
<1>5. Nags'
  BY DEF IInv, TypeOK, Nags, ListActive, NagDue, rowVars, history
<1> QED
  BY <1>1, <1>2, <1>3, <1>4, <1>5 DEF IInv

LEMMA DropSubmittedKeeps ==
  ASSUME IInv, NEW t \in Ticks, DropSubmitted(t)
  PROVE  IInv'
<1>1. TypeOK'
  BY DEF IInv, TypeOK, DropSubmitted, WithoutSubmitted, rowVars, history
<1>2. Guarded'
  BY DEF IInv, Guarded, DropSubmitted, WithoutSubmitted
<1>3. Holding'
  BY DEF IInv, Holding, DropSubmitted, WithoutSubmitted, rowVars, history, Marking
<1>4. Alone'
  BY DEF IInv, Alone, OneProcess, DropSubmitted, WithoutSubmitted,
     rowVars, history
<1>5. Nags'
  BY DEF IInv, TypeOK, Nags, DropSubmitted, WithoutSubmitted, rowVars, history
<1> QED
  BY <1>1, <1>2, <1>3, <1>4, <1>5 DEF IInv

LEMMA ListPendingKeeps ==
  ASSUME IInv, NEW t \in Ticks, ListPending(t)
  PROVE  IInv'
<1>1. TypeOK'
  BY DEF IInv, TypeOK, ListPending, Pending, Oldest, rowVars, history
<1>2. Guarded'
  BY DEF IInv, Guarded, ListPending, Pending
<1>3. Holding'
  BY DEF IInv, TypeOK, Holding, ListPending, Pending, Oldest, rowVars, history, Marking
<1>4. Alone'
  BY DEF IInv, Holding, Alone, OneProcess, ListPending, Pending, Oldest,
     rowVars, history, Marking
<1>5. Nags'
  BY DEF IInv, Nags, ListPending, Pending, rowVars, history
<1> QED
  BY <1>1, <1>2, <1>3, <1>4, <1>5 DEF IInv

LEMMA SendKeeps ==
  ASSUME IInv, NEW t \in Ticks, Send(t)
  PROVE  IInv'
<1>1. TypeOK'
  BY DEF IInv, TypeOK, Send, Marking, rowVars
<1>2. Guarded'
  BY DEF IInv, Guarded, Send
<1>3. Holding'
  BY DEF IInv, TypeOK, Holding, Send, Marking, rowVars
<1>4. Alone'
  BY DEF IInv, TypeOK, Guarded, Alone, OneProcess, Send, Marking, rowVars
<1>5. Nags'
  BY DEF IInv, Nags, Send, rowVars
<1> QED
  BY <1>1, <1>2, <1>3, <1>4, <1>5 DEF IInv

LEMMA MarkKeeps ==
  ASSUME IInv, NEW t \in Ticks, Mark(t)
  PROVE  IInv'
<1>1. TypeOK'
  BY DEF IInv, TypeOK, Mark, Outcome, history
<1>2. Guarded'
  BY DEF IInv, Guarded, Mark, Marking
<1>3. Holding'
  BY DEF IInv, TypeOK, Holding, Mark, Outcome, history
<1>4. Alone'
  <2> SUFFICES ASSUME OneProcess PROVE Alone'
    BY DEF Alone, OneProcess, Mark
  <2>1. \A u \in Ticks : u # t => sending[u] = {} /\ batch[u] = {}
    BY DEF IInv, Guarded, Holding, OneProcess, Mark, Marking
  <2>2. \A d \in batch[t] : d \notin sending[t]
    BY DEF IInv, Holding
  <2>3. \A d \in Deliveries : rows'[d] = IF d \in sending[t] THEN Outcome(t) ELSE rows[d]
    BY DEF Mark
  <2>4. sending' = [sending EXCEPT ![t] = {}] /\ UNCHANGED batch
    BY DEF Mark
  <2>5. \A u \in Ticks : \A d \in batch'[u] \cup sending'[u] : rows'[d] = "pending"
    BY <2>1, <2>2, <2>3, <2>4 DEF IInv, TypeOK, Alone
  <2> QED
    BY <2>5 DEF Alone
<1>5. Nags'
  <2>1. \A d \in Deliveries : rows[d] = "none" => rows'[d] = "none"
    BY DEF IInv, Holding, Mark
  <2>2. \A e \in Employees : <<e, "nag">> \in Deliveries
    BY DEF Deliveries, Kinds
  <2>3. \A u \in Ticks : pc'[u] \in {"submitted", "nag", "remind"} => pc'[u] = pc[u]
    BY DEF IInv, Mark
  <2>4. UNCHANGED <<clock, submitted, early, now, todo>>
    BY DEF Mark, history
  <2> QED
    BY <2>1, <2>2, <2>3, <2>4 DEF IInv, TypeOK, Nags
<1> QED
  BY <1>1, <1>2, <1>3, <1>4, <1>5 DEF IInv

LEMMA EndTickKeeps ==
  ASSUME IInv, NEW t \in Ticks, EndTick(t)
  PROVE  IInv'
<1>1. TypeOK'
  BY DEF IInv, TypeOK, EndTick, Return, rowVars, history
<1>2. Guarded'
  BY DEF IInv, TypeOK, Guarded, EndTick, Return
<1>3. Holding'
  BY DEF IInv, Holding, EndTick, Return, rowVars, history, Marking
<1>4. Alone'
  BY DEF IInv, Alone, OneProcess, EndTick, Return, rowVars, history
<1>5. Nags'
  BY DEF IInv, Nags, EndTick, Return, rowVars, history
<1> QED
  BY <1>1, <1>2, <1>3, <1>4, <1>5 DEF IInv

LEMMA MarkFailsKeeps ==
  ASSUME IInv, NEW t \in Ticks, MarkFails(t)
  PROVE  IInv'
<1>1. TypeOK'
  BY ReminderDeliveryAssumption DEF IInv, TypeOK, MarkFails, NoteUnmarked, rowVars
<1>2. Guarded'
  BY DEF IInv, Guarded, MarkFails, Marking
<1>3. Holding'
  BY DEF IInv, TypeOK, Holding, MarkFails, rowVars
<1>4. Alone'
  BY DEF IInv, TypeOK, Alone, OneProcess, MarkFails, NoteUnmarked, rowVars
<1>5. Nags'
  BY DEF IInv, Nags, MarkFails, rowVars
<1> QED
  BY <1>1, <1>2, <1>3, <1>4, <1>5 DEF IInv

LEMMA EnqueueFailsKeeps ==
  ASSUME IInv, NEW t \in Ticks, EnqueueFails(t)
  PROVE  IInv'
<1>1. TypeOK'
  BY ReminderDeliveryAssumption DEF IInv, TypeOK, EnqueueFails, rowVars, history
<1>2. Guarded'
  BY DEF IInv, Guarded, EnqueueFails
<1>3. Holding'
  BY DEF IInv, Holding, EnqueueFails, rowVars, history, Marking
<1>4. Alone'
  BY DEF IInv, Alone, OneProcess, EnqueueFails, rowVars, history
<1>5. Nags'
  BY DEF IInv, Nags, EnqueueFails, rowVars, history
<1> QED
  BY <1>1, <1>2, <1>3, <1>4, <1>5 DEF IInv

LEMMA ListFailsKeeps ==
  ASSUME IInv, NEW t \in Ticks, ListFails(t)
  PROVE  IInv'
<1>1. TypeOK'
  BY ReminderDeliveryAssumption DEF IInv, TypeOK, ListFails, Return, rowVars, history
<1>2. Guarded'
  BY DEF IInv, TypeOK, Guarded, ListFails, Return
<1>3. Holding'
  BY DEF IInv, Holding, ListFails, Return, rowVars, history, Marking
<1>4. Alone'
  BY DEF IInv, Alone, OneProcess, ListFails, Return, rowVars, history
<1>5. Nags'
  BY DEF IInv, Nags, ListFails, Return, rowVars, history
<1> QED
  BY <1>1, <1>2, <1>3, <1>4, <1>5 DEF IInv

LEMMA CrashKeeps ==
  ASSUME IInv, NEW t \in Ticks, Crash(t)
  PROVE  IInv'
<1>1. TypeOK'
  BY ReminderDeliveryAssumption DEF IInv, TypeOK, Crash, NoteUnmarked, rowVars
<1>2. Guarded'
  BY DEF IInv, Guarded, Crash
<1>3. Holding'
  BY DEF IInv, Holding, Crash, rowVars
<1>4. Alone'
  BY DEF IInv, TypeOK, Guarded, Alone, OneProcess, Crash, NoteUnmarked,
     rowVars
<1>5. Nags'
  BY DEF IInv, Nags, Crash, rowVars
<1> QED
  BY <1>1, <1>2, <1>3, <1>4, <1>5 DEF IInv

LEMMA CreatePendingKeeps ==
  ASSUME IInv, NEW t \in Ticks, NEW d \in Deliveries, CreatePending(t, d)
  PROVE  IInv'
<1>1. TypeOK'
  BY ReminderDeliveryAssumption DEF IInv, TypeOK, CreatePending, Fresh, rowVars, history,
     Deliveries, Marking
<1>2. Guarded'
  BY DEF IInv, Guarded, CreatePending
<1>3. Holding'
  BY DEF IInv, TypeOK, Holding, CreatePending, rowVars, history
<1>4. Alone'
  BY DEF IInv, TypeOK, Alone, OneProcess, CreatePending, Fresh, rowVars,
     history
<1>5. Nags'
  BY DEF IInv, TypeOK, Nags, CreatePending, rowVars, history, Deliveries, Kinds
<1> QED
  BY <1>1, <1>2, <1>3, <1>4, <1>5 DEF IInv

\* No tick, fault or change around the worker disturbs it.
THEOREM NextIInv == IInv /\ [Next]_vars => IInv'
<1> SUFFICES ASSUME IInv, [Next]_vars PROVE IInv'
  OBVIOUS
<1>1. CASE Environment
  BY <1>1, AdvanceKeeps, SubmitKeeps, SetActiveKeeps DEF Environment
<1>2. ASSUME NEW t \in Ticks, Tick(t) PROVE IInv'
  BY <1>2, BeginTickKeeps, ListRemindedKeeps, CreatePendingKeeps, ListActiveKeeps,
     DropSubmittedKeeps, ListPendingKeeps, SendKeeps, MarkKeeps, EndTickKeeps DEF Tick
<1>3. ASSUME NEW t \in Ticks, Fault(t) PROVE IInv'
  BY <1>3, MarkFailsKeeps, EnqueueFailsKeeps, ListFailsKeeps, CrashKeeps DEF Fault
<1>4. CASE UNCHANGED vars
  <2>1. UNCHANGED <<clock, active, submitted, rows, older, host, running, pc, now, todo,
                    batch, sending, delivered, unmarked, early, faults>>
    BY <1>4 DEF vars, rowVars, tickVars, history
  <2>2. TypeOK' /\ Guarded' /\ Holding'
    BY <2>1 DEF IInv, TypeOK, Guarded, Holding
  <2>3. Alone' /\ Nags'
    BY <2>1 DEF IInv, Alone, OneProcess, Nags
  <2> QED
    BY <2>2, <2>3 DEF IInv
<1> QED
  BY <1>1, <1>2, <1>3, <1>4 DEF Next

\* The invariant holds in every reachable state.
THEOREM ReminderInvariant == Spec => []IInv
BY InitIInv, NextIInv, PTL DEF Spec

-----------------------------------------------------------------------------
(* How often a message goes out.                                           *)

\* The processes with a message of row d that arrived and whose mark is still to
\* come, and those with a list that has d.
Sent(t, d)  == d \in sending[t] /\ pc[t] \in {"markSent", "markLost"}
InFlight(d) == {p \in Copies : \E t \in Ticks : host[t] = p /\ Sent(t, d)}
Holders(d)  == {p \in Copies : \E t \in Ticks : host[t] = p /\ d \in batch[t]}

\* Every message but the lost ones is in flight, or settles its row; and when the
\* row is settled, only the processes that listed it before still send it.
Counted ==
  /\ \A d \in Deliveries :
       ~Settled(d) => delivered[d] <= unmarked[d] + Cardinality(InFlight(d))
  /\ \A d \in Deliveries :
       Settled(d) =>
         delivered[d] + Cardinality(Holders(d)) <= unmarked[d] + Cardinality(Copies)

\* Sets of processes and their sizes.
LEMMA Counting ==
  ASSUME TypeOK
  PROVE  /\ Cardinality(Copies) \in Nat
         /\ \A S \in SUBSET Copies :
              /\ Cardinality(S) \in Nat
              /\ \A p \in Copies \ S : Cardinality(S \cup {p}) = Cardinality(S) + 1
              /\ \A p \in S : Cardinality(S \ {p}) = Cardinality(S) - 1
         /\ \A S, T \in SUBSET Copies :
              /\ S \subseteq T => Cardinality(S) <= Cardinality(T)
              /\ S \cap T = {} => Cardinality(S) + Cardinality(T) <= Cardinality(Copies)
<1>1. IsFiniteSet(Copies)
  <2>1. Copies \subseteq Processes
    BY ReminderDeliveryAssumption DEF TypeOK, Copies
  <2> QED BY <2>1, FS_Subset, ReminderDeliveryAssumption
<1>2. \A S \in SUBSET Copies : IsFiniteSet(S) /\ Cardinality(S) \in Nat
  BY <1>1, FS_Subset, FS_CardinalityType
<1>3. ASSUME NEW S \in SUBSET Copies
      PROVE  /\ \A p \in Copies \ S : Cardinality(S \cup {p}) = Cardinality(S) + 1
             /\ \A p \in S : Cardinality(S \ {p}) = Cardinality(S) - 1
  BY <1>2, FS_AddElement, FS_RemoveElement
<1>4. ASSUME NEW S \in SUBSET Copies, NEW T \in SUBSET Copies
      PROVE  S \subseteq T => Cardinality(S) <= Cardinality(T)
  BY <1>2, FS_Subset
<1>5. ASSUME NEW S \in SUBSET Copies, NEW T \in SUBSET Copies, S \cap T = {}
      PROVE  Cardinality(S) + Cardinality(T) <= Cardinality(Copies)
  <2>1. Cardinality(S \cup T) = Cardinality(S) + Cardinality(T) - Cardinality(S \cap T)
    BY <1>2, FS_Union
  <2>2. Cardinality(S \cap T) = 0
    BY <1>5, FS_EmptySet
  <2>3. Cardinality(S \cup T) <= Cardinality(Copies)
    BY <1>1, FS_Subset
  <2> QED BY <1>2, <2>1, <2>2, <2>3
<1> QED BY <1>1, <1>2, <1>3, <1>4, <1>5, FS_CardinalityType

\* A process with a message in flight has one tick, which does not have the row
\* in its list as well.
LEMMA FlightsAndLists ==
  ASSUME IInv, NEW d \in Deliveries
  PROVE  /\ InFlight(d) \in SUBSET Copies /\ Holders(d) \in SUBSET Copies
         /\ InFlight(d) \cap Holders(d) = {}
         /\ \A t \in Ticks : host[t] \in Copies
         /\ \A t \in Ticks : Sent(t, d) => host[t] \in InFlight(d)
         /\ \A t \in Ticks : d \in batch[t] => host[t] \in Holders(d)
<1>1. /\ InFlight(d) \in SUBSET Copies /\ Holders(d) \in SUBSET Copies
      /\ \A t \in Ticks : host[t] \in Copies
  BY DEF InFlight, Holders, Copies
<1>2. /\ \A t \in Ticks : Sent(t, d) => host[t] \in InFlight(d)
      /\ \A t \in Ticks : d \in batch[t] => host[t] \in Holders(d)
  BY <1>1 DEF InFlight, Holders
<1>3. ASSUME NEW p \in InFlight(d) \cap Holders(d) PROVE FALSE
  <2>1. PICK t \in Ticks : host[t] = p /\ Sent(t, d)
    BY DEF InFlight
  <2>2. PICK u \in Ticks : host[u] = p /\ d \in batch[u]
    BY DEF Holders
  <2>3. pc[t] # "idle" /\ pc[u] # "idle"
    BY <2>1, <2>2 DEF Sent, IInv, Holding, Marking
  <2>4. t = u
    BY <2>1, <2>2, <2>3 DEF IInv, Guarded
  <2> QED BY <2>1, <2>2, <2>4 DEF Sent, IInv, Holding
<1> QED BY <1>1, <1>2, <1>3

LEMMA InitCounted == Init => Counted
<1> SUFFICES ASSUME Init, NEW d \in Deliveries
             PROVE  ~Settled(d) /\ delivered[d] <= unmarked[d] + Cardinality(InFlight(d))
  BY DEF Counted
<1>1. ~Settled(d) /\ delivered[d] = 0 /\ unmarked[d] = 0
  BY DEF Init, Settled
<1>2. Cardinality(InFlight(d)) \in Nat
  BY InitIInv, Counting, FlightsAndLists DEF IInv
<1> QED BY <1>1, <1>2

\* What changes nothing that is counted.
LEMMA QuietCounts ==
  ASSUME Counted, UNCHANGED <<host, delivered, unmarked, batch>>,
         \A d \in Deliveries : Settled(d)' = Settled(d),
         \A t \in Ticks, d \in Deliveries : Sent(t, d)' = Sent(t, d)
  PROVE  Counted'
<1> SUFFICES ASSUME NEW d \in Deliveries
             PROVE  /\ ~Settled(d) =>
                         delivered[d] <= unmarked[d] + Cardinality(InFlight(d)')
                    /\ Settled(d) =>
                         delivered[d] + Cardinality(Holders(d)')
                           <= unmarked[d] + Cardinality(Copies')
  BY DEF Counted
<1>1. InFlight(d)' = InFlight(d) /\ Holders(d)' = Holders(d) /\ Copies' = Copies
  BY DEF InFlight, Holders, Copies
<1> QED BY <1>1 DEF Counted

\* A list has pending rows only.
LEMMA ListPendingCounts ==
  ASSUME IInv, Counted, NEW t \in Ticks, ListPending(t)
  PROVE  Counted'
<1>1. /\ UNCHANGED <<host, rows, sending, delivered, unmarked>>
      /\ sending[t] = {}
      /\ \A u \in Ticks : u # t => batch'[u] = batch[u] /\ pc'[u] = pc[u]
      /\ \A d \in batch'[t] : ~Settled(d)
  BY DEF ListPending, rowVars, history, IInv, TypeOK, Holding, Marking, Oldest, Pending,
     Settled
<1> SUFFICES ASSUME NEW d \in Deliveries
             PROVE  /\ ~Settled(d) =>
                         delivered[d] <= unmarked[d] + Cardinality(InFlight(d)')
                    /\ Settled(d) =>
                         delivered[d] + Cardinality(Holders(d)')
                           <= unmarked[d] + Cardinality(Copies')
  BY <1>1 DEF Counted, Settled
<1>2. Copies' = Copies
  BY <1>1 DEF Copies
<1>3. InFlight(d)' = InFlight(d)
  <2>1. \A u \in Ticks : Sent(u, d)' <=> Sent(u, d)
    BY <1>1 DEF Sent
  <2> QED BY <1>1, <1>2, <2>1 DEF InFlight
<1>4. Settled(d) => Cardinality(Holders(d)') <= Cardinality(Holders(d))
  <2>1. Settled(d) => Holders(d)' \subseteq Holders(d)
    BY <1>1, <1>2 DEF Holders
  <2> QED BY <2>1, FlightsAndLists, Counting DEF IInv
<1>5. /\ Cardinality(Holders(d)) \in Nat /\ Cardinality(Copies) \in Nat
      /\ Cardinality(Holders(d)') \in Nat
      /\ delivered[d] \in Nat /\ unmarked[d] \in Nat
  <2>1. Holders(d)' \in SUBSET Copies
    BY <1>2 DEF Holders
  <2> QED BY <2>1, FlightsAndLists, Counting DEF IInv, TypeOK
<1> QED BY <1>2, <1>3, <1>4, <1>5 DEF Counted

\* A message leaves the list; if it arrives, it is in flight instead.
LEMMA SendCounts ==
  ASSUME IInv, Counted, NEW t \in Ticks, Send(t)
  PROVE  Counted'
<1> DEFINE h == host[t]
<1>1. PICK d \in batch[t], mark \in Marking :
        /\ batch' = [batch EXCEPT ![t] = @ \ {d}]
        /\ sending' = [sending EXCEPT ![t] = {d}]
        /\ pc' = [pc EXCEPT ![t] = mark]
        /\ delivered' = [delivered EXCEPT ![d] =
                           IF mark \in {"markSent", "markLost"} THEN @ + 1 ELSE @]
        /\ UNCHANGED <<host, rows, unmarked>>
  <2>1. PICK d \in batch[t], arrives \in BOOLEAN, answered \in BOOLEAN :
          /\ batch' = [batch EXCEPT ![t] = @ \ {d}]
          /\ sending' = [sending EXCEPT ![t] = {d}]
          /\ answered => arrives
          /\ pc' = [pc EXCEPT ![t] = IF answered THEN "markSent"
                                     ELSE IF arrives THEN "markLost" ELSE "markFailed"]
          /\ delivered' = [delivered EXCEPT ![d] = IF arrives THEN @ + 1 ELSE @]
    BY DEF Send
  <2>2. UNCHANGED <<host, rows, unmarked>>
    BY DEF Send, rowVars
  <2> QED BY <2>1, <2>2 DEF Marking
<1> DEFINE arrives == mark \in {"markSent", "markLost"}
<1>2. d \in Deliveries /\ pc[t] = "send" /\ sending[t] = {}
  BY DEF IInv, TypeOK, Holding, Send, Marking
<1>3. ASSUME NEW u \in Ticks, u # t, host[u] = h PROVE batch[u] = {} /\ sending[u] = {}
  BY <1>2, <1>3 DEF IInv, Guarded, Holding, Marking
<1>4. ASSUME NEW x \in Deliveries, NEW u \in Ticks
      PROVE  /\ Sent(u, x)' <=> IF u = t THEN x = d /\ arrives ELSE Sent(u, x)
             /\ x \in batch'[u] <=> x \in batch[u] /\ (u = t => x # d)
  <2>1. u # t => batch'[u] = batch[u] /\ sending'[u] = sending[u] /\ pc'[u] = pc[u]
    BY <1>1 DEF IInv, TypeOK
  <2>2. batch'[t] = batch[t] \ {d} /\ sending'[t] = {d} /\ pc'[t] = mark
    BY <1>1 DEF IInv, TypeOK
  <2>3. CASE u = t
    BY <2>2, <2>3 DEF Sent
  <2>4. CASE u # t
    BY <2>1, <2>4 DEF Sent
  <2> QED BY <2>3, <2>4
<1>5. Copies' = Copies /\ h \in Copies
  BY <1>1 DEF Copies
<1> HIDE DEF h, arrives
<1>6. ASSUME NEW x \in Deliveries, x # d
      PROVE  InFlight(x)' = InFlight(x) /\ Holders(x)' = Holders(x)
  <2>1. \A u \in Ticks : Sent(u, x)' <=> Sent(u, x)
    BY <1>2, <1>4, <1>6 DEF Sent
  <2>2. \A u \in Ticks : x \in batch'[u] <=> x \in batch[u]
    BY <1>4, <1>6
  <2> QED BY <1>1, <1>5, <2>1, <2>2 DEF InFlight, Holders
<1>7. /\ h \notin InFlight(d) /\ h \in Holders(d)
      /\ InFlight(d)' = IF arrives THEN InFlight(d) \cup {h} ELSE InFlight(d)
      /\ Holders(d)' = Holders(d) \ {h}
  <2>1. h \notin InFlight(d) /\ h \in Holders(d)
    BY FlightsAndLists, <1>2 DEF h
  <2>2. ASSUME NEW p \in Copies
        PROVE  p \in InFlight(d)' <=> p \in InFlight(d) \/ (arrives /\ p = h)
    <3>1. \A u \in Ticks : Sent(u, d)' <=> (u = t /\ arrives) \/ Sent(u, d)
      BY <1>2, <1>4 DEF Sent
    <3> QED BY <1>1, <1>5, <3>1 DEF InFlight, h
  <2>3. ASSUME NEW p \in Copies
        PROVE  p \in Holders(d)' <=> p \in Holders(d) /\ p # h
    <3>1. \A u \in Ticks : d \in batch'[u] <=> d \in batch[u] /\ u # t
      BY <1>2, <1>4
    <3>2. \A u \in Ticks : d \in batch[u] /\ host[u] = h => u = t
      BY <1>3
    <3> QED BY <1>1, <1>5, <3>1, <3>2 DEF Holders, h
  <2>4. InFlight(d)' \subseteq Copies /\ Holders(d)' \subseteq Copies
    BY <1>5 DEF InFlight, Holders
  <2> QED BY <1>5, <2>1, <2>2, <2>3, <2>4, FlightsAndLists, <1>2
<1>8. /\ Cardinality(InFlight(d)') = Cardinality(InFlight(d)) + (IF arrives THEN 1 ELSE 0)
      /\ Cardinality(Holders(d)') = Cardinality(Holders(d)) - 1
      /\ Cardinality(InFlight(d)) \in Nat /\ Cardinality(Holders(d)) \in Nat
      /\ Cardinality(Copies) \in Nat
  BY <1>2, <1>5, <1>7, FlightsAndLists, Counting DEF IInv
<1>9. /\ delivered[d] \in Nat /\ unmarked[d] \in Nat
      /\ delivered'[d] = delivered[d] + (IF arrives THEN 1 ELSE 0)
      /\ \A x \in Deliveries \ {d} : delivered'[x] = delivered[x]
  BY <1>1, <1>2 DEF IInv, TypeOK, arrives
<1> SUFFICES ASSUME NEW x \in Deliveries
             PROVE  /\ ~Settled(x) =>
                         delivered'[x] <= unmarked[x] + Cardinality(InFlight(x)')
                    /\ Settled(x) =>
                         delivered'[x] + Cardinality(Holders(x)')
                           <= unmarked[x] + Cardinality(Copies')
  BY <1>1 DEF Counted, Settled
<1>10. CASE x # d
  BY <1>5, <1>6, <1>9, <1>10 DEF Counted
<1>11. CASE x = d
  <2>1. CASE ~Settled(d)
    <3>1. delivered[d] <= unmarked[d] + Cardinality(InFlight(d))
      BY <1>2, <2>1 DEF Counted
    <3> QED BY <1>8, <1>9, <1>11, <2>1, <3>1
  <2>2. CASE Settled(d)
    <3>1. delivered[d] + Cardinality(Holders(d)) <= unmarked[d] + Cardinality(Copies)
      BY <1>2, <2>2 DEF Counted
    <3> QED BY <1>5, <1>8, <1>9, <1>11, <2>2, <3>1
  <2> QED BY <2>1, <2>2
<1> QED BY <1>10, <1>11

\* A mark settles the row, whatever it was; the process that marks it has it in
\* its list no more.
LEMMA MarkCounts ==
  ASSUME IInv, Counted, NEW t \in Ticks, Mark(t)
  PROVE  Counted'
<1>1. /\ UNCHANGED <<host, batch, delivered, unmarked>>
      /\ \A d \in Deliveries : d \in sending[t] => Settled(d)'
      /\ \A d \in Deliveries : d \notin sending[t] => Settled(d)' = Settled(d)
  BY DEF Mark, history, Settled, Outcome
<1>2. ASSUME NEW d \in Deliveries, d \notin sending[t], NEW u \in Ticks
      PROVE  Sent(u, d)' <=> Sent(u, d)
  BY <1>2 DEF Mark, Sent, IInv, TypeOK
<1> SUFFICES ASSUME NEW d \in Deliveries
             PROVE  /\ ~Settled(d)' =>
                         delivered[d] <= unmarked[d] + Cardinality(InFlight(d)')
                    /\ Settled(d)' =>
                         delivered[d] + Cardinality(Holders(d)')
                           <= unmarked[d] + Cardinality(Copies')
  BY <1>1 DEF Counted
<1>3. Copies' = Copies /\ Holders(d)' = Holders(d)
  BY <1>1 DEF Copies, Holders
<1>4. CASE d \notin sending[t]
  <2>1. InFlight(d)' = InFlight(d)
    BY <1>1, <1>2, <1>3, <1>4 DEF InFlight
  <2> QED BY <1>1, <1>3, <1>4, <2>1 DEF Counted
<1>5. CASE d \in sending[t]
  <2>1. /\ delivered[d] \in Nat /\ unmarked[d] \in Nat /\ Cardinality(Copies) \in Nat
        /\ Cardinality(InFlight(d)) \in Nat /\ Cardinality(Holders(d)) \in Nat
        /\ Cardinality(InFlight(d)) + Cardinality(Holders(d)) <= Cardinality(Copies)
    BY FlightsAndLists, Counting DEF IInv, TypeOK
  <2>2. delivered[d] + Cardinality(Holders(d)) <= unmarked[d] + Cardinality(Copies)
    <3>1. CASE Settled(d)
      BY <3>1 DEF Counted
    <3>2. CASE ~Settled(d)
      <4>1. delivered[d] <= unmarked[d] + Cardinality(InFlight(d))
        BY <3>2 DEF Counted
      <4> QED BY <2>1, <4>1
    <3> QED BY <3>1, <3>2
  <2> QED BY <1>1, <1>3, <1>5, <2>2
<1> QED BY <1>4, <1>5

\* A tick stops before its mark: a message in flight is lost to the row.
LEMMA LossCounts ==
  ASSUME IInv, Counted, NEW t \in Ticks, pc[t] # "idle", NoteUnmarked(t),
         UNCHANGED <<host, rows, delivered>>,
         \A u \in Ticks, d \in Deliveries : Sent(u, d)' <=> Sent(u, d) /\ u # t,
         \A u \in Ticks : batch'[u] \subseteq batch[u]
  PROVE  Counted'
<1> DEFINE h == host[t]
<1> SUFFICES ASSUME NEW d \in Deliveries
             PROVE  /\ ~Settled(d) =>
                         delivered[d] <= unmarked'[d] + Cardinality(InFlight(d)')
                    /\ Settled(d) =>
                         delivered[d] + Cardinality(Holders(d)')
                           <= unmarked'[d] + Cardinality(Copies')
  BY DEF Counted, Settled
<1>1. Copies' = Copies
  BY DEF Copies
<1>2. /\ unmarked'[d] = unmarked[d] + (IF Sent(t, d) THEN 1 ELSE 0)
      /\ delivered[d] \in Nat /\ unmarked[d] \in Nat /\ unmarked'[d] \in Nat
  BY DEF NoteUnmarked, Sent, IInv, TypeOK
<1>3. InFlight(d)' = IF Sent(t, d) THEN InFlight(d) \ {h} ELSE InFlight(d)
  <2>1. \A u \in Ticks : Sent(u, d) /\ host[u] = h => u = t
    BY DEF Sent, IInv, Guarded, Holding, Marking
  <2>2. ASSUME NEW p \in Copies
        PROVE  p \in InFlight(d)' <=> p \in InFlight(d) /\ ~(Sent(t, d) /\ p = h)
    BY <1>1, <2>1 DEF InFlight
  <2>3. InFlight(d)' \subseteq Copies /\ InFlight(d) \subseteq Copies
    BY <1>1 DEF InFlight
  <2> QED BY <2>2, <2>3
<1>4. Cardinality(InFlight(d)) = Cardinality(InFlight(d)') + (IF Sent(t, d) THEN 1 ELSE 0)
  <2>1. Sent(t, d) => h \in InFlight(d)
    BY FlightsAndLists
  <2> QED BY <1>3, <2>1, FlightsAndLists, Counting DEF IInv
<1>5. Cardinality(Holders(d)') <= Cardinality(Holders(d))
  <2>1. Holders(d)' \subseteq Holders(d)
    BY <1>1 DEF Holders
  <2> QED BY <2>1, FlightsAndLists, Counting DEF IInv
<1>6. /\ Cardinality(InFlight(d)') \in Nat /\ Cardinality(Holders(d)') \in Nat
      /\ Cardinality(Holders(d)) \in Nat /\ Cardinality(Copies) \in Nat
  <2>1. InFlight(d)' \in SUBSET Copies /\ Holders(d)' \in SUBSET Copies
    BY <1>1 DEF InFlight, Holders
  <2> QED BY <2>1, FlightsAndLists, Counting DEF IInv
<1>7. CASE ~Settled(d)
  <2>1. delivered[d] <= unmarked[d] + Cardinality(InFlight(d))
    BY <1>7 DEF Counted
  <2> QED BY <1>2, <1>4, <1>6, <1>7, <2>1
<1>8. CASE Settled(d)
  <2>1. delivered[d] + Cardinality(Holders(d)) <= unmarked[d] + Cardinality(Copies)
    BY <1>8 DEF Counted
  <2> QED BY <1>1, <1>2, <1>5, <1>6, <1>8, <2>1
<1> QED BY <1>7, <1>8

LEMMA MarkFailsCounts ==
  ASSUME IInv, Counted, NEW t \in Ticks, MarkFails(t)
  PROVE  Counted'
<1>1. \A u \in Ticks, d \in Deliveries : Sent(u, d)' <=> Sent(u, d) /\ u # t
  BY DEF MarkFails, Sent, IInv, TypeOK
<1>2. pc[t] # "idle" /\ NoteUnmarked(t) /\ UNCHANGED <<host, rows, delivered, batch>>
  BY DEF MarkFails, Marking, rowVars
<1> QED BY <1>1, <1>2, LossCounts

LEMMA CrashCounts ==
  ASSUME IInv, Counted, NEW t \in Ticks, Crash(t)
  PROVE  Counted'
<1>1. \A u \in Ticks : u # t /\ host[u] = host[t] => batch[u] = {} /\ sending[u] = {}
  BY DEF Crash, IInv, Guarded, Holding, Marking
<1>2. \A u \in Ticks, d \in Deliveries : Sent(u, d)' <=> Sent(u, d) /\ u # t
  BY <1>1 DEF Crash, Sent
<1>3. \A u \in Ticks : batch'[u] \subseteq batch[u]
  BY <1>1 DEF Crash
<1>4. pc[t] # "idle" /\ NoteUnmarked(t) /\ UNCHANGED <<host, rows, delivered>>
  BY DEF Crash, rowVars
<1> QED BY <1>2, <1>3, <1>4, LossCounts

\* And no other step sends, loses or settles anything.
LEMMA CountedStep == IInv /\ Counted /\ [Next]_vars => Counted'
<1> SUFFICES ASSUME IInv, Counted, [Next]_vars PROVE Counted'
  OBVIOUS
<1>1. ASSUME Environment \/ UNCHANGED vars PROVE Counted'
  <2>1. UNCHANGED <<host, rows, pc, batch, sending, delivered, unmarked>>
    BY <1>1 DEF Environment, Advance, Submit, SetActive, vars, rowVars, tickVars, history
  <2>2. /\ \A d \in Deliveries : Settled(d)' = Settled(d)
        /\ \A t \in Ticks, d \in Deliveries : Sent(t, d)' = Sent(t, d)
    BY <2>1 DEF Settled, Sent
  <2> QED BY <2>1, <2>2, QuietCounts
<1>2. ASSUME NEW t \in Ticks,
             \/ BeginTick(t) \/ ListReminded(t) \/ ListActive(t) \/ DropSubmitted(t)
             \/ EndTick(t) \/ EnqueueFails(t) \/ ListFails(t)
      PROVE  Counted'
  <2>1. /\ UNCHANGED <<host, rows, batch, sending, delivered, unmarked>>
        /\ pc[t] \notin Marking
        /\ \A u \in Ticks : u # t => pc'[u] = pc[u]
    BY <1>2 DEF BeginTick, ListReminded, ListActive, DropSubmitted, EndTick, EnqueueFails,
       ListFails, Return, rowVars, history, Marking, IInv, TypeOK
  <2>2. sending[t] = {}
    BY <2>1 DEF IInv, Holding
  <2>3. /\ \A d \in Deliveries : Settled(d)' = Settled(d)
        /\ \A u \in Ticks, d \in Deliveries : Sent(u, d)' = Sent(u, d)
    BY <2>1, <2>2 DEF Settled, Sent
  <2> QED BY <2>1, <2>3, QuietCounts
<1>3. ASSUME NEW t \in Ticks, NEW d \in Deliveries, CreatePending(t, d) PROVE Counted'
  <2>1. UNCHANGED <<host, pc, batch, sending, delivered, unmarked>>
    BY <1>3 DEF CreatePending, history
  <2>2. /\ \A x \in Deliveries : Settled(x)' = Settled(x)
        /\ \A u \in Ticks, x \in Deliveries : Sent(u, x)' = Sent(u, x)
    BY <1>3, <2>1 DEF CreatePending, Fresh, rowVars, Settled, Sent, IInv, TypeOK
  <2> QED BY <2>1, <2>2, QuietCounts
<1>4. ASSUME NEW t \in Ticks, Tick(t) PROVE Counted'
  BY <1>2, <1>3, <1>4, ListPendingCounts, SendCounts, MarkCounts DEF Tick
<1>5. ASSUME NEW t \in Ticks, Fault(t) PROVE Counted'
  BY <1>2, <1>5, MarkFailsCounts, CrashCounts DEF Fault
<1> QED BY <1>1, <1>4, <1>5 DEF Next

LEMMA CountedAlways == Spec => []Counted
<1>1. Spec => [](IInv /\ Counted)
  BY InitIInv, InitCounted, NextIInv, CountedStep, PTL DEF Spec
<1> QED BY <1>1, PTL

-----------------------------------------------------------------------------
(* What follows.                                                           *)

\* Rows, ticks and counters stay well typed.
THEOREM ReminderTypeCorrect == Spec => []TypeOK
<1>1. IInv => TypeOK
  BY DEF IInv
<1> QED
  BY <1>1, ReminderInvariant, PTL

\* A row that says sent was delivered; and a message goes out once per process at
\* most, and again only for each earlier one whose mark was lost.
THEOREM MarksAlwaysTrue == Spec => []MarksAreTrue
<1>1. ASSUME IInv, Counted PROVE ResentOnlyIfUnmarked
  <2> SUFFICES ASSUME NEW d \in Deliveries
               PROVE  delivered[d] <= Cardinality(Copies) + unmarked[d]
    BY DEF ResentOnlyIfUnmarked
  <2>1. /\ delivered[d] \in Nat /\ unmarked[d] \in Nat /\ Cardinality(Copies) \in Nat
        /\ Cardinality(InFlight(d)) \in Nat /\ Cardinality(Holders(d)) \in Nat
        /\ Cardinality(InFlight(d)) <= Cardinality(Copies)
    BY <1>1, FlightsAndLists, Counting DEF IInv, TypeOK
  <2>2. \/ delivered[d] <= unmarked[d] + Cardinality(InFlight(d))
        \/ delivered[d] + Cardinality(Holders(d)) <= unmarked[d] + Cardinality(Copies)
    BY <1>1 DEF Counted
  <2> QED BY <2>1, <2>2
<1>2. IInv => SentWasDelivered
  BY DEF IInv, Holding, SentWasDelivered
<1> QED
  BY <1>1, <1>2, ReminderInvariant, CountedAlways, PTL DEF MarksAreTrue

\* A mark is lost to a fault only.
Lost == TypeOK /\ \A d \in Deliveries : unmarked[d] <= faults

LEMMA LostAlways == Spec => []Lost
<1>1. Init /\ TypeOK => Lost
  BY DEF Init, Lost
<1>2. TypeOK' /\ Lost /\ [Next]_vars => Lost'
  <2> SUFFICES ASSUME TypeOK', Lost, [Next]_vars, NEW d \in Deliveries
               PROVE  unmarked'[d] <= faults'
    BY DEF Lost
  <2> USE DEF Lost
  <2>1. unmarked[d] \in Nat /\ faults \in Nat
    BY ReminderDeliveryAssumption DEF TypeOK
  <2>2. ASSUME NEW t \in Ticks, NoteUnmarked(t), faults' = faults + 1
        PROVE  unmarked'[d] <= faults'
    BY <2>1, <2>2 DEF NoteUnmarked
  <2>3. ASSUME UNCHANGED unmarked, faults' \in {faults, faults + 1}
        PROVE  unmarked'[d] <= faults'
    BY <2>1, <2>3
  <2>4. Environment \/ UNCHANGED vars => UNCHANGED <<unmarked, faults>>
    BY DEF Environment, Advance, Submit, SetActive, vars, history
  <2>5. ASSUME NEW t \in Ticks, Tick(t) PROVE UNCHANGED <<unmarked, faults>>
    BY <2>5 DEF Tick, BeginTick, ListReminded, CreatePending, ListActive, DropSubmitted,
       ListPending, Send, Mark, EndTick, Return, history
  <2>6. ASSUME NEW t \in Ticks, Fault(t)
        PROVE  faults' = faults + 1 /\ (NoteUnmarked(t) \/ UNCHANGED unmarked)
    BY <2>6 DEF Fault, MarkFails, EnqueueFails, ListFails, Crash, Return, history
  <2> QED BY <2>2, <2>3, <2>4, <2>5, <2>6 DEF Next
<1> QED BY <1>1, <1>2, ReminderTypeCorrect, PTL DEF Spec

\* What the README says of duplicate sends is so while one process serves the
\* ticks and nothing has failed; ReminderDuplicate shows that one fault is enough
\* to break it.
THEOREM NoDuplicatesWithoutFaults ==
  Spec => [](OneProcess /\ faults = 0 => NoDuplicateSends)
<1>1. ASSUME TypeOK, Lost, ResentOnlyIfUnmarked, OneProcess, faults = 0,
             NEW d \in Deliveries
      PROVE  delivered[d] <= 1
  <2>1. delivered[d] \in Nat /\ unmarked[d] = 0
    BY <1>1 DEF TypeOK, Lost
  <2>2. Copies = {} \/ \E p : Copies = {p}
    BY <1>1 DEF OneProcess, Copies
  <2>3. Cardinality(Copies) \in 0..1
    <3>1. CASE Copies = {}
      <4>1. Cardinality(Copies) = 0
        BY <3>1, FS_EmptySet
      <4> QED BY <4>1
    <3>2. CASE \E p : Copies = {p}
      <4>1. Cardinality(Copies) = 1
        BY <3>2, FS_Singleton
      <4> QED BY <4>1
    <3> QED BY <2>2, <3>1, <3>2
  <2> QED BY <1>1, <2>1, <2>3 DEF ResentOnlyIfUnmarked
<1>2. TypeOK /\ Lost /\ MarksAreTrue => (OneProcess /\ faults = 0 => NoDuplicateSends)
  BY <1>1 DEF MarksAreTrue, NoDuplicateSends
<1> QED BY <1>2, ReminderTypeCorrect, LostAlways, MarksAlwaysTrue, PTL

\* Whoever had answered when the nags fell due is never nagged, with any
\* number of ticks and processes.
THEOREM EarlyRespondersAreLeftAlone == Spec => []EarlyRespondersNotNagged
<1>1. IInv => EarlyRespondersNotNagged
  <2> SUFFICES ASSUME IInv, NEW e \in early
               PROVE  rows[<<e, "nag">>] = "none" /\ delivered[<<e, "nag">>] = 0
    BY DEF EarlyRespondersNotNagged
  <2>1. <<e, "nag">> \in Deliveries
    BY DEF IInv, TypeOK, Deliveries, Kinds
  <2> QED
    BY <2>1 DEF IInv, Nags, Holding
<1> QED
  BY <1>1, ReminderInvariant, PTL

\* No tick opens a settled row again, with any number of processes; and with one
\* none writes over what an earlier mark has settled.
THEOREM SettledAlwaysStays == Spec => SettledStaysSettled
<1> DEFINE Stays == \A d \in Deliveries :
             Settled(d) => Settled(d)' /\ (OneProcess => rows'[d] = rows[d])
<1>1. IInv /\ [Next]_vars => [Stays]_vars
  <2> SUFFICES ASSUME IInv, Next, NEW d \in Deliveries, Settled(d)
               PROVE  Settled(d)' /\ (OneProcess => rows'[d] = rows[d])
    OBVIOUS
  <2>1. CASE UNCHANGED rows
    BY <2>1 DEF Settled
  <2>2. ASSUME NEW t \in Ticks, NEW x \in Deliveries, CreatePending(t, x)
        PROVE  Settled(d)' /\ rows'[d] = rows[d]
    BY <2>2 DEF CreatePending, Settled, Fresh, rowVars, IInv, TypeOK
  <2>3. ASSUME NEW t \in Ticks, Mark(t)
        PROVE  Settled(d)' /\ (OneProcess => rows'[d] = rows[d])
    <3>1. Settled(d)'
      BY <2>3 DEF Mark, Outcome, Settled
    <3>2. OneProcess => \A x \in sending[t] : rows[x] = "pending"
      BY DEF IInv, Alone
    <3> QED
      BY <2>3, <3>1, <3>2 DEF Mark, Settled
  <2>4. ASSUME NEW t \in Ticks, Tick(t) \/ Fault(t)
        PROVE  \/ \E x \in Deliveries : CreatePending(t, x)
               \/ Mark(t)
               \/ UNCHANGED rows
    BY <2>4 DEF Tick, Fault, BeginTick, ListReminded, ListActive, DropSubmitted,
       ListPending, Send, EndTick, MarkFails, EnqueueFails, ListFails, Crash, Return,
       rowVars
  <2>5. Environment => UNCHANGED rows
    BY DEF Environment, Advance, Submit, SetActive, rowVars
  <2> QED
    BY <2>1, <2>2, <2>3, <2>4, <2>5 DEF Next
<1>2. Spec => [][Stays]_vars
  BY <1>1, ReminderInvariant, PTL DEF Spec
<1> QED
  BY <1>2 DEF SettledStaysSettled
=============================================================================
