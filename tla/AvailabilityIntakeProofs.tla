---------------------- MODULE AvailabilityIntakeProofs ----------------------
(* What AvailabilityIntake promises holds for any accounts, employees,     *)
(* messages, concurrent taps, weeks and faults.                            *)
EXTENDS AvailabilityIntake, TLAPS

-----------------------------------------------------------------------------
(* The inductive invariant.                                                *)

Shown(d) == d \in Messages /\ msgPC[d] = "shown"

\* A message is taken for an employee its author is.
MessagesOK ==
  /\ \A m \in Messages : msgPC[m] # "unsent" =>
       employeeOf[m] \in Employees /\ AccountOf[employeeOf[m]] = AuthorOf[m]
  /\ \A d \in drafts \cup confirmed \cup saved \cup discarded : Shown(d)

\* A tap is about a draft that was shown; a row holds one that was confirmed.
TapsOK ==
  /\ \A h \in Handlers : pc[h] # "idle" => Shown(tapped[h])
  /\ \A h \in Handlers : pc[h] \in {"confirm", "written", "saved"} =>
       tapped[h] \in confirmed
  /\ \A k \in Employees \X Weeks : availability[k] # Nothing =>
       availability[k] \in confirmed /\ RowOf(availability[k]) = k

\* A tap that has written its row holds it; the other rows are as chosen.
Writing(h) == pc[h] \in {"written", "saved"}

RowsAsChosen(e) ==
  /\ \A h \in TapsOf(e) : Writing(h) => availability[RowOf(tapped[h])] = tapped[h]
  /\ \A w \in Weeks :
       (\A h \in TapsOf(e) : Writing(h) => RowOf(tapped[h]) # <<e, w>>) =>
         availability[<<e, w>>] = chosen[<<e, w>>]

\* As long as nothing disturbed an employee: one tap at a time, whose draft
\* has not been answered before, and no draft outlives its answer.
Calm(e) ==
  /\ \A h, i \in Handlers : h \in TapsOf(e) /\ i \in TapsOf(e) => h = i
  /\ \A h \in TapsOf(e) : tapped[h] \notin saved \cup discarded
  /\ \A h \in TapsOf(e) : pc[h] \in {"saved", "discarded"} => tapped[h] \notin drafts
  /\ \A d \in saved \cup discarded : employeeOf[d] = e => d \notin drafts
  /\ \A d \in discarded : employeeOf[d] = e => availability[RowOf(d)] # d
  /\ RowsAsChosen(e)

ChoicesOK ==
  /\ \A k \in Employees \X Weeks : chosen[k] # Nothing => chosen[k] \in saved
  /\ \A e \in Employees \ disturbed : Calm(e)

IInv == TypeOK /\ MessagesOK /\ TapsOK /\ ChoicesOK

-----------------------------------------------------------------------------
\* The invariant holds at the start.
THEOREM InitIInv == Init => IInv
<1> SUFFICES ASSUME Init PROVE IInv
  OBVIOUS
<1>1. TypeOK
  BY AvailabilityIntakeAssumption DEF Init, TypeOK, Weeks
<1>2. MessagesOK /\ TapsOK
  BY DEF Init, MessagesOK, TapsOK
<1>3. ChoicesOK
  BY DEF Init, ChoicesOK, Calm, RowsAsChosen, TapsOf
<1> QED
  BY <1>1, <1>2, <1>3 DEF IInv

\* The draft, the employee and the row a tap is about.
LEMMA TapIsShown ==
  ASSUME IInv, NEW h \in Handlers, pc[h] # "idle"
  PROVE  /\ Shown(tapped[h])
         /\ employeeOf[tapped[h]] \in Employees
         /\ RowOf(tapped[h]) \in Employees \X Weeks
BY DEF IInv, TypeOK, MessagesOK, TapsOK, Shown, RowOf

LEMMA RolloverKeeps ==
  ASSUME IInv, Rollover
  PROVE  IInv'
<1>1. TypeOK'
  BY AvailabilityIntakeAssumption DEF IInv, TypeOK, Weeks, Rollover, msgVars, history
<1>2. MessagesOK'
  BY DEF IInv, MessagesOK, Shown, Rollover, msgVars, history
<1>3. TapsOK'
  BY DEF IInv, TapsOK, Shown, RowOf, Rollover, msgVars, history
<1>4. ChoicesOK'
  BY DEF IInv, ChoicesOK, Calm, RowsAsChosen, Writing, TapsOf, RowOf, Rollover, msgVars,
     history
<1> QED
  BY <1>1, <1>2, <1>3, <1>4 DEF IInv

LEMMA SetActiveKeeps ==
  ASSUME IInv, NEW e \in Employees, SetActive(e)
  PROVE  IInv'
<1>1. TypeOK'
  BY DEF IInv, TypeOK, SetActive, msgVars, history
<1>2. MessagesOK'
  BY DEF IInv, MessagesOK, Shown, SetActive, msgVars, history
<1>3. TapsOK'
  BY DEF IInv, TapsOK, Shown, RowOf, SetActive, msgVars, history
<1>4. ChoicesOK'
  BY DEF IInv, ChoicesOK, Calm, RowsAsChosen, Writing, TapsOf, RowOf, SetActive, msgVars,
     history
<1> QED
  BY <1>1, <1>2, <1>3, <1>4 DEF IInv

LEMMA ReceiveKeeps ==
  ASSUME IInv, NEW m \in Messages, NEW e \in Employees, Receive(m, e)
  PROVE  IInv'
<1>1. TypeOK'
  BY DEF IInv, TypeOK, Receive, NextMonday, history
<1>2. MessagesOK'
  BY DEF IInv, TypeOK, MessagesOK, Shown, Receive, history
<1>3. TapsOK'
  BY DEF IInv, MessagesOK, TapsOK, Shown, RowOf, Receive, history
<1>4. ChoicesOK'
  BY DEF IInv, MessagesOK, TapsOK, ChoicesOK, Calm, RowsAsChosen, Writing, TapsOf, Shown,
     RowOf, Receive, history
<1> QED
  BY <1>1, <1>2, <1>3, <1>4 DEF IInv

LEMMA CreateDraftKeeps ==
  ASSUME IInv, NEW m \in Messages, CreateDraft(m)
  PROVE  IInv'
<1>1. TypeOK'
  BY DEF IInv, TypeOK, CreateDraft, history
<1>2. MessagesOK'
  BY DEF IInv, TypeOK, MessagesOK, Shown, CreateDraft, history
<1>3. TapsOK'
  BY DEF IInv, TapsOK, Shown, RowOf, CreateDraft, history
<1>4. ChoicesOK'
  BY DEF IInv, MessagesOK, TapsOK, ChoicesOK, Calm, RowsAsChosen, Writing, TapsOf, Shown,
     RowOf, CreateDraft, history
<1> QED
  BY <1>1, <1>2, <1>3, <1>4 DEF IInv

LEMMA RefuseMessageKeeps ==
  ASSUME IInv, NEW m \in Messages, RefuseMessage(m)
  PROVE  IInv'
<1>1. TypeOK'
  BY DEF IInv, TypeOK, RefuseMessage, history
<1>2. MessagesOK'
  BY DEF IInv, MessagesOK, Shown, RefuseMessage, history
<1>3. TapsOK'
  BY DEF IInv, TapsOK, Shown, RowOf, RefuseMessage, history
<1>4. ChoicesOK'
  BY DEF IInv, ChoicesOK, Calm, RowsAsChosen, Writing, TapsOf, RowOf, RefuseMessage, history
<1> QED
  BY <1>1, <1>2, <1>3, <1>4 DEF IInv

LEMMA ExpireKeeps ==
  ASSUME IInv, NEW m \in Messages, Expire(m)
  PROVE  IInv'
<1>1. TypeOK'
  BY DEF IInv, TypeOK, Expire, msgVars, history
<1>2. MessagesOK'
  BY DEF IInv, MessagesOK, Shown, Expire, msgVars, history
<1>3. TapsOK'
  BY DEF IInv, TapsOK, Shown, RowOf, Expire, msgVars, history
<1>4. ChoicesOK'
  BY DEF IInv, ChoicesOK, Calm, RowsAsChosen, Writing, TapsOf, RowOf, Expire, msgVars,
     history
<1> QED
  BY <1>1, <1>2, <1>3, <1>4 DEF IInv

LEMMA LoadExpiredKeeps ==
  ASSUME IInv, NEW m \in Messages, LoadExpired(m)
  PROVE  IInv'
<1>1. TypeOK'
  BY DEF IInv, TypeOK, LoadExpired, msgVars, history
<1>2. MessagesOK'
  BY DEF IInv, MessagesOK, Shown, LoadExpired, msgVars, history
<1>3. TapsOK'
  BY DEF IInv, TapsOK, Shown, RowOf, LoadExpired, msgVars, history
<1>4. ChoicesOK'
  BY DEF IInv, ChoicesOK, Calm, RowsAsChosen, Writing, TapsOf, RowOf, LoadExpired,
     msgVars, history
<1> QED
  BY <1>1, <1>2, <1>3, <1>4 DEF IInv

LEMMA LoadKeeps ==
  ASSUME IInv, NEW h \in Handlers, NEW account \in Accounts,
         NEW button \in {"confirm", "cancel"}, NEW d \in Messages, Load(h, account, button, d)
  PROVE  IInv'
<1>1. TypeOK'
  BY TapIsShown DEF MessagesOK, IInv, TypeOK, Load, msgVars
<1>2. MessagesOK'
  BY DEF IInv, MessagesOK, Shown, Load, msgVars
<1>3. TapsOK'
  BY DEF IInv, TypeOK, TapsOK, Shown, RowOf, Load, Owned, msgVars
<1>4. ChoicesOK'
  BY DEF IInv, TypeOK, ChoicesOK, Calm, RowsAsChosen, Writing, TapsOf, RowOf, Load, Owned,
     Live, msgVars
<1> QED
  BY <1>1, <1>2, <1>3, <1>4 DEF IInv

LEMMA ReplaceWeekKeeps ==
  ASSUME IInv, NEW h \in Handlers, ReplaceWeek(h)
  PROVE  IInv'
<1>1. TypeOK'
  BY DEF IInv, TypeOK, ReplaceWeek, msgVars, history
<1>2. MessagesOK'
  BY DEF IInv, MessagesOK, Shown, ReplaceWeek, msgVars, history
<1>3. TapsOK'
  BY DEF IInv, TapsOK, Shown, RowOf, ReplaceWeek, msgVars, history
<1>4. ChoicesOK'
  BY DEF IInv, TypeOK, TapsOK, ChoicesOK, Calm, RowsAsChosen, Writing, TapsOf, RowOf,
     ReplaceWeek, msgVars, history
<1> QED
  BY <1>1, <1>2, <1>3, <1>4 DEF IInv

LEMMA ReplaceFailsKeeps ==
  ASSUME IInv, NEW h \in Handlers, ReplaceFails(h)
  PROVE  IInv'
<1>1. TypeOK'
  BY DEF IInv, TypeOK, ReplaceFails, msgVars, history
<1>2. MessagesOK'
  BY DEF IInv, MessagesOK, Shown, ReplaceFails, msgVars, history
<1>3. TapsOK'
  BY DEF IInv, TypeOK, TapsOK, Shown, RowOf, ReplaceFails, msgVars, history
<1>4. ChoicesOK'
  BY AvailabilityIntakeAssumption DEF IInv, TypeOK, ChoicesOK, Calm, RowsAsChosen,
     Writing, TapsOf, RowOf, ReplaceFails, msgVars, history
<1> QED
  BY <1>1, <1>2, <1>3, <1>4 DEF IInv

LEMMA DeleteDraftKeeps ==
  ASSUME IInv, NEW h \in Handlers, DeleteDraft(h)
  PROVE  IInv'
<1>1. TypeOK'
  BY DEF IInv, TypeOK, DeleteDraft, Spent, AfterDelete, msgVars, history
<1>2. MessagesOK'
  BY DEF IInv, MessagesOK, Shown, DeleteDraft, Spent, AfterDelete, msgVars, history
<1>3. TapsOK'
  BY DEF IInv, TapsOK, Shown, RowOf, DeleteDraft, Spent, AfterDelete, msgVars, history
<1>4. ChoicesOK'
  BY DEF IInv, ChoicesOK, Calm, RowsAsChosen, Writing, TapsOf, RowOf, DeleteDraft, Spent,
     AfterDelete, msgVars, history
<1> QED
  BY <1>1, <1>2, <1>3, <1>4 DEF IInv

LEMMA DeleteFailsKeeps ==
  ASSUME IInv, NEW h \in Handlers, DeleteFails(h)
  PROVE  IInv'
<1>1. TypeOK'
  BY AvailabilityIntakeAssumption, TapIsShown DEF IInv, TypeOK, DeleteFails, AfterDelete,
     msgVars
<1>2. MessagesOK'
  BY DEF IInv, MessagesOK, Shown, DeleteFails, AfterDelete, msgVars
<1>3. TapsOK'
  BY DEF IInv, TapsOK, Shown, RowOf, DeleteFails, AfterDelete, msgVars
<1>4. ChoicesOK'
  BY DEF IInv, ChoicesOK, Calm, RowsAsChosen, Writing, TapsOf, RowOf, DeleteFails,
     AfterDelete, msgVars
<1> QED
  BY <1>1, <1>2, <1>3, <1>4 DEF IInv

LEMMA AnswerKeeps ==
  ASSUME IInv, NEW h \in Handlers, Answer(h)
  PROVE  IInv'
<1>1. TypeOK'
  BY TapIsShown DEF Shown, IInv, TypeOK, Answer, msgVars
<1>2. MessagesOK'
  BY DEF IInv, MessagesOK, TapsOK, Shown, Answer, msgVars
<1>3. TapsOK'
  BY DEF IInv, TypeOK, TapsOK, Shown, RowOf, Answer, msgVars
<1>4. ChoicesOK'
  <2>1. PICK d \in Messages : d = tapped[h]
    BY TapIsShown DEF Answer, Shown
  <2>2. PICK mine \in Employees : mine = employeeOf[d]
    BY <2>1, TapIsShown DEF Answer
  <2>3. RowOf(d) \in Employees \X Weeks /\ RowOf(d)[1] = mine
    BY <2>1, <2>2, TapIsShown DEF Answer, RowOf
  <2>4. /\ pc' = [pc EXCEPT ![h] = "idle"] /\ tapped' = [tapped EXCEPT ![h] = Nothing]
        /\ UNCHANGED <<employeeOf, weekOf, drafts, availability, disturbed>>
    BY DEF Answer, msgVars
  <2>5. \/ /\ pc[h] = "saved" /\ saved' = saved \cup {d} /\ discarded' = discarded
           /\ chosen' = IF d \in saved THEN chosen ELSE [chosen EXCEPT ![RowOf(d)] = d]
        \/ /\ pc[h] = "discarded" /\ discarded' = discarded \cup {d}
           /\ UNCHANGED <<saved, chosen>>
    BY <2>1 DEF Answer
  <2>6. \A e \in Employees : TapsOf(e)' = TapsOf(e) \ {h}
    BY <2>4 DEF TapsOf, IInv, TypeOK
  <2>7. \A i \in Handlers \ {h} : /\ pc'[i] = pc[i] /\ tapped'[i] = tapped[i]
                                  /\ Writing(i)' = Writing(i)
    BY <2>4 DEF Writing, IInv
  <2>8. \A x : RowOf(x)' = RowOf(x)
    BY <2>4 DEF RowOf
  <2>9. h \in TapsOf(mine)
    BY <2>1, <2>2, <2>5 DEF TapsOf
  <2>10. \A k \in Employees \X Weeks : chosen'[k] # Nothing => chosen'[k] \in saved'
    BY <2>3, <2>5 DEF IInv, TypeOK, ChoicesOK
  <2>11. ASSUME NEW e \in Employees \ disturbed, e # mine
        PROVE  Calm(e)'
    <3>1. h \notin TapsOf(e) /\ TapsOf(e)' = TapsOf(e) /\ TapsOf(e) \subseteq Handlers \ {h}
      BY <2>1, <2>2, <2>6, <2>11 DEF TapsOf
    <3>2. \A w \in Weeks : chosen'[<<e, w>>] = chosen[<<e, w>>]
      BY <2>3, <2>5, <2>11 DEF IInv, TypeOK
    <3>3. Calm(e)
      BY <2>11 DEF IInv, ChoicesOK
    <3>4. \A i \in TapsOf(e) : tapped[i] # d
      BY <2>2, <2>11 DEF TapsOf
    <3>5. RowsAsChosen(e)'
      BY <2>4, <2>7, <2>8, <3>1, <3>2, <3>3 DEF Calm, RowsAsChosen
    <3>6. /\ \A i \in TapsOf(e)' : tapped'[i] \notin saved' \cup discarded'
          /\ \A i \in TapsOf(e)' : pc'[i] \in {"saved", "discarded"} => tapped'[i] \notin drafts'
      BY <2>4, <2>5, <2>7, <3>1, <3>3, <3>4 DEF Calm
    <3>7. /\ \A x \in saved' \cup discarded' : employeeOf'[x] = e => x \notin drafts'
          /\ \A x \in discarded' : employeeOf'[x] = e => availability'[RowOf(x)'] # x
      BY <2>2, <2>4, <2>5, <2>8, <2>11, <3>3 DEF Calm
    <3> QED
      BY <3>1, <3>3, <3>5, <3>6, <3>7 DEF Calm
  <2>12. ASSUME mine \notin disturbed
         PROVE  Calm(mine)'
    <3>1. Calm(mine) /\ TapsOf(mine) = {h} /\ TapsOf(mine)' = {}
      BY <2>6, <2>9, <2>12 DEF IInv, ChoicesOK, Calm, TapsOf
    <3>2. d \notin saved \cup discarded /\ d \notin drafts
      BY <2>1, <2>5, <3>1 DEF Calm
    <3>3. \A w \in Weeks : availability[<<mine, w>>] = chosen'[<<mine, w>>]
      <4>1. CASE pc[h] = "saved"
        <5>1. availability[RowOf(d)] = d /\ chosen' = [chosen EXCEPT ![RowOf(d)] = d]
          BY <2>1, <2>5, <3>1, <3>2, <4>1 DEF Calm, RowsAsChosen, Writing
        <5>2. \A w \in Weeks : RowOf(d) # <<mine, w>> =>
                                 availability[<<mine, w>>] = chosen[<<mine, w>>]
          BY <2>1, <3>1 DEF Calm, RowsAsChosen
        <5> QED
          BY <2>3, <5>1, <5>2 DEF IInv, TypeOK
      <4>2. CASE pc[h] = "discarded"
        BY <2>5, <3>1, <4>2 DEF Calm, RowsAsChosen, Writing
      <4> QED
        BY <2>5, <4>1, <4>2
    <3>4. RowsAsChosen(mine)'
      BY <2>4, <3>1, <3>3 DEF RowsAsChosen
    <3>5. \A x \in saved' \cup discarded' : employeeOf[x] = mine => x \notin drafts
      BY <2>5, <3>1, <3>2 DEF Calm
    <3>6. ASSUME NEW x \in discarded', employeeOf[x] = mine
          PROVE  availability[RowOf(x)] # x
      <4>1. CASE x \in discarded
        BY <3>1, <3>6, <4>1 DEF Calm
      <4>2. CASE x = d /\ pc[h] = "discarded"
        <5>1. PICK w \in Weeks : RowOf(d) = <<mine, w>>
          BY <2>2, <2>3
        <5>2. availability[RowOf(d)] = chosen[RowOf(d)]
          BY <2>5, <3>3, <4>2, <5>1
        <5>3. d # Nothing
          BY <2>3, AvailabilityIntakeAssumption
        <5> QED
          BY <2>3, <3>2, <4>2, <5>2, <5>3 DEF IInv, ChoicesOK
      <4> QED
        BY <2>5, <3>6, <4>1, <4>2
    <3> QED
      BY <2>4, <2>8, <3>1, <3>4, <3>5, <3>6 DEF Calm
  <2> QED
    BY <2>4, <2>10, <2>11, <2>12 DEF ChoicesOK
<1> QED
  BY <1>1, <1>2, <1>3, <1>4 DEF IInv

LEMMA CutOffKeeps ==
  ASSUME IInv, NEW h \in Handlers, CutOff(h)
  PROVE  IInv'
<1>1. TypeOK'
  BY AvailabilityIntakeAssumption, TapIsShown DEF IInv, TypeOK, CutOff, msgVars
<1>2. MessagesOK'
  BY DEF IInv, MessagesOK, Shown, CutOff, msgVars
<1>3. TapsOK'
  BY DEF IInv, TypeOK, TapsOK, Shown, RowOf, CutOff, msgVars
<1>4. ChoicesOK'
  BY DEF IInv, TypeOK, ChoicesOK, Calm, RowsAsChosen, Writing, TapsOf, RowOf, CutOff,
     msgVars
<1> QED
  BY <1>1, <1>2, <1>3, <1>4 DEF IInv

\* No message, tap, fault or passing of time disturbs it.
THEOREM NextIInv == IInv /\ [Next]_vars => IInv'
<1> SUFFICES ASSUME IInv, [Next]_vars PROVE IInv'
  OBVIOUS
<1>1. CASE Rollover \/ \E e \in Employees : SetActive(e)
  BY <1>1, RolloverKeeps, SetActiveKeeps
<1>2. ASSUME NEW m \in Messages, Message(m) PROVE IInv'
  BY <1>2, ReceiveKeeps, CreateDraftKeeps, RefuseMessageKeeps, ExpireKeeps,
     LoadExpiredKeeps DEF Message
<1>3. ASSUME NEW h \in Handlers, Tap(h) PROVE IInv'
  BY <1>3, LoadKeeps, ReplaceWeekKeeps, ReplaceFailsKeeps, DeleteDraftKeeps,
     DeleteFailsKeeps, AnswerKeeps, CutOffKeeps DEF Tap
<1>4. CASE UNCHANGED vars
  <2>1. TypeOK' /\ MessagesOK' /\ TapsOK'
    BY <1>4 DEF vars, msgVars, history, IInv, TypeOK, MessagesOK, TapsOK, Shown, RowOf
  <2>2. ChoicesOK'
    BY <1>4 DEF vars, msgVars, history, IInv, ChoicesOK, Calm, RowsAsChosen, Writing,
       TapsOf, RowOf
  <2> QED
    BY <2>1, <2>2 DEF IInv
<1> QED
  BY <1>1, <1>2, <1>3, <1>4 DEF Next

\* The invariant holds in every reachable state.
THEOREM IntakeInvariant == Spec => []IInv
BY InitIInv, NextIInv, PTL DEF Spec

-----------------------------------------------------------------------------
(* What follows.                                                           *)

\* Tables, handlers and histories stay well typed.
THEOREM IntakeTypeCorrect == Spec => []TypeOK
<1>1. IInv => TypeOK
  BY DEF IInv
<1> QED
  BY <1>1, IntakeInvariant, PTL

\* A row only ever holds what its own employee's account wrote for it and
\* confirmed while the draft was live, whatever overlaps, expires or fails.
THEOREM AlwaysSavedByItsAuthor == Spec => []SavedByItsAuthor
<1>1. IInv => SavedByItsAuthor
  <2> SUFFICES ASSUME IInv, NEW k \in Employees \X Weeks, availability[k] # Nothing
               PROVE  LET d == availability[k]
                      IN  d \in confirmed /\ RowOf(d) = k /\ AuthorOf[d] = AccountOf[k[1]]
    BY DEF SavedByItsAuthor
  <2>1. availability[k] \in confirmed /\ RowOf(availability[k]) = k
    BY DEF IInv, TapsOK
  <2>2. employeeOf[availability[k]] = k[1] /\ Shown(availability[k])
    BY <2>1 DEF RowOf, IInv, MessagesOK
  <2> QED
    BY <2>1, <2>2 DEF IInv, MessagesOK, Shown
<1> QED
  BY <1>1, IntakeInvariant, PTL

\* Unless an employee's taps overlap or meet a fault, every row holds the draft
\* last answered saved, and none that was answered discarded.
THEOREM ChoicesAlwaysStand == Spec => []ChoicesStand
<1>1. IInv => LatestChoiceStands
  <2> SUFFICES ASSUME IInv, NEW e \in Employees \ disturbed, NEW w \in Weeks, TapsOf(e) = {}
               PROVE  availability[<<e, w>>] = chosen[<<e, w>>]
    BY DEF LatestChoiceStands
  <2> QED
    BY DEF IInv, ChoicesOK, Calm, RowsAsChosen
<1>2. IInv => UndisturbedDiscardHolds
  <2> SUFFICES ASSUME IInv, NEW d \in discarded, employeeOf[d] \notin disturbed
               PROVE  availability[RowOf(d)] # d
    BY DEF UndisturbedDiscardHolds
  <2>1. employeeOf[d] \in Employees
    BY DEF IInv, MessagesOK, Shown
  <2> QED
    BY <2>1 DEF IInv, ChoicesOK, Calm
<1> QED
  BY <1>1, <1>2, IntakeInvariant, PTL DEF ChoicesStand
=============================================================================
