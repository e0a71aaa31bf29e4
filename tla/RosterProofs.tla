---------------------------- MODULE RosterProofs ----------------------------
(* Roster is correct for any number of shops, accounts, /starts and panel  *)
(* requests.                                                               *)
EXTENDS Roster, TLAPS

-----------------------------------------------------------------------------
(* The inductive invariant: what a handler read still holds of its row.    *)

\* A join holds a row of its own shop and account, active when it was read.
JoinsHoldTheirRow ==
  \A s \in Starts : join[s] # Idle /\ join[s].found # NoRow =>
    /\ join[s].found \in RowsAt(KeyOf(s))
    /\ TRUE \in during[s]

\* A panel request holds a row of its session's shop.
EditsHoldTheirRow ==
  \A q \in Requests : edit[q] # Idle =>
    /\ edit[q].row \in Rows
    /\ CodeOf[edit[q].row] = OwnerOf[q]

IInv == TypeOK /\ JoinsHoldTheirRow /\ EditsHoldTheirRow /\ WelcomesAreTrue

-----------------------------------------------------------------------------
\* What a row is: its place is a /start, its value an employee.
LEMMA RowIsEmployee ==
  ASSUME TypeOK, NEW r \in Rows
  PROVE  r \in Starts /\ employee[r] \in Employee /\ employee[r].active \in BOOLEAN
BY RosterNulls DEF TypeOK, Rows, Employee

\* What is held is of its kind.
LEMMA HeldIsTyped ==
  ASSUME TypeOK
  PROVE  /\ \A s \in Starts : join[s] # Idle =>
              join[s] \in [name : Names, found : Starts \cup {NoRow}]
         /\ \A q \in Requests : edit[q] # Idle => edit[q] \in Profiles \cup Switches
         /\ Idle \notin Profiles /\ Idle \notin Switches
BY RosterNulls DEF TypeOK

\* A step that writes rows which are there, or none, keeps them, their number
\* and everything that is held of them.
LEMMA RowsKept ==
  ASSUME IInv,
         employee' \in [Starts -> Employee \cup {NoRow}],
         \A r \in Starts : employee'[r] = NoRow <=> employee[r] = NoRow
  PROVE  /\ Rows' = Rows
         /\ \A k : RowsAt(k)' = RowsAt(k)
BY DEF Rows, RowsAt, KeyOf

\* The invariant holds at the start.
THEOREM InitIInv == Init => IInv
<1> SUFFICES ASSUME Init PROVE IInv
  OBVIOUS
<1>1. TypeOK
  BY RosterNulls DEF Init, TypeOK, Rows
<1>2. JoinsHoldTheirRow /\ EditsHoldTheirRow /\ WelcomesAreTrue
  BY DEF Init, JoinsHoldTheirRow, EditsHoldTheirRow, WelcomesAreTrue
<1> QED
  BY <1>1, <1>2 DEF IInv

-----------------------------------------------------------------------------
LEMMA LookUpKeeps ==
  ASSUME IInv, NEW s \in Starts, LookUp(s)
  PROVE  IInv'
<1> USE DEF IInv
<1>1. PICK n \in Names, found \in Starts \cup {NoRow} :
        /\ join[s] = Idle
        /\ IF RowsAt(KeyOf(s)) = {} THEN found = NoRow ELSE found \in RowsAt(KeyOf(s))
        /\ IF found = NoRow \/ MayJoin(found)
           THEN /\ join' = [join EXCEPT ![s] = [name |-> n, found |-> found]]
                /\ told' = [told EXCEPT ![s] = "nothing"]
           ELSE Answer(s, "suspended")
        /\ during' = [during EXCEPT ![s] =
                       IF found = NoRow THEN {} ELSE {employee[found].active}]
        /\ UNCHANGED <<employee, edit>>
  BY DEF LookUp
<1>2. Rows' = Rows /\ \A k : RowsAt(k)' = RowsAt(k)
  BY <1>1 DEF Rows, RowsAt, KeyOf
<1>3. found # NoRow => found \in RowsAt(KeyOf(s)) /\ found \in Rows
  BY <1>1 DEF RowsAt
<1>4. found # NoRow => employee[found].active \in BOOLEAN
  BY <1>3, RowIsEmployee
<1>5. /\ during' \in [Starts -> SUBSET BOOLEAN]
      /\ \A t \in Starts \ {s} : during'[t] = during[t]
      /\ found # NoRow => during'[s] = {employee[found].active}
  BY <1>1, <1>4 DEF TypeOK
<1>6. CASE found = NoRow \/ MayJoin(found)
  <2>1. /\ join' = [join EXCEPT ![s] = [name |-> n, found |-> found]]
        /\ told' = [told EXCEPT ![s] = "nothing"]
    BY <1>1, <1>6
  <2>2. found # NoRow => TRUE \in during'[s]
    BY <1>4, <1>5, <1>6 DEF MayJoin
  <2>3. TypeOK'
    BY <1>1, <1>2, <1>5, <2>1 DEF TypeOK, KeyOf
  <2>4. JoinsHoldTheirRow'
    BY <1>2, <1>3, <1>5, <2>1, <2>2, HeldIsTyped DEF JoinsHoldTheirRow, KeyOf, TypeOK
  <2>5. EditsHoldTheirRow'
    BY <1>1, <1>2 DEF EditsHoldTheirRow
  <2>6. WelcomesAreTrue'
    BY <1>2, <1>5, <2>1 DEF WelcomesAreTrue, KeyOf, TypeOK
  <2> QED
    BY <2>3, <2>4, <2>5, <2>6
<1>7. CASE ~(found = NoRow \/ MayJoin(found))
  <2>1. /\ join' = [join EXCEPT ![s] = Idle]
        /\ told' = [told EXCEPT ![s] = "suspended"]
    BY <1>1, <1>7 DEF Answer
  <2>2. FALSE \in during'[s]
    BY <1>4, <1>5, <1>7 DEF MayJoin
  <2>3. TypeOK'
    BY <1>1, <1>2, <1>5, <2>1 DEF TypeOK, KeyOf
  <2>4. JoinsHoldTheirRow'
    BY <1>2, <1>5, <2>1 DEF JoinsHoldTheirRow, KeyOf, TypeOK
  <2>5. EditsHoldTheirRow'
    BY <1>1, <1>2 DEF EditsHoldTheirRow
  <2>6. WelcomesAreTrue'
    BY <1>2, <1>3, <1>5, <1>7, <2>1, <2>2 DEF WelcomesAreTrue, KeyOf, TypeOK
  <2> QED
    BY <2>3, <2>4, <2>5, <2>6
<1> QED
  BY <1>6, <1>7

LEMMA RenameKeeps ==
  ASSUME IInv, NEW s \in Starts, Rename(s)
  PROVE  IInv'
<1> USE DEF IInv
<1> DEFINE r == join[s].found
<1>1. /\ join[s] # Idle /\ r # NoRow
      /\ employee' = [employee EXCEPT ![r] = Renamed(s)]
      /\ join' = [join EXCEPT ![s] = Idle]
      /\ told' = [told EXCEPT ![s] = "welcome"] \/ told' = told
      /\ UNCHANGED <<edit, during>>
  BY DEF Rename, Answer
<1>2. r \in RowsAt(KeyOf(s)) /\ r \in Rows /\ TRUE \in during[s]
  BY <1>1 DEF JoinsHoldTheirRow, RowsAt
<1>3. Renamed(s) \in Employee
  BY <1>1, <1>2, RowIsEmployee, HeldIsTyped DEF Renamed, Employee
<1>4. employee' \in [Starts -> Employee \cup {NoRow}]
  BY <1>1, <1>3 DEF TypeOK
<1>5. Rows' = Rows /\ \A k : RowsAt(k)' = RowsAt(k)
  <2>1. \A t \in Starts : employee'[t] = NoRow <=> employee[t] = NoRow
    BY <1>1, <1>2, <1>3, RosterNulls DEF TypeOK, Rows
  <2> QED
    BY <1>4, <2>1, RowsKept
<1>6. TypeOK'
  BY <1>1, <1>4, <1>5 DEF TypeOK, KeyOf
<1>7. JoinsHoldTheirRow'
  BY <1>1, <1>5 DEF JoinsHoldTheirRow, KeyOf, TypeOK
<1>8. EditsHoldTheirRow'
  BY <1>1, <1>5 DEF EditsHoldTheirRow
<1>9. WelcomesAreTrue'
  BY <1>1, <1>2, <1>5 DEF WelcomesAreTrue, KeyOf, TypeOK
<1> QED
  BY <1>6, <1>7, <1>8, <1>9

LEMMA InsertKeeps ==
  ASSUME IInv, NEW s \in Starts, Insert(s)
  PROVE  IInv'
<1> USE DEF IInv
<1> DEFINE new == [name |-> join[s].name, role |-> NoRole, active |-> TRUE]
<1>1. /\ join[s] # Idle /\ join[s].found = NoRow
      /\ RowsAt(KeyOf(s)) = {}
      /\ employee' = [employee EXCEPT ![s] = new]
      /\ during' = [t \in Starts |->
                     IF KeyOf(t) = KeyOf(s) /\ join[t] # Idle
                     THEN during[t] \cup {TRUE} ELSE during[t]]
      /\ join' = [join EXCEPT ![s] = Idle]
      /\ told' = [told EXCEPT ![s] = "welcome"] \/ told' = told
      /\ UNCHANGED edit
  BY DEF Insert, Answer, KeyFree
<1>2. new \in Employee /\ new # NoRow
  <2>1. join[s].name \in Names
    BY <1>1, HeldIsTyped
  <2>2. new \in Employee
    BY <2>1 DEF Employee
  <2> HIDE DEF new
  <2> QED
    BY <2>2, RosterNulls
<1>3. employee' \in [Starts -> Employee \cup {NoRow}]
  BY <1>1, <1>2 DEF TypeOK
<1>4. Rows' = Rows \cup {s}
  BY <1>1, <1>2 DEF Rows, TypeOK
<1>5. \A r \in Rows : KeyOf(r) # KeyOf(s)
  BY <1>1 DEF RowsAt
<1>6. \A k : RowsAt(k) \subseteq RowsAt(k)'
  BY <1>4 DEF RowsAt, KeyOf
<1>7. s \in RowsAt(KeyOf(s))'
  BY <1>4 DEF RowsAt, KeyOf
<1>8. /\ during' \in [Starts -> SUBSET BOOLEAN]
      /\ \A t \in Starts : during[t] \subseteq during'[t]
      /\ TRUE \in during'[s]
  BY <1>1 DEF TypeOK
<1>9. TypeOK'
  <2>1. \A r, t \in Rows' : KeyOf(r) = KeyOf(t) => r = t
    BY <1>4, <1>5 DEF TypeOK
  <2> QED
    BY <1>1, <1>3, <1>8, <2>1 DEF TypeOK, KeyOf
<1>10. JoinsHoldTheirRow'
  BY <1>1, <1>6, <1>8 DEF JoinsHoldTheirRow, KeyOf, TypeOK
<1>11. EditsHoldTheirRow'
  BY <1>1, <1>4 DEF EditsHoldTheirRow
<1>12. WelcomesAreTrue'
  <2> SUFFICES ASSUME NEW t \in Starts
               PROVE  /\ told'[t] = "welcome" => RowsAt(KeyOf(t))' # {} /\ TRUE \in during'[t]
                      /\ told'[t] = "suspended" => RowsAt(KeyOf(t))' # {} /\ FALSE \in during'[t]
    BY DEF WelcomesAreTrue, KeyOf
  <2>1. CASE told'[t] = told[t]
    <3>1. /\ told[t] = "welcome" => RowsAt(KeyOf(t)) # {} /\ TRUE \in during[t]
          /\ told[t] = "suspended" => RowsAt(KeyOf(t)) # {} /\ FALSE \in during[t]
      BY DEF WelcomesAreTrue
    <3>2. RowsAt(KeyOf(t)) \subseteq RowsAt(KeyOf(t))'
      BY <1>6
    <3>3. during[t] \subseteq during'[t]
      BY <1>8
    <3> QED
      BY <2>1, <3>1, <3>2, <3>3
  <2>2. CASE t = s /\ told'[t] = "welcome"
    BY <1>7, <1>8, <2>2
  <2>3. told'[t] = told[t] \/ (t = s /\ told'[t] = "welcome")
    BY <1>1 DEF TypeOK
  <2> QED
    BY <2>1, <2>2, <2>3
<1> QED
  BY <1>9, <1>10, <1>11, <1>12

LEMMA FailJoinKeeps ==
  ASSUME IInv, NEW s \in Starts, FailJoin(s)
  PROVE  IInv'
<1> USE DEF IInv
<1>1. /\ join' = [join EXCEPT ![s] = Idle]
      /\ UNCHANGED <<employee, edit, told, during>>
  BY DEF FailJoin
<1>2. Rows' = Rows /\ \A k : RowsAt(k)' = RowsAt(k)
  BY <1>1 DEF Rows, RowsAt, KeyOf
<1>3. TypeOK' /\ JoinsHoldTheirRow'
  BY <1>1, <1>2 DEF TypeOK, JoinsHoldTheirRow, KeyOf
<1>4. EditsHoldTheirRow' /\ WelcomesAreTrue'
  BY <1>1, <1>2 DEF EditsHoldTheirRow, WelcomesAreTrue, KeyOf
<1> QED
  BY <1>3, <1>4

-----------------------------------------------------------------------------
LEMMA FindKeeps ==
  ASSUME IInv, NEW q \in Requests, Find(q)
  PROVE  IInv'
<1> USE DEF IInv
<1>1. PICK w \in Profiles \cup Switches :
        /\ w.row \in Rows /\ CodeOf[w.row] = OwnerOf[q]
        /\ edit' = [edit EXCEPT ![q] = w]
        /\ UNCHANGED <<employee, join, told, during>>
  BY DEF Find, InOwnShop
<1>2. Rows' = Rows /\ \A k : RowsAt(k)' = RowsAt(k)
  BY <1>1 DEF Rows, RowsAt, KeyOf
<1>3. TypeOK' /\ EditsHoldTheirRow'
  BY <1>1, <1>2 DEF TypeOK, EditsHoldTheirRow, KeyOf
<1>4. JoinsHoldTheirRow' /\ WelcomesAreTrue'
  BY <1>1, <1>2 DEF JoinsHoldTheirRow, WelcomesAreTrue, KeyOf
<1> QED
  BY <1>3, <1>4

\* What both writes of the panel do to everything but the row's fields.
LEMMA PanelWriteKeeps ==
  ASSUME IInv, NEW q \in Requests, edit[q] # Idle,
         NEW e \in Employee,
         employee' = [employee EXCEPT ![edit[q].row] = e],
         edit' = [edit EXCEPT ![q] = Idle],
         UNCHANGED <<join, told>>,
         during' \in [Starts -> SUBSET BOOLEAN],
         \A s \in Starts : during[s] \subseteq during'[s]
  PROVE  IInv'
<1> USE DEF IInv
<1>1. edit[q].row \in Rows
  BY DEF EditsHoldTheirRow
<1>2. employee' \in [Starts -> Employee \cup {NoRow}]
  BY DEF TypeOK
<1>3. Rows' = Rows /\ \A k : RowsAt(k)' = RowsAt(k)
  <2>1. \A t \in Starts : employee'[t] = NoRow <=> employee[t] = NoRow
    BY <1>1, RosterNulls DEF TypeOK, Rows
  <2> QED
    BY <1>2, <2>1, RowsKept
<1>4. TypeOK'
  BY <1>2, <1>3 DEF TypeOK, KeyOf
<1>5. JoinsHoldTheirRow'
  BY <1>3 DEF JoinsHoldTheirRow, KeyOf
<1>6. EditsHoldTheirRow'
  BY <1>3 DEF EditsHoldTheirRow, TypeOK
<1>7. WelcomesAreTrue'
  BY <1>3 DEF WelcomesAreTrue, KeyOf
<1> QED
  BY <1>4, <1>5, <1>6, <1>7

LEMMA WriteProfileKeeps ==
  ASSUME IInv, NEW q \in Requests, WriteProfile(q)
  PROVE  IInv'
<1> USE DEF IInv
<1> DEFINE r == edit[q].row
           e == [employee[r] EXCEPT !.name = edit[q].name, !.role = edit[q].role]
<1>1. edit[q] \in Profiles /\ edit[q] # Idle
  BY HeldIsTyped DEF WriteProfile
<1>2. r \in Rows
  BY <1>1 DEF EditsHoldTheirRow
<1>3. e \in Employee
  BY <1>1, <1>2, RowIsEmployee DEF Profiles, Employee
<1>4. /\ employee' = [employee EXCEPT ![r] = e]
      /\ edit' = [edit EXCEPT ![q] = Idle]
      /\ UNCHANGED <<join, told, during>>
  BY <1>2 DEF WriteProfile, TypeOK, Rows
<1> QED
  BY <1>1, <1>3, <1>4, PanelWriteKeeps DEF TypeOK

LEMMA WriteActiveKeeps ==
  ASSUME IInv, NEW q \in Requests, WriteActive(q)
  PROVE  IInv'
<1> USE DEF IInv
<1> DEFINE r == edit[q].row
           e == [employee[r] EXCEPT !.active = edit[q].active]
<1>1. edit[q] \in Switches /\ edit[q] # Idle /\ edit[q].active \in BOOLEAN
  BY HeldIsTyped DEF WriteActive, Switches
<1>2. r \in Rows
  BY <1>1 DEF EditsHoldTheirRow
<1>3. e \in Employee
  BY <1>1, <1>2, RowIsEmployee DEF Employee
<1>4. /\ employee' = [employee EXCEPT ![r] = e]
      /\ edit' = [edit EXCEPT ![q] = Idle]
      /\ UNCHANGED <<join, told>>
  BY DEF WriteActive
<1>5. /\ during' \in [Starts -> SUBSET BOOLEAN]
      /\ \A s \in Starts : during[s] \subseteq during'[s]
  BY <1>1 DEF WriteActive, TypeOK
<1> QED
  BY <1>1, <1>3, <1>4, <1>5, PanelWriteKeeps

LEMMA FailEditKeeps ==
  ASSUME IInv, NEW q \in Requests, FailEdit(q)
  PROVE  IInv'
<1> USE DEF IInv
<1>1. /\ edit' = [edit EXCEPT ![q] = Idle]
      /\ UNCHANGED <<employee, join, told, during>>
  BY DEF FailEdit
<1>2. Rows' = Rows /\ \A k : RowsAt(k)' = RowsAt(k)
  BY <1>1 DEF Rows, RowsAt, KeyOf
<1>3. TypeOK' /\ EditsHoldTheirRow'
  BY <1>1, <1>2 DEF TypeOK, EditsHoldTheirRow, KeyOf
<1>4. JoinsHoldTheirRow' /\ WelcomesAreTrue'
  BY <1>1, <1>2 DEF JoinsHoldTheirRow, WelcomesAreTrue, KeyOf
<1> QED
  BY <1>3, <1>4

-----------------------------------------------------------------------------
\* No request and no person's message disturbs it.
THEOREM NextIInv == IInv /\ [Next]_vars => IInv'
<1> SUFFICES ASSUME IInv, [Next]_vars PROVE IInv'
  OBVIOUS
<1>1. CASE UNCHANGED vars
  <2>1. UNCHANGED <<employee, join, edit, told, during>>
    BY <1>1 DEF vars
  <2>2. Rows' = Rows /\ \A k : RowsAt(k)' = RowsAt(k)
    BY <2>1 DEF Rows, RowsAt, KeyOf
  <2>3. TypeOK' /\ EditsHoldTheirRow'
    BY <2>1, <2>2 DEF IInv, TypeOK, EditsHoldTheirRow, KeyOf
  <2>4. JoinsHoldTheirRow' /\ WelcomesAreTrue'
    BY <2>1, <2>2 DEF IInv, JoinsHoldTheirRow, WelcomesAreTrue, KeyOf
  <2> QED
    BY <2>3, <2>4 DEF IInv
<1>2. ASSUME NEW s \in Starts, Join(s) PROVE IInv'
  BY <1>2, LookUpKeeps, RenameKeeps, InsertKeeps, FailJoinKeeps DEF Join
<1>3. ASSUME NEW q \in Requests, Edit(q) PROVE IInv'
  BY <1>3, FindKeeps, WriteProfileKeeps, WriteActiveKeeps, FailEditKeeps DEF Edit
<1> QED
  BY <1>1, <1>2, <1>3 DEF Next

\* The invariant holds in every reachable state.
THEOREM RosterInvariant == Spec => []IInv
BY InitIInv, NextIInv, PTL DEF Spec

\* A person has one row in a shop, whatever overlaps, and all is well typed.
THEOREM RosterTypeCorrect == Spec => []TypeOK
BY RosterInvariant, PTL DEF IInv

\* Welcomes and refusals were true at some moment while they were prepared.
THEOREM WelcomesAlwaysTrue == Spec => []WelcomesAreTrue
BY RosterInvariant, PTL DEF IInv

-----------------------------------------------------------------------------
(* Every change of a row has its author.                                   *)

LEMMA UntouchedIsAuthored ==
  ASSUME NEW r \in Rows, employee'[r] = employee[r]
  PROVE  Authored(r)
BY DEF Authored, Rows

LEMMA RenameIsAuthored ==
  ASSUME IInv, NEW r \in Rows, NEW s \in Starts, Rename(s)
  PROVE  Authored(r)
<1> DEFINE f == join[s].found
<1>1. /\ join[s] # Idle /\ f # NoRow
      /\ employee' = [employee EXCEPT ![f] = Renamed(s)]
  BY DEF Rename
<1>2. f \in Rows /\ KeyOf(f) = KeyOf(s)
  BY <1>1 DEF IInv, JoinsHoldTheirRow, RowsAt
<1>3. employee[f] \in Employee
  BY <1>2, RowIsEmployee DEF IInv
<1>4. CASE r = f
  <2>1. employee'[r] = [employee[r] EXCEPT !.name = join[s].name]
    BY <1>1, <1>2, <1>4 DEF IInv, TypeOK, Rows, Renamed
  <2>2. /\ employee'[r].active = employee[r].active
        /\ employee'[r].role = employee[r].role
        /\ employee'[r].name = join[s].name
    BY <1>3, <1>4, <2>1 DEF Employee
  <2>3. employee'[r] # NoRow
    <3>1. join[s].name \in Names
      BY <1>1, HeldIsTyped DEF IInv
    <3>2. employee'[r] \in Employee
      BY <1>3, <1>4, <2>1, <3>1 DEF Employee
    <3> QED
      BY <3>2, RosterNulls
  <2> QED
    BY <1>1, <1>2, <1>4, <2>2, <2>3 DEF Authored, Named
<1>5. CASE r # f
  <2>1. employee'[r] = employee[r]
    BY <1>1, <1>5 DEF IInv, TypeOK, Rows
  <2> QED
    BY <2>1, UntouchedIsAuthored
<1> QED
  BY <1>4, <1>5

LEMMA WriteProfileIsAuthored ==
  ASSUME IInv, NEW r \in Rows, NEW q \in Requests, WriteProfile(q)
  PROVE  Authored(r)
<1> DEFINE w == edit[q]
<1>1. w \in Profiles /\ w # Idle
  BY HeldIsTyped DEF IInv, WriteProfile
<1>2. w.row \in Rows /\ CodeOf[w.row] = OwnerOf[q]
  BY <1>1 DEF IInv, EditsHoldTheirRow
<1>3. employee[w.row] \in Employee
  BY <1>2, RowIsEmployee DEF IInv
<1>4. employee' = [employee EXCEPT ![w.row] =
                    [employee[w.row] EXCEPT !.name = w.name, !.role = w.role]]
  BY <1>2 DEF WriteProfile, IInv, TypeOK, Rows
<1>5. CASE r = w.row
  <2>1. employee'[r] = [employee[r] EXCEPT !.name = w.name, !.role = w.role]
    BY <1>2, <1>4, <1>5 DEF IInv, TypeOK, Rows
  <2>2. /\ employee'[r] \in Employee
        /\ employee'[r].active = employee[r].active
        /\ employee'[r].role = w.role
        /\ employee'[r].name = w.name
    BY <1>1, <1>3, <1>5, <2>1 DEF Employee, Profiles
  <2>3. Asked(r, [row |-> r, name |-> employee'[r].name, role |-> employee'[r].role])
    <3>1. w = [row |-> r, name |-> employee'[r].name, role |-> employee'[r].role]
      BY <1>1, <1>5, <2>2 DEF Profiles
    <3> QED
      BY <1>2, <1>5, <3>1 DEF Asked
  <2> QED
    BY <2>2, <2>3, RosterNulls DEF Authored
<1>6. CASE r # w.row
  <2>1. employee'[r] = employee[r]
    BY <1>4, <1>6 DEF IInv, TypeOK, Rows
  <2> QED
    BY <2>1, UntouchedIsAuthored
<1> QED
  BY <1>5, <1>6

LEMMA WriteActiveIsAuthored ==
  ASSUME IInv, NEW r \in Rows, NEW q \in Requests, WriteActive(q)
  PROVE  Authored(r)
<1> DEFINE w == edit[q]
<1>1. w \in Switches /\ w # Idle
  BY HeldIsTyped DEF IInv, WriteActive
<1>2. w.row \in Rows /\ CodeOf[w.row] = OwnerOf[q]
  BY <1>1 DEF IInv, EditsHoldTheirRow
<1>3. employee[w.row] \in Employee
  BY <1>2, RowIsEmployee DEF IInv
<1>4. employee' = [employee EXCEPT ![w.row] = [employee[w.row] EXCEPT !.active = w.active]]
  BY DEF WriteActive
<1>5. CASE r = w.row
  <2>1. employee'[r] = [employee[r] EXCEPT !.active = w.active]
    BY <1>2, <1>4, <1>5 DEF IInv, TypeOK, Rows
  <2>2. /\ employee'[r] \in Employee
        /\ employee'[r].active = w.active
        /\ employee'[r].role = employee[r].role
        /\ employee'[r].name = employee[r].name
    BY <1>1, <1>3, <1>5, <2>1 DEF Employee, Switches
  <2>3. Asked(r, [row |-> r, active |-> employee'[r].active])
    <3>1. w = [row |-> r, active |-> employee'[r].active]
      BY <1>1, <1>5, <2>2 DEF Switches
    <3> QED
      BY <1>2, <1>5, <3>1 DEF Asked
  <2> QED
    BY <2>2, <2>3, RosterNulls DEF Authored
<1>6. CASE r # w.row
  <2>1. employee'[r] = employee[r]
    BY <1>4, <1>6 DEF IInv, TypeOK, Rows
  <2> QED
    BY <2>1, UntouchedIsAuthored
<1> QED
  BY <1>5, <1>6

\* Only the owner's own requests suspend, reactivate or give a role, and only
\* they and the account's own /start rename.
THEOREM ChangesAlwaysHaveAnAuthor == Spec => ChangesHaveAnAuthor
<1>1. ASSUME IInv, Next, NEW r \in Rows PROVE Authored(r)
  <2>1. ASSUME NEW s \in Starts, Join(s) PROVE Authored(r)
    <3>1. CASE LookUp(s) \/ FailJoin(s)
      BY <3>1, UntouchedIsAuthored DEF LookUp, FailJoin
    <3>2. CASE Insert(s)
      <4>1. s \notin Rows
        BY <3>2 DEF Insert, KeyFree, RowsAt
      <4>2. employee'[r] = employee[r]
        BY <1>1, <3>2, <4>1 DEF Insert, IInv, TypeOK, Rows
      <4> QED
        BY <4>2, UntouchedIsAuthored
    <3> QED
      BY <1>1, <2>1, <3>1, <3>2, RenameIsAuthored DEF Join
  <2>2. ASSUME NEW q \in Requests, Edit(q) PROVE Authored(r)
    <3>1. CASE Find(q) \/ FailEdit(q)
      BY <3>1, UntouchedIsAuthored DEF Find, FailEdit
    <3> QED
      BY <1>1, <2>2, <3>1, WriteProfileIsAuthored, WriteActiveIsAuthored DEF Edit
  <2> QED
    BY <1>1, <2>1, <2>2 DEF Next
<1>2. IInv /\ [Next]_vars => [\A r \in Rows : Authored(r)]_vars
  BY <1>1
<1> QED
  BY <1>2, RosterInvariant, PTL DEF Spec, ChangesHaveAnAuthor
=============================================================================
