------------------------------- MODULE Roster -------------------------------
(***************************************************************************)
(* The employees table: people who follow a shop's invite link in Telegram *)
(* (/start, EmployeeRepo.Join) and the owner's changes to them on the      *)
(* dashboard (Update, SetActive).                                          *)
(*                                                                         *)
(* No operation is a transaction.  A join looks its row up and then        *)
(* inserts or renames it; a request of the employees panel finds a row in  *)
(* the shop of its session and then writes it.  A /start is repeated, an   *)
(* owner has two tabs open, so all of these overlap.  Rows are never       *)
(* deleted and keep their shop and account.  The weekly hour limit is left *)
(* out: the panel writes back the one it has read, nothing else writes it. *)
(***************************************************************************)
CONSTANTS
  Shops,
  Accounts,  \* Telegram accounts
  Starts,    \* the /start messages; each may be sent and delivered again
  SenderOf,  \* SenderOf[s]: the account that sends s
  CodeOf,    \* CodeOf[s]: the shop whose invite code s carries
  Requests,  \* requests of the employees panel
  OwnerOf,   \* OwnerOf[q]: the shop of the session that sends q
  Names,     \* display names, from Telegram or from the owner
  Roles,
  NoRole,    \* the role of a row nobody has edited
  NoRow,     \* in place of a row that is not there
  Idle       \* in place of what a handler holds while none runs

ASSUME RosterAssumption ==
  /\ SenderOf \in [Starts -> Accounts]
  /\ CodeOf \in [Starts -> Shops]
  /\ OwnerOf \in [Requests -> Shops]
  /\ NoRow \notin Starts

\* What a panel request writes: name and role, or is_active.
Profiles == [row : Starts, name : Names, role : Roles \cup {NoRole}]
Switches == [row : Starts, active : BOOLEAN]

Employee == [name : Names, role : Roles \cup {NoRole}, active : BOOLEAN]

ASSUME RosterNulls ==
  /\ NoRow \notin Employee
  /\ Idle \notin Profiles \cup Switches \cup [name : Names, found : Starts \cup {NoRow}]

VARIABLES
  employee,  \* employee[s]: the row that /start s inserted
  join,      \* join[s]: the sender's name and the row found by s' lookup
  edit,      \* edit[q]: what request q, having found its row, will write
  told,      \* history: the last answer to s
  during     \* history: is_active of the sender's row while s was handled

vars == <<employee, join, edit, told, during>>

Rows == {r \in Starts : employee[r] # NoRow}

\* The unique key of a row: shop_id and telegram_user_id.
KeyOf(s) == <<CodeOf[s], SenderOf[s]>>
RowsAt(k) == {r \in Rows : KeyOf(r) = k}

Init ==
  /\ employee = [s \in Starts |-> NoRow]
  /\ join = [s \in Starts |-> Idle]
  /\ edit = [q \in Requests |-> Idle]
  /\ told = [s \in Starts |-> "nothing"]
  /\ during = [s \in Starts |-> {}]

-----------------------------------------------------------------------------
(* Joining.                                                                *)

Answer(s, text) ==
  /\ told' = [told EXCEPT ![s] = text]
  /\ join' = [join EXCEPT ![s] = Idle]

MayJoinAnyway(r) == TRUE  \* bug: a suspended row is not refused
MayJoin(r)       == employee[r].active

\* The lookup finds the sender's row, or none; a suspended employee is refused.
LookUp(s) ==
  \E n \in Names, found \in Starts \cup {NoRow} :
    /\ join[s] = Idle
    /\ IF RowsAt(KeyOf(s)) = {} THEN found = NoRow ELSE found \in RowsAt(KeyOf(s))
    /\ IF found = NoRow \/ MayJoin(found)
       THEN /\ join' = [join EXCEPT ![s] = [name |-> n, found |-> found]]
            /\ told' = [told EXCEPT ![s] = "nothing"]
       ELSE Answer(s, "suspended")
    /\ during' = [during EXCEPT ![s] =
                   IF found = NoRow THEN {} ELSE {employee[found].active}]
    /\ UNCHANGED <<employee, edit>>

Reset(s)   == [name |-> join[s].name, role |-> NoRole, active |-> TRUE]  \* bug: all set anew
Renamed(s) == [employee[join[s].found] EXCEPT !.name = join[s].name]

\* A row that was active when it was looked up gets the sender's name.
Rename(s) ==
  /\ join[s] # Idle /\ join[s].found # NoRow
  /\ employee' = [employee EXCEPT ![join[s].found] = Renamed(s)]
  /\ \/ Answer(s, "welcome")
     \/ join' = [join EXCEPT ![s] = Idle] /\ UNCHANGED told
  /\ UNCHANGED <<edit, during>>

NoIndex(s) == employee[s] = NoRow  \* bug: the key is not unique
KeyFree(s) == RowsAt(KeyOf(s)) = {}

\* No row was found: one is inserted, which fails if it is there by now.
Insert(s) ==
  /\ join[s] # Idle /\ join[s].found = NoRow
  /\ KeyFree(s)
  /\ employee' = [employee EXCEPT ![s] =
                   [name |-> join[s].name, role |-> NoRole, active |-> TRUE]]
  /\ during' = [t \in Starts |->
                 IF KeyOf(t) = KeyOf(s) /\ join[t] # Idle
                 THEN during[t] \cup {TRUE} ELSE during[t]]
  /\ \/ Answer(s, "welcome")
     \/ join' = [join EXCEPT ![s] = Idle] /\ UNCHANGED told
  /\ UNCHANGED edit

\* The write fails: the key is taken, the connection lost.  No answer is sent.
FailJoin(s) ==
  /\ join[s] # Idle
  /\ join' = [join EXCEPT ![s] = Idle]
  /\ UNCHANGED <<employee, edit, told, during>>

-----------------------------------------------------------------------------
(* The employees panel.                                                    *)

InAnyShop(q, r) == r \in Rows  \* bug: the row is found by its id alone
InOwnShop(q, r) == r \in Rows /\ CodeOf[r] = OwnerOf[q]

\* A request finds its row in the session's shop; otherwise it is answered
\* 404 and does nothing.
Find(q) ==
  \E w \in Profiles \cup Switches :
    /\ edit[q] = Idle
    /\ InOwnShop(q, w.row)
    /\ edit' = [edit EXCEPT ![q] = w]
    /\ UNCHANGED <<employee, join, told, during>>

\* Update writes name and role, whatever they are by now.
WriteProfile(q) ==
  /\ edit[q] \in Profiles
  /\ employee' = [employee EXCEPT ![edit[q].row].name = edit[q].name,
                                  ![edit[q].row].role = edit[q].role]
  /\ edit' = [edit EXCEPT ![q] = Idle]
  /\ UNCHANGED <<join, told, during>>

\* SetActive suspends or reactivates.
WriteActive(q) ==
  /\ edit[q] \in Switches
  /\ employee' = [employee EXCEPT ![edit[q].row].active = edit[q].active]
  /\ during' = [s \in Starts |->
                 IF KeyOf(s) = KeyOf(edit[q].row) /\ join[s] # Idle
                 THEN during[s] \cup {edit[q].active} ELSE during[s]]
  /\ edit' = [edit EXCEPT ![q] = Idle]
  /\ UNCHANGED <<join, told>>

FailEdit(q) ==
  /\ edit[q] # Idle
  /\ edit' = [edit EXCEPT ![q] = Idle]
  /\ UNCHANGED <<employee, join, told, during>>

-----------------------------------------------------------------------------
Join(s) == LookUp(s) \/ Rename(s) \/ Insert(s) \/ FailJoin(s)

Edit(q) == Find(q) \/ WriteProfile(q) \/ WriteActive(q) \/ FailEdit(q)

Next == (\E s \in Starts : Join(s)) \/ (\E q \in Requests : Edit(q))

Spec == Init /\ [][Next]_vars

-----------------------------------------------------------------------------
(* Properties.                                                             *)

\* Every variable has its type, and a person has one row in a shop, however
\* many of their /starts overlap: Join fails for good if there are two.
TypeOK ==
  /\ employee \in [Starts -> Employee \cup {NoRow}]
  /\ \A r, t \in Rows : KeyOf(r) = KeyOf(t) => r = t
  /\ join \in [Starts -> [name : Names, found : Starts \cup {NoRow}] \cup {Idle}]
  /\ edit \in [Requests -> Profiles \cup Switches \cup {Idle}]
  /\ told \in [Starts -> {"nothing", "welcome", "suspended"}]
  /\ during \in [Starts -> SUBSET BOOLEAN]

\* The owner of r's shop asked for w.
Asked(r, w) == \E q \in Requests : OwnerOf[q] = CodeOf[r] /\ edit[q] = w

\* The sender of r is handled under the name n.
Named(r, n) == \E s \in Starts : KeyOf(s) = KeyOf(r) /\ join[s] # Idle /\ join[s].name = n

\* Somebody asked for what a step changes in row r.
Authored(r) ==
  LET old == employee[r]
      new == employee'[r]
      profile == [row |-> r, name |-> new.name, role |-> new.role]
  IN  /\ new # NoRow
      /\ new.active # old.active => Asked(r, [row |-> r, active |-> new.active])
      /\ new.role # old.role => Asked(r, profile)
      /\ new.name # old.name => Asked(r, profile) \/ Named(r, new.name)

\* README: "Suspended employees cannot re-join via /start until you reactivate
\* them in the dashboard".  A row becomes active again, or inactive, or gets
\* another role only because its own shop's owner asked for just that, and
\* another name only from the owner or from its own account's /start, whatever
\* was read before the write and changed since.
ChangesHaveAnAuthor == [][\A r \in Rows : Authored(r)]_vars

\* Whoever is welcomed has a row in that shop that was active at some moment
\* while their /start was handled, and whoever is refused one that was
\* suspended: an answer contradicts the roster only if the owner changed it
\* meanwhile.
WelcomesAreTrue ==
  \A s \in Starts :
    /\ told[s] = "welcome" => RowsAt(KeyOf(s)) # {} /\ TRUE \in during[s]
    /\ told[s] = "suspended" => RowsAt(KeyOf(s)) # {} /\ FALSE \in during[s]
=============================================================================
