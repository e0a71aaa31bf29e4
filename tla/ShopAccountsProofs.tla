------------------------- MODULE ShopAccountsProofs -------------------------
(* What ShopAccounts promises holds for any shops, usernames, requests,    *)
(* passwords, reset links, default shifts and lost answers.                *)
EXTENDS ShopAccounts, FiniteSetTheorems, TLAPS

-----------------------------------------------------------------------------
(* The inductive invariant.                                                *)

\* What is counted and what a handler holds.
TasksOK ==
  /\ shifts \in [Shops -> Nat] /\ wants \in [Shops -> Nat]
  /\ at \in [Handlers -> Shops \cup {None}]
  /\ item = [h \in Handlers |-> item[h]]
  /\ \A h \in Handlers :
       /\ pc[h] = "provision" => item[h] \in Usernames
       /\ pc[h] = "first" => item[h] \in Passwords
       /\ pc[h] = "reset" => /\ item[h][1] \in DOMAIN issued /\ item[h][2] \in Passwords
                             /\ issued[item[h][1]] = at[h] /\ item[h][1] \in followed

\* Two shops that are visible, or named by an open transaction, differ in
\* their usernames; others have none.
Holds(s) == s \in shops \/ creating[s] = "named"

NamesOK ==
  /\ \A s, t \in Shops :
       Holds(s) /\ Holds(t) /\ username[s] = username[t] /\ username[s] # None => s = t
  /\ \A s \in Shops : ~Holds(s) => username[s] = None
  /\ \A s \in Creations : Holds(s) => username[s] # None
  /\ \A s \in Creations : creating[s] \in {"inserted", "checked", "named"} =>
                            asked[s] \in Usernames

\* How far a creation is says whether its shop is visible and has its shifts.
WholeOK ==
  /\ \A c \in Creations :
       /\ creating[c] \in {"idle", "inserted", "checked", "named", "done", "unknown",
                           "failed"}
       /\ c \in shops <=> creating[c] \in {"done", "unknown"}
       /\ c \in shops => shifts[c] = wants[c]
  /\ \A s \in Signups :
       /\ creating[s] \in {"idle", "signed", "done", "failed"}
       /\ creating[s] \in {"signed", "done"} => s \in shops
       /\ creating[s] = "done" => shifts[s] = wants[s]
  /\ \A s \in Shops :
       creating[s] \in {"idle", "inserted", "checked"} => shifts[s] = 0
  /\ \A c \in Creations : creating[c] = "failed" => shifts[c] = 0

\* The links of a shop, and the passwords its links have set.
LinksOf(s) == {i \in DOMAIN issued : issued[i] = s}
MadeOf(s)  == {x \in resets : issued[x[1]] = s}
Newest(s, i) == i \in LinksOf(s) /\ \A j \in LinksOf(s) : j <= i

\* A shop without a password has had none and no links.  The newest of its
\* links is the one that counts, or it lapsed, was followed or was disturbed.
LinksOK ==
  \A s \in Shops :
    /\ password[s] = None => LinksOf(s) = {} /\ \A x \in firsts : x[1] # s
    /\ reset[s] # 0 => Newest(s, reset[s])
    /\ LinksOf(s) # {} =>
         \E i \in DOMAIN issued :
           Newest(s, i) /\ (reset[s] = 0 => s \in unsure \/ i \in followed \cup lapsed)

\* Unless two password requests of a shop have overlapped: one is under way,
\* each sets one password, and the newest stands.
Calm(s) ==
  /\ \A h, g \in Pending(s) : h = g
  /\ \A h \in Pending(s) : pc[h] = "first" => password[s] = None
  /\ \A h \in Pending(s) : pc[h] = "reset" =>
       Newest(s, item[h][1]) /\ \A x \in MadeOf(s) : x[1] # item[h][1]
  /\ reset[s] # 0 => \A x \in MadeOf(s) : x[1] # reset[s]
  /\ \A x, y \in firsts : x[1] = s /\ y[1] = s => x = y
  /\ \A x, y \in MadeOf(s) : x[1] = y[1] => x = y
  /\ IF MadeOf(s) # {}
     THEN \E x \in MadeOf(s) : x[2] = password[s] /\ \A y \in MadeOf(s) : y[1] <= x[1]
     ELSE \/ <<s, password[s]>> \in firsts
          \/ password[s] = None /\ \A x \in firsts : x[1] # s

IInv ==
  /\ TypeOK /\ TasksOK /\ NamesOK /\ WholeOK /\ LinksOK
  /\ \A s \in Shops \ unsure : Calm(s)

-----------------------------------------------------------------------------
\* The invariant holds at the start.
THEOREM InitIInv == Init => IInv
<1> SUFFICES ASSUME Init PROVE IInv
  OBVIOUS
<1>1. TypeOK
  BY ShopAccountsAssumption DEF Init, TypeOK
<1>2. TasksOK
  BY DEF Init, TasksOK
<1>3. NamesOK /\ WholeOK
  BY DEF Init, NamesOK, WholeOK, Holds, Shops
<1>4. LinksOK
  BY DEF Init, LinksOK, LinksOf, Newest
<1>5. \A s \in Shops \ unsure : Calm(s)
  BY DEF Init, Calm, Pending, LinksOf, MadeOf, Newest
<1> QED
  BY <1>1, <1>2, <1>3, <1>4, <1>5 DEF IInv

-----------------------------------------------------------------------------
(* Facts used by several steps.                                            *)

\* A sequence of visible shops stays one when more become visible.
LEMMA SeqGrows ==
  ASSUME NEW S, NEW T, S \subseteq T, NEW q \in Seq(S) PROVE q \in Seq(T)
  OBVIOUS

\* Names and shifts depend on no request about passwords.
LEMMA CreationsKept ==
  ASSUME IInv, UNCHANGED <<creation, username>>
  PROVE  NamesOK' /\ WholeOK'
  BY DEF IInv, NamesOK, WholeOK, Holds, creation

\* A request that ends leaves the others as they are.
LEMMA TaskEnds ==
  ASSUME IInv, NEW h \in Handlers, NEW step, End(h, step), UNCHANGED <<creation, issued, followed>>
  PROVE  /\ TasksOK'
         /\ pc' \in [Handlers -> {"idle", "provision", "first", "reset"}] /\ pc'[h] = "idle"
         /\ \A g \in Handlers \ {h} : pc'[g] = pc[g] /\ at'[g] = at[g] /\ item'[g] = item[g]
<1>1. /\ pc' \in [Handlers -> {"idle", "provision", "first", "reset"}] /\ pc'[h] = "idle"
      /\ \A g \in Handlers \ {h} : pc'[g] = pc[g] /\ at'[g] = at[g] /\ item'[g] = item[g]
  BY DEF IInv, TypeOK, End
<1>2. (/\ shifts \in [Shops -> Nat] /\ wants \in [Shops -> Nat]
       /\ at \in [Handlers -> Shops \cup {None}] /\ item = [g \in Handlers |-> item[g]])'
  BY DEF IInv, TasksOK, End, creation
<1> QED
  BY <1>1, <1>2 DEF IInv, TasksOK

\* A request that begins holds what it was given.
LEMMA TaskStarts ==
  ASSUME IInv, NEW h \in Handlers, NEW s \in Shops, NEW step, NEW what, Start(h, step, s, what),
         UNCHANGED <<creation, issued>>, followed \subseteq followed',
         \/ step = "provision" /\ what \in Usernames
         \/ step = "first" /\ what \in Passwords
         \/ /\ step = "reset" /\ what[1] \in DOMAIN issued /\ what[2] \in Passwords
            /\ issued[what[1]] = s /\ what[1] \in followed'
  PROVE  /\ TasksOK'
         /\ pc' \in [Handlers -> {"idle", "provision", "first", "reset"}]
         /\ pc[h] = "idle" /\ pc'[h] = step /\ at'[h] = s /\ item'[h] = what /\ s \in shops
         /\ \A g \in Handlers \ {h} : pc'[g] = pc[g] /\ at'[g] = at[g] /\ item'[g] = item[g]
<1>1. /\ pc' \in [Handlers -> {"idle", "provision", "first", "reset"}]
      /\ pc[h] = "idle" /\ pc'[h] = step /\ at'[h] = s /\ item'[h] = what /\ s \in shops
      /\ \A g \in Handlers \ {h} : pc'[g] = pc[g] /\ at'[g] = at[g] /\ item'[g] = item[g]
  BY DEF IInv, TypeOK, TasksOK, Start
<1>2. (/\ shifts \in [Shops -> Nat] /\ wants \in [Shops -> Nat]
       /\ at \in [Handlers -> Shops \cup {None}] /\ item = [g \in Handlers |-> item[g]])'
  BY DEF IInv, TasksOK, Start, creation
<1> QED
  BY <1>1, <1>2 DEF IInv, TasksOK

\* What calms a shop is about this shop only.
LEMMA CalmKept ==
  ASSUME IInv, NEW s \in Shops, Calm(s),
         LinksOf(s)' = LinksOf(s), MadeOf(s)' = MadeOf(s),
         reset'[s] = reset[s], password'[s] = password[s],
         \A x : x[1] = s => (x \in firsts' <=> x \in firsts),
         Pending(s)' \subseteq Pending(s),
         \A g \in Pending(s)' : pc'[g] = pc[g] /\ item'[g] = item[g]
  PROVE  Calm(s)'
<1>1. \A i : Newest(s, i)' = Newest(s, i)
  BY DEF Newest
<1>2. <<s, password[s]>>[1] = s
  OBVIOUS
<1> QED
  BY <1>1, <1>2 DEF Calm

\* A shop's links and passwords depend on no creation or username.
LEMMA LinksKept ==
  ASSUME IInv, UNCHANGED <<tokens, passwords, unsure>>,
         \A h \in Handlers : pc'[h] \in {"first", "reset"} =>
           pc'[h] = pc[h] /\ at'[h] = at[h] /\ item'[h] = item[h]
  PROVE  LinksOK' /\ \A s \in Shops \ unsure' : Calm(s)'
<1>1. UNCHANGED <<issued, reset, followed, lapsed, password, firsts, resets, unsure>>
  BY DEF tokens, passwords
<1>2. \A s : /\ LinksOf(s)' = LinksOf(s) /\ MadeOf(s)' = MadeOf(s)
             /\ \A i : Newest(s, i)' = Newest(s, i)
  BY <1>1 DEF LinksOf, MadeOf, Newest
<1>3. \A s \in Shops : Pending(s)' \subseteq Pending(s)
  BY DEF Pending
<1>4. LinksOK'
  BY <1>1, <1>2 DEF IInv, LinksOK
<1>5. ASSUME NEW s \in Shops \ unsure PROVE Calm(s)'
  BY <1>1, <1>2, <1>3, <1>5 DEF IInv, Calm, Pending
<1> QED
  BY <1>1, <1>4, <1>5

LEMMA BeginCreationKeeps ==
  ASSUME IInv, NEW c \in Creations, NEW n \in Usernames, NEW k \in {0, DefaultShifts}, BeginCreation(c, n, k)
  PROVE  IInv'
<1>1. TypeOK'
  BY ShopAccountsAssumption DEF IInv, TypeOK, WholeOK, Shops, BeginCreation, Step, tokens,
     passwords, task
<1>2. TasksOK'
  BY ShopAccountsAssumption DEF IInv, TasksOK, Shops, BeginCreation, tokens, task
<1>3. NamesOK'
  BY ShopAccountsAssumption DEF IInv, TypeOK, NamesOK, Holds, BeginCreation, Step
<1>4. WholeOK'
  BY ShopAccountsAssumption DEF IInv, WholeOK, BeginCreation, Step
<1>5. LinksOK' /\ \A x \in Shops \ unsure' : Calm(x)'
  BY LinksKept DEF BeginCreation, task
<1> QED
  BY <1>1, <1>2, <1>3, <1>4, <1>5 DEF IInv

LEMMA CheckNameKeeps ==
  ASSUME IInv, NEW c \in Creations, CheckName(c)
  PROVE  IInv'
<1>1. TypeOK'
  BY ShopAccountsAssumption DEF IInv, TypeOK, CheckName, Step, tokens, passwords, task
<1>2. TasksOK'
  BY ShopAccountsAssumption DEF IInv, TasksOK, CheckName, tokens, task
<1>3. NamesOK'
  BY ShopAccountsAssumption DEF IInv, NamesOK, Holds, CheckName, Step
<1>4. WholeOK'
  BY ShopAccountsAssumption DEF IInv, WholeOK, CheckName, Step
<1>5. LinksOK' /\ \A x \in Shops \ unsure' : Calm(x)'
  BY LinksKept DEF CheckName, task
<1> QED
  BY <1>1, <1>2, <1>3, <1>4, <1>5 DEF IInv

LEMMA SetNameKeeps ==
  ASSUME IInv, NEW c \in Creations, SetName(c)
  PROVE  IInv'
<1>1. TypeOK'
  BY ShopAccountsAssumption DEF IInv, TypeOK, SetName, Step, tokens, passwords, task
<1>2. TasksOK'
  BY ShopAccountsAssumption DEF IInv, TasksOK, SetName, tokens, task
<1>3. NamesOK'
  <2>1. /\ c \in Shops /\ username' = [username EXCEPT ![c] = asked[c]]
        /\ creating' = [creating EXCEPT ![c] = "named"] /\ creating[c] = "checked"
        /\ UNCHANGED <<shops, asked>>
    BY DEF SetName, Step, Shops
  <2>2. asked[c] \in Usernames /\ asked[c] # None
    BY <2>1, ShopAccountsAssumption DEF IInv, NamesOK
  <2>3. ASSUME NEW t \in Shops \ {c}, Holds(t) PROVE username[t] # asked[c]
    <3>1. CASE t \in shops
      BY <3>1 DEF SetName, NameTaken
    <3>2. CASE t \notin shops /\ creating[t] = "named"
      BY <3>2, <2>3, ShopAccountsAssumption DEF IInv, WholeOK, Shops, SetName, NameHeld
    <3> QED
      BY <2>3, <3>1, <3>2 DEF Holds
  <2>4. \A t \in Shops \ {c} : Holds(t)' = Holds(t) /\ username'[t] = username[t] /\ creating'[t] = creating[t]
    BY <2>1 DEF IInv, Holds
  <2>5. username'[c] = asked[c] /\ creating'[c] = "named"
    BY <2>1 DEF IInv, TypeOK
  <2> QED
    BY <2>1, <2>2, <2>3, <2>4, <2>5 DEF IInv, NamesOK, Holds
<1>4. WholeOK'
  BY ShopAccountsAssumption DEF IInv, WholeOK, SetName, Step, NameTaken, NameHeld
<1>5. LinksOK' /\ \A x \in Shops \ unsure' : Calm(x)'
  BY LinksKept DEF SetName, NameTaken, NameHeld, task
<1> QED
  BY <1>1, <1>2, <1>3, <1>4, <1>5 DEF IInv

LEMMA InsertShiftKeeps ==
  ASSUME IInv, NEW s \in Shops, InsertShift(s)
  PROVE  IInv'
<1>1. TypeOK'
  BY ShopAccountsAssumption DEF IInv, TypeOK, Shops, InsertShift, tokens, passwords, task
<1>2. TasksOK'
  BY ShopAccountsAssumption DEF IInv, TasksOK, InsertShift, tokens, task
<1>3. NamesOK'
  BY ShopAccountsAssumption DEF IInv, NamesOK, Holds, InsertShift
<1>4. WholeOK'
  BY ShopAccountsAssumption DEF IInv, WholeOK, InsertShift
<1>5. LinksOK' /\ \A x \in Shops \ unsure' : Calm(x)'
  BY LinksKept DEF InsertShift, task
<1> QED
  BY <1>1, <1>2, <1>3, <1>4, <1>5 DEF IInv

LEMMA CommitKeeps ==
  ASSUME IInv, NEW c \in Creations, Commit(c)
  PROVE  IInv'
<1>1. TypeOK'
  <2>1. /\ shops' = shops \cup {c} /\ faults' \in 0..MaxFaults
        /\ creating' \in {[creating EXCEPT ![c] = "done"], [creating EXCEPT ![c] = "unknown"]}
        /\ UNCHANGED <<shifts, asked, wants, username, issued, reset, followed, lapsed,
                       password, firsts, resets, pc, at, item, unsure>>
    BY ShopAccountsAssumption DEF IInv, TypeOK, Commit, Step, tokens, passwords, task
  <2>2. issued' \in Seq(shops')
    BY <2>1, SeqGrows DEF IInv, TypeOK
  <2> QED
    BY <2>1, <2>2 DEF IInv, TypeOK, Shops
<1>2. TasksOK'
  BY ShopAccountsAssumption DEF IInv, TasksOK, Commit, AllInserted, tokens, task
<1>3. NamesOK'
  BY ShopAccountsAssumption DEF IInv, TypeOK, NamesOK, Holds, Shops, Commit, Step,
     AllInserted
<1>4. WholeOK'
  BY ShopAccountsAssumption DEF IInv, TypeOK, WholeOK, Shops, Commit, Step, AllInserted
<1>5. LinksOK' /\ \A x \in Shops \ unsure' : Calm(x)'
  BY LinksKept DEF Commit, AllInserted, task
<1> QED
  BY <1>1, <1>2, <1>3, <1>4, <1>5 DEF IInv

LEMMA RollbackKeeps ==
  ASSUME IInv, NEW c \in Creations, Rollback(c)
  PROVE  IInv'
<1>1. TypeOK'
  BY ShopAccountsAssumption DEF IInv, TypeOK, Shops, Rollback, Step, tokens, passwords, task
<1>2. TasksOK'
  BY ShopAccountsAssumption DEF IInv, TasksOK, Rollback, tokens, task
<1>3. NamesOK'
  BY ShopAccountsAssumption DEF IInv, TypeOK, NamesOK, WholeOK, Holds, Shops, Rollback, Step
<1>4. WholeOK'
  BY ShopAccountsAssumption DEF IInv, TypeOK, TasksOK, WholeOK, Rollback, Step
<1>5. LinksOK' /\ \A x \in Shops \ unsure' : Calm(x)'
  BY LinksKept DEF Rollback, task
<1> QED
  BY <1>1, <1>2, <1>3, <1>4, <1>5 DEF IInv

LEMMA SignUpKeeps ==
  ASSUME IInv, NEW s \in Signups, NEW k \in {0, DefaultShifts}, SignUp(s, k)
  PROVE  IInv'
<1>1. TypeOK'
  BY ShopAccountsAssumption DEF IInv, TypeOK, WholeOK, Shops, SignUp, Step, tokens,
     passwords, task
<1>2. TasksOK'
  BY ShopAccountsAssumption DEF IInv, TasksOK, Shops, SignUp, tokens, task
<1>3. NamesOK'
  BY ShopAccountsAssumption DEF IInv, NamesOK, Holds, SignUp, Step
<1>4. WholeOK'
  BY ShopAccountsAssumption DEF IInv, WholeOK, SignUp, Step
<1>5. LinksOK' /\ \A x \in Shops \ unsure' : Calm(x)'
  BY LinksKept DEF SignUp, task
<1> QED
  BY <1>1, <1>2, <1>3, <1>4, <1>5 DEF IInv

LEMMA FinishSignUpKeeps ==
  ASSUME IInv, NEW s \in Signups, FinishSignUp(s)
  PROVE  IInv'
<1>1. TypeOK'
  BY ShopAccountsAssumption DEF IInv, TypeOK, FinishSignUp, Step, AllInserted, tokens,
     passwords, task
<1>2. TasksOK'
  BY ShopAccountsAssumption DEF IInv, TasksOK, FinishSignUp, AllInserted, tokens, task
<1>3. NamesOK'
  BY ShopAccountsAssumption DEF IInv, NamesOK, Holds, FinishSignUp, Step, AllInserted
<1>4. WholeOK'
  BY ShopAccountsAssumption DEF IInv, WholeOK, FinishSignUp, Step, AllInserted
<1>5. LinksOK' /\ \A x \in Shops \ unsure' : Calm(x)'
  BY LinksKept DEF FinishSignUp, AllInserted, task
<1> QED
  BY <1>1, <1>2, <1>3, <1>4, <1>5 DEF IInv

LEMMA FailSignUpKeeps ==
  ASSUME IInv, NEW s \in Signups, FailSignUp(s)
  PROVE  IInv'
<1>1. TypeOK'
  BY ShopAccountsAssumption DEF IInv, TypeOK, FailSignUp, Step, tokens, passwords, task
<1>2. TasksOK'
  BY ShopAccountsAssumption DEF IInv, TasksOK, FailSignUp, tokens, task
<1>3. NamesOK'
  BY ShopAccountsAssumption DEF IInv, NamesOK, Holds, FailSignUp, Step
<1>4. WholeOK'
  BY ShopAccountsAssumption DEF IInv, WholeOK, FailSignUp, Step
<1>5. LinksOK' /\ \A x \in Shops \ unsure' : Calm(x)'
  BY LinksKept DEF FailSignUp, task
<1> QED
  BY <1>1, <1>2, <1>3, <1>4, <1>5 DEF IInv

LEMMA GiveUpKeeps ==
  ASSUME IInv, NEW h \in Handlers, GiveUp(h)
  PROVE  IInv'
<1>1. TasksOK' /\ pc' \in [Handlers -> {"idle", "provision", "first", "reset"}] /\ pc'[h] = "idle"
  BY TaskEnds DEF GiveUp, tokens
<1>2. \A g \in Handlers \ {h} : pc'[g] = pc[g] /\ at'[g] = at[g] /\ item'[g] = item[g]
  BY TaskEnds DEF GiveUp, tokens
<1>3. TypeOK'
  BY <1>1, <1>2 DEF IInv, TypeOK, GiveUp, creation, tokens, passwords
<1>4. NamesOK' /\ WholeOK'
  BY CreationsKept DEF GiveUp
<1>5. LinksOK' /\ \A x \in Shops \ unsure' : Calm(x)'
  BY <1>1, <1>2, LinksKept DEF GiveUp
<1> QED
  BY <1>1, <1>3, <1>4, <1>5 DEF IInv

LEMMA ProvisionKeeps ==
  ASSUME IInv, NEW h \in Handlers, NEW s \in Shops, NEW n \in Usernames, Provision(h, s, n)
  PROVE  IInv'
<1>1. /\ TasksOK' /\ pc' \in [Handlers -> {"idle", "provision", "first", "reset"}]
      /\ pc'[h] = "provision" /\ at'[h] = s /\ s \in shops
  BY TaskStarts DEF Provision, tokens
<1>2. \A g \in Handlers \ {h} : pc'[g] = pc[g] /\ at'[g] = at[g] /\ item'[g] = item[g]
  BY TaskStarts DEF Provision, tokens
<1>3. TypeOK'
  BY <1>1, <1>2 DEF IInv, TypeOK, Provision, creation, tokens, passwords
<1>4. NamesOK' /\ WholeOK'
  BY CreationsKept DEF Provision
<1>5. LinksOK' /\ \A x \in Shops \ unsure' : Calm(x)'
  BY <1>1, <1>2, LinksKept DEF Provision
<1> QED
  BY <1>1, <1>3, <1>4, <1>5 DEF IInv

LEMMA FinishProvisionKeeps ==
  ASSUME IInv, NEW h \in Handlers, FinishProvision(h)
  PROVE  IInv'
<1>1. TasksOK' /\ pc' \in [Handlers -> {"idle", "provision", "first", "reset"}] /\ pc'[h] = "idle"
  BY TaskEnds DEF FinishProvision, tokens
<1>2. \A g \in Handlers \ {h} : pc'[g] = pc[g] /\ at'[g] = at[g] /\ item'[g] = item[g]
  BY TaskEnds DEF FinishProvision, tokens
<1>3. PICK s \in shops, n \in Usernames : s = at[h] /\ n = item[h]
  BY DEF IInv, TypeOK, TasksOK, FinishProvision, End
<1>4. s \in Shops /\ username' = [username EXCEPT ![s] = n] /\ ~NameTaken(s, n) /\ ~NameHeld(n)
  BY <1>3 DEF IInv, TypeOK, FinishProvision
<1>5. UNCHANGED <<shops, shifts, creating, asked, wants, faults, issued, reset, followed, lapsed,
                  password, firsts, resets, unsure>>
  BY DEF FinishProvision, creation, tokens, passwords
<1>9. TypeOK'
  <2>1. username' \in [Shops -> Usernames \cup {None}]
    BY <1>4 DEF IInv, TypeOK
  <2>2. \A g \in Handlers : pc'[g] # "idle" => at'[g] \in shops'
    BY <1>1, <1>2, <1>5 DEF IInv, TypeOK
  <2> QED
    BY <1>1, <1>5, <2>1, <2>2 DEF IInv, TypeOK
<1>6. NamesOK'
  <2>1. n # None
    BY ShopAccountsAssumption
  <2>2. ASSUME NEW t \in Shops \ {s}, Holds(t) PROVE username[t] # n
    <3>1. CASE t \in shops
      BY <3>1, <1>4 DEF NameTaken
    <3>2. CASE t \notin shops /\ creating[t] = "named"
      BY <3>2, <1>4, <2>2, ShopAccountsAssumption DEF IInv, WholeOK, Shops, NameHeld
    <3> QED
      BY <2>2, <3>1, <3>2 DEF Holds
  <2>3. \A t \in Shops : Holds(t)' = Holds(t)
    BY <1>5 DEF Holds
  <2>4. username'[s] = n /\ \A t \in Shops \ {s} : username'[t] = username[t]
    BY <1>4 DEF IInv, TypeOK
  <2> QED
    BY <1>3, <1>4, <1>5, <2>1, <2>2, <2>3, <2>4 DEF IInv, NamesOK, Holds
<1>7. WholeOK'
  BY DEF IInv, WholeOK, FinishProvision, creation
<1>8. LinksOK' /\ \A x \in Shops \ unsure' : Calm(x)'
  BY <1>1, <1>2, LinksKept DEF FinishProvision
<1> QED
  BY <1>1, <1>9, <1>6, <1>7, <1>8 DEF IInv

LEMMA SetFirstKeeps ==
  ASSUME IInv, NEW h \in Handlers, NEW s \in Shops, NEW p \in Passwords, SetFirst(h, s, p)
  PROVE  IInv'
<1>1. /\ TasksOK' /\ pc' \in [Handlers -> {"idle", "provision", "first", "reset"}]
      /\ pc[h] = "idle" /\ pc'[h] = "first" /\ at'[h] = s /\ item'[h] = p /\ s \in shops
      /\ \A g \in Handlers \ {h} : pc'[g] = pc[g] /\ at'[g] = at[g] /\ item'[g] = item[g]
  BY TaskStarts DEF SetFirst, tokens
<1>2. /\ password[s] = None /\ unsure' = IF Pending(s) # {} THEN unsure \cup {s} ELSE unsure
      /\ UNCHANGED <<shops, shifts, creating, asked, wants, faults, username, issued, reset,
                     followed, lapsed, password, firsts, resets>>
  BY DEF SetFirst, HasPassword, MarkUnsure, creation, tokens, passwords
<1>3. TypeOK'
  BY <1>1, <1>2 DEF IInv, TypeOK
<1>4. NamesOK' /\ WholeOK'
  BY CreationsKept DEF SetFirst
<1>5. LinksOK'
  BY <1>2 DEF IInv, LinksOK, LinksOf, Newest
<1>6. \A x : LinksOf(x)' = LinksOf(x) /\ MadeOf(x)' = MadeOf(x)
  BY <1>2 DEF LinksOf, MadeOf
<1>7. ASSUME NEW x \in Shops \ unsure' PROVE Calm(x)'
  <2>1. Calm(x)
    BY <1>2, <1>7 DEF IInv
  <2>2. CASE x # s
    <3>1. Pending(x)' = Pending(x) /\ h \notin Pending(x)
      BY <1>1, <2>2 DEF Pending
    <3> QED
      BY <1>1, <1>2, <1>6, <2>1, <3>1, CalmKept DEF Pending
  <2>3. CASE x = s
    <3>1. Pending(x) = {} /\ Pending(x)' = {h}
      BY <1>1, <1>2, <1>7, <2>3 DEF Pending
    <3> QED
      BY <1>1, <1>2, <1>6, <2>1, <2>3, <3>1 DEF Calm
  <2> QED
    BY <2>2, <2>3
<1> QED
  BY <1>1, <1>3, <1>4, <1>5, <1>7 DEF IInv

LEMMA FinishFirstKeeps ==
  ASSUME IInv, NEW h \in Handlers, FinishFirst(h)
  PROVE  IInv'
<1>1. /\ TasksOK' /\ pc' \in [Handlers -> {"idle", "provision", "first", "reset"}]
      /\ pc[h] = "first" /\ pc'[h] = "idle"
      /\ \A g \in Handlers \ {h} : pc'[g] = pc[g] /\ at'[g] = at[g] /\ item'[g] = item[g]
  BY TaskEnds DEF FinishFirst, End, tokens
<1>2. PICK s \in shops, p \in Passwords : s = at[h] /\ p = item[h]
  BY <1>1 DEF IInv, TypeOK, TasksOK
<1>3. /\ s \in Shops /\ p # None
      /\ password' = [password EXCEPT ![s] = p] /\ firsts' = firsts \cup {<<s, p>>}
      /\ UNCHANGED <<shops, shifts, creating, asked, wants, faults, username, issued, reset,
                     followed, lapsed, resets, unsure>>
  BY <1>2, ShopAccountsAssumption DEF IInv, TypeOK, FinishFirst, creation, tokens
<1>4. password'[s] = p /\ \A x \in Shops \ {s} : password'[x] = password[x]
  BY <1>3 DEF IInv, TypeOK
<1>5. TypeOK'
  <2>1. password' \in [Shops -> Passwords \cup {None}] /\ firsts' \subseteq shops' \X Passwords
    BY <1>3 DEF IInv, TypeOK
  <2>2. \A g \in Handlers : pc'[g] # "idle" => at'[g] \in shops'
    BY <1>1, <1>3 DEF IInv, TypeOK
  <2> QED
    BY <1>1, <1>3, <2>1, <2>2 DEF IInv, TypeOK
<1>6. NamesOK' /\ WholeOK'
  BY CreationsKept DEF FinishFirst
<1>7. \A x : LinksOf(x)' = LinksOf(x) /\ MadeOf(x)' = MadeOf(x)
  BY <1>3 DEF LinksOf, MadeOf
<1>8. \A x, i : Newest(x, i)' = Newest(x, i)
  BY <1>7 DEF Newest
<1>9. LinksOK'
  BY <1>3, <1>4, <1>7, <1>8 DEF IInv, LinksOK
<1>10. ASSUME NEW x \in Shops \ unsure' PROVE Calm(x)'
  <2>1. Calm(x)
    BY <1>3, <1>10 DEF IInv
  <2>2. Pending(x)' = Pending(x) \ {h}
    BY <1>1 DEF Pending
  <2>3. CASE x # s
    BY <1>1, <1>3, <1>4, <1>7, <2>1, <2>2, <2>3, CalmKept DEF Pending
  <2>4. CASE x = s
    <3>1. h \in Pending(s)
      BY <1>1, <1>2 DEF Pending
    <3>2. password[s] = None /\ Pending(s)' = {}
      BY <1>1, <2>1, <2>2, <2>4, <3>1 DEF Calm
    <3>3. LinksOf(s) = {} /\ \A x1 \in firsts : x1[1] # s
      BY <1>3, <3>2 DEF IInv, LinksOK
    <3>4. MadeOf(s) = {}
      BY <3>3 DEF IInv, TypeOK, LinksOf, MadeOf
    <3>5. reset[s] = 0
      BY <1>3, <3>3 DEF IInv, LinksOK, Newest
    <3> QED
      BY <1>3, <1>4, <1>7, <2>4, <3>2, <3>3, <3>4, <3>5 DEF Calm
  <2> QED
    BY <2>3, <2>4
<1> QED
  BY <1>1, <1>5, <1>6, <1>9, <1>10 DEF IInv

LEMMA IssueResetKeeps ==
  ASSUME IInv, NEW s \in Shops, IssueReset(s)
  PROVE  IInv'
<1>0. PICK n \in Nat : n = Len(issued) + 1
  BY DEF IInv
<1>1. /\ s \in shops /\ password[s] # None
      /\ unsure' = IF Pending(s) # {} THEN unsure \cup {s} ELSE unsure
      /\ UNCHANGED <<shops, shifts, creating, asked, wants, faults, username, followed, lapsed,
                     password, firsts, resets, pc, at, item>>
  BY DEF IssueReset, HasPassword, MarkUnsure, creation, passwords, task
<1>2. /\ issued' \in Seq(shops) /\ Len(issued') = n /\ n # 0
      /\ DOMAIN issued = 1..(n - 1) /\ DOMAIN issued' = 1..n
      /\ issued'[n] = s /\ \A i \in DOMAIN issued : issued'[i] = issued[i]
  BY <1>0, <1>1 DEF IInv, TypeOK, IssueReset
<1>3. reset'[s] = n /\ \A x \in Shops \ {s} : reset'[x] = reset[x]
  BY <1>2 DEF IInv, TypeOK, IssueReset, StoreToken
<1>4. TypeOK'
  <2>1. reset' \in [Shops -> 0..n]
    BY <1>2 DEF IInv, TypeOK, IssueReset, StoreToken
  <2>2. DOMAIN issued \subseteq DOMAIN issued'
    BY <1>2
  <2>3. (followed \cup lapsed \subseteq DOMAIN issued)' /\ (resets \subseteq (DOMAIN issued) \X Passwords)'
    BY <1>1, <2>2 DEF IInv, TypeOK
  <2> QED
    BY <1>1, <1>2, <2>1, <2>3 DEF IInv, TypeOK
<1>5. TasksOK'
  BY <1>1, <1>2 DEF IInv, TasksOK
<1>6. NamesOK' /\ WholeOK'
  BY CreationsKept DEF IssueReset
<1>7. /\ LinksOf(s)' = LinksOf(s) \cup {n}
      /\ \A x \in Shops \ {s} : LinksOf(x)' = LinksOf(x)
  BY <1>2 DEF LinksOf
<1>8. \A x \in Shops : MadeOf(x)' = MadeOf(x)
  BY <1>1, <1>2 DEF IInv, TypeOK, MadeOf
<1>9. Newest(s, n)'
  BY <1>2, <1>7 DEF LinksOf, Newest
<1>10. \A x \in Shops \ {s} : \A i : Newest(x, i)' = Newest(x, i)
  BY <1>7 DEF Newest
<1>11. LinksOK'
  <2>1. ASSUME NEW x \in Shops \ {s}, LinksOf(x) # {}
        PROVE  \E i \in DOMAIN issued' :
                 Newest(x, i)' /\ (reset'[x] = 0 => x \in unsure' \/ i \in followed' \cup lapsed')
    BY <1>1, <1>2, <1>3, <1>10, <2>1 DEF IInv, LinksOK
  <2> QED
    BY <1>1, <1>2, <1>3, <1>7, <1>9, <1>10, <2>1 DEF IInv, LinksOK
<1>12. ASSUME NEW x \in Shops \ unsure' PROVE Calm(x)'
  <2>1. Calm(x) /\ Pending(x)' = Pending(x)
    BY <1>1, <1>12 DEF IInv, Pending
  <2>2. CASE x # s
    BY <1>1, <1>3, <1>7, <1>8, <2>1, <2>2, CalmKept
  <2>3. CASE x = s
    <3>1. Pending(s) = {}
      BY <1>1, <1>12, <2>3
    <3>2. \A y \in MadeOf(s) : y[1] # n
      BY <1>2 DEF IInv, TypeOK, MadeOf
    <3> QED
      BY <1>1, <1>3, <1>8, <2>1, <2>3, <3>1, <3>2 DEF Calm
  <2> QED
    BY <2>2, <2>3
<1> QED
  BY <1>4, <1>5, <1>6, <1>11, <1>12 DEF IInv

LEMMA ResetExpiresKeeps ==
  ASSUME IInv, NEW s \in Shops, ResetExpires(s)
  PROVE  IInv'
<1>1. /\ reset[s] # 0 /\ lapsed' = lapsed \cup {reset[s]}
      /\ UNCHANGED <<shops, shifts, creating, asked, wants, faults, username, issued, followed,
                     password, firsts, resets, pc, at, item, unsure>>
  BY DEF ResetExpires, creation, passwords, task
<1>2. reset' \in [Shops -> 0..Len(issued)] /\ reset'[s] = 0 /\ \A x \in Shops \ {s} : reset'[x] = reset[x]
  BY DEF IInv, TypeOK, ResetExpires
<1>3. reset[s] \in DOMAIN issued
  BY <1>1 DEF IInv, LinksOK, LinksOf, Newest
<1>4. TypeOK'
  BY <1>1, <1>2, <1>3 DEF IInv, TypeOK
<1>5. TasksOK'
  BY <1>1 DEF IInv, TasksOK
<1>6. NamesOK' /\ WholeOK'
  BY CreationsKept DEF ResetExpires
<1>7. \A x : LinksOf(x)' = LinksOf(x) /\ MadeOf(x)' = MadeOf(x) /\ Pending(x)' = Pending(x)
  BY <1>1 DEF LinksOf, MadeOf, Pending
<1>8. \A x, i : Newest(x, i)' = Newest(x, i)
  BY <1>7 DEF Newest
<1>9. LinksOK'
  <2>1. Newest(s, reset[s])
    BY <1>1 DEF IInv, LinksOK
  <2> QED
    BY <1>1, <1>2, <1>3, <1>7, <1>8, <2>1 DEF IInv, LinksOK
<1>10. ASSUME NEW x \in Shops \ unsure' PROVE Calm(x)'
  BY <1>1, <1>2, <1>7, <1>8, <1>10 DEF IInv, Calm
<1> QED
  BY <1>4, <1>5, <1>6, <1>9, <1>10 DEF IInv

LEMMA FindResetKeeps ==
  ASSUME IInv, NEW h \in Handlers, NEW s \in Shops, NEW p \in Passwords, FindReset(h, s, p)
  PROVE  IInv'
<1>1. PICK i \in DOMAIN issued : i = reset[s] /\ i # 0 /\ Newest(s, i) /\ issued[i] = s
  BY DEF IInv, LinksOK, LinksOf, Newest, FindReset
<1>2. /\ followed' = followed \cup {i}
      /\ unsure' = IF Pending(s) # {} THEN unsure \cup {s} ELSE unsure
      /\ UNCHANGED <<shops, shifts, creating, asked, wants, faults, username, issued, reset,
                     lapsed, password, firsts, resets>>
  BY <1>1 DEF FindReset, MarkUnsure, creation, passwords
<1>3. Start(h, "reset", s, <<i, p>>) /\ <<i, p>>[1] = i /\ <<i, p>>[2] = p
  BY <1>1 DEF FindReset
<1>4. /\ TasksOK' /\ pc' \in [Handlers -> {"idle", "provision", "first", "reset"}]
      /\ pc[h] = "idle" /\ pc'[h] = "reset" /\ at'[h] = s /\ item'[h] = <<i, p>> /\ s \in shops
      /\ \A g \in Handlers \ {h} : pc'[g] = pc[g] /\ at'[g] = at[g] /\ item'[g] = item[g]
  <2>1. UNCHANGED <<creation, issued>> /\ followed \subseteq followed' /\ i \in followed'
    BY <1>2 DEF creation
  <2> QED
    BY <1>1, <1>3, <2>1, TaskStarts
<1>5. TypeOK'
  BY <1>2, <1>4 DEF IInv, TypeOK
<1>6. NamesOK' /\ WholeOK'
  BY CreationsKept DEF FindReset
<1>7. \A x : LinksOf(x)' = LinksOf(x) /\ MadeOf(x)' = MadeOf(x)
  BY <1>2 DEF LinksOf, MadeOf
<1>8. \A x, j : Newest(x, j)' = Newest(x, j)
  BY <1>7 DEF Newest
<1>9. LinksOK'
  BY <1>2, <1>7, <1>8 DEF IInv, LinksOK
<1>10. ASSUME NEW x \in Shops \ unsure' PROVE Calm(x)'
  <2>1. Calm(x)
    BY <1>2, <1>10 DEF IInv
  <2>2. CASE x # s
    <3>1. Pending(x)' = Pending(x) /\ h \notin Pending(x)
      BY <1>4, <2>2 DEF Pending
    <3> QED
      BY <1>2, <1>4, <1>7, <2>1, <3>1, CalmKept DEF Pending
  <2>3. CASE x = s
    <3>1. Pending(s) = {} /\ Pending(s)' = {h}
      BY <1>2, <1>4, <1>10, <2>3 DEF Pending
    <3>2. \A y \in MadeOf(s) : y[1] # i
      BY <1>1, <2>1, <2>3 DEF Calm
    <3> QED
      BY <1>1, <1>2, <1>3, <1>4, <1>7, <1>8, <2>1, <2>3, <3>1, <3>2 DEF Calm
  <2> QED
    BY <2>2, <2>3
<1> QED
  BY <1>4, <1>5, <1>6, <1>9, <1>10 DEF IInv

LEMMA FinishResetKeeps ==
  ASSUME IInv, NEW h \in Handlers, FinishReset(h)
  PROVE  IInv'
<1>1. /\ TasksOK' /\ pc' \in [Handlers -> {"idle", "provision", "first", "reset"}]
      /\ pc[h] = "reset" /\ pc'[h] = "idle"
      /\ \A g \in Handlers \ {h} : pc'[g] = pc[g] /\ at'[g] = at[g] /\ item'[g] = item[g]
  BY TaskEnds DEF FinishReset, End
<1>2. PICK s \in shops, i \in DOMAIN issued, p \in Passwords :
        s = at[h] /\ i = item[h][1] /\ p = item[h][2] /\ issued[i] = s /\ i \in followed
  BY <1>1 DEF IInv, TypeOK, TasksOK
<1>3. /\ s \in Shops /\ p # None
      /\ password' = [password EXCEPT ![s] = p] /\ resets' = resets \cup {<<i, p>>}
      /\ reset' = [reset EXCEPT ![s] = 0]
      /\ UNCHANGED <<shops, shifts, creating, asked, wants, faults, username, issued, followed,
                     lapsed, firsts, unsure>>
  BY <1>2, ShopAccountsAssumption DEF IInv, TypeOK, FinishReset, ClearReset, creation
<1>4. /\ password'[s] = p /\ reset'[s] = 0
      /\ \A x \in Shops \ {s} : password'[x] = password[x] /\ reset'[x] = reset[x]
  BY <1>3 DEF IInv, TypeOK
<1>5. TypeOK'
  BY <1>1, <1>2, <1>3 DEF IInv, TypeOK
<1>6. NamesOK' /\ WholeOK'
  BY CreationsKept DEF FinishReset
<1>7. \A x : LinksOf(x)' = LinksOf(x)
  BY <1>3 DEF LinksOf
<1>8. \A x, j : Newest(x, j)' = Newest(x, j)
  BY <1>7 DEF Newest
<1>9. <<i, p>>[1] = i /\ <<i, p>>[2] = p
  OBVIOUS
<1>10. MadeOf(s)' = MadeOf(s) \cup {<<i, p>>} /\ \A x \in Shops \ {s} : MadeOf(x)' = MadeOf(x)
  BY <1>2, <1>3, <1>9 DEF MadeOf
<1>11. i \in LinksOf(s)
  BY <1>2 DEF LinksOf
<1>12. s \notin unsure => Newest(s, i) /\ \A y \in MadeOf(s) : y[1] # i
  <2>1. h \in Pending(s)
    BY <1>1, <1>2 DEF Pending
  <2>2. s \notin unsure => Calm(s)
    BY <1>3 DEF IInv
  <2> QED
    BY <1>1, <1>2, <2>1, <2>2 DEF Calm
<1>13. LinksOK'
  <2>1. s \notin unsure => \A j : Newest(s, j) => j = i
    BY <1>2, <1>12 DEF IInv, TypeOK, Newest, LinksOf
  <2> QED
    BY <1>2, <1>3, <1>4, <1>7, <1>8, <2>1 DEF IInv, LinksOK
<1>14. ASSUME NEW x \in Shops \ unsure' PROVE Calm(x)'
  <2>1. Calm(x)
    BY <1>3, <1>14 DEF IInv
  <2>2. Pending(x)' = Pending(x) \ {h}
    BY <1>1 DEF Pending
  <2>3. CASE x # s
    BY <1>1, <1>3, <1>4, <1>7, <1>10, <2>1, <2>2, <2>3, CalmKept DEF Pending
  <2>4. CASE x = s
    <3>1. Pending(s)' = {}
      BY <1>1, <1>2, <2>1, <2>2, <2>4 DEF Calm, Pending
    <3>2. \A y \in MadeOf(s) : y[1] \in LinksOf(s)
      BY DEF IInv, TypeOK, LinksOf, MadeOf
    <3>3. \A y \in MadeOf(s)' : y[1] <= i
      BY <1>3, <1>9, <1>10, <1>11, <1>12, <1>14, <2>4, <3>2 DEF Newest
    <3>4. <<i, p>> \in MadeOf(s)' /\ <<i, p>>[2] = password'[s]
      BY <1>4, <1>9, <1>10
    <3>5. \A y, z \in MadeOf(s)' : y[1] = z[1] => y = z
      BY <1>3, <1>9, <1>10, <1>12, <1>14, <2>1, <2>4 DEF Calm
    <3> QED
      BY <1>3, <1>4, <2>1, <2>4, <3>1, <3>3, <3>4, <3>5 DEF Calm
  <2> QED
    BY <2>3, <2>4
<1> QED
  BY <1>1, <1>5, <1>6, <1>13, <1>14 DEF IInv

-----------------------------------------------------------------------------
\* Every step keeps the invariant.
THEOREM NextIInv == IInv /\ [Next]_vars => IInv'
<1> SUFFICES ASSUME IInv, [Next]_vars PROVE IInv'
  OBVIOUS
<1>1. CASE CreationNext
  BY <1>1, BeginCreationKeeps, CheckNameKeeps, SetNameKeeps, InsertShiftKeeps,
     CommitKeeps, RollbackKeeps, SignUpKeeps, FinishSignUpKeeps, FailSignUpKeeps
     DEF CreationNext
<1>2. CASE PasswordNext
  BY <1>2, SetFirstKeeps, FindResetKeeps, IssueResetKeeps, ResetExpiresKeeps,
     FinishFirstKeeps, FinishResetKeeps DEF PasswordNext
<1>3. CASE \E h \in Handlers, s \in Shops, n \in Usernames : Provision(h, s, n)
  BY <1>3, ProvisionKeeps
<1>4. CASE \E h \in Handlers : FinishProvision(h) \/ GiveUp(h)
  BY <1>4, FinishProvisionKeeps, GiveUpKeeps
<1>5. CASE UNCHANGED vars
  <2>1. TypeOK' /\ TasksOK' /\ NamesOK' /\ WholeOK'
    BY <1>5 DEF IInv, TypeOK, TasksOK, NamesOK, WholeOK, Holds, vars, creation, tokens,
       passwords, task
  <2>2. LinksOK' /\ \A s \in Shops \ unsure' : Calm(s)'
    BY <1>5, LinksKept DEF vars, task
  <2> QED
    BY <2>1, <2>2 DEF IInv
<1> QED
  BY <1>1, <1>2, <1>3, <1>4, <1>5 DEF Next

\* So it holds in every reachable state.
THEOREM ShopAccountsInvariant == Spec => []IInv
  BY InitIInv, NextIInv, PTL DEF Spec

\* Every variable keeps its type, no shop gets more shifts than it is to get,
\* and only shops that exist have passwords and tokens.
THEOREM ShopAccountsTypeCorrect == Spec => []TypeOK
<1>1. IInv => TypeOK
  BY DEF IInv
<1> QED
  BY <1>1, ShopAccountsInvariant, PTL

\* A username signs in to one shop, however the checks, updates and commits
\* that give it interleave.
THEOREM UsernamesStayUnique == Spec => []OneShopPerUsername
<1>1. IInv => OneShopPerUsername
  BY DEF IInv, TypeOK, NamesOK, OneShopPerUsername
<1> QED
  BY <1>1, ShopAccountsInvariant, PTL

\* The admin's shop appears with a username and all its shifts or leaves
\* nothing behind; an answered signup has its shop and its shifts.
THEOREM ShopsAlwaysArriveWhole == Spec => []ShopsArriveWhole
<1>1. IInv => ShopsArriveWhole
  BY DEF IInv, NamesOK, WholeOK, Holds, Shops, ShopsArriveWhole
<1> QED
  BY <1>1, ShopAccountsInvariant, PTL

\* What the links of a shop say of the one mailed last.
LEMMA LatestIsNewest ==
  ASSUME IInv, NEW s \in Shops
  PROVE  /\ LinksOf(s) = {} => Latest(s) = 0
         /\ \A i : Newest(s, i) => Latest(s) = i
<1>1. \A i \in DOMAIN issued : i \in Nat \ {0}
  BY DEF IInv, TypeOK
<1>2. Latest(s) = CHOOSE m \in LinksOf(s) \cup {0} : \A j \in LinksOf(s) \cup {0} : m >= j
  BY DEF Latest, Max, LinksOf
<1>3. LinksOf(s) = {} => Latest(s) = 0
  BY <1>2
<1>4. ASSUME NEW i, Newest(s, i) PROVE Latest(s) = i
  <2>1. i \in LinksOf(s) \cup {0} /\ \A j \in LinksOf(s) \cup {0} : i >= j
    BY <1>1, <1>4 DEF Newest, LinksOf
  <2>2. \A m \in LinksOf(s) \cup {0} : (\A j \in LinksOf(s) \cup {0} : m >= j) => m = i
    BY <1>1, <2>1 DEF LinksOf
  <2> QED
    BY <1>2, <2>1, <2>2
<1> QED
  BY <1>3, <1>4

\* A set whose members are all equal has one at most.
LEMMA AtMostOne ==
  ASSUME NEW S, \A x, y \in S : x = y PROVE Cardinality(S) <= 1
<1>1. CASE S = {}
  BY <1>1, FS_EmptySet
<1>2. CASE S # {}
  <2>1. PICK x \in S : S = {x}
    BY <1>2
  <2> QED
    BY <2>1, FS_Singleton
<1> QED
  BY <1>1, <1>2

\* The invariant says what the links of a shop have set.
LEMMA LinksDecide == ASSUME IInv PROVE PasswordsFollowTheirLinks
<1>1. LatestResetCounts
  <2> SUFFICES ASSUME NEW s \in Shops
               PROVE  /\ reset[s] \in {0, Latest(s)}
                      /\ s \notin unsure /\ reset[s] = 0 =>
                           Latest(s) \in followed \cup lapsed \cup {0}
    BY DEF LatestResetCounts
  <2>1. reset[s] \in {0, Latest(s)}
    BY LatestIsNewest DEF IInv, LinksOK
  <2>2. s \notin unsure /\ reset[s] = 0 => Latest(s) \in followed \cup lapsed \cup {0}
    BY LatestIsNewest DEF IInv, LinksOK
  <2> QED
    BY <2>1, <2>2
<1>2. EachSetsOnce
  <2> SUFFICES ASSUME NEW s \in Shops \ unsure
               PROVE  /\ Cardinality({x \in firsts : x[1] = s}) <= 1
                      /\ \A i \in DOMAIN issued : issued[i] = s =>
                           Cardinality({x \in resets : x[1] = i}) <= 1
    BY DEF EachSetsOnce
  <2>1. Calm(s)
    BY DEF IInv
  <2>2. Cardinality({x \in firsts : x[1] = s}) <= 1
    BY <2>1, AtMostOne DEF Calm
  <2>3. ASSUME NEW i \in DOMAIN issued, issued[i] = s
        PROVE  Cardinality({x \in resets : x[1] = i}) <= 1
    <3>1. {x \in resets : x[1] = i} \subseteq MadeOf(s)
      BY <2>3 DEF MadeOf
    <3> QED
      BY <2>1, <3>1, AtMostOne DEF Calm
  <2> QED
    BY <2>2, <2>3
<1>3. NewestPasswordStands
  BY DEF IInv, Calm, MadeOf, NewestPasswordStands
<1> QED
  BY <1>1, <1>2, <1>3 DEF PasswordsFollowTheirLinks

\* The newest link alone resets a password, each request sets one, and the one
\* set last stands, unless requests for the same shop overlapped.
THEOREM PasswordsAlwaysFollowTheirLinks == Spec => []PasswordsFollowTheirLinks
<1>1. IInv => PasswordsFollowTheirLinks
  BY LinksDecide
<1> QED
  BY <1>1, ShopAccountsInvariant, PTL

=============================================================================
