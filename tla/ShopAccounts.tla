---------------------------- MODULE ShopAccounts ----------------------------
(***************************************************************************)
(* How shops and the accounts of their dashboards come into being: the     *)
(* admin portal creates a shop in one transaction (admin/provision.go), a  *)
(* signup creates one in a sequence of calls (onboarding/service.go), the  *)
(* owner sets a first password and resets it by a mailed link              *)
(* (store/dashboard_account.go, dashboard_password.go).                    *)
(*                                                                         *)
(* A shop is named by the request that creates it, since its id is fresh.  *)
(* Outside the transaction every call commits by itself.                   *)
(***************************************************************************)
EXTENDS Naturals, FiniteSets, FiniteSetsExt, Sequences

CONSTANTS
  Creations,      \* requests of the admin to create a shop
  Signups,        \* requests of owners to create one
  Usernames,
  Passwords,
  Handlers,       \* requests about shops that are handled at the same time
  None,           \* no username, no password, no shop
  DefaultShifts,  \* how many default shifts there are; fourteen in the code
  MaxTokens,      \* bound: reset links mailed
  MaxFaults       \* bound: commits whose answer is lost

Shops == Creations \cup Signups

ASSUME ShopAccountsAssumption ==
  /\ Creations \cap Signups = {}
  /\ None \notin Shops \cup Usernames \cup Passwords
  /\ DefaultShifts \in Nat /\ MaxTokens \in Nat /\ MaxFaults \in Nat

VARIABLES
  shops,     \* the shops others can see
  username,  \* dashboard_username of each shop, committed or not
  shifts,    \* how many shifts each shop has
  creating,  \* where the creation of each shop stands
  asked,     \* the username an admin asked for it
  wants,     \* how many shifts it is to get
  password,  \* the password whose hash each shop holds; its email comes with it
  issued,    \* the shop of every reset token, in order; a token is its place
  reset,     \* the token of a shop that can be redeemed, 0 if there is none
  pc,        \* where each handler stands
  at,        \* the shop it is about
  item,      \* the username, password or token it holds
  faults,    \* commits whose answer was lost
  firsts,    \* history: first passwords set, [shop, password]
  followed,  \* history: tokens a reset has found
  lapsed,    \* history: tokens that expired
  resets,    \* history: passwords set by a token, [token, password]
  unsure     \* history: shops of which two password requests overlapped

creation  == <<shops, shifts, creating, asked, wants, faults>>
tokens    == <<issued, reset, followed, lapsed>>
passwords == <<password, firsts, resets>>
task      == <<pc, at, item>>
vars == <<creation, username, tokens, passwords, task, unsure>>

Init ==
  /\ shops = {} /\ username = [s \in Shops |-> None]
  /\ shifts = [s \in Shops |-> 0] /\ wants = [s \in Shops |-> 0]
  /\ creating = [s \in Shops |-> "idle"] /\ asked = [s \in Shops |-> None]
  /\ password = [s \in Shops |-> None]
  /\ issued = <<>> /\ reset = [s \in Shops |-> 0]
  /\ pc = [h \in Handlers |-> "idle"] /\ at = [h \in Handlers |-> None]
  /\ item = [h \in Handlers |-> None]
  /\ faults = 0
  /\ firsts = {} /\ followed = {} /\ lapsed = {} /\ resets = {} /\ unsure = {}

-----------------------------------------------------------------------------
(* Usernames: ProvisionDashboardAccount reads, then updates; the column is  *)
(* unique.                                                                 *)

\* Another visible shop has the name.
NameTaken(s, n) == \E t \in shops \ {s} : username[t] = n

\* bug: the column is not unique
NeverHeld(n) == FALSE

\* A transaction that has written the name has not ended; an UPDATE waits.
NameHeld(n) ==
  \E c \in Creations : creating[c] = "named" /\ username[c] = n

-----------------------------------------------------------------------------
(* CreateShopWithAccount: one transaction.                                 *)

Step(s, from, to) ==
  /\ creating[s] = from
  /\ creating' = [creating EXCEPT ![s] = to]

\* The shop is inserted; nobody else sees it.
BeginCreation(c, n, k) ==
  /\ Step(c, "idle", "inserted")
  /\ asked' = [asked EXCEPT ![c] = n] /\ wants' = [wants EXCEPT ![c] = k]
  /\ UNCHANGED <<shops, shifts, faults, username, tokens, passwords, task,
                 unsure>>

CheckName(c) ==
  /\ ~NameTaken(c, asked[c])
  /\ Step(c, "inserted", "checked")
  /\ UNCHANGED <<shops, shifts, asked, wants, faults, username, tokens,
                 passwords, task, unsure>>

SetName(c) ==
  /\ ~NameTaken(c, asked[c]) /\ ~NameHeld(asked[c])
  /\ Step(c, "checked", "named")
  /\ username' = [username EXCEPT ![c] = asked[c]]
  /\ UNCHANGED <<shops, shifts, asked, wants, faults, tokens, passwords, task,
                 unsure>>

\* bug: one shift too many
InsertShiftMore(s) ==
  /\ creating[s] \in {"named", "signed"} /\ shifts[s] <= wants[s]
  /\ shifts' = [shifts EXCEPT ![s] = @ + 1]
  /\ UNCHANGED <<shops, creating, asked, wants, faults, username, tokens,
                 passwords, task, unsure>>

\* Default shifts are inserted one by one, by both ways of creating a shop.
InsertShift(s) ==
  /\ creating[s] \in {"named", "signed"} /\ shifts[s] < wants[s]
  /\ shifts' = [shifts EXCEPT ![s] = @ + 1]
  /\ UNCHANGED <<shops, creating, asked, wants, faults, username, tokens,
                 passwords, task, unsure>>

\* bug: the shifts are left for later
NotAwaited(s) == TRUE

AllInserted(s) == shifts[s] = wants[s]

\* The commit shows the shop; its answer may be lost.
Commit(c) ==
  /\ AllInserted(c)
  /\ shops' = shops \cup {c}
  /\ \/ Step(c, "named", "done") /\ UNCHANGED faults
     \/ /\ Step(c, "named", "unknown")
        /\ faults < MaxFaults /\ faults' = faults + 1
  /\ UNCHANGED <<shifts, asked, wants, username, tokens, passwords, task,
                 unsure>>

\* A call fails or the name is taken: everything is rolled back.
Rollback(c) ==
  /\ creating[c] \in {"inserted", "checked", "named"}
  /\ Step(c, creating[c], "failed")
  /\ username' = [username EXCEPT ![c] = None]
  /\ shifts' = [shifts EXCEPT ![c] = 0]
  /\ UNCHANGED <<shops, asked, wants, faults, tokens, passwords, task, unsure>>

-----------------------------------------------------------------------------
(* CreateShop: the signup, call by call.                                   *)

\* The shop is inserted for all to see, without a username.
SignUp(s, k) ==
  /\ Step(s, "idle", "signed")
  /\ shops' = shops \cup {s}
  /\ wants' = [wants EXCEPT ![s] = k]
  /\ UNCHANGED <<shifts, asked, faults, username, tokens, passwords, task,
                 unsure>>

FinishSignUp(s) ==
  /\ AllInserted(s)
  /\ Step(s, "signed", "done")
  /\ UNCHANGED <<shops, shifts, asked, wants, faults, username, tokens,
                 passwords, task, unsure>>

\* A call fails: the shop and the shifts so far stay.
FailSignUp(s) ==
  /\ Step(s, "signed", "failed")
  /\ UNCHANGED <<shops, shifts, asked, wants, faults, username, tokens,
                 passwords, task, unsure>>

-----------------------------------------------------------------------------
(* Requests about a visible shop: a read, then an UPDATE.                  *)

Start(h, step, s, what) ==
  /\ pc[h] = "idle" /\ s \in shops
  /\ pc' = [pc EXCEPT ![h] = step] /\ at' = [at EXCEPT ![h] = s]
  /\ item' = [item EXCEPT ![h] = what]

End(h, step) ==
  /\ pc[h] = step
  /\ pc' = [pc EXCEPT ![h] = "idle"] /\ at' = [at EXCEPT ![h] = None]
  /\ item' = [item EXCEPT ![h] = None]

\* The read was the last call, or the UPDATE fails.
GiveUp(h) ==
  /\ pc[h] # "idle" /\ End(h, pc[h])
  /\ UNCHANGED <<creation, username, tokens, passwords, unsure>>

\* The admin gives a shop a username, the first or another one.
Provision(h, s, n) ==
  /\ ~NameTaken(s, n)
  /\ Start(h, "provision", s, n)
  /\ UNCHANGED <<creation, username, tokens, passwords, unsure>>

FinishProvision(h) ==
  /\ ~NameTaken(at[h], item[h]) /\ ~NameHeld(item[h])
  /\ username' = [username EXCEPT ![at[h]] = item[h]]
  /\ End(h, "provision")
  /\ UNCHANGED <<creation, tokens, passwords, unsure>>

-----------------------------------------------------------------------------
(* Passwords.  Hashing one takes long enough for another request to come   *)
(* between the read and the UPDATE.                                        *)

Pending(s) == {h \in Handlers : at[h] = s /\ pc[h] \in {"first", "reset"}}
MarkUnsure(s) == unsure' = IF Pending(s) # {} THEN unsure \cup {s} ELSE unsure

HasPassword(s) == password[s] # None

\* Who signs in to a shop without a password sets one.
SetFirst(h, s, p) ==
  /\ username[s] # None /\ ~HasPassword(s)
  /\ Start(h, "first", s, p)
  /\ MarkUnsure(s)
  /\ UNCHANGED <<creation, username, tokens, passwords>>

FinishFirst(h) ==
  LET s == at[h]  p == item[h] IN
  /\ End(h, "first")
  /\ password' = [password EXCEPT ![s] = p]
  /\ firsts' = firsts \cup {<<s, p>>}
  /\ UNCHANGED <<creation, username, tokens, resets, unsure>>

\* bug: a link that is still good is not replaced
KeepsToken(s) ==
  reset' = IF reset[s] # 0 THEN reset ELSE [reset EXCEPT ![s] = Len(issued')]

StoreToken(s) == reset' = [reset EXCEPT ![s] = Len(issued')]

\* A link is mailed to the address on file, and replaces the one before.
IssueReset(s) ==
  /\ s \in shops /\ username[s] # None /\ HasPassword(s)
  /\ Len(issued) < MaxTokens
  /\ issued' = Append(issued, s)
  /\ StoreToken(s)
  /\ MarkUnsure(s)
  /\ UNCHANGED <<creation, username, followed, lapsed, passwords, task>>

\* The hour of a token ends.
ResetExpires(s) ==
  /\ reset[s] # 0
  /\ lapsed' = lapsed \cup {reset[s]}
  /\ reset' = [reset EXCEPT ![s] = 0]
  /\ UNCHANGED <<creation, username, issued, followed, passwords, task, unsure>>

\* A reset finds the shop of its token.
FindReset(h, s, p) ==
  /\ reset[s] # 0
  /\ Start(h, "reset", s, <<reset[s], p>>)
  /\ followed' = followed \cup {reset[s]}
  /\ MarkUnsure(s)
  /\ UNCHANGED <<creation, username, issued, reset, lapsed, passwords>>

\* bug: the token stays
KeepReset(s) == UNCHANGED reset

\* One UPDATE stores the password and clears the shop's token.
ClearReset(s) == reset' = [reset EXCEPT ![s] = 0]

\* bug: the token is cleared and the old password stays
FinishResetKeeping(h) ==
  LET s == at[h]  i == item[h][1]  p == item[h][2] IN
  /\ End(h, "reset")
  /\ resets' = resets \cup {<<i, p>>}
  /\ ClearReset(s)
  /\ UNCHANGED <<creation, username, issued, followed, lapsed, password, firsts,
                 unsure>>

FinishReset(h) ==
  LET s == at[h]  i == item[h][1]  p == item[h][2] IN
  /\ End(h, "reset")
  /\ password' = [password EXCEPT ![s] = p]
  /\ resets' = resets \cup {<<i, p>>}
  /\ ClearReset(s)
  /\ UNCHANGED <<creation, username, issued, followed, lapsed, firsts, unsure>>

-----------------------------------------------------------------------------
CreationNext ==
  \/ \E c \in Creations :
       \/ \E n \in Usernames, k \in {0, DefaultShifts} : BeginCreation(c, n, k)
       \/ CheckName(c) \/ SetName(c) \/ Commit(c) \/ Rollback(c)
  \/ \E s \in Signups :
       \/ SignUp(s, 0) \/ SignUp(s, DefaultShifts)
       \/ FinishSignUp(s) \/ FailSignUp(s)
  \/ \E s \in Shops : InsertShift(s)

PasswordNext ==
  \/ \E h \in Handlers, s \in Shops, p \in Passwords :
       SetFirst(h, s, p) \/ FindReset(h, s, p)
  \/ \E s \in Shops : IssueReset(s) \/ ResetExpires(s)
  \/ \E h \in Handlers : FinishFirst(h) \/ FinishReset(h)

Next ==
  \/ CreationNext
  \/ \E h \in Handlers, s \in Shops, n \in Usernames : Provision(h, s, n)
  \/ \E h \in Handlers : FinishProvision(h) \/ GiveUp(h)
  \/ PasswordNext

Spec == Init /\ [][Next]_vars

-----------------------------------------------------------------------------
(* Properties.                                                             *)

\* Every variable has its type; no shop gets more shifts than it is to get,
\* and only shops that exist have passwords and tokens.
TypeOK ==
  /\ shops \subseteq Shops
  /\ username \in [Shops -> Usernames \cup {None}]
  /\ \A s \in Shops : shifts[s] \in 0..wants[s] /\ wants[s] \in {0, DefaultShifts}
  /\ creating \in [Shops -> {"idle", "inserted", "checked", "named", "signed",
                              "done", "unknown", "failed"}]
  /\ asked \in [Shops -> Usernames \cup {None}]
  /\ password \in [Shops -> Passwords \cup {None}]
  /\ issued \in Seq(shops) /\ reset \in [Shops -> 0..Len(issued)]
  /\ pc \in [Handlers -> {"idle", "provision", "first", "reset"}]
  /\ \A h \in Handlers : pc[h] # "idle" => at[h] \in shops
  /\ faults \in 0..MaxFaults
  /\ firsts \subseteq shops \X Passwords /\ unsure \subseteq shops
  /\ followed \cup lapsed \subseteq DOMAIN issued
  /\ resets \subseteq (DOMAIN issued) \X Passwords

\* A username signs in to one shop (ByDashboardUsername fails if it finds
\* two), however creations and provisioning requests for it interleave
\* between their checks, updates and commits.
OneShopPerUsername ==
  \A s, t \in shops : username[s] = username[t] => s = t \/ username[s] = None

\* The admin's shop appears with its username and all the shifts it is to
\* get, or leaves nothing behind; a signup that is answered has them too.
ShopsArriveWhole ==
  /\ \A c \in Creations :
       /\ c \in shops => username[c] # None /\ shifts[c] = wants[c]
       /\ creating[c] = "failed" => c \notin shops /\ username[c] = None /\ shifts[c] = 0
  /\ \A s \in Signups : creating[s] = "done" => s \in shops /\ shifts[s] = wants[s]

Latest(s) == Max({i \in DOMAIN issued : issued[i] = s} \cup {0})

\* Only the link mailed last can reset a shop's password, and it can until
\* it expires or somebody follows it.  Excepted are shops of which a link was
\* mailed while an earlier one was being redeemed: that UPDATE then clears
\* the new token.
LatestResetCounts ==
  \A s \in Shops :
    /\ reset[s] \in {0, Latest(s)}
    /\ s \notin unsure /\ reset[s] = 0 => Latest(s) \in followed \cup lapsed \cup {0}

\* A shop gets one first password, and one more from each link that is
\* followed, unless requests for its password overlap.
EachSetsOnce ==
  \A s \in Shops \ unsure :
    /\ Cardinality({x \in firsts : x[1] = s}) <= 1
    /\ \A i \in DOMAIN issued : issued[i] = s =>
         Cardinality({x \in resets : x[1] = i}) <= 1

\* The password that opens a shop is the one set by the newest of the links
\* that were followed to the end, or the first one if there is none.
NewestPasswordStands ==
  \A s \in Shops \ unsure :
    LET made == {x \in resets : issued[x[1]] = s} IN
    IF made # {} THEN
      \E x \in made : x[2] = password[s] /\ \A y \in made : y[1] <= x[1]
    ELSE \/ <<s, password[s]>> \in firsts
         \/ password[s] = None /\ \A x \in firsts : x[1] # s

\* A password is the one its newest request or link was to set, and each sets
\* one only.
PasswordsFollowTheirLinks ==
  LatestResetCounts /\ EachSetsOnce /\ NewestPasswordStands
=============================================================================
