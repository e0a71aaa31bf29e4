------------------------ MODULE AvailabilityIntake -------------------------
(***************************************************************************)
(* How an employee's chat message becomes the week's availability: the bot *)
(* looks the sender up, has the message parsed, stores a draft and shows   *)
(* it with a Confirm and a Cancel button (telegram.Bot, the store's        *)
(* AvailabilityDraftRepo and AvailabilityRepo).                            *)
(*                                                                         *)
(* Every update runs in a goroutine of the webhook server, so messages and *)
(* taps of one employee overlap; Telegram delivers a tap again when it has *)
(* had no answer; a request can be cut off between any two calls.  A       *)
(* handler is a sequence of database calls, none of them in a transaction. *)
(***************************************************************************)
EXTENDS Naturals, FiniteSets

CONSTANTS
  Accounts,    \* Telegram accounts
  Employees,   \* employee rows, of any shop
  AccountOf,   \* AccountOf[e]: the account linked to employee row e
  Messages,    \* messages sent to the bot; a draft has the name of its message
  AuthorOf,    \* AuthorOf[m]: the account that sends m
  Handlers,    \* taps that can be handled at the same time
  Nothing,     \* the value of a row, a draft or an employee there is none of
  LastWeek,    \* bound: weeks that are planned for in a behaviour
  MaxFaults    \* bound: deletes that fail and requests that are cut off

ASSUME AvailabilityIntakeAssumption ==
  /\ AccountOf \in [Employees -> Accounts]
  /\ AuthorOf \in [Messages -> Accounts]
  /\ Nothing \notin Messages \cup Employees
  /\ LastWeek \in Nat \ {0}
  /\ MaxFaults \in Nat

Weeks == 1..LastWeek

VARIABLES
  week,          \* the week nextMonday names now
  active,        \* employees whose is_active is true
  msgPC,         \* where each message stands
  employeeOf,    \* the employee each message was taken for
  weekOf,        \* the week it was taken for
  drafts,        \* the availability_drafts table
  expired,       \* drafts whose expires_at has passed
  availability,  \* availability[e, w]: the draft whose slots the row holds
  pc,            \* where each tap stands
  tapped,        \* the draft it is about
  faults,        \* deletes that failed and requests that were cut off
  confirmed,     \* history: drafts whose Confirm their author tapped in time
  saved,         \* history: drafts answered "saved"
  discarded,     \* history: drafts answered "discarded"
  chosen,        \* history: the draft last answered "saved" for the first time
  disturbed      \* history: employees whose taps overlapped or met a fault

msgVars  == <<msgPC, employeeOf, weekOf>>
history  == <<confirmed, saved, discarded, chosen, disturbed>>
vars == <<week, active, msgVars, drafts, expired, availability, pc, tapped,
          faults, history>>

RowOf(d) == <<employeeOf[d], weekOf[d]>>

\* The taps under way that are about a draft of employee e.
TapsOf(e) == {h \in Handlers : pc[h] # "idle" /\ employeeOf[tapped[h]] = e}

Init ==
  /\ week = 1
  /\ active \in SUBSET Employees
  /\ msgPC = [m \in Messages |-> "unsent"]
  /\ employeeOf = [m \in Messages |-> Nothing]
  /\ weekOf = [m \in Messages |-> 1]
  /\ drafts = {}
  /\ expired = {}
  /\ availability = [k \in Employees \X Weeks |-> Nothing]
  /\ pc = [h \in Handlers |-> "idle"]
  /\ tapped = [h \in Handlers |-> Nothing]
  /\ faults = 0
  /\ confirmed = {} /\ saved = {} /\ discarded = {} /\ disturbed = {}
  /\ chosen = [k \in Employees \X Weeks |-> Nothing]

-----------------------------------------------------------------------------
(* The world around the bot.                                               *)

\* Monday: nextMonday names the week after.
Rollover ==
  /\ week < LastWeek
  /\ week' = week + 1
  /\ UNCHANGED <<active, msgVars, drafts, expired, availability, pc, tapped,
                 faults, history>>

\* The owner suspends or reactivates an employee.
SetActive(e) ==
  /\ active' = IF e \in active THEN active \ {e} ELSE active \cup {e}
  /\ UNCHANGED <<week, msgVars, drafts, expired, availability, pc, tapped,
                 faults, history>>

\* Thirty minutes pass.
Expire(d) ==
  /\ d \in drafts \ expired
  /\ expired' = expired \cup {d}
  /\ UNCHANGED <<week, active, msgVars, drafts, availability, pc, tapped,
                 faults, history>>

-----------------------------------------------------------------------------
(* Messages: handleAvailabilityText.                                       *)

WeekAfterNext == week + 1  \* bug: Monday itself counted twice
NextMonday    == week

\* ByTelegramID takes any active employee row of the sender: one who works in
\* two shops has two.  Shop, timezone and week are settled here, and then the
\* language model is asked.  Without a row the bot only answers.
Receive(m, e) ==
  /\ msgPC[m] = "unsent"
  /\ e \in active /\ AccountOf[e] = AuthorOf[m]
  /\ msgPC' = [msgPC EXCEPT ![m] = "parsing"]
  /\ employeeOf' = [employeeOf EXCEPT ![m] = e]
  /\ weekOf' = [weekOf EXCEPT ![m] = NextMonday]
  /\ UNCHANGED <<week, active, drafts, expired, availability, pc, tapped,
                 faults, history>>

\* The parsed slots are valid: the draft is stored and shown.
CreateDraft(m) ==
  /\ msgPC[m] = "parsing"
  /\ msgPC' = [msgPC EXCEPT ![m] = "shown"]
  /\ drafts' = drafts \cup {m}
  /\ UNCHANGED <<week, active, employeeOf, weekOf, expired, availability, pc,
                 tapped, faults, history>>

\* The model has a question, fails, or finds no valid slots.
RefuseMessage(m) ==
  /\ msgPC[m] = "parsing"
  /\ msgPC' = [msgPC EXCEPT ![m] = "refused"]
  /\ UNCHANGED <<week, active, employeeOf, weekOf, drafts, expired,
                 availability, pc, tapped, faults, history>>

-----------------------------------------------------------------------------
(* Taps: handleAvailabilityConfirm and handleAvailabilityCancel.           *)

\* AvailabilityDraftRepo.Get, in time.
Live(d) == d \in drafts \ expired

OwnedByAnyone(account, d) == Live(d)  \* bug: the sender is not compared

\* loadOwnedDraft: the tap is answered at once unless the draft is live and
\* the sender's own.
Owned(account, d) == Live(d) /\ account = AuthorOf[d]

Load(h, account, button, d) ==
  /\ pc[h] = "idle"
  /\ msgPC[d] = "shown"
  /\ Owned(account, d)
  /\ pc' = [pc EXCEPT ![h] = button]
  /\ tapped' = [tapped EXCEPT ![h] = d]
  /\ confirmed' = IF button = "confirm" /\ account = AuthorOf[d] /\ Live(d)
                  THEN confirmed \cup {d} ELSE confirmed
  /\ disturbed' = IF TapsOf(employeeOf[d]) # {}
                  THEN disturbed \cup {employeeOf[d]} ELSE disturbed
  /\ UNCHANGED <<week, active, msgVars, drafts, expired, availability, faults,
                 saved, discarded, chosen>>

\* Get removes the draft it finds expired.
LoadExpired(d) ==
  /\ msgPC[d] = "shown"
  /\ d \in drafts \cap expired
  /\ drafts' = drafts \ {d}
  /\ UNCHANGED <<week, active, msgVars, expired, availability, pc, tapped,
                 faults, history>>

\* ReplaceWeek: one row per shop, employee and week, replaced wholesale.
ReplaceWeek(h) ==
  /\ pc[h] = "confirm"
  /\ availability' = [availability EXCEPT ![RowOf(tapped[h])] = tapped[h]]
  /\ pc' = [pc EXCEPT ![h] = "written"]
  /\ UNCHANGED <<week, active, msgVars, drafts, expired, tapped, faults, history>>

\* It fails: the handler gives up without an answer and the draft stays.
ReplaceFails(h) ==
  /\ pc[h] = "confirm"
  /\ pc' = [pc EXCEPT ![h] = "idle"]
  /\ tapped' = [tapped EXCEPT ![h] = Nothing]
  /\ UNCHANGED <<week, active, msgVars, drafts, expired, availability, faults,
                 history>>

AfterDelete(h) ==
  pc' = [pc EXCEPT ![h] = IF @ = "written" THEN "saved" ELSE "discarded"]

SpentByCancel(h)  == IF pc[h] = "cancel" THEN {tapped[h]} ELSE {}   \* bug: Confirm keeps it
SpentByConfirm(h) == IF pc[h] = "written" THEN {tapped[h]} ELSE {}  \* bug: Cancel keeps it
Spent(h)          == {tapped[h]}

DeleteDraft(h) ==
  /\ pc[h] \in {"written", "cancel"}
  /\ drafts' = drafts \ Spent(h)
  /\ AfterDelete(h)
  /\ UNCHANGED <<week, active, msgVars, expired, availability, tapped, faults,
                 history>>

\* The delete fails and its error is ignored: the draft stays live.
DeleteFails(h) ==
  /\ pc[h] \in {"written", "cancel"}
  /\ faults < MaxFaults
  /\ faults' = faults + 1
  /\ AfterDelete(h)
  /\ disturbed' = disturbed \cup {employeeOf[tapped[h]]}
  /\ UNCHANGED <<week, active, msgVars, drafts, expired, availability, tapped,
                 confirmed, saved, discarded, chosen>>

\* The employee reads that the draft is saved, or discarded.
Answer(h) ==
  LET d == tapped[h]
  IN  /\ pc[h] \in {"saved", "discarded"}
      /\ pc' = [pc EXCEPT ![h] = "idle"]
      /\ tapped' = [tapped EXCEPT ![h] = Nothing]
      /\ IF pc[h] = "saved"
         THEN /\ saved' = saved \cup {d}
              /\ chosen' = IF d \in saved THEN chosen
                           ELSE [chosen EXCEPT ![RowOf(d)] = d]
              /\ UNCHANGED discarded
         ELSE /\ discarded' = discarded \cup {d}
              /\ UNCHANGED <<saved, chosen>>
      /\ UNCHANGED <<week, active, msgVars, drafts, expired, availability,
                     faults, confirmed, disturbed>>

\* The request is cut off, or the process dies, before the next call.
CutOff(h) ==
  /\ pc[h] # "idle"
  /\ faults < MaxFaults
  /\ faults' = faults + 1
  /\ pc' = [pc EXCEPT ![h] = "idle"]
  /\ tapped' = [tapped EXCEPT ![h] = Nothing]
  /\ disturbed' = disturbed \cup {employeeOf[tapped[h]]}
  /\ UNCHANGED <<week, active, msgVars, drafts, expired, availability,
                 confirmed, saved, discarded, chosen>>

-----------------------------------------------------------------------------
Tap(h) ==
  \/ \E account \in Accounts, button \in {"confirm", "cancel"}, d \in Messages :
       Load(h, account, button, d)
  \/ ReplaceWeek(h) \/ ReplaceFails(h) \/ DeleteDraft(h) \/ DeleteFails(h)
  \/ Answer(h) \/ CutOff(h)

Message(m) ==
  \/ \E e \in Employees : Receive(m, e)
  \/ CreateDraft(m) \/ RefuseMessage(m) \/ Expire(m) \/ LoadExpired(m)

Next ==
  \/ Rollover
  \/ \E e \in Employees : SetActive(e)
  \/ \E m \in Messages : Message(m)
  \/ \E h \in Handlers : Tap(h)

Spec == Init /\ [][Next]_vars

-----------------------------------------------------------------------------
(* Properties.                                                             *)

TypeOK ==
  /\ week \in Weeks
  /\ active \subseteq Employees
  /\ msgPC \in [Messages -> {"unsent", "parsing", "shown", "refused"}]
  /\ employeeOf \in [Messages -> Employees \cup {Nothing}]
  /\ weekOf \in [Messages -> Weeks]
  /\ drafts \subseteq Messages /\ expired \subseteq Messages
  /\ availability \in [Employees \X Weeks -> Messages \cup {Nothing}]
  /\ pc \in [Handlers -> {"idle", "confirm", "cancel", "written", "saved", "discarded"}]
  /\ tapped \in [Handlers -> Messages \cup {Nothing}]
  /\ faults \in 0..MaxFaults
  /\ confirmed \subseteq Messages /\ saved \subseteq Messages
  /\ discarded \subseteq Messages /\ disturbed \subseteq Employees
  /\ chosen \in [Employees \X Weeks -> Messages \cup {Nothing}]

\* "Only Confirm writes availability to the database": whatever overlaps,
\* expires or fails, a row holds the slots of a message that the employee's
\* own account sent for that employee and week, and whose Confirm that account
\* tapped while the draft was live.
SavedByItsAuthor ==
  \A k \in Employees \X Weeks :
    LET d == availability[k]
    IN  d # Nothing => /\ d \in confirmed
                       /\ RowOf(d) = k
                       /\ AuthorOf[d] = AccountOf[k[1]]

\* As long as an employee's taps have neither overlapped nor met a fault, each
\* row holds the draft last answered "saved", although old buttons stay on
\* screen and Telegram may deliver a tap again at any later time.
LatestChoiceStands ==
  \A e \in Employees \ disturbed, w \in Weeks :
    TapsOf(e) = {} => availability[<<e, w>>] = chosen[<<e, w>>]

\* Under the same condition a draft answered "discarded" is never saved.
UndisturbedDiscardHolds ==
  \A d \in discarded :
    employeeOf[d] \notin disturbed => availability[RowOf(d)] # d

\* What the employee chose last holds, saved or discarded: the two above.  A
\* Cancel that is handled while a Confirm of its draft is under way is what
\* disturbs it: Confirm saves the draft that was just answered "discarded".
ChoicesStand == LatestChoiceStands /\ UndisturbedDiscardHolds
=============================================================================
