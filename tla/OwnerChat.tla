----------------------------- MODULE OwnerChat ------------------------------
(***************************************************************************)
(* The owner's side of the Telegram bot: the one-time link that ties a     *)
(* Telegram account to a shop, the groups the owner binds to it, and the   *)
(* leaves the owner dictates and confirms (telegram/owner.go,              *)
(* chatmember.go, store.ShopRepo).                                         *)
(*                                                                         *)
(* Every update runs in a goroutine of its own.  A handler is a sequence   *)
(* of database calls, none of them in a transaction; a call fails when the *)
(* request is cut off, and may then have taken effect all the same.        *)
(* Drafts of leaves are kept in the memory of the process.                 *)
(***************************************************************************)
EXTENDS Naturals, FiniteSets, FiniteSetsExt, Sequences

CONSTANTS
  Shops,
  Users,       \* Telegram accounts
  Chats,       \* groups the bot may be added to
  Messages,    \* leave requests; a draft has the name of its message
  AuthorOf,    \* AuthorOf[m]: the account that sends m
  Handlers,    \* updates that can be handled at the same time
  None,        \* no owner, no shop, no chat, no draft
  MaxLinks,    \* bound: link tokens issued
  MaxChoices,  \* bound: different answers to what a group is for
  MaxFaults    \* bound: calls that fail having taken effect, and restarts

ASSUME OwnerChatAssumption ==
  /\ AuthorOf \in [Messages -> Users]
  /\ None \notin Shops \cup Users \cup Chats \cup Messages
  /\ MaxLinks \in Nat /\ MaxChoices \in Nat /\ MaxFaults \in Nat

Kinds == {"broadcast", "team"}

VARIABLES
  issued,      \* the shop of every token issued, in order; a token is its place
  link,        \* the token of a shop that can be redeemed, 0 if there is none
  owner,       \* owner_telegram_id of each shop
  asked,       \* groups in which the bot has asked what they are for
  group,       \* group[s][k]: the chat bound to shop s for k
  shopOf,      \* the shop a message was taken for, None before it is
  drafts,      \* the drafts in memory that have not expired
  rules,       \* the shops of the rules made from each draft
  pc,          \* where each handler stands
  by,          \* the account it serves
  at,          \* the shop it has looked up
  item,        \* the token, draft or chat it is about
  faults,      \* calls that failed having taken effect, and restarts
  found,       \* history: tokens a /start has found
  lapsed,      \* history: tokens that expired
  linked,      \* history: tokens and the accounts they made owner
  unsure,      \* history: shops whose links overlapped
  chosen,      \* history: what accounts asked a group to be
  confirmed,   \* history: drafts whose author tapped Confirm in time
  saved,       \* history: drafts answered "saved"
  discarded,   \* history: drafts answered "discarded"
  disturbed    \* history: drafts whose taps overlapped or were cut off

linkTable    == <<issued, link, owner>>
linkHistory  == <<found, lapsed, linked, unsure>>
groups       == <<asked, group, chosen>>
intake       == <<shopOf, drafts, rules>>
draftHistory == <<confirmed, saved, discarded, disturbed>>
task         == <<pc, by, at, item>>
linking == <<linkTable, linkHistory>>
leaves  == <<intake, draftHistory>>
vars    == <<linking, groups, leaves, task, faults>>

Init ==
  /\ issued = <<>>
  /\ link = [s \in Shops |-> 0] /\ owner = [s \in Shops |-> None]
  /\ asked = {} /\ group = [s \in Shops |-> [k \in Kinds |-> None]]
  /\ shopOf = [m \in Messages |-> None]
  /\ drafts = {} /\ rules = [m \in Messages |-> <<>>]
  /\ pc = [h \in Handlers |-> "idle"] /\ by = [h \in Handlers |-> None]
  /\ at = [h \in Handlers |-> None] /\ item = [h \in Handlers |-> None]
  /\ faults = 0
  /\ found = {} /\ lapsed = {} /\ linked = {} /\ unsure = {} /\ chosen = {}
  /\ confirmed = {} /\ saved = {} /\ discarded = {} /\ disturbed = {}

-----------------------------------------------------------------------------
(* Handlers.                                                               *)

Start(h, step, user, shop, what) ==
  /\ pc[h] = "idle"
  /\ pc' = [pc EXCEPT ![h] = step] /\ by' = [by EXCEPT ![h] = user]
  /\ at' = [at EXCEPT ![h] = shop] /\ item' = [item EXCEPT ![h] = what]

Goto(h, step) ==
  /\ pc' = [pc EXCEPT ![h] = step]
  /\ UNCHANGED <<by, at, item>>

End(h) ==
  /\ pc' = [pc EXCEPT ![h] = "idle"] /\ by' = [by EXCEPT ![h] = None]
  /\ at' = [at EXCEPT ![h] = None] /\ item' = [item EXCEPT ![h] = None]

Fault ==
  /\ faults < MaxFaults
  /\ faults' = faults + 1

Busy(steps, what) == {h \in Handlers : pc[h] \in steps /\ item[h] = what}

\* A database call fails without effect, or the message of a leave is not
\* understood, and the handler gives up.  Drafts are deleted without fail.
CallFails(h) ==
  /\ pc[h] \notin {"idle", "stored", "cancel"}
  /\ End(h)
  /\ UNCHANGED <<linking, groups, leaves, faults>>

-----------------------------------------------------------------------------
(* Linking: IssueOwnerLinkToken, then handleOwnerStart in three calls.     *)

TokensOf(s) == {i \in DOMAIN issued : issued[i] = s}
Linking(s) == {h \in Handlers : pc[h] \in {"found", "cleared"} /\ at[h] = s}

MarkUnsure(s) == unsure' = IF Linking(s) # {} THEN unsure \cup {s} ELSE unsure

\* The dashboard issues a token, which replaces the shop's previous one.
IssueOwnerLinkToken(s) ==
  /\ Len(issued) < MaxLinks
  /\ issued' = Append(issued, s)
  /\ link' = [link EXCEPT ![s] = Len(issued')]
  /\ MarkUnsure(s)
  /\ UNCHANGED <<owner, found, lapsed, linked, groups, leaves, task, faults>>

\* The fifteen minutes of a token end.
LinkExpires(s) ==
  /\ link[s] # 0
  /\ lapsed' = lapsed \cup {link[s]}
  /\ link' = [link EXCEPT ![s] = 0]
  /\ UNCHANGED <<issued, owner, found, linked, unsure, groups, leaves, task,
                 faults>>

\* A /start finds the shop of its token.  One that does not is refused.
FindToken(h, u, s) ==
  /\ link[s] # 0
  /\ Start(h, "found", u, s, link[s])
  /\ found' = found \cup {link[s]}
  /\ MarkUnsure(s)
  /\ UNCHANGED <<linkTable, lapsed, linked, groups, leaves, faults>>

\* bug: the tokens of all shops are cleared
ClearAll(s) == link' = [t \in Shops |-> 0]

\* The shop's token is cleared, whichever it is by now.
ClearToken(s) == link' = [link EXCEPT ![s] = 0]

ConsumeToken(h) ==
  /\ pc[h] = "found"
  /\ ClearToken(at[h])
  /\ \/ Goto(h, "cleared") /\ UNCHANGED faults
     \/ End(h) /\ Fault
  /\ UNCHANGED <<issued, owner, linkHistory, groups, leaves>>

\* owner_telegram_id is unique: an account that owns another shop is refused.
Owns(u, s) == owner[s] = u

\* bug: there is no unique index
NeverTaken(u, s) == FALSE

Taken(u, s) == \E t \in Shops \ {s} : Owns(u, t)

\* bug: the account is taken from the shop it owned
SetOwnerMoving(h) ==
  LET s == at[h]  u == by[h] IN
  /\ pc[h] = "cleared"
  /\ owner' = [t \in Shops |-> IF t = s THEN u ELSE IF Owns(u, t) THEN None
                              ELSE owner[t]]
  /\ linked' = linked \cup {<<item[h], u>>}
  /\ End(h)
  /\ UNCHANGED <<issued, link, found, lapsed, unsure, groups, leaves, faults>>

SetOwnerTelegramID(h) ==
  LET s == at[h]  u == by[h] IN
  /\ pc[h] = "cleared"
  /\ IF Taken(u, s) THEN UNCHANGED <<owner, linked>>
     ELSE /\ owner' = [owner EXCEPT ![s] = u]
          /\ linked' = linked \cup {<<item[h], u>>}
  /\ End(h)
  /\ UNCHANGED <<issued, link, found, lapsed, unsure, groups, leaves, faults>>

-----------------------------------------------------------------------------
(* Groups: handleMyChatMember and handleBindCallback.                      *)

\* An owner makes the bot an admin of a group, and it asks what for.
AddedToGroup(u, c) ==
  /\ \E s \in Shops : Owns(u, s)
  /\ asked' = asked \cup {c}
  /\ UNCHANGED <<linking, group, chosen, leaves, task, faults>>

\* A member of the group taps an answer; the shop is looked up by account.
TapBind(h, u, c, k) ==
  /\ c \in asked
  /\ \E s \in Shops : Owns(u, s) /\ Start(h, k, u, s, c)
  /\ chosen' = chosen \cup {<<u, k, c>>}
  /\ Cardinality(chosen') <= MaxChoices
  /\ UNCHANGED <<linking, asked, group, leaves, faults>>

\* The chat is written to the column of the shop that the answer stands for.
Bind(h, answer, column) ==
  /\ pc[h] = answer
  /\ group' = [group EXCEPT ![at[h]][column] = item[h]]
  /\ End(h)
  /\ UNCHANGED <<linking, asked, chosen, leaves, faults>>

BindTelegramGroup(h) == Bind(h, "broadcast", "broadcast")

\* bug: the team's chat is written as the group for announcements
BindTeamAsGroup(h) == Bind(h, "team", "broadcast")

BindTelegramTeamChat(h) == Bind(h, "team", "team")

-----------------------------------------------------------------------------
(* Leaves: handleOwnerText, handleOwnerConfirm, handleOwnerCancel.         *)

DraftSteps == {"confirm", "stored", "cancel"}

\* The message's shop is looked up by its author.
OwnerText(h, m) ==
  /\ shopOf[m] = None /\ Busy({"text"}, m) = {}
  /\ \E s \in Shops : Owns(AuthorOf[m], s) /\ Start(h, "text", AuthorOf[m], s, m)
  /\ UNCHANGED <<linking, groups, leaves, faults>>

\* The leave has been understood and is stored in memory.
CreateDraft(h) ==
  /\ pc[h] = "text"
  /\ shopOf' = [shopOf EXCEPT ![item[h]] = at[h]]
  /\ drafts' = drafts \cup {item[h]}
  /\ End(h)
  /\ UNCHANGED <<linking, groups, rules, draftHistory, faults>>

\* The thirty minutes of a draft end.
DraftExpires(m) ==
  /\ m \in drafts
  /\ drafts' = drafts \ {m}
  /\ UNCHANGED <<linking, groups, shopOf, rules, draftHistory, task, faults>>

\* bug: the author is not compared
CanLoadAny(u, m) == m \in drafts

\* A draft is loaded for its author as long as it lives.
CanLoad(u, m) == m \in drafts /\ u = AuthorOf[m]

Tap(h, u, m, step) ==
  /\ CanLoad(u, m)
  /\ Start(h, step, u, shopOf[m], m)
  /\ disturbed' = IF Busy(DraftSteps, m) # {} THEN disturbed \cup {m} ELSE disturbed
  /\ UNCHANGED <<linking, groups, intake, saved, discarded, faults>>

TapConfirm(h, u, m) ==
  /\ Tap(h, u, m, "confirm")
  /\ confirmed' = IF u = AuthorOf[m] THEN confirmed \cup {m} ELSE confirmed

TapCancel(h, u, m) ==
  /\ Tap(h, u, m, "cancel")
  /\ UNCHANGED confirmed

\* The rule is inserted; the request may be cut off as it is.
CreateRule(h) ==
  LET m == item[h] IN
  /\ pc[h] = "confirm"
  /\ rules' = [rules EXCEPT ![m] = Append(@, at[h])]
  /\ \/ Goto(h, "stored") /\ UNCHANGED <<disturbed, faults>>
     \/ End(h) /\ Fault /\ disturbed' = disturbed \cup {m}
  /\ UNCHANGED <<linking, groups, shopOf, drafts, confirmed, saved, discarded>>

\* bug: the draft stays
KeepDraft(m) == UNCHANGED drafts

DeleteDraft(m) == drafts' = drafts \ {m}

FinishConfirm(h) ==
  /\ pc[h] = "stored"
  /\ DeleteDraft(item[h])
  /\ saved' = saved \cup {item[h]}
  /\ End(h)
  /\ UNCHANGED <<linking, groups, shopOf, rules, confirmed, discarded,
                 disturbed, faults>>

FinishCancel(h) ==
  /\ pc[h] = "cancel"
  /\ DeleteDraft(item[h])
  /\ discarded' = discarded \cup {item[h]}
  /\ End(h)
  /\ UNCHANGED <<linking, groups, shopOf, rules, confirmed, saved, disturbed,
                 faults>>

-----------------------------------------------------------------------------
\* The process restarts: handlers are cut off, drafts are lost.
Restart ==
  /\ Fault
  /\ disturbed' = disturbed \cup {item[h] : h \in {x \in Handlers : pc[x] \in DraftSteps}}
  /\ drafts' = {}
  /\ pc' = [h \in Handlers |-> "idle"] /\ by' = [h \in Handlers |-> None]
  /\ at' = [h \in Handlers |-> None] /\ item' = [h \in Handlers |-> None]
  /\ UNCHANGED <<linking, groups, shopOf, rules, confirmed, saved, discarded>>

LinkNext ==
  \/ \E s \in Shops : IssueOwnerLinkToken(s) \/ LinkExpires(s)
  \/ \E h \in Handlers, u \in Users, s \in Shops : FindToken(h, u, s)
  \/ \E h \in Handlers : ConsumeToken(h) \/ SetOwnerTelegramID(h)

GroupNext ==
  \/ \E u \in Users, c \in Chats : AddedToGroup(u, c)
  \/ \E h \in Handlers, u \in Users, c \in Chats, k \in Kinds : TapBind(h, u, c, k)
  \/ \E h \in Handlers : BindTelegramGroup(h) \/ BindTelegramTeamChat(h)

LeaveNext ==
  \/ \E h \in Handlers, m \in Messages : OwnerText(h, m)
  \/ \E m \in Messages : DraftExpires(m)
  \/ \E h \in Handlers, u \in Users, m \in Messages :
       TapConfirm(h, u, m) \/ TapCancel(h, u, m)
  \/ \E h \in Handlers :
       CreateDraft(h) \/ CreateRule(h) \/ FinishConfirm(h) \/ FinishCancel(h)

Next ==
  \/ LinkNext
  \/ GroupNext
  \/ LeaveNext
  \/ \E h \in Handlers : CallFails(h)
  \/ Restart

Spec == Init /\ [][Next]_vars

-----------------------------------------------------------------------------
(* Properties.                                                             *)

\* Every variable has its type, and no account owns two shops.  The lookup
\* by account (ByOwnerTelegramID) fails for good if one ever does.
TypeOK ==
  /\ issued \in Seq(Shops) /\ link \in [Shops -> 0..Len(issued)]
  /\ owner \in [Shops -> Users \cup {None}]
  /\ \A s, t \in Shops : owner[s] = owner[t] => s = t \/ owner[s] = None
  /\ asked \subseteq Chats /\ group \in [Shops -> [Kinds -> Chats \cup {None}]]
  /\ shopOf \in [Messages -> Shops \cup {None}] /\ drafts \subseteq Messages
  /\ rules \in [Messages -> Seq(Shops)]
  /\ pc \in [Handlers -> {"idle", "found", "cleared", "text"} \cup Kinds
                          \cup DraftSteps]
  /\ by \in [Handlers -> Users \cup {None}]
  /\ at \in [Handlers -> Shops \cup {None}]
  /\ faults \in 0..MaxFaults
  /\ found \cup lapsed \subseteq DOMAIN issued
  /\ linked \subseteq (DOMAIN issued) \X Users /\ unsure \subseteq Shops
  /\ chosen \subseteq Users \X Kinds \X Chats
  /\ confirmed \cup saved \cup discarded \cup disturbed \subseteq Messages

Latest(s) == Max(TokensOf(s) \cup {0})

\* Only the token a shop was given last is ever redeemable, and it is until
\* it expires or somebody follows it.  Excepted are shops that were given
\* one while an earlier one was being redeemed: ConsumeOwnerLinkToken then
\* clears the new one, whose hash it does not compare.
LatestLinkCounts ==
  \A s \in Shops :
    /\ link[s] \in {0, Latest(s)}
    /\ s \notin unsure /\ link[s] = 0 => Latest(s) \in found \cup lapsed \cup {0}

\* A shop belongs to the one account that the newest link redeemed made its
\* owner: a link makes no second account owner, however often and by whomever
\* it is followed and whichever calls fail between the lookup, the clearing
\* and the update, and an older link does not prevail, unless two links, or
\* two that followed one, overlapped.
NewestLinkOwns ==
  \A s \in Shops \ unsure :
    LET made == {x \in linked : issued[x[1]] = s} IN
    IF made = {} THEN owner[s] = None
    ELSE \E x \in made : x[2] = owner[s] /\ \A y \in made \ {x} : y[1] < x[1]

\* A shop's links count in the order they were issued, and each once.
LinksCountOnce == LatestLinkCounts /\ NewestLinkOwns

OwnedOnce(u, s) == \E x \in linked : issued[x[1]] = s /\ x[2] = u

\* A group is bound to a shop only as what an account that was made the
\* shop's owner chose it for, however the owner's updates and a change of
\* owner interleave.
GroupsBoundByAnOwner ==
  \A s \in Shops, k \in Kinds : group[s][k] # None =>
    \E u \in Users : OwnedOnce(u, s) /\ <<u, k, group[s][k]>> \in chosen

\* A rule comes from a draft its own author confirmed while it lived, and it
\* stands in the shop that the author owned when the leave was dictated,
\* even if the shop's owner has changed since.
RulesComeFromTheirOwner ==
  \A m \in Messages : \A i \in DOMAIN rules[m] :
    /\ m \in confirmed
    /\ rules[m][i] = shopOf[m] /\ OwnedOnce(AuthorOf[m], shopOf[m])

\* Groups and rules go to the shop whose owner asked for them.
OwnersSpeakForTheirShop == GroupsBoundByAnOwner /\ RulesComeFromTheirOwner

\* What the owner was told is so: a draft answered "saved" has its rule, a
\* discarded one has none, and no draft has two, unless its taps overlapped
\* or were cut off.
AnswersAreTrue ==
  \A m \in Messages :
    /\ m \in saved => rules[m] # <<>>
    /\ m \notin disturbed =>
         /\ Len(rules[m]) <= 1
         /\ m \in discarded => rules[m] = <<>>
=============================================================================
