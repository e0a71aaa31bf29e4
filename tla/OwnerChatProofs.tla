--------------------------- MODULE OwnerChatProofs ---------------------------
(* What OwnerChat promises holds for any shops, accounts, groups, leaves,  *)
(* updates handled at once, links and faults.                              *)
EXTENDS OwnerChat, FiniteSetTheorems, TLAPS

-----------------------------------------------------------------------------
(* The inductive invariant, in parts that concern different tables.        *)

Steps == {"idle", "found", "cleared", "text"} \cup Kinds \cup DraftSteps

TasksOK ==
  /\ pc \in [Handlers -> Steps]
  /\ by \in [Handlers -> Users \cup {None}] /\ at \in [Handlers -> Shops \cup {None}]
  /\ item = [h \in Handlers |-> item[h]]
  /\ faults \in 0..MaxFaults

\* Tokens and owners; a handler that links holds a token of its shop.
LinksTyped ==
  /\ issued \in Seq(Shops) /\ link \in [Shops -> 0..Len(issued)]
  /\ owner \in [Shops -> Users \cup {None}]
  /\ \A s, t \in Shops : owner[s] = owner[t] => s = t \/ owner[s] = None
  /\ found \cup lapsed \subseteq DOMAIN issued
  /\ linked \subseteq (DOMAIN issued) \X Users /\ unsure \subseteq Shops

LinkTasks ==
  \A h \in Handlers : pc[h] \in {"found", "cleared"} =>
    /\ by[h] \in Users /\ at[h] \in Shops
    /\ item[h] \in found /\ issued[item[h]] = at[h]

\* The tokens of a shop, and those that made an account its owner.
MadeOf(s)    == {x \in linked : issued[x[1]] = s}
Newest(s, i) == i \in TokensOf(s) /\ \A j \in TokensOf(s) : j <= i

\* An owner was made one by a link.  The newest link of a shop is the one that
\* counts, or it lapsed, was found or was disturbed.
LinksOK ==
  \A s \in Shops :
    /\ owner[s] # None => OwnedOnce(owner[s], s)
    /\ link[s] # 0 => Newest(s, link[s])
    /\ TokensOf(s) # {} =>
         \E i \in DOMAIN issued :
           Newest(s, i) /\ (link[s] = 0 => s \in unsure \/ i \in found \cup lapsed)

\* Unless two links of a shop have overlapped: one is followed at a time, it is
\* the newest, it made nobody owner before, and the newest that did prevails.
Calm(s) ==
  /\ \A h, g \in Linking(s) : h = g
  /\ \A h \in Linking(s) :
       /\ Newest(s, item[h]) /\ \A x \in MadeOf(s) : x[1] # item[h]
       /\ pc[h] = "cleared" => link[s] = 0
  /\ link[s] # 0 => \A x \in MadeOf(s) : x[1] # link[s]
  /\ IF MadeOf(s) = {} THEN owner[s] = None
     ELSE \E x \in MadeOf(s) : x[2] = owner[s] /\ \A y \in MadeOf(s) \ {x} : y[1] < x[1]

LinkInv ==
  LinksTyped /\ LinkTasks /\ LinksOK /\ \A s \in Shops \ unsure : Calm(s)

\* A handler that binds a group was asked to by an account that owned its shop.
GroupInv ==
  /\ asked \subseteq Chats /\ group \in [Shops -> [Kinds -> Chats \cup {None}]]
  /\ chosen \subseteq Users \X Kinds \X Chats
  /\ \A h \in Handlers : pc[h] \in Kinds =>
       /\ by[h] \in Users /\ at[h] \in Shops /\ item[h] \in Chats
       /\ OwnedOnce(by[h], at[h]) /\ <<by[h], pc[h], item[h]>> \in chosen
  /\ GroupsBoundByAnOwner

\* Leaves; a handler of one knows the shop that its author owned.
LeavesTyped ==
  /\ shopOf \in [Messages -> Shops \cup {None}] /\ drafts \subseteq Messages
  /\ rules \in [Messages -> Seq(Shops)]
  /\ confirmed \cup saved \cup discarded \cup disturbed \subseteq Messages

TextTasks ==
  \A h \in Handlers : pc[h] = "text" =>
    /\ item[h] \in Messages /\ at[h] \in Shops
    /\ shopOf[item[h]] = None /\ OwnedOnce(AuthorOf[item[h]], at[h])
    /\ \A g \in Busy({"text"}, item[h]) : g = h

DraftTasks ==
  \A h \in Handlers : pc[h] \in DraftSteps =>
    /\ item[h] \in Messages /\ at[h] \in Shops /\ at[h] = shopOf[item[h]]
    /\ pc[h] # "cancel" => item[h] \in confirmed
    /\ pc[h] = "stored" => rules[item[h]] # <<>>

\* Nothing comes of a leave that is not understood; a rule is its author's.
LeavesOK ==
  \A m \in Messages :
    /\ shopOf[m] = None => m \notin drafts \cup saved \cup discarded /\ rules[m] = <<>>
    /\ shopOf[m] # None => OwnedOnce(AuthorOf[m], shopOf[m])
    /\ \A i \in DOMAIN rules[m] : rules[m][i] = shopOf[m] /\ m \in confirmed
    /\ m \in saved => rules[m] # <<>>

\* Unless taps on a draft overlapped or were cut off: one is handled at a time,
\* a draft with a rule is being confirmed, a discarded one is gone for good.
Settled(m) ==
  /\ \A h, g \in Busy(DraftSteps, m) : h = g
  /\ Len(rules[m]) <= 1
  /\ \A h \in Busy(DraftSteps, m) : pc[h] # "stored" => rules[m] = <<>>
  /\ m \in drafts /\ rules[m] # <<>> => Busy(DraftSteps, m) # {}
  /\ m \in discarded => rules[m] = <<>> /\ m \notin drafts /\ Busy(DraftSteps, m) = {}

LeaveInv ==
  /\ LeavesTyped /\ TextTasks /\ DraftTasks /\ LeavesOK
  /\ \A m \in Messages \ disturbed : Settled(m)

IInv == TasksOK /\ LinkInv /\ GroupInv /\ LeaveInv

-----------------------------------------------------------------------------
\* The invariant holds at the start.
THEOREM InitIInv == Init => IInv
<1> SUFFICES ASSUME Init PROVE IInv
  OBVIOUS
<1>1. TasksOK
  BY OwnerChatAssumption DEF Init, TasksOK, Steps
<1>2. LinkInv
  <2>1. LinksTyped /\ LinkTasks
    BY DEF Init, LinksTyped, LinkTasks
  <2>2. LinksOK
    BY DEF Init, LinksOK, TokensOf
  <2>3. \A s \in Shops \ unsure : Calm(s)
    BY DEF Init, Calm, Linking, MadeOf
  <2> QED
    BY <2>1, <2>2, <2>3 DEF LinkInv
<1>3. GroupInv
  BY DEF Init, GroupInv, GroupsBoundByAnOwner, Kinds
<1>4. LeaveInv
  <2>1. LeavesTyped /\ TextTasks /\ DraftTasks /\ LeavesOK
    BY DEF Init, LeavesTyped, TextTasks, DraftTasks, LeavesOK, DraftSteps
  <2>2. \A m \in Messages \ disturbed : Settled(m)
    BY DEF Init, Settled, Busy, DraftSteps
  <2> QED
    BY <2>1, <2>2 DEF LeaveInv
<1> QED
  BY <1>1, <1>2, <1>3, <1>4 DEF IInv

-----------------------------------------------------------------------------
(* What a step leaves alone.                                               *)

\* h does in the next state what it did before.
Same(h) == pc'[h] = pc[h] /\ by'[h] = by[h] /\ at'[h] = at[h] /\ item'[h] = item[h]

\* Who was made owner of what is never forgotten.
OwnershipKept == \A u, s : OwnedOnce(u, s) => OwnedOnce(u, s)'

\* The links are about their own tables and the handlers that link.
LEMMA LinksKept ==
  ASSUME LinkInv, UNCHANGED linking,
         \A h \in Handlers : pc'[h] \in {"found", "cleared"} => Same(h)
  PROVE  LinkInv' /\ OwnershipKept
<1>1. UNCHANGED <<issued, link, owner, found, lapsed, linked, unsure>>
  BY DEF linking, linkTable, linkHistory
<1>2. \A s : TokensOf(s)' = TokensOf(s) /\ MadeOf(s)' = MadeOf(s)
  BY <1>1 DEF TokensOf, MadeOf
<1>3. \A s, i : Newest(s, i)' = Newest(s, i)
  BY <1>2 DEF Newest
<1>4. \A u, s : OwnedOnce(u, s)' = OwnedOnce(u, s)
  BY <1>1 DEF OwnedOnce
<1>5. LinksTyped' /\ LinkTasks'
  BY <1>1 DEF LinkInv, LinksTyped, LinkTasks, Same
<1>6. LinksOK'
  BY <1>1, <1>2, <1>3, <1>4 DEF LinkInv, LinksOK
<1>7. ASSUME NEW s \in Shops \ unsure PROVE Calm(s)'
  <2>1. Calm(s)
    BY DEF LinkInv
  <2>2. Linking(s)' \subseteq Linking(s) /\ \A h \in Linking(s)' : Same(h)
    BY DEF Linking, Same
  <2> QED
    BY <1>1, <1>2, <1>3, <2>1, <2>2 DEF Calm, Same
<1> QED
  BY <1>1, <1>4, <1>5, <1>6, <1>7 DEF LinkInv, OwnershipKept

\* The groups are about theirs and the handlers that bind.
LEMMA GroupsKept ==
  ASSUME GroupInv, UNCHANGED groups, OwnershipKept,
         \A h \in Handlers : pc'[h] \in Kinds => Same(h)
  PROVE  GroupInv'
<1>1. UNCHANGED <<asked, group, chosen>>
  BY DEF groups
<1>2. GroupsBoundByAnOwner'
  BY <1>1 DEF GroupInv, GroupsBoundByAnOwner, OwnershipKept
<1> QED
  BY <1>1, <1>2 DEF GroupInv, OwnershipKept, Same

\* The leaves are about theirs and the handlers of leaves.
LEMMA LeavesKept ==
  ASSUME LeaveInv, UNCHANGED leaves, OwnershipKept,
         \A h \in Handlers : pc'[h] \in {"text"} \cup DraftSteps => Same(h),
         \A h \in Handlers : pc[h] = "stored" => Same(h)
  PROVE  LeaveInv'
<1>1. UNCHANGED <<shopOf, drafts, rules, confirmed, saved, discarded, disturbed>>
  BY DEF leaves, intake, draftHistory
<1>2. LeavesTyped' /\ LeavesOK'
  BY <1>1 DEF LeaveInv, LeavesTyped, LeavesOK, OwnershipKept
<1>3. TextTasks'
  BY <1>1 DEF LeaveInv, TextTasks, OwnershipKept, Same, Busy
<1>4. DraftTasks'
  BY <1>1 DEF LeaveInv, DraftTasks, Same
<1>5. ASSUME NEW m \in Messages \ disturbed PROVE Settled(m)'
  <2>1. Settled(m)
    BY DEF LeaveInv
  <2>2. Busy(DraftSteps, m)' \subseteq Busy(DraftSteps, m)
        /\ \A h \in Busy(DraftSteps, m)' : Same(h)
    BY DEF Busy, Same
  <2>3. ASSUME NEW h \in Busy(DraftSteps, m), rules[m] # <<>>
        PROVE  h \in Busy(DraftSteps, m)'
    BY <2>1, <2>3 DEF Settled, Busy, Same
  <2> QED
    BY <1>1, <2>1, <2>2, <2>3 DEF Settled, Same
<1> QED
  BY <1>1, <1>2, <1>3, <1>4, <1>5 DEF LeaveInv

\* A handler begins, goes on or ends; the others stay where they are.
LEMMA TaskStarts ==
  ASSUME TasksOK, NEW h \in Handlers, NEW step \in Steps, NEW u \in Users, NEW s \in Shops,
         NEW what, Start(h, step, u, s, what), faults' \in 0..MaxFaults
  PROVE  /\ TasksOK' /\ \A g \in Handlers \ {h} : Same(g)
         /\ pc[h] = "idle" /\ pc'[h] = step /\ by'[h] = u /\ at'[h] = s /\ item'[h] = what
  BY DEF TasksOK, Start, Same

LEMMA TaskGoes ==
  ASSUME TasksOK, NEW h \in Handlers, NEW step \in Steps, Goto(h, step), faults' \in 0..MaxFaults
  PROVE  /\ TasksOK' /\ \A g \in Handlers \ {h} : Same(g)
         /\ pc'[h] = step /\ by'[h] = by[h] /\ at'[h] = at[h] /\ item'[h] = item[h]
  BY DEF TasksOK, Goto, Same

LEMMA TaskEnds ==
  ASSUME TasksOK, NEW h \in Handlers, End(h), faults' \in 0..MaxFaults
  PROVE  TasksOK' /\ pc'[h] = "idle" /\ \A g \in Handlers \ {h} : Same(g)
  BY DEF TasksOK, End, Same, Steps

LEMMA FaultCounts ==
  ASSUME TasksOK, Fault \/ UNCHANGED faults PROVE faults' \in 0..MaxFaults
  BY OwnerChatAssumption DEF TasksOK, Fault

-----------------------------------------------------------------------------
(* Linking.                                                                *)

\* A link step keeps groups and leaves, as it makes owners and unmakes none.
LEMMA OthersKept ==
  ASSUME IInv, TasksOK', LinkInv', UNCHANGED <<groups, leaves>>, OwnershipKept,
         \A h \in Handlers : pc'[h] \in Kinds \cup {"text"} \cup DraftSteps => Same(h),
         \A h \in Handlers : pc[h] = "stored" => Same(h)
  PROVE  IInv'
  BY GroupsKept, LeavesKept DEF IInv

\* What calms a shop is about its own links.
LEMMA CalmKept ==
  ASSUME NEW s \in Shops, Calm(s), owner'[s] = owner[s], link'[s] = link[s],
         TokensOf(s)' = TokensOf(s), MadeOf(s)' = MadeOf(s),
         Linking(s)' \subseteq Linking(s), \A h \in Linking(s)' : Same(h)
  PROVE  Calm(s)'
<1>1. \A i : Newest(s, i)' = Newest(s, i)
  BY DEF Newest
<1> QED
  BY <1>1 DEF Calm, Same

LEMMA IssueKeeps ==
  ASSUME IInv, NEW s \in Shops, IssueOwnerLinkToken(s) PROVE IInv'
<1>1. PICK n \in Nat : n = Len(issued) + 1
  BY DEF IInv, LinkInv, LinksTyped
<1>2. /\ unsure' = IF Linking(s) # {} THEN unsure \cup {s} ELSE unsure
      /\ UNCHANGED <<owner, found, lapsed, linked, groups, leaves, pc, by, at, item, faults>>
  BY DEF IssueOwnerLinkToken, MarkUnsure, task
<1>3. /\ issued' \in Seq(Shops) /\ Len(issued') = n /\ n # 0
      /\ DOMAIN issued = 1..(n - 1) /\ DOMAIN issued' = 1..n
      /\ issued'[n] = s /\ \A i \in DOMAIN issued : issued'[i] = issued[i]
  BY <1>1 DEF IInv, LinkInv, LinksTyped, IssueOwnerLinkToken
<1>4. link' \in [Shops -> 0..n] /\ link'[s] = n /\ \A t \in Shops \ {s} : link'[t] = link[t]
  BY <1>1, <1>3 DEF IInv, LinkInv, LinksTyped, IssueOwnerLinkToken
<1>5. /\ TokensOf(s)' = TokensOf(s) \cup {n}
      /\ \A t \in Shops \ {s} : TokensOf(t)' = TokensOf(t)
  BY <1>3 DEF TokensOf
<1>6. \A t : MadeOf(t)' = MadeOf(t)
  BY <1>2, <1>3 DEF IInv, LinkInv, LinksTyped, MadeOf
<1>7. OwnershipKept
  BY <1>2, <1>3 DEF IInv, LinkInv, LinksTyped, OwnedOnce, OwnershipKept
<1>8. Newest(s, n)'
  BY <1>3, <1>5 DEF TokensOf, Newest
<1>9. \A t \in Shops \ {s} : \A i : Newest(t, i)' = Newest(t, i)
  BY <1>5 DEF Newest
<1>10. LinksTyped'
  <2>1. DOMAIN issued \subseteq DOMAIN issued'
    BY <1>3
  <2>2. (found \cup lapsed \subseteq DOMAIN issued)' /\ (linked \subseteq (DOMAIN issued) \X Users)'
    BY <1>2, <2>1 DEF IInv, LinkInv, LinksTyped
  <2> QED
    BY <1>2, <1>3, <1>4, <2>2 DEF IInv, LinkInv, LinksTyped
<1>11. LinkTasks'
  BY <1>2, <1>3 DEF IInv, LinkInv, LinksTyped, LinkTasks
<1>12. LinksOK'
  <2>1. ASSUME NEW t \in Shops PROVE (owner[t] # None => OwnedOnce(owner[t], t))'
    <3>1. PICK v : v = owner[t] /\ v = owner'[t]
      BY <1>2
    <3>2. v # None => OwnedOnce(v, t)'
      BY <1>7, <3>1 DEF IInv, LinkInv, LinksOK, OwnershipKept
    <3> QED
      BY <3>1, <3>2 DEF OwnedOnce
  <2>2. ASSUME NEW t \in Shops \ {s}, TokensOf(t) # {}
        PROVE  \E i \in DOMAIN issued' :
                 Newest(t, i)' /\ (link'[t] = 0 => t \in unsure' \/ i \in found' \cup lapsed')
    BY <1>2, <1>3, <1>4, <1>9, <2>2 DEF IInv, LinkInv, LinksOK
  <2> QED
    BY <1>3, <1>4, <1>5, <1>8, <1>9, <2>1, <2>2 DEF IInv, LinkInv, LinksOK
<1>13. ASSUME NEW t \in Shops \ unsure' PROVE Calm(t)'
  <2>1. Calm(t) /\ Linking(t)' = Linking(t)
    BY <1>2, <1>13 DEF IInv, LinkInv, Linking
  <2>2. CASE t # s
    BY <1>2, <1>4, <1>5, <1>6, <2>1, <2>2, CalmKept DEF Same, Linking
  <2>3. CASE t = s
    <3>1. Linking(s) = {}
      BY <1>2, <1>13, <2>3
    <3>2. \A x \in MadeOf(s) : x[1] # n
      BY <1>3 DEF IInv, LinkInv, LinksTyped, MadeOf
    <3> QED
      BY <1>2, <1>4, <1>6, <2>1, <2>3, <3>1, <3>2 DEF Calm
  <2> QED
    BY <2>2, <2>3
<1>14. LinkInv' /\ TasksOK'
  BY <1>2, <1>10, <1>11, <1>12, <1>13 DEF IInv, LinkInv, TasksOK
<1> QED
  BY <1>2, <1>7, <1>14, OthersKept DEF Same

LEMMA ExpireKeeps ==
  ASSUME IInv, NEW s \in Shops, LinkExpires(s) PROVE IInv'
<1>1. /\ link[s] # 0 /\ lapsed' = lapsed \cup {link[s]}
      /\ UNCHANGED <<issued, owner, found, linked, unsure, groups, leaves, pc, by, at, item, faults>>
  BY DEF LinkExpires, task
<1>2. link' \in [Shops -> 0..Len(issued)] /\ link'[s] = 0 /\ \A t \in Shops \ {s} : link'[t] = link[t]
  BY DEF IInv, LinkInv, LinksTyped, LinkExpires
<1>3. Newest(s, link[s]) /\ link[s] \in DOMAIN issued
  BY <1>1 DEF IInv, LinkInv, LinksOK, TokensOf, Newest
<1>4. \A t : TokensOf(t)' = TokensOf(t) /\ MadeOf(t)' = MadeOf(t) /\ Linking(t)' = Linking(t)
  BY <1>1 DEF TokensOf, MadeOf, Linking
<1>5. \A t, i : Newest(t, i)' = Newest(t, i)
  BY <1>4 DEF Newest
<1>6. \A u, t : OwnedOnce(u, t)' = OwnedOnce(u, t)
  BY <1>1 DEF OwnedOnce
<1>7. LinksTyped' /\ LinkTasks'
  BY <1>1, <1>2, <1>3 DEF IInv, LinkInv, LinksTyped, LinkTasks
<1>8. LinksOK'
  BY <1>1, <1>2, <1>3, <1>4, <1>5, <1>6 DEF IInv, LinkInv, LinksOK
<1>9. ASSUME NEW t \in Shops \ unsure' PROVE Calm(t)'
  <2>1. Calm(t)
    BY <1>1, <1>9 DEF IInv, LinkInv
  <2> QED
    BY <1>1, <1>2, <1>4, <1>5, <2>1 DEF Calm
<1>10. LinkInv' /\ TasksOK' /\ OwnershipKept
  BY <1>1, <1>6, <1>7, <1>8, <1>9 DEF IInv, LinkInv, TasksOK, OwnershipKept
<1> QED
  BY <1>1, <1>10, OthersKept DEF Same

LEMMA FindKeeps ==
  ASSUME IInv, NEW h \in Handlers, NEW u \in Users, NEW s \in Shops, FindToken(h, u, s)
  PROVE  IInv'
<1>1. PICK i \in DOMAIN issued : i = link[s] /\ i # 0 /\ Newest(s, i) /\ issued[i] = s
  BY DEF IInv, LinkInv, LinksOK, TokensOf, Newest, FindToken
<1>2. /\ found' = found \cup {i}
      /\ unsure' = IF Linking(s) # {} THEN unsure \cup {s} ELSE unsure
      /\ UNCHANGED <<issued, link, owner, lapsed, linked, groups, leaves, faults>>
  BY <1>1 DEF FindToken, MarkUnsure, linkTable
<1>3. /\ TasksOK' /\ \A g \in Handlers \ {h} : Same(g)
      /\ pc[h] = "idle" /\ pc'[h] = "found" /\ by'[h] = u /\ at'[h] = s /\ item'[h] = i
  BY <1>1, <1>2, TaskStarts, FaultCounts DEF IInv, FindToken, Steps
<1>4. \A t : TokensOf(t)' = TokensOf(t) /\ MadeOf(t)' = MadeOf(t)
  BY <1>2 DEF TokensOf, MadeOf
<1>5. \A t, j : Newest(t, j)' = Newest(t, j)
  BY <1>4 DEF Newest
<1>6. \A v, t : OwnedOnce(v, t)' = OwnedOnce(v, t)
  BY <1>2 DEF OwnedOnce
<1>7. LinksTyped'
  BY <1>2 DEF IInv, LinkInv, LinksTyped
<1>8. LinkTasks'
  BY <1>1, <1>2, <1>3 DEF IInv, LinkInv, LinkTasks, Same
<1>9. LinksOK'
  BY <1>2, <1>4, <1>5, <1>6 DEF IInv, LinkInv, LinksOK
<1>10. ASSUME NEW t \in Shops \ unsure' PROVE Calm(t)'
  <2>1. Calm(t)
    BY <1>2, <1>10 DEF IInv, LinkInv
  <2>2. CASE t # s
    <3>1. Linking(t)' = Linking(t) /\ h \notin Linking(t)
      BY <1>3, <2>2 DEF Linking, Same
    <3> QED
      BY <1>2, <1>3, <1>4, <2>1, <3>1, CalmKept DEF Linking
  <2>3. CASE t = s
    <3>1. Linking(s) = {} /\ Linking(s)' = {h}
      BY <1>2, <1>3, <1>10, <2>3 DEF Linking, Same
    <3>2. \A x \in MadeOf(s) : x[1] # i
      BY <1>1, <2>1, <2>3 DEF Calm
    <3> QED
      BY <1>1, <1>2, <1>3, <1>4, <1>5, <2>1, <2>3, <3>1, <3>2 DEF Calm
  <2> QED
    BY <2>2, <2>3
<1>11. LinkInv' /\ OwnershipKept
  BY <1>6, <1>7, <1>8, <1>9, <1>10 DEF LinkInv, OwnershipKept
<1> QED
  BY <1>2, <1>3, <1>11, OthersKept DEF Kinds, DraftSteps

LEMMA ConsumeKeeps ==
  ASSUME IInv, NEW h \in Handlers, ConsumeToken(h) PROVE IInv'
<1>1. pc[h] = "found" /\ (Goto(h, "cleared") \/ End(h)) /\ faults' \in 0..MaxFaults
  BY FaultCounts DEF IInv, ConsumeToken
<1>2. PICK s \in Shops, i \in found : s = at[h] /\ i = item[h] /\ issued[i] = s
  BY <1>1 DEF IInv, LinkInv, LinkTasks
<1>3. link' = [link EXCEPT ![s] = 0]
      /\ UNCHANGED <<issued, owner, found, lapsed, linked, unsure, groups, leaves>>
  BY <1>2 DEF ConsumeToken, ClearToken, linkHistory
<1>4. /\ TasksOK' /\ \A g \in Handlers \ {h} : Same(g)
      /\ \/ pc'[h] = "idle"
         \/ pc'[h] = "cleared" /\ by'[h] = by[h] /\ at'[h] = at[h] /\ item'[h] = item[h]
  <2>1. CASE Goto(h, "cleared")
    BY <1>1, <2>1, TaskGoes DEF IInv, Steps
  <2>2. CASE End(h)
    BY <1>1, <2>2, TaskEnds DEF IInv
  <2> QED
    BY <1>1, <2>1, <2>2
<1>5. link' \in [Shops -> 0..Len(issued)] /\ link'[s] = 0 /\ \A t \in Shops \ {s} : link'[t] = link[t]
  BY <1>3 DEF IInv, LinkInv, LinksTyped
<1>6. \A t : TokensOf(t)' = TokensOf(t) /\ MadeOf(t)' = MadeOf(t)
  BY <1>3 DEF TokensOf, MadeOf
<1>7. \A t, j : Newest(t, j)' = Newest(t, j)
  BY <1>6 DEF Newest
<1>8. \A v, t : OwnedOnce(v, t)' = OwnedOnce(v, t)
  BY <1>3 DEF OwnedOnce
<1>9. LinksTyped'
  BY <1>3, <1>5 DEF IInv, LinkInv, LinksTyped
<1>10. LinkTasks'
  BY <1>1, <1>3, <1>4 DEF IInv, LinkInv, LinkTasks, Same
<1>11. Linking(s) \subseteq Handlers /\ h \in Linking(s)
  BY <1>1, <1>2 DEF Linking
<1>12. LinksOK'
  <2>1. s \in unsure \/ Newest(s, i)
    BY <1>2, <1>11 DEF IInv, LinkInv, Calm
  <2>2. ASSUME NEW t \in Shops, TokensOf(t) # {}
        PROVE  \E j \in DOMAIN issued :
                 Newest(t, j) /\ (link'[t] = 0 => t \in unsure \/ j \in found \cup lapsed)
    <3>1. CASE t = s /\ s \notin unsure
      BY <1>2, <2>1, <3>1 DEF Newest, TokensOf
    <3>2. CASE t # s \/ s \in unsure
      BY <1>5, <2>2, <3>2 DEF IInv, LinkInv, LinksOK
    <3> QED
      BY <3>1, <3>2
  <2> QED
    BY <1>3, <1>5, <1>6, <1>7, <1>8, <2>2 DEF IInv, LinkInv, LinksOK
<1>13. ASSUME NEW t \in Shops \ unsure' PROVE Calm(t)'
  <2>1. Calm(t)
    BY <1>3, <1>13 DEF IInv, LinkInv
  <2>2. Linking(t)' \subseteq Linking(t)
    BY <1>1, <1>4 DEF Linking, Same
  <2>3. CASE t # s
    <3>1. h \notin Linking(t)
      BY <1>2, <2>3 DEF Linking
    <3> QED
      BY <1>3, <1>4, <1>5, <1>6, <2>1, <2>2, <2>3, <3>1, CalmKept DEF Linking
  <2>4. CASE t = s
    <3>1. Linking(s)' \subseteq {h} /\ \A g \in Linking(s)' : item'[g] = item[g]
      BY <1>4, <1>11, <2>1, <2>2, <2>4 DEF Calm, Linking
    <3> QED
      BY <1>3, <1>5, <1>6, <1>7, <1>11, <2>1, <2>4, <3>1 DEF Calm
  <2> QED
    BY <2>3, <2>4
<1>14. LinkInv' /\ OwnershipKept
  BY <1>8, <1>9, <1>10, <1>12, <1>13 DEF LinkInv, OwnershipKept
<1> QED
  BY <1>1, <1>3, <1>4, <1>14, OthersKept DEF Kinds, DraftSteps

LEMMA OwnerKeeps ==
  ASSUME IInv, NEW h \in Handlers, SetOwnerTelegramID(h) PROVE IInv'
<1>1. /\ pc[h] = "cleared" /\ End(h) /\ faults' \in 0..MaxFaults
      /\ UNCHANGED <<issued, link, found, lapsed, unsure, groups, leaves>>
  BY FaultCounts DEF IInv, SetOwnerTelegramID
<1>2. PICK s \in Shops, u \in Users, i \in found : s = at[h] /\ u = by[h] /\ i = item[h] /\ issued[i] = s
  BY <1>1 DEF IInv, LinkInv, LinkTasks
<1>3. IF Taken(u, s) THEN UNCHANGED <<owner, linked>>
      ELSE owner' = [owner EXCEPT ![s] = u] /\ linked' = linked \cup {<<i, u>>}
  BY <1>2 DEF SetOwnerTelegramID
<1>4. TasksOK' /\ pc'[h] = "idle" /\ \A g \in Handlers \ {h} : Same(g)
  BY <1>1, TaskEnds DEF IInv
<1>5. <<i, u>>[1] = i /\ <<i, u>>[2] = u /\ u # None
  BY OwnerChatAssumption
<1>6. \A t : TokensOf(t)' = TokensOf(t)
  BY <1>1 DEF TokensOf
<1>7. \A t, j : Newest(t, j)' = Newest(t, j)
  BY <1>6 DEF Newest
<1>8. i \in DOMAIN issued
  BY DEF IInv, LinkInv, LinksTyped
<1>9. LinksTyped'
  <2>1. CASE Taken(u, s)
    BY <1>1, <1>3, <2>1 DEF IInv, LinkInv, LinksTyped
  <2>2. CASE ~Taken(u, s)
    <3>1. owner' = [owner EXCEPT ![s] = u] /\ linked' = linked \cup {<<i, u>>}
      BY <1>3, <2>2
    <3>2. \A t \in Shops \ {s} : owner[t] # u
      BY <2>2 DEF Taken, Owns
    <3>3. owner' \in [Shops -> Users \cup {None}] /\ linked' \subseteq (DOMAIN issued) \X Users
      BY <1>8, <3>1 DEF IInv, LinkInv, LinksTyped
    <3>4. \A t, v \in Shops : owner'[t] = owner'[v] => t = v \/ owner'[t] = None
      BY <3>1, <3>2 DEF IInv, LinkInv, LinksTyped
    <3> QED
      BY <1>1, <3>3, <3>4 DEF IInv, LinkInv, LinksTyped
  <2> QED
    BY <2>1, <2>2
<1>10. LinkTasks'
  BY <1>1, <1>4 DEF IInv, LinkInv, LinkTasks, Same
<1>11. OwnershipKept
  BY <1>1, <1>3 DEF OwnedOnce, OwnershipKept
<1>12. LinksOK'
  <2>1. ASSUME NEW t \in Shops
        PROVE  owner'[t] = owner[t] \/ (t = s /\ owner'[t] = u /\ <<i, u>> \in linked')
    <3>1. CASE Taken(u, s)
      BY <1>3, <3>1
    <3>2. CASE ~Taken(u, s)
      BY <1>3, <3>2 DEF IInv, LinkInv, LinksTyped
    <3> QED
      BY <3>1, <3>2
  <2>2. ASSUME NEW t \in Shops PROVE (owner[t] # None => OwnedOnce(owner[t], t))'
    <3>1. CASE owner'[t] = owner[t]
      <4>1. PICK v : v = owner[t] /\ v = owner'[t]
        BY <3>1
      <4>2. v # None => OwnedOnce(v, t)'
        BY <1>11, <4>1 DEF IInv, LinkInv, LinksOK, OwnershipKept
      <4> QED
        BY <4>1, <4>2 DEF OwnedOnce
    <3>2. CASE t = s /\ owner'[t] = u /\ <<i, u>> \in linked'
      BY <1>1, <1>2, <1>5, <3>2 DEF OwnedOnce
    <3> QED
      BY <2>1, <3>1, <3>2
  <2> QED
    BY <1>1, <1>6, <1>7, <2>2 DEF IInv, LinkInv, LinksOK
<1>13. ASSUME NEW t \in Shops \ unsure' PROVE Calm(t)'
  <2>1. Calm(t)
    BY <1>1, <1>13 DEF IInv, LinkInv
  <2>2. Linking(t)' = Linking(t) \ {h}
    BY <1>1, <1>4 DEF Linking, Same
  <2>3. \A g \in Linking(t)' : Same(g)
    BY <1>4, <2>2 DEF Linking
  <2>4. CASE t # s \/ Taken(u, s)
    <3>1. MadeOf(t)' = MadeOf(t) /\ owner'[t] = owner[t]
      BY <1>1, <1>2, <1>3, <1>5, <2>4 DEF IInv, LinkInv, LinksTyped, MadeOf
    <3> QED
      BY <1>1, <1>6, <2>1, <2>2, <2>3, <3>1, CalmKept
  <2>5. CASE t = s /\ ~Taken(u, s)
    <3>1. h \in Linking(s)
      BY <1>1, <1>2 DEF Linking
    <3>2. Linking(s)' = {} /\ link[s] = 0 /\ Newest(s, i) /\ \A x \in MadeOf(s) : x[1] # i
      BY <1>1, <1>2, <2>1, <2>2, <2>5, <3>1 DEF Calm
    <3>3. MadeOf(s)' = MadeOf(s) \cup {<<i, u>>} /\ owner'[s] = u
      BY <1>1, <1>2, <1>3, <1>5, <2>5 DEF IInv, LinkInv, LinksTyped, MadeOf
    <3>4. ASSUME NEW y \in MadeOf(s) PROVE y[1] < i
      <4>1. y[1] \in TokensOf(s) /\ y[1] \in Nat /\ i \in Nat
        BY <1>8 DEF IInv, LinkInv, LinksTyped, MadeOf, TokensOf
      <4> QED
        BY <3>2, <4>1 DEF Newest
    <3>5. \E x \in MadeOf(s)' : x[2] = owner'[s] /\ \A y \in MadeOf(s)' \ {x} : y[1] < x[1]
      BY <1>5, <3>3, <3>4
    <3> QED
      BY <1>1, <2>5, <3>2, <3>3, <3>5 DEF Calm
  <2> QED
    BY <2>4, <2>5
<1>14. LinkInv'
  BY <1>9, <1>10, <1>12, <1>13 DEF LinkInv
<1> QED
  BY <1>1, <1>4, <1>11, <1>14, OthersKept DEF Kinds, DraftSteps

-----------------------------------------------------------------------------
(* Groups.                                                                 *)

LEMMA AddKeeps ==
  ASSUME IInv, NEW u \in Users, NEW c \in Chats, AddedToGroup(u, c) PROVE IInv'
<1>1. /\ asked' = asked \cup {c}
      /\ UNCHANGED <<linking, group, chosen, leaves, pc, by, at, item, faults>>
  BY DEF AddedToGroup, task
<1>2. \A h \in Handlers : Same(h)
  BY <1>1 DEF Same
<1>3. LinkInv' /\ OwnershipKept
  BY <1>1, <1>2, LinksKept DEF IInv
<1>4. LeaveInv'
  BY <1>1, <1>2, <1>3, LeavesKept DEF IInv
<1>5. GroupInv'
  <2>1. GroupsBoundByAnOwner'
    BY <1>1, <1>3 DEF IInv, GroupInv, GroupsBoundByAnOwner, OwnershipKept
  <2> QED
    BY <1>1, <1>2, <1>3, <2>1 DEF IInv, GroupInv, OwnershipKept, Same
<1>6. TasksOK'
  BY <1>1 DEF IInv, TasksOK
<1> QED
  BY <1>3, <1>4, <1>5, <1>6 DEF IInv

LEMMA TapBindKeeps ==
  ASSUME IInv, NEW h \in Handlers, NEW u \in Users, NEW c \in Chats, NEW k \in Kinds,
         TapBind(h, u, c, k)
  PROVE  IInv'
<1>1. PICK s \in Shops : Owns(u, s) /\ Start(h, k, u, s, c)
  BY DEF TapBind
<1>2. chosen' = chosen \cup {<<u, k, c>>} /\ UNCHANGED <<linking, asked, group, leaves, faults>>
  BY DEF TapBind
<1>3. /\ TasksOK' /\ \A g \in Handlers \ {h} : Same(g)
      /\ pc[h] = "idle" /\ pc'[h] = k /\ by'[h] = u /\ at'[h] = s /\ item'[h] = c
  BY <1>1, <1>2, TaskStarts, FaultCounts DEF IInv, Steps
<1>4. LinkInv' /\ OwnershipKept
  BY <1>2, <1>3, LinksKept DEF IInv, Kinds
<1>5. LeaveInv'
  BY <1>2, <1>3, <1>4, LeavesKept DEF IInv, Kinds, DraftSteps
<1>6. OwnedOnce(u, s)'
  BY <1>1, <1>4, OwnerChatAssumption DEF IInv, LinkInv, LinksOK, Owns, OwnershipKept
<1>7. GroupInv'
  <2>1. GroupsBoundByAnOwner'
    BY <1>2, <1>4 DEF IInv, GroupInv, GroupsBoundByAnOwner, OwnershipKept
  <2>2. ASSUME NEW g \in Handlers, pc'[g] \in Kinds
        PROVE  (/\ by[g] \in Users /\ at[g] \in Shops /\ item[g] \in Chats
                /\ OwnedOnce(by[g], at[g]) /\ <<by[g], pc[g], item[g]>> \in chosen)'
    <3>1. CASE g = h
      BY <1>2, <1>3, <1>6, <3>1 DEF OwnedOnce
    <3>2. CASE g # h
      BY <1>2, <1>3, <1>4, <2>2, <3>2 DEF IInv, GroupInv, OwnershipKept, Same
    <3> QED
      BY <3>1, <3>2
  <2>3. chosen' \subseteq Users \X Kinds \X Chats
    BY <1>2 DEF IInv, GroupInv
  <2> QED
    BY <1>2, <2>1, <2>2, <2>3 DEF IInv, GroupInv
<1> QED
  BY <1>3, <1>4, <1>5, <1>7 DEF IInv

LEMMA BindKeeps ==
  ASSUME IInv, NEW h \in Handlers, NEW k \in Kinds, Bind(h, k, k) PROVE IInv'
<1>1. pc[h] = k /\ UNCHANGED <<linking, asked, chosen, leaves, faults>>
  BY DEF Bind
<1>2. PICK s \in Shops, u \in Users, c \in Chats :
        /\ s = at[h] /\ u = by[h] /\ c = item[h]
        /\ OwnedOnce(u, s) /\ <<u, k, c>> \in chosen
  BY <1>1 DEF IInv, GroupInv
<1>3. group' = [group EXCEPT ![s][k] = c]
  BY <1>2 DEF Bind
<1>4. TasksOK' /\ pc'[h] = "idle" /\ \A g \in Handlers \ {h} : Same(g)
  BY <1>1, TaskEnds, FaultCounts DEF IInv, Bind
<1>5. LinkInv' /\ OwnershipKept
  BY <1>1, <1>4, LinksKept DEF IInv
<1>6. LeaveInv'
  BY <1>1, <1>4, <1>5, LeavesKept DEF IInv, Kinds, DraftSteps
<1>7. /\ group' \in [Shops -> [Kinds -> Chats \cup {None}]]
      /\ group'[s][k] = c
      /\ \A t \in Shops, j \in Kinds : t # s \/ j # k => group'[t][j] = group[t][j]
  BY <1>3 DEF IInv, GroupInv
<1>8. GroupsBoundByAnOwner'
  <2>1. ASSUME NEW t \in Shops, NEW j \in Kinds, group'[t][j] # None
        PROVE  \E v \in Users : OwnedOnce(v, t)' /\ <<v, j, group'[t][j]>> \in chosen'
    <3>1. CASE t = s /\ j = k
      BY <1>1, <1>2, <1>5, <1>7, <3>1 DEF OwnershipKept
    <3>2. CASE t # s \/ j # k
      BY <1>1, <1>5, <1>7, <2>1, <3>2 DEF IInv, GroupInv, GroupsBoundByAnOwner, OwnershipKept
    <3> QED
      BY <3>1, <3>2
  <2> QED
    BY <2>1 DEF GroupsBoundByAnOwner
<1>9. GroupInv'
  BY <1>1, <1>4, <1>5, <1>7, <1>8 DEF IInv, GroupInv, OwnershipKept, Same, Kinds
<1> QED
  BY <1>4, <1>5, <1>6, <1>9 DEF IInv

-----------------------------------------------------------------------------
(* Leaves.                                                                 *)

\* A leave's own state is all that settles it.
LEMMA SettledKept ==
  ASSUME NEW m \in Messages, Settled(m), rules'[m] = rules[m],
         m \in drafts' => m \in drafts, m \in discarded' <=> m \in discarded,
         Busy(DraftSteps, m)' = Busy(DraftSteps, m), \A h \in Busy(DraftSteps, m) : Same(h)
  PROVE  Settled(m)'
  BY DEF Settled, Same

\* A step of the leaves keeps links and groups.
LEMMA LeaveStep ==
  ASSUME IInv, TasksOK', UNCHANGED <<linking, groups>>,
         \A h \in Handlers : pc'[h] \in {"found", "cleared"} \cup Kinds => Same(h)
  PROVE  LinkInv' /\ GroupInv' /\ OwnershipKept /\ \A u, s : OwnedOnce(u, s)' = OwnedOnce(u, s)
<1>1. LinkInv' /\ OwnershipKept
  BY LinksKept DEF IInv
<1>2. GroupInv'
  BY <1>1, GroupsKept DEF IInv
<1>3. \A u, s : OwnedOnce(u, s)' = OwnedOnce(u, s)
  BY DEF OwnedOnce, linking, linkTable, linkHistory
<1> QED
  BY <1>1, <1>2, <1>3

LEMMA TextKeeps ==
  ASSUME IInv, NEW h \in Handlers, NEW m \in Messages, OwnerText(h, m) PROVE IInv'
<1>1. PICK s \in Shops : Owns(AuthorOf[m], s) /\ Start(h, "text", AuthorOf[m], s, m)
  BY DEF OwnerText
<1>2. /\ shopOf[m] = None /\ Busy({"text"}, m) = {} /\ AuthorOf[m] \in Users
      /\ UNCHANGED <<linking, groups, faults>>
      /\ UNCHANGED <<shopOf, drafts, rules, confirmed, saved, discarded, disturbed>>
  BY OwnerChatAssumption DEF OwnerText, leaves, intake, draftHistory
<1>3. /\ TasksOK' /\ \A g \in Handlers \ {h} : Same(g)
      /\ pc[h] = "idle" /\ pc'[h] = "text" /\ at'[h] = s /\ item'[h] = m
  BY <1>1, <1>2, TaskStarts, FaultCounts DEF IInv, Steps
<1>4. LinkInv' /\ GroupInv' /\ \A u, t : OwnedOnce(u, t)' = OwnedOnce(u, t)
  BY <1>2, <1>3, LeaveStep DEF Kinds
<1>5. OwnedOnce(AuthorOf[m], s)
  BY <1>1, <1>2, OwnerChatAssumption DEF IInv, LinkInv, LinksOK, Owns
<1>6. LeavesTyped' /\ LeavesOK'
  BY <1>2, <1>4 DEF IInv, LeaveInv, LeavesTyped, LeavesOK
<1>7. TextTasks'
  <2>1. \A n : n # m => Busy({"text"}, n)' = Busy({"text"}, n)
    BY <1>3 DEF Busy, Same
  <2>2. Busy({"text"}, m)' = {h}
    BY <1>2, <1>3 DEF Busy, Same
  <2>3. ASSUME NEW g \in Handlers, pc'[g] = "text"
        PROVE  /\ item'[g] \in Messages /\ at'[g] \in Shops
               /\ shopOf'[item'[g]] = None /\ OwnedOnce(AuthorOf[item[g]], at[g])'
               /\ \A f \in Busy({"text"}, item[g])' : f = g
    <3>1. CASE g = h
      BY <1>2, <1>3, <1>5, <2>2, <3>1 DEF OwnedOnce, linking, linkTable, linkHistory
    <3>2. CASE g # h
      <4>1. PICK n \in Messages, t \in Shops : n = item[g] /\ n = item'[g] /\ t = at[g] /\ t = at'[g]
        BY <1>3, <2>3, <3>2 DEF IInv, LeaveInv, TextTasks, Same
      <4>2. pc[g] = "text" /\ g \in Busy({"text"}, n)
        BY <1>3, <2>3, <3>2, <4>1 DEF Same, Busy
      <4>3. n # m
        BY <1>2, <4>2
      <4>4. shopOf[n] = None /\ OwnedOnce(AuthorOf[n], t) /\ \A f \in Busy({"text"}, n) : f = g
        BY <4>1, <4>2 DEF IInv, LeaveInv, TextTasks
      <4>5. OwnedOnce(AuthorOf[n], t)' /\ \A f \in Busy({"text"}, n)' : f = g
        BY <1>4, <2>1, <4>3, <4>4
      <4> QED
        BY <1>2, <4>1, <4>4, <4>5 DEF OwnedOnce, Busy
    <3> QED
      BY <3>1, <3>2
  <2> QED
    BY <2>3 DEF TextTasks
<1>8. DraftTasks'
  BY <1>2, <1>3 DEF IInv, LeaveInv, DraftTasks, Same, DraftSteps
<1>9. ASSUME NEW n \in Messages \ disturbed' PROVE Settled(n)'
  <2>1. Busy(DraftSteps, n)' = Busy(DraftSteps, n) /\ \A g \in Busy(DraftSteps, n) : Same(g)
    BY <1>3 DEF Busy, Same, DraftSteps
  <2> QED
    BY <1>2, <2>1, SettledKept DEF IInv, LeaveInv
<1> QED
  BY <1>3, <1>4, <1>6, <1>7, <1>8, <1>9 DEF IInv, LeaveInv

LEMMA CreateDraftKeeps ==
  ASSUME IInv, NEW h \in Handlers, CreateDraft(h) PROVE IInv'
<1>1. PICK m \in Messages, s \in Shops :
        m = item[h] /\ s = at[h] /\ shopOf[m] = None /\ OwnedOnce(AuthorOf[m], s) /\ s # None
  BY OwnerChatAssumption DEF IInv, LeaveInv, TextTasks, CreateDraft
<1>2. /\ pc[h] = "text" /\ shopOf' = [shopOf EXCEPT ![m] = s] /\ drafts' = drafts \cup {m}
      /\ UNCHANGED <<linking, groups, faults, rules, confirmed, saved, discarded, disturbed>>
  BY <1>1 DEF CreateDraft, draftHistory
<1>3. TasksOK' /\ pc'[h] = "idle" /\ \A g \in Handlers \ {h} : Same(g)
  BY <1>2, TaskEnds, FaultCounts DEF IInv, CreateDraft
<1>4. LinkInv' /\ GroupInv' /\ OwnershipKept
  BY <1>2, <1>3, LeaveStep DEF Kinds
<1>5. shopOf'[m] = s /\ \A n \in Messages \ {m} : shopOf'[n] = shopOf[n]
  BY <1>2 DEF IInv, LeaveInv, LeavesTyped
<1>6. LeavesTyped'
  BY <1>2 DEF IInv, LeaveInv, LeavesTyped
<1>7. LeavesOK'
  <2>1. OwnedOnce(AuthorOf[m], s)' /\ rules[m] = <<>> /\ m \notin saved
    BY <1>1, <1>4 DEF IInv, LeaveInv, LeavesOK, OwnershipKept
  <2>2. ASSUME NEW n \in Messages PROVE (shopOf[n] # None => OwnedOnce(AuthorOf[n], shopOf[n]))'
    <3>1. PICK t : t = shopOf'[n]
      OBVIOUS
    <3>2. t # None => OwnedOnce(AuthorOf[n], t)'
      BY <1>4, <1>5, <2>1, <3>1 DEF IInv, LeaveInv, LeavesOK, OwnershipKept
    <3> QED
      BY <3>1, <3>2 DEF OwnedOnce
  <2> QED
    BY <1>1, <1>2, <1>5, <2>1, <2>2 DEF IInv, LeaveInv, LeavesOK
<1>8. TextTasks'
  <2>1. ASSUME NEW g \in Handlers, pc'[g] = "text"
        PROVE  /\ item'[g] \in Messages /\ at'[g] \in Shops
               /\ shopOf'[item'[g]] = None /\ OwnedOnce(AuthorOf[item[g]], at[g])'
               /\ \A f \in Busy({"text"}, item[g])' : f = g
    <3>1. g # h /\ Same(g) /\ pc[g] = "text"
      BY <1>3, <2>1 DEF Same
    <3>2. PICK n \in Messages, t \in Shops :
            /\ n = item[g] /\ n = item'[g] /\ t = at[g] /\ t = at'[g]
            /\ shopOf[n] = None /\ OwnedOnce(AuthorOf[n], t) /\ \A f \in Busy({"text"}, n) : f = g
      BY <3>1 DEF IInv, LeaveInv, TextTasks, Same
    <3>3. n # m
      BY <1>1, <1>2, <3>1, <3>2 DEF Busy
    <3>4. OwnedOnce(AuthorOf[n], t)' /\ \A f \in Busy({"text"}, n)' : f = g
      BY <1>3, <1>4, <3>2 DEF OwnershipKept, Busy, Same
    <3> QED
      BY <1>5, <3>2, <3>3, <3>4 DEF OwnedOnce, Busy
  <2> QED
    BY <2>1 DEF TextTasks
<1>9. \A n \in Messages : shopOf[n] = None => Busy(DraftSteps, n) = {}
  BY OwnerChatAssumption DEF IInv, LeaveInv, DraftTasks, Busy
<1>10. DraftTasks'
  <2>1. ASSUME NEW g \in Handlers, pc'[g] \in DraftSteps
        PROVE  Same(g) /\ pc[g] \in DraftSteps /\ item[g] # m
    BY <1>1, <1>3, <1>9, <2>1 DEF Same, DraftSteps, Busy
  <2> QED
    BY <1>2, <1>5, <2>1 DEF IInv, LeaveInv, DraftTasks, Same
<1>11. ASSUME NEW n \in Messages \ disturbed' PROVE Settled(n)'
  <2>1. Busy(DraftSteps, n)' = Busy(DraftSteps, n) /\ \A g \in Busy(DraftSteps, n) : Same(g)
    BY <1>2, <1>3 DEF Busy, Same, DraftSteps
  <2>2. Settled(n)
    BY <1>2, <1>11 DEF IInv, LeaveInv
  <2>3. CASE n # m
    BY <1>2, <2>1, <2>2, <2>3, SettledKept
  <2>4. CASE n = m
    BY <1>1, <1>2, <1>9, <2>1, <2>2, <2>4 DEF IInv, LeaveInv, LeavesOK, Settled
  <2> QED
    BY <2>3, <2>4
<1> QED
  BY <1>3, <1>4, <1>6, <1>7, <1>8, <1>10, <1>11 DEF IInv, LeaveInv

\* No step on a draft concerns those who are reading a leave.
LEMMA TextKept ==
  ASSUME TextTasks, UNCHANGED shopOf, OwnershipKept,
         \A h \in Handlers : pc'[h] = "text" => Same(h)
  PROVE  TextTasks'
  BY DEF TextTasks, OwnershipKept, Same, Busy

LEMMA DraftExpiresKeeps ==
  ASSUME IInv, NEW m \in Messages, DraftExpires(m) PROVE IInv'
<1>1. /\ drafts' = drafts \ {m}
      /\ UNCHANGED <<linking, groups, shopOf, rules, confirmed, saved, discarded, disturbed,
                     pc, by, at, item, faults>>
  BY DEF DraftExpires, draftHistory, task
<1>2. TasksOK' /\ \A h \in Handlers : Same(h)
  BY <1>1 DEF IInv, TasksOK, Same
<1>3. LinkInv' /\ GroupInv' /\ OwnershipKept
  BY <1>1, <1>2, LeaveStep
<1>4. TextTasks'
  BY <1>1, <1>2, <1>3, TextKept DEF IInv, LeaveInv
<1>5. LeavesTyped' /\ DraftTasks' /\ LeavesOK'
  BY <1>1, <1>3 DEF IInv, LeaveInv, LeavesTyped, DraftTasks, LeavesOK, OwnershipKept
<1>6. ASSUME NEW n \in Messages \ disturbed' PROVE Settled(n)'
  <2>1. Busy(DraftSteps, n)' = Busy(DraftSteps, n)
    BY <1>1 DEF Busy
  <2> QED
    BY <1>1, <1>2, <2>1, SettledKept DEF IInv, LeaveInv, Busy
<1> QED
  BY <1>2, <1>3, <1>4, <1>5, <1>6 DEF IInv, LeaveInv

LEMMA TapKeeps ==
  ASSUME IInv, NEW h \in Handlers, NEW u \in Users, NEW m \in Messages,
         NEW step \in {"confirm", "cancel"}, Tap(h, u, m, step),
         confirmed \subseteq confirmed', confirmed' \subseteq Messages,
         step = "confirm" => m \in confirmed'
  PROVE  IInv'
<1>1. /\ m \in drafts /\ Start(h, step, u, shopOf[m], m)
      /\ disturbed' = IF Busy(DraftSteps, m) # {} THEN disturbed \cup {m} ELSE disturbed
      /\ UNCHANGED <<linking, groups, shopOf, drafts, rules, saved, discarded, faults>>
  BY DEF Tap, CanLoad, intake
<1>2. PICK s \in Shops : s = shopOf[m]
  BY <1>1 DEF IInv, LeaveInv, LeavesTyped, LeavesOK
<1>3. /\ TasksOK' /\ \A g \in Handlers \ {h} : Same(g)
      /\ pc[h] = "idle" /\ pc'[h] = step /\ at'[h] = s /\ item'[h] = m
  BY <1>1, <1>2, TaskStarts, FaultCounts DEF IInv, Steps, DraftSteps
<1>4. LinkInv' /\ GroupInv' /\ OwnershipKept
  BY <1>1, <1>3, LeaveStep DEF Kinds
<1>5. TextTasks'
  BY <1>1, <1>3, <1>4, TextKept DEF IInv, LeaveInv
<1>6. LeavesTyped'
  BY <1>1 DEF IInv, LeaveInv, LeavesTyped
<1>7. LeavesOK'
  BY <1>1, <1>4 DEF IInv, LeaveInv, LeavesOK, OwnershipKept
<1>8. DraftTasks'
  <2>1. ASSUME NEW g \in Handlers, pc'[g] \in DraftSteps
        PROVE  (/\ item[g] \in Messages /\ at[g] \in Shops /\ at[g] = shopOf[item[g]]
                /\ pc[g] # "cancel" => item[g] \in confirmed
                /\ pc[g] = "stored" => rules[item[g]] # <<>>)'
    <3>1. CASE g = h
      BY <1>1, <1>2, <1>3, <3>1
    <3>2. CASE g # h
      BY <1>1, <1>3, <2>1, <3>2 DEF IInv, LeaveInv, DraftTasks, Same
    <3> QED
      BY <3>1, <3>2
  <2> QED
    BY <2>1 DEF DraftTasks
<1>9. ASSUME NEW n \in Messages \ disturbed' PROVE Settled(n)'
  <2>1. Settled(n)
    BY <1>1, <1>9 DEF IInv, LeaveInv
  <2>2. CASE n # m
    <3>1. Busy(DraftSteps, n)' = Busy(DraftSteps, n) /\ \A g \in Busy(DraftSteps, n) : Same(g)
      BY <1>3, <2>2 DEF Busy, Same, DraftSteps
    <3> QED
      BY <1>1, <2>1, <3>1, SettledKept
  <2>3. CASE n = m
    <3>1. Busy(DraftSteps, m) = {} /\ Busy(DraftSteps, m)' = {h}
      BY <1>1, <1>3, <1>9, <2>3 DEF Busy, Same, DraftSteps
    <3>2. rules[m] = <<>> /\ m \notin discarded
      BY <1>1, <2>1, <2>3, <3>1 DEF Settled
    <3> QED
      BY <1>1, <2>1, <2>3, <3>1, <3>2 DEF Settled
  <2> QED
    BY <2>2, <2>3
<1> QED
  BY <1>3, <1>4, <1>5, <1>6, <1>7, <1>8, <1>9 DEF IInv, LeaveInv

LEMMA CreateRuleKeeps ==
  ASSUME IInv, NEW h \in Handlers, CreateRule(h) PROVE IInv'
<1>1. PICK m \in Messages, s \in Shops : m = item[h] /\ s = at[h] /\ s = shopOf[m] /\ m \in confirmed
  BY DEF IInv, LeaveInv, DraftTasks, CreateRule, DraftSteps
<1>2. /\ pc[h] = "confirm" /\ rules' = [rules EXCEPT ![m] = Append(@, s)]
      /\ \/ Goto(h, "stored") /\ UNCHANGED <<disturbed, faults>>
         \/ End(h) /\ Fault /\ disturbed' = disturbed \cup {m}
      /\ UNCHANGED <<linking, groups, shopOf, drafts, confirmed, saved, discarded>>
  BY <1>1 DEF CreateRule
<1>3. /\ TasksOK' /\ \A g \in Handlers \ {h} : Same(g)
      /\ \/ pc'[h] = "idle" /\ disturbed' = disturbed \cup {m}
         \/ pc'[h] = "stored" /\ at'[h] = s /\ item'[h] = m /\ UNCHANGED disturbed
  <2>1. faults' \in 0..MaxFaults
    BY <1>2, FaultCounts DEF IInv
  <2>2. CASE Goto(h, "stored") /\ UNCHANGED disturbed
    BY <1>1, <2>1, <2>2, TaskGoes DEF IInv, Steps, DraftSteps
  <2>3. CASE End(h) /\ disturbed' = disturbed \cup {m}
    BY <2>1, <2>3, TaskEnds DEF IInv
  <2> QED
    BY <1>2, <2>2, <2>3
<1>4. LinkInv' /\ GroupInv' /\ OwnershipKept
  BY <1>2, <1>3, LeaveStep DEF Kinds
<1>5. TextTasks'
  BY <1>2, <1>3, <1>4, TextKept DEF IInv, LeaveInv
<1>6. /\ rules' \in [Messages -> Seq(Shops)]
      /\ Len(rules'[m]) = Len(rules[m]) + 1 /\ DOMAIN rules[m] = 1..Len(rules[m])
      /\ DOMAIN rules'[m] = 1..(Len(rules[m]) + 1) /\ rules'[m] # <<>>
      /\ \A i \in DOMAIN rules'[m] :
           rules'[m][i] = s \/ (i \in DOMAIN rules[m] /\ rules'[m][i] = rules[m][i])
      /\ \A n \in Messages \ {m} : rules'[n] = rules[n]
  BY <1>2 DEF IInv, LeaveInv, LeavesTyped
<1>7. LeavesTyped'
  BY <1>2, <1>3, <1>6 DEF IInv, LeaveInv, LeavesTyped
<1>8. LeavesOK'
  <2>1. shopOf[m] # None
    BY <1>1, OwnerChatAssumption
  <2> QED
    BY <1>1, <1>2, <1>4, <1>6, <2>1 DEF IInv, LeaveInv, LeavesOK, OwnershipKept
<1>9. DraftTasks'
  <2>1. ASSUME NEW g \in Handlers, pc'[g] \in DraftSteps
        PROVE  (/\ item[g] \in Messages /\ at[g] \in Shops /\ at[g] = shopOf[item[g]]
                /\ pc[g] # "cancel" => item[g] \in confirmed
                /\ pc[g] = "stored" => rules[item[g]] # <<>>)'
    <3>1. CASE g = h
      BY <1>1, <1>2, <1>3, <1>6, <2>1, <3>1 DEF DraftSteps
    <3>2. CASE g # h
      BY <1>2, <1>3, <1>6, <2>1, <3>2 DEF IInv, LeaveInv, DraftTasks, Same
    <3> QED
      BY <3>1, <3>2
  <2> QED
    BY <2>1 DEF DraftTasks
<1>10. ASSUME NEW n \in Messages \ disturbed' PROVE Settled(n)'
  <2>1. Settled(n)
    BY <1>3, <1>10 DEF IInv, LeaveInv
  <2>2. CASE n # m
    <3>1. Busy(DraftSteps, n)' = Busy(DraftSteps, n) /\ \A g \in Busy(DraftSteps, n) : Same(g)
      BY <1>1, <1>3, <2>2 DEF Busy, Same, DraftSteps
    <3> QED
      BY <1>2, <1>6, <2>1, <2>2, <3>1, SettledKept
  <2>3. CASE n = m
    <3>1. pc'[h] = "stored" /\ item'[h] = m
      BY <1>3, <1>10, <2>3
    <3>2. h \in Busy(DraftSteps, m) /\ h \in Busy(DraftSteps, m)'
      BY <1>1, <1>2, <3>1 DEF Busy, DraftSteps
    <3>3. Busy(DraftSteps, m)' \subseteq Busy(DraftSteps, m)
      BY <1>3, <3>2 DEF Busy, Same
    <3>4. rules[m] = <<>> /\ m \notin discarded /\ Len(rules[m]) = 0
      BY <1>2, <2>1, <2>3, <3>2 DEF Settled
    <3> QED
      BY <1>2, <1>6, <2>1, <2>3, <3>1, <3>2, <3>3, <3>4 DEF Settled
  <2> QED
    BY <2>2, <2>3
<1> QED
  BY <1>3, <1>4, <1>5, <1>7, <1>8, <1>9, <1>10 DEF IInv, LeaveInv

\* The draft is deleted and its author is answered.
LEMMA FinishKeeps ==
  ASSUME IInv, NEW h \in Handlers, FinishConfirm(h) \/ FinishCancel(h) PROVE IInv'
<1>1. PICK m \in Messages : m = item[h] /\ shopOf[m] # None
  BY OwnerChatAssumption DEF IInv, LeaveInv, DraftTasks, FinishConfirm, FinishCancel, DraftSteps
<1>2. /\ drafts' = drafts \ {m} /\ End(h)
      /\ \/ pc[h] = "stored" /\ saved' = saved \cup {m} /\ UNCHANGED discarded
         \/ pc[h] = "cancel" /\ discarded' = discarded \cup {m} /\ UNCHANGED saved
      /\ UNCHANGED <<linking, groups, shopOf, rules, confirmed, disturbed, faults>>
  BY <1>1 DEF FinishConfirm, FinishCancel, DeleteDraft
<1>3. TasksOK' /\ pc'[h] = "idle" /\ \A g \in Handlers \ {h} : Same(g)
  BY <1>2, TaskEnds, FaultCounts DEF IInv
<1>4. LinkInv' /\ GroupInv' /\ OwnershipKept
  BY <1>2, <1>3, LeaveStep DEF Kinds
<1>5. TextTasks'
  BY <1>2, <1>3, <1>4, TextKept DEF IInv, LeaveInv
<1>6. LeavesTyped' /\ DraftTasks'
  BY <1>2, <1>3 DEF IInv, LeaveInv, LeavesTyped, DraftTasks, Same, DraftSteps
<1>7. LeavesOK'
  <2>1. pc[h] = "stored" => rules[m] # <<>>
    BY <1>1 DEF IInv, LeaveInv, DraftTasks, DraftSteps
  <2> QED
    BY <1>1, <1>2, <1>4, <2>1 DEF IInv, LeaveInv, LeavesOK, OwnershipKept
<1>8. ASSUME NEW n \in Messages \ disturbed' PROVE Settled(n)'
  <2>1. Settled(n)
    BY <1>2, <1>8 DEF IInv, LeaveInv
  <2>2. CASE n # m
    <3>1. Busy(DraftSteps, n)' = Busy(DraftSteps, n) /\ \A g \in Busy(DraftSteps, n) : Same(g)
      BY <1>1, <1>3, <2>2 DEF Busy, Same, DraftSteps
    <3> QED
      BY <1>2, <2>1, <2>2, <3>1, SettledKept
  <2>3. CASE n = m
    <3>1. h \in Busy(DraftSteps, m)
      BY <1>1, <1>2 DEF Busy, DraftSteps
    <3>2. Busy(DraftSteps, m)' = {}
      BY <1>3, <2>1, <2>3, <3>1 DEF Busy, Same, Settled, DraftSteps
    <3>3. pc[h] = "cancel" => rules[m] = <<>>
      BY <2>1, <2>3, <3>1 DEF Settled
    <3> QED
      BY <1>2, <2>1, <2>3, <3>2, <3>3 DEF Settled
  <2> QED
    BY <2>2, <2>3
<1> QED
  BY <1>3, <1>4, <1>5, <1>6, <1>7, <1>8 DEF IInv, LeaveInv

-----------------------------------------------------------------------------
(* Faults.                                                                 *)

LEMMA CallFailsKeeps ==
  ASSUME IInv, NEW h \in Handlers, CallFails(h) PROVE IInv'
<1>1. pc[h] # "stored" /\ End(h) /\ UNCHANGED <<linking, groups, leaves, faults>>
  BY DEF CallFails
<1>2. TasksOK' /\ pc'[h] = "idle" /\ \A g \in Handlers \ {h} : Same(g)
  BY <1>1, TaskEnds, FaultCounts DEF IInv
<1>3. LinkInv' /\ GroupInv' /\ OwnershipKept
  BY <1>1, <1>2, LeaveStep DEF Kinds
<1>4. LeaveInv'
  BY <1>1, <1>2, <1>3, LeavesKept DEF IInv, DraftSteps
<1> QED
  BY <1>2, <1>3, <1>4 DEF IInv

LEMMA RestartKeeps ==
  ASSUME IInv, Restart PROVE IInv'
<1>1. /\ drafts' = {} /\ \A h \in Handlers : pc'[h] = "idle"
      /\ disturbed' = disturbed \cup {item[h] : h \in {x \in Handlers : pc[x] \in DraftSteps}}
      /\ UNCHANGED <<linking, groups, shopOf, rules, confirmed, saved, discarded>>
  BY DEF Restart
<1>2. TasksOK'
  BY FaultCounts DEF IInv, TasksOK, Restart, Steps
<1>3. LinkInv' /\ GroupInv' /\ OwnershipKept
  BY <1>1, <1>2, LeaveStep DEF Kinds
<1>4. LeavesTyped'
  BY <1>1 DEF IInv, LeaveInv, LeavesTyped, DraftTasks
<1>5. TextTasks' /\ DraftTasks'
  BY <1>1 DEF TextTasks, DraftTasks, DraftSteps
<1>6. LeavesOK'
  BY <1>1, <1>3 DEF IInv, LeaveInv, LeavesOK, OwnershipKept
<1>7. ASSUME NEW n \in Messages \ disturbed' PROVE Settled(n)'
  <2>1. Settled(n) /\ Busy(DraftSteps, n)' = {}
    BY <1>1, <1>7 DEF IInv, LeaveInv, Busy, DraftSteps
  <2> QED
    BY <1>1, <2>1 DEF Settled
<1> QED
  BY <1>2, <1>3, <1>4, <1>5, <1>6, <1>7 DEF IInv, LeaveInv

-----------------------------------------------------------------------------
\* Every step keeps the invariant.
THEOREM NextIInv == IInv /\ [Next]_vars => IInv'
<1> SUFFICES ASSUME IInv, [Next]_vars PROVE IInv'
  OBVIOUS
<1>1. CASE LinkNext
  BY <1>1, IssueKeeps, ExpireKeeps, FindKeeps, ConsumeKeeps, OwnerKeeps DEF LinkNext
<1>2. CASE GroupNext
  BY <1>2, AddKeeps, TapBindKeeps, BindKeeps
  DEF GroupNext, BindTelegramGroup, BindTelegramTeamChat, Kinds
<1>3. CASE \E h \in Handlers, u \in Users, m \in Messages : TapConfirm(h, u, m) \/ TapCancel(h, u, m)
  <2>1. PICK h \in Handlers, u \in Users, m \in Messages : TapConfirm(h, u, m) \/ TapCancel(h, u, m)
    BY <1>3
  <2>2. confirmed \subseteq Messages
    BY DEF IInv, LeaveInv, LeavesTyped
  <2>3. CASE TapConfirm(h, u, m)
    <3>1. Tap(h, u, m, "confirm") /\ confirmed' = confirmed \cup {m}
      BY <2>3 DEF TapConfirm, Tap, CanLoad
    <3> QED
      BY <2>2, <3>1, TapKeeps
  <2>4. CASE TapCancel(h, u, m)
    BY <2>2, <2>4, TapKeeps DEF TapCancel
  <2> QED
    BY <2>1, <2>3, <2>4
<1>4. CASE LeaveNext
  BY <1>3, <1>4, TextKeeps, DraftExpiresKeeps, CreateDraftKeeps, CreateRuleKeeps, FinishKeeps
  DEF LeaveNext
<1>5. CASE (\E h \in Handlers : CallFails(h)) \/ Restart
  BY <1>5, CallFailsKeeps, RestartKeeps
<1>6. CASE UNCHANGED vars
  <2>1. UNCHANGED <<linking, groups, leaves, pc, by, at, item, faults>>
    BY <1>6 DEF vars, task
  <2>2. TasksOK' /\ \A h \in Handlers : Same(h)
    BY <2>1 DEF IInv, TasksOK, Same
  <2>3. LinkInv' /\ GroupInv' /\ OwnershipKept
    BY <2>1, <2>2, LeaveStep
  <2> QED
    BY <2>1, <2>2, <2>3, LeavesKept DEF IInv
<1> QED
  BY <1>1, <1>2, <1>4, <1>5, <1>6 DEF Next

\* So it holds in every reachable state.
THEOREM OwnerChatInvariant == Spec => []IInv
  BY InitIInv, NextIInv, PTL DEF Spec

\* Every variable keeps its type, and no account ever owns two shops.
THEOREM OwnerChatTypeCorrect == Spec => []TypeOK
<1>1. IInv => TypeOK
  BY DEF IInv, TasksOK, LinkInv, LinksTyped, GroupInv, LeaveInv, LeavesTyped, Steps, TypeOK
<1> QED
  BY <1>1, OwnerChatInvariant, PTL

\* What the tokens of a shop say of the one issued last.
LEMMA LatestIsNewest ==
  ASSUME LinkInv, NEW s \in Shops
  PROVE  /\ TokensOf(s) = {} => Latest(s) = 0
         /\ \A i : Newest(s, i) => Latest(s) = i
<1>1. \A i \in DOMAIN issued : i \in Nat \ {0}
  BY DEF LinkInv, LinksTyped
<1>2. Latest(s) = CHOOSE m \in TokensOf(s) \cup {0} : \A j \in TokensOf(s) \cup {0} : m >= j
  BY DEF Latest, Max
<1>3. TokensOf(s) = {} => Latest(s) = 0
  BY <1>2
<1>4. ASSUME NEW i, Newest(s, i) PROVE Latest(s) = i
  <2>1. i \in TokensOf(s) \cup {0} /\ \A j \in TokensOf(s) \cup {0} : i >= j
    BY <1>1, <1>4 DEF Newest, TokensOf
  <2>2. \A m \in TokensOf(s) \cup {0} : (\A j \in TokensOf(s) \cup {0} : m >= j) => m = i
    BY <1>1, <2>1 DEF TokensOf
  <2> QED
    BY <1>2, <2>1, <2>2
<1> QED
  BY <1>3, <1>4

\* A shop's links count in the order they were issued, and each once.
THEOREM LinksAlwaysCountOnce == Spec => []LinksCountOnce
<1>1. IInv => LatestLinkCounts
  <2> SUFFICES ASSUME IInv, NEW s \in Shops
               PROVE  /\ link[s] \in {0, Latest(s)}
                      /\ s \notin unsure /\ link[s] = 0 =>
                           Latest(s) \in found \cup lapsed \cup {0}
    BY DEF LatestLinkCounts
  <2>1. link[s] \in {0, Latest(s)}
    BY LatestIsNewest DEF IInv, LinkInv, LinksOK
  <2>2. s \notin unsure /\ link[s] = 0 => Latest(s) \in found \cup lapsed \cup {0}
    BY LatestIsNewest DEF IInv, LinkInv, LinksOK
  <2> QED
    BY <2>1, <2>2
<1>2. IInv => NewestLinkOwns
  BY DEF IInv, LinkInv, Calm, MadeOf, NewestLinkOwns
<1> QED
  BY <1>1, <1>2, OwnerChatInvariant, PTL DEF LinksCountOnce

\* Groups and rules go to the shop whose owner asked for them, although the
\* owner may change between a handler's lookup and its write.
THEOREM OwnersAlwaysSpeakForTheirShop == Spec => []OwnersSpeakForTheirShop
<1>1. IInv => GroupsBoundByAnOwner
  BY DEF IInv, GroupInv
<1>2. IInv => RulesComeFromTheirOwner
  BY DEF IInv, LeaveInv, LeavesOK, RulesComeFromTheirOwner
<1> QED
  BY <1>1, <1>2, OwnerChatInvariant, PTL DEF OwnersSpeakForTheirShop

\* What the owner was told about a draft is so.
THEOREM AnswersAreAlwaysTrue == Spec => []AnswersAreTrue
<1>1. IInv => AnswersAreTrue
  BY DEF IInv, LeaveInv, LeavesOK, Settled, AnswersAreTrue
<1> QED
  BY <1>1, OwnerChatInvariant, PTL

=============================================================================
