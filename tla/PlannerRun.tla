----------------------------- MODULE PlannerRun -----------------------------
(***************************************************************************)
(* planner.Service.GenerateWeek for one shop and week.  It reads the team, *)
(* the shift templates, the answers and the rules in four queries outside  *)
(* any transaction, builds the solver's problem from what it read and      *)
(* stores what the solver makes of it.  Meanwhile the owner edits the team *)
(* and the shifts, employees answer, and the owner's leave rules are saved.*)
(*                                                                         *)
(* Concurrent runs share nothing but the tables: the first to store wins   *)
(* (WeeklySchedule), so one run is enough here.                            *)
(***************************************************************************)
EXTENDS PlannerConvert, Integers, FiniteSets

CONSTANTS
  Staff,       \* the shop's employee rows
  Names,       \* display names
  Templates,   \* the shop's shift rows
  Template,    \* Template[t]: its weekday, from, to
  Answers,     \* sets of slots an employee may submit
  NoAnswer,    \* no availability row
  Rules,       \* ids of rule rows
  RuleRow,     \* RuleRow[r]: the row, for rules that are not leaves
  Leaves,      \* the rules among them that the owner's leave drafts become
  LeaveOf,     \* LeaveOf[r]: the employee whose day off in the week it is
  MaxChanges   \* bound: changes of the tables in a behaviour

\* ValidateCreateShiftInput, and the hours of the default shifts.
ValidTemplate(t) ==
  /\ t.weekday \in 0..6
  /\ t.from \in 0..(DayLength - 1) /\ t.to \in 0..(DayLength - 1)
  /\ t.from # t.to

\* validateAvailabilitySlots, which refuses the draft with any other slot.
ValidSlot(s) ==
  /\ s.start \in Int /\ s.end \in Int /\ s.start < s.end
  /\ s.preference \in 0..2

ASSUME PlannerRunAssumption ==
  /\ Leaves \subseteq Rules
  /\ LeaveOf \in [Leaves -> Staff]
  /\ DOMAIN RuleRow = Rules \ Leaves
  /\ DOMAIN Template = Templates
  /\ \A t \in Templates : ValidTemplate(Template[t])
  /\ \A a \in Answers : \A s \in a : ValidSlot(s)
  /\ NoAnswer \notin Answers
  /\ MaxChanges \in Nat

VARIABLES
  active,      \* employees whose is_active is true
  nameOf,      \* their display names
  enabled,     \* templates whose is_active is true
  answerOf,    \* the week's availability rows
  rules,       \* the rules table
  changes,     \* changes made so far
  pc,          \* what GenerateWeek has read: "idle", "team", "shifts", "answers";
               \* then "built", and "saved"
  team,        \* its employees: their names, by id
  shifts,      \* its shift templates
  answers,     \* its answers, by employee
  problem,     \* the preferences it gives the solver
  penalties,   \* and the penalty rules, by rule
  during       \* history: the team and the rules there were when the run began,
               \* the answers that have stood since, and the templates enabled
               \* at some moment and all the time since

tables   == <<active, nameOf, enabled, answerOf, rules, changes>>
copies   == <<team, shifts, answers>>
run      == <<pc, copies, problem, penalties>>
planVars == <<tables, run, during>>

NoFunction == [x \in {} |-> 0]

Idle ==
  /\ pc' = "idle"
  /\ team' = NoFunction /\ shifts' = {} /\ answers' = NoFunction
  /\ problem' = NoFunction /\ penalties' = NoFunction

PlanInit ==
  /\ active \in SUBSET Staff
  /\ nameOf \in [Staff -> Names]
  /\ enabled \in SUBSET Templates
  /\ answerOf \in [Staff -> Answers \cup {NoAnswer}]
  /\ rules = Rules \ Leaves
  /\ changes = 0
  /\ pc = "idle"
  /\ team = NoFunction /\ shifts = {} /\ answers = NoFunction
  /\ problem = NoFunction /\ penalties = NoFunction
  /\ during = [team |-> NoFunction, answers |-> [e \in Staff |-> {}],
               some |-> {}, all |-> {}, rules |-> {}]

-----------------------------------------------------------------------------
(* The tables.                                                             *)

Running == pc \in {"team", "shifts", "answers"}

Change ==
  /\ changes < MaxChanges
  /\ changes' = changes + 1
  /\ UNCHANGED run

\* EmployeeRepo.SetActive, from the dashboard.
SetActive(e) ==
  /\ Change
  /\ active' = IF e \in active THEN active \ {e} ELSE active \cup {e}
  /\ UNCHANGED <<nameOf, enabled, answerOf, rules, during>>

\* EmployeeRepo.Update, or Join by somebody who is in the team already.
Rename(e, n) ==
  /\ Change
  /\ n # nameOf[e]
  /\ nameOf' = [nameOf EXCEPT ![e] = n]
  /\ UNCHANGED <<active, enabled, answerOf, rules, during>>

\* ShiftRepo.SetActive.
SetEnabled(t) ==
  /\ Change
  /\ enabled' = IF t \in enabled THEN enabled \ {t} ELSE enabled \cup {t}
  /\ during' = IF Running THEN [during EXCEPT !.some = @ \cup enabled', !.all = @ \cap enabled']
                          ELSE during
  /\ UNCHANGED <<active, nameOf, answerOf, rules>>

\* AvailabilityRepo.ReplaceWeek, the end of a Confirm.
ReplaceWeek(e, a) ==
  /\ Change
  /\ a # answerOf[e]
  /\ answerOf' = [answerOf EXCEPT ![e] = a]
  /\ during' = IF Running THEN [during EXCEPT !.answers[e] = @ \cup {a}] ELSE during
  /\ UNCHANGED <<active, nameOf, enabled, rules>>

\* handleOwnerConfirm's rule: employee and date are fields of their own in the
\* JSON, which has no "params".
LeaveRule(e) ==
  [active |-> TRUE, kind |-> "day_off", weight |-> 5, jsonWeight |-> 0, employee_id |-> e]

\* handleOwnerConfirm stores the draft with RuleRepo.Create.
ConfirmLeave(r) ==
  /\ Change
  /\ r \in Leaves \ rules
  /\ rules' = rules \cup {r}
  /\ UNCHANGED <<active, nameOf, enabled, answerOf, during>>

-----------------------------------------------------------------------------
(* GenerateWeek.                                                           *)

AllEmployees == Staff  \* bug: ListAllByShop instead of ListActiveByShop
ListedTeam   == active

\* ListActiveByShop, with the names.
ReadTeam ==
  /\ pc = "idle"
  /\ active # {}
  /\ pc' = "team"
  /\ team' = [e \in ListedTeam |-> nameOf[e]]
  /\ during' = [team |-> [e \in active |-> nameOf[e]],
                answers |-> [e \in Staff |-> {answerOf[e]}],
                some |-> enabled, all |-> enabled, rules |-> rules]
  /\ UNCHANGED <<tables, shifts, answers, problem, penalties>>

\* ListByShop of the shifts.
ReadShifts ==
  /\ pc = "team"
  /\ enabled # {}
  /\ pc' = "shifts"
  /\ shifts' = enabled
  /\ UNCHANGED <<tables, team, answers, problem, penalties, during>>

NoShifts ==
  /\ pc = "team"
  /\ enabled = {}
  /\ Idle
  /\ UNCHANGED <<tables, during>>

\* ListByShopWeek of the answers; of a row of somebody else nothing is used.
ReadAnswers ==
  /\ pc = "shifts"
  /\ pc' = "answers"
  /\ answers' = [e \in DOMAIN team |-> IF answerOf[e] = NoAnswer THEN {} ELSE answerOf[e]]
  /\ UNCHANGED <<tables, team, shifts, problem, penalties, during>>

RowOf(r) == IF r \in Leaves THEN LeaveRule(LeaveOf[r]) ELSE RuleRow[r]

NamesNow == [e \in active |-> nameOf[e]]  \* bug: the team is read again for the rules
NamesRead == team

\* bug: a shift that is switched off is planned as well
EveryShift ==
  [p \in (DOMAIN team) \X Templates |->
     PreferenceForShift(answers[p[1]], ShiftOf(Template[p[2]]))]

\* BuildProblem.
Problem ==
  [p \in (DOMAIN team) \X shifts |->
     PreferenceForShift(answers[p[1]], ShiftOf(Template[p[2]]))]

\* ListByShop of the rules, then BuildProblem and mapRules.  The copies are not
\* used any more.
ReadRulesAndBuild ==
  /\ pc = "answers"
  /\ pc' = "built"
  /\ problem' = Problem
  /\ \E byName \in ByNames(NamesRead) :
       LET used == {r \in rules : RowOf(r).active /\ Understood(RowOf(r), byName)}
       IN  penalties' = [r \in used |-> PenaltyOf(RowOf(r), byName)]
  /\ UNCHANGED <<tables, copies, during>>

\* CreateCandidates stores what the solver found.
Save ==
  /\ pc = "built"
  /\ pc' = "saved"
  /\ UNCHANGED <<tables, copies, problem, penalties, during>>

\* A query or the solver's store fails: the request ends with an error.
Fail ==
  /\ pc \in {"team", "shifts", "answers", "built"}
  /\ Idle
  /\ UNCHANGED <<tables, during>>

\* With nobody active it gives up at once; once candidates of the week are
\* stored a later run computes its own and is told that they exist.
Refuse ==
  /\ pc = "saved" \/ (pc = "idle" /\ active = {})
  /\ UNCHANGED planVars

-----------------------------------------------------------------------------
Tables ==
  \/ \E e \in Staff : SetActive(e) \/ \E n \in Names : Rename(e, n)
  \/ \E t \in Templates : SetEnabled(t)
  \/ \E e \in Staff, a \in Answers : ReplaceWeek(e, a)
  \/ \E r \in Leaves : ConfirmLeave(r)

GenerateWeek == ReadTeam \/ ReadShifts \/ NoShifts \/ ReadAnswers
                \/ ReadRulesAndBuild \/ Save \/ Fail \/ Refuse

PlanNext == Tables \/ GenerateWeek

PlanSpec == PlanInit /\ [][PlanNext]_planVars

-----------------------------------------------------------------------------
(* Properties.                                                             *)

Built == pc \in {"built", "saved"}

\* The answers of e that stood during the run; more than one, or NoAnswer too,
\* if e answered meanwhile.
Stood(e) == during.answers[e]

\* The hours of a template, day by day: 0 is Sunday, and the hours after
\* midnight belong to the shift as well.
Worked(t) ==
  LET x == Template[t]
      long == (x.to + DayLength - x.from) % DayLength
      monday0 == (x.weekday + 6) % 7
  IN  {monday0 * DayLength + x.from + i : i \in 0..(long - 1)}

SlotHours(slot) == slot.start..(slot.end - 1)
HoursIn(a, ps) == UNION {SlotHours(s) : s \in {x \in a : x.preference \in ps}}

PlanTypeOK ==
  /\ active \subseteq Staff /\ nameOf \in [Staff -> Names]
  /\ enabled \subseteq Templates
  /\ answerOf \in [Staff -> Answers \cup {NoAnswer}]
  /\ rules \subseteq Rules
  /\ changes \in 0..MaxChanges
  /\ pc \in {"idle", "team", "shifts", "answers", "built", "saved"}
  /\ DOMAIN team \subseteq Staff /\ shifts \subseteq Templates
  /\ Built => /\ problem \in [(DOMAIN team) \X shifts -> 0..2]
              /\ DOMAIN penalties \subseteq rules

\* Nobody is offered to the solver for a shift that was switched off, or for
\* hours they refused or did not offer, in every answer of theirs that stood
\* during the run; nobody who was suspended when it began is offered at all.
\* A preference of 2 says that all the shift's hours were preferred.
PlansWhatStood ==
  Built => \A p \in DOMAIN problem :
    problem[p] > 0 =>
      /\ p[1] \in DOMAIN during.team
      /\ p[2] \in during.some
      /\ \E a \in Stood(p[1]) \ {NoAnswer} :
           /\ Worked(p[2]) \subseteq HoursIn(a, {problem[p]})
           /\ Worked(p[2]) \cap HoursIn(a, {0}) = {}

\* Whoever was active when the run began and kept one answer throughout is
\* offered for every shift that was on throughout and that one of the answer's
\* slots holds as a whole, unless part of it is refused.
AnswersInTimeCount ==
  Built => \A e \in DOMAIN during.team, t \in during.all :
    \A a \in Stood(e) \ {NoAnswer} :
      (/\ Stood(e) = {a}
       /\ \E s \in a : s.preference > 0 /\ Worked(t) \subseteq SlotHours(s)
       /\ Worked(t) \cap HoursIn(a, {0}) = {})
      => problem[<<e, t>>] > 0

\* The employee of the team a name means, when it means one and only one.
Means(n, e) ==
  {x \in DOMAIN during.team : NameKey[during.team[x]] = NameKey[n]} = {e}

\* A rule with parameters that was there when the run began, is active, names
\* people of the team unambiguously and a day of the week, if it needs one, is
\* weighed by the solver, against those very people.
RulesInTimeCount ==
  Built => \A r \in during.rules \ Leaves :
    LET row == RuleRow[r]
    IN  row.active /\ "params" \in DOMAIN row =>
          /\ row.kind = "avoid_pair" => \A x, y \in Staff :
               Means(row.params.a, x) /\ Means(row.params.b, y)
               => r \in DOMAIN penalties /\ penalties[r].a = x /\ penalties[r].b = y
          /\ row.kind = "day_off" /\ row.params.weekday \in 0..6 => \A x \in Staff :
               Means(row.params.employee, x)
               => r \in DOMAIN penalties /\ penalties[r].employee = x

\* Every penalty is about people of the problem it is weighed in, although the
\* roster may have changed since the problem's people were read.
PenaltiesConcernTheTeam ==
  Built => \A r \in DOMAIN penalties :
    LET people == IF penalties[r].kind = "avoid_pair"
                  THEN {penalties[r].a, penalties[r].b} ELSE {penalties[r].employee}
    IN  people \subseteq DOMAIN team

\* Rules reach the solver as penalties of the people they name.
RulesReachTheirPeople == RulesInTimeCount /\ PenaltiesConcernTheTeam

\* ent/schema/rule.go: rule_json is a "Structured penalty rule (kind + params)
\* consumed by the solver".  A leave the owner confirmed before the run began,
\* of somebody in the team, is one of its penalties.
ConfirmedLeaveReachesSolver ==
  Built => \A r \in Leaves \cap during.rules :
    LeaveOf[r] \in DOMAIN during.team => r \in DOMAIN penalties
=============================================================================
