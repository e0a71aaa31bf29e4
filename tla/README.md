# Formal models of shiftZ

TLA+ models of the core of shiftZ (the `shiftbot` programs), the TLC runs that
check them on small instances, and TLAPS proofs that carry the main results to
every instance. Paths below are relative to the repository's root; `src/` in
`PROJECT.json` is that root.

## 1. The system

shiftZ plans the weekly shifts of small shops. Employees tell a Telegram bot
when they can work, a solver proposes three schedules, employees vote, and the
owner approves one on a dashboard. `cmd/app` is the production program (web
server with dashboard, webhook and reminder trigger); `cmd/bot` and
`cmd/server` are its parts for development. All state that outlives a request
is in one Postgres database; each HTTP request and each Telegram update runs in
a goroutine of its own.

| component | code | state | operations | what makes it correct |
|---|---|---|---|---|
| weekly schedule | `internal/store/schedules.go`, `votes.go`; callers in `dashboard/handlers.go`, `api/schedules.go`, `telegram/bot.go` | schedules, schedule_assignments, schedule_votes | CreateCandidates, Approve, Record | one approved candidate per round, complete generations, one vote per employee and round, shops kept apart |
| planner | `internal/planner` | none (reads four tables) | GenerateWeek, BuildProblem, mapRules | the problem says what the tables say; calendar arithmetic |
| solver | `internal/solver` | the schedule of a search | Greedy, Anneal, GenerateCandidates, Validate | hard constraints in every schedule; coverage kept; best really best |
| reminder worker | `internal/reminder`, `store/reminders.go` | reminder_deliveries, the handler's `running` flag | Tick: enqueue, send, mark | nobody reminded twice, none forgotten, only non-responders nagged |
| availability intake | `internal/telegram/bot.go`, `store/availability*.go` | availability_drafts, availabilities | message, Confirm, Cancel | only the author's confirmed draft is saved, the latest choice stands |
| roster | `store/employees.go`, dashboard employee pages | employees | Join, Update, SetActive | one row per person and shop, suspended people stay out, nothing changes unasked |
| week calendar | `store/weekstart.go`; parts of `reminder/service.go`, `telegram/bot.go`, `planner/convert.go`, `dashboard/viewmodel.go` | none (date columns of the tables above) | nextMonday, targetWeekStart, WeekStart, the due hours, what messages name | all mean the same Monday; an answer reaches the week that was asked about |
| owner chat | `telegram/owner.go`, `chatmember.go`, `store/owner_link_token.go` | shop's owner link and groups, leave drafts in memory, rules | link, bind a group, dictate, Confirm, Cancel | a link makes one owner, the newest decides; a leave is one rule of its shop; a confirmed rule reaches the solver |
| shops and accounts | `admin/provision.go`, `onboarding`, `store/shops.go`, `store/dashboard_*.go`, `dashboard/auth_handlers.go` | shops, default shifts, usernames, password hash, reset token | create, sign up, provision, first password, reset | all or nothing, one shop per username, the newest link's password stands |
| admin portal, API, pages, LLM client, mail, config | remaining packages | none of their own worth a model | | |
| `internal/scheduler` | job skeleton no program wires | none | | |

**Interaction.** The components share the database and call nothing
asynchronously. The planner calls the solver and then CreateCandidates; the bot
calls the vote, draft and availability repositories; the reminder worker reads
the rows the intake writes. Bot, worker, planner and dashboard each compute the
Monday a row belongs to and never compare notes. Telegram and the external
scheduler of the tick endpoint are outside: they repeat, delay and overlap
calls.

**What is hard.** Only CreateCandidates, Approve and provisioning use
transactions. Everything else is a sequence of database calls between which
other requests, a failing call or a crash can fall. `PROJECT.json` lists each
such place under `hazards`, with the properties that cover it.

## 2. The models

| module | models | code |
|---|---|---|
| `ScheduleBoard` | abstract: a generation or an approval is one step | what `GenerateWeek` and `Approve` promise |
| `WeeklySchedule` | the transactions, statement by statement, with row locks, unique keys, rollbacks and deadlocks; votes | `store/schedules.go`, `store/votes.go` |
| `ReminderDelivery` | ticks of one or two processes, call by call, with lost answers, failing calls and crashes | `reminder/`, `store/reminders.go` |
| `AvailabilityIntake` | messages, drafts, overlapping and repeated taps, expiry | `telegram/bot.go`, `store/availability*.go` |
| `ScheduleScore` | the scoring function and its penalty rules, in exact integers | `solver/score.go`, `rules.go` |
| `ScheduleSearch` | greedy assignment, annealing moves, candidates and retries | the rest of `solver/` |
| `PlannerConvert` | templates, answers and rule rows as the solver's problem | `planner/convert.go`, `rules.go` |
| `PlannerRun` | a generation's four reads between changes of the tables | `planner/planner.go`, `store/rules.go` |
| `OwnerChat` | links, groups and leaves, call by call, with drafts a restart loses | `telegram/owner.go`, `chatmember.go`, `store/owner_link_token.go`, `store/shops.go` |
| `ShopAccounts` | the creation of shops in a transaction or without, usernames, passwords and reset links | `admin/provision.go`, `onboarding/`, `store/dashboard_*.go` |
| `Roster` | /starts and the employees panel, call by call | `store/employees.go`, `telegram/bot.go`, `dashboard/employee_handlers.go` |
| `WeekCalendar` | dates, weeks, due hours, date columns | `store/weekstart.go` and its siblings |
| `ShopWeek` | composes bot, worker, planner and dashboard over their tables by the calendar | `telegram/`, `reminder/`, `planner/`, `dashboard/` |
| `PlanningProofs` | theorems about `ScheduleSearch`, about `PlannerRun` with `PlannerConvert`, and about the two together, with proofs | |
| `WeeklyScheduleProofs`, `ReminderDeliveryProofs`, `AvailabilityIntakeProofs`, `RosterProofs`, `ShopWeekProofs`, `OwnerChatProofs`, `ShopAccountsProofs` | theorems about the module each is named after, with proofs | |
| `MC…` | constants of the TLC instances | |

An operator whose comment begins "bug" is a plausible mistake in the operator
that follows it. No specification uses it; `mutants` in `PROJECT.json` puts it
in that operator's place to see that a property notices.

### WeeklySchedule

A *round* is a shop's week. A schedule row is named by the request that inserts
it and its label, since its uuid is fresh. `committed` is what every
transaction sees, `pending` what an open one has inserted. `genPC`, `genNext`
follow CreateCandidates through the existence check (`BeginCreate`), an INSERT
per candidate (`InsertRow`: it waits while another open transaction holds the
key (shop, week, label), `KeyTaken`: it fails when that one committed), the
assignments and the commit. `appPC`, `toLock` and `lock` follow Approve: its
UPDATE of the siblings locks them one at a time in any order, its second UPDATE
locks the target, the commit makes both visible. Postgres' rules are those of
READ COMMITTED, the default ent uses. A blocked UPDATE that goes on after the
holder's commit checks its WHERE clause again; neither shop, week nor id of a
row ever changes, so it still applies and no action is needed for it. A
deadlock is a set of approvals each waiting for rows the others hold;
`BreakDeadlock` fails one of them. A vote is two statements: the read that
checks the shop and the upsert.

The planning that comes before CreateCandidates in GenerateWeek changes no
table and is left out here: a request's round is its only input. `PlannerRun`
has the planning, `ScheduleSearch` the contents of the schedules.

### ReminderDelivery

One shop and one target week. The clock has the five parts of the week the code
tells apart: before Thursday 10:00, the reminder's 24 hours, the gap, the nag's
24 hours, the rest of Sunday. `host` spreads the ticks over processes, each
with its own `running` flag. A tick takes its time once (`now`) and then reads
and writes step by step: `todo` are the rows it has still to create, `batch`
the rows it read and has still to send, oldest first, `sending` the one it is
at. `older` keeps the order of `created_at`, by which ListPending sorts and
cuts (`Oldest`). `Send` has the three outcomes a caller of the Bot API meets:
delivered, delivered with the answer lost, not delivered. The history variables
`delivered` and `unmarked` count messages and those whose row was not updated;
`early` remembers who had answered when the nags fell due.

### AvailabilityIntake

A draft has the name of its message. Messages and taps are handled in steps
between which anything may happen. A week is the number of Mondays passed. A
handler that loads a draft keeps its copy, as the code does. `disturbed` are
the employees of whom two taps have overlapped or whose tap met a fault; the
properties about choices are about all the others, and about their whole history of
messages, redelivered taps, expiry and suspension. A Cancel handled while a
Confirm of its draft is under way is such an overlap: the Confirm saves a draft
that was just answered "discarded".

### ScheduleSearch and ScheduleScore

A schedule maps a shift to a set of employees. All random choices, the number
of iterations and the acceptance of a worse neighbour are nondeterministic, so
a run of the code with any seed is a behaviour of the model. `Score` is a
parameter. The proofs hold for any integer-valued function; TLC uses
`ScheduleScore`, which is the code's score times 2n (n employees) with the
standard deviation rounded down to a multiple of 1/n. The list order of a
shift's employees and the tolerance of 1e-9 hours are left out.

### PlannerRun and PlannerConvert

`PlannerConvert` has the pure functions, with time in ticks since Monday 00:00
of the planned week in the shop's zone (no change of clocks). In `PlannerRun`
`pc` says what GenerateWeek has read, `team`, `shifts`, `answers` are its
copies, `problem` and `penalties` what it hands to the solver. Renaming,
suspending, switching shifts, answering and confirming a leave happen between
any two reads. `during` remembers what the tables held since the run began: a
plan made of four reads is not a plan as of one moment, so the properties say
what it is nevertheless. Their reference definition counts hours one by one
(`Worked`, `HoursIn`) and shares no operator with the code's comparison of
interval ends. Templates and slots are those the program lets in
(`ValidTemplate`, `ValidSlot`). A stored rule may name a weekday that is none;
the planner skips it with a warning, and `RulesInTimeCount` asks for the others
only. When two people share a name, either may be the one the map by name
keeps: the code's choice depends on the collation of the database. Rules with
`params` are there from the start; the program has no code that writes one,
only its tests have. The leave rules are those it writes.

### OwnerChat

A token is its place among all tokens issued; `link` has the one a shop's row
holds. A /start is three calls (find, clear, set the owner), an answer to "what
is this group for" and a leave are two. `at` is the shop a handler has looked
up and goes on using. Drafts are in `drafts` until they expire, are deleted or
the process restarts; the rules made from a draft are listed in `rules`.
`unsure` are shops of which two links, or a link and a redemption, overlapped;
`disturbed` are drafts whose taps overlapped or were cut off.

### ShopAccounts

A shop is named by the request that creates it. The admin's creation is a
transaction: `username` and `shifts` of a shop outside `shops` are its
uncommitted writes, seen by nobody but the unique index (`NameHeld`: an UPDATE
waits for it, `NameTaken`: it is refused). A signup commits every call. A
password's first setting and a reset read, hash and then update. The email on
file is stored with the first password, so a shop has both or none.

### Roster

A row is named by the /start that inserted it. A /start is two calls, a lookup
and an insert or a rename; a panel request finds its row in the shop of its
session and then writes. `join` and `edit` are what a handler holds between its
calls. `told` is the answer to a /start, `during` what the sender's `is_active`
was while it was handled: an answer may be out of date, but not invented. The
weekly hour limit is written back as it was read and changed by nothing (the
README's line 113 calls it editable, the form has no such field).

### WeekCalendar and ShopWeek

Time is in minutes since a Monday 00:00 UTC. A time value has an instant and a
zone, a fixed offset; the functions are those of the code in terms of Go's
`Date`, `AddDate` and `Weekday`. The database driver writes the date a time has
in its own zone and reads it back as midnight UTC (`Column`, `Read`), which is
where a week can move by a day. `ShopWeek` has the tables that carry such dates
and every handler that computes one. A handler is a single step here, since its
interleavings are the subject of `AvailabilityIntake`, `ReminderDelivery` and
`PlannerRun`; those in turn have an abstract week. `stranded` are rows a tick
left pending, the only ones that may be sent late.

## 3. The runs

| run | instance | shows |
|---|---|---|
| ScheduleRounds | 2 shops, 2 weeks, 2 candidates, 2 generations, 2 approvals by one shop's owner, an employee of the other, fair | `AtMostOneApproved`, `CandidatesComplete`, `VotesAreConsistent`, `StatusChangesInOwnRound`, `ApprovalIsKept`, `ImplementsBoard` (refinement), `RequestsEnd` |
| ReminderTicks | 1 employee, 1 row per tick; 2 ticks in 1 process with 2 faults, or 1 in each of 2 processes without; fair | `MarksAreTrue`, `EarlyRespondersNotNagged`, `SettledStaysSettled`, `PendingSettles` |
| IntakeTaps | 1 account employed in 2 shops, a stranger, 2 messages, 2 weeks, 2 taps at once, 1 fault | `SavedByItsAuthor`, `ChoicesStand` |
| ScheduleSearch | 3 employees, 4 shifts of a day, 3 presets, 2 rules | `HardConstraintsHold`, `CoverageNeverLost`, `NeverBelowStart`, `GreedyLeavesNoGap` |
| Planning | 2 employees (who may share a name), a day shift, a Sunday night shift, 3 answers, 4 rules and a leave, 2 changes | `PlansWhatStood`, `AnswersInTimeCount`, `RulesReachTheirPeople` |
| OwnerChat | 2 shops, 2 accounts, 2 links, 1 group, 1 leave, 2 updates at once, 1 fault | `LinksCountOnce`, `OwnersSpeakForTheirShop`, `AnswersAreTrue` |
| ShopAccounts | 2 creations, 1 signup, 1 username, 2 requests at once, 2 passwords, 2 reset links, 2 default shifts, 1 fault | `OneShopPerUsername`, `ShopsArriveWhole`, `PasswordsFollowTheirLinks` |
| Roster | 1 account, 2 shops, 2 /starts to the first, 3 panel requests (two tabs of its owner, one of the other's), 2 names, 1 role | `TypeOK` (with one row per person), `WelcomesAreTrue`, `ChangesHaveAnAuthor` |
| ShopWeek | 1 employee, zones UTC and UTC+14, 8 moments at the edges of windows and weeks, 4 form dates, 1 draft at a time, 1 plan | `RepliesCountForTheWeekNamed`, `AskedOnceInTime`, `PlansFindTheAnswers` |
| ReminderDuplicate | violated: `NoDuplicateSends` | a crash between message and mark sends the message again |
| PlanningLeave | violated: `ConfirmedLeaveReachesSolver` | a leave the owner confirmed never becomes a penalty |
| ShopWeekWest | zone UTC-5; violated: `MessagesNameTheWeek` | the reminder for Monday to Sunday names Sunday to Saturday |

Every passing run also checks its module's `TypeOK` (`PlanTypeOK` in Planning).

**Violated.** The three are sentences of the repository that the code does not
keep in the behaviour TLC prints, and `findings` quotes them: README.md:201,
that delivery rows prevent duplicate sends; the comment of
`ent/schema/rule.go:25`, since the chat stores a leave without the `params`
that the planner looks for and the planner leaves it out with a warning; and
README.md:196 and 198 on each shop's own timezone, since a week read from the
table is midnight UTC and converting it to a zone west of Greenwich names the
day before.

**Properties in parts.** Some properties are conjunctions, because the parts
belong together and one run decides them:

* `MarksAreTrue`: a message goes out once per process at most, and once more for
  each mark that was lost (`ResentOnlyIfUnmarked`), and a row that says sent was
  delivered (`SentWasDelivered`).
* `ChoicesStand`: the draft last answered "saved" is the one saved
  (`LatestChoiceStands`), and one answered "discarded" is not
  (`UndisturbedDiscardHolds`).
* `LinksCountOnce`: only the newest link can be redeemed (`LatestLinkCounts`),
  and the newest redeemed one decides the owner (`NewestLinkOwns`).
* `OwnersSpeakForTheirShop`: so do groups (`GroupsBoundByAnOwner`) and rules
  (`RulesComeFromTheirOwner`).
* `PasswordsFollowTheirLinks`: only the newest reset link counts
  (`LatestResetCounts`), each sets one password (`EachSetsOnce`), and the newest
  one stands (`NewestPasswordStands`).
* `RulesReachTheirPeople`: rules that stood reach the solver (`RulesInTimeCount`)
  and concern the people they name (`PenaltiesConcernTheTeam`).

A token (of the owner's link or of a reset) is found in one statement and
cleared in another, so two requests that follow it at once both succeed, and
one issued in between is cleared unused. The properties except exactly the
shops, drafts and employees of whom that has happened (`unsure`, `disturbed`)
and say that nothing less than such an overlap does it.

**Bounds.** `MaxFaults` caps crashes and failing calls, `LastWeek` the weeks,
`MaxChanges` the changes of the tables a generation reads, `MaxLinks` and
`MaxTokens` the links and reset links issued (two: the fewest of which one is
older), `MaxChoices` the different answers about a group, `MaxDrafts` and
`MaxPlans` the drafts there are at once and the weeks planned, `Moments` and
`Zones` the times and offsets.
Everything else is finite by itself: a clock that stops on Sunday, a request
that may be repeated for ever. Two generations are enough for the key race,
since a third only meets the same committed or open key; two approvals are the
fewest that can wait for each other, and longer cycles are the proof's. Two
ticks or two taps are the fewest that overlap; a second fault lets a retry fail
as well; a tick in each of two processes needs no fault to collide. Two rows
(reminder and nag) and one row per tick make the batch limit bite. The search
instance has an overlap on both sides, a limit that binds, a shift that takes
more than it needs, one that cannot be filled, and one where nobody is needed.
The planning instance has days of four ticks, an answer that ends with the
week and one that goes beyond (which decides the Sunday night shift), one with
a refused hour, one with two slots that meet inside a shift; a run starts from
any roster, any names and any answers, so two changes are two that fall between
reads.
With a single username two creations, the signup's provisioning and renaming
all want the same one; passwords and reset links then concern whichever shop
gets it. Fourteen default shifts and two differ in nothing the model tells
apart. Two /starts of one person are the fewest that race for the unique key,
and the other shop's owner shows that a session stays in its shop. The moments
of `ShopWeek` are the minutes before and at which a window opens or closes, a
quarter past and before midnight between two weeks (a draft of half an hour
lives across it), and the next Thursday; the zones are Greenwich and the one
farthest east, where UTC dates lag most.
Symmetry (of requests, taps, messages, updates, shops and passwords) is declared
only where no property is a liveness property or names a member of the set.

**Deadlock** is checked everywhere but in ScheduleSearch, which ends when all
candidates are found, in OwnerChat and ShopAccounts, where nothing is left
to do when the links are used up and the requests are done, and in ShopWeek and
ShopWeekWest, whose moments end.

**Fairness.** ScheduleRounds: a handler's next statement is executed (weak
fairness); a statement that waits in a row's or key's queue gets it if it
becomes free again and again (strong fairness, Postgres serves the queue); a
deadlock is noticed. No fairness is assumed of users, failures or the start of requests.
ReminderTicks: weak fairness of each tick's next step, that is, the loop's
ticker keeps firing or the scheduler keeps posting. Faults are bounded there: a
process that always crashes settles nothing.

## 4. The proofs

`WeeklyScheduleProofs` proves for any finite or infinite sets of shops, weeks,
requests, sessions and employees:

* `TypeCorrect`, `AtMostOneApprovedHolds`, `CandidatesCompleteHolds`,
  `StatusChangesInOwnRoundHolds`, `ApprovalIsKeptHolds`,
  `VotesAreAlwaysConsistent`, and `ImplementsBoardHolds` (the refinement of
  `ScheduleBoard`, by initial states and steps).
* Assumption: `WeeklyScheduleAssumption` (types of the constants).
* `AtMostOneApproved` is not inductive: why the earlier approved row is demoted
  depends on the locks. `IInv` adds that keys are unique among committed and
  open rows, that a generation is all committed or all open, that only
  committed rows are locked, approved or targeted, and that an approval about
  to commit holds the locks of *every* row of its round. That last part needs
  generations to be whole, which is why an approval cannot miss a sibling
  inserted later.

`PlanningProofs` proves of the solver, for any finite team, any shifts and any
score:

* `SearchTypeCorrect`, `HardConstraintsAlways`, `CoverageAlways`,
  `NeverBelowStartAlways`, `GreedyLeavesNoGapAlways`.
* Assumptions: what `Problem.Validate` checks, that `HoursOf` adds up
  (`HoursAssumption`), and that scores are integers (`ScoreAssumption`).
* Each move is shown to keep a schedule feasible: a lemma for assigning
  somebody `CanAssign` accepts, one for removing somebody, and the moves as
  their compositions. Coverage compares head counts before and after each move.
  That Greedy's gaps cannot be filled rests on `CanAssign` being antitone: what
  refuses somebody goes on refusing as a schedule grows.

of the planner, for any staff, templates, answers, rules and length of a day:

* `PlanTypeCorrect`, `PlansWhatStoodAlways`, `AnswersInTimeCountAlways`,
  `RulesReachTheirPeopleAlways`, and `LeavesNeverReachSolver`, the run
  PlanningLeave for every leave.
* Assumptions: `ValidTemplate` and `ValidSlot`, which `ValidateCreateShiftInput`
  and `validateAvailabilitySlots` enforce, and types of the constants.
* `PreferenceRespectsHours` says what the comparison of interval ends in
  `preferenceForShift` means hour by hour. It rests on `ShiftHours` (a template's
  shift is an interval, over midnight too) and `SlotAndShift` (covering and
  overlapping are inclusion and intersection of hours).
* `PlanInv` relates each copy to the history: while it reads, the tables are
  among what stood (`HistoryFollows`), each copy is one of those values
  (`ReadTeamAndShifts`, `ReadAnAnswer`), and problem and penalties are built from
  the copies and from rules that include those there were at first
  (`WhatWasBuilt`). `CopiesStay` shows once for all changes of the tables that
  they leave the copies alone.

and of the two together, for the problem the planner hands over (`HandedOver`):

* `CandidatesRespectAnswersAlways`: in no candidate does anybody work an hour of
  a shift that no answer of theirs offered, or that it refused, or an hour twice.
* `OffersAreTakenAlways`: Greedy leaves a shift short only when everybody who
  offered all of it throughout the run is on it, works some of its hours
  elsewhere or would go over their weekly limit.

`ReminderDeliveryProofs` proves for any employees, ticks, processes, faults and
batch size:

* `ReminderTypeCorrect`, `MarksAlwaysTrue`, `EarlyRespondersAreLeftAlone`,
  `SettledAlwaysStays`, and `NoDuplicatesWithoutFaults`: what the README says of
  duplicate sends is so while one process serves the ticks and nothing failed.
* `IInv` adds `Guarded` (a process runs one tick at a time, with its flag up),
  `Holding` (what a tick holds has a row, and what it marks sent went out),
  `Alone` (with one process the rows in a tick's hands are pending) and `Nags`
  (only a tick begun in the nag's window creates nags, and it has dropped those
  who had answered when the window opened).
* How often a message goes out is counted over the processes (`Counted`): before
  its row is settled every delivery is a lost mark or in flight (`InFlight`), and
  from then on only a process that listed the row earlier (`Holders`) still
  sends it. The two sets are disjoint, since a process has one tick, so the
  deliveries never exceed the processes and the lost marks. It assumes that the
  processes are finitely many.

`AvailabilityIntakeProofs`, for any accounts, employees, messages and taps:

* `IntakeTypeCorrect`, `AlwaysSavedByItsAuthor`, `ChoicesAlwaysStand`.
* `IInv` adds what a message's draft (`MessagesOK`) and a tap's copy of it
  (`TapsOK`) say of each other and, for every employee of whom no taps have
  overlapped, that the row is the last choice or a tap is about to answer so
  (`ChoicesOK`).

`RosterProofs`, for any shops, accounts, /starts and requests:

* `RosterTypeCorrect` (with the unique key), `WelcomesAlwaysTrue`,
  `ChangesAlwaysHaveAnAuthor`.
* `IInv` says that what a handler has looked up still holds when it writes:
  `JoinsHoldTheirRow` and `EditsHoldTheirRow`.

`ShopWeekProofs`, for any zone less than a day from UTC, any moments and dates:

* `ShopWeekTypeCorrect`, `RepliesAlwaysCount`, `AskedOnlyOnceInTime`,
  `PlansAlwaysFindTheAnswers`.
* They rest on lemmas about the calendar: dates survive a round trip
  (`DateRoundTrip`, `DateReadBack`), `nextMonday` and `targetWeekStart` name the
  one Monday of the next seven days (`NextMondayIsNext`, `OneMondayAhead`),
  `WeekStart` is the Monday before (`WeekStartIsMonday`), `shiftDate` and
  `clockOnDate` stay in the day (`ShiftDateIsDay`, `ClockOnDay`). `IInv` says
  when each row, answer and message of a week was made.

`OwnerChatProofs`, for any shops, accounts, chats, messages, updates and links:

* `OwnerChatTypeCorrect`, `LinksAlwaysCountOnce`, `OwnersAlwaysSpeakForTheirShop`,
  `AnswersAreAlwaysTrue`.
* `IInv` has a part for each table the handlers work on (`LinkInv`, `GroupInv`,
  `LeaveInv`) and `LinksKept`, `GroupsKept` and `LeavesKept` say that a step on
  one leaves the other parts alone. The owner may change between a handler's
  lookup and its write; that somebody *was* the owner at the lookup is what lasts
  (`OwnershipKept`).

`ShopAccountsProofs`, for any creations, signups, usernames, passwords, tokens
and faults:

* `ShopAccountsTypeCorrect`, `UsernamesStayUnique`, `ShopsAlwaysArriveWhole`,
  `PasswordsAlwaysFollowTheirLinks`.
* Uniqueness among visible shops is not inductive: `NamesOK` includes the shops
  that an open transaction has named. `WholeOK` says how far each creation is,
  `LinksOK` how the newest link, the stored token and the last password relate
  in a shop whose password requests have not overlapped.

The assumptions of all of them are the named `ASSUME`s of the modules, which
TLC evaluates in every run: types of the constants and null values outside the
sets they stand beside.

Only model-checked: liveness (`RequestsEnd`, `PendingSettles`), which is out of
this prover's reach, as is induction over data: sums over a set, and so what
`ScheduleScore` computes, and that a list of the oldest pending rows has at most
`SendBatch` of them. `ScheduleScore` is only evaluated.

## 5. Not modelled, and the plan

Not modelled: rendering, decoding, sessions and signing, hashing, the
configuration, the mail and LLM clients (their answers are choices of the
models), the admin portal's login and rate limit, the job skeleton no program
wires, changes of clocks (zones are fixed offsets), and the database client that
ent generates from `ent/schema`. The generated client is most of the
repository's lines; the models use the unique keys and defaults of the schemas
it comes from and treat each of its calls as one statement, so the share of
lines that definitions translate stays small whatever else is modelled.

Two things are as the code means them and no property asks for more: a row whose
message failed once is given up (`store/reminders.go:90`), and of two edits of
one employee at once the later wins.

Next: zones with a change of clocks in `WeekCalendar`, which the date columns
and the shifts of a night would meet.
