# A formal model of the Project Resource Manager

The Project Resource Manager (PRM) is a FastAPI server over PostgreSQL, with a
background scheduler in the same process and a terminal console as its client. An
administrator keeps users, projects and settings; managers allocate their team's
engineers to the projects they own; engineers submit weekly timesheets; a language
model helps managers to find people. This directory models the part of it where
several requests and the scheduler work on the same rows, checks the model with TLC
on small instances and proves the main results with TLAPS for instances of any size.

Paths below are relative to `src/src/prm/` unless they start with `src/`.

## 1. The system

| Component | State | Operations | Works with |
|---|---|---|---|
| Allocation rules (`domain/entities/allocation.py`, `application/utilisation_calculator.py`) | none | overlap of periods, activity on a day, validation of a new allocation, utilisation on a day | reads `allocations` |
| Direct allocation (`application/allocation_service.py`, `allocation_repository.py`, `authorization_service.py`) | `allocations`, `resource_status` | `allocate_direct`, `end_allocation`, status synchronisation | users, projects, scheduler |
| Employee profiles (`user_profile_service.py`) | `users`, `allocations` | create and edit profile, `deactivate_employee`, `assign_manager` | allocations |
| User accounts (`user_management_service.py`, `user_repository.py`) | `users`, `resource_status` | create, deactivate, reactivate, reset password, change role | everything that asks whether an account is active |
| Project administration (`project_management_service.py`) | `projects` | create, update (status and owner included) | allocations, health |
| Milestones (`project_milestone_service.py`) | `milestones` | add, update | health |
| Timesheets (`engineer_timesheet_service.py`, `timesheet_repository.py`) | `timesheet_weeks`, `timesheet_entries` | `submit_week`; the scheduler's MISSED rows | allocations, scheduler, health |
| Scheduler jobs (`scheduler_service.py`) | writes `resource_status`, project health, MISSED weeks | `run_all_jobs`: utilisation, health, missed timesheets, one transaction | all tables |
| Scheduler runner (`scheduler/`) | the running interval, APScheduler's thread | start, tick, reschedule, shutdown | system configuration |
| System configuration (`system_config_service.py`) | one row, created by whoever misses it first | read, update | scheduler runner, timesheets |
| Project health (`health_rule_engine.py`) | `health_status`, snapshots | evaluate | milestones, timesheets, allocations |
| Login and tokens (`auth_service.py`, `api/deps.py`, `infrastructure/security`) | signed tokens that outlive what they say | login, change password, role checks | users |
| Team assignment and AI search (`team_assignment_service.py`, `team_match_service.py`, `skill_match_service.py`) | none | suggest a team; nothing is allocated | allocations, skills, language model |
| Views (`resource_dashboard_service.py`, `allocation_view_service.py`, `manager_project_service.py`, `team_timesheet_service.py`, `risk_summary_service.py`) | none | read | all tables |
| Skills (`user_skill_service.py`) | `skills`, `user_skills` | add, change, remove | search |
| Console (`console/`) | a token, the screen | menus over the HTTP API | the server |

**How they interact.** FastAPI runs every synchronous route on a thread pool. A route
opens a database session (`infrastructure/db/session.py`), calls one service, and
commits; an exception closes the session, which rolls back. So every request is one
transaction made of the SQL statements its service happens to issue, under
PostgreSQL's default isolation, READ COMMITTED, and the scheduler's tick is one more,
in APScheduler's thread. There is no lock, version column, `SELECT ... FOR UPDATE` or
exclusion constraint anywhere: the only thing that orders two requests is the row
lock of an UPDATE.

**What is hard.** Checks made by one statement and relied on by a later one; status
columns that cache what other rows say; UPDATEs that name only the columns that
changed; the day changing under all of it; deadlocks between transactions that update
several rows; and rollbacks anywhere. `PROJECT.json` lists each hazard at its line.

**What makes each component correct.**

- Allocation rules: what validation accepts fits under the cap on every day.
- Direct allocation: nobody is allocated beyond 100% on any day; an allocation, once
  granted, is only ever closed, and closed once; no request blocks for ever.
- Employee profiles: a deactivated employee holds no active allocation.
- Status: the stored utilisation and work status belong together, and come back to
  what the allocations say.
- Timesheets: one row for each engineer and week; a week that is owed is submitted or
  flagged in the end; hours within the caps.
- Health: the status of a project and its latest snapshot agree; a status under which
  nothing changed is right as far as the rows of the last week go; a project that stays late is put at risk; rounding
  accuses nobody wrongly.
- Scheduler and configuration: one configuration row, which keeps every PATCH; the
  running interval is the stored one; ticks recur.
- Tokens: a deactivated account is shut out after one life of a token at the latest.
- Accounts and skills: one account for a username, whatever is sent twice; no more rows for
  a skill of an employee than requests can overlap.
- Team assignment and AI search: nobody is picked twice, every seat gets an answer, a gap
  is a gap, a suggested level can be allocated, and the request ends.
- Console: a menu is shown to its role only, and after a forced change of the password;
  every call has a route; what is changed is what was shown.

## 2. Modules

| Module | What it is |
|---|---|
| `UtilisationCalculator` | the allocation rules, as operators on an allocations table |
| `AllocationLedger` | abstract specification: what the allocations table is for |
| `AllocationService` | the requests that change allocations, the status synchronisation, the tick and the admin screens, one action per SQL statement |
| `Timesheets` | submission of weeks beside the scheduler's missed-week job, on top of the ledger |
| `TeamMatch` | one team match or skill match, while others change the team |
| `ProjectHealth` | projects and milestones, the health job of a tick, and a reader |
| `SchedulerConfig` | the start of the process, the configuration row and the interval that runs |
| `Accounts` | the API side of logins, tokens, passwords, accounts and skills |
| `Console` | the screens, on top of `Accounts`; its `Spec` is the composition of the two |
| `MC...` | an instance for TLC of each of `AllocationService`, `Timesheets`, `TeamMatch`, `ProjectHealth`, `SchedulerConfig` and `Console` |
| `..._proofs` | theorems about `UtilisationCalculator`, `AllocationService` (two modules), `Timesheets`, `TeamMatch`, `ProjectHealth`, `SchedulerConfig`, and `Console` with `Accounts` |

### UtilisationCalculator

`Allocation.is_active_on`, `overlaps_period`, the repository's selections and both
methods of `UtilisationCalculator`. Dates are integers and `NoDate` is a NULL
`to_date`. A sum of percentages is the cardinality of a set of *points*, `p` points
for a row of `p` percent: the same number as the code's `sum`, in a form the proofs can
reason about without induction. `MaxUtilisationPercent` is 100 in the code and 5 in
the runs: only the order and the sums of percentages matter.

### AllocationService

| Variable | Code |
|---|---|
| `today` | `date.today()` |
| `users`, `projects`, `allocations`, `resource_status` | the committed tables, with the columns the modelled code reads |
| `next_id` | the sequence of `allocations.id`; a rolled back insert uses its id up |
| `tx` | one record for each transaction: where it is, what it has read, what it has written |
| `seen` | history: the committed ids a row was validated against |

One action is one SQL statement. Statements are merged only where nobody could tell:
the validation and the INSERT (the new row is invisible until the commit), and the
last UPDATE of a deactivation and its COMMIT. Actions by use case:

- `allocate_direct`: `BeginAllocate` (project), `ReadEngineer`, `ValidateAndInsert`,
  then the synchronisation.
- `end_allocation`: `BeginEnd` (`find_by_id` and the owner), `LoadRow` (`end_by_id` reads
  the row again: SQLAlchemy's identity map is weak and the first read kept only a
  domain object), `EndRow`, then the synchronisation.
- `deactivate_employee`: `BeginDeactivate`, `SelectActive`, an `EndRow` for each row in
  the order of the ids (the unit of work sorts UPDATEs by primary key), `Commit`.
- `_sync_user_utilisation`: `ComputeUtilisation`, `StatusIsCurrent` or `StatusDiffers`,
  `UpdateStatus`.
- the scheduler: `BeginTick` lists the active engineers, then synchronises one after
  another and commits once.
- `Commit`, `Refuse` (a check fails), `Rollback` (an error, a lost connection, a
  restart) for every transaction.
- `AssignManager`, `UpdateProject`, `DeactivateUser`, `ReactivateUser`: requests that
  read one row, check it and write it, as one step each.
- `NextDay`.

PostgreSQL is modelled by what it does for this code: a SELECT sees the committed rows
and the transaction's own (`Visible`); an UPDATE waits for a row another transaction has
written (`RowLocked`, `StatusLocked`), then applies to the row as that transaction left
it, because its WHERE clause tests the primary key only; foreign-key checks take KEY
SHARE locks, which do not conflict with UPDATEs of other columns. SQLAlchemy's UPDATE
names only the attributes whose value differs from the loaded one. That matters twice:
in `Ended` (`to_date` is left alone when the end date equals the date that was read) and
in `UpdatedStatus`.

The tick's health and missed-timesheet jobs run later in the same transaction and only
lengthen it; they touch none of these tables.

### AllocationLedger

What the requirements ask of the table, without requests or transactions: `Grant` adds a
row if on every day it covers there is room for it, `Close` ends some active rows of
one engineer on one day. `KeepsLedger` says that `AllocationService` implements it, with
the committed table for the ledger: every statement before the commit is a stutter.

### Timesheets

| Variable | Code |
|---|---|
| `today` | `date.today()` |
| `active_users` | engineers whose account is ACTIVE |
| `allocations` | the committed table, changed as `AllocationLedger` says, a whole request at a time |
| `weeks` | the committed `timesheet_weeks` |
| `tx` | one record for each transaction: what is submitted, where the tick is, the uncommitted rows |

- `submit_week`: `BeginSubmit` (future week, duplicate check), `ValidateAndInsert` or
  `Refuse` (hours against the week's allocations), `Commit`. Its allocations are read
  after the duplicate check, so both can be out of date when it commits.
- `flag_missed_timesheets`: `BeginTick` (the reference date), `ListEngineers`,
  `ListAllocations` once for an engineer (all statuses), `FindWeek` or
  `CreateMissedWeek` for each due week, latest first, and one `Commit` for everything.
- `Allocate`, `EndAllocation`, `DeactivateEmployee`, `DeactivateUser`, `ReactivateUser`,
  `NextDay`: what changes under both. The races inside these requests are the subject of
  `AllocationService`; here each is one step, `Grant` or `Close` of the ledger.

Weeks are named by their Monday, as in the code; day 1 of the calendar is one. Engineers
are visited in the order of their ids. Hours are counted as points, like percentages. The
limit `max_weekly_hours` is a constant: an administrator may change it, and
`TotalWithinLimit` is about the limit that was in force when the week was submitted. Rows
are only inserted, so a week's id matters only in telling rows apart: `FreeIds` reuses
the ids of rows that were rolled back, which the sequence of the table would not.

### TeamMatch

| Variable | Code |
|---|---|
| `project`, `staff` | owner and status of the project; manager, activity and utilisation of each engineer (committed) |
| `phase` | how far `TeamAssignmentService.assign_team` or `SkillMatchService.find_matches` is |
| `plan`, `counts`, `answers` | the usable slots, their candidate counts, the seats that have been answered |
| `requested`, `candidates`, `matches` | the hours found in a requirement, who is ranked, and the ranking shown |

`ParsePlan`, `RankCandidates` and `Explain` take what the language model returned, of
which the parsers keep what they can use; `LlmUnavailable` is every way not to get any.
`CountSlot`, `FillSeat`, `NobodyEligible` and `BuildGap` are one search each: between two of
them `ChangeStaff` and `ChangeProject` stand for what other transactions commit. Scores are
the tuples of the code, compared by position. The profile of an engineer (department,
skills, recent tags) is fixed during the request. An activity tag is the sequence of its
words: a slot names it by its `Value` (`BACKEND_API`), the timesheets report it by its `Label`
(`Backend Api`), and the search compares the two texts without regard to case. They are
equal for tags of one word only, and the run has tags of both kinds.

### ProjectHealth

| Variable | Code |
|---|---|
| `project`, `milestones`, `assigned`, `logged` | projects, milestones, the ACTIVE allocation rows, the rows of `timesheet_weeks` with their hours |
| `submitting` | submissions that passed the duplicate check and are not inserted yet |
| `snapshots` | the latest row of `project_health_snapshots`, by project |
| `tick` | the transaction of the scheduler: projects still to do, flags found, snapshots written, engineers still to ask for their week, MISSED rows to insert |
| `edit`, `view` | a request of each admin; a manager who opens a project |
| `ticks`, `changes` | committed ticks; whether anything changed since the latest tick began; a bound |

The tick is one action per statement: `BeginTick`, `ListActive`, for each project
`ReadMilestones`, `ReadRows`, `ReadHours` for each row, `Evaluate` (which rolls everything
back if a flag does not fit its column), then `FlagMissed` for each engineer, and
`CommitTick`. `timesheet_weeks` has no unique constraint: a submission is `BeginSubmit` (no row
of the week yet) and `InsertWeek`, and between the two another submission or a tick may
insert its own, so a week can have several rows. `ReadHours` takes any of them, as the
unordered query does, and a MISSED one counts as 0 hours. `assigned` has no closed rows,
but the job for missed weeks looks at those, too: `FlagMissed` may find an allocation that
covers the week whether or not an active one does.

A new milestone is two steps, a read and an insert. A PATCH of a project is three: the checks
against the row as it was read (`BeginUpdate`), the row read again, from which only the
columns that differ are kept (`LoadUpdate`), and the UPDATE of those (`WriteUpdate`), which
waits for a row that a tick has written if there is anything to update. Titles and names
stand for their lengths, because only these decide whether a flag can be stored. A tick
under which nothing has changed would only renew timestamps, so the model starts one only
when something did; or when the interval has passed and a week has several rows, of which
another tick may read another (`IntervalPasses`).

### SchedulerConfig

| Variable | Code |
|---|---|
| `rows`, `adminSeeded` | `system_configurations`, and whether the bootstrap admin is committed |
| `api` | how far `seed.py` and the lifespan are: `down`, `admin`, `seeded`, `starting`, `up` |
| `runner`, `job` | `SchedulerRunner`'s interval, the trigger of its job and the hours left; whether a tick runs |
| `request` | the PATCH of each admin: found, applied to the runner, rescheduled |
| `patched`, `overlapped` | history: the last value of each field; whether two PATCHes of the interval were under way at once |

Seeding is two transactions (`SeedAdmin`, `SeedConfiguration`); `StartRunner` loads the
interval and runs a tick before `Serve`. A PATCH is `BeginPatch` (the row is found, and the
value checked), `CommitPatch` (one column, if it differs), `SetInterval` and `Reschedule`.
`Stop` may come anywhere. `SCHEDULER_ENABLED` and `SCHEDULER_RUN_ON_STARTUP` are true, as
they are by default; there is one API process, and the values of the environment are in
range, which nobody checks (`BootstrapAssumption`).

### Accounts and Console

| Variable | Code |
|---|---|
| `users`, `skills`, `assigned` | the committed tables `users`, `skills`, `user_skills` |
| `session` | the claims of the token of each console (`UserSession`) |
| `requests`, `reply` | writing requests under way, and what the console knows of its own |
| `now`, `lastActive` | hours, and when each account was last active (history) |
| `stack` | the screens of each console, the top one running |

A request that writes is two steps: it is sent with what its handler reads and checks
(`ChangePassword`, `CreateUser`, `AddSkill`, ...), and it is served with what it then writes
(`WritePassword`, `InsertUser`, ...), where the constraints of the tables apply: usernames are
unique, and so are the names of the catalogue of skills. `user_skills` has no constraint but
its foreign keys and primary key: `uq_employee_skill` went with the column `employee_id`
(`src/alembic/versions/003_target_erd_unified_users_rbac.py:383`), and `uq_user_skill` is
declared in `user_skill.py:30` only, from which no table is created. So `InsertSkill` inserts
whatever was checked. `GiveUp` is
the client's timeout of 30 seconds: the request goes on. `Authenticated` and `Entitled`
look at the token where the code does and at the table where the code does.

`Console` has tables: `...Calls` give the method and path of every call of the client,
`...Routes` the guard of every route of the API, and `...Screens` what each screen reads
before it prompts, where it leads, what it writes and what happens on an error. The
actions walk over them (`Read`, `ReadFails`, `Open`, `Back`, `SaveAccount`, `SaveOther`, `Hear`,
`Logout`, `Quit`). What the writes of the other modules do is theirs: here they succeed or
fail.

## 3. Runs

The allocation runs use `MCAllocationService`, whose next-state relations select handlers of
`AllocationService`: `RequestsSpec` runs requests and rollbacks between two ticks;
`SyncSpec` adds the scheduler, midnight and the admin screens. The timesheet runs use
`MCTimesheets`. `MCTeamMatch` and `MCProjectHealth` start in a state in which the interesting
cases are near: an open project of the manager with a complete team, and a Sunday with a
project, a milestone due that day and an engineer on it. The other runs use `Spec`.

| Run | Instance | Checks | Result |
|---|---|---|---|
| `allocation_races` | 2 requests, 1 engineer, 3 ids, cap 5, rows of 2, 1 day | `OverbookedOnlyBlindly`, `NoDeadlock`, `AllocationsOnlyClose` | hold |
| `allocation_one_at_a_time` | 1 request, rows of 2 or 3, 3 ids, 2 days | `TypeOK`, `UtilisationCap`, `DeactivatedHoldNone`, `KeepsLedger`, `EndedRowsAreFinal` | hold |
| `allocation_sync` | 1 request and the scheduler, 1 id, 2 days | `RequestsEnd`, `StatusCatchesUp` | hold |
| `allocation_over_cap` | 2 requests | `UtilisationCap` | violated |
| `timesheet_races` | 2 submissions and the scheduler, 1 engineer, 2 allocations of 2 projects that share a week, weeks of 2 days, 3 days, 3 rows | `TypeOK`, `FlaggedOnce`, `SubmissionsBounded`, `TotalWithinLimit` | hold |
| `timesheet_weeks` | 1 submission and the scheduler, 5 days (2 completed weeks), lookback 2, 5 rows | `WeeksAccountedFor` | holds |
| `timesheet_submitted_twice` | 2 submissions | `SubmittedOnce` | violated |
| `team_match` | 3 engineers of 2 departments, 2 managers, 5 plans of up to 3 slots, tags of one and of two words, 2 rankings, 1 change by others | `TypeOK`, `PickedOnce`, `EverySeatListed`, `GapsAreHonest`, `MatchesHaveTime`, `SuggestionsFit`, `RequestAnswered` | hold |
| `project_health` | 2 projects, 1 admin, 1 allocation of 16 %, 1 week to submit twice (3 hours, which are enough, or 2), 1 milestone, 2 changes and 1 midnight | `TypeOK`, `HealthAgreesWithSnapshot`, `FlagsNotOlderThanStatus`, `QuietHealthIsRight`, `RoundingIsLenient`, `LateNoticed` | hold |
| `scheduler_config` | 2 admins, 6 PATCHes (2 of them invalid), at most 3 of them, 2 stops | `TypeOK`, `OneRow`, `PatchesStick`, `RunnerFollowsConfig`, `TicksRecur` | hold |
| `console` | 1 console, 2 requests under way, 2 writes, 2 hours, tokens of 2 hours, 3 users and 2 free ids, 3 skills | `TypeOK`, `MenusNeedOwnPassword`, `CallsAreServed`, `DeactivationBites`, `OneAccountPerName`, `SkillsBounded`, `PickedIsChanged` | hold |
| `password_reset_unforced` | the same | `TemporaryIsForced` | violated |

**Bounds.** The cap of 5 with rows of 2 and 3 gives every case of the sums: two rows fit
exactly (2 + 3), two fit with room to spare (2 + 2), three do not (2 + 2 + 2), two do not
(3 + 3). Three ids are enough for a third row to be validated blindly against two
committed ones, and for two deactivations to meet on two rows. Two days make "before",
"same day" and "no end" different; a period of more days adds no new way for two periods
to meet. `NoDeadlock` needs one engineer here because a request writes one status;
several engineers and the scheduler are covered by the theorem. Engineers share no row
but through the scheduler, so the safety runs need only one of them.

In the timesheet runs a week has two days: its first, its last, and a middle that adds
nothing. `timesheet_races` has one completed week and the current one, enough for two
submissions of the same week and the scheduler's flag to meet (three rows), and two
allocations that follow one another within the week, each with room for all its hours.
`timesheet_weeks` has two completed weeks, as many as its lookback, so that the job's
inner loop goes round and a week is found a second time by the next tick; its five rows
are all there can be (each week once submitted and each completed one once flagged).
Managers end allocations on day 1 (`EndDays`), which is the first day of one of the two
allocations and a day before the other one starts. `timesheet_races` leaves changes of
accounts out (`RacesSpec`): they only decide whom the scheduler looks at, and are part of
`timesheet_weeks` and of the theorems. One engineer suffices because engineers share no
row.

`team_match` has the plans that matter: two seats in one slot, two slots for the same
skill, slot ids that repeat, a slot nobody fits, hours and proficiency as filters, and one
that is not usable. Of the three engineers one has the better skill second in his list, and
one is of another department, so every position of the score decides somewhere. One tag of one word and two of two words,
asked for alone and together, find engineers and miss them. One
change by others can come between any two statements.

`project_health` needs two projects for a tick to go round, and to see one that was created
meanwhile. The admin, the engineer, managers and restarts share two changes, so that any two
of them meet within one tick. 16 % of 40 hours over four days of a week is where the
expected hours are rounded twice: to 3, of which 2 hours are not 80 %. Two submissions of the
week, or one and a tick, leave every combination of rows that a reading can tell apart:
enough, short and MISSED. `RoundingIsLenient` is also a theorem for all rows.

In `scheduler_config` two admins with three PATCHes meet on the same field and on different
ones, and two stops reach a start that was interrupted and a stop after it; more of either
repeat these cases.

`console` has one console: what makes requests overlap is that a console gives up and goes
on, also with another user's login, and the second request is then as good as a second
console's. Two writes are enough for every pair of requests; the theorems are for any
number of consoles, requests and users. Two hours, with tokens of two, let a token expire.

**What the violations show.** Each is a disagreement between what the code does and what its
requirements, comments or refusals say; `PROJECT.json` "findings" gives the lines.
`allocation_over_cap` and `timesheet_submitted_twice` are races between a check and the
write it is for, without a lock or a constraint; with one request at a time both properties
hold, and what is left of them under any interleaving is `OverbookedOnlyBlindly` and
`SubmissionsBounded`. `SkillsBounded` is the same for the rows of a skill. `password_reset_unforced` is a race of two writers of one row: each
names only the columns that differ from what it read.

**Disagreements without a run.** These are defined beside the others and can be seen by
stating them as INVARIANT or PROPERTY of a configuration of the same module:

| Property | Module | What TLC shows |
|---|---|---|
| `DeactivatedHoldNone`, `EndedRowsAreFinal` | `AllocationService`, 2 requests | an allocation granted while a deactivation runs stays; an end overwrites an earlier one |
| `WorkStatusAgrees` | `AllocationService`, 2 requests | a percentage and a work status that do not belong together |
| `FlagsAllocatedWeeks` | `Timesheets` | an allocation that ended before it began still makes a week owed |
| `PicksAreAvailable`, `ShownOnce` | `TeamMatch` | an engineer with nothing left is picked; a plan that repeats a slot id shows one person twice |
| `TaggedAreFound` | `TeamMatch` | five of the eleven activity tags have an underscore in their value and a blank in their label (`timesheet_repository.py:13`, `:72`); compared at `team_candidate_search_service.py:239` and `team_assignment_service.py:249` they are never equal, so a slot that asks for one of these only gets a SKILL_GAP although somebody in the team has all it asks for |
| `FullWeekIsEnough` | `ProjectHealth` | with a second row of a week, MISSED or short, the row that is read first (`timesheet_repository.py:83`, `scheduler_service.py:190`) can put a project at risk although the engineer has submitted enough hours |
| `SkillOnce` | `Accounts`, by `Console.cfg` | two overlapping `add_skill`, or one sent again after a timeout, leave an employee with a skill twice, perhaps at two levels |
| `RunnerAlwaysFollows` | `SchedulerConfig` | of two overlapping PATCHes of the interval the first to be committed is the last to be applied |
| `LateNoticed` | `ProjectHealth`, a title of more than 227 characters, or a full name of more than 210 on an allocation with few hours | the flag does not fit its column, so every tick is rolled back |

Two more need a second admin in `ProjectHealth` and have no property: two PATCHes of the dates
of a project can leave an end before the start (`project_management_service.py:117`), and
two new milestones can get one number (`milestone_repository.py:66`), by which the
console chooses them (`manage_projects.py:276`).

**Fairness** (`allocation_sync`). A running transaction goes on (`WF Continue`: it is a
thread executing straight-line code; statements that need no lock cannot be refused).
PostgreSQL queues the transactions that wait for a row lock, so one that is granted the
chance again and again gets it (`SF UpdateStatus`, `SF EndRow`). APScheduler starts a tick
at every interval (`WF BeginTick`). Nothing forces requests to start or days to pass.
The run leaves rollbacks of a tick out: a tick that fails is made up for by the next one,
but TLC would otherwise accept a scheduler that fails for ever.

**Fairness** (`timesheet_weeks`). The same two assumptions: a running transaction goes on
(`WF Continue`; it waits for nobody) and a tick starts at every interval
(`WF BeginTick`), without rollbacks of a tick. The property is `[]<>` not owed: an engineer
whose account is deactivated owes nothing, and owes the week again once reactivated. The
calendar stops after the last day, so the week stays within the lookback for ever and
time alone cannot make it lapse.

**Fairness** (the other runs). A request of `TeamMatch` that began goes on (`WF Step`): each call
of a language model ends in an answer or in the timeout of its client. In `ProjectHealth` the
trigger fires again and again and a tick runs to its end (`WF Tick`); `Restart` may interrupt it,
as often as the bound lets it. In `SchedulerConfig` hours pass, a due tick fires and ends, and
a request that began is served (`WF` of each); nothing makes the process start or stay
up, so `TicksRecur` assumes that it does in the end. `Console` states no fairness: a console may
stand still.

CHECK_DEADLOCK is off in the `RequestsSpec` runs (with all ids handed out and every account
inactive there is nothing left to ask for), in `team_match` (the one request is over) and in
`project_health` (the calendar and the changes are used up). It is on in the others.

## 4. Proofs

`tlapm` checks every step. The constants are arbitrary, under the assumptions named in
the modules. `MaxUtilisationPercent` is a positive number and `NoDate` no integer; engineers
are finitely many numbers, projects and requests finitely many, and the scheduler is not a
request; percentages asked for are between 1 and the cap; bounds on ids, days, hours and
changes are numbers. `Null` is none of the values it stands beside. Expected rows and
submissions have numbers where the tables do, and what a request names in its body is of
the enumeration it is checked against. What a language model may return is a sequence, of
entries with the fields that the parser looks at and any values in them. At the start no
two users have one name, and the rows of `user_skills` are numbered and hold no skill of an
employee twice. Tags are sequences of words, full names have at most 255 characters, and the
skills that are assigned at the start are in the catalogue. No call of the client is called `Null`.

- `UtilisationCalculator_proofs`. Lemmas about totals (`TotalType`, `TotalMonotone`,
  `TotalAdd`) and finite sets of numbers; `ValidationKeepsEveryDay`: if validation accepts
  a row, then on each day it covers, the row and what the engineer is allocated that day
  stay within the cap. The code compares periods and never days; the bridge is that two
  periods with a common day overlap.
- `AllocationService_proofs`. `Inv` is the inductive invariant:
  `TypeOK`; `Ready` (what each program counter implies for the other fields);
  `Earlier` (a row was validated against smaller ids only); `Wrote` (an uncommitted row
  is a closed version of the committed one, or a new row whose id no other transaction
  has); `Exclusive` (one writer a row); and `Fits`: every active row, committed or pending,
  together with the *active rows among those it was validated against* stays within the
  cap on every day. `UtilisationCap` itself is not inductive, and with several requests
  not true; `Fits` is the part of it that survives interleaving, because ends only remove
  rows from the sum
  (`CommitCloses`, `FitsKept`). `BlindnessIsTheOnlyHole` follows: take the rows of an
  overbooked day, and the one with the largest id; if it had been validated against all
  the others, `Fits` would bound the sum, so some other row was not seen, and by
  `Earlier` it cannot have seen the later id either.
  `AllocationsAreOnlyClosed` and `TypeCorrectness` follow from the same invariant.
  The rest of the module is about requests that do not overlap (`OneAtATime`: there is one
  at most; ticks and admin screens still come between any two of its statements).
  `SerialInv` adds to `Inv` what a lone request can rely on: a row to be inserted was
  validated against all that is committed, rows to be closed are active, of one engineer,
  and end as they were loaded, and no two committed rows are blind to each other.
  `OneRequestKeepsCap` and `EndedStayEnded` follow, and `LedgerIsKept`: the refinement of
  `AllocationLedger`, action by action. `Grant` is the commit of an insert, `Close` that of
  an end or a deactivation, and everything else a stutter. `DeactivatedKeepNothing` needs
  `BlockInv` beside it (a deactivation has every active row of the employee at hand until it
  commits) and is about `EmployeeScreens`, the specification without `deactivate_user`, which
  blocks a login and keeps the allocations.
- `AllocationLocks_proofs`. `Ordered`: what a transaction wants next is above all it
  holds, rows before statuses and each by its id. A transaction that wants the greatest
  thing among those wanted waits for nobody in the set, hence `LocksAreOrdered`, for any
  number of engineers and requests, the scheduler included.
- `Timesheets_proofs`. `Inv`: types, `Ready`, `OwnRole` (requests insert SUBMITTED rows
  only, and never run the scheduler's code), the hours limit on every row committed or
  not, and `OnceIn`: among the committed rows, and among those the *scheduler sees*, a week
  is flagged once. `FlaggedOnce` alone is not inductive: it does not speak of what a tick
  is about to commit. Theorems: `WeeksAreFlaggedOnce`, `WeeksStayWithinLimit`,
  `TypeCorrectness`. `SubmissionsAreBounded` is an argument by a budget: the submitted rows of a
  week and the requests that have passed the duplicate check and may still add one are
  together never more than there are requests (`Budget`). A request can only pass the check
  while nothing is committed, and a commit turns a pending row into a stored one. It needs
  `OneRowEach`, that no request has two rows.
- `SchedulerConfig_proofs`. The invariant relates how far the start is to what is committed (a
  row from `seeded` on), each PATCH to the row it found, and the runner to the PATCHes that
  are between commit and reschedule: without overlap there is at most one, and it holds
  what the runner still lacks. Theorems: `TypeCorrectness`, `ThereIsOneRow`, `NoPatchIsLost`,
  `RunnerFollows`.
- `TeamMatch_proofs`. `Inv`: types; the answers of a slot are numbered from 1 to at most its
  headcount; no engineer has two; and, as long as nobody else has changed anything, what was
  true of a search stays true of the team. Theorems: `NobodyPickedTwice` and
  `TypeCorrectness`; `SeatsAreListed`, which counts: the seats with a person and those with a
  gap are disjoint and are all of them, and what a loop keeps is as long as the set of places it
  keeps; `GapsAreAlwaysHonest`, which needs that a gap found when fewer engineers were
  picked is still one at the end, and speaks of slots that ask for tags of one word, for
  which value and label are one text (`TaggedAreFound` is what fails of the rest); `MatchesAlwaysHaveTime` and `SuggestionsAlwaysFit`, on the two
  divisions that turn a percentage into hours and back. `Kept` is a recursive function in
  place of `SelectSeq`, whose definition the provers cannot expand; what is needed of it
  (`KeptElements`, `KeptLengths`) is proved by taking the least place at which it would fail.
- `ProjectHealth_proofs`. `HealthInv` says what a tick has written but not committed, that
  timestamps grow with committed ticks, and what a reader between its two statements can
  rely on: `StatusAndSnapshotAgree`, `FlagsAreNoOlder`. `RoundingIsAlwaysLenient` needs no
  invariant, only arithmetic of the two divisions. `QuietHealth` rests on `QuietInv`: as long
  as nothing changes after a tick began, each flag it has found so far follows from the
  tables (`Follows`): a milestone is late, or some row of the week, or its lack, says that the
  hours are low (`MayBeLow`); and where no row denies it (`IsLow`) the flag is there. So the
  theorem is about every week the tables can hold, with several rows or none. The commit of a
  tick inserts MISSED rows itself: it does so only for weeks without a row, where MISSED and
  none both count as 0 hours (`MissedIsStill`), or else another row has come and a change is
  due. `RightIsAsSubmitted` turns the ratios of the code into the hours of the property.
  `TypeCorrectness` needs a budget too: committed ticks, the one that runs, the one that is due
  and the requests and submissions that are about to change something are together at most
  the changes and the days plus one.
- `Console_proofs` has three parts.
  - Accounts. `Inv`: an account that is active was active until now; a token expires at
    most one life after its account was last active; a request by a user for himself was
    checked in the hour in which it is served (requests take less than an hour, and a
    renewed token relies on it); a request that names an account names one that exists; names
    are unique. `SkillBudget` is for the rows of one skill of one employee: they and the requests
    that may still add one are together never more than requests can be under way at once, by
    the argument of `Timesheets_proofs`. The screens only drop tokens, send requests and log in
    (`QuietKeeps`), so this holds for any tables of screens: `DeactivationTakesEffect`,
    `NamesAreUnique`, `SkillsAreBounded`.
  - Tables. No two tables of calls or screens share a name (`CallsLaw`, `ScreensLaw`); every
    screen under the menu of a role makes only calls that the API serves to that role, at
    most two before it prompts, and leads to screens of the role with a smaller `Height`
    (`Fits`, one lemma for each table, `ScreensFit` for all).
  - Stacks of screens. `ConsoleInv` adds to `Inv`: each screen was opened from the prompt of the
    one below, so that depth and height add up to 7 at most (`Nested`); the token, its role and
    the first screen agree (`MenusOK`); who waits for an answer is at the prompt that sent
    the request, waits for that one only, and still holds the token it was sent with
    (`RepliesOK`, `WaitOK`; without it a late answer could renew another user's token); and
    ids of `user_skills` are given once (`IdsOK`): what a list shows under an id may be gone
    later, but never replaced (`Seen`, `SeenStays`). A step of one console is a `Shift`, and
    `ShiftKeeps` is proved once for all of them. Theorems: `ConsoleTypeCorrectness` with the
    depth of six, `MenusAreForTheRole`, `CallsAreAlwaysServed`, `ThePickedIsChanged`.

**Only model-checked.** Liveness (`RequestsEnd`, `StatusCatchesUp`, `WeeksAccountedFor`,
`RequestAnswered`, `LateNoticed`, `TicksRecur`), which needs reasoning about fairness and
`ENABLED` that this prover does not offer. Every invariant and every action property that a
run finds to hold is a theorem, with the hypothesis `OneAtATime` where the run has one request.

## 5. Plan

Done: allocations, timesheets, team match, project health, configuration and runner,
accounts, console; a theorem for every safety property that holds. Left, in this order:

1. Proofs: that `Timesheets` changes the allocations as the ledger does, and that overlapping
   requests of `AllocationService` implement a ledger without the cap; the safety part of the
   liveness properties (what an owed week and a stale status are waiting for).
2. Larger instances of `project_health` (two admins) and `console` (two consoles) where time
   allows.
3. Profile editing, if a rule comes to read what it changes.

## 6. Not modelled

- Migrations (`src/alembic/`): run once, in order, by a tool of their own before the process
  starts. What tables, columns and constraints they leave is what the models insert into,
  not what the classes under `infrastructure/db/models` declare: the two differ for
  `user_skills` (section 2, Accounts).
- Layout, prompts and the validation of typed text in the console; formatting of views.
- Prompts, the HTTP clients and the JSON of the language models, and the regular
  expressions that find hours in a requirement: the model has what the parsers return.
- Views that read once and show what they read: no property tells them apart.
- Creation and editing of profiles: they change names and lookup ids, which no rule reads.
- Encryption of the stored key and hashing of passwords: libraries, used as functions.
- `update_role` of `UserManagementService` has no caller.
