--------------------------- MODULE ProjectHealth ---------------------------
(***************************************************************************)
(* Projects, their milestones, and the health that the scheduler gives     *)
(* them.  A tick evaluates every ACTIVE project from its milestones, its   *)
(* allocations and the hours logged in the last completed week, and writes *)
(* a status into the project and a snapshot with the risk flags.  Then it  *)
(* gives whoever owes that week a MISSED row, beside which an engineer may *)
(* be about to insert his own: no constraint keeps a week to one row.  A tick *)
(* is one transaction of many statements under READ COMMITTED: it reads    *)
(* what others commit meanwhile, and either all it wrote is committed or   *)
(* nothing.  Admins change projects and milestones at the same time, and   *)
(* managers read a project and its flags in two statements.                *)
(*                                                                         *)
(* Days are numbers, day 0 is a Monday.  A title or a name is its length.  *)
(***************************************************************************)
EXTENDS Integers, SequencesExt

CONSTANTS
  ProjectIds, Managers, Admins,
  Viewer,             \* the manager who looks at projects
  Rows,               \* bound: the allocation rows that can be active
  Submissions,        \* bound: the weeks that engineers can submit
  Projects,           \* bound: what a new project can be
  Updates,            \* bound: what a PATCH of a project can carry
  Milestones,         \* bound: what a new milestone can be
  MilestoneUpdates,   \* bound: what a PATCH of a milestone can carry
  NameLength,         \* the length of full_name, by engineer
  LastDay,            \* bound: the last day of the behaviour
  MaxChanges,         \* bound: how often anybody changes anything
  MaxWeeklyHours,     \* max_weekly_hours of the configuration
  Null                \* None

ASSUME HoursAssumption == MaxWeeklyHours \in Nat \ {0}
ASSUME NullAssumption == Null \notin Int \cup {"ATTENTION", "AT_RISK"}

ProjectStatuses == {"PLANNED", "ACTIVE", "ON_HOLD", "COMPLETED"}
HealthStatuses == {"ON_TRACK", "ATTENTION", "AT_RISK"}

\* A request names a status of the enumeration and a manager that there is.
ASSUME ProjectsAssumption ==
  /\ 1 \in ProjectIds
  /\ \A new \in Projects : /\ {"status", "manager_user_id"} \subseteq DOMAIN new
                           /\ new.status \in ProjectStatuses /\ new.manager_user_id \in Managers
\* A PATCH need not name them, and it has no fields for the health.
ASSUME UpdatesAssumption ==
  \A update \in Updates :
    /\ DOMAIN update \cap {"health_status", "health_computed_at"} = {}
    /\ "status" \in DOMAIN update => update.status \in ProjectStatuses \cup {Null}
    /\ "manager_user_id" \in DOMAIN update => update.manager_user_id \in Managers \cup {Null}
ASSUME RowsAssumption ==
  \A r \in Rows : /\ r.project_id \in ProjectIds /\ r.utilisation_percent \in Nat
                  /\ r.from_date \in Int /\ r.to_date \in Int \cup {Null}
ASSUME SubmissionsAssumption ==
  \A s \in Submissions : s.week \in Int /\ s.hours \in [ProjectIds -> Nat]
ASSUME NamesAssumption == \A r \in Rows : NameLength[r.user_id] \in 1 .. 255
ASSUME BoundsAssumption == LastDay \in Nat /\ MaxChanges \in Nat

VARIABLES
  project,            \* projects
  milestones,         \* milestones, by project
  assigned,           \* the allocation rows whose status is ACTIVE
  logged,             \* the rows of timesheet_weeks
  submitting,         \* the submissions that were found new and are not inserted yet
  snapshots,          \* the latest of project_health_snapshots, by project
  today,
  ticks,              \* how many were committed, and whether something changed since the latest began
  tick,               \* the transaction of the scheduler
  edit,               \* the request of each admin
  view,               \* the request of the viewer, and what it shows
  changes             \* bounds the changes; it is also the moment of the latest

weeks == <<logged, submitting>>
data == <<project, milestones, assigned, weeks>>
vars == <<data, snapshots, today, ticks, tick, edit, view, changes>>

Idle == [pc |-> "idle"]

\* new @@ old and (x :> y) @@ f, as functions that the provers see through.
Over(new, old) == [x \in DOMAIN new \cup DOMAIN old |->
                     IF x \in DOMAIN new THEN new[x] ELSE old[x]]
With(f, x, y) == Over([z \in {x} |-> y], f)

-----------------------------------------------------------------------------
(***************************************************************************)
(* The rules.                                                              *)
(***************************************************************************)

\* Monday of the week before the one of the day.
LastCompletedWeekStart(day) == 7 * (day \div 7) - 7

OverlapDays(row, week) ==
  LET end == IF row.to_date = Null THEN week + 6 ELSE Min({row.to_date, week + 6})
  IN Max({0, end - Max({row.from_date, week}) + 1})

\* Mutant: a part of an hour counts as an hour.
ExpectedHoursRoundedUp(row, week) ==
  (((row.utilisation_percent * MaxWeeklyHours) \div 100) * OverlapDays(row, week) + 6) \div 7

ExpectedHours(row, week) ==
  (((row.utilisation_percent * MaxWeeklyHours) \div 100) * OverlapDays(row, week)) \div 7

WeekRows(user, week) == {w \in logged : w.user_id = user /\ w.week = week}

HoursOn(w, p) == IF w.status = "MISSED" THEN 0 ELSE w.hours[p]

\* The first row of an unordered query decides: any of the rows of the week.
HoursFound(row, week) ==
  LET rows == WeekRows(row.user_id, week)
  IN IF rows = {} THEN {0} ELSE {HoursOn(w, row.project_id) : w \in rows}

\* What the hours of an engineer say of the project, if anything.
LowHours(hours, expected) ==
  IF expected <= 0 \/ 10 * hours >= 8 * expected THEN Null
  ELSE IF 10 * hours < 5 * expected THEN "AT_RISK" ELSE "ATTENTION"

\* Mutant: a milestone is overdue on the day it is due.
OverdueOnTheDay(milestone, day) == milestone.status # "DONE" /\ milestone.due_date <= day

Overdue(milestone, day) == milestone.status # "DONE" /\ milestone.due_date < day

Status(flags) ==
  IF \E f \in flags : f.says = "AT_RISK" THEN "AT_RISK"
  ELSE IF \E f \in flags : f.says = "ATTENTION" THEN "ATTENTION" ELSE "ON_TRACK"

\* The number of digits of a number below 1000.
Digits(n) == 1 + Cardinality({k \in {10, 100} : k <= n})

\* The number of characters of "<title> milestone is <n> days overdue".
OverdueText(milestone, day) ==
  LET n == day - milestone.due_date
  IN milestone.title + Digits(n) + IF n = 1 THEN 26 ELSE 27

\* And that of "<name> logged only <n> hrs last week (expected <m> hrs)".
HoursText(user, hours, expected) == NameLength[user] + Digits(hours) + Digits(expected) + 43

OverdueFlags(ms, day) ==
  {[kind |-> "overdue", id |-> i, says |-> "AT_RISK", text |-> OverdueText(ms[i], day)] :
     i \in {j \in DOMAIN ms : Overdue(ms[j], day)}}

AllocatedFlag == [kind |-> "allocated", id |-> 0, says |-> "ON_TRACK", text |-> 33]

\* risk_flags is an array of strings of at most 255 characters.
Storable(flags) == \A f \in flags : f.text <= 255

Existing(p) == p \in DOMAIN project
RowsOf(p) == {r \in assigned : r.project_id = p}

-----------------------------------------------------------------------------
(***************************************************************************)
(* The tick.  Another tick without a change would only renew timestamps,   *)
(* so a tick begins when something has changed since the latest one that   *)
(* was committed began.                                                    *)
(***************************************************************************)

BeginTick ==
  /\ tick.pc = "idle"
  /\ ticks.due
  /\ tick' = [pc |-> "list", as_of |-> today, written |-> << >>]
  /\ ticks' = [ticks EXCEPT !.due = FALSE]
  /\ UNCHANGED <<data, snapshots, today, edit, view, changes>>

Engineers == {r.user_id : r \in Rows}

\* The next project of the queue, if any.
Turn(queue) == IF queue = {} THEN "commit" ELSE "milestones"

\* Mutant: only the projects that have not been evaluated yet.
ActiveUnrated ==
  {p \in DOMAIN project : project[p].status = "ACTIVE" /\ project[p].health_computed_at = Null}

Active == {p \in DOMAIN project : project[p].status = "ACTIVE"}

ListActive ==
  /\ tick.pc = "list"
  /\ tick' = Over([pc |-> Turn(Active), queue |-> Active, project_id |-> Null,
                    flags |-> {}, rows |-> {}, engineers |-> Engineers, missed |-> {}], tick)
  /\ UNCHANGED <<data, snapshots, today, ticks, edit, view, changes>>

\* Projects are evaluated in the order of their ids.
ReadMilestones ==
  /\ tick.pc = "milestones"
  /\ \E p \in tick.queue :
       /\ \A q \in tick.queue : p <= q
       /\ tick' = [tick EXCEPT !.pc = "rows", !.project_id = p, !.queue = @ \ {p},
                     !.flags = OverdueFlags(milestones[p], tick.as_of)]
  /\ UNCHANGED <<data, snapshots, today, ticks, edit, view, changes>>

ReadRows ==
  /\ tick.pc = "rows"
  /\ LET rows == RowsOf(tick.project_id)
     IN tick' = [tick EXCEPT !.pc = "hours", !.rows = rows,
                   !.flags = @ \cup IF rows # {} THEN {AllocatedFlag} ELSE {}]
  /\ UNCHANGED <<data, snapshots, today, ticks, edit, view, changes>>

ReadHours(row) ==
  /\ tick.pc = "hours"
  /\ row \in tick.rows
  /\ LET week == LastCompletedWeekStart(tick.as_of)
         expected == ExpectedHours(row, week)
     IN \E hours \in HoursFound(row, week) :
          LET says == LowHours(hours, expected)
              flag == [kind |-> "hours", id |-> row.user_id, says |-> says,
                       text |-> HoursText(row.user_id, hours, expected)]
          IN tick' = [tick EXCEPT !.rows = @ \ {row},
                        !.flags = @ \cup IF says # Null THEN {flag} ELSE {}]
  /\ UNCHANGED <<data, snapshots, today, ticks, edit, view, changes>>

Evaluate ==
  /\ tick.pc = "hours"
  /\ tick.rows = {}
  /\ LET snapshot == [status |-> Status(tick.flags), flags |-> tick.flags,
                      computed_at |-> ticks.committed + 1]
     IN tick' = IF Storable(tick.flags)
                THEN [tick EXCEPT !.pc = Turn(tick.queue),
                        !.written = With(@, tick.project_id, snapshot)]
                ELSE Idle
  /\ ticks' = [ticks EXCEPT !.due = @ \/ ~Storable(tick.flags)]
  /\ UNCHANGED <<data, snapshots, today, edit, view, changes>>

\* After the projects, every engineer of whom an allocation covers the week is given a
\* MISSED row if he has none.  An allocation that has ended may cover it, too.
FlagMissed(u) ==
  /\ tick.pc = "commit"
  /\ u \in tick.engineers
  /\ LET week == LastCompletedWeekStart(tick.as_of)
         covered == \E r \in assigned : r.user_id = u /\ OverlapDays(r, week) > 0
     IN \E owes \in {covered, TRUE} :
          tick' = [tick EXCEPT !.engineers = @ \ {u},
                     !.missed = @ \cup IF owes /\ WeekRows(u, week) = {} THEN {u} ELSE {}]
  /\ UNCHANGED <<data, snapshots, today, ticks, edit, view, changes>>

MissedRows ==
  {[user_id |-> u, week |-> LastCompletedWeekStart(tick.as_of), status |-> "MISSED",
    hours |-> Null] : u \in tick.missed}

\* The projects with the health that the tick wrote.
Rated == [p \in DOMAIN project |->
  IF p \in DOMAIN tick.written
  THEN [project[p] EXCEPT !.health_status = tick.written[p].status,
                          !.health_computed_at = tick.written[p].computed_at]
  ELSE project[p]]

\* Mutant: a snapshot is saved only if the status is another.
CommitNewStatusOnly ==
  /\ tick.pc = "commit" /\ tick.engineers = {}
  /\ project' = Rated
  /\ LET news == {p \in DOMAIN tick.written :
                    project[p].health_status # tick.written[p].status}
     IN snapshots' = Over([p \in news |-> tick.written[p]], snapshots)
  /\ ticks' = [ticks EXCEPT !.committed = @ + 1]
  /\ tick' = Idle
  /\ logged' = logged \cup MissedRows
  /\ UNCHANGED <<milestones, assigned, submitting, today, edit, view, changes>>

CommitTick ==
  /\ tick.pc = "commit" /\ tick.engineers = {}
  /\ project' = Rated
  /\ snapshots' = Over(tick.written, snapshots)
  /\ ticks' = [ticks EXCEPT !.committed = @ + 1]
  /\ tick' = Idle
  /\ logged' = logged \cup MissedRows
  /\ UNCHANGED <<milestones, assigned, submitting, today, edit, view, changes>>

-----------------------------------------------------------------------------
(***************************************************************************)
(* Admins.                                                                 *)
(***************************************************************************)

Count == changes < MaxChanges /\ changes' = changes + 1
Change == ticks' = [ticks EXCEPT !.due = TRUE]

ValidDateRange(start, end) == end # Null => start <= end

Given(value, current) == IF value = Null THEN current ELSE value

\* Mutant: the health of a new project is left empty.
WithoutHealth(new) == Over([health_status |-> Null, health_computed_at |-> Null], new)

Unrated(new) == Over([health_status |-> "ON_TRACK", health_computed_at |-> Null], new)

CreateProject(p, new) ==
  /\ ~Existing(p)
  /\ \A q \in 1 .. p - 1 : Existing(q)
  /\ ValidDateRange(new.start_date, new.end_date)
  /\ Count /\ Change
  /\ project' = With(project, p, Unrated(new))
  /\ milestones' = With(milestones, p, << >>)
  /\ UNCHANGED <<assigned, weeks, snapshots, today, tick, edit, view>>

\* The dates that the project would have are compared, as it was when it was read.
ValidUpdate(p, update) == ValidDateRange(Given(update.start_date, project[p].start_date),
                                         Given(update.end_date, project[p].end_date))

BeginUpdate(a, p, update) ==
  /\ edit[a].pc = "idle"
  /\ Existing(p)
  /\ ValidUpdate(p, update)
  /\ Count
  /\ edit' = [edit EXCEPT ![a] = [pc |-> "load", project_id |-> p, update |-> update]]
  /\ UNCHANGED <<data, snapshots, today, ticks, tick, view>>

\* The row is read again, and what the request leaves as it is there is not written.
LoadUpdate(a) ==
  /\ edit[a].pc = "load"
  /\ LET p == edit[a].project_id
         u == edit[a].update
         values == [f \in {g \in DOMAIN u : u[g] # Null /\ u[g] # project[p][g]} |-> u[f]]
     IN edit' = [edit EXCEPT ![a] = [pc |-> "update", project_id |-> p, values |-> values]]
  /\ UNCHANGED <<data, snapshots, today, ticks, tick, view, changes>>

\* The UPDATE, if there is anything to write, waits until no tick holds the row.
WriteUpdate(a) ==
  /\ edit[a].pc = "update"
  /\ (tick.pc # "idle" /\ DOMAIN edit[a].values # {}) =>
       edit[a].project_id \notin DOMAIN tick.written
  /\ Change
  /\ LET values == edit[a].values
     IN project' = [project EXCEPT ![edit[a].project_id] =
          [f \in DOMAIN @ |-> IF f \in DOMAIN values THEN values[f] ELSE @[f]]]
  /\ edit' = [edit EXCEPT ![a] = Idle]
  /\ UNCHANGED <<milestones, assigned, weeks, snapshots, today, tick, view, changes>>

NextOrder(p) == Max({0} \cup {milestones[p][i].sequence_order : i \in DOMAIN milestones[p]}) + 1

BeginAddMilestone(a, p, new) ==
  /\ edit[a].pc = "idle"
  /\ Existing(p)
  /\ Count
  /\ edit' = [edit EXCEPT ![a] = [pc |-> "add", project_id |-> p,
                milestone |-> With(new, "sequence_order", NextOrder(p))]]
  /\ UNCHANGED <<data, snapshots, today, ticks, tick, view>>

InsertMilestone(a) ==
  /\ edit[a].pc = "add"
  /\ Change
  /\ milestones' = [milestones EXCEPT ![edit[a].project_id] =
                      Append(@, edit[a].milestone)]
  /\ edit' = [edit EXCEPT ![a] = Idle]
  /\ UNCHANGED <<project, assigned, weeks, snapshots, today, tick, view, changes>>

UpdateMilestone(p, i, update) ==
  /\ i \in DOMAIN milestones[p]
  /\ Count /\ Change
  /\ milestones' = [milestones EXCEPT ![p][i] =
       [f \in DOMAIN @ |-> IF f \in DOMAIN update THEN Given(update[f], @[f]) ELSE @[f]]]
  /\ UNCHANGED <<project, assigned, weeks, snapshots, today, tick, edit, view>>

-----------------------------------------------------------------------------
(***************************************************************************)
(* The viewer: the detail of a project, and the risk summary, which gives  *)
(* the same facts to the language model.                                   *)
(***************************************************************************)

OpenProject(p) ==
  /\ view.pc = "idle"
  /\ Existing(p)
  /\ project[p].manager_user_id = Viewer
  /\ view' = [pc |-> "snapshot", project_id |-> p, status |-> project[p].health_status,
              computed_at |-> project[p].health_computed_at]
  /\ UNCHANGED <<data, snapshots, today, ticks, tick, edit, changes>>

ReadSnapshot ==
  /\ view.pc = "snapshot"
  /\ LET p == view.project_id
         latest == IF p \in DOMAIN snapshots THEN {snapshots[p]} ELSE {}
     IN view' = Over([pc |-> "shown", latest |-> latest], view)
  /\ UNCHANGED <<data, snapshots, today, ticks, tick, edit, changes>>

\* Milestones, allocations and hours are read after that, and are shown or summarised by
\* the language model, which may fail; no property tells these reads apart.
Close ==
  /\ view.pc = "shown"
  /\ view' = Idle
  /\ UNCHANGED <<data, snapshots, today, ticks, tick, edit, changes>>

-----------------------------------------------------------------------------
(***************************************************************************)
(* Everybody else: allocations begin and end, engineers submit weeks, days *)
(* pass, and the API process stops and starts again.                       *)
(***************************************************************************)

StartRow(row) ==
  /\ row \notin assigned
  /\ Existing(row.project_id)
  /\ project[row.project_id].status \in {"ACTIVE", "PLANNED"}
  /\ Count /\ Change
  /\ assigned' = assigned \cup {row}
  /\ UNCHANGED <<project, milestones, weeks, snapshots, today, tick, edit, view>>

EndRow(row) ==
  /\ row \in assigned
  /\ Count /\ Change
  /\ assigned' = assigned \ {row}
  /\ UNCHANGED <<project, milestones, weeks, snapshots, today, tick, edit, view>>

\* A week that has begun and has no row yet; of the other checks Timesheets is the model.
BeginSubmit(s) ==
  /\ s \notin submitting
  /\ s.week <= today
  /\ WeekRows(s.user_id, s.week) = {}
  /\ Count
  /\ submitting' = submitting \cup {s}
  /\ UNCHANGED <<project, milestones, assigned, logged, snapshots, today, ticks, tick, edit, view>>

InsertWeek(s) ==
  /\ s \in submitting
  /\ Change
  /\ submitting' = submitting \ {s}
  /\ logged' = logged \cup {[user_id |-> s.user_id, week |-> s.week, status |-> "SUBMITTED",
                             hours |-> s.hours]}
  /\ UNCHANGED <<project, milestones, assigned, snapshots, today, tick, edit, view, changes>>

\* The interval passes; only when a week has several rows may another tick find
\* anything else.
IntervalPasses ==
  /\ \E v, w \in logged : v # w /\ v.user_id = w.user_id /\ v.week = w.week
  /\ Count /\ Change
  /\ UNCHANGED <<data, snapshots, today, tick, edit, view>>

DayPasses ==
  /\ today < LastDay
  /\ today' = today + 1
  /\ Change
  /\ UNCHANGED <<data, snapshots, tick, edit, view, changes>>

\* What was not committed is lost.
Restart ==
  /\ Count /\ Change
  /\ tick' = Idle /\ view' = Idle /\ edit' = [a \in Admins |-> Idle] /\ submitting' = {}
  /\ UNCHANGED <<project, milestones, assigned, logged, snapshots, today>>

Init ==
  /\ project \in {<< >>} \cup {With(<< >>, 1, Unrated(new)) : new \in Projects}
  /\ milestones \in [DOMAIN project -> {<< >>} \cup
                       {<<With(new, "sequence_order", 1)>> : new \in Milestones}]
  /\ assigned \in SUBSET {r \in Rows : Existing(r.project_id)} /\ logged = {}
  /\ submitting = {}
  /\ snapshots = << >>
  /\ today \in 0 .. LastDay
  /\ ticks = [committed |-> 0, due |-> TRUE]
  /\ tick = Idle /\ view = Idle /\ edit = [a \in Admins |-> Idle]
  /\ changes = 0

Tick == \/ BeginTick \/ ListActive \/ ReadMilestones \/ ReadRows
        \/ \E row \in Rows : ReadHours(row)
        \/ Evaluate
        \/ \E u \in Engineers : FlagMissed(u)
        \/ CommitTick

Admin(a) ==
  \/ \E p \in ProjectIds : \/ \E update \in Updates : BeginUpdate(a, p, update)
                           \/ \E new \in Milestones : BeginAddMilestone(a, p, new)
  \/ LoadUpdate(a)
  \/ WriteUpdate(a)
  \/ InsertMilestone(a)

AdminAtOnce ==
  \/ \E p \in ProjectIds, new \in Projects : CreateProject(p, new)
  \/ \E p \in DOMAIN project, update \in MilestoneUpdates :
       \E i \in DOMAIN milestones[p] : UpdateMilestone(p, i, update)

Look == (\E p \in ProjectIds : OpenProject(p)) \/ ReadSnapshot \/ Close

Others ==
  \/ \E row \in Rows : StartRow(row) \/ EndRow(row)
  \/ \E s \in Submissions : BeginSubmit(s) \/ InsertWeek(s)
  \/ IntervalPasses
  \/ DayPasses
  \/ Restart

Next == Tick \/ (\E a \in Admins : Admin(a)) \/ AdminAtOnce \/ Look \/ Others

\* The interval trigger fires again and again, and a tick that began runs to its end.
Spec == Init /\ [][Next]_vars /\ WF_vars(Tick)

-----------------------------------------------------------------------------
(***************************************************************************)
(* Properties.                                                             *)
(***************************************************************************)

\* The variables have values of their types.
TypeOK ==
  /\ DOMAIN project \subseteq ProjectIds
  /\ \A p \in DOMAIN project :
       /\ project[p].status \in ProjectStatuses
       /\ project[p].health_status \in HealthStatuses
       /\ project[p].manager_user_id \in Managers
  /\ assigned \subseteq Rows
  /\ today \in 0 .. LastDay /\ changes \in 0 .. MaxChanges
  /\ ticks.committed \in 0 .. MaxChanges + LastDay + 1
  /\ \A p \in DOMAIN snapshots : snapshots[p].computed_at <= ticks.committed

\* The status of a project is the one of its latest snapshot, computed at the same
\* moment; a project without one is on track.  They are separate rows, and admins,
\* restarts and ticks that fail come between.
HealthAgreesWithSnapshot ==
  \A p \in DOMAIN project :
    IF p \in DOMAIN snapshots
    THEN /\ project[p].health_status = snapshots[p].status
         /\ project[p].health_computed_at = snapshots[p].computed_at
    ELSE project[p].health_status = "ON_TRACK" /\ project[p].health_computed_at = Null

\* The viewer never sees flags that are older than the status beside them, although the
\* two are read in two statements.
FlagsNotOlderThanStatus ==
  (view.pc = "shown" /\ view.computed_at # Null) =>
    \E snapshot \in view.latest : snapshot.computed_at >= view.computed_at

\* A row of a week that shows at least 80 % of the hours expected of its engineer.
Enough(w, r, week) ==
  w.status = "SUBMITTED" /\ 5 * w.hours[r.project_id] >= 4 * ExpectedHours(r, week)

\* If nothing has changed since the latest tick began, the status of an ACTIVE project
\* is right as far as the rows of the last week go.  On track, nothing is late, and
\* whoever should have worked on it has submitted enough hours.  Anything else, and a
\* milestone is late or somebody has no row or some row that is MISSED or short.
QuietHealthIsRight ==
  (tick.pc = "idle" /\ ~ticks.due) =>
    \A p \in Active :
      LET week == 7 * ((today \div 7) - 1)
          late == \E i \in DOMAIN milestones[p] :
                    /\ milestones[p][i].status # "DONE"
                    /\ milestones[p][i].due_date < today
          working == {r \in assigned : r.project_id = p /\ ExpectedHours(r, week) > 0}
          rows(r) == {w \in logged : w.user_id = r.user_id /\ w.week = week}
      IN IF project[p].health_status = "ON_TRACK"
         THEN ~late /\ \A r \in working : \E w \in rows(r) : Enough(w, r, week)
         ELSE late \/ \E r \in working : \/ rows(r) = {}
                                        \/ \E w \in rows(r) : ~Enough(w, r, week)

\* Not checked, since the code breaks it: an ACTIVE project that nothing has changed
\* under is on track if nothing is late on it and everybody on it has submitted enough
\* hours, whatever other rows there are of his week.
FullWeekIsEnough ==
  (tick.pc = "idle" /\ ~ticks.due) =>
    \A p \in Active :
      LET week == LastCompletedWeekStart(today)
      IN (/\ \A i \in DOMAIN milestones[p] : ~Overdue(milestones[p][i], today)
          /\ \A r \in RowsOf(p) : \E w \in WeekRows(r.user_id, week) : Enough(w, r, week))
         => project[p].health_status = "ON_TRACK"

\* Expected hours are rounded down twice.  Nobody who logged 80 % of the exact hours is
\* reported, and whoever is not reported lacks less than 1.6 hours of it.
RoundingIsLenient ==
  \A r \in assigned, week \in {0, 7}, hours \in 0 .. MaxWeeklyHours :
    LET exact700 == r.utilisation_percent * MaxWeeklyHours * OverlapDays(r, week)
        low == LowHours(hours, ExpectedHours(r, week))
    IN /\ 5 * 700 * hours >= 4 * exact700 => low = Null
       /\ low = Null => 5 * 700 * hours > 4 * (exact700 - 1400)

Late(p) == /\ Existing(p) /\ project[p].status = "ACTIVE"
           /\ \E i \in DOMAIN milestones[p] : Overdue(milestones[p][i], today)

\* An ACTIVE project that stays late is put at risk.
LateNoticed ==
  \A p \in ProjectIds :
    <>[]Late(p) => <>[](Existing(p) /\ project[p].health_status = "AT_RISK")
=============================================================================
