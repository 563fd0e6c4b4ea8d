------------------------------ MODULE Timesheets ------------------------------
(***************************************************************************)
(* Weekly timesheets: engineers submit a week, and the scheduler flags as  *)
(* MISSED the weeks that ended without a timesheet.  Both look whether a   *)
(* row for the week exists and insert one if not, each in a transaction of *)
(* its own, and the table itself (models/timesheet.py) forbids nothing.    *)
(*                                                                         *)
(* Rows are only inserted, so no transaction waits for another, and what a *)
(* transaction inserts is seen by nobody else before its commit.  A check  *)
(* or a validation and the INSERT right after it are one action.           *)
(*                                                                         *)
(* The allocations change beside all this as AllocationLedger says, one    *)
(* committed request at a time.                                            *)
(***************************************************************************)
EXTENDS UtilisationCalculator

CONSTANTS
  Engineers,        \* user ids of engineers
  Projects,
  Grants,           \* bound: the rows that managers allocate
  Requests,         \* submissions that can be in flight at once, a thread of the pool each
  Scheduler,        \* the scheduler's thread
  DaysPerWeek,      \* 7
  LookbackWeeks,    \* SCHEDULER_MISSED_LOOKBACK_WEEKS, 52 in the code
  MaxWeeklyHours,   \* max_weekly_hours of the configuration
  Hours,            \* bound: the hours that submissions report
  MaxAllocations,   \* bound: how many allocations are granted
  EndDays,          \* bound: the days that managers let allocations end on
  MaxWeeks,         \* bound: how many rows timesheet_weeks can hold
  LastDay           \* bound: the calendar ends here

ASSUME EngineersAssumption == Engineers \subseteq Nat /\ IsFiniteSet(Engineers)
ASSUME ProjectsAssumption == IsFiniteSet(Projects)
ASSUME RequestsAssumption == IsFiniteSet(Requests)
ASSUME SchedulerAssumption == Scheduler \notin Requests
ASSUME CalendarAssumption == DaysPerWeek \in Nat \ {0} /\ LastDay \in Nat \ {0}
ASSUME BoundsAssumption == /\ MaxAllocations \in Nat /\ MaxWeeks \in Nat
                           /\ LookbackWeeks \in Nat /\ MaxWeeklyHours \in Nat
                           /\ Hours \subseteq Nat /\ EndDays \subseteq 1 .. LastDay

VARIABLES
  today,            \* date.today()
  active_users,     \* users whose account_status is ACTIVE
  allocations,      \* allocations: a row for each id that exists
  weeks,            \* timesheet_weeks with their entries: a row for each id that exists
  tx                \* what each transaction is doing

vars == <<today, active_users, allocations, weeks, tx>>

Transactions == Requests \cup {Scheduler}
Days == 1 .. LastDay
WeekIds == 1 .. MaxWeeks
AllocationIds == 1 .. MaxAllocations

-----------------------------------------------------------------------------
(***************************************************************************)
(* Weeks are named by their first day; day 1 is a Monday.                  *)
(***************************************************************************)

WeekStart(day) == day - ((day - 1) % DaysPerWeek)

WeekEnd(start) == start + DaysPerWeek - 1

WeekStarts == {w \in Days : WeekStart(w) = w}

\* The week before the current one: the current one is never over on its own days.
LastCompletedWeek(day) == WeekStart(day) - DaysPerWeek

\* The weeks that flag_missed_timesheets looks at.
Window(day) ==
  {w \in WeekStarts : \E k \in 0 .. LookbackWeeks - 1 :
                        w = LastCompletedWeek(day) - k * DaysPerWeek}

\* _allocation_covers_week: whatever the status, the dates overlap the week.
CoversWeek(row, start) ==
  /\ row.from_date <= WeekEnd(start)
  /\ row.to_date # NoDate => start <= row.to_date

OfUser(table, user) == {i \in DOMAIN table : table[i].user_id = user}

\* find_week_by_user finds a row, of either status.
HasWeek(table, user, start) ==
  \E i \in DOMAIN table : table[i].user_id = user /\ table[i].week_start_date = start

(***************************************************************************)
(* Hours.  Like percentages, they are counted as points.                   *)
(***************************************************************************)

TotalHours(hours) ==
  Cardinality(UNION {{p} \X (1 .. hours[p]) : p \in DOMAIN hours})

\* _allocations_for_week keys the rows by project: of several, the last one stays.
AllocationsForWeek(user, start) ==
  LET rows == FindOverlapping(allocations, user, start, WeekEnd(start))
  IN  {i \in rows : \A j \in rows : allocations[j].project_id = allocations[i].project_id
                                      => j <= i}

\* The hours that may be logged under an allocation, rounded down.
ExpectedMax(row) == (row.utilisation_percent * MaxWeeklyHours) \div MaxUtilisationPercent

-----------------------------------------------------------------------------
(***************************************************************************)
(* Transactions.                                                           *)
(*   user, week, hours   what submit_week is asked for                     *)
(*   as_of     the scheduler's reference date                              *)
(*   queue     the engineers whose weeks are still to be looked at         *)
(*   due       the covered weeks of the first of them                      *)
(*   rows      uncommitted inserts                                         *)
(***************************************************************************)
Empty == [i \in {} |-> i]

NoOne == 0

Idle == [pc |-> "idle", user |-> NoOne, week |-> 1, hours |-> Empty,
         as_of |-> 1, queue |-> {}, due |-> {}, rows |-> Empty]

Row == [user_id : Engineers, week_start_date : WeekStarts,
        status : {"SUBMITTED", "MISSED"}, total_hours : Nat]

IsPartial(f, D, R) == DOMAIN f \subseteq D /\ f \in [DOMAIN f -> R]

IsTransaction(x) ==
  /\ DOMAIN x = DOMAIN Idle
  /\ x.pc \in {"idle", "validate", "list_engineers", "list_allocations", "find_week", "commit"}
  /\ x.user \in Engineers \cup {NoOne}
  /\ x.week \in Days
  /\ IsPartial(x.hours, Projects, Hours)
  /\ x.as_of \in Days
  /\ x.queue \subseteq Engineers
  /\ x.due \subseteq WeekStarts
  /\ IsPartial(x.rows, WeekIds, Row)

\* The rows a SELECT of transaction t finds.
Visible(t) ==
  [i \in DOMAIN weeks \cup DOMAIN tx[t].rows |->
     IF i \in DOMAIN tx[t].rows THEN tx[t].rows[i] ELSE weeks[i]]

First(S) == CHOOSE i \in S : \A j \in S : i <= j
Latest(S) == CHOOSE i \in S : \A j \in S : j <= i

\* Ids that no row has, uncommitted ones included.  Which one a row gets tells the
\* timesheets nothing.
FreeIds == WeekIds \ (DOMAIN weeks \cup UNION {DOMAIN tx[t].rows : t \in Transactions})

\* t inserts a row and goes on as `after' says.
Insert(t, row, after) ==
  /\ FreeIds # {}
  /\ tx' = [tx EXCEPT ![t] =
       [after EXCEPT !.rows = [i \in DOMAIN @ \cup {First(FreeIds)} |->
                                 IF i = First(FreeIds) THEN row ELSE @[i]]]]

-----------------------------------------------------------------------------
(***************************************************************************)
(* submit_week                                                             *)
(***************************************************************************)

\* Mutated form: a week that was submitted may be submitted again.
NotFlaggedYet(user, week) ==
  \A i \in DOMAIN weeks :
    weeks[i].user_id = user /\ weeks[i].week_start_date = week => weeks[i].status # "MISSED"

\* _reject_duplicate_week
NoDuplicateWeek(user, week) == ~HasWeek(weeks, user, week)

\* The week is not in the future and has no row yet.  The account need not be
\* active: the request carries a token.
BeginSubmit(t, user, week, hours) ==
  /\ tx[t].pc = "idle"
  /\ week <= WeekStart(today)
  /\ NoDuplicateWeek(user, week)
  /\ tx' = [tx EXCEPT ![t] =
       [Idle EXCEPT !.pc = "validate", !.user = user, !.week = week, !.hours = hours]]
  /\ UNCHANGED <<today, active_users, allocations, weeks>>

\* Mutated form: hours are held against each project's allocation only.
AcceptsProjects(t) ==
  \A p \in DOMAIN tx[t].hours :
    \E i \in AllocationsForWeek(tx[t].user, tx[t].week) :
      /\ allocations[i].project_id = p
      /\ tx[t].hours[p] <= ExpectedMax(allocations[i])

\* Every project is allocated in that week and within its share of the hours, and
\* so is the sum.  A submission of no project at all is accepted.
Accepts(t) ==
  /\ \A p \in DOMAIN tx[t].hours :
       \E i \in AllocationsForWeek(tx[t].user, tx[t].week) :
         /\ allocations[i].project_id = p
         /\ tx[t].hours[p] <= ExpectedMax(allocations[i])
  /\ TotalHours(tx[t].hours) <= MaxWeeklyHours

ValidateAndInsert(t) ==
  /\ tx[t].pc = "validate"
  /\ Accepts(t)
  /\ Insert(t, [user_id |-> tx[t].user, week_start_date |-> tx[t].week,
                status |-> "SUBMITTED", total_hours |-> TotalHours(tx[t].hours)],
            [Idle EXCEPT !.pc = "commit"])
  /\ UNCHANGED <<today, active_users, allocations, weeks>>

\* A check fails, or the table is full.
Refuse(t) ==
  /\ tx[t].pc = "validate"
  /\ ~Accepts(t) \/ FreeIds = {}
  /\ tx' = [tx EXCEPT ![t] = Idle]
  /\ UNCHANGED <<today, active_users, allocations, weeks>>

-----------------------------------------------------------------------------
(***************************************************************************)
(* flag_missed_timesheets, the last job of a tick.  The jobs before it     *)
(* touch neither the weeks nor the allocations; they take their time       *)
(* between the reference date and the list of engineers.                   *)
(***************************************************************************)

BeginTick ==
  /\ tx[Scheduler].pc = "idle"
  /\ tx' = [tx EXCEPT ![Scheduler] = [Idle EXCEPT !.pc = "list_engineers", !.as_of = today]]
  /\ UNCHANGED <<today, active_users, allocations, weeks>>

\* Where the job is when some engineers are left, or none.
Flagging(x, queue) ==
  [x EXCEPT !.pc = IF queue = {} THEN "commit" ELSE "list_allocations",
            !.queue = queue, !.due = {}]

ListEngineers(t) ==
  /\ tx[t].pc = "list_engineers"
  /\ tx' = [tx EXCEPT ![t] = Flagging(@, active_users)]
  /\ UNCHANGED <<today, active_users, allocations, weeks>>

\* Mutated form: allocations that have been ended are not counted.
DueWeeksOfActive(user, as_of) ==
  {w \in Window(as_of) :
     /\ WeekEnd(w) < as_of
     /\ \E i \in FindActiveByUser(allocations, user) : CoversWeek(allocations[i], w)}

\* The weeks that are over and for which the engineer was allocated.
DueWeeks(user, as_of) ==
  {w \in Window(as_of) :
     /\ WeekEnd(w) < as_of
     /\ \E i \in OfUser(allocations, user) : CoversWeek(allocations[i], w)}

\* list_by_user, once for an engineer.
ListAllocations(t) ==
  /\ tx[t].pc = "list_allocations"
  /\ LET user == First(tx[t].queue)
         due == DueWeeks(user, tx[t].as_of)
     IN  tx' = [tx EXCEPT ![t] =
           IF due = {} THEN Flagging(@, tx[t].queue \ {user})
                       ELSE [@ EXCEPT !.pc = "find_week", !.due = due]]
  /\ UNCHANGED <<today, active_users, allocations, weeks>>

\* Mutated form: only submitted weeks are looked up.
WeekIsSubmitted(t, user, week) ==
  LET submitted == {i \in DOMAIN Visible(t) : Visible(t)[i].status = "SUBMITTED"}
  IN  HasWeek([i \in submitted |-> Visible(t)[i]], user, week)

WeekExists(t, user, week) == HasWeek(Visible(t), user, week)

\* t without the week it has dealt with: the other weeks, or the next engineer.
WithoutWeek(t, week) ==
  IF tx[t].due = {week} THEN Flagging(tx[t], tx[t].queue \ {First(tx[t].queue)})
                        ELSE [tx[t] EXCEPT !.due = @ \ {week}]

\* From the latest week backwards: one with a row is passed over, one without is
\* flagged.
FindWeek(t) ==
  LET user == First(tx[t].queue)
      week == Latest(tx[t].due)
  IN  /\ tx[t].pc = "find_week"
      /\ WeekExists(t, user, week)
      /\ tx' = [tx EXCEPT ![t] = WithoutWeek(t, week)]
      /\ UNCHANGED <<today, active_users, allocations, weeks>>

CreateMissedWeek(t) ==
  LET user == First(tx[t].queue)
      week == Latest(tx[t].due)
  IN  /\ tx[t].pc = "find_week"
      /\ ~WeekExists(t, user, week)
      /\ Insert(t, [user_id |-> user, week_start_date |-> week,
                    status |-> "MISSED", total_hours |-> 0],
                WithoutWeek(t, week))
      /\ UNCHANGED <<today, active_users, allocations, weeks>>

-----------------------------------------------------------------------------
Commit(t) ==
  /\ tx[t].pc = "commit"
  /\ weeks' = Visible(t)
  /\ tx' = [tx EXCEPT ![t] = Idle]
  /\ UNCHANGED <<today, active_users, allocations>>

\* A database error, a lost connection or a restart of the server.
Rollback(t) ==
  /\ tx[t].pc # "idle"
  /\ tx' = [tx EXCEPT ![t] = Idle]
  /\ UNCHANGED <<today, active_users, allocations, weeks>>

(***************************************************************************)
(* Managers, administrators and the calendar.                              *)
(***************************************************************************)

Ledger == INSTANCE AllocationLedger WITH
  Ids <- AllocationIds, Rows <- Grants, Dates <- Days, ledger <- allocations

Allocate(row) ==
  /\ Cardinality(DOMAIN allocations) < MaxAllocations
  /\ row.user_id \in active_users
  /\ ValidateNewAllocation(allocations, row)
  /\ Ledger!Grant(Cardinality(DOMAIN allocations) + 1, row)
  /\ UNCHANGED <<today, active_users, weeks, tx>>

\* A manager may name the day an allocation ends on, past or future.
EndAllocation(id, day) ==
  /\ id \in DOMAIN allocations
  /\ Ledger!Close(allocations[id].user_id, {id}, day)
  /\ UNCHANGED <<today, active_users, weeks, tx>>

\* deactivate_employee ends what is active and blocks the account.
DeactivateEmployee(user) ==
  /\ user \in active_users
  /\ active_users' = active_users \ {user}
  /\ LET open == FindActiveByUser(allocations, user)
     IN  IF open = {} THEN UNCHANGED allocations ELSE Ledger!Close(user, open, today)
  /\ UNCHANGED <<today, weeks, tx>>

\* deactivate_user blocks the account alone.
DeactivateUser(user) ==
  /\ user \in active_users
  /\ active_users' = active_users \ {user}
  /\ UNCHANGED <<today, allocations, weeks, tx>>

ReactivateUser(user) ==
  /\ user \notin active_users
  /\ active_users' = active_users \cup {user}
  /\ UNCHANGED <<today, allocations, weeks, tx>>

NextDay ==
  /\ today < LastDay
  /\ today' = today + 1
  /\ UNCHANGED <<active_users, allocations, weeks, tx>>

-----------------------------------------------------------------------------
Init ==
  /\ today = 1
  /\ active_users = Engineers
  /\ allocations = Empty
  /\ weeks = Empty
  /\ tx = [t \in Transactions |-> Idle]

\* Mutated form: a week may be named by any of its days.
SubmitAnyDay(t) ==
  \E u \in Engineers, d \in Days, S \in SUBSET Projects :
    \E hours \in [S -> Hours] : BeginSubmit(t, u, d, hours)

\* A week is named by its Monday, and a project once.
Submit(t) ==
  \E u \in Engineers, w \in WeekStarts, S \in SUBSET Projects :
    \E hours \in [S -> Hours] : BeginSubmit(t, u, w, hours)

Continue(t) ==
  \/ ValidateAndInsert(t)
  \/ Refuse(t)
  \/ ListEngineers(t)
  \/ ListAllocations(t)
  \/ FindWeek(t)
  \/ CreateMissedWeek(t)
  \/ Commit(t)

Manage ==
  \/ \E row \in Grants : Allocate(row)
  \/ \E i \in AllocationIds, d \in EndDays : EndAllocation(i, d)
  \/ \E u \in Engineers : DeactivateEmployee(u)
  \/ \E u \in Engineers : DeactivateUser(u) \/ ReactivateUser(u)

Next ==
  \/ \E t \in Requests : Submit(t) \/ Rollback(t)
  \/ BeginTick
  \/ \E t \in Transactions : Continue(t)
  \/ Rollback(Scheduler)
  \/ Manage
  \/ NextDay

Spec == Init /\ [][Next]_vars

-----------------------------------------------------------------------------
(***************************************************************************)
(* Properties.                                                             *)
(***************************************************************************)

\* Every variable holds what its column or field can hold.
TypeOK ==
  /\ today \in Days
  /\ active_users \subseteq Engineers
  /\ IsPartial(weeks, WeekIds, Row)
  /\ DOMAIN tx = Transactions
  /\ \A t \in Transactions : IsTransaction(tx[t])

SameWeek(row, other) ==
  row.user_id = other.user_id /\ row.week_start_date = other.week_start_date

\* The scheduler flags a week once, also when the tick that flags it is slow, finds
\* the row only in its own transaction, or comes after a tick that was rolled back.
FlaggedOnce ==
  \A i, j \in DOMAIN weeks :
    /\ i # j
    /\ weeks[i].status = "MISSED"
    /\ weeks[j].status = "MISSED"
    => ~SameWeek(weeks[i], weeks[j])

\* What is left of the duplicate check when submissions race: a week is submitted at
\* most as often as requests are in flight at once, however many are made.
SubmissionsBounded ==
  \A u \in Engineers, w \in WeekStarts :
    Cardinality({i \in DOMAIN weeks : /\ weeks[i].user_id = u
                                     /\ weeks[i].week_start_date = w
                                     /\ weeks[i].status = "SUBMITTED"})
      <= Cardinality(Requests)

\* No week is logged beyond the limit, although allocations that follow one another
\* within a week may each have room for all of it.
TotalWithinLimit ==
  \A i \in DOMAIN weeks : weeks[i].total_hours <= MaxWeeklyHours

\* BRD, timesheet rules: a timesheet for one week cannot be submitted twice.
SubmittedOnce ==
  \A i, j \in DOMAIN weeks :
    /\ i # j
    /\ weeks[i].status = "SUBMITTED"
    /\ weeks[j].status = "SUBMITTED"
    => ~SameWeek(weeks[i], weeks[j])

\* The scheduler flags weeks with allocations: when it takes a week up, there is a
\* day of that week on which the engineer was allocated.
FlagsAllocatedWeeks ==
  [][\A w \in tx'[Scheduler].due \ tx[Scheduler].due :
       \E i \in OfUser(allocations, First(tx[Scheduler].queue)), d \in w .. WeekEnd(w) :
         Covers(allocations[i], d)]_vars

-----------------------------------------------------------------------------
(***************************************************************************)
(* Liveness.                                                               *)
(***************************************************************************)

\* A running transaction goes on, and APScheduler starts a tick at every interval.
Fairness ==
  /\ \A t \in Transactions : WF_vars(Continue(t))
  /\ WF_vars(BeginTick)

\* A week is owed when it is over, within the lookback, was covered by an allocation
\* of an active engineer, ended or not, and has no row.
Owed(user, week) ==
  /\ user \in active_users
  /\ week \in Window(today)
  /\ \E i \in OfUser(allocations, user) : CoversWeek(allocations[i], week)
  /\ ~HasWeek(weeks, user, week)

\* No week stays owed: it is submitted or flagged, however late its allocation was
\* granted and whether or not it has been ended since.
WeeksAccountedFor ==
  \A u \in Engineers, w \in WeekStarts : []<>~Owed(u, w)

=============================================================================
