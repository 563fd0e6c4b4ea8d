-------------------------- MODULE AllocationService --------------------------
(***************************************************************************)
(* Allocating engineers to projects, as the API runs it: every request is  *)
(* one database transaction, its route calls one service method and then   *)
(* commits, and several requests run at once on the server's thread pool   *)
(* beside the scheduler's own thread.                                      *)
(*                                                                         *)
(* An action is one SQL statement, or several of which only one can be     *)
(* seen by, or can see, another transaction.  PostgreSQL's READ COMMITTED  *)
(* (the engine's default, which infrastructure/db/session.py leaves alone) *)
(* is modelled by what it does:                                            *)
(*   - a SELECT reads the committed tables and the transaction's own       *)
(*     writes, as they are when the statement runs;                        *)
(*   - an UPDATE takes the row until the transaction ends, and waits while *)
(*     another transaction has it;                                         *)
(*   - COMMIT publishes the writes in one step; an exception, a dropped    *)
(*     connection or a restart of the server discards them.                *)
(***************************************************************************)
EXTENDS UtilisationCalculator

CONSTANTS
  Engineers,        \* user ids of engineers
  Managers,         \* users who own projects and teams
  Projects,
  Requests,         \* requests that can be in flight at once
  Scheduler,        \* the scheduler's thread
  NoRow,            \* no allocation is about to be inserted
  MaxAllocations,   \* bound: how many allocation ids are handed out
  LastDay,          \* bound: the calendar ends here
  Percents          \* bound: the percentages requests ask for

ASSUME EngineersAssumption == Engineers \subseteq Nat /\ IsFiniteSet(Engineers)
ASSUME SchedulerAssumption == Scheduler \notin Requests
ASSUME BoundsAssumption == MaxAllocations \in Nat /\ LastDay \in Nat \ {0}
ASSUME PercentsAssumption == Percents \subseteq 1 .. MaxUtilisationPercent

VARIABLES
  today,            \* date.today()
  users,            \* users: account status and manager of each engineer
  projects,         \* projects: status and owner
  allocations,      \* allocations: a row for each id that exists
  resource_status,  \* resource_status: utilisation and work status of each engineer
  next_id,          \* the sequence behind allocations.id, which never goes back
  tx,               \* what each transaction is doing
  seen              \* history: the ids a new row was validated against

vars == <<today, users, projects, allocations, resource_status, next_id, tx, seen>>

Transactions == Requests \cup {Scheduler}
AllocationIds == 1 .. MaxAllocations
Days == 1 .. LastDay
EndDates == Days \cup {NoDate}
ProjectStatuses == {"PLANNED", "ACTIVE", "ON_HOLD", "COMPLETED"}
AccountStatuses == {"ACTIVE", "INACTIVE"}

Row == [user_id : Engineers, project_id : Projects,
        utilisation_percent : 1 .. MaxUtilisationPercent,
        from_date : Days, to_date : EndDates,
        status : {"ACTIVE", "ENDED"}, created_by_user_id : Managers]

\* What _sync_user_utilisation stores for a utilisation.
StatusOf(percent) == [utilisation_percent |-> percent,
                      work_status |-> IF percent = 0 THEN "BENCH" ELSE "ALLOCATED"]

Status == [utilisation_percent : Nat, work_status : {"BENCH", "ALLOCATED"}]

-----------------------------------------------------------------------------
(***************************************************************************)
(* Transactions.                                                           *)
(*   op, pc    the use case and the statement it runs next                 *)
(*   row       the allocation allocate_direct is asked for, till inserted  *)
(*   loaded    the rows still to be ended, with the to_date that was read  *)
(*   as_of     the day they end on, and the day the status is computed for *)
(*   queue     the engineers whose status is still to be synchronised      *)
(*   percent   the utilisation computed for the first of them              *)
(*   columns   those of the first one's status that were read to differ    *)
(*   blocks    the account that is made INACTIVE at the end                *)
(*   rows, statuses   uncommitted writes; each one also holds the row lock *)
(***************************************************************************)
Empty == [i \in {} |-> i]

Idle == [op |-> "none", pc |-> "idle", row |-> NoRow, loaded |-> Empty, as_of |-> 1,
         queue |-> {}, percent |-> 0, columns |-> {}, blocks |-> {},
         rows |-> Empty, statuses |-> Empty]

\* f is a function from some of D to R.
IsPartial(f, D, R) == DOMAIN f \subseteq D /\ f \in [DOMAIN f -> R]

IsTransaction(x) ==
  /\ DOMAIN x = DOMAIN Idle
  /\ x.op \in {"none", "allocate", "end", "deactivate", "tick"}
  /\ x.pc \in {"idle", "read_engineer", "validate", "load_row", "select_active",
               "update_rows", "compute", "load_status", "update_status", "commit"}
  /\ x.row \in Row \cup {NoRow}
  /\ IsPartial(x.loaded, AllocationIds, EndDates)
  /\ x.as_of \in Days
  /\ x.queue \subseteq Engineers
  /\ x.percent \in Nat
  /\ x.columns \subseteq {"utilisation_percent", "work_status"}
  /\ x.blocks \subseteq Engineers
  /\ IsPartial(x.rows, AllocationIds, Row)
  /\ IsPartial(x.statuses, Engineers, Status)

\* f with the entries of g added, or replaced where both have one.
Overlay(f, g) ==
  [i \in DOMAIN f \cup DOMAIN g |-> IF i \in DOMAIN g THEN g[i] ELSE f[i]]

Without(f, i) == [j \in DOMAIN f \ {i} |-> f[j]]

\* What a SELECT of transaction t on the allocations table returns rows from.
Visible(t) == Overlay(allocations, tx[t].rows)

\* Ids are updated, and engineers visited, in ascending order.
First(S) == CHOOSE i \in S : \A j \in S : i <= j

RowLocked(t, id) == \E s \in Transactions \ {t} : id \in DOMAIN tx[s].rows
StatusLocked(t, user) == \E s \in Transactions \ {t} : user \in DOMAIN tx[s].statuses

-----------------------------------------------------------------------------
(***************************************************************************)
(* allocate_direct                                                         *)
(***************************************************************************)

\* assert_can_allocate and allows_allocation: one SELECT of the project.
BeginAllocate(t, row) ==
  /\ tx[t].pc = "idle"
  /\ projects[row.project_id].manager_user_id = row.created_by_user_id
  /\ projects[row.project_id].status \in {"PLANNED", "ACTIVE"}
  /\ tx' = [tx EXCEPT ![t] =
       [Idle EXCEPT !.op = "allocate", !.pc = "read_engineer", !.row = row]]
  /\ UNCHANGED <<today, users, projects, allocations, resource_status, next_id, seen>>

\* _require_active_engineer: the account is active and on the manager's team.
EligibleEngineer(row) ==
  /\ users[row.user_id].account_status = "ACTIVE"
  /\ users[row.user_id].manager_id = row.created_by_user_id

ReadEngineer(t) ==
  /\ tx[t].pc = "read_engineer"
  /\ EligibleEngineer(tx[t].row)
  /\ tx' = [tx EXCEPT ![t].pc = "validate"]
  /\ UNCHANGED <<today, users, projects, allocations, resource_status, next_id, seen>>

\* Mutated form: validate_new_allocation is not asked.
AcceptsAny(t) == next_id <= MaxAllocations

\* validate_new_allocation accepts the row as the tables stand.
Accepts(t) ==
  /\ next_id <= MaxAllocations
  /\ ValidateNewAllocation(Visible(t), tx[t].row)

\* The check and the INSERT.  Nobody else can see the new row before the
\* commit, so nothing can come between them that either would notice.
ValidateAndInsert(t) ==
  /\ tx[t].pc = "validate"
  /\ Accepts(t)
  /\ tx' = [tx EXCEPT ![t].pc = "compute",
                      ![t].row = NoRow,
                      ![t].as_of = tx[t].row.from_date,
                      ![t].queue = {tx[t].row.user_id},
                      ![t].rows = [i \in {next_id} |-> tx[t].row]]
  /\ seen' = [seen EXCEPT ![next_id] = DOMAIN allocations]
  /\ next_id' = next_id + 1
  /\ UNCHANGED <<today, users, projects, allocations, resource_status>>

-----------------------------------------------------------------------------
(***************************************************************************)
(* end_allocation and deactivate_employee                                  *)
(***************************************************************************)

\* find_by_id, whatever the row's status, and the check of its project's owner.
BeginEnd(t, manager, id, day) ==
  /\ tx[t].pc = "idle"
  /\ id \in DOMAIN allocations
  /\ projects[allocations[id].project_id].manager_user_id = manager
  /\ tx' = [tx EXCEPT ![t] =
       [Idle EXCEPT !.op = "end", !.pc = "load_row", !.as_of = day,
                    !.loaded = [i \in {id} |-> allocations[id].to_date],
                    !.queue = {allocations[id].user_id}]]
  /\ UNCHANGED <<today, users, projects, allocations, resource_status, next_id, seen>>

\* Mutated form: end_by_id takes the row as find_by_id found it.
LoadAnyRow(t) ==
  /\ tx[t].pc = "load_row"
  /\ tx' = [tx EXCEPT ![t].pc = "update_rows"]
  /\ UNCHANGED <<today, users, projects, allocations, resource_status, next_id, seen>>

\* end_by_id reads the row again and wants it ACTIVE.
LoadRow(t) ==
  /\ tx[t].pc = "load_row"
  /\ \A i \in DOMAIN tx[t].loaded : allocations[i].status = "ACTIVE"
  /\ tx' = [tx EXCEPT ![t].pc = "update_rows",
                      ![t].loaded = [i \in DOMAIN @ |-> allocations[i].to_date]]
  /\ UNCHANGED <<today, users, projects, allocations, resource_status, next_id, seen>>

BeginDeactivate(t, user) ==
  /\ tx[t].pc = "idle"
  /\ users[user].account_status = "ACTIVE"
  /\ tx' = [tx EXCEPT ![t] =
       [Idle EXCEPT !.op = "deactivate", !.pc = "select_active", !.blocks = {user}]]
  /\ UNCHANGED <<today, users, projects, allocations, resource_status, next_id, seen>>

\* Mutated form: only the allocations that cover today are ended.
SelectActiveToday(t) ==
  /\ tx[t].pc = "select_active"
  /\ LET active == UNION {ActiveOn(allocations, u, today) : u \in tx[t].blocks}
     IN  tx' = [tx EXCEPT ![t].pc = IF active = {} THEN "commit" ELSE "update_rows",
                          ![t].as_of = today,
                          ![t].loaded = [i \in active |-> allocations[i].to_date]]
  /\ UNCHANGED <<today, users, projects, allocations, resource_status, next_id, seen>>

\* end_active_for_user selects the rows it is going to end.
SelectActive(t) ==
  /\ tx[t].pc = "select_active"
  /\ LET active == UNION {FindActiveByUser(allocations, u) : u \in tx[t].blocks}
     IN  tx' = [tx EXCEPT ![t].pc = IF active = {} THEN "commit" ELSE "update_rows",
                          ![t].as_of = today,
                          ![t].loaded = [i \in active |-> allocations[i].to_date]]
  /\ UNCHANGED <<today, users, projects, allocations, resource_status, next_id, seen>>

\* Mutated form: an end before the planned date only moves the date.
EndedEarly(row, loaded, day) ==
  [row EXCEPT !.status = IF loaded = day THEN "ENDED" ELSE "ACTIVE",
              !.to_date = day]

\* Mutated form: the row keeps its planned end.
EndedAsPlanned(row, loaded, day) == [row EXCEPT !.status = "ENDED"]

\* The UPDATE names only the columns that differ from what was read, and tests
\* nothing but the id: the row it lands on may have been ended meanwhile.
Ended(row, loaded, day) ==
  [row EXCEPT !.status = "ENDED",
              !.to_date = IF loaded = day THEN @ ELSE day]

\* Mutated form: rows are updated in the order they happen to be in.
AnyLoaded(t) == DOMAIN tx[t].loaded

\* The row updated next: the unit of work sorts its updates by primary key.
NextLoaded(t) == {First(DOMAIN tx[t].loaded)}

\* After the last row, the status is synchronised, or the transaction commits.
AfterRows(t, id) ==
  IF DOMAIN tx[t].loaded # {id} THEN "update_rows"
  ELSE IF tx[t].queue # {} THEN "compute"
  ELSE "commit"

EndRow(t, id) ==
  /\ tx[t].pc = "update_rows"
  /\ id \in NextLoaded(t)
  /\ ~RowLocked(t, id)
  /\ tx' = [tx EXCEPT ![t].pc = AfterRows(t, id),
                      ![t].loaded = Without(@, id),
                      ![t].rows = Overlay(@, [i \in {id} |->
                          Ended(allocations[id], tx[t].loaded[id], tx[t].as_of)])]
  /\ UNCHANGED <<today, users, projects, allocations, resource_status, next_id, seen>>

-----------------------------------------------------------------------------
(***************************************************************************)
(* _sync_user_utilisation, of allocate_direct, end_allocation and the      *)
(* scheduler, which runs it for one engineer after another.                *)
(***************************************************************************)

ComputeUtilisation(t) ==
  /\ tx[t].pc = "compute"
  /\ tx' = [tx EXCEPT ![t].pc = "load_status",
                      ![t].percent =
                         ComputeUtilisationOn(Visible(t), First(tx[t].queue), tx[t].as_of)]
  /\ UNCHANGED <<today, users, projects, allocations, resource_status, next_id, seen>>

AfterSync(t) ==
  IF Cardinality(tx[t].queue) > 1 THEN "compute" ELSE "commit"

\* The columns in which the stored status and the computed one differ.
Differing(t) ==
  LET stored == resource_status[First(tx[t].queue)]
      target == StatusOf(tx[t].percent)
  IN  {c \in DOMAIN target : stored[c] # target[c]}

\* The stored status is read, and an equal one is not written again.
StatusIsCurrent(t) ==
  /\ tx[t].pc = "load_status"
  /\ Differing(t) = {}
  /\ tx' = [tx EXCEPT ![t].pc = AfterSync(t), ![t].queue = @ \ {First(@)}]
  /\ UNCHANGED <<today, users, projects, allocations, resource_status, next_id, seen>>

StatusDiffers(t) ==
  /\ tx[t].pc = "load_status"
  /\ Differing(t) # {}
  /\ tx' = [tx EXCEPT ![t].pc = "update_status", ![t].columns = Differing(t)]
  /\ UNCHANGED <<today, users, projects, allocations, resource_status, next_id, seen>>

\* The UPDATE, which may have waited, of the columns that differed when they were
\* read: the others stay as the row now has them.
UpdatedStatus(stored, target, columns) ==
  [stored EXCEPT
     !.utilisation_percent = IF "utilisation_percent" \in columns
                             THEN target.utilisation_percent ELSE @,
     !.work_status = IF "work_status" \in columns THEN target.work_status ELSE @]

UpdateStatus(t) ==
  /\ tx[t].pc = "update_status"
  /\ ~StatusLocked(t, First(tx[t].queue))
  /\ tx' = [tx EXCEPT ![t].pc = AfterSync(t),
                      ![t].queue = @ \ {First(@)},
                      ![t].columns = {},
                      ![t].statuses = Overlay(@, [u \in {First(tx[t].queue)} |->
                          UpdatedStatus(resource_status[u], StatusOf(tx[t].percent),
                                        tx[t].columns)])]
  /\ UNCHANGED <<today, users, projects, allocations, resource_status, next_id, seen>>

\* Mutated form: engineers on the bench are passed over.
BeginTickAllocatedOnly ==
  LET active == {u \in Engineers : /\ users[u].account_status = "ACTIVE"
                                   /\ resource_status[u].work_status = "ALLOCATED"}
  IN  /\ tx[Scheduler].pc = "idle"
      /\ active # {}
      /\ tx' = [tx EXCEPT ![Scheduler] =
           [Idle EXCEPT !.op = "tick", !.pc = "compute", !.as_of = today, !.queue = active]]
      /\ UNCHANGED <<today, users, projects, allocations, resource_status, next_id, seen>>

\* recompute_utilisation_and_status lists the active engineers once, up front.
BeginTick ==
  LET active == {u \in Engineers : users[u].account_status = "ACTIVE"}
  IN  /\ tx[Scheduler].pc = "idle"
      /\ active # {}
      /\ tx' = [tx EXCEPT ![Scheduler] =
           [Idle EXCEPT !.op = "tick", !.pc = "compute", !.as_of = today, !.queue = active]]
      /\ UNCHANGED <<today, users, projects, allocations, resource_status, next_id, seen>>

-----------------------------------------------------------------------------
(***************************************************************************)
(* The end of a transaction.                                               *)
(***************************************************************************)

\* deactivate_employee's UPDATE of the account is its last statement.
Commit(t) ==
  /\ tx[t].pc = "commit"
  /\ allocations' = Visible(t)
  /\ resource_status' = Overlay(resource_status, tx[t].statuses)
  /\ users' = [u \in Engineers |->
       IF u \in tx[t].blocks THEN [users[u] EXCEPT !.account_status = "INACTIVE"]
                             ELSE users[u]]
  /\ tx' = [tx EXCEPT ![t] = Idle]
  /\ UNCHANGED <<today, projects, next_id, seen>>

\* Mutated form: nothing answers an end of an allocation that is not active.
RefuseNewOnly(t) ==
  /\ \/ tx[t].pc = "read_engineer" /\ ~EligibleEngineer(tx[t].row)
     \/ tx[t].pc = "validate" /\ ~Accepts(t)
  /\ tx' = [tx EXCEPT ![t] = Idle]
  /\ UNCHANGED <<today, users, projects, allocations, resource_status, next_id, seen>>

\* A check fails: the service raises and the session is closed.
Refuse(t) ==
  /\ \/ tx[t].pc = "read_engineer" /\ ~EligibleEngineer(tx[t].row)
     \/ tx[t].pc = "validate" /\ ~Accepts(t)
     \/ /\ tx[t].pc = "load_row"
        /\ \E i \in DOMAIN tx[t].loaded : allocations[i].status # "ACTIVE"
  /\ tx' = [tx EXCEPT ![t] = Idle]
  /\ UNCHANGED <<today, users, projects, allocations, resource_status, next_id, seen>>

\* A database error, a lost connection or a restart of the server.
Rollback(t) ==
  /\ tx[t].pc # "idle"
  /\ tx' = [tx EXCEPT ![t] = Idle]
  /\ UNCHANGED <<today, users, projects, allocations, resource_status, next_id, seen>>

-----------------------------------------------------------------------------
(***************************************************************************)
(* Admin requests that write one row: read, check, update and commit.      *)
(***************************************************************************)

AssignManager(user, manager) ==
  /\ users[user].account_status = "ACTIVE"
  /\ users' = [users EXCEPT ![user].manager_id = manager]
  /\ UNCHANGED <<today, projects, allocations, resource_status, next_id, tx, seen>>

\* Any status may follow any other, and the allocations stay as they are.
UpdateProject(project, status, manager) ==
  /\ projects' = [projects EXCEPT ![project] =
                    [status |-> status, manager_user_id |-> manager]]
  /\ UNCHANGED <<today, users, allocations, resource_status, next_id, tx, seen>>

\* Manage Users: the login is blocked, allocations are kept.
DeactivateUser(user) ==
  /\ users[user].account_status = "ACTIVE"
  /\ users' = [users EXCEPT ![user].account_status = "INACTIVE"]
  /\ UNCHANGED <<today, projects, allocations, resource_status, next_id, tx, seen>>

ReactivateUser(user) ==
  /\ users[user].account_status = "INACTIVE"
  /\ users' = [users EXCEPT ![user].account_status = "ACTIVE"]
  /\ UNCHANGED <<today, projects, allocations, resource_status, next_id, tx, seen>>

\* Midnight.
NextDay ==
  /\ today < LastDay
  /\ today' = today + 1
  /\ UNCHANGED <<users, projects, allocations, resource_status, next_id, tx, seen>>

-----------------------------------------------------------------------------
Init ==
  /\ today = 1
  /\ users \in [Engineers -> [account_status : {"ACTIVE"}, manager_id : Managers]]
  /\ projects \in [Projects -> [status : {"ACTIVE"}, manager_user_id : Managers]]
  /\ allocations = Empty
  /\ resource_status = [u \in Engineers |-> StatusOf(0)]
  /\ next_id = 1
  /\ tx = [t \in Transactions |-> Idle]
  /\ seen = [i \in AllocationIds |-> {}]

\* Mutated form: the schema leaves the percentage open.
RequestedUnbounded ==
  {[row EXCEPT !.utilisation_percent = p] :
     row \in {r \in Row : r.status = "ACTIVE"}, p \in 0 .. MaxUtilisationPercent + 1}

\* What a manager may ask for: the schema bounds the percentage and no more.
Requested == {row \in Row : row.utilisation_percent \in Percents /\ row.status = "ACTIVE"}

Start(t) ==
  \/ \E row \in Requested : BeginAllocate(t, row)
  \/ \E m \in Managers, id \in AllocationIds, d \in Days : BeginEnd(t, m, id, d)
  \/ \E u \in Engineers : BeginDeactivate(t, u)

\* The statements after the first, which a running transaction goes on with.
Continue(t) ==
  \/ ReadEngineer(t)
  \/ ValidateAndInsert(t)
  \/ LoadRow(t)
  \/ SelectActive(t)
  \/ \E id \in AllocationIds : EndRow(t, id)
  \/ ComputeUtilisation(t)
  \/ StatusIsCurrent(t)
  \/ StatusDiffers(t)
  \/ UpdateStatus(t)
  \/ Commit(t)
  \/ Refuse(t)

Administer ==
  \/ \E u \in Engineers, m \in Managers : AssignManager(u, m)
  \/ \E p \in Projects, s \in ProjectStatuses, m \in Managers : UpdateProject(p, s, m)
  \/ \E u \in Engineers : DeactivateUser(u)
  \/ \E u \in Engineers : ReactivateUser(u)

Next ==
  \/ \E t \in Requests : Start(t)
  \/ BeginTick
  \/ \E t \in Transactions : Continue(t) \/ Rollback(t)
  \/ Administer
  \/ NextDay

Spec == Init /\ [][Next]_vars


-----------------------------------------------------------------------------
(***************************************************************************)
(* Properties.                                                             *)
(***************************************************************************)

\* Every variable holds what its column or field can hold.
TypeOK ==
  /\ today \in Days
  /\ users \in [Engineers -> [account_status : AccountStatuses, manager_id : Managers]]
  /\ projects \in [Projects -> [status : ProjectStatuses, manager_user_id : Managers]]
  /\ IsPartial(allocations, AllocationIds, Row)
  /\ resource_status \in [Engineers -> Status]
  /\ next_id \in 1 .. MaxAllocations + 1
  /\ seen \in [AllocationIds -> SUBSET AllocationIds]
  /\ DOMAIN tx = Transactions
  /\ \A t \in Transactions : IsTransaction(tx[t])

\* What the rules promise: on no day is an engineer allocated beyond the cap.
\* allocate_direct alone cannot keep it when two requests run at once.
UtilisationCap ==
  \A u \in Engineers, d \in Days :
    ComputeUtilisationOn(allocations, u, d) <= MaxUtilisationPercent

\* Neither row was there when the other one was validated.
Blind(i, j) == i # j /\ i \notin seen[j] /\ j \notin seen[i]

\* What allocate_direct does keep, however requests interleave: an engineer who is
\* over the cap holds two allocations whose requests ran at once, each validated
\* before the other was committed.  Requests that follow one another never do it,
\* and no end, deactivation, rollback or tick between them makes it possible.
OverbookedOnlyBlindly ==
  \A u \in Engineers, d \in Days :
    ComputeUtilisationOn(allocations, u, d) > MaxUtilisationPercent
      => \E i, j \in ActiveOn(allocations, u, d) : Blind(i, j)

\* Two versions of a row differ in nothing but how they end.
SameAllocation(row, other) ==
  row = [other EXCEPT !.status = row.status, !.to_date = row.to_date]

\* An allocation is a record that is only ever closed: no step removes a row,
\* reopens one or changes whom, where, how much or from when, although an end
\* and a deactivation may both update a row that the other has just ended.
AllocationsOnlyClose ==
  [][\A i \in DOMAIN allocations :
       /\ i \in DOMAIN allocations'
       /\ SameAllocation(allocations'[i], allocations[i])
       /\ allocations[i].status = "ENDED" => allocations'[i].status = "ENDED"]_allocations

\* t's next statement is an UPDATE of a row that s holds.
WaitsFor(t, s) ==
  \/ /\ tx[t].pc = "update_rows"
     /\ NextLoaded(t) \subseteq DOMAIN tx[s].rows
  \/ /\ tx[t].pc = "update_status"
     /\ First(tx[t].queue) \in DOMAIN tx[s].statuses

\* The row locks are always taken in an order that leaves somebody free to go on:
\* allocations before statuses, and each table by ascending id.
NoDeadlock ==
  \A S \in (SUBSET Transactions) \ {{}} :
    \E t \in S : \A s \in S \ {t} : ~WaitsFor(t, s)


-----------------------------------------------------------------------------
(***************************************************************************)
(* Under one request at a time.                                            *)
(***************************************************************************)

\* The ledger that the committed rows keep.  Every request is one step of it: an
\* allocation is granted within the cap, an end or a deactivation closes rows that
\* were active, and what a request does before its commit, or undoes, is no step.
Ledger == INSTANCE AllocationLedger WITH
  Ids <- AllocationIds, Rows <- Row, Dates <- Days, ledger <- allocations
KeepsLedger == Ledger!Spec

\* A deactivated employee holds no active allocation (BRD, deactivation rules).
\* Manage Users deactivates a login and keeps the allocations, so this is a
\* property of instances without that screen.
DeactivatedHoldNone ==
  \A u \in Engineers :
    users[u].account_status = "INACTIVE" => FindActiveByUser(allocations, u) = {}

\* end_by_id refuses a row that is not active, so an ended row keeps its dates.
EndedRowsAreFinal ==
  [][\A i \in DOMAIN allocations :
       allocations[i].status = "ENDED" => allocations'[i] = allocations[i]]_allocations

\* The stored work status is the one that goes with the stored utilisation.
WorkStatusAgrees ==
  \A u \in Engineers :
    resource_status[u] = StatusOf(resource_status[u].utilisation_percent)

-----------------------------------------------------------------------------
(***************************************************************************)
(* Liveness.                                                               *)
(***************************************************************************)

\* A running transaction goes on; PostgreSQL hands a row lock to those that wait
\* for it in turn; and APScheduler starts a tick at every interval.
Fairness ==
  /\ \A t \in Transactions :
       /\ WF_vars(Continue(t))
       /\ SF_vars(UpdateStatus(t))
       /\ SF_vars(\E id \in AllocationIds : EndRow(t, id))
  /\ WF_vars(BeginTick)

\* No request waits for ever, whatever locks the others and the scheduler take.
RequestsEnd == \A t \in Transactions : tx[t].pc # "idle" ~> tx[t].pc = "idle"

\* The stored utilisation of an active engineer may fall behind the allocations: a
\* request computes it for another day than today, or before another one commits,
\* or not at all, and a day passes.  The ticks always bring it back.
StatusCatchesUp ==
  \A u \in Engineers :
    []<>(\/ users[u].account_status = "INACTIVE"
         \/ resource_status[u] = StatusOf(ComputeUtilisationOn(allocations, u, today)))

=============================================================================
