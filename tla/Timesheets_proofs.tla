-------------------------- MODULE Timesheets_proofs --------------------------
(***************************************************************************)
(* What holds of Timesheets for every number of engineers, projects and    *)
(* submissions in flight, every calendar and every limit.                  *)
(***************************************************************************)
EXTENDS Timesheets, UtilisationCalculator_proofs

-----------------------------------------------------------------------------
(***************************************************************************)
(* Helpers.                                                                *)
(***************************************************************************)

\* The hours of a submission have a total.
LEMMA TotalHoursType ==
  ASSUME NEW hours, IsPartial(hours, Projects, Hours)
  PROVE  TotalHours(hours) \in Nat
<1> DEFINE Own(p) == {p} \X (1 .. hours[p])
           All == {Own(p) : p \in DOMAIN hours}
           f == [p \in DOMAIN hours |-> Own(p)]
<1>1. \A p \in DOMAIN hours : hours[p] \in Nat
  BY BoundsAssumption DEF IsPartial
<1>2. IsFiniteSet(DOMAIN hours)
  BY ProjectsAssumption, FS_Subset DEF IsPartial
<1>3. f \in Surjection(DOMAIN hours, All)
  BY DEF Surjection
<1>4. IsFiniteSet(All)
  <2> HIDE DEF All, f
  <2> QED
    BY <1>2, <1>3, FS_Surjection
<1>5. ASSUME NEW p \in DOMAIN hours PROVE IsFiniteSet(Own(p))
  <2>1. IsFiniteSet(1 .. hours[p])
    BY <1>1, FS_Interval
  <2>2. IsFiniteSet({p})
    BY FS_Singleton
  <2> QED
    BY <2>1, <2>2, FS_Product
<1>6. IsFiniteSet(UNION All)
  <2>1. \A T \in All : IsFiniteSet(T)
    BY <1>5
  <2> HIDE DEF All
  <2> QED
    BY <1>4, <2>1, FS_UNION
<1> QED
  BY <1>6, FS_CardinalityType DEF TotalHours

LEMMA IdleIsTransaction == IsTransaction(Idle)
<1>1. IsPartial(Empty, Projects, Hours) /\ IsPartial(Empty, WeekIds, Row)
  BY DEF IsPartial, Empty
<1>2. 1 \in Days
  BY CalendarAssumption DEF Days
<1> QED
  BY <1>1, <1>2 DEF IsTransaction, Idle

\* The id of a new row is one of the table's.
LEMMA FreeId ==
  ASSUME FreeIds # {}
  PROVE  First(FreeIds) \in WeekIds
<1>1. FreeIds \subseteq WeekIds /\ FreeIds \subseteq Nat
  BY BoundsAssumption DEF FreeIds, WeekIds
<1>2. \E i \in FreeIds : \A j \in FreeIds : i <= j
  BY <1>1, LeastExists
<1> QED
  BY <1>1, <1>2 DEF First

-----------------------------------------------------------------------------
(***************************************************************************)
(* The inductive invariant.                                                *)
(*                                                                         *)
(* FlaggedOnce speaks of committed rows alone.  A commit of the scheduler  *)
(* keeps it because the scheduler sees what it is about to commit beside   *)
(* what is committed (Visible), and among those rows a week is flagged     *)
(* once.  A commit of a request keeps both because requests insert nothing *)
(* but SUBMITTED rows.                                                     *)
(***************************************************************************)

\* In a table, an engineer's week is flagged once.
OnceIn(table) ==
  \A i, j \in DOMAIN table :
    /\ i # j
    /\ table[i].status = "MISSED"
    /\ table[j].status = "MISSED"
    => ~SameWeek(table[i], table[j])

\* No row of a table has more hours than a week may have.
LimitIn(table) == \A i \in DOMAIN table : table[i].total_hours <= MaxWeeklyHours

\* What a transaction works on is there.
Ready(x) ==
  /\ x.pc = "validate" => x.user \in Engineers /\ x.week \in WeekStarts
  /\ x.pc \in {"list_allocations", "find_week"} => x.queue # {}
  /\ x.pc = "find_week" => x.due # {}

\* What requests do, and what is left to the scheduler.
OwnRole(t, x) ==
  t \in Requests =>
    /\ x.pc \in {"idle", "validate", "commit"}
    /\ \A i \in DOMAIN x.rows : x.rows[i].status = "SUBMITTED"

Inv ==
  /\ TypeOK
  /\ \A t \in Transactions :
       Ready(tx[t]) /\ OwnRole(t, tx[t]) /\ LimitIn(tx[t].rows)
  /\ LimitIn(weeks)
  /\ OnceIn(weeks)
  /\ OnceIn(Visible(Scheduler))

-----------------------------------------------------------------------------
(***************************************************************************)
(* Steps.                                                                  *)
(***************************************************************************)

LEMMA InvInit == Init => Inv
<1> SUFFICES ASSUME Init PROVE Inv
  OBVIOUS
<1>1. TypeOK
  BY IdleIsTransaction, CalendarAssumption DEF Init, TypeOK, Days, IsPartial, Empty
<1>2. OnceIn(weeks) /\ LimitIn(weeks)
  BY DEF Init, OnceIn, LimitIn, Empty
<1>3. ASSUME NEW t \in Transactions
      PROVE  Ready(tx[t]) /\ OwnRole(t, tx[t]) /\ LimitIn(tx[t].rows)
  BY DEF Init, Ready, OwnRole, LimitIn, Idle, Empty
<1>4. OnceIn(Visible(Scheduler))
  BY DEF Init, Visible, OnceIn, Idle, Empty, Transactions
<1> QED
  BY <1>1, <1>2, <1>3, <1>4 DEF Inv

\* A step that moves one transaction on, and inserts no row, keeps the invariant.
LEMMA QuietStep ==
  ASSUME Inv, NEW t \in Transactions, NEW x, IsTransaction(x), Ready(x), OwnRole(t, x),
         x.rows = tx[t].rows \/ x.rows = Empty,
         tx' = [tx EXCEPT ![t] = x],
         UNCHANGED <<today, active_users, allocations, weeks>>
  PROVE  Inv'
<1>1. /\ DOMAIN tx' = Transactions
      /\ tx'[t] = x
      /\ \A s \in Transactions \ {t} : tx'[s] = tx[s]
  BY DEF Inv, TypeOK
<1>2. TypeOK'
  BY <1>1 DEF Inv, TypeOK, IsTransaction, IsPartial
<1>3. LimitIn(weeks)' /\ OnceIn(weeks)'
  BY DEF Inv, LimitIn, OnceIn
<1>4. ASSUME NEW s \in Transactions
      PROVE  (Ready(tx[s]) /\ OwnRole(s, tx[s]) /\ LimitIn(tx[s].rows))'
  BY <1>1 DEF Inv, Ready, OwnRole, LimitIn, Empty
<1>5. OnceIn(Visible(Scheduler))'
  <2>1. Scheduler \in Transactions
    BY DEF Transactions
  <2>2. CASE tx'[Scheduler].rows = tx[Scheduler].rows
    <3>1. Visible(Scheduler)' = Visible(Scheduler)
      BY <2>2 DEF Visible
    <3> QED
      BY <3>1 DEF Inv, OnceIn
  <2>3. CASE tx'[Scheduler].rows = Empty
    <3>1. Visible(Scheduler)' = [i \in DOMAIN weeks |-> weeks[i]]
      BY <2>3 DEF Visible, Empty
    <3>2. OnceIn([i \in DOMAIN weeks |-> weeks[i]])
      BY DEF Inv, OnceIn
    <3> QED
      BY <3>1, <3>2 DEF OnceIn
  <2> QED
    BY <1>1, <2>1, <2>2, <2>3
<1> QED
  BY <1>2, <1>3, <1>4, <1>5 DEF Inv

LEMMA BeginSubmitStep ==
  ASSUME Inv, NEW t \in Requests, NEW u \in Engineers, NEW w \in WeekStarts,
         NEW S \in SUBSET Projects, NEW hours \in [S -> Hours], BeginSubmit(t, u, w, hours)
  PROVE  Inv'
<1> DEFINE x == [Idle EXCEPT !.pc = "validate", !.user = u, !.week = w, !.hours = hours]
<1>1. t \in Transactions /\ w \in Days
  BY DEF Transactions, WeekStarts
<1>2. IsTransaction(x) /\ Ready(x) /\ OwnRole(t, x) /\ x.rows = Empty
  <2>1. IsPartial(hours, Projects, Hours)
    BY DEF IsPartial
  <2> QED
    BY <1>1, <2>1, IdleIsTransaction DEF IsTransaction, Ready, OwnRole, Idle, Empty
<1>3. tx' = [tx EXCEPT ![t] = x]
  BY DEF BeginSubmit
<1> HIDE DEF x
<1> QED
  BY <1>1, <1>2, <1>3, QuietStep DEF BeginSubmit

\* A refusal or a rollback.
LEMMA IdleStep ==
  ASSUME Inv, NEW t \in Transactions, tx' = [tx EXCEPT ![t] = Idle],
         UNCHANGED <<today, active_users, allocations, weeks>>
  PROVE  Inv'
<1>1. Ready(Idle) /\ OwnRole(t, Idle) /\ Idle.rows = Empty
  BY DEF Ready, OwnRole, Idle, Empty
<1> QED
  BY <1>1, IdleIsTransaction, QuietStep

LEMMA BeginTickStep ==
  ASSUME Inv, BeginTick
  PROVE  Inv'
<1> DEFINE x == [Idle EXCEPT !.pc = "list_engineers", !.as_of = today]
<1>1. Scheduler \in Transactions
  BY DEF Transactions
<1>2. IsTransaction(x) /\ Ready(x) /\ OwnRole(Scheduler, x) /\ x.rows = Empty
  <2>1. today \in Days
    BY DEF Inv, TypeOK
  <2> QED
    BY <2>1, IdleIsTransaction, SchedulerAssumption
    DEF IsTransaction, Ready, OwnRole, Idle, Empty
<1>3. tx' = [tx EXCEPT ![Scheduler] = x]
  BY DEF BeginTick
<1> HIDE DEF x
<1> QED
  BY <1>1, <1>2, <1>3, QuietStep DEF BeginTick

\* Only the scheduler flags.
LEMMA FlagsAlone ==
  ASSUME Inv, NEW t \in Transactions,
         tx[t].pc \in {"list_engineers", "list_allocations", "find_week"}
  PROVE  t = Scheduler /\ t \notin Requests
BY SchedulerAssumption DEF Inv, OwnRole, Transactions

\* The loop over the engineers goes on from a well-formed transaction to another one.
LEMMA FlaggingStep ==
  ASSUME NEW x, IsTransaction(x), NEW queue, queue \subseteq Engineers
  PROVE  /\ IsTransaction(Flagging(x, queue))
         /\ Ready(Flagging(x, queue))
         /\ Flagging(x, queue).rows = x.rows
BY DEF Flagging, IsTransaction, Ready, Idle

LEMMA ListEngineersStep ==
  ASSUME Inv, NEW t \in Transactions, ListEngineers(t)
  PROVE  Inv'
<1> DEFINE x == Flagging(tx[t], active_users)
<1>1. t \notin Requests
  BY FlagsAlone DEF ListEngineers
<1>2. IsTransaction(tx[t]) /\ active_users \subseteq Engineers
  BY DEF Inv, TypeOK
<1>3. IsTransaction(x) /\ Ready(x) /\ x.rows = tx[t].rows /\ OwnRole(t, x)
  BY <1>1, <1>2, FlaggingStep DEF OwnRole
<1>4. tx' = [tx EXCEPT ![t] = x]
  BY DEF ListEngineers
<1> HIDE DEF x
<1> QED
  BY <1>3, <1>4, QuietStep DEF ListEngineers

LEMMA ListAllocationsStep ==
  ASSUME Inv, NEW t \in Transactions, ListAllocations(t)
  PROVE  Inv'
<1> DEFINE user == First(tx[t].queue)
           due == DueWeeks(user, tx[t].as_of)
           x == IF due = {} THEN Flagging(tx[t], tx[t].queue \ {user})
                            ELSE [tx[t] EXCEPT !.pc = "find_week", !.due = due]
<1>1. t \notin Requests
  BY FlagsAlone DEF ListAllocations
<1>2. IsTransaction(tx[t]) /\ tx[t].queue \subseteq Engineers /\ tx[t].queue # {}
  BY DEF Inv, TypeOK, IsTransaction, Ready, ListAllocations
<1>3. due \subseteq WeekStarts
  BY DEF DueWeeks, Window
<1>4. tx' = [tx EXCEPT ![t] = x]
  BY DEF ListAllocations
<1> HIDE DEF due, user
<1>5. IsTransaction(x) /\ Ready(x) /\ x.rows = tx[t].rows
  <2>1. CASE due = {}
    BY <1>2, <2>1, FlaggingStep
  <2>2. CASE due # {}
    BY <1>2, <1>3, <2>2 DEF IsTransaction, Ready, Idle
  <2> QED
    BY <2>1, <2>2
<1>6. OwnRole(t, x)
  BY <1>1 DEF OwnRole
<1> HIDE DEF x
<1> QED
  BY <1>4, <1>5, <1>6, QuietStep DEF ListAllocations

\* What is left of a transaction that has dealt with a week.
LEMMA WithoutWeekStep ==
  ASSUME Inv, NEW t \in Transactions, NEW week, tx[t].pc = "find_week"
  PROVE  /\ IsTransaction(WithoutWeek(t, week))
         /\ Ready(WithoutWeek(t, week))
         /\ OwnRole(t, WithoutWeek(t, week))
         /\ WithoutWeek(t, week).rows = tx[t].rows
<1>1. t \notin Requests
  BY FlagsAlone
<1>2. IsTransaction(tx[t]) /\ Ready(tx[t]) /\ tx[t].queue \subseteq Engineers
  BY DEF Inv, TypeOK, IsTransaction
<1>3. CASE tx[t].due = {week}
  BY <1>1, <1>2, <1>3, FlaggingStep DEF WithoutWeek, OwnRole
<1>4. CASE tx[t].due # {week}
  <2>1. tx[t].due \ {week} # {}
    BY <1>2, <1>4 DEF Ready
  <2> QED
    BY <1>1, <1>2, <1>4, <2>1 DEF WithoutWeek, IsTransaction, Ready, OwnRole, Idle
<1> QED
  BY <1>3, <1>4

LEMMA FindWeekStep ==
  ASSUME Inv, NEW t \in Transactions, FindWeek(t)
  PROVE  Inv'
<1> DEFINE x == WithoutWeek(t, Latest(tx[t].due))
<1>1. IsTransaction(x) /\ Ready(x) /\ OwnRole(t, x) /\ x.rows = tx[t].rows
  BY WithoutWeekStep DEF FindWeek
<1>2. tx' = [tx EXCEPT ![t] = x]
  BY DEF FindWeek
<1> HIDE DEF x
<1> QED
  BY <1>1, <1>2, QuietStep DEF FindWeek

\* An INSERT keeps the invariant if a MISSED row is the scheduler's, and is for a week
\* of which it sees no row.
LEMMA InsertStep ==
  ASSUME Inv, NEW t \in Transactions, NEW row \in Row, row.total_hours <= MaxWeeklyHours,
         NEW after, IsTransaction(after), Ready(after), OwnRole(t, after),
         Insert(t, row, after),
         \/ row.status = "SUBMITTED" /\ after.rows = Empty
         \/ /\ row.status = "MISSED" /\ t \notin Requests /\ after.rows = tx[t].rows
            /\ ~HasWeek(Visible(t), row.user_id, row.week_start_date),
         UNCHANGED <<today, active_users, allocations, weeks>>
  PROVE  Inv'
<1> DEFINE id == First(FreeIds)
           rows == [i \in DOMAIN after.rows \cup {id} |-> IF i = id THEN row ELSE after.rows[i]]
           x == [after EXCEPT !.rows = rows]
<1>1. id \in WeekIds
  BY FreeId DEF Insert
<1>2. tx' = [tx EXCEPT ![t] = x]
  BY DEF Insert
<1>3. "rows" \in DOMAIN after
  BY DEF IsTransaction, Idle
<1> HIDE DEF id
<1>4. IsPartial(rows, WeekIds, Row) /\ LimitIn(rows)
  <2>1. IsPartial(after.rows, WeekIds, Row)
    BY DEF IsTransaction
  <2>2. LimitIn(after.rows)
    BY DEF Inv, LimitIn, Empty
  <2> QED
    BY <1>1, <2>1, <2>2 DEF IsPartial, LimitIn
<1>5. OwnRole(t, x)
  BY <1>3 DEF OwnRole
<1> HIDE DEF rows
<1>6. x.rows = rows /\ IsTransaction(x) /\ Ready(x)
  BY <1>3, <1>4 DEF IsTransaction, Ready, Idle
<1> HIDE DEF x
<1>7. /\ DOMAIN tx' = Transactions
      /\ tx'[t] = x
      /\ \A s \in Transactions \ {t} : tx'[s] = tx[s]
  BY <1>2 DEF Inv, TypeOK
<1>8. TypeOK'
  BY <1>6, <1>7 DEF Inv, TypeOK, IsTransaction, IsPartial
<1>9. LimitIn(weeks)' /\ OnceIn(weeks)'
  BY DEF Inv, LimitIn, OnceIn
<1>10. ASSUME NEW s \in Transactions
       PROVE  (Ready(tx[s]) /\ OwnRole(s, tx[s]) /\ LimitIn(tx[s].rows))'
  BY <1>4, <1>5, <1>6, <1>7 DEF Inv, Ready, OwnRole, LimitIn
<1>11. OnceIn(Visible(Scheduler))'
  <2>1. Scheduler \in Transactions
    BY DEF Transactions
  <2>2. CASE t # Scheduler
    <3>1. Visible(Scheduler)' = Visible(Scheduler)
      BY <1>7, <2>1, <2>2 DEF Visible
    <3> QED
      BY <3>1 DEF Inv, OnceIn
  <2>3. CASE t = Scheduler
    <3> DEFINE before == [i \in DOMAIN weeks \cup DOMAIN after.rows |->
                            IF i \in DOMAIN after.rows THEN after.rows[i] ELSE weeks[i]]
               then == [i \in DOMAIN before \cup {id} |-> IF i = id THEN row ELSE before[i]]
    <3>1. Visible(Scheduler)' = then
      BY <1>6, <1>7, <2>3 DEF Visible, rows
    <3>2. OnceIn(before)
      <4>1. CASE after.rows = Empty
        BY <4>1 DEF Inv, OnceIn, Empty
      <4>2. CASE after.rows = tx[t].rows
        BY <2>3, <4>2 DEF Inv, Visible
      <4> QED
        BY <4>1, <4>2
    <3>3. row.status = "MISSED" =>
            \A i \in DOMAIN before : ~SameWeek(row, before[i]) /\ ~SameWeek(before[i], row)
      <4>1. row.status = "MISSED" => before = Visible(t)
        BY DEF Visible
      <4> HIDE DEF before
      <4> QED
        BY <4>1 DEF HasWeek, SameWeek
    <3> HIDE DEF before
    <3>4. OnceIn(then)
      BY <3>2, <3>3 DEF OnceIn
    <3> HIDE DEF then
    <3> QED
      BY <3>1, <3>4 DEF OnceIn
  <2> QED
    BY <2>2, <2>3
<1> QED
  BY <1>8, <1>9, <1>10, <1>11 DEF Inv

LEMMA ValidateAndInsertStep ==
  ASSUME Inv, NEW t \in Transactions, ValidateAndInsert(t)
  PROVE  Inv'
<1> DEFINE total == TotalHours(tx[t].hours)
           row == [user_id |-> tx[t].user, week_start_date |-> tx[t].week,
                   status |-> "SUBMITTED", total_hours |-> total]
           after == [Idle EXCEPT !.pc = "commit"]
<1>1. IsTransaction(tx[t]) /\ Ready(tx[t])
  BY DEF Inv, TypeOK
<1>2. total \in Nat /\ total <= MaxWeeklyHours
  BY <1>1, TotalHoursType DEF IsTransaction, ValidateAndInsert, Accepts
<1>3. Insert(t, row, after)
  BY DEF ValidateAndInsert
<1> HIDE DEF total
<1>4. row \in Row /\ row.total_hours <= MaxWeeklyHours /\ row.status = "SUBMITTED"
  BY <1>1, <1>2 DEF Row, Ready, ValidateAndInsert
<1>5. IsTransaction(after) /\ Ready(after) /\ OwnRole(t, after) /\ after.rows = Empty
  BY IdleIsTransaction DEF IsTransaction, Ready, OwnRole, Idle, Empty
<1> HIDE DEF row, after
<1> QED
  BY <1>3, <1>4, <1>5, InsertStep DEF ValidateAndInsert

LEMMA CreateMissedWeekStep ==
  ASSUME Inv, NEW t \in Transactions, CreateMissedWeek(t)
  PROVE  Inv'
<1> DEFINE user == First(tx[t].queue)
           week == Latest(tx[t].due)
           row == [user_id |-> user, week_start_date |-> week,
                   status |-> "MISSED", total_hours |-> 0]
           after == WithoutWeek(t, week)
<1>1. tx[t].queue \subseteq Engineers /\ tx[t].due \subseteq WeekStarts /\ Ready(tx[t])
  BY DEF Inv, TypeOK, IsTransaction
<1>2. user \in Engineers
  <2>1. \E i \in tx[t].queue : \A j \in tx[t].queue : i <= j
    BY <1>1, EngineersAssumption, LeastExists DEF Ready, CreateMissedWeek
  <2> QED
    BY <1>1, <2>1 DEF First
<1>3. week \in WeekStarts
  <2>1. LastDay \in Nat /\ tx[t].due \subseteq 1 .. LastDay /\ tx[t].due # {}
    BY <1>1, CalendarAssumption DEF WeekStarts, Days, Ready, CreateMissedWeek
  <2>2. \E i \in tx[t].due : \A j \in tx[t].due : j <= i
    BY <2>1, GreatestExists
  <2> QED
    BY <1>1, <2>2 DEF Latest
<1>4. t \notin Requests
  BY FlagsAlone DEF CreateMissedWeek
<1>5. IsTransaction(after) /\ Ready(after) /\ OwnRole(t, after) /\ after.rows = tx[t].rows
  BY WithoutWeekStep DEF CreateMissedWeek
<1>6. Insert(t, row, after) /\ ~HasWeek(Visible(t), user, week)
  BY DEF CreateMissedWeek, WeekExists
<1> HIDE DEF user, week, after
<1>7. /\ row \in Row
      /\ row.total_hours <= MaxWeeklyHours
      /\ row.status = "MISSED"
      /\ row.user_id = user
      /\ row.week_start_date = week
  BY <1>2, <1>3, BoundsAssumption DEF Row
<1> HIDE DEF row
<1> QED
  BY <1>4, <1>5, <1>6, <1>7, InsertStep DEF CreateMissedWeek

LEMMA CommitStep ==
  ASSUME Inv, NEW t \in Transactions, Commit(t)
  PROVE  Inv'
<1>1. /\ DOMAIN tx' = Transactions
      /\ tx'[t] = Idle
      /\ \A s \in Transactions \ {t} : tx'[s] = tx[s]
  BY DEF Inv, TypeOK, Commit
<1>2. weeks' = Visible(t)
  BY DEF Commit
<1>3. IsPartial(weeks', WeekIds, Row) /\ LimitIn(weeks')
  <2>1. /\ IsPartial(weeks, WeekIds, Row) /\ IsPartial(tx[t].rows, WeekIds, Row)
        /\ LimitIn(weeks) /\ LimitIn(tx[t].rows)
    BY DEF Inv, TypeOK, IsTransaction
  <2> QED
    BY <1>2, <2>1 DEF Visible, IsPartial, LimitIn
<1>4. TypeOK'
  BY <1>1, <1>3, IdleIsTransaction DEF Inv, TypeOK, Commit, IsTransaction, IsPartial
<1>5. ASSUME NEW s \in Transactions
      PROVE  (Ready(tx[s]) /\ OwnRole(s, tx[s]) /\ LimitIn(tx[s].rows))'
  <2>1. Ready(Idle) /\ OwnRole(s, Idle) /\ LimitIn(Idle.rows)
    BY DEF Ready, OwnRole, LimitIn, Idle, Empty
  <2> QED
    BY <1>1, <2>1 DEF Inv, Ready, OwnRole, LimitIn
<1>6. OnceIn(weeks') /\ OnceIn(Visible(Scheduler)')
  <2>1. Scheduler \in Transactions
    BY DEF Transactions
  <2>2. CASE t = Scheduler
    <3>1. OnceIn(weeks')
      BY <1>2, <2>2 DEF Inv
    <3> DEFINE table == Visible(Scheduler)'
    <3>2. DOMAIN table = DOMAIN weeks' /\ \A i \in DOMAIN weeks' : table[i] = weeks'[i]
      <4>1. tx'[Scheduler].rows = Empty
        BY <1>1, <2>2 DEF Idle
      <4> QED
        BY <4>1 DEF Visible, Empty
    <3> HIDE DEF table
    <3>3. OnceIn(table)
      BY <3>1, <3>2 DEF OnceIn
    <3> QED
      BY <3>1, <3>3 DEF table
  <2>3. CASE t # Scheduler
    <3>1. t \in Requests
      BY <2>3 DEF Transactions
    <3>2. \A i \in DOMAIN tx[t].rows : tx[t].rows[i].status = "SUBMITTED"
      BY <3>1 DEF Inv, OwnRole
    <3>3. \A i \in DOMAIN weeks' : weeks'[i].status = "MISSED" =>
            i \in DOMAIN weeks /\ weeks'[i] = weeks[i]
      BY <1>2, <3>2 DEF Visible
    <3>4. OnceIn(weeks')
      BY <3>3 DEF Inv, OnceIn
    <3>5. tx'[Scheduler] = tx[Scheduler]
      BY <1>1, <2>1, <2>3
    <3>6. \A i \in DOMAIN Visible(Scheduler)' : Visible(Scheduler)'[i].status = "MISSED" =>
            i \in DOMAIN Visible(Scheduler) /\ Visible(Scheduler)'[i] = Visible(Scheduler)[i]
      BY <3>3, <3>5 DEF Visible
    <3>7. OnceIn(Visible(Scheduler)')
      BY <3>6 DEF Inv, OnceIn
    <3> QED
      BY <3>4, <3>7
  <2> QED
    BY <2>2, <2>3
<1> QED
  BY <1>3, <1>4, <1>5, <1>6 DEF Inv, LimitIn, OnceIn

\* What managers, administrators and the calendar do leaves weeks and transactions alone.
LEMMA ManageStep ==
  ASSUME Inv, Manage \/ NextDay \/ UNCHANGED vars
  PROVE  Inv'
<1>1. UNCHANGED <<weeks, tx>>
  BY DEF Manage, NextDay, Allocate, EndAllocation, DeactivateEmployee, DeactivateUser,
      ReactivateUser, vars
<1>2. today' \in Days /\ active_users' \subseteq Engineers
  <2>1. today \in Days /\ active_users \subseteq Engineers
    BY DEF Inv, TypeOK
  <2>2. CASE Manage
    BY <2>1, <2>2 DEF Manage, Allocate, EndAllocation, DeactivateEmployee, DeactivateUser,
        ReactivateUser
  <2>3. CASE NextDay
    BY <2>1, <2>3, CalendarAssumption DEF NextDay, Days
  <2>4. CASE UNCHANGED vars
    BY <2>1, <2>4 DEF vars
  <2> QED
    BY <2>2, <2>3, <2>4
<1>3. TypeOK'
  BY <1>1, <1>2 DEF Inv, TypeOK, IsTransaction, IsPartial
<1>4. Visible(Scheduler)' = Visible(Scheduler)
  BY <1>1 DEF Visible
<1>5. OnceIn(weeks)' /\ LimitIn(weeks)'
  BY <1>1 DEF Inv, OnceIn, LimitIn
<1>6. OnceIn(Visible(Scheduler))'
  BY <1>4 DEF Inv, OnceIn
<1>7. ASSUME NEW t \in Transactions
      PROVE  (Ready(tx[t]) /\ OwnRole(t, tx[t]) /\ LimitIn(tx[t].rows))'
  BY <1>1 DEF Inv, Ready, OwnRole, LimitIn
<1> QED
  BY <1>3, <1>5, <1>6, <1>7 DEF Inv

LEMMA InvNext == Inv /\ [Next]_vars => Inv'
<1> SUFFICES ASSUME Inv, [Next]_vars PROVE Inv'
  OBVIOUS
<1>1. ASSUME NEW t \in Requests, Submit(t) PROVE Inv'
  BY <1>1, BeginSubmitStep DEF Submit
<1>2. ASSUME NEW t \in Transactions, Rollback(t) \/ Refuse(t) PROVE Inv'
  BY <1>2, IdleStep DEF Rollback, Refuse
<1>3. ASSUME NEW t \in Transactions, Continue(t) PROVE Inv'
  BY <1>2, <1>3, ValidateAndInsertStep, ListEngineersStep, ListAllocationsStep,
     FindWeekStep, CreateMissedWeekStep, CommitStep
  DEF Continue
<1>4. CASE BeginTick
  BY <1>4, BeginTickStep
<1>5. CASE Manage \/ NextDay \/ UNCHANGED vars
  BY <1>5, ManageStep
<1> QED
  BY <1>1, <1>2, <1>3, <1>4, <1>5 DEF Next, Transactions

THEOREM Invariance == Spec => []Inv
BY InvInit, InvNext, PTL DEF Spec

-----------------------------------------------------------------------------
(***************************************************************************)
(* How often a week is submitted.                                          *)
(*                                                                         *)
(* The duplicate check reads committed rows alone, so what bounds the      *)
(* submissions of a week is who got past the check while none was          *)
(* committed.  Every stored submission of a week has used up one of those  *)
(* requests, and none joins them once a row is there: stored submissions   *)
(* and the requests still under way for the week are together never more   *)
(* than the requests there are.                                            *)
(***************************************************************************)

\* The stored submissions of a week.
Submitted(u, w) ==
  {i \in DOMAIN weeks : /\ weeks[i].user_id = u
                        /\ weeks[i].week_start_date = w
                        /\ weeks[i].status = "SUBMITTED"}

\* A transaction that is past the duplicate check for a week, its row inserted or not.
UnderWay(x, u, w) ==
  \/ x.pc = "validate" /\ x.user = u /\ x.week = w
  \/ \E i \in DOMAIN x.rows : x.rows[i].user_id = u /\ x.rows[i].week_start_date = w

InFlight(u, w) == {t \in Requests : UnderWay(tx[t], u, w)}

Budget ==
  \A u \in Engineers, w \in WeekStarts :
    Cardinality(Submitted(u, w)) + Cardinality(InFlight(u, w)) <= Cardinality(Requests)

\* A request inserts one row, and the scheduler none that is submitted.
OneRowEach ==
  /\ \A t \in Requests : \A i, j \in DOMAIN tx[t].rows : i = j
  /\ tx[Scheduler].pc # "validate"
  /\ \A i \in DOMAIN tx[Scheduler].rows : tx[Scheduler].rows[i].status = "MISSED"

\* What may have been submitted, and who is submitting, can be counted.
LEMMA BudgetIsFinite ==
  ASSUME Inv, NEW u, NEW w
  PROVE  IsFiniteSet(Submitted(u, w)) /\ IsFiniteSet(InFlight(u, w))
<1>1. IsFiniteSet(WeekIds)
  BY BoundsAssumption, FS_Interval DEF WeekIds
<1>2. Submitted(u, w) \subseteq WeekIds
  BY DEF Submitted, Inv, TypeOK, IsPartial
<1>3. InFlight(u, w) \subseteq Requests
  BY DEF InFlight
<1> QED
  BY <1>1, <1>2, <1>3, RequestsAssumption, FS_Subset

LEMMA BudgetInit == Init => OneRowEach /\ Budget
<1> SUFFICES ASSUME Init PROVE OneRowEach /\ Budget
  OBVIOUS
<1>1. OneRowEach
  BY DEF Init, OneRowEach, Idle, Empty, Transactions
<1>2. ASSUME NEW u \in Engineers, NEW w \in WeekStarts
      PROVE  Submitted(u, w) = {} /\ InFlight(u, w) = {}
  BY DEF Init, Submitted, InFlight, UnderWay, Idle, Empty, Transactions
<1>3. Cardinality({}) = 0 /\ 0 <= Cardinality(Requests)
  BY RequestsAssumption, FS_EmptySet, FS_CardinalityType
<1> QED
  BY <1>1, <1>2, <1>3 DEF Budget

\* A step of one transaction that leaves it with rows of its own kind.
LEMMA OneRowEachStep ==
  ASSUME Inv, OneRowEach, NEW t \in Transactions, NEW x, tx' = [tx EXCEPT ![t] = x],
         t \in Requests => \A i, j \in DOMAIN x.rows : i = j,
         t \notin Requests => /\ x.pc # "validate"
                              /\ \A i \in DOMAIN x.rows : x.rows[i].status = "MISSED"
  PROVE  OneRowEach'
<1>1. /\ tx'[t] = x
      /\ \A s \in Transactions \ {t} : tx'[s] = tx[s]
  BY DEF Inv, TypeOK
<1>2. ASSUME NEW s \in Requests PROVE \A i, j \in DOMAIN tx'[s].rows : i = j
  BY <1>1 DEF OneRowEach, Transactions
<1>3. /\ tx'[Scheduler].pc # "validate"
      /\ \A i \in DOMAIN tx'[Scheduler].rows : tx'[Scheduler].rows[i].status = "MISSED"
  BY <1>1, SchedulerAssumption DEF OneRowEach, Transactions
<1> QED
  BY <1>2, <1>3 DEF OneRowEach

\* The scheduler's steps through its weeks, which insert nothing or a MISSED row.
LEMMA OneRowEachFlags ==
  ASSUME Inv, OneRowEach, NEW t \in Transactions,
         ListEngineers(t) \/ ListAllocations(t) \/ FindWeek(t) \/ CreateMissedWeek(t)
  PROVE  OneRowEach'
<1>1. t = Scheduler /\ t \notin Requests
  BY FlagsAlone DEF ListEngineers, ListAllocations, FindWeek, CreateMissedWeek
<1>2. /\ IsTransaction(tx[t])
      /\ active_users \subseteq Engineers
      /\ \A i \in DOMAIN tx[t].rows : tx[t].rows[i].status = "MISSED"
  BY <1>1 DEF Inv, TypeOK, OneRowEach
<1>3. CASE ListEngineers(t)
  <2> DEFINE x == Flagging(tx[t], active_users)
  <2>1. x.pc # "validate" /\ x.rows = tx[t].rows
    BY <1>2 DEF Flagging, IsTransaction, Idle
  <2>2. tx' = [tx EXCEPT ![t] = x]
    BY <1>3 DEF ListEngineers
  <2> HIDE DEF x
  <2> QED
    BY <1>1, <1>2, <2>1, <2>2, OneRowEachStep
<1>4. CASE ListAllocations(t)
  <2> DEFINE user == First(tx[t].queue)
             due == DueWeeks(user, tx[t].as_of)
             x == IF due = {} THEN Flagging(tx[t], tx[t].queue \ {user})
                              ELSE [tx[t] EXCEPT !.pc = "find_week", !.due = due]
  <2>1. tx' = [tx EXCEPT ![t] = x]
    BY <1>4 DEF ListAllocations
  <2> HIDE DEF due, user
  <2>2. x.pc # "validate" /\ x.rows = tx[t].rows
    BY <1>2 DEF Flagging, IsTransaction, Idle
  <2> HIDE DEF x
  <2> QED
    BY <1>1, <1>2, <2>1, <2>2, OneRowEachStep
<1>5. ASSUME NEW week, tx[t].pc = "find_week"
      PROVE  WithoutWeek(t, week).pc # "validate" /\ WithoutWeek(t, week).rows = tx[t].rows
  BY <1>2, <1>5 DEF WithoutWeek, Flagging, IsTransaction, Idle
<1>6. CASE FindWeek(t)
  <2> DEFINE x == WithoutWeek(t, Latest(tx[t].due))
  <2>1. x.pc # "validate" /\ x.rows = tx[t].rows
    BY <1>5, <1>6 DEF FindWeek
  <2>2. tx' = [tx EXCEPT ![t] = x]
    BY <1>6 DEF FindWeek
  <2> HIDE DEF x
  <2> QED
    BY <1>1, <1>2, <2>1, <2>2, OneRowEachStep
<1>7. CASE CreateMissedWeek(t)
  <2> DEFINE week == Latest(tx[t].due)
             row == [user_id |-> First(tx[t].queue), week_start_date |-> week,
                     status |-> "MISSED", total_hours |-> 0]
             after == WithoutWeek(t, week)
             id == First(FreeIds)
             rows == [i \in DOMAIN after.rows \cup {id} |->
                        IF i = id THEN row ELSE after.rows[i]]
             x == [after EXCEPT !.rows = rows]
  <2>1. after.pc # "validate" /\ after.rows = tx[t].rows
    BY <1>5, <1>7 DEF CreateMissedWeek
  <2>2. "pc" \in DOMAIN after /\ "rows" \in DOMAIN after
    BY <1>7, WithoutWeekStep DEF CreateMissedWeek, IsTransaction, Idle
  <2>3. tx' = [tx EXCEPT ![t] = x]
    BY <1>7 DEF CreateMissedWeek, Insert
  <2> HIDE DEF after, id, week
  <2>4. \A i \in DOMAIN rows : rows[i].status = "MISSED"
    BY <1>2, <2>1
  <2> HIDE DEF rows
  <2>5. x.pc # "validate" /\ x.rows = rows
    BY <2>1, <2>2
  <2> HIDE DEF x
  <2> QED
    BY <1>1, <2>3, <2>4, <2>5, OneRowEachStep
<1> QED
  BY <1>3, <1>4, <1>6, <1>7

LEMMA OneRowEachNext == Inv /\ OneRowEach /\ [Next]_vars => OneRowEach'
<1> SUFFICES ASSUME Inv, OneRowEach, [Next]_vars PROVE OneRowEach'
  OBVIOUS
<1>1. \A t \in Requests : t \in Transactions
  BY DEF Transactions
<1>2. ASSUME NEW t \in Requests, NEW u \in Engineers, NEW w \in WeekStarts, NEW hours,
             BeginSubmit(t, u, w, hours)
      PROVE  OneRowEach'
  <2> DEFINE x == [Idle EXCEPT !.pc = "validate", !.user = u, !.week = w, !.hours = hours]
  <2>1. tx' = [tx EXCEPT ![t] = x]
    BY <1>2 DEF BeginSubmit
  <2>2. x.rows = Empty
    BY DEF Idle
  <2> HIDE DEF x
  <2> QED
    BY <1>1, <2>1, <2>2, OneRowEachStep DEF Empty
<1>3. ASSUME NEW t \in Transactions, tx' = [tx EXCEPT ![t] = Idle] PROVE OneRowEach'
  BY <1>3, OneRowEachStep DEF Idle, Empty
<1>4. ASSUME NEW t \in Transactions, Refuse(t) \/ Rollback(t) \/ Commit(t) PROVE OneRowEach'
  BY <1>3, <1>4 DEF Refuse, Rollback, Commit
<1>5. CASE BeginTick
  <2> DEFINE x == [Idle EXCEPT !.pc = "list_engineers", !.as_of = today]
  <2>1. tx' = [tx EXCEPT ![Scheduler] = x]
    BY <1>5 DEF BeginTick
  <2>2. x.pc # "validate" /\ x.rows = Empty /\ Scheduler \in Transactions
    BY DEF Idle, Transactions
  <2> HIDE DEF x
  <2> QED
    BY <2>1, <2>2, OneRowEachStep, SchedulerAssumption DEF Empty
<1>6. ASSUME NEW t \in Transactions, ValidateAndInsert(t) PROVE OneRowEach'
  <2>1. t \in Requests
    BY <1>6 DEF ValidateAndInsert, OneRowEach, Transactions
  <2> DEFINE row == [user_id |-> tx[t].user, week_start_date |-> tx[t].week,
                     status |-> "SUBMITTED", total_hours |-> TotalHours(tx[t].hours)]
             id == First(FreeIds)
             rows == [i \in DOMAIN Empty \cup {id} |-> IF i = id THEN row ELSE Empty[i]]
             x == [Idle EXCEPT !.pc = "commit", !.rows = rows]
  <2>2. tx' = [tx EXCEPT ![t] = x]
    BY <1>6 DEF ValidateAndInsert, Insert, Idle
  <2> HIDE DEF row, id
  <2>3. \A i, j \in DOMAIN rows : i = j
    BY DEF Empty
  <2> HIDE DEF rows
  <2>4. x.rows = rows
    BY DEF Idle
  <2> HIDE DEF x
  <2> QED
    BY <1>1, <2>1, <2>2, <2>3, <2>4, OneRowEachStep
<1>7. CASE Manage \/ NextDay \/ UNCHANGED vars
  BY <1>7 DEF Manage, NextDay, Allocate, EndAllocation, DeactivateEmployee, DeactivateUser,
      ReactivateUser, vars, OneRowEach
<1>8. ASSUME NEW t \in Transactions, Continue(t) PROVE OneRowEach'
  BY <1>4, <1>6, <1>8, OneRowEachFlags DEF Continue
<1> QED
  BY <1>1, <1>2, <1>4, <1>5, <1>7, <1>8 DEF Next, Submit, Transactions

\* Fewer submissions or fewer requests under way do no harm.
LEMMA BudgetShrinks ==
  ASSUME Inv, Inv', NEW u \in Engineers, NEW w \in WeekStarts,
         Cardinality(Submitted(u, w)) + Cardinality(InFlight(u, w)) <= Cardinality(Requests),
         Submitted(u, w)' \subseteq Submitted(u, w),
         InFlight(u, w)' \subseteq InFlight(u, w)
  PROVE  Cardinality(Submitted(u, w)') + Cardinality(InFlight(u, w)') <= Cardinality(Requests)
<1> DEFINE S == Submitted(u, w)
           F == InFlight(u, w)
           S2 == Submitted(u, w)'
           F2 == InFlight(u, w)'
<1>1. IsFiniteSet(S) /\ IsFiniteSet(F)
  BY BudgetIsFinite
<1> HIDE DEF S, F, S2, F2
<1>2. S2 \subseteq S /\ F2 \subseteq F
  BY DEF S, F, S2, F2
<1>3. IsFiniteSet(S2) /\ IsFiniteSet(F2)
  BY <1>1, <1>2, FS_Subset
<1>4. Cardinality(S2) <= Cardinality(S) /\ Cardinality(F2) <= Cardinality(F)
  BY <1>1, <1>2, FS_Subset
<1>5. /\ Cardinality(S) \in Nat /\ Cardinality(F) \in Nat
      /\ Cardinality(S2) \in Nat /\ Cardinality(F2) \in Nat
      /\ Cardinality(Requests) \in Nat
  BY <1>1, <1>3, RequestsAssumption, FS_CardinalityType
<1>6. Cardinality(S) + Cardinality(F) <= Cardinality(Requests)
  BY DEF S, F
<1>7. Cardinality(S2) + Cardinality(F2) <= Cardinality(Requests)
  BY <1>4, <1>5, <1>6
<1> QED
  BY <1>7 DEF S2, F2

\* A step of one transaction, before its commit, that is about no other week than the
\* transaction was about already.
LEMMA BudgetStep ==
  ASSUME Inv, Inv', Budget, NEW t \in Transactions, NEW x, tx' = [tx EXCEPT ![t] = x],
         UNCHANGED weeks,
         \A u \in Engineers, w \in WeekStarts :
           t \in Requests /\ UnderWay(x, u, w) => UnderWay(tx[t], u, w)
  PROVE  Budget'
<1>1. /\ tx'[t] = x
      /\ \A s \in Transactions \ {t} : tx'[s] = tx[s]
  BY DEF Inv, TypeOK
<1>2. ASSUME NEW u \in Engineers, NEW w \in WeekStarts
      PROVE  /\ Submitted(u, w)' = Submitted(u, w)
             /\ InFlight(u, w)' \subseteq InFlight(u, w)
  <2>1. Submitted(u, w)' = Submitted(u, w)
    BY DEF Submitted
  <2>2. ASSUME NEW s \in Requests, UnderWay(tx'[s], u, w) PROVE UnderWay(tx[s], u, w)
    BY <1>1, <2>2 DEF Transactions
  <2>3. \A s \in Requests : UnderWay(tx[s], u, w)' = UnderWay(tx'[s], u, w)
    BY DEF UnderWay
  <2> QED
    BY <2>1, <2>2, <2>3 DEF InFlight
<1> QED
  BY <1>2, BudgetShrinks DEF Budget

\* Nobody gets past the duplicate check of a week that has a row.
LEMMA BudgetBeginSubmit ==
  ASSUME Inv, Inv', Budget, NEW t \in Requests, NEW user \in Engineers,
         NEW week \in WeekStarts, NEW hours, BeginSubmit(t, user, week, hours)
  PROVE  Budget'
<1> SUFFICES ASSUME NEW u \in Engineers, NEW w \in WeekStarts
             PROVE  Cardinality(Submitted(u, w)') + Cardinality(InFlight(u, w)')
                      <= Cardinality(Requests)
  BY DEF Budget
<1> DEFINE x == [Idle EXCEPT !.pc = "validate", !.user = user, !.week = week, !.hours = hours]
<1>1. tx' = [tx EXCEPT ![t] = x] /\ UNCHANGED weeks /\ NoDuplicateWeek(user, week)
  BY DEF BeginSubmit
<1>2. x.pc = "validate" /\ x.user = user /\ x.week = week /\ x.rows = Empty
  BY DEF Idle
<1> HIDE DEF x
<1>3. /\ tx'[t] = x
      /\ \A s \in Transactions \ {t} : tx'[s] = tx[s]
  BY <1>1 DEF Inv, TypeOK, Transactions
<1>4. Submitted(u, w)' = Submitted(u, w)
  BY <1>1 DEF Submitted
<1>5. CASE u = user /\ w = week
  <2>1. Submitted(u, w) = {}
    BY <1>1, <1>5 DEF NoDuplicateWeek, HasWeek, Submitted
  <2>2. Cardinality(Submitted(u, w)') = 0
    BY <1>4, <2>1, FS_EmptySet
  <2>3. InFlight(u, w)' \subseteq Requests
    BY DEF InFlight
  <2>4. Cardinality(InFlight(u, w)') <= Cardinality(Requests)
    BY <2>3, RequestsAssumption, FS_Subset
  <2>5. Cardinality(InFlight(u, w)') \in Nat
    BY <2>3, RequestsAssumption, FS_Subset, FS_CardinalityType
  <2> QED
    BY <2>2, <2>4, <2>5
<1>6. CASE ~(u = user /\ w = week)
  <2>1. ~UnderWay(x, u, w)
    BY <1>2, <1>6 DEF UnderWay, Empty
  <2>2. \A s \in Requests : UnderWay(tx[s], u, w)' = UnderWay(tx'[s], u, w)
    BY DEF UnderWay
  <2>3. InFlight(u, w)' \subseteq InFlight(u, w)
    BY <1>3, <2>1, <2>2 DEF InFlight, Transactions
  <2> QED
    BY <1>4, <2>3, BudgetShrinks DEF Budget
<1> QED
  BY <1>5, <1>6

\* A commit turns a request under way into a stored submission.
LEMMA BudgetCommit ==
  ASSUME Inv, Inv', OneRowEach, Budget, NEW t \in Transactions, Commit(t)
  PROVE  Budget'
<1> SUFFICES ASSUME NEW u \in Engineers, NEW w \in WeekStarts
             PROVE  Cardinality(Submitted(u, w)') + Cardinality(InFlight(u, w)')
                      <= Cardinality(Requests)
  BY DEF Budget
<1> DEFINE rows == tx[t].rows
           mine == {i \in DOMAIN rows : /\ rows[i].user_id = u
                                        /\ rows[i].week_start_date = w
                                        /\ rows[i].status = "SUBMITTED"}
<1>1. /\ tx'[t] = Idle
      /\ \A s \in Transactions \ {t} : tx'[s] = tx[s]
  BY DEF Inv, TypeOK, Commit
<1>2. Submitted(u, w)' \subseteq Submitted(u, w) \cup mine
  <2>1. weeks' = Visible(t)
    BY DEF Commit
  <2> QED
    BY <2>1 DEF Visible, Submitted
<1>3. InFlight(u, w)' \subseteq InFlight(u, w) \ {t}
  <2>1. ~UnderWay(Idle, u, w)
    BY DEF UnderWay, Idle, Empty
  <2>2. \A s \in Requests : UnderWay(tx[s], u, w)' = UnderWay(tx'[s], u, w)
    BY DEF UnderWay
  <2> QED
    BY <1>1, <2>1, <2>2 DEF InFlight, Transactions
<1>4. CASE mine = {}
  BY <1>2, <1>3, <1>4, BudgetShrinks DEF Budget
<1>5. CASE mine # {}
  <2>1. t \in Requests
    BY <1>5 DEF OneRowEach, Transactions
  <2>2. PICK id : mine = {id}
    <3>1. \A i, j \in DOMAIN rows : i = j
      BY <2>1 DEF OneRowEach
    <3> QED
      BY <1>5, <3>1
  <2>3. t \in InFlight(u, w)
    BY <1>5, <2>1 DEF InFlight, UnderWay
  <2> DEFINE S == Submitted(u, w)
             F == InFlight(u, w)
             S2 == Submitted(u, w)'
             F2 == InFlight(u, w)'
  <2>4. /\ IsFiniteSet(S) /\ IsFiniteSet(F) /\ t \in F
        /\ S2 \subseteq S \cup {id} /\ F2 \subseteq F \ {t}
        /\ Cardinality(S) + Cardinality(F) <= Cardinality(Requests)
    BY <1>2, <1>3, <2>2, <2>3, BudgetIsFinite DEF Budget
  <2> HIDE DEF S, F, S2, F2, mine, rows
  <2>5. IsFiniteSet(S \cup {id}) /\ Cardinality(S \cup {id}) <= Cardinality(S) + 1
    <3>1. /\ IsFiniteSet(S \cup {id})
          /\ Cardinality(S \cup {id}) = IF id \in S THEN Cardinality(S) ELSE Cardinality(S) + 1
      BY <2>4, FS_AddElement
    <3>2. Cardinality(S) \in Nat
      BY <2>4, FS_CardinalityType
    <3> QED
      BY <3>1, <3>2
  <2>6. IsFiniteSet(F \ {t}) /\ Cardinality(F \ {t}) = Cardinality(F) - 1
    BY <2>4, FS_RemoveElement
  <2>7. IsFiniteSet(S2) /\ Cardinality(S2) <= Cardinality(S \cup {id})
    BY <2>4, <2>5, FS_Subset
  <2>8. IsFiniteSet(F2) /\ Cardinality(F2) <= Cardinality(F \ {t})
    BY <2>4, <2>6, FS_Subset
  <2>9. /\ Cardinality(S) \in Nat /\ Cardinality(F) \in Nat
        /\ Cardinality(S2) \in Nat /\ Cardinality(F2) \in Nat
        /\ Cardinality(S \cup {id}) \in Nat
        /\ Cardinality(Requests) \in Nat
    BY <2>4, <2>5, <2>7, <2>8, RequestsAssumption, FS_CardinalityType
  <2>10. Cardinality(S2) + Cardinality(F2) <= Cardinality(Requests)
    BY <2>4, <2>5, <2>6, <2>7, <2>8, <2>9
  <2> QED
    BY <2>10 DEF S2, F2
<1> QED
  BY <1>4, <1>5

LEMMA BudgetNext == Inv /\ Inv' /\ OneRowEach /\ Budget /\ [Next]_vars => Budget'
<1> SUFFICES ASSUME Inv, Inv', OneRowEach, Budget, [Next]_vars PROVE Budget'
  OBVIOUS
<1>1. ASSUME NEW t \in Transactions, Rollback(t) \/ Refuse(t) PROVE Budget'
  <2>1. \A u \in Engineers, w \in WeekStarts : ~UnderWay(Idle, u, w)
    BY DEF UnderWay, Idle, Empty
  <2>2. tx' = [tx EXCEPT ![t] = Idle] /\ UNCHANGED weeks
    BY <1>1 DEF Rollback, Refuse
  <2> QED
    BY <2>1, <2>2, BudgetStep
<1>2. ASSUME NEW t \in Transactions, t \notin Requests, UNCHANGED weeks,
             NEW x, tx' = [tx EXCEPT ![t] = x]
      PROVE  Budget'
  BY <1>2, BudgetStep
<1>3. CASE BeginTick
  <2>1. Scheduler \in Transactions
    BY DEF Transactions
  <2> QED
    BY <1>2, <1>3, <2>1, SchedulerAssumption DEF BeginTick
<1>4. ASSUME NEW t \in Transactions,
             ListEngineers(t) \/ ListAllocations(t) \/ FindWeek(t) \/ CreateMissedWeek(t)
      PROVE  Budget'
  <2>1. t \notin Requests
    BY <1>4, FlagsAlone DEF ListEngineers, ListAllocations, FindWeek, CreateMissedWeek
  <2>2. UNCHANGED weeks /\ \E x : tx' = [tx EXCEPT ![t] = x]
    BY <1>4 DEF ListEngineers, ListAllocations, FindWeek, CreateMissedWeek, Insert
  <2> QED
    BY <1>2, <2>1, <2>2
<1>5. ASSUME NEW t \in Transactions, ValidateAndInsert(t) PROVE Budget'
  <2> DEFINE row == [user_id |-> tx[t].user, week_start_date |-> tx[t].week,
                     status |-> "SUBMITTED", total_hours |-> TotalHours(tx[t].hours)]
             id == First(FreeIds)
             rows == [i \in DOMAIN Empty \cup {id} |-> IF i = id THEN row ELSE Empty[i]]
             x == [Idle EXCEPT !.pc = "commit", !.rows = rows]
  <2>1. tx' = [tx EXCEPT ![t] = x] /\ UNCHANGED weeks /\ tx[t].pc = "validate"
    BY <1>5 DEF ValidateAndInsert, Insert, Idle
  <2> HIDE DEF id
  <2>2. \A i \in DOMAIN rows :
          rows[i].user_id = tx[t].user /\ rows[i].week_start_date = tx[t].week
    BY DEF Empty
  <2> HIDE DEF rows
  <2>3. x.pc = "commit" /\ x.rows = rows
    BY DEF Idle
  <2> HIDE DEF x
  <2>4. \A u \in Engineers, w \in WeekStarts : UnderWay(x, u, w) => UnderWay(tx[t], u, w)
    BY <2>1, <2>2, <2>3 DEF UnderWay
  <2> QED
    BY <2>1, <2>4, BudgetStep
<1>6. CASE Manage \/ NextDay \/ UNCHANGED vars
  <2>1. UNCHANGED <<weeks, tx>>
    BY <1>6 DEF Manage, NextDay, Allocate, EndAllocation, DeactivateEmployee, DeactivateUser,
        ReactivateUser, vars
  <2>2. \A u \in Engineers, w \in WeekStarts :
          Submitted(u, w)' = Submitted(u, w) /\ InFlight(u, w)' = InFlight(u, w)
    BY <2>1 DEF Submitted, InFlight, UnderWay
  <2> QED
    BY <2>2 DEF Budget
<1>7. ASSUME NEW t \in Requests, Submit(t) PROVE Budget'
  BY <1>7, BudgetBeginSubmit DEF Submit
<1>8. ASSUME NEW t \in Transactions, Continue(t) PROVE Budget'
  BY <1>1, <1>4, <1>5, <1>8, BudgetCommit DEF Continue
<1> QED
  BY <1>1, <1>3, <1>6, <1>7, <1>8 DEF Next, Transactions

-----------------------------------------------------------------------------
(***************************************************************************)
(* Theorems.                                                               *)
(***************************************************************************)

\* Columns and fields hold what they can hold, in every state.
THEOREM TypeCorrectness == Spec => []TypeOK
<1>1. Inv => TypeOK
  BY DEF Inv
<1> QED
  BY <1>1, Invariance, PTL

\* However many submissions race with it, and whatever is rolled back, the scheduler
\* never stores two MISSED rows for one week of an engineer.
THEOREM WeeksAreFlaggedOnce == Spec => []FlaggedOnce
<1>1. Inv => FlaggedOnce
  BY DEF Inv, OnceIn, FlaggedOnce
<1> QED
  BY <1>1, Invariance, PTL

\* No stored week has more hours than the limit, although every allocation of the week
\* was checked by itself.
THEOREM WeeksStayWithinLimit == Spec => []TotalWithinLimit
<1>1. Inv => TotalWithinLimit
  BY DEF Inv, LimitIn, TotalWithinLimit
<1> QED
  BY <1>1, Invariance, PTL

\* However many submissions of a week are made, and whatever is rolled back, no more of
\* them are stored than requests can be in flight at once: only those that passed the
\* duplicate check before the first commit get through.
THEOREM SubmissionsAreBounded == Spec => []SubmissionsBounded
<1>1. Spec => [](OneRowEach /\ Budget)
  <2>1. Init => OneRowEach /\ Budget
    BY BudgetInit
  <2>2. Inv /\ Inv' /\ (OneRowEach /\ Budget) /\ [Next]_vars => (OneRowEach /\ Budget)'
    BY OneRowEachNext, BudgetNext
  <2> QED
    BY <2>1, <2>2, Invariance, PTL DEF Spec
<1>2. Inv /\ OneRowEach /\ Budget => SubmissionsBounded
  <2> SUFFICES ASSUME Inv, Budget, NEW u \in Engineers, NEW w \in WeekStarts
               PROVE  Cardinality(Submitted(u, w)) <= Cardinality(Requests)
    BY DEF SubmissionsBounded, Submitted
  <2>1. Cardinality(Submitted(u, w)) \in Nat /\ Cardinality(InFlight(u, w)) \in Nat
    BY BudgetIsFinite, FS_CardinalityType
  <2>2. Cardinality(Submitted(u, w)) + Cardinality(InFlight(u, w)) <= Cardinality(Requests)
    BY DEF Budget
  <2>3. Cardinality(Requests) \in Nat
    BY RequestsAssumption, FS_CardinalityType
  <2> QED
    BY <2>1, <2>2, <2>3
<1> QED
  BY <1>1, <1>2, Invariance, PTL

=============================================================================
