----------------------- MODULE AllocationService_proofs -----------------------
(***************************************************************************)
(* What holds of AllocationService for every number of engineers, requests *)
(* and allocations, every calendar and every cap.                          *)
(***************************************************************************)
EXTENDS AllocationService, UtilisationCalculator_proofs

-----------------------------------------------------------------------------
(***************************************************************************)
(* Helpers.                                                                *)
(***************************************************************************)

\* First, which the code's ORDER BY and sorted updates stand for, is the least id.
LEMMA FirstIsLeast ==
  ASSUME NEW S, S \subseteq Nat, S # {}
  PROVE  First(S) \in S /\ \A j \in S : First(S) <= j
<1> QED
  BY LeastExists DEF First

\* Entries of g over entries of f, of the same kind.
LEMMA OverlayIsPartial ==
  ASSUME NEW D, NEW R, NEW f, NEW g, IsPartial(f, D, R), IsPartial(g, D, R)
  PROVE  IsPartial(Overlay(f, g), D, R)
<1> QED
  BY DEF IsPartial, Overlay

\* A table as a transaction sees it holds rows.
LEMMA VisibleIsTable ==
  ASSUME TypeOK, NEW t \in Transactions
  PROVE  IsPartial(Visible(t), AllocationIds, Row)
<1>1. IsPartial(allocations, AllocationIds, Row) /\ IsPartial(tx[t].rows, AllocationIds, Row)
  BY DEF TypeOK, IsTransaction
<1> QED
  BY <1>1, OverlayIsPartial DEF Visible

\* Every set of allocation ids is finite.
LEMMA IdsAreFinite ==
  ASSUME NEW S, S \subseteq AllocationIds
  PROVE  IsFiniteSet(S)
<1>1. IsFiniteSet(AllocationIds)
  BY BoundsAssumption, FS_Interval DEF AllocationIds
<1> QED
  BY <1>1, FS_Subset

\* What compute_utilisation_on returns is a number.
LEMMA UtilisationType ==
  ASSUME NEW table, NEW u, NEW d, IsPartial(table, AllocationIds, Row)
  PROVE  ComputeUtilisationOn(table, u, d) \in Nat
<1>1. ActiveOn(table, u, d) \subseteq AllocationIds
  BY DEF IsPartial, ActiveOn, FindActiveByUser
<1>2. IsFiniteSet(ActiveOn(table, u, d))
  BY <1>1, IdsAreFinite
<1> QED
  BY <1>2, TotalType DEF ComputeUtilisationOn

LEMMA IdleIsTransaction == IsTransaction(Idle)
<1>1. IsPartial(Empty, AllocationIds, EndDates) /\ IsPartial(Empty, AllocationIds, Row)
      /\ IsPartial(Empty, Engineers, Status)
  BY DEF IsPartial, Empty
<1>2. 1 \in Days
  BY BoundsAssumption DEF Days
<1> QED
  BY <1>1, <1>2 DEF IsTransaction, Idle

-----------------------------------------------------------------------------
(***************************************************************************)
(* The inductive invariant.                                                *)
(*                                                                         *)
(* OverbookedOnlyBlindly speaks of committed rows alone.  A commit keeps   *)
(* it because the row was under the cap when it was validated, against     *)
(* rows that have only been closed since.  So the invariant says of every  *)
(* active row, committed or still to be, that it fits beside those of the  *)
(* rows it was validated against which are still active (Fits), and what   *)
(* the uncommitted writes can be (Wrote), with who holds them (Exclusive). *)
(***************************************************************************)

\* What the next statement of a transaction works on is there.
Ready(x) ==
  /\ DOMAIN x.loaded \subseteq DOMAIN allocations
  /\ x.pc \in {"read_engineer", "validate"} =>
       /\ x.row \in Row
       /\ x.row.status = "ACTIVE"
       /\ x.rows = Empty
  /\ x.pc \in {"load_row", "update_rows"} => DOMAIN x.loaded # {}
  /\ x.pc \in {"compute", "load_status", "update_status"} => x.queue # {}

\* Ids are handed out in order, and a row was validated against earlier ones.
Earlier ==
  /\ \A i \in DOMAIN allocations : i < next_id
  /\ \A i \in AllocationIds : \A j \in seen[i] : j < i /\ j \in DOMAIN allocations

\* The row fits under the cap beside what is left of the rows it was validated
\* against.
Fits(i, row) ==
  row.status = "ACTIVE" =>
    TotalPercent(allocations,
                 seen[i] \cap FindOverlapping(allocations, row.user_id,
                                              row.from_date, row.to_date))
      + row.utilisation_percent <= MaxUtilisationPercent

\* An uncommitted write closes a row, or inserts one that fits.
Wrote(x) ==
  \A i \in DOMAIN x.rows :
    /\ i < next_id
    /\ i \in DOMAIN allocations =>
         x.rows[i].status = "ENDED" /\ SameAllocation(x.rows[i], allocations[i])
    /\ i \notin DOMAIN allocations =>
         x.rows[i].status = "ACTIVE" /\ Fits(i, x.rows[i])

\* No two transactions write the same row.
Exclusive ==
  \A s, t \in Transactions : s # t => DOMAIN tx[s].rows \cap DOMAIN tx[t].rows = {}

Inv ==
  /\ TypeOK
  /\ Earlier
  /\ \A t \in Transactions : Ready(tx[t]) /\ Wrote(tx[t])
  /\ Exclusive
  /\ \A i \in DOMAIN allocations : Fits(i, allocations[i])

-----------------------------------------------------------------------------
(***************************************************************************)
(* Steps.                                                                  *)
(***************************************************************************)

LEMMA InvInit == Init => Inv
<1> SUFFICES ASSUME Init PROVE Inv
  OBVIOUS
<1>1. TypeOK
  <2>1. today \in Days /\ next_id \in 1 .. MaxAllocations + 1
    BY BoundsAssumption DEF Init, Days
  <2>2. /\ users \in [Engineers -> [account_status : AccountStatuses, manager_id : Managers]]
        /\ projects \in [Projects -> [status : ProjectStatuses, manager_user_id : Managers]]
    BY DEF Init, AccountStatuses, ProjectStatuses
  <2>3. IsPartial(allocations, AllocationIds, Row)
    BY DEF Init, Empty, IsPartial
  <2>4. /\ resource_status \in [Engineers -> Status]
        /\ seen \in [AllocationIds -> SUBSET AllocationIds]
    BY DEF Init, Status, StatusOf
  <2>5. DOMAIN tx = Transactions /\ \A t \in Transactions : IsTransaction(tx[t])
    BY IdleIsTransaction DEF Init
  <2> QED
    BY <2>1, <2>2, <2>3, <2>4, <2>5 DEF TypeOK
<1>2. Earlier /\ \A i \in DOMAIN allocations : Fits(i, allocations[i])
  BY DEF Init, Empty, Earlier
<1>3. (\A t \in Transactions : Ready(tx[t]) /\ Wrote(tx[t])) /\ Exclusive
  BY DEF Init, Idle, Empty, Ready, Wrote, Exclusive
<1> QED
  BY <1>1, <1>2, <1>3 DEF Inv

\* A step that moves one transaction on, and writes no row, keeps the invariant.
LEMMA QuietStep ==
  ASSUME Inv, NEW t \in Transactions, NEW x, IsTransaction(x), Ready(x),
         x.rows = tx[t].rows \/ x.rows = Empty,
         tx' = [tx EXCEPT ![t] = x],
         UNCHANGED <<today, users, projects, allocations, resource_status, next_id, seen>>
  PROVE  Inv'
<1>1. /\ DOMAIN tx' = Transactions
      /\ tx'[t] = x
      /\ \A s \in Transactions \ {t} : tx'[s] = tx[s]
  BY DEF Inv, TypeOK
<1>2. TypeOK'
  BY <1>1 DEF Inv, TypeOK, IsTransaction, IsPartial
<1>3. Earlier' /\ (\A i \in DOMAIN allocations : Fits(i, allocations[i]))'
  BY DEF Inv, Earlier, Fits
<1>4. ASSUME NEW s \in Transactions PROVE Ready(tx[s])' /\ Wrote(tx[s])'
  <2>1. CASE s = t
    <3>1. Wrote(x)
      BY DEF Inv, Wrote, Empty
    <3> QED
      BY <1>1, <2>1, <3>1 DEF Ready, Wrote, Fits
  <2>2. CASE s # t
    BY <1>1, <2>2 DEF Inv, Ready, Wrote, Fits
  <2> QED
    BY <2>1, <2>2
<1>5. Exclusive'
  <2>1. \A s \in Transactions : DOMAIN tx'[s].rows \subseteq DOMAIN tx[s].rows
    BY <1>1 DEF Empty
  <2> QED
    BY <2>1 DEF Inv, Exclusive
<1> QED
  BY <1>2, <1>3, <1>4, <1>5 DEF Inv

LEMMA BeginAllocateStep ==
  ASSUME Inv, NEW t \in Requests, NEW row \in Requested, BeginAllocate(t, row)
  PROVE  Inv'
<1> DEFINE x == [Idle EXCEPT !.op = "allocate", !.pc = "read_engineer", !.row = row]
<1>1. row \in Row /\ row.status = "ACTIVE" /\ t \in Transactions
  BY DEF Requested, Transactions
<1>2. IsTransaction(x) /\ Ready(x) /\ x.rows = Empty
  BY <1>1, IdleIsTransaction DEF IsTransaction, Idle, Ready, Empty
<1>3. tx' = [tx EXCEPT ![t] = x]
  BY DEF BeginAllocate
<1> HIDE DEF x
<1> QED
  BY <1>1, <1>2, <1>3, QuietStep DEF BeginAllocate

LEMMA ReadEngineerStep ==
  ASSUME Inv, NEW t \in Transactions, ReadEngineer(t)
  PROVE  Inv'
<1> DEFINE x == [tx[t] EXCEPT !.pc = "validate"]
<1>1. IsTransaction(x) /\ Ready(x) /\ x.rows = tx[t].rows
  BY DEF Inv, TypeOK, IsTransaction, Idle, Ready, ReadEngineer
<1>2. tx' = [tx EXCEPT ![t] = x]
  BY DEF ReadEngineer
<1> HIDE DEF x
<1> QED
  BY <1>1, <1>2, QuietStep DEF ReadEngineer

LEMMA BeginEndStep ==
  ASSUME Inv, NEW t \in Requests, NEW m \in Managers, NEW id \in AllocationIds,
         NEW d \in Days, BeginEnd(t, m, id, d)
  PROVE  Inv'
<1> DEFINE x == [Idle EXCEPT !.op = "end", !.pc = "load_row", !.as_of = d,
                             !.loaded = [i \in {id} |-> allocations[id].to_date],
                             !.queue = {allocations[id].user_id}]
<1>1. t \in Transactions /\ id \in DOMAIN allocations /\ allocations[id] \in Row
  BY DEF Inv, TypeOK, IsPartial, BeginEnd, Transactions
<1>2. allocations[id].to_date \in EndDates /\ allocations[id].user_id \in Engineers
  BY <1>1 DEF Row
<1>3. IsTransaction(x) /\ Ready(x) /\ x.rows = Empty
  BY <1>1, <1>2, IdleIsTransaction DEF IsTransaction, IsPartial, Idle, Ready, Empty
<1>4. tx' = [tx EXCEPT ![t] = x]
  BY DEF BeginEnd
<1> HIDE DEF x
<1> QED
  BY <1>1, <1>3, <1>4, QuietStep DEF BeginEnd

LEMMA LoadRowStep ==
  ASSUME Inv, NEW t \in Transactions, LoadRow(t)
  PROVE  Inv'
<1> DEFINE x == [tx[t] EXCEPT !.pc = "update_rows",
                              !.loaded = [i \in DOMAIN @ |-> allocations[i].to_date]]
<1>1. \A i \in DOMAIN allocations : i \in AllocationIds /\ allocations[i].to_date \in EndDates
  BY DEF Inv, TypeOK, IsPartial, Row
<1>2. IsTransaction(tx[t]) /\ Ready(tx[t])
  BY DEF Inv, TypeOK
<1>3. IsTransaction(x) /\ Ready(x) /\ x.rows = tx[t].rows
  BY <1>1, <1>2 DEF IsTransaction, IsPartial, Idle, Ready, LoadRow
<1>4. tx' = [tx EXCEPT ![t] = x]
  BY DEF LoadRow
<1> HIDE DEF x
<1> QED
  BY <1>3, <1>4, QuietStep DEF LoadRow

LEMMA BeginDeactivateStep ==
  ASSUME Inv, NEW t \in Requests, NEW u \in Engineers, BeginDeactivate(t, u)
  PROVE  Inv'
<1> DEFINE x == [Idle EXCEPT !.op = "deactivate", !.pc = "select_active", !.blocks = {u}]
<1>1. IsTransaction(x) /\ Ready(x) /\ x.rows = Empty /\ t \in Transactions
  BY IdleIsTransaction DEF IsTransaction, Idle, Ready, Empty, Transactions
<1>2. tx' = [tx EXCEPT ![t] = x]
  BY DEF BeginDeactivate
<1> HIDE DEF x
<1> QED
  BY <1>1, <1>2, QuietStep DEF BeginDeactivate

LEMMA SelectActiveStep ==
  ASSUME Inv, NEW t \in Transactions, SelectActive(t)
  PROVE  Inv'
<1> DEFINE active == UNION {FindActiveByUser(allocations, u) : u \in tx[t].blocks}
           x == [tx[t] EXCEPT !.pc = IF active = {} THEN "commit" ELSE "update_rows",
                              !.as_of = today,
                              !.loaded = [i \in active |-> allocations[i].to_date]]
<1>1. \A i \in DOMAIN allocations : i \in AllocationIds /\ allocations[i].to_date \in EndDates
  BY DEF Inv, TypeOK, IsPartial, Row
<1>2. active \subseteq DOMAIN allocations
  BY DEF FindActiveByUser
<1>3. IsTransaction(tx[t]) /\ today \in Days
  BY DEF Inv, TypeOK
<1>4. tx' = [tx EXCEPT ![t] = x]
  BY DEF SelectActive
<1> HIDE DEF active
<1>5. IsTransaction(x) /\ Ready(x) /\ x.rows = tx[t].rows
  BY <1>1, <1>2, <1>3 DEF IsTransaction, IsPartial, Idle, Ready
<1> HIDE DEF x
<1> QED
  BY <1>4, <1>5, QuietStep DEF SelectActive

LEMMA ComputeUtilisationStep ==
  ASSUME Inv, NEW t \in Transactions, ComputeUtilisation(t)
  PROVE  Inv'
<1> DEFINE percent == ComputeUtilisationOn(Visible(t), First(tx[t].queue), tx[t].as_of)
           x == [tx[t] EXCEPT !.pc = "load_status", !.percent = percent]
<1>1. percent \in Nat
  BY VisibleIsTable, UtilisationType DEF Inv
<1>2. IsTransaction(tx[t]) /\ Ready(tx[t])
  BY DEF Inv, TypeOK
<1>3. tx' = [tx EXCEPT ![t] = x]
  BY DEF ComputeUtilisation
<1> HIDE DEF percent
<1>4. IsTransaction(x) /\ Ready(x) /\ x.rows = tx[t].rows
  BY <1>1, <1>2 DEF IsTransaction, Idle, Ready, ComputeUtilisation
<1> HIDE DEF x
<1> QED
  BY <1>3, <1>4, QuietStep DEF ComputeUtilisation

\* The queue holds another engineer when the synchronisation goes on.
LEMMA QueueLeft ==
  ASSUME Inv, NEW t \in Transactions, AfterSync(t) = "compute"
  PROVE  tx[t].queue \ {First(tx[t].queue)} # {}
<1> DEFINE Q == tx[t].queue
<1>1. Q \in SUBSET Engineers
  BY DEF Inv, TypeOK, IsTransaction
<1>2. IsFiniteSet(Q)
  BY <1>1, EngineersAssumption, FS_Subset
<1>3. Cardinality(Q) > 1 /\ Cardinality(Q) \in Nat
  BY <1>2, FS_CardinalityType DEF AfterSync
<1> HIDE DEF Q
<1>4. ASSUME NEW u PROVE Cardinality(Q \ {u}) >= Cardinality(Q) - 1
  <2>1. Cardinality(Q \ {u}) = IF u \in Q THEN Cardinality(Q) - 1 ELSE Cardinality(Q)
    BY <1>2, FS_RemoveElement
  <2> QED
    BY <1>3, <2>1
<1>5. Cardinality(Q \ {First(Q)}) >= Cardinality(Q) - 1
  BY <1>4
<1>6. ASSUME Q \ {First(Q)} = {} PROVE FALSE
  <2>1. Cardinality(Q \ {First(Q)}) = 0
    BY <1>6, FS_EmptySet
  <2> QED
    BY <1>3, <1>5, <2>1
<1> QED
  BY <1>6 DEF Q

LEMMA StatusIsCurrentStep ==
  ASSUME Inv, NEW t \in Transactions, StatusIsCurrent(t)
  PROVE  Inv'
<1> DEFINE left == tx[t].queue \ {First(tx[t].queue)}
           x == [tx[t] EXCEPT !.pc = AfterSync(t), !.queue = left]
<1>1. AfterSync(t) \in {"compute", "commit"} /\ (AfterSync(t) = "compute" => left # {})
  BY QueueLeft DEF AfterSync
<1>2. IsTransaction(tx[t]) /\ Ready(tx[t])
  BY DEF Inv, TypeOK
<1>3. left \subseteq Engineers
  BY <1>2 DEF IsTransaction
<1>4. tx' = [tx EXCEPT ![t] = x]
  BY DEF StatusIsCurrent
<1> HIDE DEF left
<1>5. IsTransaction(x) /\ Ready(x) /\ x.rows = tx[t].rows
  BY <1>1, <1>2, <1>3 DEF IsTransaction, Idle, Ready
<1> HIDE DEF x
<1> QED
  BY <1>4, <1>5, QuietStep DEF StatusIsCurrent

LEMMA StatusDiffersStep ==
  ASSUME Inv, NEW t \in Transactions, StatusDiffers(t)
  PROVE  Inv'
<1> DEFINE x == [tx[t] EXCEPT !.pc = "update_status", !.columns = Differing(t)]
<1>1. Differing(t) \subseteq {"utilisation_percent", "work_status"}
  BY DEF Differing, StatusOf
<1>2. IsTransaction(tx[t]) /\ Ready(tx[t])
  BY DEF Inv, TypeOK
<1>3. IsTransaction(x) /\ Ready(x) /\ x.rows = tx[t].rows
  BY <1>1, <1>2 DEF IsTransaction, Idle, Ready, StatusDiffers
<1>4. tx' = [tx EXCEPT ![t] = x]
  BY DEF StatusDiffers
<1> HIDE DEF x
<1> QED
  BY <1>3, <1>4, QuietStep DEF StatusDiffers

\* A refusal and a rollback both leave the transaction idle.
LEMMA IdleStep ==
  ASSUME Inv, NEW t \in Transactions, Refuse(t) \/ Rollback(t)
  PROVE  Inv'
<1>1. IsTransaction(Idle) /\ Ready(Idle) /\ Idle.rows = Empty
  BY IdleIsTransaction DEF Idle, Ready, Empty
<1>2. tx' = [tx EXCEPT ![t] = Idle]
  BY DEF Refuse, Rollback
<1> QED
  BY <1>1, <1>2, QuietStep DEF Refuse, Rollback

LEMMA BeginTickStep ==
  ASSUME Inv, BeginTick
  PROVE  Inv'
<1> DEFINE active == {u \in Engineers : users[u].account_status = "ACTIVE"}
           x == [Idle EXCEPT !.op = "tick", !.pc = "compute", !.as_of = today,
                             !.queue = active]
<1>1. Scheduler \in Transactions /\ today \in Days
  BY DEF Inv, TypeOK, Transactions
<1>2. active # {} /\ active \subseteq Engineers
  BY DEF BeginTick
<1>3. tx' = [tx EXCEPT ![Scheduler] = x]
  BY DEF BeginTick
<1> HIDE DEF active
<1>4. IsTransaction(x) /\ Ready(x) /\ x.rows = Empty
  BY <1>1, <1>2, IdleIsTransaction DEF IsTransaction, Idle, Ready, Empty
<1> HIDE DEF x
<1> QED
  BY <1>1, <1>3, <1>4, QuietStep DEF BeginTick

\* The status row is not a row of the allocations table.
LEMMA UpdateStatusStep ==
  ASSUME Inv, NEW t \in Transactions, UpdateStatus(t)
  PROVE  Inv'
<1> DEFINE f == First(tx[t].queue)
           left == tx[t].queue \ {f}
           written == [u \in {f} |-> UpdatedStatus(resource_status[u],
                                        StatusOf(tx[t].percent), tx[t].columns)]
           x == [tx[t] EXCEPT !.pc = AfterSync(t), !.queue = left, !.columns = {},
                              !.statuses = Overlay(@, written)]
<1>1. AfterSync(t) \in {"compute", "commit"} /\ (AfterSync(t) = "compute" => left # {})
  BY QueueLeft DEF AfterSync
<1>2. IsTransaction(tx[t]) /\ Ready(tx[t])
  BY DEF Inv, TypeOK
<1>3. left \subseteq Engineers /\ f \in Engineers
  <2>1. tx[t].queue \subseteq Nat /\ tx[t].queue # {} /\ tx[t].queue \subseteq Engineers
    BY <1>2, EngineersAssumption DEF IsTransaction, Ready, UpdateStatus
  <2>2. f \in tx[t].queue
    BY <2>1, FirstIsLeast
  <2> QED
    BY <2>1, <2>2
<1>4. IsPartial(written, Engineers, Status)
  <2>1. StatusOf(tx[t].percent) \in Status
    BY <1>2 DEF IsTransaction, StatusOf, Status
  <2>2. resource_status[f] \in Status
    BY <1>3 DEF Inv, TypeOK
  <2>3. UpdatedStatus(resource_status[f], StatusOf(tx[t].percent), tx[t].columns) \in Status
    BY <2>1, <2>2 DEF UpdatedStatus, Status
  <2> HIDE DEF f
  <2> QED
    BY <1>3, <2>3 DEF IsPartial
<1>5. IsPartial(Overlay(tx[t].statuses, written), Engineers, Status)
  BY <1>2, <1>4, OverlayIsPartial DEF IsTransaction
<1>6. tx' = [tx EXCEPT ![t] = x]
  BY DEF UpdateStatus
<1> HIDE DEF left, written, f
<1>7. IsTransaction(x) /\ Ready(x) /\ x.rows = tx[t].rows
  BY <1>1, <1>2, <1>3, <1>5 DEF IsTransaction, Idle, Ready
<1> HIDE DEF x
<1> QED
  BY <1>6, <1>7, QuietStep DEF UpdateStatus

\* Administration touches neither allocations nor transactions.
LEMMA AdministerStep ==
  ASSUME Inv, Administer \/ NextDay
  PROVE  Inv'
<1>1. UNCHANGED <<allocations, resource_status, next_id, tx, seen>>
  BY DEF Administer, AssignManager, UpdateProject, DeactivateUser, ReactivateUser, NextDay
<1>2. /\ today' \in Days
      /\ users' \in [Engineers -> [account_status : AccountStatuses, manager_id : Managers]]
      /\ projects' \in [Projects -> [status : ProjectStatuses, manager_user_id : Managers]]
  <2>0. TypeOK
    BY DEF Inv
  <2>1. CASE NextDay
    BY <2>0, <2>1, BoundsAssumption DEF TypeOK, Days, NextDay
  <2>2. CASE \E u \in Engineers, m \in Managers : AssignManager(u, m)
    BY <2>0, <2>2 DEF TypeOK, AssignManager
  <2>3. CASE \E p \in Projects, status \in ProjectStatuses, m \in Managers :
               UpdateProject(p, status, m)
    BY <2>0, <2>3 DEF TypeOK, UpdateProject
  <2>4. CASE \E u \in Engineers : DeactivateUser(u) \/ ReactivateUser(u)
    BY <2>0, <2>4 DEF TypeOK, AccountStatuses, DeactivateUser, ReactivateUser
  <2> QED
    BY <2>1, <2>2, <2>3, <2>4 DEF Administer
<1>3. TypeOK'
  BY <1>1, <1>2 DEF Inv, TypeOK, IsTransaction, IsPartial
<1>4. Earlier' /\ Exclusive' /\ (\A i \in DOMAIN allocations : Fits(i, allocations[i]))'
  BY <1>1 DEF Inv, Earlier, Exclusive, Fits
<1>5. (\A t \in Transactions : Ready(tx[t]) /\ Wrote(tx[t]))'
  BY <1>1 DEF Inv, Ready, Wrote, Fits
<1> QED
  BY <1>3, <1>4, <1>5 DEF Inv

\* The new row fits beside all it was validated against, and has an id of its own.
LEMMA ValidateAndInsertStep ==
  ASSUME Inv, NEW t \in Transactions, ValidateAndInsert(t)
  PROVE  Inv'
<1>a. PICK id, row : id = next_id /\ row = tx[t].row
  OBVIOUS
<1>b. PICK x : x = [tx[t] EXCEPT !.pc = "compute", !.row = NoRow, !.as_of = row.from_date,
                                 !.queue = {row.user_id},
                                 !.rows = [i \in {id} |-> row]]
  OBVIOUS
<1>1. /\ row \in Row
      /\ row.status = "ACTIVE"
      /\ tx[t].rows = Empty
  BY <1>a DEF Inv, Ready, ValidateAndInsert
<1>2. id \in AllocationIds
  BY <1>a, BoundsAssumption DEF Inv, TypeOK, ValidateAndInsert, Accepts, AllocationIds
<1>3. IsTransaction(x)
  <2>1. row.from_date \in Days /\ row.user_id \in Engineers
    BY <1>1 DEF Row
  <2>2. IsPartial([i \in {id} |-> row], AllocationIds, Row)
    BY <1>1, <1>2 DEF IsPartial
  <2>3. IsTransaction(tx[t])
    BY DEF Inv, TypeOK
  <2> QED
    BY <1>b, <2>1, <2>2, <2>3 DEF IsTransaction, Idle
<1>4. /\ DOMAIN tx' = Transactions
      /\ tx'[t] = x
      /\ \A s \in Transactions \ {t} : tx'[s] = tx[s]
  BY <1>a, <1>b DEF Inv, TypeOK, ValidateAndInsert
<1>5. /\ x.rows = [i \in {id} |-> row]
      /\ x.loaded = tx[t].loaded
      /\ x.pc = "compute"
      /\ x.queue # {}
  BY <1>b DEF Inv, TypeOK, IsTransaction, Idle
<1>6. /\ UNCHANGED <<today, users, projects, allocations, resource_status>>
      /\ next_id' = id + 1
      /\ seen' = [seen EXCEPT ![id] = DOMAIN allocations]
  BY <1>a DEF ValidateAndInsert
<1>7. id \in Nat /\ \A i \in DOMAIN allocations : i \in AllocationIds /\ i < id
  BY <1>a, <1>2 DEF Inv, TypeOK, Earlier, IsPartial, AllocationIds
<1>8. /\ seen' \in [AllocationIds -> SUBSET AllocationIds]
      /\ seen'[id] = DOMAIN allocations
      /\ \A i \in AllocationIds : i < id => seen'[i] = seen[i]
  BY <1>2, <1>6, <1>7 DEF Inv, TypeOK
<1>9. TypeOK'
  <2>1. next_id' \in 1 .. MaxAllocations + 1
    BY <1>2, <1>6, BoundsAssumption DEF AllocationIds
  <2>2. (\A s \in Transactions : IsTransaction(tx[s]))'
    BY <1>3, <1>4 DEF Inv, TypeOK, IsTransaction, IsPartial
  <2> QED
    BY <1>4, <1>6, <1>8, <2>1, <2>2 DEF Inv, TypeOK, IsPartial
<1>10. Earlier'
  <2>1. ASSUME NEW i \in AllocationIds, NEW j \in seen'[i]
        PROVE  j < i /\ j \in DOMAIN allocations
    <3>1. CASE i = id
      BY <1>7, <1>8, <3>1
    <3>2. CASE i # id
      BY <1>6, <3>2 DEF Inv, TypeOK, Earlier
    <3> QED
      BY <3>1, <3>2
  <2>2. \A i \in DOMAIN allocations : i < id + 1
    BY <1>7 DEF AllocationIds
  <2> QED
    BY <1>6, <2>1, <2>2 DEF Earlier
<1>11. (\A i \in DOMAIN allocations : Fits(i, allocations[i]))'
  BY <1>6, <1>7, <1>8 DEF Inv, Fits
<1>12. Fits(id, row)'
  <2> DEFINE overlapping == FindOverlapping(allocations, row.user_id,
                                            row.from_date, row.to_date)
  <2>1. Visible(t) = allocations
    BY <1>1 DEF Inv, TypeOK, IsPartial, Visible, Overlay, Empty
  <2>2. TotalPercent(allocations, overlapping) + row.utilisation_percent
          <= MaxUtilisationPercent
    BY <1>a, <2>1 DEF ValidateAndInsert, Accepts, ValidateNewAllocation
  <2>3. seen'[id] \cap overlapping = overlapping
    BY <1>8 DEF FindOverlapping, FindActiveByUser
  <2> QED
    BY <1>6, <2>2, <2>3 DEF Fits
<1>13. ASSUME NEW s \in Transactions PROVE Ready(tx[s])' /\ Wrote(tx[s])'
  <2>1. CASE s = t
    <3>1. Ready(x)'
      BY <1>5, <1>6 DEF Inv, Ready
    <3>2. Wrote(x)'
      <4>1. \A i \in DOMAIN x.rows : i = id /\ x.rows[i] = row
        BY <1>5
      <4> QED
        BY <1>1, <1>6, <1>7, <1>12, <4>1 DEF Wrote
    <3> QED
      BY <1>4, <2>1, <3>1, <3>2
  <2>2. CASE s # t
    <3>1. Ready(tx[s]) /\ Wrote(tx[s]) /\ DOMAIN tx[s].rows \subseteq AllocationIds
      BY DEF Inv, TypeOK, IsTransaction, IsPartial
    <3>2. tx'[s] = tx[s]
      BY <1>4, <2>2
    <3>3. Ready(tx[s])'
      BY <1>6, <3>1, <3>2 DEF Ready
    <3>4. \A i \in DOMAIN tx[s].rows : i < id /\ seen'[i] = seen[i]
      BY <1>a, <1>8, <3>1 DEF Wrote
    <3>5. \A i \in DOMAIN tx[s].rows : i < id + 1
      BY <1>7, <3>1, <3>4 DEF AllocationIds
    <3>6. ASSUME NEW i \in DOMAIN tx[s].rows, i \notin DOMAIN allocations
          PROVE  tx'[s].rows[i].status = "ACTIVE" /\ Fits(i, tx[s].rows[i])'
      <4>1. tx[s].rows[i].status = "ACTIVE" /\ Fits(i, tx[s].rows[i])
        BY <3>1, <3>6 DEF Wrote
      <4> QED
        BY <1>6, <3>2, <3>4, <4>1 DEF Fits
    <3>7. Wrote(tx[s])'
      BY <1>6, <3>1, <3>2, <3>5, <3>6 DEF Wrote
    <3> QED
      BY <3>3, <3>7
  <2> QED
    BY <2>1, <2>2
<1>14. Exclusive'
  <2>1. \A s \in Transactions : id \notin DOMAIN tx[s].rows
    BY <1>a, <1>7 DEF Inv, Wrote
  <2>2. DOMAIN x.rows = {id}
    BY <1>5
  <2> QED
    BY <1>4, <2>1, <2>2 DEF Inv, Exclusive
<1> QED
  BY <1>9, <1>10, <1>11, <1>13, <1>14 DEF Inv

\* The row that is closed was committed, is held by nobody else, and stays the
\* same allocation.
LEMMA EndRowStep ==
  ASSUME Inv, NEW t \in Transactions, NEW id \in AllocationIds, EndRow(t, id)
  PROVE  Inv'
<1>a. PICK row : row = Ended(allocations[id], tx[t].loaded[id], tx[t].as_of)
  OBVIOUS
<1>b. PICK x : x = [tx[t] EXCEPT !.pc = AfterRows(t, id),
                                 !.loaded = Without(@, id),
                                 !.rows = Overlay(@, [i \in {id} |-> row])]
  OBVIOUS
<1>1. IsTransaction(tx[t]) /\ Ready(tx[t]) /\ Wrote(tx[t])
  BY DEF Inv, TypeOK
<1>2. id \in DOMAIN tx[t].loaded /\ id \in DOMAIN allocations
  <2>1. DOMAIN tx[t].loaded \subseteq Nat /\ DOMAIN tx[t].loaded # {}
    BY <1>1, BoundsAssumption DEF IsTransaction, IsPartial, AllocationIds, Ready, EndRow
  <2>2. First(DOMAIN tx[t].loaded) \in DOMAIN tx[t].loaded
    BY <2>1, FirstIsLeast
  <2> QED
    BY <1>1, <2>2 DEF EndRow, NextLoaded, Ready
<1>3. allocations[id] \in Row /\ tx[t].as_of \in Days
  BY <1>1, <1>2 DEF Inv, TypeOK, IsPartial, IsTransaction
<1>4. row \in Row /\ row.status = "ENDED" /\ SameAllocation(row, allocations[id])
  BY <1>a, <1>3 DEF Ended, Row, EndDates, SameAllocation
<1>5. /\ DOMAIN tx' = Transactions
      /\ tx'[t] = x
      /\ \A s \in Transactions \ {t} : tx'[s] = tx[s]
  BY <1>a, <1>b DEF Inv, TypeOK, EndRow
<1>6. UNCHANGED <<today, users, projects, allocations, resource_status, next_id, seen>>
  BY DEF EndRow
<1>7. /\ x.pc = AfterRows(t, id)
      /\ x.loaded = Without(tx[t].loaded, id)
      /\ x.rows = Overlay(tx[t].rows, [i \in {id} |-> row])
      /\ x.queue = tx[t].queue
  BY <1>1, <1>b DEF IsTransaction, Idle
<1>8. IsTransaction(x)
  <2>1. IsPartial(Without(tx[t].loaded, id), AllocationIds, EndDates)
    BY <1>1 DEF IsTransaction, IsPartial, Without
  <2>2. IsPartial(tx[t].rows, AllocationIds, Row)
        /\ IsPartial([i \in {id} |-> row], AllocationIds, Row)
    BY <1>1, <1>4 DEF IsTransaction, IsPartial
  <2>3. IsPartial(Overlay(tx[t].rows, [i \in {id} |-> row]), AllocationIds, Row)
    BY <2>2, OverlayIsPartial
  <2>4. AfterRows(t, id) \in {"update_rows", "compute", "commit"}
    BY DEF AfterRows
  <2> QED
    BY <1>b, <1>1, <2>1, <2>3, <2>4 DEF IsTransaction, Idle
<1>9. TypeOK'
  <2>1. (\A s \in Transactions : IsTransaction(tx[s]))'
    BY <1>5, <1>8 DEF Inv, TypeOK, IsTransaction, IsPartial
  <2> QED
    BY <1>5, <1>6, <2>1 DEF Inv, TypeOK, IsPartial
<1>10. Earlier' /\ (\A i \in DOMAIN allocations : Fits(i, allocations[i]))'
  BY <1>6 DEF Inv, Earlier, Fits
<1>11. Ready(x)
  <2>1. DOMAIN x.loaded = DOMAIN tx[t].loaded \ {id}
    BY <1>7 DEF Without
  <2>2. \/ x.pc = "update_rows" /\ DOMAIN tx[t].loaded # {id}
        \/ x.pc = "compute" /\ x.queue # {}
        \/ x.pc = "commit"
    BY <1>7 DEF AfterRows
  <2> QED
    BY <1>1, <1>2, <2>1, <2>2 DEF Ready
<1>12. Wrote(x)
  <2>1. ASSUME NEW i \in DOMAIN x.rows
        PROVE  \/ i = id /\ x.rows[i] = row
               \/ i \in DOMAIN tx[t].rows /\ x.rows[i] = tx[t].rows[i]
    BY <1>7 DEF Overlay
  <2>2. id < next_id
    BY <1>2 DEF Inv, Earlier
  <2> QED
    BY <1>1, <1>2, <1>4, <2>1, <2>2 DEF Wrote
<1>13. ASSUME NEW s \in Transactions PROVE Ready(tx[s])' /\ Wrote(tx[s])'
  <2>1. CASE s = t
    BY <1>5, <1>6, <1>11, <1>12, <2>1 DEF Ready, Wrote, Fits
  <2>2. CASE s # t
    BY <1>5, <1>6, <2>2 DEF Inv, Ready, Wrote, Fits
  <2> QED
    BY <2>1, <2>2
<1>14. Exclusive'
  <2>1. DOMAIN x.rows = DOMAIN tx[t].rows \cup {id}
    BY <1>7 DEF Overlay
  <2>2. \A s \in Transactions \ {t} : id \notin DOMAIN tx[s].rows
    BY DEF EndRow, RowLocked
  <2> QED
    BY <1>5, <2>1, <2>2 DEF Inv, Exclusive
<1> QED
  BY <1>9, <1>10, <1>13, <1>14 DEF Inv

\* A step that only closes rows, and adds others, leaves room for what did fit.
LEMMA FitsKept ==
  ASSUME Inv, seen' = seen,
         \A j \in DOMAIN allocations :
           /\ j \in DOMAIN allocations'
           /\ allocations'[j].status = "ACTIVE" => allocations'[j] = allocations[j],
         NEW i \in AllocationIds, NEW row \in Row, Fits(i, row)
  PROVE  Fits(i, row)'
<1> DEFINE before == seen[i] \cap FindOverlapping(allocations, row.user_id,
                                                  row.from_date, row.to_date)
<1>1. PICK after : after = seen[i] \cap FindOverlapping(allocations', row.user_id,
                                                        row.from_date, row.to_date)
  OBVIOUS
<1>2. seen[i] \subseteq DOMAIN allocations /\ seen[i] \subseteq AllocationIds
  BY DEF Inv, TypeOK, Earlier
<1>3. \A j \in after : j \in before /\ allocations'[j] = allocations[j]
  BY <1>1, <1>2 DEF FindOverlapping, FindActiveByUser
<1>4. IsFiniteSet(before) /\ IsFiniteSet(after)
  BY <1>1, <1>2, IdsAreFinite
<1>5. TotalPercent(allocations', after) <= TotalPercent(allocations, before)
  BY <1>3, <1>4, TotalMonotone
<1>6. TotalPercent(allocations', after) \in Nat /\ TotalPercent(allocations, before) \in Nat
  BY <1>4, TotalType
<1>7. row.utilisation_percent \in Nat
  BY MaxAssumption DEF Row
<1>8. row.status = "ACTIVE" =>
        TotalPercent(allocations, before) + row.utilisation_percent <= MaxUtilisationPercent
  BY DEF Fits
<1>9. row.status = "ACTIVE" =>
        TotalPercent(allocations', after) + row.utilisation_percent <= MaxUtilisationPercent
  BY <1>5, <1>6, <1>7, <1>8, MaxAssumption
<1> QED
  BY <1>1, <1>9 DEF Fits

\* What a commit does to the rows that were there.
LEMMA CommitCloses ==
  ASSUME Inv, NEW t \in Transactions, Commit(t), NEW j \in DOMAIN allocations
  PROVE  /\ j \in DOMAIN allocations'
         /\ allocations'[j] = allocations[j] \/ allocations'[j].status = "ENDED"
         /\ SameAllocation(allocations'[j], allocations[j])
<1> DEFINE rows == tx[t].rows
<1>1. Wrote(tx[t]) /\ allocations[j] \in Row
  BY DEF Inv, TypeOK, IsPartial
<1>2. allocations' = Overlay(allocations, rows)
  BY DEF Commit, Visible
<1>3. CASE j \in DOMAIN rows
  <2>1. j \in DOMAIN allocations' /\ allocations'[j] = rows[j]
    BY <1>2, <1>3 DEF Overlay
  <2>2. rows[j].status = "ENDED" /\ SameAllocation(rows[j], allocations[j])
    BY <1>1, <1>3 DEF Wrote
  <2> QED
    BY <2>1, <2>2
<1>4. CASE j \notin DOMAIN rows
  <2>1. j \in DOMAIN allocations' /\ allocations'[j] = allocations[j]
    BY <1>2, <1>4 DEF Overlay
  <2> QED
    BY <1>1, <2>1 DEF SameAllocation, Row
<1> QED
  BY <1>3, <1>4

LEMMA CommitStep ==
  ASSUME Inv, NEW t \in Transactions, Commit(t)
  PROVE  Inv'
<1>a. PICK rows : rows = tx[t].rows
  OBVIOUS
<1>1. /\ IsTransaction(tx[t])
      /\ Wrote(tx[t])
      /\ IsPartial(allocations, AllocationIds, Row)
      /\ IsPartial(rows, AllocationIds, Row)
  BY <1>a DEF Inv, TypeOK, IsTransaction
<1>2. allocations' = Overlay(allocations, rows) /\ UNCHANGED <<today, projects, next_id, seen>>
  BY <1>a DEF Commit, Visible
<1>3. /\ DOMAIN tx' = Transactions
      /\ tx'[t] = Idle
      /\ \A s \in Transactions \ {t} : tx'[s] = tx[s]
  BY DEF Inv, TypeOK, Commit
<1>4. TypeOK'
  <2>1. IsPartial(allocations', AllocationIds, Row)
    BY <1>1, <1>2, OverlayIsPartial
  <2>2. resource_status' \in [Engineers -> Status]
    <3>1. /\ resource_status' = Overlay(resource_status, tx[t].statuses)
          /\ IsPartial(tx[t].statuses, Engineers, Status)
          /\ resource_status \in [Engineers -> Status]
      BY <1>1 DEF Inv, TypeOK, IsTransaction, Commit
    <3> QED
      BY <3>1 DEF Overlay, IsPartial
  <2>3. users' \in [Engineers -> [account_status : AccountStatuses, manager_id : Managers]]
    BY DEF Inv, TypeOK, Commit, AccountStatuses
  <2>4. (\A s \in Transactions : IsTransaction(tx[s]))'
    BY <1>3, IdleIsTransaction DEF Inv, TypeOK, IsTransaction, IsPartial
  <2> QED
    BY <1>2, <1>3, <2>1, <2>2, <2>3, <2>4 DEF Inv, TypeOK, IsPartial
<1>5. DOMAIN allocations' = DOMAIN allocations \cup DOMAIN rows
  BY <1>2 DEF Overlay
<1>6. \A j \in DOMAIN allocations :
        /\ j \in DOMAIN allocations'
        /\ allocations'[j].status = "ACTIVE" => allocations'[j] = allocations[j]
  BY CommitCloses
<1>7. Earlier'
  <2>1. \A i \in DOMAIN rows : i < next_id
    BY <1>a, <1>1 DEF Wrote
  <2> QED
    BY <1>2, <1>5, <2>1 DEF Inv, Earlier
<1>8. ASSUME NEW i \in AllocationIds, NEW row \in Row, Fits(i, row)
      PROVE  Fits(i, row)'
  BY <1>2, <1>6, <1>8, FitsKept
<1>9. ASSUME NEW i \in DOMAIN allocations' PROVE Fits(i, allocations[i])'
  <2>a. PICK row : row = allocations'[i]
    OBVIOUS
  <2>1. i \in AllocationIds /\ row \in Row
    BY <1>4, <2>a DEF TypeOK, IsPartial
  <2>2. CASE row.status # "ACTIVE"
    BY <2>a, <2>2 DEF Fits
  <2>3. CASE row.status = "ACTIVE" /\ i \in DOMAIN allocations
    <3>1. row = allocations[i]
      BY <1>6, <2>a, <2>3
    <3>2. Fits(i, row)
      BY <2>3, <3>1 DEF Inv
    <3>3. Fits(i, row)'
      BY <1>8, <2>1, <3>2
    <3> QED
      BY <2>a, <3>3 DEF Fits
  <2>4. CASE row.status = "ACTIVE" /\ i \notin DOMAIN allocations
    <3>1. i \in DOMAIN rows /\ row = rows[i]
      BY <1>2, <1>5, <2>a, <2>4 DEF Overlay
    <3>2. Fits(i, row)
      BY <1>a, <1>1, <2>4, <3>1 DEF Wrote
    <3>3. Fits(i, row)'
      BY <1>8, <2>1, <3>2
    <3> QED
      BY <2>a, <3>3 DEF Fits
  <2> QED
    BY <2>2, <2>3, <2>4
<1>10. ASSUME NEW s \in Transactions PROVE Ready(tx[s])' /\ Wrote(tx[s])'
  <2>a. PICK x : x = tx'[s]
    OBVIOUS
  <2>1. CASE s = t
    BY <1>3, <2>1 DEF Ready, Wrote, Idle, Empty
  <2>2. CASE s # t
    <3>1. x = tx[s] /\ IsTransaction(x) /\ Ready(x) /\ Wrote(x)
      BY <1>3, <2>a, <2>2 DEF Inv, TypeOK
    <3>2. Ready(x)'
      BY <1>5, <3>1 DEF Ready
    <3>3. ASSUME NEW i \in DOMAIN x.rows
          PROVE  /\ i < next_id
                 /\ i \in DOMAIN allocations' =>
                      x.rows[i].status = "ENDED" /\ SameAllocation(x.rows[i], allocations'[i])
                 /\ i \notin DOMAIN allocations' =>
                      x.rows[i].status = "ACTIVE" /\ Fits(i, x.rows[i])'
      <4>1. i \notin DOMAIN rows
        BY <1>a, <2>2, <3>1, <3>3 DEF Inv, Exclusive
      <4>2. i < next_id
        BY <3>1, <3>3 DEF Wrote
      <4>3. CASE i \in DOMAIN allocations
        <5>1. allocations'[i] = allocations[i]
          BY <1>2, <4>1, <4>3 DEF Overlay
        <5> QED
          BY <1>5, <3>1, <4>2, <4>3, <5>1 DEF Wrote
      <4>4. CASE i \notin DOMAIN allocations
        <5>1. x.rows[i] \in Row /\ i \in AllocationIds
          BY <3>1, <3>3 DEF IsTransaction, IsPartial
        <5>2. x.rows[i].status = "ACTIVE" /\ Fits(i, x.rows[i])
          BY <3>1, <3>3, <4>4 DEF Wrote
        <5>3. Fits(i, x.rows[i])'
          BY <1>8, <5>1, <5>2
        <5> QED
          BY <1>5, <4>1, <4>2, <4>4, <5>2, <5>3
      <4> QED
        BY <4>3, <4>4
    <3>4. Wrote(x)'
      BY <1>2, <3>3 DEF Wrote
    <3> QED
      BY <2>a, <3>2, <3>4 DEF Ready, Wrote
  <2> QED
    BY <2>1, <2>2
<1>11. Exclusive'
  <2>1. \A s \in Transactions : DOMAIN tx'[s].rows \subseteq DOMAIN tx[s].rows
    BY <1>3 DEF Idle, Empty
  <2> QED
    BY <2>1 DEF Inv, Exclusive
<1> QED
  BY <1>4, <1>7, <1>9, <1>10, <1>11 DEF Inv

\* Every step is one of those above.
LEMMA InvNext == Inv /\ [Next]_vars => Inv'
<1> SUFFICES ASSUME Inv, [Next]_vars PROVE Inv'
  OBVIOUS
<1>1. CASE UNCHANGED vars
  <2>1. TypeOK'
    BY <1>1 DEF Inv, TypeOK, IsTransaction, IsPartial, vars
  <2>2. (\A t \in Transactions : Ready(tx[t]) /\ Wrote(tx[t]))'
    BY <1>1 DEF Inv, Ready, Wrote, Fits, vars
  <2> QED
    BY <1>1, <2>1, <2>2 DEF Inv, Earlier, Exclusive, Fits, vars
<1>2. ASSUME NEW t \in Requests, Start(t) PROVE Inv'
  BY <1>2, BeginAllocateStep, BeginEndStep, BeginDeactivateStep DEF Start
<1>3. CASE BeginTick
  BY <1>3, BeginTickStep
<1>4. ASSUME NEW t \in Transactions, Continue(t) PROVE Inv'
  BY <1>4, ReadEngineerStep, ValidateAndInsertStep, LoadRowStep, SelectActiveStep,
     EndRowStep, ComputeUtilisationStep, StatusIsCurrentStep, StatusDiffersStep,
     UpdateStatusStep, CommitStep, IdleStep
  DEF Continue
<1>5. ASSUME NEW t \in Transactions, Rollback(t) PROVE Inv'
  BY <1>5, IdleStep
<1>6. CASE Administer \/ NextDay
  BY <1>6, AdministerStep
<1> QED
  BY <1>1, <1>2, <1>3, <1>4, <1>5, <1>6 DEF Next

-----------------------------------------------------------------------------
(***************************************************************************)
(* Theorems.                                                               *)
(***************************************************************************)

\* The inductive invariant holds of every behaviour.
THEOREM Invariance == Spec => []Inv
<1> QED
  BY InvInit, InvNext, PTL DEF Spec

\* Every table, and every transaction, holds what its columns and fields can hold.
THEOREM TypeCorrectness == Spec => []TypeOK
<1>1. Inv => TypeOK
  BY DEF Inv
<1> QED
  BY <1>1, Invariance, PTL

\* Rows of one day that all knew of each other, in one direction or the other, are
\* within the cap: the last of them was validated against all the rest.
LEMMA InvKeepsCap ==
  ASSUME Inv, NEW u \in Engineers, NEW d \in Days,
         \A i, j \in ActiveOn(allocations, u, d) : ~Blind(i, j)
  PROVE  ComputeUtilisationOn(allocations, u, d) <= MaxUtilisationPercent
<1> DEFINE Day == ActiveOn(allocations, u, d)
<1>1. Day \subseteq DOMAIN allocations /\ Day \subseteq AllocationIds
  BY DEF Inv, TypeOK, IsPartial, ActiveOn, FindActiveByUser
<1>2. CASE Day = {}
  <2>1. Points(allocations, Day) = {}
    BY <1>2 DEF Points
  <2>2. TotalPercent(allocations, Day) = 0
    BY <2>1, FS_EmptySet DEF TotalPercent
  <2> QED
    BY <2>2, MaxAssumption DEF ComputeUtilisationOn
<1>3. CASE Day # {}
  <2>1. PICK m \in Day : \A j \in Day : j <= m
    <3>1. Day \subseteq 1 .. MaxAllocations /\ MaxAllocations \in Nat
      BY <1>1, BoundsAssumption DEF AllocationIds
    <3> HIDE DEF Day
    <3> QED
      BY <1>3, <3>1, GreatestExists
  <2> DEFINE row == allocations[m]
             Known == seen[m] \cap FindOverlapping(allocations, row.user_id,
                                                  row.from_date, row.to_date)
  <2>2. row \in Row /\ row.status = "ACTIVE" /\ row.user_id = u /\ Covers(row, d)
    BY <1>1 DEF Inv, TypeOK, IsPartial, ActiveOn, FindActiveByUser, IsActiveOn
  <2>3. Day \ {m} \subseteq Known
    <3>1. SUFFICES ASSUME NEW j \in Day, j # m PROVE j \in Known
      OBVIOUS
    <3>2. j \in seen[m]
      <4>1. m \in AllocationIds /\ j \in AllocationIds /\ j <= m
        BY <1>1, <2>1
      <4>2. m \notin seen[j]
        BY <3>1, <4>1 DEF Inv, Earlier, AllocationIds
      <4> QED
        BY <3>1, <4>2 DEF Blind
    <3>3. /\ allocations[j] \in Row
          /\ j \in FindActiveByUser(allocations, u)
          /\ allocations[j].status = "ACTIVE"
          /\ Covers(allocations[j], d)
      BY <1>1 DEF Inv, TypeOK, IsPartial, ActiveOn, FindActiveByUser, IsActiveOn
    <3>4. /\ row.from_date \in Int /\ row.to_date \in Int \cup {NoDate}
          /\ allocations[j].from_date \in Int
          /\ allocations[j].to_date \in Int \cup {NoDate}
          /\ d \in Int
      BY <2>2, <3>3 DEF Row, Days, EndDates
    <3>5. OverlapsPeriod(allocations[j], row.from_date, row.to_date)
      <4> HIDE DEF row
      <4> QED
        BY <2>2, <3>3, <3>4, SameDayOverlaps
    <3> QED
      BY <2>2, <3>2, <3>3, <3>5 DEF FindOverlapping
  <2>4. TotalPercent(allocations, Known) + row.utilisation_percent <= MaxUtilisationPercent
    BY <1>1, <2>2 DEF Inv, Fits
  <2>5. seen[m] \subseteq AllocationIds
    BY <1>1 DEF Inv, TypeOK
  <2>6. IsFiniteSet(Known) /\ IsFiniteSet(Day \ {m})
    BY <1>1, <2>5, IdsAreFinite
  <2>7. TotalPercent(allocations, Day \ {m}) <= TotalPercent(allocations, Known)
    BY <2>3, <2>6, TotalMonotone
  <2>8. row.utilisation_percent \in 1 .. MaxUtilisationPercent
    BY <2>2 DEF Row
  <2>9. TotalPercent(allocations, (Day \ {m}) \cup {m})
          <= TotalPercent(allocations, Day \ {m}) + row.utilisation_percent
    BY <2>6, <2>8, TotalAdd
  <2>10. (Day \ {m}) \cup {m} = Day
    BY <2>1
  <2>11. /\ TotalPercent(allocations, Day) \in Nat
         /\ TotalPercent(allocations, Day \ {m}) \in Nat
         /\ TotalPercent(allocations, Known) \in Nat
    BY <1>1, <2>6, IdsAreFinite, TotalType
  <2> HIDE DEF Known, Day, row
  <2>12. TotalPercent(allocations, Day) <= MaxUtilisationPercent
    BY <2>4, <2>7, <2>8, <2>9, <2>10, <2>11, MaxAssumption
  <2> QED
    BY <2>12 DEF ComputeUtilisationOn, Day
<1> QED
  BY <1>2, <1>3

\* However requests interleave, roll back, end and deactivate, an engineer is over
\* the cap on a day only with two allocations that were validated blindly.
THEOREM BlindnessIsTheOnlyHole == Spec => []OverbookedOnlyBlindly
<1>1. Inv => OverbookedOnlyBlindly
  <2> SUFFICES ASSUME Inv, NEW u \in Engineers, NEW d \in Days,
                      ComputeUtilisationOn(allocations, u, d) > MaxUtilisationPercent
               PROVE  \E i, j \in ActiveOn(allocations, u, d) : Blind(i, j)
    BY DEF OverbookedOnlyBlindly
  <2>1. ComputeUtilisationOn(allocations, u, d) \in Nat
    BY UtilisationType DEF Inv, TypeOK
  <2> QED
    BY <2>1, InvKeepsCap, MaxAssumption
<1> QED
  BY <1>1, Invariance, PTL

\* The table of allocations is written by commits alone.
LEMMA OnlyCommitWrites ==
  ASSUME Next, allocations' # allocations
  PROVE  \E t \in Transactions : Commit(t)
<1>1. CASE \E t \in Requests : Start(t)
  BY <1>1 DEF Start, BeginAllocate, BeginEnd, BeginDeactivate
<1>2. CASE BeginTick
  BY <1>2 DEF BeginTick
<1>3. ASSUME NEW t \in Transactions, Continue(t)
      PROVE  Commit(t)
  <2>1. ~(ReadEngineer(t) \/ ValidateAndInsert(t) \/ LoadRow(t) \/ SelectActive(t))
    BY DEF ReadEngineer, ValidateAndInsert, LoadRow, SelectActive
  <2>2. ~(\E id \in AllocationIds : EndRow(t, id))
    BY DEF EndRow
  <2>3. ~(ComputeUtilisation(t) \/ StatusIsCurrent(t) \/ StatusDiffers(t))
    BY DEF ComputeUtilisation, StatusIsCurrent, StatusDiffers
  <2>4. ~(UpdateStatus(t) \/ Refuse(t))
    BY DEF UpdateStatus, Refuse
  <2> QED
    BY <1>3, <2>1, <2>2, <2>3, <2>4 DEF Continue
<1>4. CASE \E t \in Transactions : Rollback(t)
  BY <1>4 DEF Rollback
<1>5. CASE Administer
  BY <1>5 DEF Administer, AssignManager, UpdateProject, DeactivateUser, ReactivateUser
<1>6. CASE NextDay
  BY <1>6 DEF NextDay
<1> QED
  BY <1>1, <1>2, <1>3, <1>4, <1>5, <1>6 DEF Next

\* No step removes an allocation, reopens one, or turns it into another.
THEOREM AllocationsAreOnlyClosed == Spec => AllocationsOnlyClose
<1> DEFINE OnlyCloses ==
             \A i \in DOMAIN allocations :
               /\ i \in DOMAIN allocations'
               /\ SameAllocation(allocations'[i], allocations[i])
               /\ allocations[i].status = "ENDED" => allocations'[i].status = "ENDED"
<1>1. Inv /\ [Next]_vars => [OnlyCloses]_allocations
  <2> SUFFICES ASSUME Inv, [Next]_vars, allocations' # allocations PROVE OnlyCloses
    OBVIOUS
  <2>1. PICK t \in Transactions : Commit(t)
    BY OnlyCommitWrites DEF vars
  <2> QED
    BY <2>1, CommitCloses
<1> HIDE DEF OnlyCloses
<1>2. Spec => [][OnlyCloses]_allocations
  BY <1>1, Invariance, PTL DEF Spec
<1> QED
  BY <1>2 DEF OnlyCloses, AllocationsOnlyClose

-----------------------------------------------------------------------------
(***************************************************************************)
(* One request at a time.                                                  *)
(*                                                                         *)
(* With a single request in flight, beside the scheduler and the admin     *)
(* screens, what a request read is still so when it commits: a row about   *)
(* to be inserted was validated against all that is committed, and rows    *)
(* about to be closed are active and end as they were loaded.  So every    *)
(* commit is a step of the ledger.                                         *)
(***************************************************************************)

OneAtATime == \A r, s \in Requests : r = s

\* The rows that a request has closed or is going to close.
Touched(x) == DOMAIN x.rows \cup IF x.pc = "update_rows" THEN DOMAIN x.loaded ELSE {}

\* All of them are active, of one engineer, and end on the day the request names.
Closing(x) ==
  /\ \A i \in Touched(x) : i \in DOMAIN allocations /\ allocations[i].status = "ACTIVE"
  /\ \A i, j \in Touched(x) : allocations[i].user_id = allocations[j].user_id
  /\ \A i \in DOMAIN x.rows :
       x.rows[i] = [allocations[i] EXCEPT !.status = "ENDED", !.to_date = x.as_of]
  /\ x.pc = "update_rows" => \A i \in DOMAIN x.loaded : x.loaded[i] = allocations[i].to_date

\* What follows the row statements of a request, and all that a tick consists of.
Late == {"compute", "load_status", "update_status", "commit"}

\* One new row, validated against all that is committed.
Granting(x) ==
  /\ x.pc \in Late
  /\ \A i, j \in DOMAIN x.rows : i = j
  /\ \A i \in DOMAIN x.rows : i \notin DOMAIN allocations /\ seen[i] = DOMAIN allocations

Serial(x) ==
  /\ x.pc \in {"load_row", "select_active"} => x.rows = Empty
  /\ x.pc = "load_row" => \A i, j \in DOMAIN x.loaded : i = j
  /\ \A u, v \in x.blocks : u = v
  /\ Granting(x) \/ Closing(x)

\* The scheduler writes statuses alone.
TickOnly(x) ==
  /\ x.rows = Empty
  /\ x.blocks = {}
  /\ x.pc \in Late \cup {"idle"}

NoneBlind == \A i, j \in DOMAIN allocations : ~Blind(i, j)

SerialInv ==
  /\ TickOnly(tx[Scheduler])
  /\ \A r \in Requests : Serial(tx[r])
  /\ NoneBlind

\* A request that has written nothing.
LEMMA NothingWritten ==
  ASSUME NEW x, x.rows = Empty, x.pc # "update_rows"
  PROVE  Closing(x)
BY DEF Closing, Touched, Empty

LEMMA IdleIsSerial == Serial(Idle) /\ TickOnly(Idle)
<1>1. Idle.rows = Empty /\ Idle.pc = "idle" /\ Idle.blocks = {}
  BY DEF Idle
<1> HIDE DEF Idle
<1> QED
  BY <1>1, NothingWritten DEF Serial, TickOnly

LEMMA SerialInit == Init => SerialInv
<1> SUFFICES ASSUME Init PROVE SerialInv
  OBVIOUS
<1>1. \A t \in Transactions : tx[t] = Idle
  BY DEF Init
<1>2. \A r \in Requests : Serial(Idle)
  BY IdleIsSerial
<1>3. NoneBlind
  BY DEF Init, Empty, NoneBlind
<1> QED
  BY <1>1, <1>2, <1>3, IdleIsSerial DEF SerialInv, Transactions

\* A step of one transaction that commits nothing.
LEMMA SerialStep ==
  ASSUME Inv, SerialInv, NEW t \in Transactions, NEW x, tx' = [tx EXCEPT ![t] = x],
         UNCHANGED <<allocations, seen>>,
         t \in Requests => Serial(x), t \notin Requests => TickOnly(x)
  PROVE  SerialInv'
<1>1. /\ tx'[t] = x
      /\ \A s \in Transactions \ {t} : tx'[s] = tx[s]
  BY DEF Inv, TypeOK
<1>2. TickOnly(tx'[Scheduler])
  BY <1>1, SchedulerAssumption DEF SerialInv, Transactions
<1>3. \A r \in Requests : Serial(tx'[r])
  BY <1>1 DEF SerialInv, Transactions
<1>4. ASSUME NEW r \in Requests PROVE Serial(tx[r])'
  <2>1. PICK y : y = tx'[r]
    OBVIOUS
  <2>2. Serial(y)
    BY <1>3, <2>1
  <2>3. Granting(y) = Granting(tx[r])' /\ Closing(y) = Closing(tx[r])'
    BY <2>1 DEF Granting, Closing, Touched
  <2> QED
    BY <2>1, <2>2, <2>3 DEF Serial
<1>5. NoneBlind'
  BY DEF SerialInv, NoneBlind, Blind
<1> QED
  BY <1>2, <1>4, <1>5 DEF SerialInv, TickOnly

\* Whoever is before the synchronisation of the statuses is a request.
LEMMA RequestsAlone ==
  ASSUME SerialInv, NEW t \in Transactions, tx[t].pc \notin Late \cup {"idle"}
  PROVE  t \in Requests /\ Serial(tx[t])
BY DEF SerialInv, TickOnly, Transactions

\* The statements that read an engineer, or the rows to be closed.
LEMMA SerialReads ==
  ASSUME Inv, SerialInv, NEW t \in Transactions,
         ReadEngineer(t) \/ LoadRow(t) \/ SelectActive(t)
  PROVE  SerialInv'
<1>1. t \in Requests /\ Serial(tx[t])
  BY RequestsAlone DEF ReadEngineer, LoadRow, SelectActive, Late
<1>2. IsTransaction(tx[t]) /\ Ready(tx[t])
  BY DEF Inv, TypeOK
<1>3. CASE ReadEngineer(t)
  <2> DEFINE x == [tx[t] EXCEPT !.pc = "validate"]
  <2>1. x.pc = "validate" /\ x.rows = Empty /\ x.blocks = tx[t].blocks
    BY <1>2, <1>3 DEF ReadEngineer, Ready, IsTransaction, Idle
  <2>2. tx' = [tx EXCEPT ![t] = x] /\ UNCHANGED <<allocations, seen>>
    BY <1>3 DEF ReadEngineer
  <2> HIDE DEF x
  <2>3. Serial(x)
    BY <1>1, <2>1, NothingWritten DEF Serial
  <2> QED
    BY <1>1, <2>2, <2>3, SerialStep
<1>4. CASE LoadRow(t)
  <2> DEFINE x == [tx[t] EXCEPT !.pc = "update_rows",
                                !.loaded = [i \in DOMAIN @ |-> allocations[i].to_date]]
  <2>1. /\ x.pc = "update_rows" /\ x.rows = Empty /\ x.blocks = tx[t].blocks
        /\ x.loaded = [i \in DOMAIN tx[t].loaded |-> allocations[i].to_date]
    BY <1>1, <1>2, <1>4 DEF LoadRow, Serial, IsTransaction, Idle
  <2>2. tx' = [tx EXCEPT ![t] = x] /\ UNCHANGED <<allocations, seen>>
    BY <1>4 DEF LoadRow
  <2> HIDE DEF x
  <2>3. /\ \A i \in DOMAIN tx[t].loaded :
             i \in DOMAIN allocations /\ allocations[i].status = "ACTIVE"
        /\ \A i, j \in DOMAIN tx[t].loaded : i = j
    BY <1>1, <1>2, <1>4 DEF LoadRow, Ready, Serial
  <2>4. Closing(x)
    BY <2>1, <2>3 DEF Closing, Touched, Empty
  <2>5. Serial(x)
    BY <1>1, <2>1, <2>4 DEF Serial
  <2> QED
    BY <1>1, <2>2, <2>5, SerialStep
<1>5. CASE SelectActive(t)
  <2> DEFINE active == UNION {FindActiveByUser(allocations, u) : u \in tx[t].blocks}
             x == [tx[t] EXCEPT !.pc = IF active = {} THEN "commit" ELSE "update_rows",
                                !.as_of = today,
                                !.loaded = [i \in active |-> allocations[i].to_date]]
  <2>1. tx' = [tx EXCEPT ![t] = x] /\ UNCHANGED <<allocations, seen>>
    BY <1>5 DEF SelectActive
  <2>2. \A u, v \in tx[t].blocks : u = v
    BY <1>1 DEF Serial
  <2>3. /\ \A i \in active : i \in DOMAIN allocations /\ allocations[i].status = "ACTIVE"
        /\ \A i, j \in active : allocations[i].user_id = allocations[j].user_id
    BY <2>2 DEF FindActiveByUser
  <2> HIDE DEF active
  <2>4. /\ x.pc \in {"commit", "update_rows"}
        /\ x.rows = Empty /\ x.blocks = tx[t].blocks
        /\ x.loaded = [i \in active |-> allocations[i].to_date]
    BY <1>1, <1>2, <1>5 DEF SelectActive, Serial, IsTransaction, Idle
  <2> HIDE DEF x
  <2>5. Closing(x)
    BY <2>3, <2>4 DEF Closing, Touched, Empty
  <2>6. Serial(x)
    BY <1>1, <2>4, <2>5 DEF Serial
  <2> QED
    BY <1>1, <2>1, <2>6, SerialStep
<1> QED
  BY <1>3, <1>4, <1>5

\* The synchronisation of a status leaves the rows alone.
LEMMA SerialSyncs ==
  ASSUME Inv, SerialInv, NEW t \in Transactions,
         ComputeUtilisation(t) \/ StatusIsCurrent(t) \/ StatusDiffers(t) \/ UpdateStatus(t)
  PROVE  SerialInv'
<1>1. IsTransaction(tx[t]) /\ tx[t].pc \in Late /\ UNCHANGED <<allocations, seen>>
  BY DEF Inv, TypeOK, ComputeUtilisation, StatusIsCurrent, StatusDiffers, UpdateStatus, Late
<1>2. PICK x : /\ tx' = [tx EXCEPT ![t] = x]
               /\ x.pc \in Late /\ x.rows = tx[t].rows
               /\ x.as_of = tx[t].as_of /\ x.blocks = tx[t].blocks
  <2>1. CASE ComputeUtilisation(t)
    <3> DEFINE x == [tx[t] EXCEPT !.pc = "load_status",
                       !.percent = ComputeUtilisationOn(Visible(t), First(tx[t].queue),
                                                        tx[t].as_of)]
    <3>1. tx' = [tx EXCEPT ![t] = x]
      BY <2>1 DEF ComputeUtilisation
    <3>2. x.pc \in Late /\ x.rows = tx[t].rows /\ x.as_of = tx[t].as_of /\ x.blocks = tx[t].blocks
      BY <1>1 DEF IsTransaction, Idle, Late
    <3> QED
      BY <3>1, <3>2
  <2>2. CASE StatusIsCurrent(t)
    <3> DEFINE x == [tx[t] EXCEPT !.pc = AfterSync(t), !.queue = @ \ {First(@)}]
    <3>1. tx' = [tx EXCEPT ![t] = x]
      BY <2>2 DEF StatusIsCurrent
    <3>2. x.pc \in Late /\ x.rows = tx[t].rows /\ x.as_of = tx[t].as_of /\ x.blocks = tx[t].blocks
      BY <1>1 DEF IsTransaction, Idle, Late, AfterSync
    <3> QED
      BY <3>1, <3>2
  <2>3. CASE StatusDiffers(t)
    <3> DEFINE x == [tx[t] EXCEPT !.pc = "update_status", !.columns = Differing(t)]
    <3>1. tx' = [tx EXCEPT ![t] = x]
      BY <2>3 DEF StatusDiffers
    <3>2. x.pc \in Late /\ x.rows = tx[t].rows /\ x.as_of = tx[t].as_of /\ x.blocks = tx[t].blocks
      BY <1>1 DEF IsTransaction, Idle, Late
    <3> QED
      BY <3>1, <3>2
  <2>4. CASE UpdateStatus(t)
    <3> DEFINE written == [u \in {First(tx[t].queue)} |->
                             UpdatedStatus(resource_status[u], StatusOf(tx[t].percent),
                                           tx[t].columns)]
               x == [tx[t] EXCEPT !.pc = AfterSync(t), !.queue = @ \ {First(@)},
                                  !.columns = {}, !.statuses = Overlay(@, written)]
    <3>1. tx' = [tx EXCEPT ![t] = x]
      BY <2>4 DEF UpdateStatus
    <3> HIDE DEF written
    <3>2. x.pc \in Late /\ x.rows = tx[t].rows /\ x.as_of = tx[t].as_of /\ x.blocks = tx[t].blocks
      BY <1>1 DEF IsTransaction, Idle, Late, AfterSync
    <3> QED
      BY <3>1, <3>2
  <2> QED
    BY <2>1, <2>2, <2>3, <2>4
<1>3. ASSUME t \in Requests PROVE Serial(x)
  <2>1. Serial(tx[t])
    BY <1>3 DEF SerialInv
  <2>2. Touched(x) = Touched(tx[t])
    BY <1>1, <1>2 DEF Touched, Late
  <2>3. Granting(tx[t]) => Granting(x)
    BY <1>2 DEF Granting
  <2>4. Closing(tx[t]) => Closing(x)
    BY <1>2, <2>2 DEF Closing, Late
  <2> QED
    BY <1>2, <2>1, <2>3, <2>4 DEF Serial, Late
<1>4. ASSUME t \notin Requests PROVE TickOnly(x)
  BY <1>2, <1>4 DEF SerialInv, TickOnly, Transactions
<1> QED
  BY <1>1, <1>2, <1>3, <1>4, SerialStep

LEMMA SerialEndRow ==
  ASSUME Inv, SerialInv, NEW t \in Transactions, NEW id \in AllocationIds, EndRow(t, id)
  PROVE  SerialInv'
<1> DEFINE row == Ended(allocations[id], tx[t].loaded[id], tx[t].as_of)
           x == [tx[t] EXCEPT !.pc = AfterRows(t, id),
                              !.loaded = Without(@, id),
                              !.rows = Overlay(@, [i \in {id} |-> row])]
<1>1. t \in Requests /\ Serial(tx[t]) /\ tx[t].pc = "update_rows"
  BY RequestsAlone DEF EndRow, Late
<1>2. IsTransaction(tx[t]) /\ Ready(tx[t]) /\ Closing(tx[t])
  BY <1>1 DEF Inv, TypeOK, Serial, Granting, Late
<1>3. id \in DOMAIN tx[t].loaded
  <2>1. DOMAIN tx[t].loaded \subseteq Nat /\ DOMAIN tx[t].loaded # {}
    BY <1>1, <1>2, BoundsAssumption DEF IsTransaction, IsPartial, AllocationIds, Ready
  <2>2. First(DOMAIN tx[t].loaded) \in DOMAIN tx[t].loaded
    BY <2>1, FirstIsLeast
  <2> QED
    BY <2>2 DEF EndRow, NextLoaded
<1>4. row = [allocations[id] EXCEPT !.status = "ENDED", !.to_date = tx[t].as_of]
  <2>1. allocations[id] \in Row /\ tx[t].loaded[id] = allocations[id].to_date
    BY <1>1, <1>2, <1>3 DEF Inv, TypeOK, IsPartial, Ready, Closing
  <2> QED
    BY <2>1 DEF Ended, Row
<1>5. tx' = [tx EXCEPT ![t] = x] /\ UNCHANGED <<allocations, seen>>
  BY DEF EndRow
<1> HIDE DEF row
<1>6. /\ x.pc \in {"update_rows"} \cup Late
      /\ x.loaded = Without(tx[t].loaded, id)
      /\ x.rows = Overlay(tx[t].rows, [i \in {id} |-> row])
      /\ x.as_of = tx[t].as_of
      /\ x.blocks = tx[t].blocks
  BY <1>2 DEF IsTransaction, Idle, AfterRows, Late
<1> HIDE DEF x
<1>7. Touched(x) \subseteq Touched(tx[t])
  BY <1>1, <1>3, <1>6 DEF Touched, Without, Overlay
<1>8. Closing(x)
  <2>1. \A i \in DOMAIN x.rows :
          x.rows[i] = [allocations[i] EXCEPT !.status = "ENDED", !.to_date = x.as_of]
    BY <1>2, <1>4, <1>6 DEF Closing, Overlay
  <2>2. \A i \in DOMAIN x.loaded : x.loaded[i] = allocations[i].to_date
    BY <1>1, <1>2, <1>6 DEF Closing, Without
  <2> QED
    BY <1>2, <1>7, <2>1, <2>2 DEF Closing
<1>9. Serial(x)
  BY <1>1, <1>6, <1>8 DEF Serial, Late
<1> QED
  BY <1>1, <1>5, <1>9, SerialStep

\* Nobody else can have a row that the new one was not validated against.
LEMMA SerialInsert ==
  ASSUME OneAtATime, Inv, SerialInv, NEW t \in Transactions, ValidateAndInsert(t)
  PROVE  SerialInv'
<1> DEFINE id == next_id
           row == tx[t].row
           x == [tx[t] EXCEPT !.pc = "compute", !.row = NoRow, !.as_of = row.from_date,
                              !.queue = {row.user_id}, !.rows = [i \in {id} |-> row]]
<1>1. t \in Requests /\ Serial(tx[t]) /\ IsTransaction(tx[t])
  BY RequestsAlone DEF ValidateAndInsert, Late, Inv, TypeOK
<1>2. id \in AllocationIds /\ \A i \in DOMAIN allocations : i \in AllocationIds /\ i < id
  BY BoundsAssumption
  DEF Inv, TypeOK, Earlier, IsPartial, ValidateAndInsert, Accepts, AllocationIds
<1>3. id \notin DOMAIN allocations
  BY <1>2 DEF AllocationIds
<1>4. /\ UNCHANGED allocations
      /\ seen'[id] = DOMAIN allocations
      /\ \A i \in DOMAIN allocations : seen'[i] = seen[i]
  BY <1>2, <1>3 DEF Inv, TypeOK, ValidateAndInsert
<1>5. tx' = [tx EXCEPT ![t] = x]
  BY DEF ValidateAndInsert
<1> HIDE DEF row, id
<1>6. x.pc = "compute" /\ x.rows = [i \in {id} |-> row] /\ x.blocks = tx[t].blocks
  BY <1>1 DEF IsTransaction, Idle
<1> HIDE DEF x
<1>7. tx'[t] = x /\ tx'[Scheduler] = tx[Scheduler]
  BY <1>1, <1>5, SchedulerAssumption DEF Inv, TypeOK, Transactions
<1>8. TickOnly(tx[Scheduler])'
  BY <1>7 DEF SerialInv, TickOnly
<1>9. ASSUME NEW r \in Requests PROVE Serial(tx[r])'
  <2>1. tx'[r] = x
    BY <1>1, <1>7 DEF OneAtATime
  <2>2. Granting(tx[r])'
    BY <1>3, <1>4, <1>6, <2>1 DEF Granting, Late
  <2> QED
    BY <1>1, <1>6, <2>1, <2>2 DEF Serial
<1>10. NoneBlind'
  BY <1>4 DEF SerialInv, NoneBlind, Blind
<1> QED
  BY <1>8, <1>9, <1>10 DEF SerialInv

LEMMA SerialCommit ==
  ASSUME OneAtATime, Inv, SerialInv, NEW t \in Transactions, Commit(t)
  PROVE  SerialInv'
<1>1. /\ tx'[t] = Idle
      /\ \A s \in Transactions \ {t} : tx'[s] = tx[s]
      /\ allocations' = Visible(t)
      /\ UNCHANGED seen
  BY DEF Inv, TypeOK, Commit
<1>2. TickOnly(tx'[Scheduler])
  BY <1>1, IdleIsSerial DEF SerialInv, Transactions
<1>3. CASE t \in Requests
  <2>1. ASSUME NEW r \in Requests PROVE Serial(tx[r])'
    <3>1. tx'[r] = Idle
      BY <1>1, <1>3 DEF OneAtATime
    <3>2. Idle.rows = Empty /\ Idle.pc = "idle" /\ Idle.blocks = {}
      BY DEF Idle
    <3>3. Closing(tx[r])'
      BY <3>1, <3>2 DEF Closing, Touched, Empty
    <3> QED
      BY <3>1, <3>2, <3>3 DEF Serial
  <2>2. NoneBlind'
    <3> DEFINE rows == tx[t].rows
    <3>1. Serial(tx[t]) /\ tx[t].pc = "commit"
      BY <1>3 DEF SerialInv, Commit
    <3>2. DOMAIN allocations' = DOMAIN allocations \cup DOMAIN rows
      BY <1>1 DEF Visible, Overlay
    <3>3. CASE Closing(tx[t])
      <4>1. DOMAIN allocations' = DOMAIN allocations
        BY <3>2, <3>3 DEF Closing, Touched
      <4> QED
        BY <1>1, <4>1 DEF SerialInv, NoneBlind, Blind
    <3>4. CASE Granting(tx[t])
      <4>1. \A i \in DOMAIN rows : seen[i] = DOMAIN allocations
        BY <3>4 DEF Granting
      <4>2. \A i, j \in DOMAIN rows : i = j
        BY <3>4 DEF Granting
      <4> HIDE DEF rows
      <4>3. ASSUME NEW i \in DOMAIN allocations', NEW j \in DOMAIN allocations'
            PROVE  ~Blind(i, j)
        <5>1. CASE i \in DOMAIN allocations /\ j \in DOMAIN allocations
          BY <5>1 DEF SerialInv, NoneBlind
        <5>2. CASE i \in DOMAIN rows
          BY <3>2, <4>1, <4>2, <5>2 DEF Blind
        <5>3. CASE j \in DOMAIN rows
          BY <3>2, <4>1, <4>2, <5>3 DEF Blind
        <5> QED
          BY <3>2, <5>1, <5>2, <5>3
      <4> QED
        BY <1>1, <4>3 DEF NoneBlind, Blind
    <3> QED
      BY <3>1, <3>3, <3>4 DEF Serial
  <2> QED
    BY <1>2, <2>1, <2>2 DEF SerialInv, TickOnly
<1>4. CASE t \notin Requests
  <2>1. tx[t].rows = Empty
    BY <1>4 DEF SerialInv, TickOnly, Transactions
  <2>2. allocations' = allocations
    BY <1>1, <2>1 DEF Visible, Overlay, Empty, Inv, TypeOK, IsPartial
  <2>3. tx' = [tx EXCEPT ![t] = Idle]
    BY DEF Commit
  <2> QED
    BY <1>1, <1>4, <2>2, <2>3, IdleIsSerial, SerialStep
<1> QED
  BY <1>3, <1>4

\* What a request begins with.
LEMMA SerialBegins ==
  ASSUME Inv, SerialInv, NEW t \in Requests, Start(t)
  PROVE  SerialInv'
<1>1. t \in Transactions
  BY DEF Transactions
<1>2. ASSUME NEW row, BeginAllocate(t, row) PROVE SerialInv'
  <2> DEFINE x == [Idle EXCEPT !.op = "allocate", !.pc = "read_engineer", !.row = row]
  <2>1. tx' = [tx EXCEPT ![t] = x] /\ UNCHANGED <<allocations, seen>>
    BY <1>2 DEF BeginAllocate
  <2>2. x.pc = "read_engineer" /\ x.rows = Empty /\ x.blocks = {}
    BY DEF Idle
  <2> HIDE DEF x
  <2>3. Serial(x)
    BY <2>2, NothingWritten DEF Serial
  <2> QED
    BY <1>1, <2>1, <2>3, SerialStep
<1>3. ASSUME NEW m, NEW id, NEW d, BeginEnd(t, m, id, d) PROVE SerialInv'
  <2> DEFINE x == [Idle EXCEPT !.op = "end", !.pc = "load_row", !.as_of = d,
                               !.loaded = [i \in {id} |-> allocations[id].to_date],
                               !.queue = {allocations[id].user_id}]
  <2>1. tx' = [tx EXCEPT ![t] = x] /\ UNCHANGED <<allocations, seen>>
    BY <1>3 DEF BeginEnd
  <2>2. x.pc = "load_row" /\ x.rows = Empty /\ x.blocks = {} /\ DOMAIN x.loaded = {id}
    BY DEF Idle
  <2> HIDE DEF x
  <2>3. Serial(x)
    BY <2>2, NothingWritten DEF Serial
  <2> QED
    BY <1>1, <2>1, <2>3, SerialStep
<1>4. ASSUME NEW u, BeginDeactivate(t, u) PROVE SerialInv'
  <2> DEFINE x == [Idle EXCEPT !.op = "deactivate", !.pc = "select_active", !.blocks = {u}]
  <2>1. tx' = [tx EXCEPT ![t] = x] /\ UNCHANGED <<allocations, seen>>
    BY <1>4 DEF BeginDeactivate
  <2>2. x.pc = "select_active" /\ x.rows = Empty /\ x.blocks = {u}
    BY DEF Idle
  <2> HIDE DEF x
  <2>3. Serial(x)
    BY <2>2, NothingWritten DEF Serial
  <2> QED
    BY <1>1, <2>1, <2>3, SerialStep
<1> QED
  BY <1>2, <1>3, <1>4 DEF Start

LEMMA SerialNext == OneAtATime /\ Inv /\ SerialInv /\ [Next]_vars => SerialInv'
<1> SUFFICES ASSUME OneAtATime, Inv, SerialInv, [Next]_vars PROVE SerialInv'
  OBVIOUS
<1>1. ASSUME NEW t \in Transactions, Refuse(t) \/ Rollback(t) PROVE SerialInv'
  <2>1. tx' = [tx EXCEPT ![t] = Idle] /\ UNCHANGED <<allocations, seen>>
    BY <1>1 DEF Refuse, Rollback
  <2> QED
    BY <2>1, IdleIsSerial, SerialStep
<1>2. CASE BeginTick
  <2> DEFINE active == {u \in Engineers : users[u].account_status = "ACTIVE"}
             x == [Idle EXCEPT !.op = "tick", !.pc = "compute", !.as_of = today,
                               !.queue = active]
  <2>1. tx' = [tx EXCEPT ![Scheduler] = x] /\ UNCHANGED <<allocations, seen>>
    BY <1>2 DEF BeginTick
  <2>2. TickOnly(x)
    BY DEF TickOnly, Idle, Late
  <2> HIDE DEF x
  <2> QED
    BY <2>1, <2>2, SchedulerAssumption, SerialStep DEF Transactions
<1>3. CASE Administer \/ NextDay \/ UNCHANGED vars
  <2>1. UNCHANGED <<allocations, tx, seen>>
    BY <1>3 DEF Administer, AssignManager, UpdateProject, DeactivateUser, ReactivateUser,
        NextDay, vars
  <2>2. ASSUME NEW r \in Requests PROVE Serial(tx[r])'
    <3>1. Granting(tx[r]) = Granting(tx[r])' /\ Closing(tx[r]) = Closing(tx[r])'
      BY <2>1 DEF Granting, Closing, Touched
    <3>2. Serial(tx[r])
      BY DEF SerialInv
    <3> QED
      BY <2>1, <3>1, <3>2 DEF Serial
  <2> QED
    BY <2>1, <2>2 DEF SerialInv, TickOnly, NoneBlind, Blind
<1>4. ASSUME NEW t \in Transactions, Continue(t) PROVE SerialInv'
  BY <1>1, <1>4, SerialReads, SerialInsert, SerialEndRow, SerialSyncs, SerialCommit
  DEF Continue
<1> QED
  BY <1>1, <1>2, <1>3, <1>4, SerialBegins DEF Next

\* The committed rows that a commit rewrites were active.
LEMMA SerialCommitCloses ==
  ASSUME Inv, SerialInv, NEW t \in Transactions, Commit(t),
         NEW i \in DOMAIN allocations, allocations'[i] # allocations[i]
  PROVE  allocations[i].status = "ACTIVE"
<1>1. allocations' = Overlay(allocations, tx[t].rows)
  BY DEF Commit, Visible
<1>2. i \in DOMAIN tx[t].rows
  BY <1>1 DEF Overlay
<1>3. t \in Requests
  BY <1>2 DEF SerialInv, TickOnly, Empty, Transactions
<1>4. Closing(tx[t])
  BY <1>2, <1>3 DEF SerialInv, Serial, Granting
<1> QED
  BY <1>2, <1>4 DEF Closing, Touched

\* A row of the ledger is granted, or some rows are closed, when a commit changes the
\* table at all.
LEMMA CommitKeepsLedger ==
  ASSUME Inv, SerialInv, NEW t \in Transactions, Commit(t), allocations' # allocations
  PROVE  Ledger!Next
<1> DEFINE rows == tx[t].rows
           new == allocations'
<1>1. new = Overlay(allocations, rows) /\ tx[t].pc = "commit"
  BY DEF Commit, Visible
<1>2. /\ IsPartial(allocations, AllocationIds, Row)
      /\ IsPartial(rows, AllocationIds, Row)
      /\ tx[t].as_of \in Days
      /\ Wrote(tx[t])
  BY DEF Inv, TypeOK, IsTransaction
<1>3. rows # Empty
  BY <1>1, <1>2 DEF Overlay, Empty, IsPartial
<1>4. DOMAIN rows # {}
  BY <1>2, <1>3 DEF Empty, IsPartial
<1>5. t \in Requests /\ Serial(tx[t])
  BY <1>3 DEF SerialInv, TickOnly, Transactions
<1>6. CASE Granting(tx[t])
  <2>1. PICK id : DOMAIN rows = {id}
    BY <1>4, <1>6 DEF Granting
  <2>2. PICK row : row = rows[id]
    OBVIOUS
  <2>3. /\ id \in AllocationIds /\ row \in Row
        /\ id \notin DOMAIN allocations /\ seen[id] = DOMAIN allocations
        /\ row.status = "ACTIVE" /\ Fits(id, row)
    BY <1>2, <1>6, <2>1, <2>2 DEF IsPartial, Granting, Wrote
  <2> HIDE DEF rows
  <2>4. new = [i \in DOMAIN allocations \cup {id} |-> IF i = id THEN row ELSE allocations[i]]
    BY <1>1, <2>1, <2>2 DEF Overlay
  <2>5. ASSUME NEW d \in Days, Covers(row, d)
        PROVE  ComputeUtilisationOn(allocations, row.user_id, d) + row.utilisation_percent
                 <= MaxUtilisationPercent
    <3> DEFINE Day == ActiveOn(allocations, row.user_id, d)
               Period == FindOverlapping(allocations, row.user_id, row.from_date, row.to_date)
    <3>1. DOMAIN allocations \subseteq AllocationIds
      BY <1>2 DEF IsPartial
    <3>2. Day \subseteq Period
      <4>1. SUFFICES ASSUME NEW i \in Day PROVE i \in Period
        OBVIOUS
      <4>2. /\ i \in FindActiveByUser(allocations, row.user_id)
            /\ allocations[i] \in Row
            /\ allocations[i].status = "ACTIVE" /\ Covers(allocations[i], d)
        BY <1>2 DEF ActiveOn, IsActiveOn, FindActiveByUser, IsPartial
      <4>3. /\ d \in Int
            /\ row.from_date \in Int /\ row.to_date \in Int \cup {NoDate}
            /\ allocations[i].from_date \in Int
            /\ allocations[i].to_date \in Int \cup {NoDate}
        BY <2>3, <4>2 DEF Row, Days, EndDates
      <4>4. OverlapsPeriod(allocations[i], row.from_date, row.to_date)
        BY <2>5, <4>2, <4>3, SameDayOverlaps
      <4> QED
        BY <4>2, <4>4 DEF FindOverlapping
    <3>3. Period \subseteq AllocationIds /\ seen[id] \cap Period = Period
      BY <2>3, <3>1 DEF FindOverlapping, FindActiveByUser
    <3>4. IsFiniteSet(Period) /\ IsFiniteSet(Day)
      BY <3>2, <3>3, IdsAreFinite
    <3>5. TotalPercent(allocations, Day) <= TotalPercent(allocations, Period)
      BY <3>2, <3>4, TotalMonotone
    <3>6. TotalPercent(allocations, Period) + row.utilisation_percent <= MaxUtilisationPercent
      BY <2>3, <3>3 DEF Fits
    <3>7. /\ TotalPercent(allocations, Period) \in Nat
          /\ TotalPercent(allocations, Day) \in Nat
          /\ row.utilisation_percent \in Nat
      BY <2>3, <3>4, TotalType, MaxAssumption DEF Row
    <3> HIDE DEF Day, Period
    <3>8. TotalPercent(allocations, Day) + row.utilisation_percent <= MaxUtilisationPercent
      BY <3>5, <3>6, <3>7, MaxAssumption
    <3> QED
      BY <3>8 DEF Day, ComputeUtilisationOn
  <2>6. Ledger!Grant(id, row)
    <3>1. ASSUME NEW r, NEW d PROVE Ledger!Covers(r, d) = Covers(r, d)
      BY DEF Ledger!Covers, Covers
    <3>2. ASSUME NEW d
          PROVE  Ledger!ComputeUtilisationOn(allocations, row.user_id, d)
                   = ComputeUtilisationOn(allocations, row.user_id, d)
      <4>1. Ledger!ActiveOn(allocations, row.user_id, d) = ActiveOn(allocations, row.user_id, d)
        BY <3>1 DEF Ledger!ActiveOn, ActiveOn, Ledger!FindActiveByUser, FindActiveByUser,
            Ledger!IsActiveOn, IsActiveOn
      <4>2. ASSUME NEW S PROVE Ledger!TotalPercent(allocations, S) = TotalPercent(allocations, S)
        <5>1. Ledger!Points(allocations, S) = Points(allocations, S)
          BY DEF Ledger!Points, Points
        <5> QED
          BY <5>1 DEF Ledger!TotalPercent, TotalPercent, Ledger!Cardinality, Cardinality
      <4> QED
        BY <4>1, <4>2 DEF Ledger!ComputeUtilisationOn, ComputeUtilisationOn
    <3> QED
      BY <2>3, <2>4, <2>5, <3>1, <3>2 DEF Ledger!Grant
  <2> QED
    BY <2>3, <2>6 DEF Ledger!Next
<1>7. CASE Closing(tx[t])
  <2> DEFINE S == DOMAIN rows
             day == tx[t].as_of
  <2>1. PICK i \in S : TRUE
    BY <1>4
  <2>2. PICK user : user = allocations[i].user_id
    OBVIOUS
  <2>3. /\ S \subseteq DOMAIN allocations
        /\ \A j \in S : allocations[j].status = "ACTIVE" /\ allocations[j].user_id = user
    BY <1>7, <2>2 DEF Closing, Touched
  <2>4. new = [j \in DOMAIN allocations |->
                 IF j \in S THEN [allocations[j] EXCEPT !.status = "ENDED", !.to_date = day]
                            ELSE allocations[j]]
    BY <1>1, <1>7, <2>3 DEF Closing, Overlay
  <2> HIDE DEF S, day
  <2>5. Ledger!Close(user, S, day)
    BY <1>4, <2>3, <2>4 DEF Ledger!Close, Ledger!FindActiveByUser, S
  <2> QED
    BY <1>2, <2>1, <2>2, <2>3, <2>5 DEF Ledger!Next, day
<1> QED
  BY <1>5, <1>6, <1>7 DEF Serial

\* Requests that follow one another keep the cap on every day, whatever the scheduler
\* and the admin screens do beside them: no two of their rows are validated blindly.
THEOREM OneRequestKeepsCap == OneAtATime => (Spec => []UtilisationCap)
<1> SUFFICES ASSUME OneAtATime PROVE Spec => []UtilisationCap
  OBVIOUS
<1>1. Init => SerialInv
  BY SerialInit
<1>2. Inv /\ SerialInv /\ [Next]_vars => SerialInv'
  BY SerialNext
<1>3. Inv /\ SerialInv => UtilisationCap
  <2> SUFFICES ASSUME Inv, SerialInv, NEW u \in Engineers, NEW d \in Days
               PROVE  ComputeUtilisationOn(allocations, u, d) <= MaxUtilisationPercent
    BY DEF UtilisationCap
  <2>1. \A i, j \in ActiveOn(allocations, u, d) : ~Blind(i, j)
    BY DEF SerialInv, NoneBlind, ActiveOn, FindActiveByUser
  <2> QED
    BY <2>1, InvKeepsCap
<1> QED
  BY <1>1, <1>2, <1>3, Invariance, PTL DEF Spec

\* An end that does not overlap another request never overwrites one: rows that have
\* ended keep the day they ended on.
THEOREM EndedStayEnded == OneAtATime => (Spec => EndedRowsAreFinal)
<1> SUFFICES ASSUME OneAtATime PROVE Spec => EndedRowsAreFinal
  OBVIOUS
<1> DEFINE Final == \A i \in DOMAIN allocations :
                      allocations[i].status = "ENDED" => allocations'[i] = allocations[i]
<1>1. Init => SerialInv
  BY SerialInit
<1>2. Inv /\ SerialInv /\ [Next]_vars => SerialInv'
  BY SerialNext
<1>3. Inv /\ SerialInv /\ [Next]_vars => [Final]_allocations
  <2> SUFFICES ASSUME Inv, SerialInv, [Next]_vars, allocations' # allocations PROVE Final
    OBVIOUS
  <2>1. PICK t \in Transactions : Commit(t)
    BY OnlyCommitWrites DEF vars
  <2> QED
    BY <2>1, SerialCommitCloses
<1> HIDE DEF Final
<1>4. Spec => [][Final]_allocations
  BY <1>1, <1>2, <1>3, Invariance, PTL DEF Spec
<1> QED
  BY <1>4 DEF Final, EndedRowsAreFinal

\* One at a time, requests implement the ledger: the table starts empty, a commit grants
\* one row within the cap or closes active rows of one engineer, and every other step of
\* a request, the scheduler or an admin leaves the table as it is.
THEOREM LedgerIsKept == OneAtATime => (Spec => KeepsLedger)
<1> SUFFICES ASSUME OneAtATime PROVE Spec => KeepsLedger
  OBVIOUS
<1>1. Init => SerialInv
  BY SerialInit
<1>2. Inv /\ SerialInv /\ [Next]_vars => SerialInv'
  BY SerialNext
<1>3. Init => Ledger!Init
  BY DEF Init, Empty, Ledger!Init
<1>4. Inv /\ SerialInv /\ [Next]_vars => [Ledger!Next]_allocations
  <2> SUFFICES ASSUME Inv, SerialInv, [Next]_vars, allocations' # allocations
               PROVE  Ledger!Next
    OBVIOUS
  <2>1. PICK t \in Transactions : Commit(t)
    BY OnlyCommitWrites DEF vars
  <2> QED
    BY <2>1, CommitKeepsLedger
<1> QED
  BY <1>1, <1>2, <1>3, <1>4, Invariance, PTL DEF Spec, KeepsLedger, Ledger!Spec

-----------------------------------------------------------------------------
(***************************************************************************)
(* Deactivated employees, without the screen that only blocks a login.     *)
(***************************************************************************)

\* Every handler but deactivate_user.
EmployeeScreens ==
  Init /\ [][Next /\ ~ \E u \in Engineers : DeactivateUser(u)]_vars

\* What a request is going to do to an account, and what it relies on: a deactivation
\* has at hand every active allocation of the employee, and a new row is for an
\* employee whose account is active.
Blocking(x) ==
  /\ x.pc = "validate" => users[x.row.user_id].account_status = "ACTIVE"
  /\ x.blocks # {} => x.pc \in {"select_active", "update_rows", "commit"} /\ x.queue = {}
  /\ x.pc # "select_active" =>
       \A u \in x.blocks : FindActiveByUser(allocations, u) \subseteq Touched(x)
  /\ \A i \in DOMAIN x.rows : x.rows[i].status = "ACTIVE" =>
       x.blocks = {} /\ users[x.rows[i].user_id].account_status = "ACTIVE"

BlockInv ==
  /\ \A r \in Requests : Blocking(tx[r])
  /\ DeactivatedHoldNone

\* A transaction that neither blocks nor has rows, and is not about to insert one.
LEMMA BlockingNothing ==
  ASSUME NEW x, x.rows = Empty, x.blocks = {}, x.pc # "validate"
  PROVE  Blocking(x)
BY DEF Blocking, Empty

LEMMA BlockInit == Init => BlockInv
<1> SUFFICES ASSUME Init PROVE BlockInv
  OBVIOUS
<1>1. Idle.rows = Empty /\ Idle.blocks = {} /\ Idle.pc = "idle"
  BY DEF Idle
<1>2. \A r \in Requests : tx[r] = Idle
  BY DEF Init, Transactions
<1>3. DeactivatedHoldNone
  BY DEF Init, DeactivatedHoldNone
<1> HIDE DEF Idle
<1> QED
  BY <1>1, <1>2, <1>3, BlockingNothing DEF BlockInv

\* A step of a request that commits nothing.
LEMMA BlockStep ==
  ASSUME Inv, BlockInv, NEW t \in Transactions, NEW x, tx' = [tx EXCEPT ![t] = x],
         UNCHANGED <<users, allocations>>,
         t \in Requests => Blocking(x)
  PROVE  BlockInv'
<1>1. /\ tx'[t] = x
      /\ \A s \in Transactions \ {t} : tx'[s] = tx[s]
  BY DEF Inv, TypeOK
<1>2. ASSUME NEW r \in Requests PROVE Blocking(tx[r])'
  <2>1. PICK y : y = tx'[r]
    OBVIOUS
  <2>2. Blocking(y)
    BY <1>1, <2>1 DEF BlockInv, Transactions
  <2>3. Touched(y) = Touched(tx[r])'
    BY <2>1 DEF Touched
  <2> QED
    BY <2>1, <2>2, <2>3 DEF Blocking
<1>3. DeactivatedHoldNone'
  BY DEF BlockInv, DeactivatedHoldNone
<1> QED
  BY <1>2, <1>3 DEF BlockInv

LEMMA BlockReads ==
  ASSUME Inv, SerialInv, BlockInv, NEW t \in Transactions,
         ReadEngineer(t) \/ LoadRow(t) \/ SelectActive(t)
  PROVE  BlockInv'
<1>1. t \in Requests /\ Serial(tx[t])
  BY RequestsAlone DEF ReadEngineer, LoadRow, SelectActive, Late
<1>2. IsTransaction(tx[t]) /\ Ready(tx[t]) /\ Blocking(tx[t])
  BY <1>1 DEF Inv, TypeOK, BlockInv
<1>3. CASE ReadEngineer(t)
  <2> DEFINE x == [tx[t] EXCEPT !.pc = "validate"]
  <2>1. tx' = [tx EXCEPT ![t] = x] /\ UNCHANGED <<users, allocations>>
    BY <1>3 DEF ReadEngineer
  <2>2. x.row = tx[t].row /\ x.rows = Empty /\ x.blocks = {}
    BY <1>2, <1>3 DEF ReadEngineer, Ready, Blocking, IsTransaction, Idle
  <2> HIDE DEF x
  <2>3. Blocking(x)
    BY <1>3, <2>2 DEF Blocking, ReadEngineer, EligibleEngineer, Empty
  <2> QED
    BY <2>1, <2>3, BlockStep
<1>4. CASE LoadRow(t)
  <2> DEFINE x == [tx[t] EXCEPT !.pc = "update_rows",
                                !.loaded = [i \in DOMAIN @ |-> allocations[i].to_date]]
  <2>1. tx' = [tx EXCEPT ![t] = x] /\ UNCHANGED <<users, allocations>>
    BY <1>4 DEF LoadRow
  <2>2. x.pc = "update_rows" /\ x.rows = Empty /\ x.blocks = {}
    BY <1>1, <1>2, <1>4 DEF LoadRow, Serial, Blocking, IsTransaction, Idle
  <2> HIDE DEF x
  <2> QED
    BY <2>1, <2>2, BlockingNothing, BlockStep
<1>5. CASE SelectActive(t)
  <2> DEFINE active == UNION {FindActiveByUser(allocations, u) : u \in tx[t].blocks}
             x == [tx[t] EXCEPT !.pc = IF active = {} THEN "commit" ELSE "update_rows",
                                !.as_of = today,
                                !.loaded = [i \in active |-> allocations[i].to_date]]
  <2>1. tx' = [tx EXCEPT ![t] = x] /\ UNCHANGED <<users, allocations>>
    BY <1>5 DEF SelectActive
  <2>2. \A u \in tx[t].blocks : FindActiveByUser(allocations, u) \subseteq active
    OBVIOUS
  <2> HIDE DEF active
  <2>3. /\ x.pc = IF active = {} THEN "commit" ELSE "update_rows"
        /\ x.rows = Empty /\ x.blocks = tx[t].blocks /\ x.queue = tx[t].queue
        /\ x.loaded = [i \in active |-> allocations[i].to_date]
    BY <1>1, <1>2, <1>5 DEF SelectActive, Serial, IsTransaction, Idle
  <2> HIDE DEF x
  <2>4. active \subseteq Touched(x)
    BY <2>3 DEF Touched
  <2>5. Blocking(x)
    BY <1>2, <2>2, <2>3, <2>4 DEF Blocking, Empty
  <2> QED
    BY <2>1, <2>5, BlockStep
<1> QED
  BY <1>3, <1>4, <1>5

LEMMA BlockInsert ==
  ASSUME Inv, SerialInv, BlockInv, NEW t \in Transactions, ValidateAndInsert(t)
  PROVE  BlockInv'
<1> DEFINE row == tx[t].row
           id == next_id
           x == [tx[t] EXCEPT !.pc = "compute", !.row = NoRow, !.as_of = row.from_date,
                              !.queue = {row.user_id}, !.rows = [i \in {id} |-> row]]
<1>1. t \in Requests
  BY RequestsAlone DEF ValidateAndInsert, Late
<1>2. IsTransaction(tx[t]) /\ Blocking(tx[t]) /\ tx[t].pc = "validate"
  BY <1>1 DEF Inv, TypeOK, BlockInv, ValidateAndInsert
<1>3. tx' = [tx EXCEPT ![t] = x] /\ UNCHANGED <<users, allocations>>
  BY DEF ValidateAndInsert
<1>4. tx[t].blocks = {} /\ users[row.user_id].account_status = "ACTIVE"
  BY <1>2 DEF Blocking
<1> HIDE DEF row, id
<1>5. x.pc = "compute" /\ x.rows = [i \in {id} |-> row] /\ x.blocks = {}
  BY <1>2, <1>4 DEF IsTransaction, Idle
<1> HIDE DEF x
<1>6. Blocking(x)
  BY <1>4, <1>5 DEF Blocking
<1> QED
  BY <1>3, <1>6, BlockStep

LEMMA BlockEndRow ==
  ASSUME Inv, SerialInv, BlockInv, NEW t \in Transactions, NEW id \in AllocationIds,
         EndRow(t, id)
  PROVE  BlockInv'
<1> DEFINE row == Ended(allocations[id], tx[t].loaded[id], tx[t].as_of)
           x == [tx[t] EXCEPT !.pc = AfterRows(t, id),
                              !.loaded = Without(@, id),
                              !.rows = Overlay(@, [i \in {id} |-> row])]
<1>1. t \in Requests /\ tx[t].pc = "update_rows"
  BY RequestsAlone DEF EndRow, Late
<1>2. IsTransaction(tx[t]) /\ Ready(tx[t]) /\ Blocking(tx[t])
  BY <1>1 DEF Inv, TypeOK, BlockInv
<1>3. allocations[id] \in Row
  <2>1. DOMAIN tx[t].loaded \subseteq Nat /\ DOMAIN tx[t].loaded # {}
    BY <1>1, <1>2, BoundsAssumption DEF IsTransaction, IsPartial, AllocationIds, Ready
  <2>2. First(DOMAIN tx[t].loaded) \in DOMAIN tx[t].loaded
    BY <2>1, FirstIsLeast
  <2> QED
    BY <1>2, <2>2 DEF EndRow, NextLoaded, Ready, Inv, TypeOK, IsPartial
<1>4. row.status = "ENDED"
  BY <1>3 DEF Ended, Row
<1>5. tx' = [tx EXCEPT ![t] = x] /\ UNCHANGED <<users, allocations>>
  BY DEF EndRow
<1> HIDE DEF row
<1>6. /\ x.pc = AfterRows(t, id)
      /\ x.loaded = Without(tx[t].loaded, id)
      /\ x.rows = Overlay(tx[t].rows, [i \in {id} |-> row])
      /\ x.blocks = tx[t].blocks
      /\ x.queue = tx[t].queue
  BY <1>2 DEF IsTransaction, Idle
<1> HIDE DEF x
<1>7. Touched(tx[t]) \subseteq Touched(x)
  BY <1>1, <1>6 DEF Touched, Without, Overlay, AfterRows
<1>8. x.blocks # {} => x.pc \in {"update_rows", "commit"}
  BY <1>2, <1>6 DEF Blocking, AfterRows
<1>9. ASSUME NEW i \in DOMAIN x.rows, x.rows[i].status = "ACTIVE"
      PROVE  i \in DOMAIN tx[t].rows /\ x.rows[i] = tx[t].rows[i]
  BY <1>4, <1>6, <1>9 DEF Overlay
<1>10. x.pc # "validate" /\ x.pc # "select_active"
  BY <1>6 DEF AfterRows
<1>11. Blocking(x)
  BY <1>1, <1>2, <1>6, <1>7, <1>8, <1>9, <1>10 DEF Blocking
<1> QED
  BY <1>5, <1>11, BlockStep

\* A deactivation does not synchronise a status: it blocks the account and commits.
LEMMA BlockSyncs ==
  ASSUME Inv, SerialInv, BlockInv, NEW t \in Transactions,
         ComputeUtilisation(t) \/ StatusIsCurrent(t) \/ StatusDiffers(t) \/ UpdateStatus(t)
  PROVE  BlockInv'
<1>1. /\ IsTransaction(tx[t]) /\ tx[t].pc \in {"compute", "load_status", "update_status"}
      /\ UNCHANGED <<users, allocations>>
  BY DEF Inv, TypeOK, ComputeUtilisation, StatusIsCurrent, StatusDiffers, UpdateStatus
<1>2. PICK x : /\ tx' = [tx EXCEPT ![t] = x]
               /\ x.pc \in Late /\ x.rows = tx[t].rows /\ x.blocks = tx[t].blocks
  <2>1. CASE ComputeUtilisation(t)
    <3> DEFINE x == [tx[t] EXCEPT !.pc = "load_status",
                       !.percent = ComputeUtilisationOn(Visible(t), First(tx[t].queue),
                                                        tx[t].as_of)]
    <3>1. tx' = [tx EXCEPT ![t] = x]
      BY <2>1 DEF ComputeUtilisation
    <3>2. x.pc \in Late /\ x.rows = tx[t].rows /\ x.blocks = tx[t].blocks
      BY <1>1 DEF IsTransaction, Idle, Late
    <3> QED
      BY <3>1, <3>2
  <2>2. CASE StatusIsCurrent(t)
    <3> DEFINE x == [tx[t] EXCEPT !.pc = AfterSync(t), !.queue = @ \ {First(@)}]
    <3>1. tx' = [tx EXCEPT ![t] = x]
      BY <2>2 DEF StatusIsCurrent
    <3>2. x.pc \in Late /\ x.rows = tx[t].rows /\ x.blocks = tx[t].blocks
      BY <1>1 DEF IsTransaction, Idle, Late, AfterSync
    <3> QED
      BY <3>1, <3>2
  <2>3. CASE StatusDiffers(t)
    <3> DEFINE x == [tx[t] EXCEPT !.pc = "update_status", !.columns = Differing(t)]
    <3>1. tx' = [tx EXCEPT ![t] = x]
      BY <2>3 DEF StatusDiffers
    <3>2. x.pc \in Late /\ x.rows = tx[t].rows /\ x.blocks = tx[t].blocks
      BY <1>1 DEF IsTransaction, Idle, Late
    <3> QED
      BY <3>1, <3>2
  <2>4. CASE UpdateStatus(t)
    <3> DEFINE written == [u \in {First(tx[t].queue)} |->
                             UpdatedStatus(resource_status[u], StatusOf(tx[t].percent),
                                           tx[t].columns)]
               x == [tx[t] EXCEPT !.pc = AfterSync(t), !.queue = @ \ {First(@)},
                                  !.columns = {}, !.statuses = Overlay(@, written)]
    <3>1. tx' = [tx EXCEPT ![t] = x]
      BY <2>4 DEF UpdateStatus
    <3> HIDE DEF written
    <3>2. x.pc \in Late /\ x.rows = tx[t].rows /\ x.blocks = tx[t].blocks
      BY <1>1 DEF IsTransaction, Idle, Late, AfterSync
    <3> QED
      BY <3>1, <3>2
  <2> QED
    BY <2>1, <2>2, <2>3, <2>4
<1>3. ASSUME t \in Requests PROVE Blocking(x)
  <2>1. Blocking(tx[t]) /\ tx[t].blocks = {}
    BY <1>1, <1>3 DEF BlockInv, Blocking
  <2> QED
    BY <1>2, <2>1 DEF Blocking, Late
<1> QED
  BY <1>1, <1>2, <1>3, BlockStep

\* A commit blocks an account only with every active row of it among those it ends, and
\* adds a row only to an account that stays active.
LEMMA BlockCommit ==
  ASSUME OneAtATime, Inv, SerialInv, BlockInv, NEW t \in Transactions, Commit(t)
  PROVE  BlockInv'
<1> DEFINE rows == tx[t].rows
           blocks == tx[t].blocks
<1>1. /\ tx'[t] = Idle
      /\ \A s \in Transactions \ {t} : tx'[s] = tx[s]
      /\ allocations' = Overlay(allocations, rows)
      /\ users' = [u \in Engineers |->
           IF u \in blocks THEN [users[u] EXCEPT !.account_status = "INACTIVE"]
                           ELSE users[u]]
  BY DEF Inv, TypeOK, Commit, Visible
<1>2. /\ IsPartial(rows, AllocationIds, Row)
      /\ users \in [Engineers -> [account_status : AccountStatuses, manager_id : Managers]]
      /\ tx[t].pc = "commit"
  BY DEF Inv, TypeOK, IsTransaction, Commit
<1>3. CASE t \in Requests
  <2>1. Blocking(tx[t]) /\ Serial(tx[t])
    BY <1>3 DEF BlockInv, SerialInv
  <2>2. ASSUME NEW r \in Requests PROVE Blocking(tx[r])'
    <3>1. tx'[r] = Idle
      BY <1>1, <1>3 DEF OneAtATime
    <3>2. Idle.rows = Empty /\ Idle.pc = "idle" /\ Idle.blocks = {}
      BY DEF Idle
    <3> QED
      BY <3>1, <3>2 DEF Blocking, Empty
  <2>3. ASSUME NEW u \in Engineers, users'[u].account_status = "INACTIVE",
               NEW i \in FindActiveByUser(allocations', u)
        PROVE  FALSE
    <3>1. i \in DOMAIN allocations' /\ allocations'[i].user_id = u
          /\ allocations'[i].status = "ACTIVE"
      BY <2>3 DEF FindActiveByUser
    <3>2. CASE i \in DOMAIN rows
      <4>1. allocations'[i] = rows[i]
        BY <1>1, <3>2 DEF Overlay
      <4>2. blocks = {} /\ users[u].account_status = "ACTIVE"
        BY <2>1, <3>1, <3>2, <4>1 DEF Blocking
      <4> QED
        BY <1>1, <2>3, <4>2
    <3>3. CASE i \notin DOMAIN rows
      <4>1. i \in FindActiveByUser(allocations, u)
        BY <1>1, <3>1, <3>3 DEF Overlay, FindActiveByUser
      <4>2. u \notin blocks
        BY <1>2, <2>1, <3>3, <4>1 DEF Blocking, Touched
      <4>3. users[u].account_status = "INACTIVE"
        BY <1>1, <2>3, <4>2
      <4> QED
        BY <4>1, <4>3 DEF BlockInv, DeactivatedHoldNone
    <3> QED
      BY <3>2, <3>3
  <2>4. DeactivatedHoldNone'
    BY <2>3 DEF DeactivatedHoldNone
  <2> QED
    BY <2>2, <2>4 DEF BlockInv
<1>4. CASE t \notin Requests
  <2>1. rows = Empty /\ blocks = {}
    BY <1>4 DEF SerialInv, TickOnly, Transactions
  <2>2. UNCHANGED allocations
    BY <1>1, <2>1 DEF Overlay, Empty, Inv, TypeOK, IsPartial
  <2>3. UNCHANGED users
    BY <1>1, <1>2, <2>1
  <2>4. tx' = [tx EXCEPT ![t] = Idle]
    BY DEF Commit
  <2> QED
    BY <1>4, <2>2, <2>3, <2>4, BlockStep
<1> QED
  BY <1>3, <1>4

LEMMA BlockBegins ==
  ASSUME Inv, BlockInv, NEW t \in Requests, Start(t)
  PROVE  BlockInv'
<1>1. t \in Transactions
  BY DEF Transactions
<1>2. ASSUME NEW row, BeginAllocate(t, row) PROVE BlockInv'
  <2> DEFINE x == [Idle EXCEPT !.op = "allocate", !.pc = "read_engineer", !.row = row]
  <2>1. tx' = [tx EXCEPT ![t] = x] /\ UNCHANGED <<users, allocations>>
    BY <1>2 DEF BeginAllocate
  <2>2. x.pc = "read_engineer" /\ x.rows = Empty /\ x.blocks = {}
    BY DEF Idle
  <2> HIDE DEF x
  <2> QED
    BY <1>1, <2>1, <2>2, BlockingNothing, BlockStep
<1>3. ASSUME NEW m, NEW id, NEW d, BeginEnd(t, m, id, d) PROVE BlockInv'
  <2> DEFINE x == [Idle EXCEPT !.op = "end", !.pc = "load_row", !.as_of = d,
                               !.loaded = [i \in {id} |-> allocations[id].to_date],
                               !.queue = {allocations[id].user_id}]
  <2>1. tx' = [tx EXCEPT ![t] = x] /\ UNCHANGED <<users, allocations>>
    BY <1>3 DEF BeginEnd
  <2>2. x.pc = "load_row" /\ x.rows = Empty /\ x.blocks = {}
    BY DEF Idle
  <2> HIDE DEF x
  <2> QED
    BY <1>1, <2>1, <2>2, BlockingNothing, BlockStep
<1>4. ASSUME NEW u, BeginDeactivate(t, u) PROVE BlockInv'
  <2> DEFINE x == [Idle EXCEPT !.op = "deactivate", !.pc = "select_active", !.blocks = {u}]
  <2>1. tx' = [tx EXCEPT ![t] = x] /\ UNCHANGED <<users, allocations>>
    BY <1>4 DEF BeginDeactivate
  <2>2. x.pc = "select_active" /\ x.rows = Empty /\ x.queue = {}
    BY DEF Idle
  <2> HIDE DEF x
  <2>3. Blocking(x)
    BY <2>2 DEF Blocking, Empty
  <2> QED
    BY <1>1, <2>1, <2>3, BlockStep
<1> QED
  BY <1>2, <1>3, <1>4 DEF Start

\* The other admin screens never make an account INACTIVE.
LEMMA BlockAdmin ==
  ASSUME Inv, BlockInv, UNCHANGED <<allocations, tx>>,
         \A u \in Engineers : users[u].account_status = "ACTIVE"
                                => users'[u].account_status = "ACTIVE",
         \A u \in Engineers : users'[u].account_status = "INACTIVE"
                                => users[u].account_status = "INACTIVE"
  PROVE  BlockInv'
<1>1. ASSUME NEW r \in Requests PROVE Blocking(tx[r])'
  <2>1. Blocking(tx[r]) /\ IsTransaction(tx[r]) /\ Ready(tx[r])
    BY DEF BlockInv, Inv, TypeOK, Transactions
  <2>2. /\ Touched(tx[r])' = Touched(tx[r])
        /\ tx'[r] = tx[r] /\ allocations' = allocations
    BY DEF Touched
  <2>3. tx[r].pc = "validate" => tx[r].row.user_id \in Engineers
    BY <2>1 DEF Ready, Row
  <2>4. \A i \in DOMAIN tx[r].rows : tx[r].rows[i].user_id \in Engineers
    BY <2>1 DEF IsTransaction, IsPartial, Row
  <2> QED
    BY <2>1, <2>2, <2>3, <2>4 DEF Blocking
<1>2. DeactivatedHoldNone'
  BY DEF BlockInv, DeactivatedHoldNone
<1> QED
  BY <1>1, <1>2 DEF BlockInv

LEMMA BlockNext ==
  ASSUME OneAtATime, Inv, SerialInv, BlockInv,
         [Next /\ ~ \E u \in Engineers : DeactivateUser(u)]_vars
  PROVE  BlockInv'
<1>1. ASSUME NEW t \in Transactions, Refuse(t) \/ Rollback(t) PROVE BlockInv'
  <2>1. tx' = [tx EXCEPT ![t] = Idle] /\ UNCHANGED <<users, allocations>>
    BY <1>1 DEF Refuse, Rollback
  <2>2. Idle.rows = Empty /\ Idle.blocks = {} /\ Idle.pc = "idle"
    BY DEF Idle
  <2> QED
    BY <2>1, <2>2, BlockingNothing, BlockStep
<1>2. CASE BeginTick
  <2> DEFINE active == {u \in Engineers : users[u].account_status = "ACTIVE"}
             x == [Idle EXCEPT !.op = "tick", !.pc = "compute", !.as_of = today,
                               !.queue = active]
  <2>1. tx' = [tx EXCEPT ![Scheduler] = x] /\ UNCHANGED <<users, allocations>>
    BY <1>2 DEF BeginTick
  <2> QED
    BY <2>1, SchedulerAssumption, BlockStep DEF Transactions
<1>3. CASE (Administer /\ ~ \E u \in Engineers : DeactivateUser(u)) \/ NextDay
             \/ UNCHANGED vars
  <2>1. UNCHANGED <<allocations, tx>>
    BY <1>3 DEF Administer, AssignManager, UpdateProject, DeactivateUser, ReactivateUser,
        NextDay, vars
  <2>2. users \in [Engineers -> [account_status : AccountStatuses, manager_id : Managers]]
    BY DEF Inv, TypeOK
  <2>3. \A u \in Engineers : /\ users[u].account_status = "ACTIVE"
                                  => users'[u].account_status = "ACTIVE"
                             /\ users'[u].account_status = "INACTIVE"
                                  => users[u].account_status = "INACTIVE"
    <3>1. ASSUME NEW u \in Engineers, NEW m, AssignManager(u, m)
          PROVE  \A v \in Engineers : users'[v].account_status = users[v].account_status
      BY <2>2, <3>1 DEF AssignManager
    <3>2. ASSUME NEW u \in Engineers, ReactivateUser(u)
          PROVE  \A v \in Engineers : users'[v].account_status
                                        \in {users[v].account_status, "ACTIVE"}
      BY <2>2, <3>2 DEF ReactivateUser
    <3>3. CASE \E p \in Projects, s \in ProjectStatuses, m \in Managers :
                 UpdateProject(p, s, m)
      BY <3>3 DEF UpdateProject
    <3>4. CASE NextDay \/ UNCHANGED vars
      BY <3>4 DEF NextDay, vars
    <3> QED
      BY <1>3, <3>1, <3>2, <3>3, <3>4 DEF Administer
  <2> QED
    BY <2>1, <2>3, BlockAdmin
<1>4. ASSUME NEW t \in Transactions, Continue(t) PROVE BlockInv'
  BY <1>1, <1>4, BlockReads, BlockInsert, BlockEndRow, BlockSyncs, BlockCommit
  DEF Continue
<1> QED
  BY <1>1, <1>2, <1>3, <1>4, BlockBegins DEF Next

\* Where accounts are only blocked by deactivate_employee, requests that follow one
\* another leave no active allocation with an employee who is deactivated: it ends them
\* all in the transaction that blocks the account, and no new one is committed after.
THEOREM DeactivatedKeepNothing == OneAtATime => (EmployeeScreens => []DeactivatedHoldNone)
<1> SUFFICES ASSUME OneAtATime PROVE EmployeeScreens => []DeactivatedHoldNone
  OBVIOUS
<1> DEFINE Step == Next /\ ~ \E u \in Engineers : DeactivateUser(u)
<1>1. Init => SerialInv /\ BlockInv
  BY SerialInit, BlockInit
<1>2. [Step]_vars => [Next]_vars
  OBVIOUS
<1>3. Inv /\ SerialInv /\ [Next]_vars => SerialInv'
  BY SerialNext
<1>4. Inv /\ SerialInv /\ BlockInv /\ [Step]_vars => BlockInv'
  BY BlockNext
<1>5. BlockInv => DeactivatedHoldNone
  BY DEF BlockInv
<1>6. Init /\ [][Next]_vars => []Inv
  BY Invariance DEF Spec
<1>7. EmployeeScreens => Init /\ [][Step]_vars
  BY DEF EmployeeScreens
<1> HIDE DEF Step
<1> QED
  BY <1>1, <1>2, <1>3, <1>4, <1>5, <1>6, <1>7, PTL

=============================================================================
