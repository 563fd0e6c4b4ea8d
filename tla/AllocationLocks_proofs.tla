------------------------ MODULE AllocationLocks_proofs ------------------------
(***************************************************************************)
(* Transactions of AllocationService never wait for each other in a        *)
(* circle, whatever the number of requests, engineers and allocations.     *)
(*                                                                         *)
(* Each of them locks allocations before statuses, and each table by       *)
(* ascending id (Ordered).  So among those that wait, one that wants the   *)
(* greatest status, or if none wants a status the greatest allocation,     *)
(* waits for somebody who waits for nobody: a holder of that row wants, or *)
(* would want, a greater one.                                              *)
(***************************************************************************)
EXTENDS AllocationService_proofs

\* The rows a transaction holds come before those it still has to lock.
Ordered(x) ==
  /\ x.pc \in {"idle", "read_engineer", "validate", "load_row", "select_active"} =>
       x.rows = Empty /\ x.statuses = Empty
  /\ x.pc = "update_rows" =>
       x.statuses = Empty /\ \A i \in DOMAIN x.rows, j \in DOMAIN x.loaded : i < j
  /\ x.pc \in {"compute", "load_status", "update_status"} =>
       \A u \in DOMAIN x.statuses, v \in x.queue : u < v

LockInv == Inv /\ \A t \in Transactions : Ordered(tx[t])

-----------------------------------------------------------------------------
(***************************************************************************)
(* Steps.                                                                  *)
(***************************************************************************)

\* A step that changes one transaction has to be checked for that one alone.
LEMMA OrderedStep ==
  ASSUME LockInv, NEW t \in Transactions, NEW x, Ordered(x), tx' = [tx EXCEPT ![t] = x]
  PROVE  (\A s \in Transactions : Ordered(tx[s]))'
<1>1. ASSUME NEW s \in Transactions PROVE Ordered(tx'[s])
  <2>1. DOMAIN tx = Transactions
    BY DEF LockInv, Inv, TypeOK
  <2>2. CASE s = t
    BY <2>1, <2>2
  <2>3. CASE s # t
    <3>1. tx'[s] = tx[s]
      BY <2>1, <2>3
    <3> QED
      BY <3>1 DEF LockInv
  <2> QED
    BY <2>2, <2>3
<1> QED
  BY <1>1 DEF Ordered

LEMMA IdleOrdered == Ordered(Idle)
<1> QED
  BY DEF Ordered, Idle, Empty

\* The first statement of every use case, which locks nothing.
LEMMA StartOrdered ==
  ASSUME LockInv, NEW t \in Requests, Start(t)
  PROVE  (\A s \in Transactions : Ordered(tx[s]))'
<1>1. PICK x : tx' = [tx EXCEPT ![t] = x] /\ Ordered(x)
  <2>1. ASSUME NEW row \in Requested, BeginAllocate(t, row)
        PROVE  \E x : tx' = [tx EXCEPT ![t] = x] /\ Ordered(x)
    <3>1. Ordered([Idle EXCEPT !.op = "allocate", !.pc = "read_engineer", !.row = row])
      BY DEF Ordered, Idle, Empty
    <3> QED
      BY <2>1, <3>1 DEF BeginAllocate
  <2>2. ASSUME NEW m \in Managers, NEW id \in AllocationIds, NEW d \in Days,
               BeginEnd(t, m, id, d)
        PROVE  \E x : tx' = [tx EXCEPT ![t] = x] /\ Ordered(x)
    <3>1. Ordered([Idle EXCEPT !.op = "end", !.pc = "load_row", !.as_of = d,
                               !.loaded = [i \in {id} |-> allocations[id].to_date],
                               !.queue = {allocations[id].user_id}])
      BY DEF Ordered, Idle, Empty
    <3> QED
      BY <2>2, <3>1 DEF BeginEnd
  <2>3. ASSUME NEW u \in Engineers, BeginDeactivate(t, u)
        PROVE  \E x : tx' = [tx EXCEPT ![t] = x] /\ Ordered(x)
    <3>1. Ordered([Idle EXCEPT !.op = "deactivate", !.pc = "select_active", !.blocks = {u}])
      BY DEF Ordered, Idle, Empty
    <3> QED
      BY <2>3, <3>1 DEF BeginDeactivate
  <2> QED
    BY <2>1, <2>2, <2>3 DEF Start
<1>2. t \in Transactions
  BY DEF Transactions
<1> QED
  BY <1>1, <1>2, OrderedStep

LEMMA BeginTickOrdered ==
  ASSUME LockInv, BeginTick
  PROVE  (\A s \in Transactions : Ordered(tx[s]))'
<1> DEFINE active == {u \in Engineers : users[u].account_status = "ACTIVE"}
<1>1. PICK x : x = [Idle EXCEPT !.op = "tick", !.pc = "compute", !.as_of = today,
                                !.queue = active]
  OBVIOUS
<1>2. Ordered(x)
  BY <1>1 DEF Ordered, Idle, Empty
<1>3. tx' = [tx EXCEPT ![Scheduler] = x] /\ Scheduler \in Transactions
  BY <1>1 DEF BeginTick, Transactions
<1> QED
  BY <1>2, <1>3, OrderedStep

\* Statements that lock nothing.
LEMMA ReadOrdered ==
  ASSUME LockInv, NEW t \in Transactions,
         ReadEngineer(t) \/ LoadRow(t) \/ SelectActive(t) \/ ComputeUtilisation(t)
           \/ StatusIsCurrent(t) \/ StatusDiffers(t)
  PROVE  (\A s \in Transactions : Ordered(tx[s]))'
<1>0. Ordered(tx[t]) /\ IsTransaction(tx[t])
  BY DEF LockInv, Inv, TypeOK
<1>1. CASE ReadEngineer(t)
  <2>1. PICK x : x = [tx[t] EXCEPT !.pc = "validate"]
    OBVIOUS
  <2>2. Ordered(x)
    BY <1>0, <1>1, <2>1 DEF Ordered, IsTransaction, Idle, ReadEngineer
  <2> QED
    BY <1>1, <2>1, <2>2, OrderedStep DEF ReadEngineer
<1>2. CASE LoadRow(t)
  <2>1. PICK x : x = [tx[t] EXCEPT !.pc = "update_rows",
                                   !.loaded = [i \in DOMAIN @ |-> allocations[i].to_date]]
    OBVIOUS
  <2>2. Ordered(x)
    BY <1>0, <1>2, <2>1 DEF Ordered, IsTransaction, Idle, Empty, LoadRow
  <2> QED
    BY <1>2, <2>1, <2>2, OrderedStep DEF LoadRow
<1>3. CASE SelectActive(t)
  <2> DEFINE active == UNION {FindActiveByUser(allocations, u) : u \in tx[t].blocks}
  <2>1. PICK x : x = [tx[t] EXCEPT !.pc = IF active = {} THEN "commit" ELSE "update_rows",
                                   !.as_of = today,
                                   !.loaded = [i \in active |-> allocations[i].to_date]]
    OBVIOUS
  <2>2. tx' = [tx EXCEPT ![t] = x]
    BY <1>3, <2>1 DEF SelectActive
  <2> HIDE DEF active
  <2>3. Ordered(x)
    BY <1>0, <1>3, <2>1 DEF Ordered, IsTransaction, Idle, Empty, SelectActive
  <2> QED
    BY <2>2, <2>3, OrderedStep
<1>4. CASE ComputeUtilisation(t)
  <2>1. PICK percent : percent =
               ComputeUtilisationOn(Visible(t), First(tx[t].queue), tx[t].as_of)
    OBVIOUS
  <2>2. PICK x : x = [tx[t] EXCEPT !.pc = "load_status", !.percent = percent]
    OBVIOUS
  <2>3. Ordered(x)
    BY <1>0, <1>4, <2>2 DEF Ordered, IsTransaction, Idle, ComputeUtilisation
  <2>4. tx' = [tx EXCEPT ![t] = x]
    BY <1>4, <2>1, <2>2 DEF ComputeUtilisation
  <2> QED
    BY <2>3, <2>4, OrderedStep
<1>5. CASE StatusIsCurrent(t)
  <2>1. PICK left : left = tx[t].queue \ {First(tx[t].queue)}
    OBVIOUS
  <2>2. PICK x : x = [tx[t] EXCEPT !.pc = AfterSync(t), !.queue = left]
    OBVIOUS
  <2>3. Ordered(x)
    BY <1>0, <1>5, <2>1, <2>2 DEF Ordered, IsTransaction, Idle, StatusIsCurrent, AfterSync
  <2>4. tx' = [tx EXCEPT ![t] = x]
    BY <1>5, <2>1, <2>2 DEF StatusIsCurrent
  <2> QED
    BY <2>3, <2>4, OrderedStep
<1>6. CASE StatusDiffers(t)
  <2>1. PICK x : x = [tx[t] EXCEPT !.pc = "update_status", !.columns = Differing(t)]
    OBVIOUS
  <2>2. Ordered(x)
    BY <1>0, <1>6, <2>1 DEF Ordered, IsTransaction, Idle, StatusDiffers
  <2>3. tx' = [tx EXCEPT ![t] = x]
    BY <1>6, <2>1 DEF StatusDiffers
  <2> QED
    BY <2>2, <2>3, OrderedStep
<1> QED
  BY <1>1, <1>2, <1>3, <1>4, <1>5, <1>6

\* A new allocation is the first row its transaction holds.
LEMMA InsertOrdered ==
  ASSUME LockInv, NEW t \in Transactions, ValidateAndInsert(t)
  PROVE  (\A s \in Transactions : Ordered(tx[s]))'
<1>1. PICK row, id : row = tx[t].row /\ id = next_id
  OBVIOUS
<1>2. PICK x : x = [tx[t] EXCEPT !.pc = "compute", !.row = NoRow,
                                 !.as_of = row.from_date, !.queue = {row.user_id},
                                 !.rows = [i \in {id} |-> row]]
  OBVIOUS
<1>3. Ordered(tx[t]) /\ IsTransaction(tx[t])
  BY DEF LockInv, Inv, TypeOK
<1>4. Ordered(x)
  BY <1>2, <1>3 DEF Ordered, IsTransaction, Idle, Empty, ValidateAndInsert
<1>5. tx' = [tx EXCEPT ![t] = x]
  BY <1>1, <1>2 DEF ValidateAndInsert
<1> QED
  BY <1>4, <1>5, OrderedStep

\* The row locked is the least of those left.
LEMMA EndRowOrdered ==
  ASSUME LockInv, NEW t \in Transactions, NEW id \in AllocationIds, EndRow(t, id)
  PROVE  (\A s \in Transactions : Ordered(tx[s]))'
<1>1. PICK row : row = Ended(allocations[id], tx[t].loaded[id], tx[t].as_of)
  OBVIOUS
<1>2. PICK x : x = [tx[t] EXCEPT !.pc = AfterRows(t, id),
                                 !.loaded = Without(@, id),
                                 !.rows = Overlay(@, [i \in {id} |-> row])]
  OBVIOUS
<1>3. Ordered(tx[t]) /\ IsTransaction(tx[t]) /\ Ready(tx[t]) /\ tx[t].pc = "update_rows"
  BY DEF LockInv, Inv, TypeOK, EndRow
<1>4. /\ x.pc = AfterRows(t, id)
      /\ DOMAIN x.loaded = DOMAIN tx[t].loaded \ {id}
      /\ DOMAIN x.rows = DOMAIN tx[t].rows \cup {id}
      /\ x.statuses = Empty
  BY <1>2, <1>3 DEF Ordered, IsTransaction, Idle, Without, Overlay
<1>5. /\ DOMAIN tx[t].loaded \subseteq AllocationIds
      /\ \A j \in DOMAIN tx[t].loaded : id <= j
  <2>1. DOMAIN tx[t].loaded \subseteq AllocationIds /\ DOMAIN tx[t].loaded # {}
    BY <1>3 DEF IsTransaction, IsPartial, Ready
  <2>2. DOMAIN tx[t].loaded \subseteq Nat
    BY <2>1, BoundsAssumption DEF AllocationIds
  <2>3. id = First(DOMAIN tx[t].loaded)
    BY DEF EndRow, NextLoaded
  <2> QED
    BY <2>1, <2>2, <2>3, FirstIsLeast
<1>6. Ordered(x)
  <2>1. \A j \in DOMAIN x.loaded : id < j
    BY <1>4, <1>5 DEF AllocationIds
  <2>2. \A i \in DOMAIN tx[t].rows, j \in DOMAIN x.loaded : i < j
    BY <1>3, <1>4 DEF Ordered
  <2>3. x.pc \in {"update_rows", "compute", "commit"}
    BY <1>4 DEF AfterRows
  <2> QED
    BY <1>4, <2>1, <2>2, <2>3 DEF Ordered, Empty
<1>7. tx' = [tx EXCEPT ![t] = x]
  BY <1>1, <1>2 DEF EndRow
<1> QED
  BY <1>6, <1>7, OrderedStep

\* And so is the status.
LEMMA UpdateStatusOrdered ==
  ASSUME LockInv, NEW t \in Transactions, UpdateStatus(t)
  PROVE  (\A s \in Transactions : Ordered(tx[s]))'
<1>1. PICK f : f = First(tx[t].queue)
  OBVIOUS
<1>2. PICK written : written = [u \in {f} |-> UpdatedStatus(resource_status[u],
                                   StatusOf(tx[t].percent), tx[t].columns)]
  OBVIOUS
<1>3. PICK x : x = [tx[t] EXCEPT !.pc = AfterSync(t), !.queue = @ \ {f}, !.columns = {},
                                 !.statuses = Overlay(@, written)]
  OBVIOUS
<1>4. Ordered(tx[t]) /\ IsTransaction(tx[t]) /\ Ready(tx[t]) /\ tx[t].pc = "update_status"
  BY DEF LockInv, Inv, TypeOK, UpdateStatus
<1>5. /\ x.pc = AfterSync(t)
      /\ x.queue = tx[t].queue \ {f}
      /\ DOMAIN x.statuses = DOMAIN tx[t].statuses \cup {f}
  BY <1>2, <1>3, <1>4 DEF IsTransaction, Idle, Overlay
<1>6. tx[t].queue \subseteq Nat /\ f \in tx[t].queue /\ \A v \in tx[t].queue : f <= v
  <2>1. tx[t].queue \subseteq Nat /\ tx[t].queue # {}
    BY <1>4, EngineersAssumption DEF IsTransaction, Ready
  <2> QED
    BY <1>1, <2>1, FirstIsLeast
<1>7. Ordered(x)
  <2>1. \A v \in x.queue : f < v
    BY <1>5, <1>6
  <2>2. \A u \in DOMAIN tx[t].statuses, v \in x.queue : u < v
    BY <1>4, <1>5 DEF Ordered
  <2>3. x.pc \in {"compute", "commit"}
    BY <1>5 DEF AfterSync
  <2> QED
    BY <1>5, <2>1, <2>2, <2>3 DEF Ordered
<1>8. tx' = [tx EXCEPT ![t] = x]
  BY <1>1, <1>2, <1>3 DEF UpdateStatus
<1> QED
  BY <1>7, <1>8, OrderedStep

LEMMA LockInvInit == Init => LockInv
<1> SUFFICES ASSUME Init PROVE LockInv
  OBVIOUS
<1>1. \A t \in Transactions : Ordered(tx[t])
  BY IdleOrdered DEF Init
<1> QED
  BY <1>1, InvInit DEF LockInv

LEMMA LockInvNext == LockInv /\ [Next]_vars => LockInv'
<1> SUFFICES ASSUME LockInv, [Next]_vars PROVE (\A s \in Transactions : Ordered(tx[s]))'
  BY InvNext DEF LockInv
<1>1. CASE UNCHANGED tx
  BY <1>1 DEF LockInv, Ordered
<1>2. ASSUME NEW t \in Requests, Start(t) PROVE (\A s \in Transactions : Ordered(tx[s]))'
  BY <1>2, StartOrdered
<1>3. CASE BeginTick
  BY <1>3, BeginTickOrdered
<1>4. ASSUME NEW t \in Transactions, Commit(t) \/ Refuse(t) \/ Rollback(t)
      PROVE  (\A s \in Transactions : Ordered(tx[s]))'
  <2>1. tx' = [tx EXCEPT ![t] = Idle]
    BY <1>4 DEF Commit, Refuse, Rollback
  <2> QED
    BY <2>1, IdleOrdered, OrderedStep
<1>5. ASSUME NEW t \in Transactions, Continue(t)
      PROVE  (\A s \in Transactions : Ordered(tx[s]))'
  BY <1>4, <1>5, ReadOrdered, InsertOrdered, EndRowOrdered, UpdateStatusOrdered DEF Continue
<1>6. Administer \/ NextDay => UNCHANGED tx
  BY DEF Administer, AssignManager, UpdateProject, DeactivateUser, ReactivateUser, NextDay
<1>7. UNCHANGED vars => UNCHANGED tx
  BY DEF vars
<1> QED
  BY <1>1, <1>2, <1>3, <1>4, <1>5, <1>6, <1>7 DEF Next

-----------------------------------------------------------------------------
(***************************************************************************)
(* Theorem.                                                                *)
(***************************************************************************)

\* What a waiting transaction wants, and what it holds less than.
LEMMA Wants ==
  ASSUME LockInv, NEW t \in Transactions
  PROVE  /\ tx[t].pc = "update_rows" =>
              /\ First(DOMAIN tx[t].loaded) \in AllocationIds
              /\ \A i \in DOMAIN tx[t].rows : i < First(DOMAIN tx[t].loaded)
              /\ tx[t].statuses = Empty
         /\ tx[t].pc = "update_status" =>
              /\ First(tx[t].queue) \in Engineers
              /\ \A u \in DOMAIN tx[t].statuses : u < First(tx[t].queue)
<1>1. Ordered(tx[t]) /\ IsTransaction(tx[t]) /\ Ready(tx[t])
  BY DEF LockInv, Inv, TypeOK
<1>2. ASSUME tx[t].pc = "update_rows"
      PROVE  /\ First(DOMAIN tx[t].loaded) \in DOMAIN tx[t].loaded
             /\ DOMAIN tx[t].loaded \subseteq AllocationIds
  <2>1. DOMAIN tx[t].loaded \subseteq AllocationIds /\ DOMAIN tx[t].loaded # {}
    BY <1>1, <1>2 DEF IsTransaction, IsPartial, Ready
  <2>2. DOMAIN tx[t].loaded \subseteq Nat
    BY <2>1, BoundsAssumption DEF AllocationIds
  <2> QED
    BY <2>1, <2>2, FirstIsLeast
<1>3. ASSUME tx[t].pc = "update_status"
      PROVE  First(tx[t].queue) \in tx[t].queue /\ tx[t].queue \subseteq Engineers
  <2>1. tx[t].queue \subseteq Engineers /\ tx[t].queue # {} /\ tx[t].queue \subseteq Nat
    BY <1>1, <1>3, EngineersAssumption DEF IsTransaction, Ready
  <2> QED
    BY <2>1, FirstIsLeast
<1> QED
  BY <1>1, <1>2, <1>3 DEF Ordered

\* Among any transactions there is one that waits for none of the others.
THEOREM LocksAreOrdered == Spec => []NoDeadlock
<1>1. LockInv => NoDeadlock
  <2> SUFFICES ASSUME LockInv,
                      NEW S \in (SUBSET Transactions) \ {{}},
                      ~ \E t \in S : \A s \in S \ {t} : ~WaitsFor(t, s)
               PROVE  FALSE
    BY DEF NoDeadlock
  <2>0. /\ S \subseteq Transactions /\ S # {}
        /\ \A t \in S : \E s \in S : WaitsFor(t, s)
    <3>1. S \in SUBSET Transactions /\ S # {}
      OBVIOUS
    <3>2. \A t \in S : \E s \in S : WaitsFor(t, s)
      BY Zenon
    <3> QED
      BY <3>1, <3>2
  <2>1. ASSUME NEW t \in S PROVE tx[t].pc \in {"update_rows", "update_status"}
    BY <2>0 DEF WaitsFor
  <2>2. CASE \E t \in S : tx[t].pc = "update_status"
    <3> DEFINE Updating == {t \in S : tx[t].pc = "update_status"}
               Wanted == {First(tx[t].queue) : t \in Updating}
    <3>1. Wanted \subseteq Engineers /\ Wanted # {}
      BY <2>0, <2>2, Wants
    <3>2. PICK g \in Wanted : \A u \in Wanted : u <= g
      <4>1. IsFiniteSet(Wanted) /\ Wanted \subseteq Nat
        BY <3>1, EngineersAssumption, FS_Subset
      <4> HIDE DEF Wanted
      <4> QED
        BY <3>1, <4>1, FiniteGreatest
    <3>3. PICK t \in Updating : g = First(tx[t].queue)
      BY <3>2
    <3>4. PICK s \in S : g \in DOMAIN tx[s].statuses
      BY <2>0, <3>3 DEF WaitsFor
    <3>5. tx[s].pc = "update_status" /\ g < First(tx[s].queue)
      BY <2>0, <2>1, <3>4, Wants DEF Empty
    <3>6. First(tx[s].queue) \in Wanted
      BY <3>5
    <3>7. g \in Nat /\ First(tx[s].queue) \in Nat /\ First(tx[s].queue) <= g
      BY <3>1, <3>2, <3>6, EngineersAssumption
    <3> QED
      BY <3>5, <3>7
  <2>3. CASE \A t \in S : tx[t].pc = "update_rows"
    <3> DEFINE Wanted == {First(DOMAIN tx[t].loaded) : t \in S}
    <3>1. Wanted \subseteq 1 .. MaxAllocations /\ Wanted # {}
      BY <2>0, <2>3, Wants DEF AllocationIds
    <3>2. PICK g \in Wanted : \A i \in Wanted : i <= g
      <4> HIDE DEF Wanted
      <4> QED
        BY <3>1, BoundsAssumption, GreatestExists
    <3>3. PICK t \in S : g = First(DOMAIN tx[t].loaded)
      BY <3>2
    <3>4. PICK s \in S : g \in DOMAIN tx[s].rows
      BY <2>0, <2>3, <3>3 DEF WaitsFor, NextLoaded
    <3>5. g < First(DOMAIN tx[s].loaded)
      BY <2>0, <2>3, <3>4, Wants
    <3>6. First(DOMAIN tx[s].loaded) \in Wanted
      OBVIOUS
    <3>7. g \in Int /\ First(DOMAIN tx[s].loaded) \in Int /\ First(DOMAIN tx[s].loaded) <= g
      BY <3>1, <3>2, <3>6
    <3> QED
      BY <3>5, <3>7
  <2> QED
    BY <2>1, <2>2, <2>3
<1> QED
  BY <1>1, LockInvInit, LockInvNext, PTL DEF Spec

=============================================================================
