------------------------ MODULE ProjectHealth_proofs ------------------------
(***************************************************************************)
(* What holds of ProjectHealth for every number of projects, milestones,   *)
(* admins and allocations, and every limit of hours.                       *)
(***************************************************************************)
EXTENDS ProjectHealth, FiniteSetTheorems, TLAPS

-----------------------------------------------------------------------------
(***************************************************************************)
(* The rules.                                                              *)
(***************************************************************************)

LEMMA MinMaxPair ==
  ASSUME NEW a \in Int, NEW b \in Int
  PROVE  /\ Max({a, b}) = IF a >= b THEN a ELSE b
         /\ Min({a, b}) = IF a <= b THEN a ELSE b
BY DEF Max, Min

\* A row covers between none and all of the days of a week.
LEMMA OverlapIsAWeekAtMost ==
  ASSUME NEW r \in Rows, NEW week \in Int
  PROVE  OverlapDays(r, week) \in 0 .. 7
<1> DEFINE end == IF r.to_date = Null THEN week + 6 ELSE Min({r.to_date, week + 6})
           start == Max({r.from_date, week})
<1>1. end \in Int /\ end <= week + 6
  <2>1. CASE r.to_date = Null
    BY <2>1
  <2>2. CASE r.to_date # Null
    <3>1. r.to_date \in Int /\ week + 6 \in Int
      BY <2>2, RowsAssumption
    <3>2. end = IF r.to_date <= week + 6 THEN r.to_date ELSE week + 6
      BY <2>2, <3>1, MinMaxPair
    <3> QED
      BY <3>1, <3>2
  <2> QED
    BY <2>1, <2>2
<1>2. start \in Int /\ start >= week
  BY RowsAssumption, MinMaxPair
<1> HIDE DEF end, start
<1>3. Max({0, end - start + 1}) \in 0 .. 7
  BY <1>1, <1>2, MinMaxPair
<1> QED
  BY <1>3 DEF OverlapDays, end, start

LEMMA ExpectedIsANumber ==
  ASSUME NEW r \in Rows, NEW week \in Int
  PROVE  ExpectedHours(r, week) \in Nat
<1>1. r.utilisation_percent * MaxWeeklyHours \in Nat
  BY RowsAssumption, HoursAssumption
<1>2. (r.utilisation_percent * MaxWeeklyHours) \div 100 \in Nat
  BY <1>1
<1>3. ((r.utilisation_percent * MaxWeeklyHours) \div 100) * OverlapDays(r, week) \in Nat
  BY <1>2, OverlapIsAWeekAtMost
<1> QED
  BY <1>3 DEF ExpectedHours

\* Hours are low exactly if they are less than 80 % of what is expected.
LEMMA LowLaw ==
  ASSUME NEW h \in Nat, NEW e \in Nat
  PROVE  /\ LowHours(h, e) \in {Null, "ATTENTION", "AT_RISK"}
         /\ LowHours(h, e) # Null <=> 5 * h < 4 * e
BY NullAssumption DEF LowHours

\* Whatever share of whatever week an engineer is allocated: nobody who logged 80 % of
\* the exact hours is reported, and whoever is not lacks less than 1.6 hours.
LEMMA RoundingLaw ==
  ASSUME NEW r \in Rows, NEW week \in Int, NEW hours \in Nat
  PROVE  LET exact700 == r.utilisation_percent * MaxWeeklyHours * OverlapDays(r, week)
             low == LowHours(hours, ExpectedHours(r, week))
         IN /\ 5 * 700 * hours >= 4 * exact700 => low = Null
            /\ low = Null => 5 * 700 * hours > 4 * (exact700 - 1400)
<1> DEFINE a == r.utilisation_percent * MaxWeeklyHours
           q == a \div 100
           d == OverlapDays(r, week)
           e == (q * d) \div 7
<1>1. a \in Nat
  BY RowsAssumption, HoursAssumption
<1>2. d \in 0 .. 7
  BY OverlapIsAWeekAtMost
<1> HIDE DEF a, d
<1>3. q \in Nat /\ 100 * q <= a /\ a < 100 * q + 100
  BY <1>1
<1> HIDE DEF q
<1>4. q * d \in Nat /\ 100 * (q * d) <= a * d /\ a * d <= 100 * (q * d) + 100 * d
  <2>1. \A n \in 0 .. 7 : q * n \in Nat /\ 100 * (q * n) <= a * n /\ a * n <= 100 * (q * n) + 100 * n
    BY <1>1, <1>3
  <2> QED
    BY <1>2, <2>1
<1>5. e \in Nat /\ 7 * e <= q * d /\ q * d < 7 * e + 7
  BY <1>4
<1>6. e = ExpectedHours(r, week)
  BY DEF ExpectedHours, a, q, d, e
<1> HIDE DEF e
<1>7. 700 * e <= a * d /\ a * d < 700 * e + 1400 /\ a * d \in Nat
  BY <1>1, <1>2, <1>4, <1>5
<1>8. LowHours(hours, e) = Null <=> 5 * hours >= 4 * e
  BY <1>5, LowLaw
<1>9. 5 * 700 * hours >= 4 * (a * d) => 5 * hours >= 4 * e
  BY <1>5, <1>7
<1>10. 5 * hours >= 4 * e => 5 * 700 * hours > 4 * (a * d - 1400)
  BY <1>5, <1>7
<1> QED
  BY <1>6, <1>8, <1>9, <1>10 DEF a, d

-----------------------------------------------------------------------------
(***************************************************************************)
(* The inductive invariant.                                                *)
(***************************************************************************)

HealthColumns == {"health_status", "health_computed_at"}

IsProject(row) == /\ row = [f \in DOMAIN row |-> row[f]]
                  /\ HealthColumns \cup {"status"} \subseteq DOMAIN row

IsWeek(w) == \/ w.status = "MISSED"
             \/ w.status = "SUBMITTED" /\ w.hours \in [ProjectIds -> Nat]

TablesOK ==
  /\ project = [p \in DOMAIN project |-> project[p]]
  /\ DOMAIN project \subseteq ProjectIds
  /\ \A p \in DOMAIN project : IsProject(project[p])
  /\ assigned \subseteq Rows
  /\ \A w \in logged : IsWeek(w)
  /\ today \in Int

SnapshotsOK ==
  /\ DOMAIN snapshots \subseteq DOMAIN project
  /\ ticks = [committed |-> ticks.committed, due |-> ticks.due]
  /\ ticks.committed \in Nat /\ ticks.due \in BOOLEAN
  /\ \A p \in DOMAIN snapshots : /\ snapshots[p].computed_at \in Nat
                                 /\ snapshots[p].computed_at <= ticks.committed

\* What an UPDATE writes is not the health of a project.
ValuesOK(values) ==
  /\ DOMAIN values \cap HealthColumns = {}
  /\ "status" \in DOMAIN values => values.status \in ProjectStatuses
  /\ "manager_user_id" \in DOMAIN values => values.manager_user_id \in Managers

EditsOK ==
  /\ edit = [a \in Admins |-> edit[a]]
  /\ \A a \in Admins :
       /\ edit[a].pc \in {"load", "update"} => edit[a].project_id \in DOMAIN project
       /\ edit[a].pc = "load" => edit[a].update \in Updates
       /\ edit[a].pc = "update" => ValuesOK(edit[a].values)

EarlyFields == {"pc", "as_of", "written"}
TickFields == EarlyFields \cup {"queue", "project_id", "flags", "rows", "engineers", "missed"}

\* What a tick has written is of projects that exist, and is still to be counted.
TickOK ==
  /\ tick.pc \in {"idle", "list", "milestones", "rows", "hours", "commit"}
  /\ tick.pc = "list" => tick = [f \in EarlyFields |-> tick[f]]
  /\ tick.pc \notin {"idle", "list"} =>
       tick = [f \in TickFields |-> tick[f]] /\ tick.queue \subseteq DOMAIN project
  /\ tick.pc \in {"rows", "hours"} => tick.project_id \in DOMAIN project
  /\ tick.pc = "hours" => \A r \in tick.rows : r.project_id = tick.project_id
  /\ tick.pc # "idle" => /\ DOMAIN tick.written \subseteq DOMAIN project
                         /\ tick.as_of \in Int
                         /\ \A p \in DOMAIN tick.written :
                              tick.written[p].computed_at = ticks.committed + 1

\* Of a project that is being opened, the snapshot that goes with the status is there.
ViewOK ==
  /\ view.pc = "snapshot" =>
       /\ view = [f \in {"pc", "project_id", "status", "computed_at"} |-> view[f]]
       /\ view.computed_at # Null =>
            /\ view.project_id \in DOMAIN snapshots
            /\ view.computed_at \in Nat
            /\ snapshots[view.project_id].computed_at >= view.computed_at
  /\ FlagsNotOlderThanStatus

HealthInv == TablesOK /\ SnapshotsOK /\ EditsOK /\ TickOK /\ ViewOK /\ HealthAgreesWithSnapshot

LEMMA InvInit == Init => HealthInv
<1> SUFFICES ASSUME Init PROVE HealthInv
  OBVIOUS
<1>1. \A new \in Projects : /\ IsProject(Unrated(new))
                            /\ Unrated(new).health_status = "ON_TRACK"
                            /\ Unrated(new).health_computed_at = Null
  BY ProjectsAssumption DEF Unrated, Over, IsProject, HealthColumns
<1>2. \/ project = << >>
      \/ \E new \in Projects : project = With(<< >>, 1, Unrated(new))
  BY DEF Init
<1>3. /\ project = [p \in DOMAIN project |-> project[p]]
      /\ DOMAIN project \subseteq {1}
      /\ \A p \in DOMAIN project : /\ IsProject(project[p])
                                   /\ project[p].health_status = "ON_TRACK"
                                   /\ project[p].health_computed_at = Null
  <2>1. CASE project = << >>
    BY <2>1
  <2>2. CASE \E new \in Projects : project = With(<< >>, 1, Unrated(new))
    <3>1. PICK new \in Projects : project = With(<< >>, 1, Unrated(new))
      BY <2>2
    <3> DEFINE new1 == With(<< >>, 1, Unrated(new))
    <3>0. new1 = [p \in DOMAIN new1 |-> new1[p]]
          /\ DOMAIN new1 = DOMAIN << >> \cup {1} /\ new1[1] = Unrated(new)
      BY DEF With, Over
    <3>2. /\ project = [p \in DOMAIN project |-> project[p]]
          /\ DOMAIN project = {1}
          /\ project[1] = Unrated(new)
      BY <3>0, <3>1
    <3> QED
      BY <1>1, <3>2
  <2> QED
    BY <1>2, <2>1, <2>2
<1>4. TablesOK
  BY <1>3, ProjectsAssumption, BoundsAssumption DEF Init, TablesOK
<1>5. SnapshotsOK
  BY DEF Init, SnapshotsOK
<1>6. EditsOK /\ TickOK /\ ViewOK
  BY DEF Init, EditsOK, TickOK, ViewOK, FlagsNotOlderThanStatus, Idle
<1>7. HealthAgreesWithSnapshot
  BY <1>3 DEF Init, HealthAgreesWithSnapshot
<1> QED
  BY <1>4, <1>5, <1>6, <1>7 DEF HealthInv

\* The columns of a project that an UPDATE names do not include its health.
LEMMA WriteUpdateKeepsHealth ==
  ASSUME HealthInv, NEW a \in Admins, WriteUpdate(a)
  PROVE  /\ project' = [p \in DOMAIN project' |-> project'[p]]
         /\ DOMAIN project' = DOMAIN project
         /\ \A p \in DOMAIN project :
              /\ IsProject(project'[p])
              /\ project'[p].health_status = project[p].health_status
              /\ project'[p].health_computed_at = project[p].health_computed_at
<1> DEFINE e == edit[a].project_id
           u == edit[a].values
           new == [f \in DOMAIN project[e] |->
                     IF f \in DOMAIN u THEN u[f] ELSE project[e][f]]
<1>1. e \in DOMAIN project /\ ValuesOK(u)
  BY DEF HealthInv, EditsOK, WriteUpdate
<1>2. project' = [project EXCEPT ![e] = new]
  BY DEF WriteUpdate
<1>3. IsProject(project[e])
  BY <1>1 DEF HealthInv, TablesOK
<1>4. /\ IsProject(new)
      /\ new.health_status = project[e].health_status
      /\ new.health_computed_at = project[e].health_computed_at
  BY <1>1, <1>3 DEF IsProject, HealthColumns, ValuesOK
<1> HIDE DEF e, u, new
<1>5. project = [p \in DOMAIN project |-> project[p]] /\ \A p \in DOMAIN project : IsProject(project[p])
  BY DEF HealthInv, TablesOK
<1> QED
  BY <1>1, <1>2, <1>4, <1>5

\* A project that is created exists for the first time, and has no snapshot.
LEMMA CreateProjectAdds ==
  ASSUME HealthInv, NEW p \in ProjectIds, NEW new \in Projects, CreateProject(p, new)
  PROVE  /\ p \notin DOMAIN project
         /\ project' = [q \in DOMAIN project' |-> project'[q]]
         /\ DOMAIN project' = DOMAIN project \cup {p}
         /\ \A q \in DOMAIN project : project'[q] = project[q]
         /\ IsProject(project'[p])
         /\ project'[p].health_status = "ON_TRACK"
         /\ project'[p].health_computed_at = Null
<1>1. project' = With(project, p, Unrated(new)) /\ p \notin DOMAIN project
  BY DEF CreateProject, Existing
<1>2. /\ IsProject(Unrated(new))
      /\ Unrated(new).health_status = "ON_TRACK"
      /\ Unrated(new).health_computed_at = Null
  BY ProjectsAssumption DEF Unrated, Over, IsProject, HealthColumns
<1>3. /\ project' = [q \in DOMAIN project' |-> project'[q]]
      /\ DOMAIN project' = DOMAIN project \cup {p}
      /\ \A q \in DOMAIN project : project'[q] = project[q]
      /\ project'[p] = Unrated(new)
  BY <1>1 DEF With, Over
<1> QED
  BY <1>1, <1>2, <1>3

\* The commit of a tick writes project and snapshot of each evaluated project alike.
LEMMA CommitTickWrites ==
  ASSUME HealthInv, CommitTick
  PROVE  /\ project' = [p \in DOMAIN project |-> project'[p]]
         /\ DOMAIN project' = DOMAIN project
         /\ \A p \in DOMAIN project : IsProject(project'[p]) /\ project'[p].status = project[p].status
         /\ DOMAIN snapshots' = DOMAIN snapshots \cup DOMAIN tick.written
         /\ \A p \in DOMAIN tick.written :
              /\ p \in DOMAIN project
              /\ snapshots'[p] = tick.written[p]
              /\ project'[p].health_status = tick.written[p].status
              /\ project'[p].health_computed_at = tick.written[p].computed_at
         /\ \A p \in DOMAIN project \ DOMAIN tick.written : project'[p] = project[p]
         /\ \A p \in DOMAIN snapshots \ DOMAIN tick.written : snapshots'[p] = snapshots[p]
<1>1. /\ DOMAIN tick.written \subseteq DOMAIN project
      /\ \A p \in DOMAIN project : IsProject(project[p])
  BY DEF HealthInv, TickOK, TablesOK, CommitTick
<1>2. project' = Rated /\ snapshots' = Over(tick.written, snapshots)
  BY DEF CommitTick
<1>3. \A p \in DOMAIN project : p \in DOMAIN tick.written =>
        project'[p] = [project[p] EXCEPT !.health_status = tick.written[p].status,
                                         !.health_computed_at = tick.written[p].computed_at]
  BY <1>2 DEF Rated
<1>4. \A p \in DOMAIN project : p \in DOMAIN tick.written =>
        /\ IsProject(project'[p]) /\ project'[p].status = project[p].status
        /\ project'[p].health_status = tick.written[p].status
        /\ project'[p].health_computed_at = tick.written[p].computed_at
  <2> SUFFICES ASSUME NEW p \in DOMAIN project, p \in DOMAIN tick.written
               PROVE  /\ IsProject(project'[p]) /\ project'[p].status = project[p].status
                      /\ project'[p].health_status = tick.written[p].status
                      /\ project'[p].health_computed_at = tick.written[p].computed_at
    OBVIOUS
  <2> DEFINE row == project[p]
             written == tick.written[p]
             new == [row EXCEPT !.health_status = written.status,
                                !.health_computed_at = written.computed_at]
  <2>1. project'[p] = new /\ IsProject(row)
    BY <1>1, <1>3
  <2>2. {"status", "health_status", "health_computed_at"} \subseteq DOMAIN row
    BY <2>1 DEF IsProject, HealthColumns
  <2> HIDE DEF row, written
  <2>3. /\ new.status = row.status /\ new.health_status = written.status
        /\ new.health_computed_at = written.computed_at
    BY <2>2
  <2>4. DOMAIN new = DOMAIN row /\ new = [f \in DOMAIN new |-> new[f]]
    OBVIOUS
  <2> HIDE DEF new
  <2>5. IsProject(new)
    BY <2>1, <2>4 DEF IsProject
  <2> QED
    BY <2>1, <2>3, <2>5 DEF row, written
<1>5. /\ project' = [p \in DOMAIN project |-> project'[p]] /\ DOMAIN project' = DOMAIN project
      /\ \A p \in DOMAIN project \ DOMAIN tick.written : project'[p] = project[p]
  BY <1>2 DEF Rated
<1>6. /\ DOMAIN snapshots' = DOMAIN snapshots \cup DOMAIN tick.written
      /\ \A p \in DOMAIN tick.written : snapshots'[p] = tick.written[p]
      /\ \A p \in DOMAIN snapshots \ DOMAIN tick.written : snapshots'[p] = snapshots[p]
  BY <1>2 DEF Over
<1>7. \A p \in DOMAIN project : IsProject(project'[p]) /\ project'[p].status = project[p].status
  BY <1>1, <1>4, <1>5
<1> QED
  BY <1>1, <1>4, <1>5, <1>6, <1>7

\* A step that touches neither a project nor a snapshot nor the count of ticks.
Untouched == /\ UNCHANGED <<project, snapshots>>
             /\ ticks' = [committed |-> ticks.committed, due |-> ticks.due']
             /\ ticks.committed' = ticks.committed /\ ticks.due' \in BOOLEAN

LEMMA MostStepsTouchNothing ==
  ASSUME HealthInv,
         \/ BeginTick \/ ListActive \/ ReadMilestones \/ ReadRows \/ Evaluate
         \/ \E row \in Rows : ReadHours(row) \/ StartRow(row) \/ EndRow(row)
         \/ \E u \in Engineers : FlagMissed(u)
         \/ \E a \in Admins : LoadUpdate(a)
         \/ \E a \in Admins, p \in ProjectIds, update \in Updates : BeginUpdate(a, p, update)
         \/ \E a \in Admins, p \in ProjectIds, new \in Milestones : BeginAddMilestone(a, p, new)
         \/ \E a \in Admins : InsertMilestone(a)
         \/ \E p \in DOMAIN project, update \in MilestoneUpdates :
              \E i \in DOMAIN milestones[p] : UpdateMilestone(p, i, update)
         \/ \E p \in ProjectIds : OpenProject(p)
         \/ ReadSnapshot \/ Close
         \/ \E s \in Submissions : BeginSubmit(s) \/ InsertWeek(s)
         \/ IntervalPasses \/ DayPasses \/ Restart
         \/ UNCHANGED vars
  PROVE  Untouched
<1>0. /\ ticks = [committed |-> ticks.committed, due |-> ticks.due]
      /\ ticks.due \in BOOLEAN
  BY DEF HealthInv, SnapshotsOK
<1> DEFINE Due(b) == ticks' = [ticks EXCEPT !.due = b]
<1>1. ASSUME NEW b \in BOOLEAN, Due(b), UNCHANGED <<project, snapshots>> PROVE Untouched
  BY <1>0, <1>1 DEF Untouched
<1>2. ASSUME UNCHANGED <<project, snapshots, ticks>> PROVE Untouched
  BY <1>0, <1>2 DEF Untouched
<1>3. CASE BeginTick
  BY <1>1, <1>3 DEF BeginTick, data
<1>4. CASE Evaluate
  <2>1. Due(ticks.due \/ ~Storable(tick.flags)) /\ UNCHANGED <<project, snapshots>>
    BY <1>4 DEF Evaluate, data
  <2> HIDE DEF Due
  <2>2. (ticks.due \/ ~Storable(tick.flags)) \in BOOLEAN
    OBVIOUS
  <2> QED
    BY <2>1, <2>2, <1>1
<1>5. CASE \/ ListActive \/ ReadMilestones \/ ReadRows
           \/ \E row \in Rows : ReadHours(row)
           \/ \E u \in Engineers : FlagMissed(u)
  BY <1>2, <1>5 DEF ListActive, ReadMilestones, ReadRows, ReadHours, FlagMissed, data
<1>6. CASE \/ \E row \in Rows : StartRow(row) \/ EndRow(row)
           \/ \E s \in Submissions : InsertWeek(s)
           \/ IntervalPasses \/ DayPasses \/ Restart
  <2>1. Due(TRUE) /\ UNCHANGED <<project, snapshots>>
    BY <1>6 DEF StartRow, EndRow, InsertWeek, IntervalPasses, DayPasses, Restart, Change, data
  <2> QED
    BY <1>1, <2>1
<1>7. CASE \/ \E a \in Admins : InsertMilestone(a)
           \/ \E p \in DOMAIN project, update \in MilestoneUpdates :
                \E i \in DOMAIN milestones[p] : UpdateMilestone(p, i, update)
  <2>1. Due(TRUE) /\ UNCHANGED <<project, snapshots>>
    BY <1>7 DEF InsertMilestone, UpdateMilestone, Change
  <2> QED
    BY <1>1, <2>1
<1>8. CASE \/ \E a \in Admins, p \in ProjectIds, update \in Updates : BeginUpdate(a, p, update)
           \/ \E a \in Admins, p \in ProjectIds, new \in Milestones : BeginAddMilestone(a, p, new)
           \/ \E a \in Admins : LoadUpdate(a)
           \/ \E s \in Submissions : BeginSubmit(s)
           \/ \E p \in ProjectIds : OpenProject(p)
           \/ ReadSnapshot \/ Close
           \/ UNCHANGED vars
  BY <1>2, <1>8 DEF BeginUpdate, BeginAddMilestone, LoadUpdate, BeginSubmit, OpenProject,
                    ReadSnapshot, Close, data, vars
<1> QED
  BY <1>3, <1>4, <1>5, <1>6, <1>7, <1>8

\* The steps by what they do to projects and snapshots.
LEMMA Steps ==
  ASSUME HealthInv, [Next]_vars
  PROVE  \/ Untouched
         \/ CommitTick
         \/ \E a \in Admins : WriteUpdate(a)
         \/ \E p \in ProjectIds, new \in Projects : CreateProject(p, new)
BY MostStepsTouchNothing DEF Next, Tick, Admin, AdminAtOnce, Look, Others

LEMMA ProjectsStep ==
  ASSUME HealthInv, [Next]_vars
  PROVE  /\ DOMAIN project \subseteq DOMAIN project'
         /\ SnapshotsOK' /\ HealthAgreesWithSnapshot'
<1>0. TablesOK /\ SnapshotsOK /\ HealthAgreesWithSnapshot /\ TickOK
  BY DEF HealthInv
<1>1. CASE Untouched
  BY <1>0, <1>1 DEF Untouched, SnapshotsOK, HealthAgreesWithSnapshot
<1>2. CASE CommitTick
  <2>1. /\ ticks' = [committed |-> ticks.committed + 1, due |-> ticks.due]
        /\ ticks.committed' = ticks.committed + 1 /\ ticks.due' = ticks.due
    BY <1>0, <1>2 DEF CommitTick, SnapshotsOK
  <2>2. \A p \in DOMAIN tick.written : tick.written[p].computed_at = ticks.committed + 1
    BY <1>0, <1>2 DEF CommitTick, TickOK
  <2>3. SnapshotsOK'
    <3>1. \A p \in DOMAIN snapshots' : snapshots'[p].computed_at \in Nat
                                     /\ snapshots'[p].computed_at <= ticks.committed + 1
      <4>1. \A p \in DOMAIN tick.written : snapshots'[p].computed_at = ticks.committed + 1
        BY <1>2, <2>2, CommitTickWrites
      <4>2. \A p \in DOMAIN snapshots \ DOMAIN tick.written : snapshots'[p] = snapshots[p]
        BY <1>2, CommitTickWrites
      <4>3. DOMAIN snapshots' = DOMAIN snapshots \cup DOMAIN tick.written
        BY <1>2, CommitTickWrites
      <4> QED
        BY <1>0, <4>1, <4>2, <4>3 DEF SnapshotsOK
    <3>2. DOMAIN snapshots' \subseteq DOMAIN project'
      BY <1>0, <1>2, CommitTickWrites DEF SnapshotsOK
    <3> QED
      BY <1>0, <2>1, <3>1, <3>2 DEF SnapshotsOK
  <2>4. HealthAgreesWithSnapshot'
    BY <1>0, <1>2, CommitTickWrites DEF HealthAgreesWithSnapshot
  <2> QED
    BY <1>2, <2>3, <2>4, CommitTickWrites
<1>3. ASSUME NEW a \in Admins, WriteUpdate(a)
      PROVE  /\ DOMAIN project \subseteq DOMAIN project'
             /\ SnapshotsOK' /\ HealthAgreesWithSnapshot'
  <2>1. /\ ticks' = [committed |-> ticks.committed, due |-> TRUE] /\ snapshots' = snapshots
        /\ ticks.committed' = ticks.committed /\ ticks.due' = TRUE
    BY <1>0, <1>3 DEF WriteUpdate, Change, SnapshotsOK
  <2> QED
    BY <1>0, <1>3, <2>1, WriteUpdateKeepsHealth DEF SnapshotsOK, HealthAgreesWithSnapshot
<1>4. ASSUME NEW p \in ProjectIds, NEW new \in Projects, CreateProject(p, new)
      PROVE  /\ DOMAIN project \subseteq DOMAIN project'
             /\ SnapshotsOK' /\ HealthAgreesWithSnapshot'
  <2>1. /\ ticks' = [committed |-> ticks.committed, due |-> TRUE] /\ snapshots' = snapshots
        /\ ticks.committed' = ticks.committed /\ ticks.due' = TRUE
    BY <1>0, <1>4 DEF CreateProject, Change, SnapshotsOK
  <2>2. SnapshotsOK' /\ DOMAIN project \subseteq DOMAIN project'
    BY <1>0, <1>4, <2>1, CreateProjectAdds DEF SnapshotsOK
  <2>3. /\ p \notin DOMAIN snapshots'
        /\ DOMAIN project' = DOMAIN project \cup {p}
        /\ \A q \in DOMAIN project : project'[q] = project[q]
        /\ project'[p].health_status = "ON_TRACK"
        /\ project'[p].health_computed_at = Null
    BY <1>0, <1>4, <2>1, CreateProjectAdds DEF SnapshotsOK
  <2>4. HealthAgreesWithSnapshot'
    BY <1>0, <2>1, <2>3 DEF HealthAgreesWithSnapshot
  <2> QED
    BY <2>2, <2>4
<1> QED
  BY <1>1, <1>2, <1>3, <1>4, Steps

LEMMA TablesStep ==
  ASSUME HealthInv, [Next]_vars
  PROVE  TablesOK'
<1>0. TablesOK
  BY DEF HealthInv
<1>1. /\ project' = [p \in DOMAIN project' |-> project'[p]]
      /\ DOMAIN project' \subseteq ProjectIds
      /\ \A p \in DOMAIN project' : IsProject(project'[p])
  <2>1. CASE Untouched
    BY <1>0, <2>1 DEF Untouched, TablesOK
  <2>2. CASE CommitTick
    BY <1>0, <2>2, CommitTickWrites DEF TablesOK
  <2>3. ASSUME NEW a \in Admins, WriteUpdate(a) PROVE <1>1!:
    BY <1>0, <2>3, WriteUpdateKeepsHealth DEF TablesOK
  <2>4. ASSUME NEW p \in ProjectIds, NEW new \in Projects, CreateProject(p, new) PROVE <1>1!:
    BY <1>0, <2>4, CreateProjectAdds DEF TablesOK
  <2> QED
    BY <2>1, <2>2, <2>3, <2>4, Steps
<1>2. assigned' \subseteq Rows
  <2>1. CASE \E row \in Rows : StartRow(row) \/ EndRow(row)
    BY <1>0, <2>1 DEF TablesOK, StartRow, EndRow
  <2>2. CASE UNCHANGED assigned
    BY <1>0, <2>2 DEF TablesOK
  <2>3. UNCHANGED assigned \/ \E row \in Rows : StartRow(row) \/ EndRow(row)
    BY DEF Next, Tick, Admin, AdminAtOnce, Look, Others, vars, data, BeginTick,
           ListActive, ReadMilestones, ReadRows, ReadHours, Evaluate, FlagMissed, CommitTick,
           CreateProject, BeginUpdate, LoadUpdate, WriteUpdate, BeginAddMilestone, InsertMilestone,
           UpdateMilestone, OpenProject, ReadSnapshot, Close, BeginSubmit,
           InsertWeek, IntervalPasses, DayPasses, Restart
  <2> QED
    BY <2>1, <2>2, <2>3
<1>3. today' \in Int
  <2>1. today' = today \/ today' = today + 1
    BY DEF Next, Tick, Admin, AdminAtOnce, Look, Others, vars, data, BeginTick,
           ListActive, ReadMilestones, ReadRows, ReadHours, Evaluate, FlagMissed, CommitTick,
           CreateProject, BeginUpdate, LoadUpdate, WriteUpdate, BeginAddMilestone, InsertMilestone,
           UpdateMilestone, OpenProject, ReadSnapshot, Close, StartRow, EndRow,
           BeginSubmit, InsertWeek, IntervalPasses, DayPasses, Restart
  <2> QED
    BY <1>0, <2>1 DEF TablesOK
<1>4. \A w \in logged' : IsWeek(w)
  <2>1. ASSUME NEW s \in Submissions, InsertWeek(s) PROVE <1>4!:
    <3>1. logged' = logged \cup {[user_id |-> s.user_id, week |-> s.week, status |-> "SUBMITTED",
                                 hours |-> s.hours]}
      BY <2>1 DEF InsertWeek
    <3> QED
      BY <1>0, <3>1, SubmissionsAssumption DEF TablesOK, IsWeek
  <2>2. CASE CommitTick
    <3>1. logged' = logged \cup MissedRows
      BY <2>2 DEF CommitTick
    <3>2. \A w \in MissedRows : w.status = "MISSED"
      BY DEF MissedRows
    <3> QED
      BY <1>0, <3>1, <3>2 DEF TablesOK, IsWeek
  <2>3. CASE UNCHANGED logged
    BY <1>0, <2>3 DEF TablesOK
  <2>4. UNCHANGED logged \/ CommitTick \/ \E s \in Submissions : InsertWeek(s)
    BY DEF Next, Tick, Admin, AdminAtOnce, Look, Others, vars, data, weeks, BeginTick,
           ListActive, ReadMilestones, ReadRows, ReadHours, Evaluate, FlagMissed,
           CreateProject, BeginUpdate, LoadUpdate, WriteUpdate, BeginAddMilestone,
           InsertMilestone, UpdateMilestone, OpenProject, ReadSnapshot, Close, StartRow,
           EndRow, BeginSubmit, IntervalPasses, DayPasses, Restart
  <2> QED
    BY <2>1, <2>2, <2>3, <2>4
<1> QED
  BY <1>1, <1>2, <1>3, <1>4 DEF TablesOK

LEMMA EditsStep ==
  ASSUME HealthInv, [Next]_vars
  PROVE  EditsOK'
<1>0. EditsOK /\ DOMAIN project \subseteq DOMAIN project'
  BY ProjectsStep DEF HealthInv
<1>1. ASSUME NEW a \in Admins, NEW p \in ProjectIds, NEW update \in Updates,
             BeginUpdate(a, p, update)
      PROVE  EditsOK'
  <2>1. edit' = [edit EXCEPT ![a] = [pc |-> "load", project_id |-> p, update |-> update]]
        /\ p \in DOMAIN project
    BY <1>1 DEF BeginUpdate, Existing
  <2> QED
    BY <1>0, <2>1 DEF EditsOK
<1>2. ASSUME NEW a \in Admins, NEW p \in ProjectIds, NEW new \in Milestones,
             BeginAddMilestone(a, p, new)
      PROVE  EditsOK'
  <2>1. PICK m : edit' = [edit EXCEPT ![a] = [pc |-> "add", project_id |-> p, milestone |-> m]]
    BY <1>2 DEF BeginAddMilestone
  <2> QED
    BY <1>0, <2>1 DEF EditsOK
<1>7. ASSUME NEW a \in Admins, LoadUpdate(a) PROVE EditsOK'
  <2> DEFINE p == edit[a].project_id
             u == edit[a].update
             values == [f \in {g \in DOMAIN u : u[g] # Null /\ u[g] # project[p][g]} |-> u[f]]
  <2>1. /\ edit' = [edit EXCEPT ![a] = [pc |-> "update", project_id |-> p, values |-> values]]
        /\ edit[a].pc = "load"
    BY <1>7 DEF LoadUpdate
  <2>2. p \in DOMAIN project /\ u \in Updates
    BY <1>0, <2>1 DEF EditsOK
  <2>3. ValuesOK(values)
    BY <2>2, UpdatesAssumption DEF ValuesOK, HealthColumns
  <2> HIDE DEF p, u, values
  <2> QED
    BY <1>0, <2>1, <2>2, <2>3 DEF EditsOK
<1>3. ASSUME NEW a \in Admins, WriteUpdate(a) \/ InsertMilestone(a) PROVE EditsOK'
  <2>1. edit' = [edit EXCEPT ![a] = Idle]
    BY <1>3 DEF WriteUpdate, InsertMilestone
  <2> QED
    BY <1>0, <2>1 DEF EditsOK, Idle
<1>4. CASE Restart
  BY <1>4 DEF Restart, EditsOK, Idle
<1>5. CASE UNCHANGED edit
  BY <1>0, <1>5 DEF EditsOK
<1>6. \/ UNCHANGED edit \/ Restart
      \/ \E a \in Admins : Admin(a)
  BY DEF Next, Tick, AdminAtOnce, Look, Others, vars, data, BeginTick,
         ListActive, ReadMilestones, ReadRows, ReadHours, Evaluate, FlagMissed, CommitTick,
         CreateProject, UpdateMilestone, OpenProject, ReadSnapshot, Close, StartRow, EndRow,
         BeginSubmit, InsertWeek, IntervalPasses, DayPasses
<1> QED
  BY <1>1, <1>2, <1>3, <1>4, <1>5, <1>6, <1>7 DEF Admin

LEMMA TickStep ==
  ASSUME HealthInv, [Next]_vars
  PROVE  TickOK'
<1>0. TickOK /\ TablesOK /\ DOMAIN project \subseteq DOMAIN project'
  BY ProjectsStep DEF HealthInv
<1>1. CASE BeginTick
  <2>1. tick' = [pc |-> "list", as_of |-> today, written |-> << >>] /\ today \in Int
    BY <1>0, <1>1 DEF BeginTick, TablesOK
  <2>2. DOMAIN tick'.written = {}
    BY <2>1
  <2> QED
    BY <2>1, <2>2 DEF TickOK, EarlyFields
<1>2. CASE ListActive
  <2>1. tick' = Over([pc |-> Turn(Active), queue |-> Active, project_id |-> Null,
                      flags |-> {}, rows |-> {}, engineers |-> Engineers, missed |-> {}],
                     tick)
        /\ Turn(Active) \in {"commit", "milestones"}
        /\ tick.pc = "list" /\ UNCHANGED <<project, ticks>>
    BY <1>2 DEF ListActive, Turn, data
  <2>2. /\ tick' = [f \in TickFields |-> tick'[f]]
        /\ tick'.pc \in {"commit", "milestones"} /\ tick'.queue = Active
        /\ tick'.written = tick.written /\ tick'.as_of = tick.as_of
    BY <1>0, <2>1 DEF TickOK, EarlyFields, TickFields, Over
  <2> QED
    BY <1>0, <2>1, <2>2 DEF TickOK, Active
<1>3. CASE ReadMilestones
  <2>1. PICK p \in tick.queue :
          tick' = [tick EXCEPT !.pc = "rows", !.project_id = p, !.queue = @ \ {p},
                     !.flags = OverdueFlags(milestones[p], tick.as_of)]
    BY <1>3 DEF ReadMilestones
  <2>2. tick.pc = "milestones" /\ UNCHANGED <<project, ticks>>
    BY <1>3 DEF ReadMilestones, data
  <2>3. /\ tick' = [f \in TickFields |-> tick'[f]]
        /\ tick'.pc = "rows" /\ tick'.queue = tick.queue \ {p} /\ tick'.project_id = p
        /\ tick'.written = tick.written /\ tick'.as_of = tick.as_of
    BY <1>0, <2>1, <2>2 DEF TickOK, EarlyFields, TickFields
  <2> QED
    BY <1>0, <2>2, <2>3 DEF TickOK
<1>4. CASE ReadRows
  <2>1. PICK flags : tick' = [tick EXCEPT !.pc = "hours", !.rows = RowsOf(tick.project_id),
                                          !.flags = flags]
    BY <1>4 DEF ReadRows
  <2>2. tick.pc = "rows" /\ UNCHANGED <<project, ticks>>
    BY <1>4 DEF ReadRows, data
  <2>3. /\ tick' = [f \in TickFields |-> tick'[f]]
        /\ tick'.pc = "hours" /\ tick'.queue = tick.queue
        /\ tick'.project_id = tick.project_id /\ tick'.rows = RowsOf(tick.project_id)
        /\ tick'.written = tick.written /\ tick'.as_of = tick.as_of
    BY <1>0, <2>1, <2>2 DEF TickOK, EarlyFields, TickFields
  <2> QED
    BY <1>0, <2>2, <2>3 DEF TickOK, RowsOf
<1>5. ASSUME NEW row \in Rows, ReadHours(row) PROVE TickOK'
  <2>1. PICK flags : tick' = [tick EXCEPT !.rows = @ \ {row}, !.flags = flags]
    BY <1>5 DEF ReadHours
  <2>2. tick.pc = "hours" /\ UNCHANGED <<project, ticks>>
    BY <1>5 DEF ReadHours, data
  <2>3. /\ tick' = [f \in TickFields |-> tick'[f]]
        /\ tick'.pc = "hours" /\ tick'.queue = tick.queue
        /\ tick'.project_id = tick.project_id /\ tick'.rows = tick.rows \ {row}
        /\ tick'.written = tick.written /\ tick'.as_of = tick.as_of
    BY <1>0, <2>1, <2>2 DEF TickOK, EarlyFields, TickFields
  <2> QED
    BY <1>0, <2>2, <2>3 DEF TickOK
<1>6. CASE Evaluate
  <2> DEFINE new == [status |-> Status(tick.flags), flags |-> tick.flags,
                     computed_at |-> ticks.committed + 1]
  <2>0. \/ tick' = Idle
        \/ tick' = [tick EXCEPT !.pc = Turn(tick.queue),
                                !.written = With(@, tick.project_id, new)]
    BY <1>6 DEF Evaluate
  <2>1. new.computed_at = ticks.committed + 1
    OBVIOUS
  <2> HIDE DEF new
  <2>2. CASE tick' = Idle
    BY <2>2 DEF TickOK, Idle
  <2>3. CASE tick' = [tick EXCEPT !.pc = Turn(tick.queue),
                                 !.written = With(@, tick.project_id, new)]
    <3>1. tick.pc = "hours" /\ UNCHANGED project /\ Turn(tick.queue) \in {"commit", "milestones"}
      BY <1>6 DEF Evaluate, data, Turn
    <3>2. ticks.committed' = ticks.committed
      BY <1>6 DEF Evaluate, HealthInv, SnapshotsOK
    <3>3. /\ tick' = [f \in TickFields |-> tick'[f]]
          /\ tick'.pc \in {"commit", "milestones"} /\ tick'.queue = tick.queue
          /\ tick'.as_of = tick.as_of
          /\ tick'.written = With(tick.written, tick.project_id, new)
      BY <1>0, <2>3, <3>1 DEF TickOK, EarlyFields, TickFields
    <3>4. /\ DOMAIN tick'.written = DOMAIN tick.written \cup {tick.project_id}
          /\ tick'.written[tick.project_id] = new
          /\ \A p \in DOMAIN tick.written \ {tick.project_id} : tick'.written[p] = tick.written[p]
      BY <3>3 DEF With, Over
    <3> QED
      BY <1>0, <2>1, <3>1, <3>2, <3>3, <3>4 DEF TickOK
  <2> QED
    BY <2>0, <2>2, <2>3
<1>11. ASSUME NEW u \in Engineers, FlagMissed(u) PROVE TickOK'
  <2>1. PICK missed : tick' = [tick EXCEPT !.engineers = @ \ {u}, !.missed = missed]
    BY <1>11 DEF FlagMissed
  <2>2. tick.pc = "commit" /\ UNCHANGED <<project, ticks>>
    BY <1>11 DEF FlagMissed, data
  <2>3. /\ tick' = [f \in TickFields |-> tick'[f]]
        /\ tick'.pc = "commit" /\ tick'.queue = tick.queue
        /\ tick'.written = tick.written /\ tick'.as_of = tick.as_of
    BY <1>0, <2>1, <2>2 DEF TickOK, EarlyFields, TickFields
  <2> QED
    BY <1>0, <2>2, <2>3 DEF TickOK
<1>7. CASE CommitTick \/ Restart
  BY <1>7 DEF CommitTick, Restart, TickOK, Idle
<1>8. CASE UNCHANGED tick /\ ticks.committed' = ticks.committed
  BY <1>0, <1>8 DEF TickOK
<1>9. \/ BeginTick \/ ListActive \/ ReadMilestones \/ ReadRows \/ Evaluate \/ CommitTick
      \/ \E row \in Rows : ReadHours(row)
      \/ \E u \in Engineers : FlagMissed(u)
      \/ Restart \/ UNCHANGED tick
  BY DEF Next, Tick, Admin, AdminAtOnce, Look, Others, vars, CreateProject, BeginUpdate,
         LoadUpdate, WriteUpdate, BeginAddMilestone, InsertMilestone, UpdateMilestone, OpenProject,
         ReadSnapshot, Close, StartRow, EndRow, BeginSubmit, InsertWeek, IntervalPasses,
         DayPasses
<1>10. CommitTick \/ ticks.committed' = ticks.committed
  <2>1. \A a \in Admins : WriteUpdate(a) => ticks.committed' = ticks.committed
    BY DEF WriteUpdate, Change, HealthInv, SnapshotsOK
  <2>2. \A p \in ProjectIds, new \in Projects :
          CreateProject(p, new) => ticks.committed' = ticks.committed
    BY DEF CreateProject, Change, HealthInv, SnapshotsOK
  <2> QED
    BY <2>1, <2>2, Steps DEF Untouched
<1> QED
  BY <1>1, <1>2, <1>3, <1>4, <1>5, <1>6, <1>7, <1>8, <1>9, <1>10, <1>11

\* A later snapshot takes the place of an earlier one.
LEMMA SnapshotsGrow ==
  ASSUME HealthInv, [Next]_vars
  PROVE  \A p \in DOMAIN snapshots :
           /\ p \in DOMAIN snapshots'
           /\ snapshots[p].computed_at \in Nat /\ snapshots'[p].computed_at \in Nat
           /\ snapshots'[p].computed_at >= snapshots[p].computed_at
<1>0. SnapshotsOK
  BY DEF HealthInv
<1>1. CASE UNCHANGED snapshots
  BY <1>0, <1>1 DEF SnapshotsOK
<1>2. CASE CommitTick
  <2>1. \A p \in DOMAIN tick.written : /\ p \in DOMAIN snapshots'
                                       /\ snapshots'[p].computed_at = ticks.committed + 1
    BY <1>2, CommitTickWrites DEF HealthInv, TickOK, CommitTick
  <2>2. \A p \in DOMAIN snapshots \ DOMAIN tick.written :
          p \in DOMAIN snapshots' /\ snapshots'[p] = snapshots[p]
    BY <1>2, CommitTickWrites
  <2> QED
    BY <1>0, <2>1, <2>2 DEF SnapshotsOK
<1>3. UNCHANGED snapshots \/ CommitTick
  BY Steps DEF Untouched, WriteUpdate, CreateProject
<1> QED
  BY <1>1, <1>2, <1>3

LEMMA ViewStep ==
  ASSUME HealthInv, [Next]_vars
  PROVE  ViewOK'
<1>0. ViewOK /\ SnapshotsOK /\ HealthAgreesWithSnapshot
  BY DEF HealthInv
<1>1. ASSUME NEW p \in ProjectIds, OpenProject(p) PROVE ViewOK'
  <2>1. /\ view' = [pc |-> "snapshot", project_id |-> p, status |-> project[p].health_status,
                    computed_at |-> project[p].health_computed_at]
        /\ p \in DOMAIN project /\ UNCHANGED snapshots
    BY <1>1 DEF OpenProject, Existing
  <2>2. view'.computed_at # Null =>
          /\ p \in DOMAIN snapshots /\ snapshots[p].computed_at = view'.computed_at
          /\ view'.computed_at \in Nat
    BY <1>0, <2>1 DEF HealthAgreesWithSnapshot, SnapshotsOK
  <2> QED
    BY <2>1, <2>2 DEF ViewOK, FlagsNotOlderThanStatus
<1>2. CASE ReadSnapshot
  <2> DEFINE latest == IF view.project_id \in DOMAIN snapshots
                       THEN {snapshots[view.project_id]} ELSE {}
  <2>1. view' = Over([pc |-> "shown", latest |-> latest], view) /\ view.pc = "snapshot"
    BY <1>2 DEF ReadSnapshot
  <2>2. view'.pc = "shown" /\ view'.latest = latest /\ view'.computed_at = view.computed_at
    BY <1>0, <2>1 DEF ViewOK, Over
  <2>3. view.computed_at # Null => \E snapshot \in latest : snapshot.computed_at >= view.computed_at
    BY <1>0, <2>1 DEF ViewOK
  <2> QED
    BY <2>2, <2>3 DEF ViewOK, FlagsNotOlderThanStatus
<1>3. CASE Close \/ Restart
  BY <1>3 DEF Close, Restart, ViewOK, FlagsNotOlderThanStatus, Idle
<1>4. CASE UNCHANGED view
  <2>1. FlagsNotOlderThanStatus'
    BY <1>0, <1>4 DEF ViewOK, FlagsNotOlderThanStatus
  <2>2. ASSUME view.pc = "snapshot", view.computed_at # Null
        PROVE  /\ view.project_id \in DOMAIN snapshots'
               /\ snapshots'[view.project_id].computed_at >= view.computed_at
    BY <1>0, <2>2, SnapshotsGrow DEF ViewOK
  <2> QED
    BY <1>0, <1>4, <2>1, <2>2 DEF ViewOK
<1>5. \/ \E p \in ProjectIds : OpenProject(p)
      \/ ReadSnapshot \/ Close \/ Restart \/ UNCHANGED view
  BY DEF Next, Tick, Admin, AdminAtOnce, Look, Others, vars, BeginTick,
         ListActive, ReadMilestones, ReadRows, ReadHours, Evaluate, FlagMissed, CommitTick,
         CreateProject, BeginUpdate, LoadUpdate, WriteUpdate, BeginAddMilestone, InsertMilestone,
         UpdateMilestone, StartRow, EndRow, BeginSubmit, InsertWeek, IntervalPasses, DayPasses
<1> QED
  BY <1>1, <1>2, <1>3, <1>4, <1>5

LEMMA HealthInvariance == Spec => []HealthInv
<1>1. Init => HealthInv
  BY InvInit
<1>2. HealthInv /\ [Next]_vars => HealthInv'
  BY ProjectsStep, TablesStep, EditsStep, TickStep, ViewStep DEF HealthInv
<1> QED
  BY <1>1, <1>2, PTL DEF Spec

-----------------------------------------------------------------------------
(***************************************************************************)
(* What it comes to.                                                       *)
(***************************************************************************)

\* The status column of every project and its latest snapshot were computed together,
\* for any number of admins whose requests overlap with a tick.
THEOREM StatusAndSnapshotAgree == Spec => []HealthAgreesWithSnapshot
<1>1. HealthInv => HealthAgreesWithSnapshot
  BY DEF HealthInv
<1> QED
  BY <1>1, HealthInvariance, PTL

\* Nobody sees flags older than the status, however many ticks are committed between
\* the two statements.
THEOREM FlagsAreNoOlder == Spec => []FlagsNotOlderThanStatus
<1>1. HealthInv => FlagsNotOlderThanStatus
  BY DEF HealthInv, ViewOK
<1> QED
  BY <1>1, HealthInvariance, PTL

\* The rounding errs by less than 1.6 hours and only in favour of the engineer, for
\* every share, every limit of hours and every part of a week.
THEOREM RoundingIsAlwaysLenient == Spec => []RoundingIsLenient
<1>1. HealthInv => RoundingIsLenient
  <2> SUFFICES ASSUME HealthInv, NEW r \in assigned, NEW week \in {0, 7},
                      NEW hours \in 0 .. MaxWeeklyHours
               PROVE  LET exact700 == r.utilisation_percent * MaxWeeklyHours * OverlapDays(r, week)
                          low == LowHours(hours, ExpectedHours(r, week))
                      IN /\ 5 * 700 * hours >= 4 * exact700 => low = Null
                         /\ low = Null => 5 * 700 * hours > 4 * (exact700 - 1400)
    BY DEF RoundingIsLenient
  <2>1. r \in Rows /\ week \in Int /\ hours \in Nat
    BY HoursAssumption DEF HealthInv, TablesOK
  <2> QED
    BY <2>1, RoundingLaw
<1> QED
  BY <1>1, HealthInvariance, PTL

-----------------------------------------------------------------------------
(***************************************************************************)
(* The types.  That there are no more ticks than changes and days needs    *)
(* an account: a tick needs something that happened since the latest one   *)
(* began, and each change makes one more tick due.  A request of an admin  *)
(* pays when it begins for the change it makes when it is written, so the  *)
(* ticks committed, the one that runs, the one that is due and the         *)
(* requests that run are together at most the changes, the days and one.   *)
(* The submission of a week pays in the same way.                          *)
(***************************************************************************)

IsTyped(row) == /\ "manager_user_id" \in DOMAIN row /\ row.manager_user_id \in Managers
                /\ row.status \in ProjectStatuses /\ row.health_status \in HealthStatuses

ColumnsOK == \A p \in DOMAIN project : IsTyped(project[p])

RatingsOK ==
  tick.pc # "idle" => \A p \in DOMAIN tick.written : tick.written[p].status \in HealthStatuses

Busy == {a \in Admins : edit[a].pc # "idle"}
Running == IF tick.pc = "idle" THEN 0 ELSE 1
DueNow == IF ticks.due THEN 1 ELSE 0

BudgetOK ==
  /\ IsFiniteSet(Busy) /\ IsFiniteSet(submitting)
  /\ today \in 0 .. LastDay /\ changes \in 0 .. MaxChanges
  /\ ticks.committed + Running + DueNow + Cardinality(Busy) + Cardinality(submitting)
       <= changes + today + 1

TypeInv == HealthInv /\ ColumnsOK /\ RatingsOK /\ BudgetOK

LEMMA TypeInit == Init => TypeInv
<1> SUFFICES ASSUME Init PROVE TypeInv
  OBVIOUS
<1>1. HealthInv
  BY InvInit
<1>2. ColumnsOK
  <2>1. CASE project = << >>
    BY <2>1 DEF ColumnsOK
  <2>2. ASSUME NEW new \in Projects, project = With(<< >>, 1, Unrated(new)) PROVE ColumnsOK
    <3>1. IsTyped(Unrated(new))
      BY ProjectsAssumption DEF IsTyped, Unrated, Over, HealthStatuses
    <3> DEFINE row == Unrated(new)
    <3> HIDE DEF row
    <3>2. DOMAIN With(<< >>, 1, row) = {1} /\ With(<< >>, 1, row)[1] = row
      BY DEF With, Over
    <3> QED
      BY <2>2, <3>1, <3>2 DEF ColumnsOK, row
  <2> QED
    BY <2>1, <2>2 DEF Init
<1>3. RatingsOK
  BY DEF Init, RatingsOK, Idle
<1>4. BudgetOK
  <2>1. Busy = {}
    BY DEF Init, Busy, Idle
  <2>2. /\ IsFiniteSet(Busy) /\ Cardinality(Busy) = 0
        /\ IsFiniteSet(submitting) /\ Cardinality(submitting) = 0
    BY <2>1, FS_EmptySet DEF Init
  <2>3. /\ Running = 0 /\ DueNow = 1 /\ ticks.committed = 0 /\ changes = 0 /\ today \in 0 .. LastDay
    BY DEF Init, Running, DueNow, Idle
  <2> QED
    BY <2>2, <2>3, BoundsAssumption DEF BudgetOK
<1> QED
  BY <1>1, <1>2, <1>3, <1>4 DEF TypeInv

LEMMA ColumnsStep ==
  ASSUME TypeInv, [Next]_vars
  PROVE  ColumnsOK'
<1>0. ColumnsOK /\ RatingsOK /\ HealthInv /\ (\A p \in DOMAIN project : IsProject(project[p]))
  BY DEF TypeInv, HealthInv, TablesOK
<1>1. CASE Untouched
  BY <1>0, <1>1 DEF Untouched, ColumnsOK, IsTyped
<1>2. CASE CommitTick
  <2> SUFFICES ASSUME NEW p \in DOMAIN project PROVE IsTyped(project'[p])
    <3>1. DOMAIN project' = DOMAIN project
      BY <1>0, <1>2, CommitTickWrites
    <3> QED
      BY <3>1 DEF ColumnsOK, IsTyped
  <2> DEFINE row == project[p]
  <2>1. CASE p \notin DOMAIN tick.written
    <3>1. project'[p] = row
      BY <1>0, <1>2, <2>1, CommitTickWrites
    <3> QED
      BY <1>0, <3>1 DEF ColumnsOK, IsTyped
  <2>2. CASE p \in DOMAIN tick.written
    <3> DEFINE written == tick.written[p]
               new == [row EXCEPT !.health_status = written.status,
                                  !.health_computed_at = written.computed_at]
    <3>1. project'[p] = new
      BY <1>2, <2>2 DEF CommitTick, Rated
    <3>2. IsTyped(row) /\ IsProject(row) /\ written.status \in HealthStatuses
      BY <1>0, <1>2, <2>2 DEF ColumnsOK, RatingsOK, CommitTick
    <3> HIDE DEF row, written
    <3>3. /\ DOMAIN new = DOMAIN row
          /\ new.manager_user_id = row.manager_user_id /\ new.status = row.status
          /\ new.health_status = written.status
      BY <3>2 DEF IsTyped, IsProject, HealthColumns
    <3> HIDE DEF new
    <3> QED
      BY <3>1, <3>2, <3>3 DEF IsTyped
  <2> QED
    BY <2>1, <2>2
<1>3. ASSUME NEW a \in Admins, WriteUpdate(a) PROVE ColumnsOK'
  <2> DEFINE e == edit[a].project_id
             u == edit[a].values
             row == project[e]
             new == [f \in DOMAIN row |-> IF f \in DOMAIN u THEN u[f] ELSE row[f]]
  <2>1. e \in DOMAIN project /\ ValuesOK(u)
    BY <1>0, <1>3 DEF HealthInv, EditsOK, WriteUpdate
  <2>2. project' = [project EXCEPT ![e] = new]
    BY <1>3 DEF WriteUpdate
  <2>3. IsTyped(row) /\ IsProject(row)
    BY <1>0, <2>1 DEF ColumnsOK
  <2>4. new.health_status = row.health_status
    BY <1>0, <1>3, <2>1, <2>2, WriteUpdateKeepsHealth
  <2> HIDE DEF e, u, row
  <2>5. new.status \in ProjectStatuses
    BY <2>1, <2>3 DEF IsTyped, IsProject, HealthColumns, ValuesOK
  <2>6. "manager_user_id" \in DOMAIN new /\ new.manager_user_id \in Managers
    BY <2>1, <2>3 DEF IsTyped, ValuesOK
  <2> HIDE DEF new
  <2>7. IsTyped(new)
    BY <2>3, <2>4, <2>5, <2>6 DEF IsTyped
  <2>8. \A p \in DOMAIN project' : project'[p] = IF p = e THEN new ELSE project[p]
    BY <2>1, <2>2
  <2>9. DOMAIN project' = DOMAIN project
    BY <2>2
  <2> QED
    BY <1>0, <2>7, <2>8, <2>9 DEF ColumnsOK, IsTyped
<1>4. ASSUME NEW p \in ProjectIds, NEW new \in Projects, CreateProject(p, new) PROVE ColumnsOK'
  <2>1. IsTyped(Unrated(new))
    BY ProjectsAssumption DEF IsTyped, Unrated, Over, HealthStatuses
  <2> DEFINE row == Unrated(new)
  <2>2. project' = With(project, p, row)
    BY <1>4 DEF CreateProject
  <2> HIDE DEF row
  <2>3. /\ DOMAIN project' = DOMAIN project \cup {p}
        /\ \A q \in DOMAIN project' : project'[q] = IF q = p THEN row ELSE project[q]
    BY <2>2 DEF With, Over
  <2> QED
    BY <1>0, <2>1, <2>3 DEF ColumnsOK, IsTyped, row
<1> QED
  BY <1>0, <1>1, <1>2, <1>3, <1>4, Steps

\* A tick writes a status.
LEMMA RatingsStep ==
  ASSUME TypeInv, [Next]_vars
  PROVE  RatingsOK'
<1>0. RatingsOK /\ TickOK
  BY DEF TypeInv, HealthInv
<1>1. CASE BeginTick
  BY <1>1 DEF BeginTick, RatingsOK
<1>2. CASE ListActive
  <2>1. tick.pc = "list" /\ tick'.written = tick.written
    BY <1>0, <1>2 DEF ListActive, Over, TickOK, EarlyFields
  <2> QED
    BY <1>0, <2>1 DEF RatingsOK
<1>3. CASE \/ ReadMilestones \/ ReadRows
           \/ \E row \in Rows : ReadHours(row)
           \/ \E u \in Engineers : FlagMissed(u)
  <2>1. tick.pc # "idle" /\ tick'.written = tick.written
    <3>1. tick.pc \in {"milestones", "rows", "hours", "commit"}
      BY <1>3 DEF ReadMilestones, ReadRows, ReadHours, FlagMissed
    <3>2. tick = [f \in TickFields |-> tick[f]]
      BY <1>0, <3>1 DEF TickOK
    <3>3. "written" \in TickFields
      BY DEF TickFields, EarlyFields
    <3> QED
      BY <1>3, <3>1, <3>2, <3>3 DEF ReadMilestones, ReadRows, ReadHours, FlagMissed
  <2> QED
    BY <1>0, <2>1 DEF RatingsOK
<1>4. CASE Evaluate
  <2> DEFINE snapshot == [status |-> Status(tick.flags), flags |-> tick.flags,
                          computed_at |-> ticks.committed + 1]
             w == With(tick.written, tick.project_id, snapshot)
  <2>1. tick.pc = "hours" /\ tick = [f \in TickFields |-> tick[f]]
    BY <1>0, <1>4 DEF Evaluate, TickOK
  <2>2. snapshot.status \in HealthStatuses
    BY DEF Status, HealthStatuses
  <2>3. CASE Storable(tick.flags)
    <3>1. tick' = [tick EXCEPT !.pc = Turn(tick.queue), !.written = w]
      BY <1>4, <2>3 DEF Evaluate
    <3> HIDE DEF snapshot
    <3>2. \A p \in DOMAIN w : w[p].status \in HealthStatuses
      BY <1>0, <2>1, <2>2 DEF RatingsOK, With, Over
    <3> HIDE DEF w
    <3>3. tick'.written = w
      BY <2>1, <3>1 DEF TickFields, EarlyFields
    <3> QED
      BY <3>2, <3>3 DEF RatingsOK
  <2>4. CASE ~Storable(tick.flags)
    <3>1. tick' = Idle
      BY <1>4, <2>4 DEF Evaluate
    <3> QED
      BY <3>1 DEF RatingsOK, Idle
  <2> QED
    BY <2>3, <2>4
<1>5. CASE CommitTick \/ Restart
  BY <1>5 DEF CommitTick, Restart, RatingsOK, Idle
<1>6. CASE UNCHANGED tick
  BY <1>0, <1>6 DEF RatingsOK
<1>7. CASE \E a \in Admins : Admin(a)
  BY <1>6, <1>7 DEF Admin, data, BeginUpdate, LoadUpdate, WriteUpdate, BeginAddMilestone, InsertMilestone
<1>8. CASE AdminAtOnce
  BY <1>6, <1>8 DEF AdminAtOnce, CreateProject, UpdateMilestone
<1>9. CASE Look
  BY <1>6, <1>9 DEF Look, OpenProject, ReadSnapshot, Close
<1>10. CASE Others
  BY <1>5, <1>6, <1>10 DEF Others, StartRow, EndRow, BeginSubmit, InsertWeek, IntervalPasses,
                           DayPasses
<1>11. CASE UNCHANGED vars
  BY <1>6, <1>11 DEF vars
<1> QED
  BY <1>1, <1>2, <1>3, <1>4, <1>5, <1>7, <1>8, <1>9, <1>10, <1>11 DEF Next, Tick

\* One request more or less.
LEMMA BusyMoves ==
  ASSUME EditsOK, IsFiniteSet(Busy), NEW a \in Admins, NEW e, edit' = [edit EXCEPT ![a] = e]
  PROVE  /\ IsFiniteSet(Busy') /\ Cardinality(Busy) \in Nat /\ Cardinality(Busy') \in Nat
         /\ Cardinality(Busy') <= Cardinality(Busy) + 1
         /\ edit[a].pc # "idle" /\ e = Idle => Cardinality(Busy') = Cardinality(Busy) - 1
<1>1. \A b \in Admins : edit'[b] = IF b = a THEN e ELSE edit[b]
  BY DEF EditsOK
<1>2. Busy' \subseteq Busy \cup {a}
  BY <1>1 DEF Busy
<1>3. /\ IsFiniteSet(Busy \cup {a}) /\ Cardinality(Busy) \in Nat
      /\ Cardinality(Busy \cup {a}) <= Cardinality(Busy) + 1
  <2>1. Cardinality(Busy) \in Nat
    BY FS_CardinalityType
  <2>2. /\ IsFiniteSet(Busy \cup {a})
        /\ \/ Cardinality(Busy \cup {a}) = Cardinality(Busy)
           \/ Cardinality(Busy \cup {a}) = Cardinality(Busy) + 1
    BY FS_AddElement
  <2> QED
    BY <2>1, <2>2
<1>4. IsFiniteSet(Busy') /\ Cardinality(Busy') <= Cardinality(Busy \cup {a})
  BY <1>2, <1>3, FS_Subset
<1>5. Cardinality(Busy') \in Nat /\ Cardinality(Busy \cup {a}) \in Nat
  BY <1>3, <1>4, FS_CardinalityType
<1>6. ASSUME edit[a].pc # "idle", e = Idle PROVE Cardinality(Busy') = Cardinality(Busy) - 1
  <2>1. a \in Busy /\ Busy' = Busy \ {a}
    BY <1>1, <1>6 DEF Busy, Idle
  <2> QED
    BY <2>1, FS_RemoveElement
<1> QED
  BY <1>3, <1>4, <1>5, <1>6

\* Whoever pays: the account of a step whose terms are known.
LEMMA BudgetStep ==
  ASSUME TypeInv, [Next]_vars
  PROVE  BudgetOK'
<1> DEFINE n == Cardinality(Busy)
           m == Cardinality(submitting)
<1>0. /\ BudgetOK /\ EditsOK /\ TickOK /\ SnapshotsOK
      /\ n \in Nat /\ m \in Nat /\ Running \in {0, 1} /\ DueNow \in {0, 1} /\ ticks.committed \in Nat
      /\ today \in 0 .. LastDay /\ changes \in 0 .. MaxChanges
      /\ ticks.committed + Running + DueNow + n + m <= changes + today + 1
  BY FS_CardinalityType DEF TypeInv, HealthInv, BudgetOK, SnapshotsOK, Running, DueNow
<1>a. Running' \in {0, 1} /\ DueNow' \in {0, 1} /\ LastDay \in Nat /\ MaxChanges \in Nat
  BY BoundsAssumption DEF Running, DueNow
<1>b. /\ edit' = edit => Busy' = Busy /\ Cardinality(Busy') = n /\ IsFiniteSet(Busy')
      /\ submitting' = submitting => Cardinality(submitting') = m /\ IsFiniteSet(submitting')
      /\ tick'.pc = tick.pc => Running' = Running
      /\ tick'.pc = "idle" => Running' = 0
      /\ tick.pc = "idle" => Running = 0
      /\ tick.pc # "idle" => Running = 1
      /\ ticks' = ticks => DueNow' = DueNow /\ ticks'.committed = ticks.committed
      /\ \A b : ticks' = [ticks EXCEPT !.due = b] =>
                  ticks'.committed = ticks.committed /\ ticks'.due = b
      /\ ticks.due => DueNow = 1
      /\ ~ticks'.due => DueNow' = 0
  BY <1>0 DEF BudgetOK, Busy, Running, DueNow, SnapshotsOK
<1> HIDE DEF n, m
<1>1. CASE BeginTick
  <2>1. /\ edit' = edit /\ today' = today /\ changes' = changes /\ Running = 0 /\ DueNow = 1
        /\ ticks'.committed = ticks.committed /\ DueNow' = 0 /\ submitting' = submitting
    BY <1>b, <1>1 DEF BeginTick, data, weeks
  <2> QED
    BY <1>0, <1>a, <1>b, <2>1 DEF BudgetOK
<1>2. CASE \/ ListActive \/ ReadMilestones \/ ReadRows
           \/ \E row \in Rows : ReadHours(row)
           \/ \E u \in Engineers : FlagMissed(u)
  <2>1. /\ edit' = edit /\ today' = today /\ changes' = changes /\ ticks' = ticks
        /\ submitting' = submitting
    BY <1>2 DEF ListActive, ReadMilestones, ReadRows, ReadHours, FlagMissed, data, weeks
  <2>2. Running = 1
    BY <1>2, <1>b DEF ListActive, ReadMilestones, ReadRows, ReadHours, FlagMissed
  <2> QED
    BY <1>0, <1>a, <1>b, <2>1, <2>2 DEF BudgetOK
<1>3. CASE Evaluate
  <2>1. /\ edit' = edit /\ today' = today /\ changes' = changes /\ Running = 1
        /\ ticks' = [ticks EXCEPT !.due = @ \/ ~Storable(tick.flags)]
        /\ submitting' = submitting
    BY <1>b, <1>3 DEF Evaluate, data, weeks
  <2>2. ticks'.committed = ticks.committed
    BY <1>b, <2>1
  <2>3. CASE Storable(tick.flags)
    <3>1. ticks' = ticks
      BY <1>0, <2>1, <2>3 DEF SnapshotsOK
    <3> QED
      BY <1>0, <1>a, <1>b, <2>1, <3>1 DEF BudgetOK
  <2>4. CASE ~Storable(tick.flags)
    <3>1. tick' = Idle
      BY <1>3, <2>4 DEF Evaluate
    <3>2. Running' = 0
      BY <3>1 DEF Running, Idle
    <3> QED
      BY <1>0, <1>a, <1>b, <2>1, <2>2, <3>2 DEF BudgetOK
  <2> QED
    BY <2>3, <2>4
<1>4. CASE CommitTick
  <2>1. /\ edit' = edit /\ today' = today /\ changes' = changes /\ Running = 1
        /\ ticks' = [ticks EXCEPT !.committed = @ + 1] /\ tick' = Idle
        /\ submitting' = submitting
    BY <1>b, <1>4 DEF CommitTick
  <2>2. ticks'.committed = ticks.committed + 1 /\ DueNow' = DueNow /\ Running' = 0
    BY <1>0, <2>1 DEF SnapshotsOK, DueNow, Running, Idle
  <2> QED
    BY <1>0, <1>a, <1>b, <2>1, <2>2 DEF BudgetOK
<1>5. ASSUME NEW a \in Admins,
             \/ \E p \in ProjectIds, update \in Updates : BeginUpdate(a, p, update)
             \/ \E p \in ProjectIds, new \in Milestones : BeginAddMilestone(a, p, new)
      PROVE  BudgetOK'
  <2>1. /\ today' = today /\ changes < MaxChanges /\ changes' = changes + 1
        /\ ticks' = ticks /\ tick' = tick /\ submitting' = submitting
        /\ \E e : edit' = [edit EXCEPT ![a] = e]
    BY <1>5 DEF BeginUpdate, BeginAddMilestone, Count, data, weeks
  <2>2. IsFiniteSet(Busy') /\ Cardinality(Busy') \in Nat /\ Cardinality(Busy') <= n + 1
    BY <1>0, <2>1, BusyMoves DEF BudgetOK, n
  <2> QED
    BY <1>0, <1>a, <1>b, <2>1, <2>2 DEF BudgetOK
<1>6. ASSUME NEW a \in Admins, WriteUpdate(a) \/ InsertMilestone(a) PROVE BudgetOK'
  <2>1. /\ today' = today /\ changes' = changes /\ tick' = tick /\ edit[a].pc # "idle"
        /\ ticks' = [ticks EXCEPT !.due = TRUE]
        /\ edit' = [edit EXCEPT ![a] = Idle] /\ submitting' = submitting
    BY <1>6 DEF WriteUpdate, InsertMilestone, Change, weeks
  <2>2. IsFiniteSet(Busy') /\ Cardinality(Busy') = n - 1
    BY <1>0, <2>1, BusyMoves DEF BudgetOK, n
  <2> QED
    BY <1>0, <1>a, <1>b, <2>1, <2>2 DEF BudgetOK
<1>7. CASE \/ AdminAtOnce
           \/ \E row \in Rows : StartRow(row) \/ EndRow(row)
           \/ IntervalPasses
  <2>1. /\ today' = today /\ changes < MaxChanges /\ changes' = changes + 1
        /\ edit' = edit /\ tick' = tick /\ submitting' = submitting
        /\ ticks' = [ticks EXCEPT !.due = TRUE]
    BY <1>7 DEF AdminAtOnce, CreateProject, UpdateMilestone, StartRow, EndRow, IntervalPasses,
                Count, Change, data, weeks
  <2> QED
    BY <1>0, <1>a, <1>b, <2>1 DEF BudgetOK
<1>11. ASSUME NEW s \in Submissions, BeginSubmit(s) PROVE BudgetOK'
  <2>1. /\ today' = today /\ changes < MaxChanges /\ changes' = changes + 1
        /\ edit' = edit /\ tick' = tick /\ ticks' = ticks
        /\ s \notin submitting /\ submitting' = submitting \cup {s}
    BY <1>11 DEF BeginSubmit, Count
  <2>2. IsFiniteSet(submitting') /\ Cardinality(submitting') = m + 1
    BY <1>0, <2>1, FS_AddElement DEF BudgetOK, m
  <2> QED
    BY <1>0, <1>a, <1>b, <2>1, <2>2 DEF BudgetOK
<1>12. ASSUME NEW s \in Submissions, InsertWeek(s) PROVE BudgetOK'
  <2>1. /\ today' = today /\ changes' = changes /\ edit' = edit /\ tick' = tick
        /\ ticks' = [ticks EXCEPT !.due = TRUE]
        /\ s \in submitting /\ submitting' = submitting \ {s}
    BY <1>12 DEF InsertWeek, Change
  <2>2. IsFiniteSet(submitting') /\ Cardinality(submitting') = m - 1
    BY <1>0, <2>1, FS_RemoveElement DEF BudgetOK, m
  <2> QED
    BY <1>0, <1>a, <1>b, <2>1, <2>2 DEF BudgetOK
<1>13. ASSUME NEW a \in Admins, LoadUpdate(a) PROVE BudgetOK'
  <2>0. /\ today' = today /\ changes' = changes /\ tick' = tick /\ ticks' = ticks
        /\ submitting' = submitting /\ edit[a].pc # "idle"
    BY <1>13 DEF LoadUpdate, data, weeks
  <2>1. PICK values : edit' = [edit EXCEPT ![a] =
          [pc |-> "update", project_id |-> edit[a].project_id, values |-> values]]
    BY <1>13 DEF LoadUpdate
  <2>2. Busy' = Busy
    BY <1>0, <2>0, <2>1 DEF Busy, EditsOK
  <2>3. IsFiniteSet(Busy') /\ Cardinality(Busy') = n
    BY <1>0, <2>2 DEF BudgetOK, n
  <2> QED
    BY <1>0, <1>a, <1>b, <2>0, <2>3 DEF BudgetOK
<1>8. CASE DayPasses
  <2>1. /\ today < LastDay /\ today' = today + 1 /\ changes' = changes
        /\ edit' = edit /\ tick' = tick
        /\ ticks' = [ticks EXCEPT !.due = TRUE] /\ submitting' = submitting
    BY <1>8 DEF DayPasses, Change, data, weeks
  <2> QED
    BY <1>0, <1>a, <1>b, <2>1 DEF BudgetOK
<1>9. CASE Restart
  <2>1. /\ today' = today /\ changes < MaxChanges /\ changes' = changes + 1
        /\ edit' = [a \in Admins |-> Idle] /\ tick' = Idle
        /\ ticks' = [ticks EXCEPT !.due = TRUE] /\ submitting' = {}
    BY <1>9 DEF Restart, Count, Change
  <2>2. Running' = 0 /\ Busy' = {}
    BY <2>1 DEF Running, Busy, Idle
  <2>3. /\ IsFiniteSet(Busy') /\ Cardinality(Busy') = 0
        /\ IsFiniteSet(submitting') /\ Cardinality(submitting') = 0
    BY <2>1, <2>2, FS_EmptySet
  <2> QED
    BY <1>0, <1>a, <1>b, <2>1, <2>2, <2>3 DEF BudgetOK
<1>10. CASE Look \/ UNCHANGED vars
  <2>1. UNCHANGED <<today, changes, edit, tick, ticks, submitting>>
    BY <1>10 DEF Look, OpenProject, ReadSnapshot, Close, vars, data, weeks
  <2> QED
    BY <1>0, <1>a, <1>b, <2>1 DEF BudgetOK
<1> QED
  BY <1>1, <1>2, <1>3, <1>4, <1>5, <1>6, <1>7, <1>8, <1>9, <1>10, <1>11, <1>12,
     <1>13 DEF Next, Tick, Admin, Others

\* Projects, allocations and snapshots have the values of their columns, and at most
\* one tick is committed for each change and each day, and one at the start.
THEOREM TypeCorrectness == Spec => []TypeOK
<1>1. Init => TypeInv
  BY TypeInit
<1>2. TypeInv /\ [Next]_vars => TypeInv'
  <2>1. HealthInv /\ [Next]_vars => HealthInv'
    BY ProjectsStep, TablesStep, EditsStep, TickStep, ViewStep DEF HealthInv
  <2> QED
    BY <2>1, ColumnsStep, RatingsStep, BudgetStep DEF TypeInv
<1>3. TypeInv => TypeOK
  <2> SUFFICES ASSUME TypeInv PROVE TypeOK
    OBVIOUS
  <2>1. ticks.committed \in 0 .. MaxChanges + LastDay + 1
    <3>1. /\ Running \in Nat /\ DueNow \in Nat /\ ticks.committed \in Nat
          /\ Cardinality(Busy) \in Nat /\ Cardinality(submitting) \in Nat
      BY FS_CardinalityType DEF TypeInv, BudgetOK, Running, DueNow, HealthInv, SnapshotsOK
    <3>2. /\ ticks.committed + Running + DueNow + Cardinality(Busy) + Cardinality(submitting)
               <= changes + today + 1
          /\ today \in 0 .. LastDay /\ changes \in 0 .. MaxChanges
      BY DEF TypeInv, BudgetOK
    <3> QED
      BY <3>1, <3>2, BoundsAssumption
  <2> QED
    BY <2>1 DEF TypeInv, TypeOK, HealthInv, TablesOK, SnapshotsOK, ColumnsOK, IsTyped, BudgetOK
<1> QED
  BY <1>1, <1>2, <1>3, PTL DEF Spec

-----------------------------------------------------------------------------
(***************************************************************************)
(* A tick during which nothing changes gets the health right.  While       *)
(* nothing has changed since it began, what it has read is what there is.  *)
(***************************************************************************)

LateNow(p) == \E i \in DOMAIN milestones[p] :
                milestones[p][i].status # "DONE" /\ milestones[p][i].due_date < today
LastWeek == 7 * ((today \div 7) - 1)

\* Whichever row of the week is found, the hours are low; or with one of them.
IsLow(r) == \A h \in HoursFound(r, LastWeek) : 5 * h < 4 * ExpectedHours(r, LastWeek)
MayBeLow(r) == \E h \in HoursFound(r, LastWeek) : 5 * h < 4 * ExpectedHours(r, LastWeek)

Right(p, status) ==
  /\ status = "ON_TRACK" => ~LateNow(p) /\ \A r \in RowsOf(p) : ~IsLow(r)
  /\ status # "ON_TRACK" => LateNow(p) \/ \E r \in RowsOf(p) : MayBeLow(r)

Bad(flags) == \E f \in flags : f.says \in {"AT_RISK", "ATTENTION"}

\* The flags are those of a project of whose engineers these rows have been looked at.
Follows(flags, p, rows) ==
  /\ Bad(flags) => LateNow(p) \/ \E r \in rows : MayBeLow(r)
  /\ LateNow(p) \/ (\E r \in rows : IsLow(r)) => Bad(flags)

\* The project that is being evaluated.
Underway == IF tick.pc \in {"rows", "hours"} THEN {tick.project_id} ELSE {}

CurrentOK ==
  (tick.pc # "idle" /\ ~ticks.due) =>
    /\ tick.as_of = today
    /\ tick.pc = "list" => DOMAIN tick.written = {}
    /\ tick.pc # "list" => /\ Active = DOMAIN tick.written \cup tick.queue \cup Underway
                          /\ \A u \in tick.missed : WeekRows(u, LastWeek) = {}
    /\ tick.pc = "commit" => tick.queue = {}
    /\ \A p \in DOMAIN tick.written : Right(p, tick.written[p].status)
    /\ tick.pc = "rows" => Follows(tick.flags, tick.project_id, {})
    /\ tick.pc = "hours" =>
         /\ tick.rows \subseteq RowsOf(tick.project_id)
         /\ Follows(tick.flags, tick.project_id, RowsOf(tick.project_id) \ tick.rows)

QuietOK ==
  (tick.pc = "idle" /\ ~ticks.due) => \A p \in Active : Right(p, project[p].health_status)

QuietInv == CurrentOK /\ QuietOK

\* What a tick reads is not changed by it: a MISSED row shows as much as no row.
Still == /\ UNCHANGED <<milestones, assigned, today>>
         /\ \A r : HoursFound(r, LastWeek)' = HoursFound(r, LastWeek)

LEMMA StillLaw ==
  ASSUME Still
  PROVE  /\ \A p : LateNow(p)' <=> LateNow(p)
         /\ \A r : (IsLow(r)' <=> IsLow(r)) /\ (MayBeLow(r)' <=> MayBeLow(r))
         /\ \A p : RowsOf(p)' = RowsOf(p)
<1>1. \A p : LateNow(p)' <=> LateNow(p)
  BY DEF Still, LateNow
<1>2. \A r : ExpectedHours(r, LastWeek)' = ExpectedHours(r, LastWeek)
  BY DEF Still, LastWeek
<1>3. \A r : (IsLow(r)' <=> IsLow(r)) /\ (MayBeLow(r)' <=> MayBeLow(r))
  BY <1>2 DEF Still, IsLow, MayBeLow
<1>4. \A p : RowsOf(p)' = RowsOf(p)
  BY DEF Still, RowsOf
<1> QED
  BY <1>1, <1>3, <1>4

LEMMA OverdueFlagsLaw ==
  ASSUME NEW p
  PROVE  Bad(OverdueFlags(milestones[p], today)) <=> LateNow(p)
<1> DEFINE ms == milestones[p]
           Flag(i) == [kind |-> "overdue", id |-> i, says |-> "AT_RISK",
                       text |-> OverdueText(ms[i], today)]
           late == {j \in DOMAIN ms : Overdue(ms[j], today)}
<1>1. OverdueFlags(ms, today) = {Flag(i) : i \in late}
  BY DEF OverdueFlags
<1>2. \A i : Flag(i).says = "AT_RISK"
  OBVIOUS
<1>3. LateNow(p) <=> late # {}
  BY DEF LateNow, Overdue
<1> HIDE DEF Flag, late
<1> QED
  BY <1>1, <1>2, <1>3 DEF Bad

LEMMA StatusLaw ==
  ASSUME NEW flags
  PROVE  Status(flags) = "ON_TRACK" <=> ~Bad(flags)
BY DEF Status, Bad

LEMMA HoursAreNumbers ==
  ASSUME HealthInv, NEW r \in assigned, NEW week
  PROVE  HoursFound(r, week) # {} /\ \A h \in HoursFound(r, week) : h \in Nat
<1>1. r.project_id \in ProjectIds
  BY RowsAssumption DEF HealthInv, TablesOK
<1>2. \A w \in WeekRows(r.user_id, week) : HoursOn(w, r.project_id) \in Nat
  BY <1>1 DEF HealthInv, TablesOK, IsWeek, WeekRows, HoursOn
<1> QED
  BY <1>2 DEF HoursFound

\* The hours that are found of an engineer are a bad flag exactly if they are low.
LEMMA ReadHoursLaw ==
  ASSUME HealthInv, NEW r \in assigned, NEW week \in Int, week = LastWeek,
         NEW hours \in HoursFound(r, week)
  PROVE  /\ LowHours(hours, ExpectedHours(r, week)) \in {Null, "ATTENTION", "AT_RISK"}
         /\ IsLow(r) => LowHours(hours, ExpectedHours(r, week)) # Null
         /\ LowHours(hours, ExpectedHours(r, week)) # Null => MayBeLow(r)
<1>1. r \in Rows /\ hours \in Nat
  BY HoursAreNumbers DEF HealthInv, TablesOK
<1>2. /\ LowHours(hours, ExpectedHours(r, week)) \in {Null, "ATTENTION", "AT_RISK"}
      /\ LowHours(hours, ExpectedHours(r, week)) # Null <=> 5 * hours < 4 * ExpectedHours(r, week)
  BY <1>1, ExpectedIsANumber, LowLaw
<1> QED
  BY <1>2 DEF IsLow, MayBeLow

\* Whoever changes what a tick reads makes another one due.
LEMMA ChangesAreDue ==
  ASSUME HealthInv,
         \/ \E a \in Admins : WriteUpdate(a) \/ InsertMilestone(a)
         \/ \E p \in ProjectIds, new \in Projects : CreateProject(p, new)
         \/ \E p \in DOMAIN project, update \in MilestoneUpdates :
              \E i \in DOMAIN milestones[p] : UpdateMilestone(p, i, update)
         \/ \E row \in Rows : StartRow(row) \/ EndRow(row)
         \/ \E s \in Submissions : InsertWeek(s)
         \/ IntervalPasses \/ DayPasses \/ Restart
  PROVE  QuietInv'
<1>1. ticks' = [ticks EXCEPT !.due = TRUE]
  BY DEF WriteUpdate, InsertMilestone, CreateProject, UpdateMilestone, StartRow, EndRow,
         InsertWeek, IntervalPasses, DayPasses, Restart, Change
<1>2. ticks.due' = TRUE
  BY <1>1 DEF HealthInv, SnapshotsOK
<1> QED
  BY <1>2 DEF QuietInv, CurrentOK, QuietOK

LEMMA NothingReadIsStill ==
  ASSUME UNCHANGED <<milestones, assigned, logged, today>>
  PROVE  Still
BY DEF Still, HoursFound, WeekRows, LastWeek

\* The rows that a tick inserts are of engineers that have none.
LEMMA MissedIsStill ==
  ASSUME CurrentOK, CommitTick, ~ticks.due
  PROVE  Still
<1>1. tick.as_of = today /\ \A u \in tick.missed : WeekRows(u, LastWeek) = {}
  BY DEF CommitTick, CurrentOK
<1>2. logged' = logged \cup MissedRows /\ UNCHANGED <<milestones, assigned, today>>
  BY DEF CommitTick
<1>3. LastWeek' = LastWeek
  BY <1>2 DEF LastWeek
<1>4. \A w \in MissedRows : w.user_id \in tick.missed /\ w.status = "MISSED"
  BY DEF MissedRows
<1>5. ASSUME NEW u
      PROVE  \/ WeekRows(u, LastWeek)' = WeekRows(u, LastWeek)
             \/ /\ WeekRows(u, LastWeek) = {}
                /\ \A w \in WeekRows(u, LastWeek)' : w.status = "MISSED"
  <2>1. WeekRows(u, LastWeek)' =
          WeekRows(u, LastWeek) \cup {w \in MissedRows : w.user_id = u /\ w.week = LastWeek}
    BY <1>2, <1>3 DEF WeekRows
  <2> QED
    BY <1>1, <1>4, <2>1
<1>6. ASSUME NEW r PROVE HoursFound(r, LastWeek)' = HoursFound(r, LastWeek)
  <2> DEFINE now == WeekRows(r.user_id, LastWeek)
             then == WeekRows(r.user_id, LastWeek)'
  <2>1. /\ HoursFound(r, LastWeek) = IF now = {} THEN {0} ELSE {HoursOn(w, r.project_id) : w \in now}
        /\ HoursFound(r, LastWeek)' = IF then = {} THEN {0} ELSE {HoursOn(w, r.project_id) : w \in then}
    BY DEF HoursFound
  <2>2. then = now \/ (now = {} /\ \A w \in then : w.status = "MISSED")
    BY <1>5
  <2>3. \A w : w.status = "MISSED" => HoursOn(w, r.project_id) = 0
    BY DEF HoursOn
  <2> HIDE DEF now, then
  <2> QED
    BY <2>1, <2>2, <2>3
<1> QED
  BY <1>2, <1>6 DEF Still

LEMMA QuietTickStep ==
  ASSUME HealthInv, QuietInv, Tick
  PROVE  QuietInv'
<1>0. CurrentOK /\ TickOK
  BY DEF QuietInv, HealthInv
<1>1. CASE BeginTick
  <2>1. tick' = [pc |-> "list", as_of |-> today, written |-> << >>] /\ today' = today
    BY <1>1 DEF BeginTick
  <2>2. DOMAIN tick'.written = {}
    BY <2>1
  <2> QED
    BY <2>1, <2>2 DEF QuietInv, CurrentOK, QuietOK
<1>2. CASE ListActive
  <2>1. tick' = Over([pc |-> Turn(Active), queue |-> Active, project_id |-> Null,
                      flags |-> {}, rows |-> {}, engineers |-> Engineers, missed |-> {}],
                     tick)
        /\ tick.pc = "list" /\ UNCHANGED <<project, ticks, logged>> /\ Still
    BY <1>2, NothingReadIsStill DEF ListActive, data, weeks
  <2>2. /\ tick'.pc = Turn(Active) /\ tick'.queue = Active
        /\ tick'.written = tick.written /\ tick'.as_of = tick.as_of /\ tick'.missed = {}
    BY <1>0, <2>1 DEF TickOK, EarlyFields, Over
  <2>3. /\ Turn(Active) \in {"commit", "milestones"}
        /\ Turn(Active) = "commit" => Active = {}
    BY DEF Turn
  <2>4. Active' = Active
    BY <2>1 DEF Active
  <2> QED
    BY <1>0, <2>1, <2>2, <2>3, <2>4, StillLaw DEF QuietInv, CurrentOK, QuietOK, Underway, Still
<1>3. CASE ReadMilestones
  <2>1. PICK p \in tick.queue :
          tick' = [tick EXCEPT !.pc = "rows", !.project_id = p, !.queue = @ \ {p},
                     !.flags = OverdueFlags(milestones[p], tick.as_of)]
    BY <1>3 DEF ReadMilestones
  <2>2. tick.pc = "milestones" /\ UNCHANGED <<project, ticks, logged>> /\ Still
    BY <1>3, NothingReadIsStill DEF ReadMilestones, data, weeks
  <2>3. /\ tick'.pc = "rows" /\ tick'.queue = tick.queue \ {p} /\ tick'.project_id = p
        /\ tick'.written = tick.written /\ tick'.as_of = tick.as_of /\ tick'.missed = tick.missed
        /\ tick'.flags = OverdueFlags(milestones[p], tick.as_of)
    BY <1>0, <2>1, <2>2 DEF TickOK, EarlyFields, TickFields
  <2> SUFFICES ASSUME ~ticks.due PROVE CurrentOK'
    BY <2>2, <2>3 DEF QuietInv, CurrentOK, QuietOK
  <2>4. Bad(tick'.flags) <=> LateNow(p)
    BY <1>0, <2>2, <2>3, OverdueFlagsLaw DEF CurrentOK
  <2>5. Active' = DOMAIN tick'.written \cup tick'.queue \cup Underway'
    BY <1>0, <2>2, <2>3 DEF CurrentOK, Underway, Active
  <2>6. Follows(tick.flags, tick.project_id, {})'
    BY <2>2, <2>3, <2>4 DEF Follows, Bad, LateNow, Still
  <2>7. (\A q \in DOMAIN tick.written : Right(q, tick.written[q].status))'
    BY <1>0, <2>2, <2>3, StillLaw DEF CurrentOK, Right
  <2>8. tick'.as_of = today'
    BY <1>0, <2>2, <2>3 DEF CurrentOK, Still
  <2>9. (\A u \in tick.missed : WeekRows(u, LastWeek) = {})'
    BY <1>0, <2>2, <2>3 DEF CurrentOK, WeekRows, LastWeek, Still
  <2> QED
    BY <2>3, <2>5, <2>6, <2>7, <2>8, <2>9 DEF CurrentOK
<1>4. CASE ReadRows
  <2> DEFINE p == tick.project_id
             flags == tick.flags \cup IF RowsOf(p) # {} THEN {AllocatedFlag} ELSE {}
  <2>1. tick' = [tick EXCEPT !.pc = "hours", !.rows = RowsOf(p), !.flags = flags]
    BY <1>4 DEF ReadRows
  <2>2. tick.pc = "rows" /\ UNCHANGED <<project, ticks, logged>> /\ Still
    BY <1>4, NothingReadIsStill DEF ReadRows, data, weeks
  <2>3. Bad(flags) <=> Bad(tick.flags)
    BY DEF Bad, AllocatedFlag
  <2> HIDE DEF flags
  <2>4. /\ tick'.pc = "hours" /\ tick'.queue = tick.queue /\ tick'.project_id = p
        /\ tick'.written = tick.written /\ tick'.as_of = tick.as_of /\ tick'.missed = tick.missed
        /\ tick'.rows = RowsOf(p) /\ tick'.flags = flags
    BY <1>0, <2>1, <2>2 DEF TickOK, EarlyFields, TickFields
  <2> SUFFICES ASSUME ~ticks.due PROVE CurrentOK'
    BY <2>2, <2>4 DEF QuietInv, CurrentOK, QuietOK
  <2>5. Active' = DOMAIN tick'.written \cup tick'.queue \cup Underway'
    BY <1>0, <2>2, <2>4 DEF CurrentOK, Underway, Active
  <2>6. /\ tick.rows' \subseteq RowsOf(tick.project_id)'
        /\ RowsOf(tick.project_id)' \ tick.rows' = {}
    BY <2>2, <2>4 DEF RowsOf, Still
  <2>7. Follows(tick.flags, tick.project_id, RowsOf(tick.project_id) \ tick.rows)'
    <3>1. Bad(tick.flags)' <=> Bad(flags)
      BY <2>4 DEF Bad
    <3>2. LateNow(tick.project_id)' <=> LateNow(p)
      BY <2>2, <2>4 DEF LateNow, Still
    <3>3. Bad(tick.flags) <=> LateNow(p)
      BY <1>0, <2>2 DEF CurrentOK, Follows
    <3> QED
      BY <2>3, <2>6, <3>1, <3>2, <3>3 DEF Follows
  <2>8. (\A q \in DOMAIN tick.written : Right(q, tick.written[q].status))'
    BY <1>0, <2>2, <2>4, StillLaw DEF CurrentOK, Right
  <2>9. tick'.as_of = today'
    BY <1>0, <2>2, <2>4 DEF CurrentOK, Still
  <2>10. (\A u \in tick.missed : WeekRows(u, LastWeek) = {})'
    BY <1>0, <2>2, <2>4 DEF CurrentOK, WeekRows, LastWeek, Still
  <2> QED
    BY <2>4, <2>5, <2>6, <2>7, <2>8, <2>9, <2>10 DEF CurrentOK
<1>5. ASSUME NEW row \in Rows, ReadHours(row) PROVE QuietInv'
  <2> DEFINE p == tick.project_id
             week == LastCompletedWeekStart(tick.as_of)
             expected == ExpectedHours(row, week)
  <2>0. PICK hours \in HoursFound(row, week) :
          LET says == LowHours(hours, expected)
              flag == [kind |-> "hours", id |-> row.user_id, says |-> says,
                       text |-> HoursText(row.user_id, hours, expected)]
          IN tick' = [tick EXCEPT !.rows = @ \ {row},
                        !.flags = @ \cup IF says # Null THEN {flag} ELSE {}]
    BY <1>5 DEF ReadHours
  <2> DEFINE says == LowHours(hours, expected)
             flag == [kind |-> "hours", id |-> row.user_id, says |-> says,
                      text |-> HoursText(row.user_id, hours, expected)]
             flags == tick.flags \cup IF says # Null THEN {flag} ELSE {}
  <2>1. tick' = [tick EXCEPT !.rows = @ \ {row}, !.flags = flags] /\ row \in tick.rows
    BY <1>5, <2>0 DEF ReadHours
  <2>2. tick.pc = "hours" /\ UNCHANGED <<project, ticks, logged>> /\ Still
    BY <1>5, NothingReadIsStill DEF ReadHours, data, weeks
  <2>3. flag.says = says
    OBVIOUS
  <2> HIDE DEF flag
  <2>4. /\ tick'.pc = "hours" /\ tick'.queue = tick.queue /\ tick'.project_id = p
        /\ tick'.written = tick.written /\ tick'.as_of = tick.as_of /\ tick'.missed = tick.missed
        /\ tick'.rows = tick.rows \ {row} /\ tick'.flags = flags
    BY <1>0, <2>1, <2>2 DEF TickOK, EarlyFields, TickFields
  <2> SUFFICES ASSUME ~ticks.due PROVE CurrentOK'
    BY <2>2, <2>4 DEF QuietInv, CurrentOK, QuietOK
  <2>5. row \in assigned /\ row \in RowsOf(p) /\ tick.rows \subseteq RowsOf(p)
    BY <1>0, <2>1, <2>2 DEF CurrentOK, RowsOf
  <2>6. week = LastWeek /\ week \in Int
    BY <1>0, <2>2 DEF CurrentOK, LastCompletedWeekStart, LastWeek, HealthInv, TablesOK
  <2>7. /\ says \in {Null, "ATTENTION", "AT_RISK"}
        /\ IsLow(row) => says # Null
        /\ says # Null => MayBeLow(row)
    BY <2>5, <2>6, ReadHoursLaw
  <2> HIDE DEF says
  <2>9. Bad(flags) <=> Bad(tick.flags) \/ says # Null
    BY <2>3, <2>7 DEF Bad
  <2> HIDE DEF flags
  <2>10. Active' = DOMAIN tick'.written \cup tick'.queue \cup Underway'
    BY <1>0, <2>2, <2>4 DEF CurrentOK, Underway, Active
  <2>11. Follows(flags, p, RowsOf(p) \ (tick.rows \ {row}))
    <3>1. Follows(tick.flags, p, RowsOf(p) \ tick.rows)
      BY <1>0, <2>2 DEF CurrentOK
    <3>2. RowsOf(p) \ (tick.rows \ {row}) = (RowsOf(p) \ tick.rows) \cup {row}
      BY <2>1, <2>5
    <3> QED
      BY <2>7, <2>9, <3>1, <3>2 DEF Follows
  <2>12. tick.rows' \subseteq RowsOf(tick.project_id)'
    BY <2>2, <2>4, <2>5 DEF RowsOf, Still
  <2>13. Follows(tick.flags, tick.project_id, RowsOf(tick.project_id) \ tick.rows)'
    <3>1. Bad(tick.flags)' <=> Bad(flags)
      BY <2>4 DEF Bad
    <3>2. LateNow(tick.project_id)' <=> LateNow(p)
      BY <2>2, <2>4 DEF LateNow, Still
    <3>3. RowsOf(tick.project_id)' = RowsOf(p)
      BY <2>2, <2>4 DEF RowsOf, Still
    <3>4. \A x : (IsLow(x)' <=> IsLow(x)) /\ (MayBeLow(x)' <=> MayBeLow(x))
      BY <2>2, StillLaw
    <3> QED
      BY <2>4, <2>11, <3>1, <3>2, <3>3, <3>4 DEF Follows
  <2>14. (\A q \in DOMAIN tick.written : Right(q, tick.written[q].status))'
    BY <1>0, <2>2, <2>4, StillLaw DEF CurrentOK, Right
  <2>15. tick'.as_of = today'
    BY <1>0, <2>2, <2>4 DEF CurrentOK, Still
  <2>16. (\A u \in tick.missed : WeekRows(u, LastWeek) = {})'
    BY <1>0, <2>2, <2>4 DEF CurrentOK, WeekRows, LastWeek, Still
  <2> QED
    BY <2>4, <2>10, <2>12, <2>13, <2>14, <2>15, <2>16 DEF CurrentOK
<1>6. CASE Evaluate
  <2> DEFINE p == tick.project_id
             new == [status |-> Status(tick.flags), flags |-> tick.flags,
                     computed_at |-> ticks.committed + 1]
  <2>0. ticks' = [ticks EXCEPT !.due = @ \/ ~Storable(tick.flags)] /\ ticks.due \in BOOLEAN
        /\ ticks = [committed |-> ticks.committed, due |-> ticks.due]
    BY <1>6 DEF Evaluate, HealthInv, SnapshotsOK
  <2>1. CASE ~Storable(tick.flags) \/ ticks.due
    <3>1. ticks.due'
      <4>1. ticks.due' = (ticks.due \/ ~Storable(tick.flags))
        BY <2>0
      <4> QED
        BY <2>1, <4>1
    <3> QED
      BY <3>1 DEF QuietInv, CurrentOK, QuietOK
  <2>2. CASE Storable(tick.flags) /\ ~ticks.due
    <3>1. /\ tick' = [tick EXCEPT !.pc = Turn(tick.queue), !.written = With(@, p, new)]
          /\ tick.pc = "hours" /\ tick.rows = {} /\ UNCHANGED <<project, logged>> /\ Still
      BY <1>6, <2>2, NothingReadIsStill DEF Evaluate, data, weeks
    <3>2. /\ Turn(tick.queue) \in {"commit", "milestones"}
          /\ Turn(tick.queue) = "commit" => tick.queue = {}
      BY DEF Turn
    <3>3. /\ tick'.pc = Turn(tick.queue) /\ tick'.queue = tick.queue
          /\ tick'.written = With(tick.written, p, new) /\ tick'.as_of = tick.as_of
          /\ tick'.missed = tick.missed
      BY <1>0, <3>1 DEF TickOK, EarlyFields, TickFields
    <3>4. new.status = Status(tick.flags)
      OBVIOUS
    <3> HIDE DEF new
    <3>5. /\ DOMAIN tick'.written = DOMAIN tick.written \cup {p}
          /\ tick'.written[p] = new
          /\ \A q \in DOMAIN tick.written \ {p} : tick'.written[q] = tick.written[q]
      BY <3>3 DEF With, Over
    <3>6. Right(p, new.status)
      <4>1. Follows(tick.flags, p, RowsOf(p))
        BY <1>0, <2>2, <3>1 DEF CurrentOK
      <4>2. new.status = "ON_TRACK" <=> ~Bad(tick.flags)
        BY <3>4, StatusLaw
      <4> QED
        BY <4>1, <4>2 DEF Follows, Right
    <3>7. Active' = DOMAIN tick'.written \cup tick'.queue \cup Underway'
      BY <1>0, <2>2, <3>1, <3>2, <3>3, <3>5 DEF CurrentOK, Underway, Active
    <3>8. (\A q \in DOMAIN tick.written : Right(q, tick.written[q].status))'
      <4>1. \A q \in DOMAIN tick'.written : Right(q, tick'.written[q].status)
        BY <1>0, <2>2, <3>1, <3>5, <3>6 DEF CurrentOK
      <4> QED
        BY <3>1, <4>1, StillLaw DEF Right
    <3>9. tick'.as_of = today'
      BY <1>0, <2>2, <3>1, <3>3 DEF CurrentOK, Still
    <3>10. (\A u \in tick.missed : WeekRows(u, LastWeek) = {})'
      BY <1>0, <2>2, <3>1, <3>3 DEF CurrentOK, WeekRows, LastWeek, Still
    <3> QED
      BY <3>2, <3>3, <3>7, <3>8, <3>9, <3>10 DEF QuietInv, CurrentOK, QuietOK
  <2> QED
    BY <2>1, <2>2
<1>7. ASSUME NEW u \in Engineers, FlagMissed(u) PROVE QuietInv'
  <2> DEFINE week == LastCompletedWeekStart(tick.as_of)
  <2>1. PICK owes \in BOOLEAN :
          tick' = [tick EXCEPT !.engineers = @ \ {u},
                     !.missed = @ \cup IF owes /\ WeekRows(u, week) = {} THEN {u} ELSE {}]
    BY <1>7 DEF FlagMissed
  <2>2. tick.pc = "commit" /\ UNCHANGED <<project, ticks, logged>> /\ Still
    BY <1>7, NothingReadIsStill DEF FlagMissed, data, weeks
  <2>3. /\ tick'.pc = "commit" /\ tick'.queue = tick.queue
        /\ tick'.written = tick.written /\ tick'.as_of = tick.as_of
        /\ tick'.missed = tick.missed \cup IF owes /\ WeekRows(u, week) = {} THEN {u} ELSE {}
    BY <1>0, <2>1, <2>2 DEF TickOK, EarlyFields, TickFields
  <2> SUFFICES ASSUME ~ticks.due PROVE CurrentOK'
    BY <2>2, <2>3 DEF QuietInv, CurrentOK, QuietOK
  <2>4. week = LastWeek
    BY <1>0, <2>2 DEF CurrentOK, LastCompletedWeekStart, LastWeek, HealthInv, TablesOK
  <2> HIDE DEF week
  <2>5. \A v \in tick'.missed : WeekRows(v, LastWeek) = {}
    BY <1>0, <2>2, <2>3, <2>4 DEF CurrentOK
  <2>6. (\A v \in tick.missed : WeekRows(v, LastWeek) = {})'
    BY <2>2, <2>5 DEF WeekRows, LastWeek, Still
  <2>7. Active' = DOMAIN tick'.written \cup tick'.queue \cup Underway'
    BY <1>0, <2>2, <2>3 DEF CurrentOK, Underway, Active
  <2>8. (\A q \in DOMAIN tick.written : Right(q, tick.written[q].status))'
    BY <1>0, <2>2, <2>3, StillLaw DEF CurrentOK, Right
  <2>9. tick'.as_of = today' /\ tick'.queue = {}
    BY <1>0, <2>2, <2>3 DEF CurrentOK, Still
  <2> QED
    BY <2>3, <2>6, <2>7, <2>8, <2>9 DEF CurrentOK
<1>8. CASE CommitTick
  <2>1. tick' = Idle /\ tick.pc = "commit" /\ ticks' = [ticks EXCEPT !.committed = @ + 1]
    BY <1>8 DEF CommitTick
  <2>2. ticks.due' = ticks.due
    BY <2>1 DEF HealthInv, SnapshotsOK
  <2> SUFFICES ASSUME ~ticks.due PROVE (\A p \in Active : Right(p, project[p].health_status))'
    BY <2>1, <2>2 DEF QuietInv, CurrentOK, QuietOK, Idle
  <2>3. Still
    BY <1>0, <1>8, MissedIsStill
  <2>4. Active' = Active /\ Active = DOMAIN tick.written
    BY <1>0, <1>8, <2>1, CommitTickWrites DEF CurrentOK, Underway, Active
  <2>5. \A p \in DOMAIN tick.written : /\ project'[p].health_status = tick.written[p].status
                                       /\ Right(p, tick.written[p].status)
    BY <1>0, <1>8, <2>1, CommitTickWrites DEF CurrentOK
  <2> QED
    BY <2>3, <2>4, <2>5, StillLaw DEF Right
<1> QED
  BY <1>1, <1>2, <1>3, <1>4, <1>5, <1>6, <1>7, <1>8 DEF Tick

LEMMA QuietStep ==
  ASSUME HealthInv, QuietInv, [Next]_vars
  PROVE  QuietInv'
<1>1. CASE Tick
  BY <1>1, QuietTickStep
<1>2. ASSUME UNCHANGED <<project, tick, ticks, milestones, assigned, logged, today>> PROVE QuietInv'
  <2>1. Active' = Active /\ Underway' = Underway
    BY <1>2 DEF Active, Underway
  <2>2. Still /\ (\A u : WeekRows(u, LastWeek)' = WeekRows(u, LastWeek))
    BY <1>2, NothingReadIsStill DEF WeekRows, LastWeek
  <2>3. \A flags, p, rows : Follows(flags, p, rows)' <=> Follows(flags, p, rows)
    BY <2>2, StillLaw DEF Follows, Bad
  <2>4. CurrentOK'
    <3>1. \A p, status : Right(p, status)' <=> Right(p, status)
      BY <1>2, <2>1, <2>2, StillLaw DEF Right
    <3>2. \A p : RowsOf(p)' = RowsOf(p)
      BY <1>2 DEF RowsOf
    <3> QED
      BY <1>2, <2>1, <2>2, <2>3, <3>1, <3>2, SMTT(30) DEF QuietInv, CurrentOK
  <2>5. QuietOK'
    BY <1>2, <2>1, <2>2, StillLaw DEF QuietInv, QuietOK, Right
  <2> QED
    BY <2>4, <2>5 DEF QuietInv
<1>3. CASE \/ \E a \in Admins, p \in ProjectIds :
                \/ \E update \in Updates : BeginUpdate(a, p, update)
                \/ \E new \in Milestones : BeginAddMilestone(a, p, new)
           \/ \E a \in Admins : LoadUpdate(a)
           \/ \E s \in Submissions : BeginSubmit(s)
           \/ Look \/ UNCHANGED vars
  BY <1>2, <1>3 DEF BeginUpdate, BeginAddMilestone, LoadUpdate, BeginSubmit, Look, OpenProject,
                    ReadSnapshot, Close, vars, data, weeks
<1> QED
  BY <1>1, <1>3, ChangesAreDue DEF Next, Admin, AdminAtOnce, Others

\* What was found low is low by some row of the week, and what was not by none.
LEMMA RightIsAsSubmitted ==
  ASSUME HealthInv, QuietOK
  PROVE  QuietHealthIsRight
<1> SUFFICES ASSUME tick.pc = "idle", ~ticks.due, NEW p \in Active
             PROVE  LET late == \E i \in DOMAIN milestones[p] :
                                  /\ milestones[p][i].status # "DONE"
                                  /\ milestones[p][i].due_date < today
                        working == {r \in assigned :
                                      r.project_id = p /\ ExpectedHours(r, LastWeek) > 0}
                        rows(r) == {w \in logged : w.user_id = r.user_id /\ w.week = LastWeek}
                    IN IF project[p].health_status = "ON_TRACK"
                       THEN ~late /\ \A r \in working : \E w \in rows(r) : Enough(w, r, LastWeek)
                       ELSE late \/ \E r \in working :
                                      \/ rows(r) = {}
                                      \/ \E w \in rows(r) : ~Enough(w, r, LastWeek)
  BY DEF QuietHealthIsRight, LastWeek
<1> DEFINE rows(r) == {w \in logged : w.user_id = r.user_id /\ w.week = LastWeek}
<1>1. Right(p, project[p].health_status)
  BY DEF QuietOK
<1>2. LastWeek \in Int
  BY DEF LastWeek, HealthInv, TablesOK
<1>3. ASSUME NEW r \in RowsOf(p)
      PROVE  /\ ExpectedHours(r, LastWeek) > 0 /\ ~IsLow(r)
                 => \E w \in rows(r) : Enough(w, r, LastWeek)
             /\ MayBeLow(r) => /\ ExpectedHours(r, LastWeek) > 0
                               /\ (rows(r) = {} \/ \E w \in rows(r) : ~Enough(w, r, LastWeek))
  <2> DEFINE expected == ExpectedHours(r, LastWeek)
             found == HoursFound(r, LastWeek)
  <2>1. r \in assigned /\ r.project_id \in ProjectIds
    BY RowsAssumption DEF RowsOf, HealthInv, TablesOK
  <2>2. expected \in Nat
    BY <1>2, <2>1, ExpectedIsANumber DEF HealthInv, TablesOK
  <2>3. found = IF rows(r) = {} THEN {0} ELSE {HoursOn(w, r.project_id) : w \in rows(r)}
    BY DEF HoursFound, WeekRows
  <2>4. \A w \in rows(r) :
          /\ HoursOn(w, r.project_id) \in Nat
          /\ expected > 0 => (Enough(w, r, LastWeek) <=> ~(5 * HoursOn(w, r.project_id) < 4 * expected))
    <3> SUFFICES ASSUME NEW w \in rows(r)
                 PROVE  /\ HoursOn(w, r.project_id) \in Nat
                        /\ expected > 0 => (Enough(w, r, LastWeek)
                                             <=> ~(5 * HoursOn(w, r.project_id) < 4 * expected))
      OBVIOUS
    <3>1. IsWeek(w)
      BY DEF HealthInv, TablesOK
    <3> HIDE DEF rows
    <3>2. CASE w.status = "MISSED"
      <4>1. HoursOn(w, r.project_id) = 0 /\ ~Enough(w, r, LastWeek)
        BY <3>2 DEF HoursOn, Enough
      <4> QED
        BY <2>2, <4>1
    <3>3. CASE w.status = "SUBMITTED" /\ w.hours \in [ProjectIds -> Nat]
      <4>1. HoursOn(w, r.project_id) = w.hours[r.project_id] /\ w.hours[r.project_id] \in Nat
        BY <2>1, <3>3 DEF HoursOn
      <4>2. Enough(w, r, LastWeek) <=> 5 * w.hours[r.project_id] >= 4 * expected
        BY <3>3 DEF Enough
      <4> HIDE DEF expected
      <4> QED
        BY <2>2, <4>1, <4>2
    <3> QED
      BY <3>1, <3>2, <3>3 DEF IsWeek
  <2>5. (IsLow(r) <=> \A h \in found : 5 * h < 4 * expected)
        /\ (MayBeLow(r) <=> \E h \in found : 5 * h < 4 * expected)
    BY DEF IsLow, MayBeLow
  <2> HIDE DEF expected, found, rows
  <2>6. expected > 0 /\ ~IsLow(r) => \E w \in rows(r) : Enough(w, r, LastWeek)
    BY <2>2, <2>3, <2>4, <2>5
  <2>7. MayBeLow(r) => /\ expected > 0
                      /\ (rows(r) = {} \/ \E w \in rows(r) : ~Enough(w, r, LastWeek))
    BY <2>2, <2>3, <2>4, <2>5
  <2> QED
    BY <2>6, <2>7 DEF expected
<1> HIDE DEF rows
<1> QED
  BY <1>1, <1>3 DEF Right, LateNow, RowsOf, rows

\* A tick that ran while nothing changed has left every ACTIVE project with a status
\* that the rows of the last week bear out: for any number of projects, milestones and
\* engineers, and of rows that one of them has of the week, whatever came before it.
THEOREM QuietHealth == Spec => []QuietHealthIsRight
<1>1. Init => QuietInv
  BY DEF Init, QuietInv, CurrentOK, QuietOK, Idle
<1>2. HealthInv /\ QuietInv /\ [Next]_vars => QuietInv'
  BY QuietStep
<1>3. HealthInv /\ QuietInv => QuietHealthIsRight
  BY RightIsAsSubmitted DEF QuietInv
<1> QED
  BY <1>1, <1>2, <1>3, HealthInvariance, PTL DEF Spec
=============================================================================
