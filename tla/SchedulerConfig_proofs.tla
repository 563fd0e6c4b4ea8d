----------------------- MODULE SchedulerConfig_proofs -----------------------
(***************************************************************************)
(* What holds of SchedulerConfig for every number of admins, every set of  *)
(* values they send, and however often the process stops.                  *)
(***************************************************************************)
EXTENDS SchedulerConfig, TLAPS

Interval == "scheduler_interval_hours"

-----------------------------------------------------------------------------
(***************************************************************************)
(* The inductive invariant.                                                *)
(***************************************************************************)

\* The table is empty until the start has seeded it, and then has one row.
TableOK ==
  /\ rows = << >> \/ rows = <<patched>>
  /\ GoodRow(patched)
  /\ api \in {"down", "admin", "seeded", "starting", "up"}
  /\ api \in {"seeded", "starting", "up"} => rows # << >>

\* A request is served only while the process is up, and it has found the one row.
RequestOK(a) ==
  request[a].pc # "idle" =>
    /\ api = "up"
    /\ request[a] = [x \in {"pc", "field", "value", "row", "old"} |-> request[a][x]]
    /\ request[a].pc \in {"found", "apply", "reschedule"}
    /\ request[a].field \in Fields
    /\ Valid(request[a].field, request[a].value)
    /\ request[a].pc \in {"apply", "reschedule"} => request[a].field = Interval
    /\ request[a].row = 1

RequestsOK ==
  /\ request = [a \in Admins |-> request[a]]
  /\ \A a \in Admins : RequestOK(a)

\* The scheduler runs while requests are served, at an interval that is in range.
RunnerOK ==
  /\ runner = [x \in {"running", "interval", "trigger", "left"} |-> runner[x]]
  /\ runner.running \in BOOLEAN
  /\ api \in {"starting", "up"} => runner.running = TRUE
  /\ runner.running = TRUE => /\ runner.interval \in 1 .. 168
                              /\ runner.trigger \in 1 .. 168
                              /\ runner.left \in 0 .. runner.trigger
  /\ job \in BOOLEAN /\ overlapped \in BOOLEAN
  /\ patches \in 0 .. MaxPatches /\ stops \in 0 .. MaxStops

\* As long as no two PATCHes of the interval overlap, the runner is as far behind the
\* table as the one that is under way says.
FollowsOK ==
  (api \in {"starting", "up"} /\ ~overlapped) =>
    /\ \A a, b \in Admins : PatchingInterval(a) /\ PatchingInterval(b) => a = b
    /\ (\A a \in Admins : request[a].pc \notin {"apply", "reschedule"}) =>
         runner.interval = patched[Interval]
    /\ (\A a \in Admins : request[a].pc # "reschedule") => runner.trigger = runner.interval
    /\ \A a \in Admins :
         /\ request[a].pc = "found" /\ request[a].field = Interval =>
              request[a].old = patched[Interval]
         /\ request[a].pc = "apply" => request[a].value = patched[Interval]
         /\ request[a].pc = "reschedule" => /\ request[a].value = patched[Interval]
                                             /\ runner.interval = request[a].value

IInv == TableOK /\ RequestsOK /\ RunnerOK /\ FollowsOK

-----------------------------------------------------------------------------
(***************************************************************************)
(* It holds at the start and is kept by every step.                        *)
(***************************************************************************)

LEMMA InvInit == Init => IInv
<1> SUFFICES ASSUME Init PROVE IInv
  OBVIOUS
<1>1. TableOK
  BY BootstrapAssumption DEF Init, TableOK
<1>2. RequestsOK
  BY DEF Init, RequestsOK, RequestOK, Idle
<1>3. RunnerOK
  <2>1. runner = [x \in {"running", "interval", "trigger", "left"} |-> runner[x]]
    BY DEF Init, Stopped
  <2>2. runner.running = FALSE
    BY DEF Init, Stopped
  <2>3. /\ api = "down" /\ job = FALSE /\ overlapped = FALSE
        /\ patches \in 0 .. MaxPatches /\ stops \in 0 .. MaxStops
    BY BoundsAssumption DEF Init
  <2> QED
    BY <2>1, <2>2, <2>3 DEF RunnerOK
<1>4. FollowsOK
  BY DEF Init, FollowsOK
<1> QED
  BY <1>1, <1>2, <1>3, <1>4 DEF IInv

\* What a commit makes of the row.
LEMMA CommitWrites ==
  ASSUME IInv, NEW a \in Admins, CommitPatch(a)
  PROVE  /\ rows = <<patched>>
         /\ rows' = <<patched'>>
         /\ patched' = [patched EXCEPT ![request[a].field] = request[a].value]
              \/ (patched' = patched /\ request[a].value = request[a].old)
         /\ GoodRow(patched')
<1>1. /\ request[a].pc = "found" /\ api = "up" /\ request[a].row = 1
      /\ request[a].field \in Fields /\ Valid(request[a].field, request[a].value)
  BY DEF IInv, RequestsOK, RequestOK, CommitPatch
<1>2. rows = <<patched>> /\ GoodRow(patched)
  BY <1>1 DEF IInv, TableOK
<1>3. CASE request[a].value = request[a].old
  BY <1>1, <1>2, <1>3 DEF CommitPatch
<1>4. CASE request[a].value # request[a].old
  <2>1. patched' = [patched EXCEPT ![request[a].field] = request[a].value]
    BY <1>4 DEF CommitPatch
  <2>2. rows' = [rows EXCEPT ![1] = [rows[1] EXCEPT ![request[a].field] = request[a].value]]
    BY <1>1, <1>4 DEF CommitPatch
  <2>3. rows' = <<patched'>>
    <3>1. rows[1] = patched
      BY <1>2
    <3>2. rows' = [rows EXCEPT ![1] = patched']
      BY <2>1, <2>2, <3>1
    <3>3. \A old, new : [<<old>> EXCEPT ![1] = new] = <<new>>
      OBVIOUS
    <3> QED
      BY <1>2, <3>2, <3>3
  <2>4. GoodRow(patched')
    BY <1>1, <1>2, <2>1 DEF GoodRow, Valid, Fields
  <2> QED
    BY <1>2, <2>1, <2>3, <2>4
<1> QED
  BY <1>3, <1>4

LEMMA TableStep == IInv /\ [Next]_vars => TableOK'
<1> SUFFICES ASSUME IInv, [Next]_vars PROVE TableOK'
  OBVIOUS
<1> USE DEF IInv, TableOK
<1>1. CASE SeedAdmin
  BY <1>1 DEF SeedAdmin, history
<1>2. CASE SeedConfiguration
  BY <1>2, BootstrapAssumption DEF SeedConfiguration
<1>3. CASE StartRunner \/ Serve \/ Stop \/ HourPasses \/ Fire \/ TickEnds
  BY <1>3 DEF StartRunner, Serve, Stop, HourPasses, Fire, TickEnds, database, history
<1>4. ASSUME NEW a \in Admins, NEW patch \in Patches, BeginPatch(a, patch[1], patch[2])
      PROVE  TableOK'
  BY <1>4 DEF BeginPatch, database
<1>5. ASSUME NEW a \in Admins, CommitPatch(a) PROVE TableOK'
  <2>1. api' = api
    BY <1>5 DEF CommitPatch
  <2> QED
    BY <1>5, <2>1, CommitWrites
<1>6. ASSUME NEW a \in Admins, SetInterval(a) \/ Reschedule(a) PROVE TableOK'
  BY <1>6 DEF SetInterval, Reschedule, database, history
<1>7. CASE UNCHANGED vars
  BY <1>7 DEF vars, database, history
<1> QED
  BY <1>1, <1>2, <1>3, <1>4, <1>5, <1>6, <1>7 DEF Next, Patch

LEMMA RequestsStep == IInv /\ [Next]_vars => RequestsOK'
<1> SUFFICES ASSUME IInv, [Next]_vars PROVE RequestsOK'
  OBVIOUS
<1>0. RequestsOK /\ TableOK
  BY DEF IInv
<1>1. CASE SeedAdmin \/ SeedConfiguration \/ StartRunner \/ Serve
  BY <1>0, <1>1 DEF SeedAdmin, SeedConfiguration, StartRunner, Serve, RequestsOK, RequestOK,
                    history
<1>2. CASE Stop
  BY <1>2 DEF Stop, RequestsOK, RequestOK, Idle
<1>3. CASE HourPasses \/ Fire \/ TickEnds
  BY <1>0, <1>3 DEF HourPasses, Fire, TickEnds, RequestsOK, RequestOK
<1>4. ASSUME NEW a \in Admins, NEW patch \in Patches, BeginPatch(a, patch[1], patch[2])
      PROVE  RequestsOK'
  <2>1. rows # << >> /\ api = "up" /\ api' = api
    BY <1>0, <1>4 DEF TableOK, BeginPatch
  <2>2. request' = [request EXCEPT ![a] =
          [pc |-> "found", field |-> patch[1], value |-> patch[2], row |-> 1,
           old |-> Head(rows)[patch[1]]]]
    BY <1>4, <2>1 DEF BeginPatch
  <2>3. patch[1] \in Fields /\ Valid(patch[1], patch[2])
    BY <1>4, PatchesAssumption DEF BeginPatch
  <2> QED
    BY <1>0, <2>1, <2>2, <2>3 DEF RequestsOK, RequestOK
<1>5. ASSUME NEW a \in Admins, CommitPatch(a) PROVE RequestsOK'
  <2>1. request' = [request EXCEPT ![a] =
          IF request[a].field = Interval THEN [request[a] EXCEPT !.pc = "apply"] ELSE Idle]
    BY <1>5 DEF CommitPatch, Interval
  <2>2. api' = api /\ request[a].pc = "found"
    BY <1>5 DEF CommitPatch
  <2> QED
    BY <1>0, <2>1, <2>2 DEF RequestsOK, RequestOK, Idle
<1>6. ASSUME NEW a \in Admins, SetInterval(a) PROVE RequestsOK'
  <2>1. request' = [request EXCEPT ![a] =
          IF runner.interval = request[a].value THEN Idle
          ELSE [request[a] EXCEPT !.pc = "reschedule"]]
    BY <1>6 DEF SetInterval
  <2>2. api' = api /\ request[a].pc = "apply"
    BY <1>6 DEF SetInterval
  <2> QED
    BY <1>0, <2>1, <2>2 DEF RequestsOK, RequestOK, Idle
<1>7. ASSUME NEW a \in Admins, Reschedule(a) PROVE RequestsOK'
  BY <1>0, <1>7 DEF Reschedule, RequestsOK, RequestOK, Idle
<1>8. CASE UNCHANGED vars
  BY <1>0, <1>8 DEF vars, RequestsOK, RequestOK
<1> QED
  BY <1>1, <1>2, <1>3, <1>4, <1>5, <1>6, <1>7, <1>8 DEF Next, Patch

LEMMA RunnerStep == IInv /\ [Next]_vars => RunnerOK'
<1> SUFFICES ASSUME IInv, [Next]_vars PROVE RunnerOK'
  OBVIOUS
<1>0. RunnerOK /\ RequestsOK /\ TableOK
  BY DEF IInv
<1>1. CASE SeedAdmin \/ SeedConfiguration \/ Serve \/ TickEnds
  BY <1>0, <1>1 DEF SeedAdmin, SeedConfiguration, Serve, TickEnds, RunnerOK, history
<1>2. CASE StartRunner
  <2>0. rows = <<patched>> /\ patched[Interval] \in 1 .. 168
    BY <1>0, <1>2 DEF TableOK, GoodRow, StartRunner, Interval
  <2>1. LoadedInterval \in 1 .. 168
    BY <2>0 DEF LoadedInterval, Interval
  <2> QED
    BY <1>0, <1>2, <2>1 DEF StartRunner, RunnerOK, history
<1>3. CASE Stop
  <2>1. runner' = [x \in {"running", "interval", "trigger", "left"} |-> runner'[x]]
    BY <1>3 DEF Stop, Stopped
  <2>2. runner.running' = FALSE
    BY <1>3 DEF Stop, Stopped
  <2>3. api' = "down" /\ job' = FALSE /\ overlapped' = FALSE
    BY <1>3 DEF Stop
  <2>4. patches' \in 0 .. MaxPatches /\ stops' \in 0 .. MaxStops
    BY <1>0, <1>3, BoundsAssumption DEF Stop, RunnerOK
  <2> QED
    BY <2>1, <2>2, <2>3, <2>4 DEF RunnerOK
<1>4. CASE HourPasses
  BY <1>0, <1>4 DEF HourPasses, RunnerOK, history
<1>5. CASE Fire
  BY <1>0, <1>5 DEF Fire, RunnerOK, history
<1>6. ASSUME NEW a \in Admins, NEW patch \in Patches, BeginPatch(a, patch[1], patch[2])
      PROVE  RunnerOK'
  <2>1. overlapped' \in BOOLEAN
    BY <1>6 DEF BeginPatch
  <2>2. patches' \in 0 .. MaxPatches
    BY <1>0, <1>6, BoundsAssumption DEF BeginPatch, RunnerOK
  <2> QED
    BY <1>0, <1>6, <2>1, <2>2 DEF BeginPatch, RunnerOK
<1>7. ASSUME NEW a \in Admins, CommitPatch(a) PROVE RunnerOK'
  BY <1>0, <1>7 DEF CommitPatch, RunnerOK
<1>8. ASSUME NEW a \in Admins, SetInterval(a) PROVE RunnerOK'
  <2>1. request[a].value \in 1 .. 168
    BY <1>0, <1>8 DEF SetInterval, RequestsOK, RequestOK, Valid, Interval
  <2>2. runner.running = TRUE
    BY <1>0, <1>8 DEF SetInterval, RequestsOK, RequestOK, RunnerOK
  <2>3. runner' = [runner EXCEPT !.interval = request[a].value]
    BY <1>8 DEF SetInterval
  <2>4. /\ runner' = [x \in {"running", "interval", "trigger", "left"} |-> runner'[x]]
        /\ runner.running' = TRUE
        /\ runner.interval' = request[a].value
        /\ runner.trigger' = runner.trigger /\ runner.left' = runner.left
    BY <1>0, <2>2, <2>3 DEF RunnerOK
  <2>5. UNCHANGED <<job, overlapped, patches, stops>>
    BY <1>8 DEF SetInterval, history
  <2> QED
    BY <1>0, <2>1, <2>2, <2>4, <2>5 DEF RunnerOK
<1>9. ASSUME NEW a \in Admins, Reschedule(a) PROVE RunnerOK'
  <2>1. request[a].value \in 1 .. 168
    BY <1>0, <1>9 DEF Reschedule, RequestsOK, RequestOK, Valid, Interval
  <2>2. runner.running = TRUE
    BY <1>0, <1>9 DEF Reschedule, RequestsOK, RequestOK, RunnerOK
  <2>3. runner' = [runner EXCEPT !.trigger = request[a].value, !.left = request[a].value]
    BY <1>9 DEF Reschedule
  <2>4. /\ runner' = [x \in {"running", "interval", "trigger", "left"} |-> runner'[x]]
        /\ runner.running' = TRUE
        /\ runner.interval' = runner.interval
        /\ runner.trigger' = request[a].value /\ runner.left' = request[a].value
    BY <1>0, <2>2, <2>3 DEF RunnerOK
  <2>5. UNCHANGED <<job, overlapped, patches, stops>>
    BY <1>9 DEF Reschedule, history
  <2>6. runner.left' \in 0 .. runner.trigger'
    BY <2>1, <2>4
  <2>7. runner.interval \in 1 .. 168 /\ runner.running' = TRUE
    BY <1>0, <2>2, <2>4 DEF RunnerOK
  <2> QED
    BY <1>0, <2>1, <2>4, <2>5, <2>6, <2>7 DEF RunnerOK
<1>10. CASE UNCHANGED vars
  BY <1>0, <1>10 DEF vars, RunnerOK, history
<1> QED
  BY <1>1, <1>2, <1>3, <1>4, <1>5, <1>6, <1>7, <1>8, <1>9, <1>10 DEF Next, Patch

\* Only the one PATCH of the interval can bring the runner and the table apart, and
\* it has brought them together when it ends.
LEMMA FollowsStep == IInv /\ [Next]_vars => FollowsOK'
<1> SUFFICES ASSUME IInv, [Next]_vars PROVE FollowsOK'
  OBVIOUS
<1>0. TableOK /\ RequestsOK /\ RunnerOK /\ FollowsOK
  BY DEF IInv
<1>1. CASE SeedAdmin \/ SeedConfiguration \/ Stop
  BY <1>1 DEF SeedAdmin, SeedConfiguration, Stop, FollowsOK
<1>2. CASE StartRunner
  <2>1. rows = <<patched>>
    BY <1>0, <1>2 DEF TableOK, StartRunner
  <2>2. runner.interval' = patched[Interval] /\ runner.trigger' = patched[Interval]
    BY <2>1, <1>2 DEF StartRunner, LoadedInterval, Interval
  <2>3. patched' = patched /\ request' = request /\ \A a \in Admins : request[a].pc = "idle"
    BY <1>0, <1>2 DEF StartRunner, RequestsOK, RequestOK, history
  <2> QED
    BY <2>2, <2>3 DEF FollowsOK, PatchingInterval
<1>3. CASE Serve \/ TickEnds \/ UNCHANGED vars
  BY <1>0, <1>3 DEF Serve, TickEnds, vars, history, FollowsOK, PatchingInterval
<1>4. CASE HourPasses \/ Fire
  <2>1. runner.interval' = runner.interval /\ runner.trigger' = runner.trigger
    BY <1>0, <1>4 DEF HourPasses, Fire, RunnerOK
  <2>2. UNCHANGED <<api, request, patched, overlapped>>
    BY <1>4 DEF HourPasses, Fire, history
  <2> QED
    BY <1>0, <2>1, <2>2 DEF FollowsOK, PatchingInterval
<1>5. ASSUME NEW a \in Admins, NEW patch \in Patches, BeginPatch(a, patch[1], patch[2])
      PROVE  FollowsOK'
  <2> SUFFICES ASSUME ~overlapped' PROVE FollowsOK'
    BY DEF FollowsOK
  <2>1. rows = <<patched>> /\ UNCHANGED <<api, runner, patched>>
    BY <1>0, <1>5 DEF TableOK, BeginPatch
  <2>2. request' = [request EXCEPT ![a] =
          [pc |-> "found", field |-> patch[1], value |-> patch[2], row |-> 1,
           old |-> patched[patch[1]]]]
    BY <1>5, <2>1 DEF BeginPatch
  <2>3. ~overlapped /\ (patch[1] = Interval => \A b \in Admins : ~PatchingInterval(b))
    BY <1>5 DEF BeginPatch, Interval
  <2>4. \A b \in Admins : b # a => request'[b] = request[b]
    BY <1>0, <2>2 DEF RequestsOK
  <2>5. /\ request'[a].pc = "found" /\ request'[a].field = patch[1]
        /\ request'[a].old = patched[patch[1]]
        /\ request[a].pc = "idle"
    BY <1>0, <1>5, <2>2 DEF RequestsOK, BeginPatch
  <2> QED
    BY <1>0, <2>1, <2>3, <2>4, <2>5 DEF FollowsOK, PatchingInterval, Interval
<1>6. ASSUME NEW a \in Admins, CommitPatch(a) PROVE FollowsOK'
  <2> SUFFICES ASSUME ~overlapped', api' \in {"starting", "up"} PROVE FollowsOK'
    BY DEF FollowsOK
  <2>1. /\ UNCHANGED <<api, runner, overlapped>> /\ request[a].pc = "found"
        /\ request[a].field \in Fields
    BY <1>0, <1>6 DEF CommitPatch, RequestsOK, RequestOK
  <2>2. \A b \in Admins : b # a => request'[b] = request[b]
    BY <1>0, <1>6 DEF CommitPatch, RequestsOK
  <2>3. CASE request[a].field = Interval
    <3>1. request'[a].pc = "apply" /\ request'[a].value = request[a].value
          /\ request'[a].field = Interval
      BY <1>0, <1>6, <2>1, <2>3 DEF CommitPatch, RequestsOK, RequestOK, Interval
    <3>2. \A b \in Admins : b # a => ~PatchingInterval(b)
      BY <1>0, <2>1, <2>3 DEF FollowsOK, PatchingInterval, Interval
    <3>3. \A b \in Admins : b # a => request[b].pc \notin {"apply", "reschedule"}
      BY <1>0, <3>2 DEF RequestsOK, RequestOK, PatchingInterval, Interval
    <3>4. request[a].old = patched[Interval] /\ runner.trigger = runner.interval
      BY <1>0, <2>1, <2>3, <3>3 DEF FollowsOK
    <3>5. patched'[Interval] = request[a].value
      <4>1. Interval \in DOMAIN patched
        BY <1>0 DEF TableOK, GoodRow, Fields, Interval
      <4> QED
        BY <1>6, <2>3, <3>4, <4>1, CommitWrites
    <3> QED
      BY <2>1, <2>2, <3>1, <3>2, <3>3, <3>4, <3>5 DEF FollowsOK, PatchingInterval, Interval
  <2>4. CASE request[a].field # Interval
    <3>1. request'[a].pc = "idle"
      BY <1>0, <1>6, <2>4 DEF CommitPatch, RequestsOK, Idle, Interval
    <3>2. patched'[Interval] = patched[Interval]
      <4>1. patched = [f \in Fields |-> patched[f]] /\ Interval \in Fields
        BY <1>0 DEF TableOK, GoodRow, Fields, Interval
      <4> QED
        BY <1>6, <2>4, <4>1, CommitWrites
    <3> QED
      BY <1>0, <2>1, <2>2, <3>1, <3>2 DEF FollowsOK, PatchingInterval, Interval
  <2> QED
    BY <2>3, <2>4
<1>7. ASSUME NEW a \in Admins, SetInterval(a) \/ Reschedule(a) PROVE FollowsOK'
  <2> SUFFICES ASSUME ~overlapped', api' \in {"starting", "up"} PROVE FollowsOK'
    BY DEF FollowsOK
  <2>1. /\ UNCHANGED <<api, patched, overlapped>>
        /\ request[a].pc \in {"apply", "reschedule"} /\ request[a].field = Interval
    BY <1>0, <1>7 DEF SetInterval, Reschedule, history, RequestsOK, RequestOK
  <2>2. \A b \in Admins : b # a => request'[b] = request[b] /\ ~PatchingInterval(b)
    BY <1>0, <1>7, <2>1 DEF SetInterval, Reschedule, RequestsOK, FollowsOK, PatchingInterval,
                            Interval
  <2>3. \A b \in Admins : b # a => request[b].pc \notin {"apply", "reschedule"}
    BY <1>0, <2>2 DEF RequestsOK, RequestOK, PatchingInterval, Interval
  <2>4. request[a].value = patched[Interval]
    BY <1>0, <2>1 DEF FollowsOK
  <2>5. CASE SetInterval(a)
    <3>1. runner.interval' = request[a].value /\ runner.trigger' = runner.trigger
      BY <1>0, <2>5 DEF SetInterval, RunnerOK
    <3>2. runner.trigger = runner.interval
      BY <1>0, <2>1, <2>3, <2>5 DEF FollowsOK, SetInterval
    <3>3. IF runner.interval = request[a].value THEN request'[a].pc = "idle"
          ELSE /\ request'[a].pc = "reschedule" /\ request'[a].field = Interval
               /\ request'[a].value = request[a].value
      BY <1>0, <2>1, <2>5 DEF SetInterval, RequestsOK, RequestOK, Idle
    <3> QED
      BY <2>1, <2>2, <2>3, <2>4, <3>1, <3>2, <3>3 DEF FollowsOK, PatchingInterval, Interval
  <2>6. CASE Reschedule(a)
    <3>1. runner.interval' = runner.interval /\ runner.trigger' = request[a].value
      BY <1>0, <2>6 DEF Reschedule, RunnerOK
    <3>2. runner.interval = request[a].value
      BY <1>0, <2>1, <2>6 DEF FollowsOK, Reschedule
    <3>3. request'[a].pc = "idle"
      BY <1>0, <2>6 DEF Reschedule, RequestsOK, Idle
    <3> QED
      BY <2>1, <2>2, <2>3, <2>4, <3>1, <3>2, <3>3 DEF FollowsOK, PatchingInterval, Interval
  <2> QED
    BY <1>7, <2>5, <2>6
<1> QED
  BY <1>1, <1>2, <1>3, <1>4, <1>5, <1>6, <1>7 DEF Next, Patch

LEMMA Invariance == Spec => []IInv
<1>1. Init => IInv
  BY InvInit
<1>2. IInv /\ [Next]_vars => IInv'
  BY TableStep, RequestsStep, RunnerStep, FollowsStep DEF IInv
<1> QED
  BY <1>1, <1>2, PTL DEF Spec

-----------------------------------------------------------------------------
(***************************************************************************)
(* What it comes to.                                                       *)
(***************************************************************************)

\* The rows and the running trigger stay in range, whatever admins send: the checks
\* of the request and the interval of the seeded row are enough.
THEOREM TypeCorrectness == Spec => []TypeOK
<1>1. IInv => TypeOK
  <2> SUFFICES ASSUME IInv PROVE TypeOK
    OBVIOUS
  <2>1. \A i \in DOMAIN rows : GoodRow(rows[i])
    BY DEF IInv, TableOK
  <2>2. runner.running => /\ runner.trigger \in 1 .. 168
                          /\ runner.left \in 0 .. runner.trigger
    BY DEF IInv, RunnerOK
  <2> QED
    BY <2>1, <2>2 DEF IInv, TableOK, RunnerOK, TypeOK
<1> QED
  BY <1>1, Invariance, PTL

\* The seeds keep the promise that get_or_create relies on: however many admins send
\* requests and wherever the process stops, no second row comes to be.
THEOREM ThereIsOneRow == Spec => []OneRow
<1>1. IInv => OneRow
  <2> SUFFICES ASSUME IInv PROVE OneRow
    OBVIOUS
  <2>1. CASE rows = << >>
    BY <2>1 DEF IInv, TableOK, OneRow
  <2>2. CASE rows = <<patched>>
    <3>1. Len(rows) = 1
      BY <2>2
    <3> QED
      BY <3>1 DEF OneRow
  <2> QED
    BY <2>1, <2>2 DEF IInv, TableOK
<1> QED
  BY <1>1, Invariance, PTL

\* PATCHes that overlap lose nothing: each writes its own column of the one row.
THEOREM NoPatchIsLost == Spec => []PatchesStick
<1>1. IInv => PatchesStick
  BY DEF IInv, TableOK, PatchesStick
<1> QED
  BY <1>1, Invariance, PTL

\* The running interval is the one of the row once no PATCH is under way, for every
\* number of PATCHes and restarts in which two PATCHes of the interval do not overlap.
THEOREM RunnerFollows == Spec => []RunnerFollowsConfig
<1>1. IInv => RunnerFollowsConfig
  <2> SUFFICES ASSUME IInv, api = "up", NoPatch, ~overlapped
               PROVE  /\ runner.trigger = Head(rows)[Interval]
                      /\ runner.interval = runner.trigger
    BY DEF RunnerFollowsConfig, Interval
  <2>1. rows = <<patched>>
    BY DEF IInv, TableOK
  <2>2. runner.trigger = runner.interval /\ runner.interval = patched[Interval]
    BY DEF IInv, FollowsOK, NoPatch
  <2> QED
    BY <2>1, <2>2
<1> QED
  BY <1>1, Invariance, PTL
=============================================================================
