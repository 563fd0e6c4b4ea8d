-------------------------- MODULE SchedulerConfig --------------------------
(***************************************************************************)
(* The configuration row, the start of the API process that seeds it, and  *)
(* the background scheduler whose interval it holds.  Admins change one    *)
(* field at a time: each PATCH finds the row, writes and commits its       *)
(* column, and a new interval is applied to the running scheduler after    *)
(* the commit.  Requests run in threads of one process, beside the thread  *)
(* of the scheduler; the process can stop anywhere and start again.        *)
(***************************************************************************)
EXTENDS Integers, Sequences, FiniteSets, TLC

CONSTANTS
  Admins,
  Bootstrap,          \* the values of the environment for the first row
  Defaults,           \* the values of a row that a request has to create
  Patches,            \* bound: the pairs of a field and a value that admins send
  MaxPatches,         \* bound: the number of PATCHes
  MaxStops,           \* bound: how often the process stops
  Null                \* None

Fields == {"scheduler_interval_hours", "max_weekly_hours", "llm_provider", "llm_api_key"}

\* A row, with values in range.
GoodRow(row) ==
  /\ row = [f \in Fields |-> row[f]]
  /\ row["scheduler_interval_hours"] \in 1 .. 168
  /\ row["max_weekly_hours"] \in 1 .. 168
  /\ row["llm_api_key"] # ""

\* Nobody validates the environment.
ASSUME BootstrapAssumption == GoodRow(Bootstrap) /\ GoodRow(Defaults)
ASSUME PatchesAssumption == \A patch \in Patches : patch[1] \in Fields
ASSUME BoundsAssumption == MaxPatches \in Nat /\ MaxStops \in Nat

VARIABLES
  rows,               \* system_configurations, in the order of the ids
  adminSeeded,        \* whether the bootstrap admin exists
  api,                \* how far the start of the process is
  runner,             \* the scheduler: its interval, its trigger and the hours left
  job,                \* whether a tick runs
  request,            \* the PATCH of each admin
  patched,            \* history: what was last written of each field
  overlapped,         \* history: since the start: whether two PATCHes of the interval overlapped
  patches, stops      \* count PATCHes and stops, for the bounds

database == <<rows, adminSeeded>>
history == <<patched, overlapped>>
vars == <<database, api, runner, job, request, history, patches, stops>>

Idle == [pc |-> "idle"]
Stopped == [running |-> FALSE, interval |-> Null, trigger |-> Null, left |-> Null]

-----------------------------------------------------------------------------
(***************************************************************************)
(* The start: migrations, the seeds, the scheduler with a first tick, and  *)
(* only then requests.                                                     *)
(***************************************************************************)

\* Mutant: the row is seeded together with the admin or not at all.
SeedAdminOnlyOnce ==
  /\ api = "down"
  /\ adminSeeded' = TRUE
  /\ api' = IF adminSeeded THEN "seeded" ELSE "admin"
  /\ UNCHANGED <<rows, runner, job, request, history, patches, stops>>

SeedAdmin ==
  /\ api = "down"
  /\ adminSeeded' = TRUE
  /\ api' = "admin"
  /\ UNCHANGED <<rows, runner, job, request, history, patches, stops>>

SeedConfiguration ==
  /\ api = "admin"
  /\ rows' = IF rows = << >> THEN <<Bootstrap>> ELSE rows
  /\ patched' = IF rows = << >> THEN Bootstrap ELSE patched
  /\ api' = "seeded"
  /\ UNCHANGED <<adminSeeded, runner, job, request, overlapped, patches, stops>>

\* The interval of the row with the lowest id, or the default.
LoadedInterval ==
  (IF rows = << >> THEN Defaults ELSE Head(rows))["scheduler_interval_hours"]

\* Mutant: the interval of the environment is used, whatever admins made of it.
StartWithBootstrap ==
  /\ api = "seeded"
  /\ LET hours == Bootstrap["scheduler_interval_hours"]
     IN runner' = [running |-> TRUE, interval |-> hours, trigger |-> hours, left |-> hours]
  /\ job' = TRUE
  /\ api' = "starting"
  /\ UNCHANGED <<database, request, history, patches, stops>>

StartRunner ==
  /\ api = "seeded"
  /\ LET hours == LoadedInterval
     IN runner' = [running |-> TRUE, interval |-> hours, trigger |-> hours, left |-> hours]
  /\ job' = TRUE
  /\ api' = "starting"
  /\ UNCHANGED <<database, request, history, patches, stops>>

Serve ==
  /\ api = "starting"
  /\ ~job
  /\ api' = "up"
  /\ UNCHANGED <<database, runner, job, request, history, patches, stops>>

\* A shutdown does not wait for the tick, whose transaction is rolled back.
Stop ==
  /\ api # "down"
  /\ stops < MaxStops
  /\ stops' = stops + 1
  /\ api' = "down" /\ runner' = Stopped /\ job' = FALSE
  /\ request' = [a \in Admins |-> Idle]
  /\ overlapped' = FALSE
  /\ UNCHANGED <<database, patched, patches>>

-----------------------------------------------------------------------------
(***************************************************************************)
(* Time.                                                                   *)
(***************************************************************************)

HourPasses ==
  /\ runner.running
  /\ runner.left > 0
  /\ runner' = [runner EXCEPT !.left = @ - 1]
  /\ UNCHANGED <<database, api, job, request, history, patches, stops>>

\* Mutant: a tick of a trigger that is not of the last interval is dropped.
FireIfCurrent ==
  /\ runner.running
  /\ runner.left = 0
  /\ runner' = [runner EXCEPT !.left = runner.trigger]
  /\ job' = (job \/ runner.interval = runner.trigger)
  /\ UNCHANGED <<database, api, request, history, patches, stops>>

\* A tick that is due while one runs is skipped.
Fire ==
  /\ runner.running
  /\ runner.left = 0
  /\ runner' = [runner EXCEPT !.left = runner.trigger]
  /\ job' = TRUE
  /\ UNCHANGED <<database, api, request, history, patches, stops>>

\* It is committed, or it failed and is rolled back; the scheduler goes on.
TickEnds ==
  /\ job
  /\ job' = FALSE
  /\ UNCHANGED <<database, api, runner, request, history, patches, stops>>

-----------------------------------------------------------------------------
(***************************************************************************)
(* A PATCH.                                                                *)
(***************************************************************************)

\* Mutant: a maximum of hours is not compared with anything.
ValidInterval(field, value) ==
  field = "scheduler_interval_hours" => value \in 1 .. 168

Valid(field, value) ==
  /\ field \in {"scheduler_interval_hours", "max_weekly_hours"} => value \in 1 .. 168
  /\ field = "llm_api_key" => value # ""

PatchingInterval(a) == /\ request[a].pc # "idle"
                       /\ request[a].field = "scheduler_interval_hours"

\* The row with the lowest id is the one to write, or one that has to be created.
BeginPatch(a, field, value) ==
  /\ api = "up"
  /\ request[a].pc = "idle"
  /\ patches < MaxPatches
  /\ patches' = patches + 1
  /\ Valid(field, value)
  /\ request' = [request EXCEPT ![a] =
       [pc |-> "found", field |-> field, value |-> value, row |-> IF rows = << >> THEN 0 ELSE 1,
        old |-> IF rows = << >> THEN Defaults[field] ELSE Head(rows)[field]]]
  /\ overlapped' = (overlapped \/ \E b \in Admins : /\ field = "scheduler_interval_hours"
                                                    /\ PatchingInterval(b))
  /\ UNCHANGED <<database, api, runner, job, patched, stops>>

\* Mutant: all the columns are written as they were when the row was found.
CommitAllColumns(a) ==
  /\ request[a].pc = "found"
  /\ LET r == request[a]
     IN /\ rows' = <<[Bootstrap EXCEPT ![r.field] = r.value]>>
        /\ patched' = [patched EXCEPT ![r.field] = r.value]
        /\ request' = [request EXCEPT ![a] =
             IF r.field = "scheduler_interval_hours" THEN [r EXCEPT !.pc = "apply"] ELSE Idle]
  /\ UNCHANGED <<adminSeeded, api, runner, job, overlapped, patches, stops>>

\* The column is written if the value is not the one that was read.
CommitPatch(a) ==
  /\ request[a].pc = "found"
  /\ LET r == request[a]
     IN /\ rows' = IF r.row = 0 THEN Append(rows, [Defaults EXCEPT ![r.field] = r.value])
                   ELSE IF r.value = r.old THEN rows
                   ELSE [rows EXCEPT ![r.row][r.field] = r.value]
        /\ patched' = IF r.value = r.old THEN patched
                      ELSE [patched EXCEPT ![r.field] = r.value]
        /\ request' = [request EXCEPT ![a] =
             IF r.field = "scheduler_interval_hours" THEN [r EXCEPT !.pc = "apply"] ELSE Idle]
  /\ UNCHANGED <<adminSeeded, api, runner, job, overlapped, patches, stops>>

\* An interval that the runner has already is not applied again.
SetInterval(a) ==
  /\ request[a].pc = "apply"
  /\ runner' = [runner EXCEPT !.interval = request[a].value]
  /\ request' = [request EXCEPT ![a] =
       IF runner.interval = request[a].value THEN Idle ELSE [@ EXCEPT !.pc = "reschedule"]]
  /\ UNCHANGED <<database, api, job, history, patches, stops>>

\* The new interval is counted from now.
Reschedule(a) ==
  /\ request[a].pc = "reschedule"
  /\ runner' = [runner EXCEPT !.trigger = request[a].value, !.left = request[a].value]
  /\ request' = [request EXCEPT ![a] = Idle]
  /\ UNCHANGED <<database, api, job, history, patches, stops>>

Init ==
  /\ rows = << >> /\ adminSeeded = FALSE
  /\ api = "down" /\ runner = Stopped /\ job = FALSE
  /\ request = [a \in Admins |-> Idle]
  /\ patched = Defaults /\ overlapped = FALSE
  /\ patches = 0 /\ stops = 0

Patch(a) == CommitPatch(a) \/ SetInterval(a) \/ Reschedule(a)

Next ==
  \/ SeedAdmin \/ SeedConfiguration \/ StartRunner \/ Serve \/ Stop
  \/ HourPasses \/ Fire \/ TickEnds
  \/ \E a \in Admins : \/ \E patch \in Patches : BeginPatch(a, patch[1], patch[2])
                       \/ Patch(a)

\* Hours pass, due ticks fire and end, and a request that began is served.
Spec == /\ Init /\ [][Next]_vars
        /\ WF_vars(HourPasses) /\ WF_vars(Fire) /\ WF_vars(TickEnds)
        /\ \A a \in Admins : WF_vars(Patch(a))

-----------------------------------------------------------------------------
(***************************************************************************)
(* Properties.                                                             *)
(***************************************************************************)

\* The variables have values of their types; what is committed and applied is in range.
TypeOK ==
  /\ \A i \in DOMAIN rows : GoodRow(rows[i])
  /\ api \in {"down", "admin", "seeded", "starting", "up"}
  /\ runner.running => /\ runner.trigger \in 1 .. 168
                       /\ runner.left \in 0 .. runner.trigger
  /\ job \in BOOLEAN /\ overlapped \in BOOLEAN
  /\ patches \in 0 .. MaxPatches /\ stops \in 0 .. MaxStops

\* There is never a second row, although a request would create one if it found none:
\* the seeds have committed one before requests are served, wherever earlier starts
\* were interrupted.
OneRow == Len(rows) <= 1 /\ (api = "up" => Len(rows) = 1)

\* The configuration has what was last written to each of its fields, whichever
\* PATCHes overlapped.
PatchesStick == rows # << >> => Head(rows) = patched

NoPatch == \A a \in Admins : request[a].pc = "idle"

\* When no PATCH is under way the scheduler runs at the interval of the configuration,
\* restarts between commit and reschedule included, if PATCHes of the interval did not
\* overlap.
RunnerFollowsConfig ==
  (api = "up" /\ NoPatch /\ ~overlapped) =>
    /\ runner.trigger = Head(rows)["scheduler_interval_hours"]
    /\ runner.interval = runner.trigger

\* While the process is up, ticks recur, whatever fails in them and however often the
\* interval is changed.
TicksRecur == <>[](api = "up") => []<>job

\* README.md:446: the interval is rescheduled immediately on PATCH.  Of two PATCHes
\* the first to be committed can be the last to be applied.
RunnerAlwaysFollows ==
  (api = "up" /\ NoPatch) => runner.trigger = Head(rows)["scheduler_interval_hours"]
=============================================================================
