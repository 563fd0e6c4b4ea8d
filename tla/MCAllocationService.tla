------------------------ MODULE MCAllocationService ------------------------
(***************************************************************************)
(* Instances of AllocationService for TLC.  Each next-state relation below *)
(* leaves out handlers of the full one, which the other runs exercise.     *)
(***************************************************************************)
EXTENDS AllocationService, TLC

RequestSymmetry == Permutations(Requests)

\* Managers and employee deactivations at once, between two ticks.
RequestsNext ==
  \/ \E t \in Requests : Start(t) \/ Continue(t) \/ Rollback(t)

RequestsSpec == Init /\ [][RequestsNext]_vars

\* The admin screens, with one project status that takes allocations and one
\* that does not.
Administrate ==
  \/ \E u \in Engineers, m \in Managers : AssignManager(u, m)
  \/ \E p \in Projects, s \in {"ACTIVE", "ON_HOLD"}, m \in Managers : UpdateProject(p, s, m)
  \/ \E u \in Engineers : DeactivateUser(u)
  \/ \E u \in Engineers : ReactivateUser(u)

\* The scheduler, midnight and the admin screens beside the requests, in a server
\* whose ticks do not fail: a tick that does is made up for by the next one.
SyncNext ==
  \/ \E t \in Requests : Start(t) \/ Rollback(t)
  \/ BeginTick
  \/ \E t \in Transactions : Continue(t)
  \/ Administrate
  \/ NextDay

SyncSpec == Init /\ [][SyncNext]_vars /\ Fairness
=============================================================================
