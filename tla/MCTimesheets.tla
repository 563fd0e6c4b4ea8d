---------------------------- MODULE MCTimesheets ----------------------------
(***************************************************************************)
(* Instances of Timesheets for TLC.                                        *)
(***************************************************************************)
EXTENDS Timesheets, TLC

CONSTANTS p1, p2

\* The first half of a week on one project, what is left of it on another, and an
\* allocation without an end; each for all of the engineer's time.
MCGrants ==
  {[user_id |-> 1, project_id |-> p, utilisation_percent |-> MaxUtilisationPercent,
    from_date |-> from, to_date |-> to, status |-> "ACTIVE"] :
     <<p, from, to>> \in {<<p1, 1, 1>>, <<p2, 2, NoDate>>}}

RequestSymmetry == Permutations(Requests)

\* Submissions, ticks, managers and midnight, without changes of accounts: those only
\* decide whom the scheduler looks at.
RacesNext ==
  \/ \E t \in Requests : Submit(t) \/ Rollback(t)
  \/ BeginTick
  \/ \E t \in Transactions : Continue(t)
  \/ Rollback(Scheduler)
  \/ \E row \in Grants : Allocate(row)
  \/ \E i \in AllocationIds, d \in EndDays : EndAllocation(i, d)
  \/ NextDay

RacesSpec == Init /\ [][RacesNext]_vars

\* Every handler, in a server whose ticks do not fail: a tick that does is made up
\* for by the next one.
LiveNext ==
  \/ \E t \in Requests : Submit(t) \/ Rollback(t)
  \/ BeginTick
  \/ \E t \in Transactions : Continue(t)
  \/ Manage
  \/ NextDay

LiveSpec == Init /\ [][LiveNext]_vars /\ Fairness
=============================================================================
