-------------------------- MODULE MCProjectHealth --------------------------
(***************************************************************************)
(* Instances of ProjectHealth for TLC.                                     *)
(***************************************************************************)
EXTENDS ProjectHealth

CONSTANTS m1, m2

\* A row that covers four days of week 0 and all days after.
MCRows ==
  { [id |-> 1, user_id |-> 1, project_id |-> 1, utilisation_percent |-> 16,
     from_date |-> 3, to_date |-> Null] }

MCSubmissions ==
  { [user_id |-> 1, week |-> 0, hours |-> <<3, 0>>],
    [user_id |-> 1, week |-> 0, hours |-> <<2, 0>>] }

MCNameLength == [u \in {1} |-> 12]

MCProjects ==
  { [status |-> "ACTIVE", start_date |-> 1, end_date |-> 3, manager_user_id |-> m1] }

Same == [status |-> Null, start_date |-> Null, end_date |-> Null, manager_user_id |-> Null]

MCUpdates ==
  { [Same EXCEPT !.status = "ON_HOLD", !.manager_user_id = m2],
    [Same EXCEPT !.start_date = 3], [Same EXCEPT !.end_date = 2] }

MCMilestones == { [title |-> 20, due_date |-> 13, status |-> "NOT_STARTED", story_points |-> 0] }
MCMilestoneUpdates == { [status |-> "DONE", due_date |-> Null] }

\* A project with a milestone and an engineer is there; it is the Sunday before the day
\* on which week 7 becomes the last completed week.
MCInit == Init /\ today = 13 /\ project # << >> /\ milestones[1] # << >> /\ assigned # {}

MCSpec == MCInit /\ [][Next]_vars /\ WF_vars(Tick)
=============================================================================
