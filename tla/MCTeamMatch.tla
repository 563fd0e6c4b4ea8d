---------------------------- MODULE MCTeamMatch ----------------------------
(***************************************************************************)
(* Instances of TeamMatch for TLC.                                         *)
(***************************************************************************)
EXTENDS TeamMatch

CONSTANTS m1, m2

Skill(name, level) == [name |-> name, category |-> "BACKEND", proficiency |-> level]

API == <<"backend", "api">>
QA == <<"testing", "qa">>
Microservices == <<"microservices">>

\* Engineer 1 knows most, but the first skill of the category is the weaker one.
MCProfile ==
  [e \in Engineers |->
    [department |-> IF e = 3 THEN "QA" ELSE "IT", designation |-> "SE",
     skills |-> CASE e = 1 -> <<Skill("sql", 0), Skill("java", 2)>>
                  [] e = 2 -> <<Skill("java", 1)>>
                  [] OTHER -> <<Skill("sql", 2)>>,
     tags |-> IF e = 3 THEN {QA} ELSE {API, Microservices}]]

Anyone ==
  [department |-> Null, designation |-> Null, skill_category |-> Null,
   skill_name |-> Null, min_proficiency |-> Null, min_free_hours |-> Null,
   activity_tags |-> << >>, work_status |-> Null]

Slot(id, headcount, filters) ==
  [slot_id |-> id, role_label |-> "role", headcount |-> headcount, filters |-> filters]

Java == [Anyone EXCEPT !.skill_name = "java"]
PartTime == [Java EXCEPT !.min_free_hours = 7, !.min_proficiency = 1]
Sql == [Anyone EXCEPT !.skill_category = "BACKEND", !.min_proficiency = 2,
                      !.min_free_hours = 0]
Bench == [Anyone EXCEPT !.work_status = "BENCH", !.activity_tags = <<QA, Microservices>>]
ApiDeveloper == [Anyone EXCEPT !.activity_tags = <<API>>]
Tester == [Anyone EXCEPT !.department = "QA", !.skill_name = "selenium"]

MCReplies ==
  { <<Slot(1, 2, Java), Slot(2, 1, Anyone)>>,
    <<Slot(1, 1, Java), Slot(2, 2, PartTime)>>,
    <<Slot(1, 1, Sql), Slot(2, 1, Tester), Slot(3, 1, Java)>>,
    <<Slot(1, 1, Bench), Slot(1, 1, Anyone), Slot(2, 1, ApiDeveloper)>>,
    <<Slot(0, 1, Java), Slot(1, 0, Java), Slot(2, 1, Null)>> }

MCRankings ==
  { <<>>,
    <<[user |-> 2, complete |-> TRUE], [user |-> 9, complete |-> TRUE],
      [user |-> 1, complete |-> FALSE], [user |-> 3, complete |-> TRUE],
      [user |-> 1, complete |-> TRUE]>> }

MCExplanations == { {}, {<<1, 1, 1>>, <<1, 1, 3>>, <<2, 1, 2>>, <<9, 1, 1>>} }

\* The manager owns a project that is open, and the team is complete when the request
\* comes; what others change later is part of the behaviour.
MCInit ==
  /\ Init
  /\ project = [owner |-> Manager, open |-> TRUE]
  /\ \A e \in Engineers : staff[e].manager = Manager /\ staff[e].active

MCSpec == MCInit /\ [][Next]_vars /\ WF_vars(Step)
=============================================================================
