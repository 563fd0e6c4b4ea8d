------------------------------- MODULE Console -------------------------------
(***************************************************************************)
(* The console: a stack of screens over the session of one user.           *)
(* Tables give what every screen                                           *)
(* reads before it prompts, where it leads, and what it writes, what the   *)
(* client calls for that, and which routes the API has.  Writes of         *)
(* accounts and skills are those of Accounts; of the others, which other   *)
(* modules describe, only success or failure is seen here.                 *)
(***************************************************************************)
EXTENDS Accounts

VARIABLES
  stack               \* the screens of each console, << >> before it is started

vars == <<accountVars, stack>>

\* f @@ g, as a function that the provers see through.
f ++ g == [x \in DOMAIN f \cup DOMAIN g |-> IF x \in DOMAIN f THEN f[x] ELSE g[x]]

-----------------------------------------------------------------------------
(***************************************************************************)
(* The client: the method and the path of each call.                       *)
(***************************************************************************)

SessionCalls ==
  [login           |-> <<"POST", "/auth/login">>,
   change_password |-> <<"POST", "/auth/change-password">>]

UserCalls ==
  [create_user         |-> <<"POST", "/admin/users">>,
   list_users          |-> <<"GET", "/admin/users">>,
   reset_user_password |-> <<"POST", "/admin/users/reset-password">>,
   deactivate_user     |-> <<"POST", "/admin/users/{id}/deactivate">>,
   reactivate_user     |-> <<"POST", "/admin/users/{id}/reactivate">>]

EmployeeCalls ==
  [list_employees      |-> <<"GET", "/admin/employees">>,
   get_employee        |-> <<"GET", "/admin/employees/{id}">>,
   update_employee     |-> <<"PATCH", "/admin/employees/{id}">>,
   deactivate_employee |-> <<"POST", "/admin/employees/{id}/deactivate">>,
   assign_manager      |-> <<"POST", "/admin/employees/assign-manager">>]

SkillCalls ==
  [list_user_skills  |-> <<"GET", "/admin/employees/{id}/skills">>,
   add_user_skill    |-> <<"POST", "/admin/employees/{id}/skills">>,
   update_user_skill |-> <<"PATCH", "/admin/employees/{id}/skills/{skill}">>,
   remove_user_skill |-> <<"DELETE", "/admin/employees/{id}/skills/{skill}">>]

ProjectCalls ==
  [create_project          |-> <<"POST", "/admin/projects">>,
   list_projects           |-> <<"GET", "/admin/projects">>,
   get_project             |-> <<"GET", "/admin/projects/{id}">>,
   update_project          |-> <<"PATCH", "/admin/projects/{id}">>,
   list_milestones         |-> <<"GET", "/admin/projects/{id}/milestones">>,
   add_milestone           |-> <<"POST", "/admin/projects/{id}/milestones">>,
   update_milestone_status |-> <<"PATCH", "/admin/projects/{id}/milestones/{milestone}">>]

SettingCalls ==
  [list_allocations          |-> <<"GET", "/admin/allocations">>,
   get_configuration         |-> <<"GET", "/admin/config">>,
   update_llm_api_key        |-> <<"PATCH", "/admin/config/llm-api-key">>,
   update_llm_provider       |-> <<"PATCH", "/admin/config/llm-provider">>,
   update_scheduler_interval |-> <<"PATCH", "/admin/config/scheduler-interval">>,
   update_max_weekly_hours   |-> <<"PATCH", "/admin/config/max-weekly-hours">>]

ResourceCalls ==
  [get_resource_dashboard       |-> <<"GET", "/manager/resources">>,
   get_engineer_resource_detail |-> <<"GET", "/manager/resources/{id}">>,
   list_manager_projects        |-> <<"GET", "/manager/projects">>,
   get_manager_project          |-> <<"GET", "/manager/projects/{id}">>,
   list_project_allocations     |-> <<"GET", "/manager/projects/{id}/allocations">>,
   create_allocation            |-> <<"POST", "/manager/allocations">>,
   end_allocation               |-> <<"POST", "/manager/allocations/{id}/end">>]

AssistantCalls ==
  [skill_match          |-> <<"POST", "/manager/projects/{id}/skill-match">>,
   team_match           |-> <<"POST", "/manager/projects/{id}/team-match">>,
   get_risk_summary     |-> <<"GET", "/manager/projects/{id}/risk-summary">>,
   list_team_timesheets |-> <<"GET", "/manager/timesheets">>]

EngineerCalls ==
  [list_allocations_for_week |-> <<"GET", "/engineer/allocations/for-week">>,
   list_my_allocations       |-> <<"GET", "/engineer/allocations">>,
   submit_timesheet          |-> <<"POST", "/engineer/timesheets">>,
   list_my_timesheets        |-> <<"GET", "/engineer/timesheets">>,
   get_my_timesheet_detail   |-> <<"GET", "/engineer/timesheets/{week}">>]

DetailCalls ==
  [get_engineer_timesheet_detail |-> <<"GET", "/manager/timesheets/{id}">>]

Calls == SessionCalls ++ UserCalls ++ EmployeeCalls ++ SkillCalls ++ ProjectCalls
           ++ SettingCalls ++ ResourceCalls ++ AssistantCalls ++ EngineerCalls ++ DetailCalls

ASSUME CallsAssumption == Null \notin DOMAIN Calls

-----------------------------------------------------------------------------
(***************************************************************************)
(* The API: the routes of each router, and whom they let in.               *)
(***************************************************************************)

AuthRoutes ==
  { <<"POST", "/auth/login", "nobody">>,
    <<"POST", "/auth/change-password", "any">> }

AdminUserRoutes ==
  { <<"POST", "/admin/users", "user:create">>,
    <<"GET", "/admin/users", "ADMIN">>,
    <<"POST", "/admin/users/reset-password", "user:reset_password">>,
    <<"POST", "/admin/users/{id}/reactivate", "ADMIN">>,
    <<"POST", "/admin/users/{id}/deactivate", "user:deactivate">> }

AdminEmployeeRoutes ==
  { <<"POST", "/admin/employees", "engineer:manage">>,
    <<"GET", "/admin/employees", "engineer:manage">>,
    <<"POST", "/admin/employees/assign-manager", "engineer:assign_manager">>,
    <<"GET", "/admin/employees/{id}", "engineer:manage">>,
    <<"PATCH", "/admin/employees/{id}", "engineer:manage">>,
    <<"POST", "/admin/employees/{id}/deactivate", "engineer:manage">>,
    <<"GET", "/admin/employees/{id}/skills", "skill:manage_any">>,
    <<"POST", "/admin/employees/{id}/skills", "skill:manage_any">>,
    <<"PATCH", "/admin/employees/{id}/skills/{skill}", "skill:manage_any">>,
    <<"DELETE", "/admin/employees/{id}/skills/{skill}", "skill:manage_any">> }

AdminProjectRoutes ==
  { <<"POST", "/admin/projects", "ADMIN">>,
    <<"GET", "/admin/projects", "ADMIN">>,
    <<"GET", "/admin/projects/{id}", "ADMIN">>,
    <<"PATCH", "/admin/projects/{id}", "ADMIN">>,
    <<"GET", "/admin/projects/{id}/milestones", "ADMIN">>,
    <<"POST", "/admin/projects/{id}/milestones", "ADMIN">>,
    <<"PATCH", "/admin/projects/{id}/milestones/{milestone}", "ADMIN">> }

\* Mutant: the list of all allocations is for managers.
AllocationsForManagers == { <<"GET", "/admin/allocations", "MANAGER">> }

AdminAllocationRoutes == { <<"GET", "/admin/allocations", "ADMIN">> }

AdminConfigRoutes ==
  { <<"GET", "/admin/config", "ADMIN">>,
    <<"PATCH", "/admin/config/llm-api-key", "ADMIN">>,
    <<"PATCH", "/admin/config/llm-provider", "ADMIN">>,
    <<"PATCH", "/admin/config/scheduler-interval", "ADMIN">>,
    <<"PATCH", "/admin/config/max-weekly-hours", "ADMIN">> }

ManagerRoutes ==
  { <<"GET", "/manager/projects", "MANAGER">>,
    <<"GET", "/manager/projects/{id}", "MANAGER">>,
    <<"GET", "/manager/timesheets", "MANAGER">>,
    <<"GET", "/manager/timesheets/{id}", "MANAGER">>,
    <<"GET", "/manager/resources", "MANAGER">>,
    <<"GET", "/manager/resources/{id}", "MANAGER">>,
    <<"GET", "/manager/projects/{id}/allocations", "MANAGER">>,
    <<"POST", "/manager/allocations", "MANAGER">>,
    <<"POST", "/manager/allocations/{id}/end", "MANAGER">>,
    <<"POST", "/manager/projects/{id}/skill-match", "MANAGER">>,
    <<"POST", "/manager/projects/{id}/team-match", "MANAGER">>,
    <<"GET", "/manager/projects/{id}/risk-summary", "MANAGER">> }

EngineerRoutes ==
  { <<"GET", "/engineer/allocations/for-week", "ENGINEER">>,
    <<"GET", "/engineer/allocations", "ENGINEER">>,
    <<"POST", "/engineer/timesheets", "ENGINEER">>,
    <<"GET", "/engineer/timesheets", "ENGINEER">>,
    <<"GET", "/engineer/timesheets/{week}", "ENGINEER">> }

Routes == AuthRoutes \cup AdminUserRoutes \cup AdminEmployeeRoutes \cup AdminProjectRoutes
            \cup AdminAllocationRoutes \cup AdminConfigRoutes \cup ManagerRoutes \cup EngineerRoutes

\* The API has a route for the call that lets the holder of the token in.
Served(token, call) ==
  \E route \in Routes : /\ <<route[1], route[2]>> = Calls[call]
                        /\ Entitled(token, route[3])

-----------------------------------------------------------------------------
(***************************************************************************)
(* The screens.  "once" is read when a screen opens and "each" whenever it *)
(* is shown; "leads" are the screens it opens, "write" is the call that    *)
(* saves it.  A screen that "stays" is shown again after a screen that it  *)
(* opened, or after a write that failed; a write that "closes" also closes *)
(* the screen below.  Errors of the reads in "raises" are not caught and   *)
(* those of the reads in "skips" are not noticed.                          *)
(***************************************************************************)

Plain == [once |-> << >>, each |-> << >>, leads |-> {}, write |-> Null, stays |-> FALSE,
          closes |-> FALSE, raises |-> {}, skips |-> {}]

Menu(leads) == [Plain EXCEPT !.leads = leads, !.stays = TRUE]
Listing(read, leads) == [Plain EXCEPT !.each = <<read>>, !.leads = leads, !.stays = TRUE]
View(once) == [Plain EXCEPT !.once = once]
Form(once, write) == [Plain EXCEPT !.once = once, !.write = write]

SessionScreens ==
  [welcome         |-> [Plain EXCEPT !.stays = TRUE],
   change_password |-> [Plain EXCEPT !.write = "change_password", !.stays = TRUE]]

AdminMenu ==
  [ADMIN |-> Menu({"manage_employees", "manage_projects", "view_allocations", "manage_users",
                   "system_config"})]

UserScreens ==
  [manage_users    |-> Menu({"create_user", "view_all_users", "reset_password", "deactivate_user"}),
   view_all_users  |-> Listing("list_users", {"reactivate_user"}),
   reactivate_user |-> [Form(<<"list_users">>, "reactivate_user") EXCEPT !.raises = {"list_users"}],
   reset_password  |-> [Form(<<"list_users">>, "reset_user_password") EXCEPT
                          !.raises = {"list_users"}],
   deactivate_user |-> [Form(<<"list_users">>, "deactivate_user") EXCEPT !.raises = {"list_users"}]]

CreateUserScreen == [create_user |-> [Form(<< >>, "create_user") EXCEPT !.stays = TRUE]]

EmployeeScreens ==
  [manage_employees    |-> Menu({"view_all_employees", "update_employee", "deactivate_employee",
                                 "manage_skills", "assign_manager"}),
   view_all_employees  |-> Listing("list_employees", {}),
   update_employee     |-> Form(<<"get_employee">>, "update_employee"),
   deactivate_employee |-> Form(<<"get_employee", "list_allocations">>, "deactivate_employee"),
   assign_manager      |-> Form(<< >>, "assign_manager")]

SkillScreens ==
  [manage_skills |-> [Menu({"add_skill", "update_skill_proficiency", "remove_skill"}) EXCEPT
                        !.once = <<"get_employee", "list_user_skills">>],
   add_skill                |-> Form(<< >>, "add_user_skill"),
   update_skill_proficiency |-> Form(<< >>, "update_user_skill"),
   remove_skill             |-> Form(<< >>, "remove_user_skill")]

ProjectScreens ==
  [manage_projects |-> Menu({"create_project", "view_projects", "update_project",
                             "manage_milestones"}),
   create_project  |-> Form(<< >>, "create_project"),
   view_projects   |-> View(<<"list_projects">>),
   update_project  |-> Form(<<"get_project">>, "update_project")]

MilestoneScreens ==
  [manage_milestones       |-> [Listing("list_milestones",
                                        {"add_milestone", "update_milestone_status"})
                                  EXCEPT !.once = <<"get_project">>],
   add_milestone           |-> Form(<< >>, "add_milestone"),
   update_milestone_status |-> Form(<< >>, "update_milestone_status")]

AllocationsScreen == [view_allocations |-> Listing("list_allocations", {})]

ConfigScreens ==
  [system_config             |-> Listing("get_configuration",
                                         {"update_api_key", "update_provider",
                                          "update_scheduler_interval", "update_max_weekly_hours"}),
   update_api_key            |-> Form(<< >>, "update_llm_api_key"),
   update_provider           |-> Form(<< >>, "update_llm_provider"),
   update_scheduler_interval |-> Form(<< >>, "update_scheduler_interval"),
   update_max_weekly_hours   |-> Form(<< >>, "update_max_weekly_hours")]

ManagerMenu ==
  [MANAGER |-> Menu({"resource_dashboard", "allocate_resource", "my_projects",
                     "team_timesheets", "ai_assistant"})]

DashboardScreens ==
  [resource_dashboard |-> Listing("get_resource_dashboard", {"engineer_detail"}),
   engineer_detail    |-> View(<<"get_engineer_resource_detail">>)]

MatchScreens ==
  [allocate_resource  |-> Menu({"ai_allocate", "direct_allocate", "end_allocation"}),
   ai_allocate        |-> [View(<<"list_manager_projects", "skill_match">>) EXCEPT
                             !.leads = {"allocate_match"}, !.stays = TRUE],
   allocate_match     |-> [Form(<< >>, "create_allocation") EXCEPT !.closes = TRUE]]

DirectScreens ==
  [direct_allocate |-> [Form(<<"list_manager_projects", "get_engineer_resource_detail">>,
                             "create_allocation") EXCEPT
                          !.skips = {"get_engineer_resource_detail"}],
   end_allocation  |-> Form(<<"list_manager_projects", "list_project_allocations">>,
                            "end_allocation")]

MyProjectScreens ==
  [my_projects    |-> Listing("list_manager_projects", {"project_detail"}),
   project_detail |-> [Menu({"project_risk"}) EXCEPT !.once = <<"get_manager_project">>],
   project_risk   |-> View(<<"get_risk_summary">>)]

TeamTimesheetScreens ==
  [team_timesheets |-> Listing("list_team_timesheets", {"employee_timesheet"}),
   employee_timesheet |-> View(<<"get_engineer_timesheet_detail">>)]

AssistantScreens ==
  [ai_assistant |-> Menu({"skill_match", "team_builder", "risk_summary"}),
   skill_match  |-> [View(<<"list_manager_projects", "skill_match">>) EXCEPT
                       !.leads = {"allocate_resource"}],
   risk_summary |-> View(<<"list_manager_projects", "get_risk_summary">>)]

\* Mutant: the assistant is opened again instead of returning to it.
TeamBuilderAndBack ==
  [team_builder |-> [View(<<"list_manager_projects", "team_match">>) EXCEPT
                       !.leads = {"allocate_resource", "ai_assistant"}]]

TeamBuilderScreen ==
  [team_builder |-> [View(<<"list_manager_projects", "team_match">>) EXCEPT
                       !.leads = {"allocate_resource"}]]

\* The reminder is left out if it cannot be read.
EngineerMenu ==
  [ENGINEER |-> [Menu({"submit_timesheet", "my_timesheets", "my_allocations"}) EXCEPT
                   !.each = <<"list_my_timesheets", "list_allocations_for_week">>,
                   !.skips = {"list_my_timesheets", "list_allocations_for_week"}]]

SubmitScreen == [submit_timesheet |-> Form(<<"list_allocations_for_week">>, "submit_timesheet")]

MyTimesheetScreens ==
  [my_timesheets |-> Listing("list_my_timesheets", {"week_detail"}),
   week_detail   |-> View(<<"get_my_timesheet_detail">>)]

MyAllocationsScreen == [my_allocations |-> View(<<"list_my_allocations">>)]

AdminScreens ==
  AdminMenu ++ UserScreens ++ CreateUserScreen ++ EmployeeScreens ++ SkillScreens
    ++ ProjectScreens ++ MilestoneScreens ++ AllocationsScreen ++ ConfigScreens

ManagerScreens ==
  ManagerMenu ++ DashboardScreens ++ MatchScreens ++ DirectScreens ++ MyProjectScreens
    ++ TeamTimesheetScreens ++ AssistantScreens ++ TeamBuilderScreen

EngineerScreens == EngineerMenu ++ SubmitScreen ++ MyTimesheetScreens ++ MyAllocationsScreen

Screens == SessionScreens ++ AdminScreens ++ ManagerScreens ++ EngineerScreens

-----------------------------------------------------------------------------
(***************************************************************************)
(* A console.  It waits for the answer of a write for a while only; a      *)
(* request it has given up on goes on beside what is entered next, by      *)
(* whoever then logs in.                                                   *)
(***************************************************************************)

\* A screen, how many of its reads are done, and the skills of an employee that it lists.
Frame(screen) == [screen |-> screen, done |-> 0, user |-> Null, rows |-> << >>]

Top(k) == stack[k][Len(stack[k])]
Shown(k) == Screens[Top(k).screen]
Reads(screen) == screen.once \o screen.each

\* The last screen that stays, when the top screen ends.
Below(frames) ==
  LET depth == CHOOSE d \in 1 .. Len(frames) - 1 :
                 /\ Screens[frames[d].screen].stays
                 /\ \A e \in d + 1 .. Len(frames) - 1 : ~Screens[frames[e].screen].stays
  IN [SubSeq(frames, 1, depth) EXCEPT ![depth].done = Len(Screens[frames[depth].screen].once)]

\* Mutant: the role is looked at before the forced change of the password.
MainScreenOfRole(token) == IF token = Null THEN "welcome" ELSE token.role

MainScreen(token) == CASE token = Null -> "welcome"
                       [] token # Null /\ token.forced -> "change_password"
                       [] OTHER -> token.role

Waiting(k) == reply[k] = "wait"
Reading(k) == stack[k] # << >> /\ Top(k).done < Len(Reads(Shown(k)))
AtPrompt(k) == stack[k] # << >> /\ Top(k).done = Len(Reads(Shown(k))) /\ reply[k] = "none"

\* The console starts when the API is healthy.
Start(k) ==
  /\ stack[k] = << >> /\ ~Waiting(k)
  /\ stack' = [stack EXCEPT ![k] = <<Frame("welcome")>>]
  /\ reply' = [reply EXCEPT ![k] = "none"]
  /\ UNCHANGED <<users, skills, assigned, session, requests, now, lastActive, writes>>

EnterLogin(k) ==
  /\ AtPrompt(k)
  /\ Top(k).screen = "welcome"
  /\ \E u \in Users, password \in {"own", "temporary"} : Login(k, u, password)
  /\ stack' = [stack EXCEPT ![k] = <<Frame(MainScreen(session'[k]))>>]

\* The answer of the next call is shown; an employee is chosen for the list of skills.
Read(k) ==
  /\ Reading(k)
  /\ LET call == Reads(Shown(k))[Top(k).done + 1]
     IN /\ Authenticated(k) /\ Served(session[k], call)
        /\ \/ /\ call # "list_user_skills"
              /\ stack' = [stack EXCEPT ![k][Len(stack[k])].done = @ + 1]
           \/ /\ call = "list_user_skills"
              /\ \E u \in Users :
                   /\ Role[u] = "ENGINEER" /\ Active(u)
                   /\ stack' = [stack EXCEPT ![k][Len(stack[k])] =
                        [Top(k) EXCEPT !.done = @ + 1, !.user = u, !.rows = ListForUser(u)]]
  /\ UNCHANGED accountVars

\* It failed, whatever the reason: the console returns, goes on without it, or dies.
ReadFails(k) ==
  /\ Reading(k)
  /\ LET call == Reads(Shown(k))[Top(k).done + 1]
     IN /\ stack' = [stack EXCEPT ![k] =
             CASE call \in Shown(k).raises -> << >>
               [] call \in Shown(k).skips \ Shown(k).raises ->
                    [@ EXCEPT ![Len(@)].done = Len(Reads(Shown(k)))]
               [] OTHER -> IF Len(@) = 1 THEN @ ELSE Below(@)]
        /\ session' = IF call \in Shown(k).raises THEN [session EXCEPT ![k] = Null] ELSE session
  /\ UNCHANGED <<users, skills, assigned, requests, reply, now, lastActive, writes>>

Open(k) ==
  /\ AtPrompt(k)
  /\ \E screen \in Shown(k).leads : stack' = [stack EXCEPT ![k] = Append(@, Frame(screen))]
  /\ UNCHANGED accountVars

\* B, or an input that is not valid.
Back(k) ==
  /\ AtPrompt(k)
  /\ Len(stack[k]) > 1
  /\ stack' = [stack EXCEPT ![k] = Below(@)]
  /\ UNCHANGED accountVars

Leave(k, frames) ==
  /\ AtPrompt(k)
  /\ stack' = [stack EXCEPT ![k] = frames]
  /\ session' = [session EXCEPT ![k] = Null]
  /\ UNCHANGED <<users, skills, assigned, requests, reply, now, lastActive, writes>>

Logout(k) == /\ AtPrompt(k)
             /\ Len(stack[k]) = 1 /\ Top(k).screen \notin {"welcome", "change_password"}
             /\ Leave(k, <<Frame("welcome")>>)

\* Exit, or the end of the input at any prompt.
Quit(k) == Leave(k, << >>)

\* The list that the screen was opened from.
List(k) == stack[k][Len(stack[k]) - 1]

\* Mutant: the number is looked up in the list as it is by now.
PickedRowNow(k, n) ==
  LET rows == ListForUser(List(k).user)
  IN IF n \in DOMAIN rows THEN rows[n] ELSE List(k).rows[n]

PickedRow(k, n) == List(k).rows[n]

\* The writes of accounts and skills are sent with what the user entered.
SaveAccount(k) ==
  /\ AtPrompt(k)
  /\ LET write == Shown(k).write
     IN \/ write = "change_password" /\ ChangePassword(k)
        \/ write = "create_user" /\ \E u \in Users, name \in Names : CreateUser(k, u, name)
        \/ write = "reset_user_password" /\ \E u \in Users : ResetPassword(k, u)
        \/ write = "reactivate_user" /\ \E u \in Users : ReactivateUser(k, u)
        \/ write = "deactivate_user" /\ \E u \in Users : DeactivateUser(k, u)
        \/ write = "deactivate_employee" /\ \E u \in Users : DeactivateEmployee(k, u)
        \/ /\ write = "add_user_skill"
           /\ \E skill \in SkillNames, level \in Levels : AddSkill(k, List(k).user, skill, level)
        \/ /\ write = "update_user_skill"
           /\ \E n \in DOMAIN List(k).rows, level \in Levels :
                UpdateProficiency(k, PickedRow(k, n), List(k).rows[n].skill, level)
        \/ /\ write = "remove_user_skill"
           /\ \E n \in DOMAIN List(k).rows : RemoveSkill(k, PickedRow(k, n), List(k).rows[n].skill)
  /\ UNCHANGED stack

AccountWrites == {"change_password", "create_user", "reset_user_password", "reactivate_user",
                  "deactivate_user", "deactivate_employee", "add_user_skill", "update_user_skill",
                  "remove_user_skill"}

\* A write that another module describes succeeded.
SaveOther(k) ==
  /\ AtPrompt(k)
  /\ Shown(k).write \notin AccountWrites \cup {Null}
  /\ Authenticated(k) /\ Served(session[k], Shown(k).write)
  /\ stack' = [stack EXCEPT ![k] =
       Below(IF Shown(k).closes THEN SubSeq(@, 1, Len(@) - 1) ELSE @)]
  /\ UNCHANGED accountVars

AfterError(k, frames) == IF Shown(k).stays THEN frames ELSE Below(frames)

\* Any write may be rejected.
SaveFails(k) ==
  /\ AtPrompt(k)
  /\ Shown(k).write # Null
  /\ stack' = [stack EXCEPT ![k] = AfterError(k, @)]
  /\ UNCHANGED accountVars

\* The answer of a write: the new token decides on the main screen, and a changed skill
\* is followed by a new list, unless that cannot be read.
Hear(k) ==
  /\ stack[k] # << >>
  /\ reply[k] \in {"ok", "error"}
  /\ reply' = [reply EXCEPT ![k] = "none"]
  /\ LET frames == CASE reply[k] = "error" -> AfterError(k, stack[k])
                     [] reply[k] = "ok" /\ Shown(k).write = "change_password" ->
                          <<Frame(MainScreen(session[k]))>>
                     [] OTHER -> Below(stack[k])
     IN \/ stack' = [stack EXCEPT ![k] = frames]
        \/ /\ reply[k] = "ok" /\ Shown(k).write \in DOMAIN SkillCalls
           /\ stack' = [stack EXCEPT ![k] =
                [frames EXCEPT ![Len(frames)].rows = ListForUser(List(k).user)]]
  /\ UNCHANGED <<users, skills, assigned, session, requests, now, lastActive, writes>>

Init ==
  /\ AccountsInit
  /\ stack = [k \in Clients |-> << >>]

Next ==
  \/ \E k \in Clients :
       \/ Start(k) \/ EnterLogin(k) \/ Read(k) \/ ReadFails(k) \/ Open(k) \/ Back(k)
       \/ Logout(k) \/ Quit(k) \/ SaveAccount(k) \/ SaveOther(k) \/ SaveFails(k) \/ Hear(k)
  \/ \E i \in Slots : (Serve(i) \/ GiveUp(i)) /\ UNCHANGED stack
  \/ HourPasses /\ UNCHANGED stack

Spec == Init /\ [][Next]_vars

-----------------------------------------------------------------------------
(***************************************************************************)
(* Properties.                                                             *)
(***************************************************************************)

\* The variables have values of their types; screens are nested six deep at most,
\* those that lead to each other included.
TypeOK ==
  /\ \A u \in Users : users[u] \in Account \cup {Null}
  /\ skills \subseteq SkillNames
  /\ assigned \subseteq [id : 1 .. Cardinality(Assigned) + MaxWrites, user : Users,
                          skill : SkillNames, level : Levels]
  /\ \A k \in Clients : /\ reply[k] \in {"none", "wait", "ok", "error"}
                         /\ session[k] # Null => session[k].expires <= now + TokenHours
  /\ now \in 0 .. MaxHours /\ writes \in 0 .. MaxWrites
  /\ \A k \in Clients :
       /\ Len(stack[k]) <= 6
       /\ \A d \in DOMAIN stack[k] : /\ stack[k][d].screen \in DOMAIN Screens
                                     /\ stack[k][d].done \in 0 .. 2

\* A console shows a menu only to the role of its token, and none before a forced change
\* of the password, however it came by the token.
MenusNeedOwnPassword ==
  \A k \in Clients :
    (stack[k] # << >> /\ stack[k][1].screen \notin {"welcome", "change_password"}) =>
      /\ session[k] # Null /\ ~session[k].forced
      /\ session[k].role = stack[k][1].screen

\* Every call that a screen makes has a route, and one that lets in the role whose menu
\* leads there: calls fail for what they ask, never for who asks.
CallsAreServed ==
  \A k \in Clients :
    (stack[k] # << >> /\ Top(k).screen # "welcome") =>
      \A call \in {Reads(Shown(k))[n] : n \in DOMAIN Reads(Shown(k))} \cup {Shown(k).write} :
        call # Null => Served(session[k], call)

\* A skill that is changed or removed is the one that stood beside the number the admin
\* entered, whatever others changed since the list was shown.
PickedIsChanged ==
  [][\A row \in assigned \ assigned' :
       \E i \in Slots : /\ Underway(i, "level") \/ Underway(i, "remove")
                        /\ requests[i].id = row.id /\ requests[i].seen = row.skill]_vars
=============================================================================
