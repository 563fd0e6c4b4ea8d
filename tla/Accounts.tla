------------------------------ MODULE Accounts ------------------------------
(***************************************************************************)
(* The API side of accounts: logins and tokens, passwords, the creation    *)
(* and the status of accounts, and the skills of employees.  A request     *)
(* that writes reads the row first and writes and commits later; two may   *)
(* be under way, and the client of one may have given up waiting.  A row   *)
(* is written by the columns whose value is not the one that was read.     *)
(* Tokens carry claims that are not compared with the table again.         *)
(***************************************************************************)
EXTENDS Integers, Sequences, FiniteSets

CONSTANTS
  Clients,            \* those who hold a session
  Role,               \* the role of each user, by id
  Names,              \* the usernames: those of the users at the start, and others
  Existing, Fresh,    \* bound: users at the start, and those who never logged in
  SkillNames, Levels,
  Catalogue,          \* the names in skills at the start
  Assigned,           \* the rows of user_skills at the start
  TokenHours,         \* JWT_EXPIRE_MINUTES, in hours
  Slots,              \* bound: the requests under way
  MaxWrites,          \* bound: the number of writing requests
  MaxHours,           \* bound: the hours that pass
  Null                \* None

ASSUME RoleAssumption == Role \in Seq({"ADMIN", "MANAGER", "ENGINEER"})
ASSUME ExistingAssumption ==
  /\ Len(Existing) <= Len(Role)
  /\ \A u \in DOMAIN Existing : Existing[u] \in Names
  /\ \A u, v \in DOMAIN Existing : Existing[u] = Existing[v] => u = v
\* The rows are numbered, and a skill is assigned once.
ASSUME AssignedAssumption ==
  /\ IsFiniteSet(Assigned) /\ Catalogue \subseteq SkillNames
  /\ Assigned \subseteq [id : 1 .. Cardinality(Assigned), user : DOMAIN Role, skill : Catalogue,
                          level : Levels]
  /\ \A row, other \in Assigned :
       row.id = other.id \/ (row.user = other.user /\ row.skill = other.skill) => row = other
ASSUME SlotsAssumption == IsFiniteSet(Slots) /\ Slots # {}
ASSUME HoursAssumption == TokenHours \in Nat \ {0} /\ MaxHours \in Nat /\ MaxWrites \in Nat

VARIABLES
  users,              \* the row of each user, or Null
  skills,             \* the names in the catalogue
  assigned,           \* user_skills
  session,            \* the claims of the token that each client holds, or Null
  requests,           \* the writing requests under way
  reply,              \* what each client knows of its last writing request
  now,
  lastActive,         \* history: when each account was last active
  writes              \* counts writing requests, for the bound and for ids

Users == DOMAIN Role

\* A row of users.
Account == [name : Names, active : BOOLEAN, password : {"own", "temporary"}, forced : BOOLEAN]

ASSUME NullAssumption ==
  /\ Null \notin Account
  /\ Null \notin [user : Users, role : {"ADMIN", "MANAGER", "ENGINEER"},
                 forced : BOOLEAN, expires : Int]

accountVars == <<users, skills, assigned, session, requests, reply, now, lastActive, writes>>

-----------------------------------------------------------------------------
(***************************************************************************)
(* Who may do what.                                                        *)
(***************************************************************************)

Permissions ==
  [ENGINEER |-> {"timesheet:submit", "timesheet:view_own", "allocation:view_own"},
   MANAGER  |-> {"resource:search_ai", "allocation:create", "allocation:end",
                 "project:health_view", "timesheet:view_team", "llm:skill_match",
                 "llm:risk_summary", "resource:view_dashboard"},
   ADMIN    |-> {"user:create", "user:deactivate", "user:reset_password", "engineer:manage",
                 "engineer:assign_manager", "skill:manage_any", "project:create",
                 "milestone:manage", "allocation:view_all", "config:manage", "role:manage"}]

Exists(u) == users[u] # Null
Active(u) == Exists(u) /\ users[u].active

Token(u, forced) ==
  [user |-> u, role |-> Role[u], forced |-> forced, expires |-> now + TokenHours]

Authenticated(k) == session[k] # Null /\ now < session[k].expires

\* require_admin, require_manager and require_engineer look at the claims,
\* require_permission at the role in the table.
Entitled(token, guard) ==
  guard \in {"any", token.role} \cup Permissions[Role[token.user]]

May(k, guard) == /\ Authenticated(k)
                 /\ Entitled(session[k], guard)

-----------------------------------------------------------------------------
(***************************************************************************)
(* Logging in, and requests.                                               *)
(***************************************************************************)

Login(k, u, password) ==
  /\ reply[k] # "wait"
  /\ Exists(u) /\ users[u].password = password
  /\ Active(u)
  /\ session' = [session EXCEPT ![k] = Token(u, users[u].forced)]
  /\ UNCHANGED <<users, skills, assigned, requests, reply, now, lastActive, writes>>

Sent(k, request) ==
  [f \in DOMAIN request \cup {"client", "waited"} |->
     CASE f = "client" -> k [] f = "waited" -> TRUE [] OTHER -> request[f]]

\* Client k sends a request that has read what it needs.
Send(k, request) ==
  /\ reply[k] # "wait"
  /\ writes < MaxWrites
  /\ writes' = writes + 1
  /\ \E i \in Slots : /\ requests[i] = Null
                      /\ \A j \in Slots : j < i => requests[j] # Null
                      /\ requests' = [requests EXCEPT ![i] = Sent(k, request)]
  /\ reply' = [reply EXCEPT ![k] = "wait"]
  /\ UNCHANGED <<users, skills, assigned, session, now, lastActive>>

Underway(i, op) == requests[i] # Null /\ requests[i].op = op

\* Request i is over; its client hears of it if it still waits.
Finish(i, answer) ==
  /\ requests' = [requests EXCEPT ![i] = Null]
  /\ reply' = [reply EXCEPT ![requests[i].client] = IF requests[i].waited THEN answer ELSE @]

\* The client has waited for 30 seconds; the request goes on.
GiveUp(i) ==
  /\ requests[i] # Null /\ requests[i].waited
  /\ requests' = [requests EXCEPT ![i].waited = FALSE]
  /\ reply' = [reply EXCEPT ![requests[i].client] = "error"]
  /\ UNCHANGED <<users, skills, assigned, session, now, lastActive, writes>>

\* Requests take less than an hour.
HourPasses ==
  /\ now < MaxHours
  /\ \A i \in Slots : requests[i] = Null
  /\ now' = now + 1
  /\ lastActive' = [u \in Users |-> IF Active(u) THEN now' ELSE lastActive[u]]
  /\ UNCHANGED <<users, skills, assigned, session, requests, reply, writes>>

-----------------------------------------------------------------------------
(***************************************************************************)
(* Passwords.                                                              *)
(***************************************************************************)

PasswordRequest(u, password, forced) ==
  [op |-> "password", user |-> u, password |-> password, forced |-> forced,
   old |-> users[u].forced]

\* Mutant: nobody looks at the status of the account.
ChangePasswordOfAny(k) ==
  /\ Authenticated(k)
  /\ Exists(session[k].user)
  /\ Send(k, PasswordRequest(session[k].user, "own", FALSE))

ChangePassword(k) ==
  /\ Authenticated(k)
  /\ Active(session[k].user)
  /\ Send(k, PasswordRequest(session[k].user, "own", FALSE))

ResetPassword(k, u) ==
  /\ May(k, "user:reset_password")
  /\ Exists(u)
  /\ Send(k, PasswordRequest(u, "temporary", TRUE))

\* A user who changed the password gets a new token.
WritePassword(i) ==
  /\ Underway(i, "password")
  /\ LET r == requests[i]
     IN /\ users' = [users EXCEPT ![r.user].password = r.password,
                                  ![r.user].forced = IF r.forced = r.old THEN @ ELSE r.forced]
        /\ session' = IF r.forced \/ ~r.waited THEN session
                      ELSE [session EXCEPT ![r.client] = Token(r.user, FALSE)]
  /\ Finish(i, "ok")
  /\ UNCHANGED <<skills, assigned, now, lastActive, writes>>

-----------------------------------------------------------------------------
(***************************************************************************)
(* Accounts.                                                               *)
(***************************************************************************)

Taken(name) == \E u \in Users : Exists(u) /\ users[u].name = name

\* The id that the table gives next.
NextId == CHOOSE u \in 1 .. Len(Role) + 1 :
  /\ u \notin Users \/ (~Exists(u) /\ \A i \in Slots : Underway(i, "create") => requests[i].user # u)
  /\ \A v \in 1 .. u - 1 :
       Exists(v) \/ \E i \in Slots : Underway(i, "create") /\ requests[i].user = v

\* The name is looked up; the id is the next one.
CreateUser(k, u, name) ==
  /\ May(k, "user:create")
  /\ u = NextId
  /\ ~Taken(name)
  /\ Send(k, [op |-> "create", user |-> u, name |-> name])

\* Mutant: the table has no unique constraint.
InsertUserAnyway(i) ==
  /\ Underway(i, "create")
  /\ users' = [users EXCEPT ![requests[i].user] =
       [name |-> requests[i].name, active |-> TRUE, password |-> "temporary", forced |-> TRUE]]
  /\ lastActive' = [lastActive EXCEPT ![requests[i].user] = now]
  /\ Finish(i, "ok")
  /\ UNCHANGED <<skills, assigned, session, now, writes>>

\* The unique constraint rejects the second of two requests with one name.
InsertUser(i) ==
  /\ Underway(i, "create")
  /\ LET r == requests[i]
     IN IF Taken(r.name)
        THEN Finish(i, "error") /\ UNCHANGED <<users, lastActive>>
        ELSE /\ users' = [users EXCEPT ![r.user] = [name |-> r.name, active |-> TRUE,
                                                    password |-> "temporary", forced |-> TRUE]]
             /\ lastActive' = [lastActive EXCEPT ![r.user] = now]
             /\ Finish(i, "ok")
  /\ UNCHANGED <<skills, assigned, session, now, writes>>

ReactivateUser(k, u) ==
  /\ May(k, "ADMIN")
  /\ Exists(u) /\ ~Active(u)
  /\ Send(k, [op |-> "status", user |-> u, active |-> TRUE])

DeactivateUser(k, u) ==
  /\ May(k, "user:deactivate")
  /\ u # session[k].user
  /\ Active(u)
  /\ Send(k, [op |-> "status", user |-> u, active |-> FALSE])

\* The route of employees, which also ends their allocations.
DeactivateEmployee(k, u) ==
  /\ May(k, "engineer:manage")
  /\ Role[u] = "ENGINEER"
  /\ Active(u)
  /\ Send(k, [op |-> "status", user |-> u, active |-> FALSE])

WriteStatus(i) ==
  /\ Underway(i, "status")
  /\ users' = [users EXCEPT ![requests[i].user].active = requests[i].active]
  /\ lastActive' = IF users[requests[i].user].active \/ requests[i].active
                   THEN [lastActive EXCEPT ![requests[i].user] = now]
                   ELSE lastActive
  /\ Finish(i, "ok")
  /\ UNCHANGED <<skills, assigned, session, now, writes>>

-----------------------------------------------------------------------------
(***************************************************************************)
(* Skills of employees.                                                    *)
(***************************************************************************)

Has(u, skill) == \E row \in assigned : row.user = u /\ row.skill = skill

\* The rows of a user in the order of the ids.
ListForUser(u) ==
  LET rows == {row \in assigned : row.user = u}
  IN [n \in 1 .. Cardinality(rows) |->
        CHOOSE row \in rows : Cardinality({other \in rows : other.id <= row.id}) = n]

\* Mutant: nobody looks whether the user has the skill.
AddSkillAgain(k, u, skill, level) ==
  /\ May(k, "skill:manage_any")
  /\ Active(u)
  /\ Send(k, [op |-> "add", user |-> u, skill |-> skill, level |-> level,
              known |-> skill \in skills, id |-> Cardinality(Assigned) + writes + 1])

AddSkill(k, u, skill, level) ==
  /\ May(k, "skill:manage_any")
  /\ Active(u)
  /\ ~Has(u, skill)
  /\ Send(k, [op |-> "add", user |-> u, skill |-> skill, level |-> level,
              known |-> skill \in skills, id |-> Cardinality(Assigned) + writes + 1])

\* A skill that is new is added to the catalogue in the same transaction, and the
\* catalogue rejects a name that came in meanwhile.  Nothing rejects a second row of a
\* user and a skill: user_skill.py:30 declares uq_user_skill, but no migration creates
\* it, and 003 drops the column of uq_employee_skill and the constraint with it.
InsertSkill(i) ==
  /\ Underway(i, "add")
  /\ LET r == requests[i]
     IN IF ~r.known /\ r.skill \in skills
        THEN Finish(i, "error") /\ UNCHANGED <<skills, assigned>>
        ELSE /\ skills' = skills \cup {r.skill}
             /\ assigned' = assigned \cup
                  {[id |-> r.id, user |-> r.user, skill |-> r.skill, level |-> r.level]}
             /\ Finish(i, "ok")
  /\ UNCHANGED <<users, session, now, lastActive, writes>>

\* The row that the client chose, under the name that it was shown with.
UpdateProficiency(k, row, seen, level) ==
  /\ May(k, "skill:manage_any")
  /\ Active(row.user) /\ \E other \in assigned : other.id = row.id
  /\ Send(k, [op |-> "level", id |-> row.id, seen |-> seen, level |-> level])

RemoveSkill(k, row, seen) ==
  /\ May(k, "skill:manage_any")
  /\ Active(row.user) /\ \E other \in assigned : other.id = row.id
  /\ Send(k, [op |-> "remove", id |-> row.id, seen |-> seen])

\* A row that was removed in the meantime cannot be written; deleting it once more may go
\* unnoticed.
WriteSkill(i) ==
  /\ \/ Underway(i, "level")
     \/ Underway(i, "remove")
  /\ LET r == requests[i]
         rows == {row \in assigned : row.id = r.id}
     IN /\ assigned' = (assigned \ rows) \cup
             (IF r.op = "remove" THEN {} ELSE {[row EXCEPT !.level = r.level] : row \in rows})
        /\ \E answer \in {"ok", "error"} :
             /\ rows # {} => answer = "ok"
             /\ rows = {} /\ r.op = "level" => answer = "error"
             /\ Finish(i, answer)
  /\ UNCHANGED <<users, skills, session, now, lastActive, writes>>

-----------------------------------------------------------------------------
AccountsInit ==
  /\ users = [u \in Users |->
       IF u \notin DOMAIN Existing THEN Null
       ELSE [name |-> Existing[u], active |-> TRUE, forced |-> u \in Fresh,
             password |-> IF u \in Fresh THEN "temporary" ELSE "own"]]
  /\ skills = Catalogue /\ assigned = Assigned
  /\ session = [k \in Clients |-> Null]
  /\ requests = [i \in Slots |-> Null]
  /\ reply = [k \in Clients |-> "none"]
  /\ now = 0 /\ writes = 0
  /\ lastActive = [u \in Users |-> 0]

Serve(i) == WritePassword(i) \/ InsertUser(i) \/ WriteStatus(i) \/ InsertSkill(i) \/ WriteSkill(i)

-----------------------------------------------------------------------------
(***************************************************************************)
(* Properties.                                                             *)
(***************************************************************************)

\* Deactivation takes effect at the latest when the tokens of the account expire:
\* whoever still holds one that is accepted had an active account less than the life
\* of a token ago, renewals through a change of the password included.
DeactivationBites ==
  \A k \in Clients : Authenticated(k) => now < lastActive[session[k].user] + TokenHours

\* No two accounts have one username, whichever requests looked it up at the same
\* time or were sent again after a timeout.
OneAccountPerName ==
  \A u, v \in Users : (Exists(u) /\ Exists(v) /\ users[u].name = users[v].name) => u = v

\* No employee has one skill more often than requests can be under way at once, so that
\* only requests that overlap, or are sent again while they run, give it twice; and every
\* skill that is assigned is catalogued.
SkillsBounded ==
  \A row \in assigned :
    /\ row.skill \in skills
    /\ Cardinality({other \in assigned : other.user = row.user /\ other.skill = row.skill})
         <= Cardinality(Slots)

\* Not checked, since the code breaks it: no employee has one skill twice.  The model of
\* the table declares it (user_skill.py:30), add_skill refuses a skill that the employee
\* has, and the migrations drop the constraint with the column it was on.
SkillOnce ==
  \A row, other \in assigned : (row.user = other.user /\ row.skill = other.skill) => row = other

\* console/screens/admin/manage_users.py:160: after a reset the user is prompted to
\* change the password at the next login.
TemporaryIsForced ==
  \A u \in Users : (Exists(u) /\ users[u].password = "temporary") => users[u].forced
=============================================================================
