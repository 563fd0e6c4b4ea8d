--------------------------- MODULE Console_proofs ---------------------------
(***************************************************************************)
(* What holds of accounts, tokens, skills and screens for every number of  *)
(* consoles, requests under way and users: first of the accounts, whatever *)
(* the screens show; then of the tables; then of the stacks of screens.    *)
(***************************************************************************)
EXTENDS Console, TLAPS, FiniteSetTheorems, WellFoundedInduction

-----------------------------------------------------------------------------
(***************************************************************************)
(* The inductive invariant.                                                *)
(***************************************************************************)

\* An account that is active now was active until now.
UsersOK ==
  /\ users \in [Users -> Account \cup {Null}]
  /\ now \in Nat
  /\ lastActive \in [Users -> Nat]
  /\ \A u \in Users : lastActive[u] <= now /\ (Active(u) => lastActive[u] = now)

SessionsOK ==
  /\ session = [k \in Clients |-> session[k]]
  /\ \A k \in Clients : session[k] # Null =>
       /\ session[k].user \in Users
       /\ session[k].expires \in Nat
       /\ session[k].expires <= lastActive[session[k].user] + TokenHours

\* The fields of a request, and what was checked of them before it was sent.
Fields(op) ==
  {"op", "client", "waited"} \cup
  CASE op = "password" -> {"user", "password", "forced", "old"}
    [] op = "create"   -> {"user", "name"}
    [] op = "status"   -> {"user", "active"}
    [] op = "add"      -> {"user", "skill", "level", "known", "id"}
    [] op = "level"    -> {"id", "seen", "level"}
    [] OTHER           -> {"id", "seen"}

\* Whoever changes the password himself had an active account, and no hour has passed
\* since.
RequestOK(r) ==
  /\ Fields(r.op) \subseteq DOMAIN r
  /\ r.client \in Clients
  /\ r.op = "password" => /\ r.user \in Users /\ Exists(r.user)
                          /\ r.password \in {"own", "temporary"} /\ r.forced \in BOOLEAN
                          /\ r.forced = FALSE => lastActive[r.user] = now
  /\ r.op = "create" => r.user \in Users /\ r.name \in Names
  /\ r.op = "status" => r.user \in Users /\ Exists(r.user) /\ r.active \in BOOLEAN

RequestsOK ==
  /\ requests = [i \in Slots |-> requests[i]]
  /\ \A i \in Slots : requests[i] # Null => RequestOK(requests[i])

SkillsOK ==
  \A row \in assigned : /\ row = [f \in {"id", "user", "skill", "level"} |-> row[f]]
                        /\ row.skill \in skills

Inv == UsersOK /\ SessionsOK /\ RequestsOK /\ OneAccountPerName /\ SkillsOK

LEMMA InvInit == Init => Inv
<1> SUFFICES ASSUME Init PROVE Inv
  OBVIOUS
<1>1. users \in [Users -> Account \cup {Null}]
  BY ExistingAssumption DEF Init, AccountsInit, Account
<1>2. UsersOK
  BY <1>1, HoursAssumption DEF Init, AccountsInit, UsersOK
<1>3. SessionsOK /\ RequestsOK
  BY DEF Init, AccountsInit, SessionsOK, RequestsOK
<1>4. OneAccountPerName
  <2>1. \A u \in Users : Exists(u) => u \in DOMAIN Existing /\ users[u].name = Existing[u]
    BY DEF Init, AccountsInit, Exists
  <2> QED
    BY <2>1, ExistingAssumption DEF OneAccountPerName
<1>5. SkillsOK
  BY AssignedAssumption DEF Init, AccountsInit, SkillsOK
<1> QED
  BY <1>2, <1>3, <1>4, <1>5 DEF Inv

-----------------------------------------------------------------------------
(***************************************************************************)
(* The steps.                                                              *)
(***************************************************************************)

\* A step of a console that sends nothing: the token may be dropped.
Quiet == /\ UNCHANGED <<users, skills, assigned, requests, now, lastActive>>
         /\ \/ UNCHANGED session
            \/ \E k \in Clients : session' = [session EXCEPT ![k] = Null]

LEMMA QuietKeeps ==
  ASSUME Inv, Quiet
  PROVE  Inv'
<1>1. UsersOK' /\ OneAccountPerName' /\ SkillsOK'
  BY DEF Inv, Quiet, UsersOK, OneAccountPerName, SkillsOK, Active, Exists
<1>2. RequestsOK'
  BY DEF Inv, Quiet, RequestsOK, RequestOK, Exists
<1>3. SessionsOK'
  BY DEF Inv, Quiet, SessionsOK
<1> QED
  BY <1>1, <1>2, <1>3 DEF Inv

LEMMA LoginKeeps ==
  ASSUME Inv, NEW k \in Clients, NEW u \in Users, NEW password, Login(k, u, password)
  PROVE  Inv'
<1>1. UsersOK' /\ OneAccountPerName' /\ SkillsOK'
  BY DEF Inv, Login, UsersOK, OneAccountPerName, SkillsOK, Active, Exists
<1>2. RequestsOK'
  BY DEF Inv, Login, RequestsOK, RequestOK, Exists
<1>3. SessionsOK'
  <2>1. /\ session' = [session EXCEPT ![k] = Token(u, users[u].forced)]
        /\ lastActive' = lastActive /\ lastActive[u] = now
    BY DEF Inv, Login, UsersOK
  <2>2. /\ Token(u, users[u].forced).user = u
        /\ Token(u, users[u].forced).expires = now + TokenHours
    BY DEF Token
  <2> QED
    BY <2>1, <2>2, HoursAssumption DEF Inv, SessionsOK, UsersOK
<1> QED
  BY <1>1, <1>2, <1>3 DEF Inv

LEMMA SendKeeps ==
  ASSUME Inv, NEW k \in Clients, NEW request, Send(k, request), RequestOK(Sent(k, request))
  PROVE  Inv'
<1>1. UsersOK' /\ OneAccountPerName' /\ SkillsOK' /\ SessionsOK'
  BY DEF Inv, Send, UsersOK, OneAccountPerName, SkillsOK, SessionsOK, Active, Exists
<1>2. PICK i \in Slots : requests' = [requests EXCEPT ![i] = Sent(k, request)]
  BY DEF Send
<1>3. RequestsOK'
  BY <1>2 DEF Inv, Send, RequestsOK, RequestOK, Exists
<1> QED
  BY <1>1, <1>3 DEF Inv

LEMMA SaveAccountKeeps ==
  ASSUME Inv, NEW k \in Clients, SaveAccount(k)
  PROVE  Inv'
<1>1. CASE ChangePassword(k)
  <2> DEFINE u == session[k].user
             request == PasswordRequest(u, "own", FALSE)
  <2>1. Send(k, request) /\ session[k] # Null /\ Active(u)
    BY <1>1 DEF ChangePassword, Authenticated
  <2>2. u \in Users /\ Exists(u) /\ lastActive[u] = now
    BY <2>1 DEF Inv, SessionsOK, UsersOK, Active
  <2>3. RequestOK(Sent(k, request))
    BY <2>2 DEF RequestOK, Sent, PasswordRequest, Fields
  <2> QED
    BY <2>1, <2>3, SendKeeps
<1>2. ASSUME NEW u \in Users, ResetPassword(k, u) PROVE Inv'
  <2>1. Send(k, PasswordRequest(u, "temporary", TRUE)) /\ Exists(u)
    BY <1>2 DEF ResetPassword
  <2>2. RequestOK(Sent(k, PasswordRequest(u, "temporary", TRUE)))
    BY <2>1 DEF RequestOK, Sent, PasswordRequest, Fields
  <2> QED
    BY <2>1, <2>2, SendKeeps
<1>3. ASSUME NEW u \in Users, NEW name \in Names, CreateUser(k, u, name) PROVE Inv'
  <2> DEFINE request == [op |-> "create", user |-> u, name |-> name]
  <2>1. Send(k, request)
    BY <1>3 DEF CreateUser
  <2>2. RequestOK(Sent(k, request))
    BY DEF RequestOK, Sent, Fields
  <2> QED
    BY <2>1, <2>2, SendKeeps
<1>4. ASSUME NEW u \in Users,
             ReactivateUser(k, u) \/ DeactivateUser(k, u) \/ DeactivateEmployee(k, u)
      PROVE  Inv'
  <2>1. PICK b \in BOOLEAN : Send(k, [op |-> "status", user |-> u, active |-> b])
    BY <1>4 DEF ReactivateUser, DeactivateUser, DeactivateEmployee
  <2>2. Exists(u)
    BY <1>4 DEF ReactivateUser, DeactivateUser, DeactivateEmployee, Active
  <2>3. RequestOK(Sent(k, [op |-> "status", user |-> u, active |-> b]))
    BY <2>2 DEF RequestOK, Sent, Fields
  <2> QED
    BY <2>1, <2>3, SendKeeps
<1>5. ASSUME NEW u, NEW skill \in SkillNames, NEW level \in Levels, AddSkill(k, u, skill, level)
      PROVE  Inv'
  <2> DEFINE request == [op |-> "add", user |-> u, skill |-> skill, level |-> level,
                         known |-> skill \in skills, id |-> Cardinality(Assigned) + writes + 1]
  <2>1. Send(k, request)
    BY <1>5 DEF AddSkill
  <2>2. RequestOK(Sent(k, request))
    BY DEF RequestOK, Sent, Fields
  <2> QED
    BY <2>1, <2>2, SendKeeps
<1>6. ASSUME NEW row, NEW seen, NEW level \in Levels, UpdateProficiency(k, row, seen, level)
      PROVE  Inv'
  <2> DEFINE request == [op |-> "level", id |-> row.id, seen |-> seen, level |-> level]
  <2>1. Send(k, request)
    BY <1>6 DEF UpdateProficiency
  <2>2. RequestOK(Sent(k, request))
    BY DEF RequestOK, Sent, Fields
  <2> QED
    BY <2>1, <2>2, SendKeeps
<1>7. ASSUME NEW row, NEW seen, RemoveSkill(k, row, seen) PROVE Inv'
  <2> DEFINE request == [op |-> "remove", id |-> row.id, seen |-> seen]
  <2>1. Send(k, request)
    BY <1>7 DEF RemoveSkill
  <2>2. RequestOK(Sent(k, request))
    BY DEF RequestOK, Sent, Fields
  <2> QED
    BY <2>1, <2>2, SendKeeps
<1> QED
  BY <1>1, <1>2, <1>3, <1>4, <1>5, <1>6, <1>7 DEF SaveAccount

\* What a step that serves a request leaves of the others and of the tokens.
LEMMA ServeKeeps ==
  ASSUME Inv, NEW i \in Slots, requests' = [requests EXCEPT ![i] = Null], now' = now, UsersOK',
         \A u \in Users : /\ Exists(u) => Exists(u)'
                          /\ lastActive'[u] = lastActive[u] \/ lastActive'[u] = now
  PROVE  RequestsOK' /\ (session' = session => SessionsOK')
<1>1. \A u \in Users : lastActive[u] \in Nat /\ lastActive[u] <= lastActive'[u]
                       /\ (lastActive[u] = now => lastActive'[u] = now)
  BY DEF Inv, UsersOK
<1>2. RequestsOK'
  <2>1. ASSUME NEW j \in Slots, requests'[j] # Null PROVE RequestOK(requests[j])'
    <3>1. requests'[j] = requests[j] /\ requests[j] # Null /\ RequestOK(requests[j])
      BY <2>1 DEF Inv, RequestsOK
    <3> QED
      BY <3>1, <1>1 DEF RequestOK
  <2> QED
    BY <2>1 DEF Inv, RequestsOK
<1>3. ASSUME session' = session PROVE SessionsOK'
  <2>1. ASSUME NEW k \in Clients, session[k] # Null
        PROVE  /\ session[k].user \in Users /\ session[k].expires \in Nat
               /\ session[k].expires <= lastActive'[session[k].user] + TokenHours
    <3>1. /\ session[k].user \in Users /\ session[k].expires \in Nat
          /\ session[k].expires <= lastActive[session[k].user] + TokenHours
      BY <2>1 DEF Inv, SessionsOK
    <3>2. /\ lastActive[session[k].user] \in Nat /\ lastActive'[session[k].user] \in Nat
          /\ lastActive[session[k].user] <= lastActive'[session[k].user]
      BY <3>1, <1>1 DEF UsersOK
    <3> QED
      BY <3>1, <3>2, HoursAssumption
  <2> QED
    BY <1>3, <2>1 DEF Inv, SessionsOK
<1> QED
  BY <1>2, <1>3

LEMMA WritePasswordKeeps ==
  ASSUME Inv, NEW i \in Slots, WritePassword(i)
  PROVE  Inv'
<1> DEFINE r == requests[i]
           forced == IF r.forced = r.old THEN users[r.user].forced ELSE r.forced
           row == [users[r.user] EXCEPT !.password = r.password, !.forced = forced]
<1>1. /\ r # Null /\ RequestOK(r) /\ r.op = "password"
      /\ UNCHANGED <<skills, assigned, now, lastActive>>
      /\ requests' = [requests EXCEPT ![i] = Null]
  BY DEF Inv, WritePassword, Underway, RequestsOK, Finish
<1>2. /\ r.user \in Users /\ Exists(r.user) /\ users[r.user] \in Account
      /\ r.client \in Clients /\ r.password \in {"own", "temporary"} /\ r.forced \in BOOLEAN
      /\ r.forced = FALSE => lastActive[r.user] = now
  BY <1>1 DEF RequestOK, Inv, UsersOK, Exists
<1>3. users' = [users EXCEPT ![r.user] = row]
  BY <1>2 DEF WritePassword, Account, Inv, UsersOK
<1>4. /\ row \in Account
      /\ row.name = users[r.user].name /\ row.active = users[r.user].active
  BY <1>2 DEF Account
<1>5. \A u \in Users : /\ Exists(u)' = Exists(u)
                       /\ Active(u)' = Active(u)
                       /\ Exists(u) => users'[u].name = users[u].name
  BY <1>2, <1>3, <1>4, NullAssumption DEF Exists, Active, Inv, UsersOK
<1>6. UsersOK'
  BY <1>1, <1>3, <1>4, <1>5 DEF Inv, UsersOK
<1>7. RequestsOK' /\ (session' = session => SessionsOK')
  BY <1>1, <1>5, <1>6, ServeKeeps
<1>8. SessionsOK'
  <2>1. CASE session' = session
    BY <2>1, <1>7
  <2>2. CASE session' # session
    <3>1. ~r.forced /\ session' = [session EXCEPT ![r.client] = Token(r.user, FALSE)]
      BY <2>2 DEF WritePassword
    <3>2. Token(r.user, FALSE).user = r.user /\ Token(r.user, FALSE).expires = now + TokenHours
      BY DEF Token
    <3>3. lastActive[r.user] = now /\ now \in Nat
      BY <1>2, <3>1 DEF Inv, UsersOK
    <3>4. lastActive' = lastActive
      BY <1>1
    <3>5. ASSUME NEW k \in Clients, session'[k] # Null
          PROVE  /\ session'[k].user \in Users /\ session'[k].expires \in Nat
                 /\ session'[k].expires <= lastActive[session'[k].user] + TokenHours
      <4>1. CASE k = r.client
        <5>1. session'[k] = Token(r.user, FALSE)
          BY <4>1, <3>1, <1>2 DEF Inv, SessionsOK
        <5>2. session'[k].user = r.user /\ session'[k].expires = now + TokenHours
          BY <5>1, <3>2
        <5>3. now + TokenHours \in Nat /\ lastActive[session'[k].user] = now
          BY <5>2, <3>3, HoursAssumption
        <5> HIDE DEF r
        <5> QED
          BY <5>2, <5>3, <1>2, HoursAssumption
      <4>2. CASE k # r.client
        <5>1. session'[k] = session[k]
          BY <4>2, <3>1, <1>2 DEF Inv, SessionsOK
        <5> QED
          BY <5>1, <3>5 DEF Inv, SessionsOK
      <4> QED
        BY <4>1, <4>2
    <3> QED
      BY <3>1, <3>4, <3>5 DEF Inv, SessionsOK
  <2> QED
    BY <2>1, <2>2
<1>9. OneAccountPerName'
  BY <1>5 DEF Inv, OneAccountPerName
<1>10. SkillsOK'
  BY <1>1 DEF Inv, SkillsOK
<1> QED
  BY <1>6, <1>7, <1>8, <1>9, <1>10 DEF Inv

LEMMA InsertUserKeeps ==
  ASSUME Inv, NEW i \in Slots, InsertUser(i)
  PROVE  Inv'
<1> DEFINE r == requests[i]
           row == [name |-> r.name, active |-> TRUE, password |-> "temporary", forced |-> TRUE]
<1>1. /\ r.user \in Users /\ r.name \in Names
      /\ UNCHANGED <<skills, assigned, session, now>>
      /\ requests' = [requests EXCEPT ![i] = Null]
  BY DEF Inv, InsertUser, Underway, RequestsOK, RequestOK, Finish
<1>2. SkillsOK'
  BY <1>1 DEF Inv, SkillsOK
<1>3. CASE Taken(r.name)
  <2>1. UNCHANGED <<users, lastActive>>
    BY <1>3 DEF InsertUser
  <2>2. UsersOK' /\ OneAccountPerName'
    BY <1>1, <2>1 DEF Inv, UsersOK, OneAccountPerName, Active, Exists
  <2>3. RequestsOK' /\ SessionsOK'
    BY <1>1, <2>1, <2>2, ServeKeeps DEF Exists
  <2> QED
    BY <1>2, <2>2, <2>3 DEF Inv
<1>4. CASE ~Taken(r.name)
  <2>1. /\ users' = [users EXCEPT ![r.user] = row]
        /\ lastActive' = [lastActive EXCEPT ![r.user] = now]
    BY <1>4 DEF InsertUser
  <2>2. row \in Account /\ row.name = r.name
    BY <1>1 DEF Account
  <2>3. /\ users'[r.user] = row /\ lastActive'[r.user] = now
        /\ \A u \in Users \ {r.user} : users'[u] = users[u] /\ lastActive'[u] = lastActive[u]
    BY <1>1, <2>1 DEF Inv, UsersOK
  <2>4. UsersOK'
    <3>1. users' \in [Users -> Account \cup {Null}] /\ lastActive' \in [Users -> Nat]
      BY <1>1, <2>1, <2>2 DEF Inv, UsersOK
    <3>2. \A u \in Users : lastActive'[u] <= now' /\ (Active(u)' => lastActive'[u] = now')
      BY <1>1, <2>3 DEF Inv, UsersOK, Active, Exists
    <3> QED
      BY <1>1, <3>1, <3>2 DEF Inv, UsersOK
  <2>5. \A u \in Users : Exists(u) => Exists(u)'
    BY <2>2, <2>3, NullAssumption DEF Exists
  <2>6. RequestsOK' /\ SessionsOK'
    BY <1>1, <2>3, <2>4, <2>5, ServeKeeps
  <2>7. OneAccountPerName'
    BY <1>4, <2>2, <2>3 DEF Inv, OneAccountPerName, Taken, Exists
  <2> QED
    BY <1>2, <2>4, <2>6, <2>7 DEF Inv
<1> QED
  BY <1>3, <1>4

LEMMA WriteStatusKeeps ==
  ASSUME Inv, NEW i \in Slots, WriteStatus(i)
  PROVE  Inv'
<1> DEFINE r == requests[i]
           row == [users[r.user] EXCEPT !.active = r.active]
<1>1. /\ r.user \in Users /\ Exists(r.user) /\ r.active \in BOOLEAN
      /\ UNCHANGED <<skills, assigned, session, now>>
      /\ requests' = [requests EXCEPT ![i] = Null]
  BY DEF Inv, WriteStatus, Underway, RequestsOK, RequestOK, Finish
<1>2. users' = [users EXCEPT ![r.user] = row] /\ users[r.user] \in Account
  BY <1>1 DEF WriteStatus, Inv, UsersOK, Exists
<1>3. row \in Account /\ row.name = users[r.user].name /\ row.active = r.active
  BY <1>1, <1>2 DEF Account
<1>4. \A u \in Users : /\ Exists(u)' = Exists(u)
                       /\ Exists(u) => users'[u].name = users[u].name
                       /\ u # r.user => users'[u] = users[u]
  BY <1>1, <1>2, <1>3, NullAssumption DEF Exists, Inv, UsersOK
<1>5. /\ \A u \in Users : lastActive'[u] = lastActive[u] \/ lastActive'[u] = now
      /\ lastActive' \in [Users -> Nat]
      /\ users'[r.user].active => lastActive'[r.user] = now
  <2>1. CASE users[r.user].active \/ r.active
    <3>1. lastActive' = [lastActive EXCEPT ![r.user] = now]
      BY <2>1 DEF WriteStatus
    <3> QED
      BY <3>1, <1>1 DEF Inv, UsersOK
  <2>2. CASE ~(users[r.user].active \/ r.active)
    <3>1. lastActive' = lastActive
      BY <2>2 DEF WriteStatus
    <3>2. users'[r.user] = row
      BY <1>1, <1>2 DEF Inv, UsersOK
    <3>3. ~users'[r.user].active
      BY <2>2, <3>2, <1>3
    <3> QED
      BY <3>1, <3>3 DEF Inv, UsersOK
  <2> QED
    BY <2>1, <2>2
<1>6. UsersOK'
  <2>1. users' \in [Users -> Account \cup {Null}]
    BY <1>2, <1>3 DEF Inv, UsersOK
  <2>2. \A u \in Users : lastActive'[u] <= now' /\ (Active(u)' => lastActive'[u] = now')
    <3>1. \A u \in Users : lastActive[u] \in Nat /\ lastActive[u] <= now
                           /\ (Active(u) => lastActive[u] = now)
      BY DEF Inv, UsersOK
    <3>2. \A u \in Users : lastActive'[u] <= now'
      BY <3>1, <1>1, <1>5
    <3>3. ASSUME NEW u \in Users, Active(u)' PROVE lastActive'[u] = now
      <4>1. CASE u = r.user
        BY <4>1, <3>3, <1>5 DEF Active
      <4>2. CASE u # r.user
        <5>1. Active(u)
          BY <4>2, <3>3, <1>4 DEF Active, Exists
        <5> QED
          BY <5>1, <3>1, <1>5
      <4> QED
        BY <4>1, <4>2
    <3> QED
      BY <3>2, <3>3, <1>1
  <2> QED
    BY <1>1, <1>5, <2>1, <2>2 DEF Inv, UsersOK
<1>7. RequestsOK' /\ SessionsOK'
  BY <1>1, <1>4, <1>5, <1>6, ServeKeeps
<1>8. OneAccountPerName'
  BY <1>4 DEF Inv, OneAccountPerName
<1>9. SkillsOK'
  BY <1>1 DEF Inv, SkillsOK
<1> QED
  BY <1>6, <1>7, <1>8, <1>9 DEF Inv

LEMMA SkillsKeep ==
  ASSUME Inv, NEW i \in Slots, InsertSkill(i) \/ WriteSkill(i)
  PROVE  Inv'
<1> DEFINE r == requests[i]
<1>1. /\ UNCHANGED <<users, session, now, lastActive>>
      /\ requests' = [requests EXCEPT ![i] = Null]
  BY DEF InsertSkill, WriteSkill, Finish
<1>2. UsersOK' /\ OneAccountPerName'
  BY <1>1 DEF Inv, UsersOK, OneAccountPerName, Active, Exists
<1>3. RequestsOK' /\ SessionsOK'
  BY <1>1, <1>2, ServeKeeps DEF Exists
<1>4. CASE InsertSkill(i)
  <2> DEFINE row == [id |-> r.id, user |-> r.user, skill |-> r.skill, level |-> r.level]
  <2>1. CASE UNCHANGED <<skills, assigned>>
    BY <2>1, <1>2, <1>3 DEF Inv, SkillsOK
  <2>2. CASE skills' = skills \cup {r.skill} /\ assigned' = assigned \cup {row}
    <3>1. row = [f \in {"id", "user", "skill", "level"} |-> row[f]] /\ row.skill = r.skill
      OBVIOUS
    <3> HIDE DEF row
    <3> QED
      BY <2>2, <3>1, <1>2, <1>3 DEF Inv, SkillsOK
  <2> QED
    BY <1>4, <2>1, <2>2 DEF InsertSkill
<1>5. CASE WriteSkill(i)
  <2>1. skills' = skills
    BY <1>5 DEF WriteSkill
  <2> DEFINE Changed(row) == [row EXCEPT !.level = r.level]
             rows == {row \in assigned : row.id = r.id}
  <2>2. assigned' = (assigned \ rows) \cup
                      (IF r.op = "remove" THEN {} ELSE {Changed(row) : row \in rows})
    BY <1>5 DEF WriteSkill
  <2>3. \A new \in assigned' :
          \E row \in assigned : IF row.id = r.id THEN new = Changed(row) ELSE new = row
    <3> HIDE DEF Changed
    <3> QED
      BY <2>2
  <2>4. SkillsOK'
    <3>1. ASSUME NEW row \in assigned
          PROVE  /\ Changed(row) = [f \in {"id", "user", "skill", "level"} |-> Changed(row)[f]]
                 /\ Changed(row).skill = row.skill
      BY DEF Inv, SkillsOK
    <3> HIDE DEF Changed
    <3>2. ASSUME NEW new \in assigned'
          PROVE  /\ new = [f \in {"id", "user", "skill", "level"} |-> new[f]]
                 /\ new.skill \in skills'
      <4>1. PICK a \in assigned : IF a.id = r.id THEN new = Changed(a) ELSE new = a
        BY <2>3
      <4>2. /\ a = [f \in {"id", "user", "skill", "level"} |-> a[f]]
            /\ a.skill \in skills
        BY DEF Inv, SkillsOK
      <4> QED
        BY <2>1, <3>1, <4>1, <4>2
    <3> QED
      BY <3>2 DEF SkillsOK
  <2> QED
    BY <1>2, <1>3, <2>4 DEF Inv
<1> QED
  BY <1>4, <1>5

LEMMA GiveUpKeeps ==
  ASSUME Inv, NEW i \in Slots, GiveUp(i)
  PROVE  Inv'
<1> DEFINE r == requests[i]
           late == [r EXCEPT !.waited = FALSE]
<1>1. /\ r # Null /\ RequestOK(r)
      /\ requests' = [requests EXCEPT ![i] = late]
      /\ UNCHANGED <<users, skills, assigned, session, now, lastActive>>
  BY DEF Inv, RequestsOK, GiveUp
<1>2. DOMAIN late = DOMAIN r /\ \A f \in DOMAIN r \ {"waited"} : late[f] = r[f]
  BY DEF RequestOK
<1>3. RequestOK(late)
  <2>1. late.op = r.op /\ late.client = r.client /\ Fields(late.op) \subseteq DOMAIN late
    BY <1>1, <1>2 DEF RequestOK, Fields
  <2>2. r.op = "password" => /\ late.user = r.user /\ late.password = r.password
                             /\ late.forced = r.forced
    BY <1>1, <1>2 DEF RequestOK, Fields
  <2>3. r.op = "create" => late.user = r.user /\ late.name = r.name
    BY <1>1, <1>2 DEF RequestOK, Fields
  <2>4. r.op = "status" => late.user = r.user /\ late.active = r.active
    BY <1>1, <1>2 DEF RequestOK, Fields
  <2> HIDE DEF late
  <2> QED
    BY <1>1, <2>1, <2>2, <2>3, <2>4 DEF RequestOK
<1>4. UsersOK' /\ OneAccountPerName' /\ SkillsOK' /\ SessionsOK'
  BY <1>1 DEF Inv, UsersOK, OneAccountPerName, SkillsOK, SessionsOK, Active, Exists
<1>5. RequestsOK'
  <2> HIDE DEF late
  <2> QED
    BY <1>1, <1>3 DEF Inv, RequestsOK, RequestOK, Exists
<1> QED
  BY <1>4, <1>5 DEF Inv

LEMMA HourPassesKeeps ==
  ASSUME Inv, HourPasses
  PROVE  Inv'
<1>1. /\ now \in Nat /\ now' = now + 1
      /\ UNCHANGED <<users, skills, assigned, session, requests>>
      /\ \A i \in Slots : requests[i] = Null
  BY DEF Inv, UsersOK, HourPasses
<1>2. \A u \in Users : /\ lastActive[u] \in Nat /\ lastActive[u] <= now
                       /\ lastActive'[u] = IF Active(u) THEN now + 1 ELSE lastActive[u]
  BY DEF Inv, UsersOK, HourPasses
<1>3. UsersOK'
  <2>1. lastActive' \in [Users -> Nat]
    BY <1>1, <1>2 DEF HourPasses
  <2> QED
    BY <1>1, <1>2, <2>1 DEF Inv, UsersOK, Active, Exists
<1>4. RequestsOK' /\ OneAccountPerName' /\ SkillsOK'
  BY <1>1 DEF Inv, RequestsOK, OneAccountPerName, SkillsOK, Exists
<1>5. SessionsOK'
  <2>1. \A u \in Users : /\ lastActive[u] \in Nat /\ lastActive'[u] \in Nat
                         /\ lastActive[u] <= lastActive'[u]
    BY <1>1, <1>2
  <2>2. ASSUME NEW k \in Clients, session[k] # Null
        PROVE  session[k].expires <= lastActive'[session[k].user] + TokenHours
    BY <2>1, <2>2, HoursAssumption DEF Inv, SessionsOK
  <2> QED
    BY <1>1, <2>2 DEF Inv, SessionsOK
<1> QED
  BY <1>3, <1>4, <1>5 DEF Inv

-----------------------------------------------------------------------------
(***************************************************************************)
(* The theorems about accounts, whatever screens the consoles show.        *)
(***************************************************************************)

LEMMA NextKeeps ==
  ASSUME Inv, [Next]_vars
  PROVE  Inv'
<1>1. ASSUME NEW k \in Clients,
             \/ Start(k) \/ Read(k) \/ ReadFails(k) \/ Open(k) \/ Back(k) \/ Logout(k) \/ Quit(k)
             \/ SaveOther(k) \/ SaveFails(k) \/ Hear(k)
      PROVE  Inv'
  <2>1. Quiet
    BY <1>1
       DEF Start, Read, ReadFails, Open, Back, Logout, Quit, Leave, SaveOther, SaveFails, Hear,
                accountVars, Quiet
  <2> QED
    BY <2>1, QuietKeeps
<1>2. ASSUME NEW k \in Clients, EnterLogin(k) PROVE Inv'
  BY <1>2, LoginKeeps DEF EnterLogin
<1>3. ASSUME NEW i \in Slots, Serve(i) PROVE Inv'
  BY <1>3, WritePasswordKeeps, InsertUserKeeps, WriteStatusKeeps, SkillsKeep DEF Serve
<1>4. CASE UNCHANGED vars
  <2>1. Quiet
    BY <1>4 DEF vars, accountVars, Quiet
  <2> QED
    BY <2>1, QuietKeeps
<1> QED
  BY <1>1, <1>2, <1>3, <1>4, SaveAccountKeeps, GiveUpKeeps, HourPassesKeeps DEF Next

LEMMA Invariance == Spec => []Inv
<1> QED
  BY InvInit, NextKeeps, PTL DEF Spec

\* Whoever holds a token that is accepted had an active account less than the life of a
\* token ago, however the token was renewed.
THEOREM DeactivationTakesEffect == Spec => []DeactivationBites
<1>1. Inv => DeactivationBites
  BY HoursAssumption DEF Inv, UsersOK, SessionsOK, DeactivationBites, Authenticated
<1> QED
  BY <1>1, Invariance, PTL

\* No two accounts have one username, whatever requests to create them overlap.
THEOREM NamesAreUnique == Spec => []OneAccountPerName
<1>1. Inv => OneAccountPerName
  BY DEF Inv
<1> QED
  BY <1>1, Invariance, PTL

SkillRows(u, skill) == {row \in assigned : row.user = u /\ row.skill = skill}
Adding(u, skill) == {i \in Slots : /\ Underway(i, "add")
                                   /\ requests[i].user = u /\ requests[i].skill = skill}

\* The rows there are of a skill, and the requests that are about to add one: a request
\* gets under way only while there is no row.
SkillBudget ==
  /\ IsFiniteSet(assigned)
  /\ \A u, skill :
       Cardinality(SkillRows(u, skill)) + Cardinality(Adding(u, skill)) <= Cardinality(Slots)

LEMMA BudgetIsFinite ==
  ASSUME NEW u, NEW skill
  PROVE  /\ IsFiniteSet(Adding(u, skill)) /\ Cardinality(Adding(u, skill)) \in Nat
         /\ Cardinality(Adding(u, skill)) <= Cardinality(Slots) /\ Cardinality(Slots) \in Nat
         /\ IsFiniteSet(assigned) => /\ IsFiniteSet(SkillRows(u, skill))
                                     /\ Cardinality(SkillRows(u, skill)) \in Nat
<1>1. Adding(u, skill) \subseteq Slots /\ SkillRows(u, skill) \subseteq assigned
  BY DEF Adding, SkillRows
<1> QED
  BY <1>1, SlotsAssumption, FS_Subset, FS_CardinalityType

LEMMA BudgetInit == Init => SkillBudget
<1> SUFFICES ASSUME Init PROVE SkillBudget
  OBVIOUS
<1> IsFiniteSet(assigned)
  BY AssignedAssumption DEF Init, AccountsInit
<1> SUFFICES ASSUME NEW u, NEW skill
             PROVE  Cardinality(SkillRows(u, skill)) + Cardinality(Adding(u, skill))
                      <= Cardinality(Slots)
  BY DEF SkillBudget
<1>1. Adding(u, skill) = {}
  BY DEF Init, AccountsInit, Adding, Underway
<1>2. \A row, other \in SkillRows(u, skill) : row = other
  BY AssignedAssumption DEF Init, AccountsInit, SkillRows
<1>3. Cardinality(SkillRows(u, skill)) <= 1
  <2>1. CASE SkillRows(u, skill) = {}
    BY <2>1, FS_EmptySet
  <2>2. CASE SkillRows(u, skill) # {}
    <3>1. PICK row : SkillRows(u, skill) = {row}
      BY <1>2, <2>2
    <3> QED
      BY <3>1, FS_Singleton
  <2> QED
    BY <2>1, <2>2
<1>4. Cardinality(Slots) \in Nat /\ Cardinality(Slots) # 0
  BY SlotsAssumption, FS_CardinalityType, FS_EmptySet
<1>5. Cardinality(SkillRows(u, skill)) \in Nat
  BY AssignedAssumption, BudgetIsFinite DEF Init, AccountsInit
<1> QED
  BY <1>1, <1>3, <1>4, <1>5, FS_EmptySet

\* A step by which no request begins to add, and no row comes to be.
LEMMA BudgetShrinks ==
  ASSUME SkillBudget, IsFiniteSet(assigned'), NEW u, NEW skill,
         Cardinality(SkillRows(u, skill))' <= Cardinality(SkillRows(u, skill)),
         Adding(u, skill)' \subseteq Adding(u, skill)
  PROVE  Cardinality(SkillRows(u, skill))' + Cardinality(Adding(u, skill))' <= Cardinality(Slots)
<1>1. Cardinality(Adding(u, skill)') <= Cardinality(Adding(u, skill))
  BY BudgetIsFinite, FS_Subset
<1>2. Cardinality(Adding(u, skill)') \in Nat /\ Cardinality(SkillRows(u, skill)') \in Nat
  <2>1. Adding(u, skill)' \subseteq Slots /\ SkillRows(u, skill)' \subseteq assigned'
    BY DEF Adding, SkillRows
  <2> QED
    BY <2>1, SlotsAssumption, FS_Subset, FS_CardinalityType
<1>3. /\ Cardinality(SkillRows(u, skill)) + Cardinality(Adding(u, skill)) <= Cardinality(Slots)
      /\ Cardinality(Adding(u, skill)) \in Nat /\ Cardinality(SkillRows(u, skill)) \in Nat
      /\ Cardinality(Slots) \in Nat
  BY BudgetIsFinite DEF SkillBudget
<1> QED
  BY <1>1, <1>2, <1>3

\* A step that leaves the rows alone, and by which no request begins to add.
LEMMA BudgetIdle ==
  ASSUME SkillBudget, assigned' = assigned,
         \A i \in Slots : Underway(i, "add")' =>
           /\ Underway(i, "add")
           /\ requests'[i].user = requests[i].user /\ requests'[i].skill = requests[i].skill
  PROVE  SkillBudget'
<1> SUFFICES ASSUME NEW u, NEW skill
             PROVE  Cardinality(SkillRows(u, skill))' + Cardinality(Adding(u, skill))'
                      <= Cardinality(Slots)
  BY DEF SkillBudget
<1>1. IsFiniteSet(assigned') /\ Adding(u, skill)' \subseteq Adding(u, skill)
  BY DEF SkillBudget, Adding
<1>2. SkillRows(u, skill)' = SkillRows(u, skill)
  BY DEF SkillRows
<1>3. Cardinality(SkillRows(u, skill)) \in Nat
  BY BudgetIsFinite DEF SkillBudget
<1> QED
  BY <1>1, <1>2, <1>3, BudgetShrinks

\* A request that is sent: if it is one that adds, the employee has no such row.
LEMMA BudgetSend ==
  ASSUME Inv, SkillBudget, NEW k \in Clients, NEW request, Send(k, request),
         {"op", "user", "skill"} \subseteq DOMAIN request \/ request.op # "add",
         "op" \in DOMAIN request,
         request.op = "add" => ~Has(request.user, request.skill)
  PROVE  SkillBudget'
<1>1. PICK i \in Slots : requests[i] = Null /\ requests' = [requests EXCEPT ![i] = Sent(k, request)]
  BY DEF Send
<1>2. /\ Sent(k, request).op = request.op
      /\ request.op = "add" => /\ Sent(k, request).user = request.user
                               /\ Sent(k, request).skill = request.skill
  BY DEF Sent
<1>3. requests'[i] = Sent(k, request) /\ \A j \in Slots \ {i} : requests'[j] = requests[j]
  BY <1>1 DEF Inv, RequestsOK
<1>4. assigned' = assigned
  BY DEF Send
<1>5. CASE request.op # "add"
  <2>1. \A j \in Slots : Underway(j, "add")' => j # i /\ requests'[j] = requests[j]
    BY <1>2, <1>3, <1>5 DEF Underway
  <2>2. \A j \in Slots : Underway(j, "add")' =>
           /\ Underway(j, "add")
           /\ requests'[j].user = requests[j].user /\ requests'[j].skill = requests[j].skill
    BY <2>1 DEF Underway
  <2> QED
    BY <2>2, <1>4, BudgetIdle
<1>6. CASE request.op = "add"
  <2> SUFFICES ASSUME NEW u, NEW skill
               PROVE  Cardinality(SkillRows(u, skill))' + Cardinality(Adding(u, skill))'
                        <= Cardinality(Slots)
    BY <1>4 DEF SkillBudget
  <2>1. SkillRows(u, skill)' = SkillRows(u, skill)
    BY <1>4 DEF SkillRows
  <2>2. CASE u = request.user /\ skill = request.skill
    <3>1. SkillRows(u, skill) = {}
      BY <1>6, <2>2 DEF SkillRows, Has
    <3>2. Adding(u, skill)' \subseteq Slots
      BY DEF Adding
    <3>3. /\ Cardinality(Adding(u, skill)') <= Cardinality(Slots)
          /\ Cardinality(Adding(u, skill)') \in Nat
      BY <3>2, SlotsAssumption, FS_Subset, FS_CardinalityType
    <3>4. Cardinality(SkillRows(u, skill)') = 0
      BY <2>1, <3>1, FS_EmptySet
    <3> QED
      BY <3>3, <3>4
  <2>3. CASE ~(u = request.user /\ skill = request.skill)
    <3>1. Adding(u, skill)' \subseteq Adding(u, skill)
      BY <1>2, <1>3, <1>6, <2>3 DEF Adding, Underway
    <3>2. IsFiniteSet(assigned') /\ Cardinality(SkillRows(u, skill)) \in Nat
      BY <1>4, BudgetIsFinite DEF SkillBudget
    <3> QED
      BY <2>1, <3>1, <3>2, BudgetShrinks
  <2> QED
    BY <2>2, <2>3
<1> QED
  BY <1>5, <1>6

LEMMA BudgetSaveAccount ==
  ASSUME Inv, SkillBudget, NEW k \in Clients, SaveAccount(k)
  PROVE  SkillBudget'
<1>1. CASE \/ ChangePassword(k)
           \/ \E u \in Users : ResetPassword(k, u)
  <2>1. PICK u, password, forced : Send(k, PasswordRequest(u, password, forced))
    BY <1>1 DEF ChangePassword, ResetPassword
  <2>2. /\ PasswordRequest(u, password, forced).op = "password"
        /\ "op" \in DOMAIN PasswordRequest(u, password, forced)
    BY DEF PasswordRequest
  <2> QED
    BY <2>1, <2>2, BudgetSend
<1>2. CASE \E u \in Users, name \in Names : CreateUser(k, u, name)
  <2>1. PICK u, name : Send(k, [op |-> "create", user |-> u, name |-> name])
    BY <1>2 DEF CreateUser
  <2> QED
    BY <2>1, BudgetSend
<1>3. CASE \E u \in Users : ReactivateUser(k, u) \/ DeactivateUser(k, u) \/ DeactivateEmployee(k, u)
  <2>1. PICK u, b : Send(k, [op |-> "status", user |-> u, active |-> b])
    BY <1>3 DEF ReactivateUser, DeactivateUser, DeactivateEmployee
  <2> QED
    BY <2>1, BudgetSend
<1>4. ASSUME NEW u, NEW skill, NEW level, AddSkill(k, u, skill, level)
      PROVE  SkillBudget'
  <2> DEFINE request == [op |-> "add", user |-> u, skill |-> skill, level |-> level,
                         known |-> skill \in skills, id |-> Cardinality(Assigned) + writes + 1]
  <2>1. Send(k, request) /\ ~Has(u, skill)
    BY <1>4 DEF AddSkill
  <2>2. /\ request.op = "add" /\ request.user = u /\ request.skill = skill
        /\ {"op", "user", "skill"} \subseteq DOMAIN request
    OBVIOUS
  <2> HIDE DEF request
  <2> QED
    BY <2>1, <2>2, BudgetSend
<1>5. ASSUME NEW row, NEW seen, NEW level, UpdateProficiency(k, row, seen, level)
      PROVE  SkillBudget'
  <2>1. Send(k, [op |-> "level", id |-> row.id, seen |-> seen, level |-> level])
    BY <1>5 DEF UpdateProficiency
  <2> QED
    BY <2>1, BudgetSend
<1>6. ASSUME NEW row, NEW seen, RemoveSkill(k, row, seen)
      PROVE  SkillBudget'
  <2>1. Send(k, [op |-> "remove", id |-> row.id, seen |-> seen])
    BY <1>6 DEF RemoveSkill
  <2> QED
    BY <2>1, BudgetSend
<1> QED
  BY <1>1, <1>2, <1>3, <1>4, <1>5, <1>6 DEF SaveAccount

LEMMA ImageIsNoLarger ==
  ASSUME NEW S, IsFiniteSet(S), NEW f
  PROVE  /\ IsFiniteSet({f[x] : x \in S})
         /\ Cardinality({f[x] : x \in S}) <= Cardinality(S)
<1> DEFINE T == {f[x] : x \in S}
           onto == [x \in S |-> f[x]]
<1>1. onto \in Surjection(S, T)
  BY DEF Surjection
<1> QED
  BY <1>1, FS_Surjection

\* A request that is over: it leaves the rows alone, or adds its own, or changes rows
\* one by one.
LEMMA BudgetServe ==
  ASSUME Inv, SkillBudget, NEW i \in Slots, Serve(i)
  PROVE  SkillBudget'
<1> DEFINE r == requests[i]
<1>1. requests' = [requests EXCEPT ![i] = Null]
  BY DEF Serve, WritePassword, InsertUser, WriteStatus, InsertSkill, WriteSkill, Finish
<1>2. requests'[i] = Null /\ \A j \in Slots \ {i} : requests'[j] = requests[j]
  BY <1>1 DEF Inv, RequestsOK
<1>3. \A j \in Slots : Underway(j, "add")' =>
         /\ Underway(j, "add")
         /\ requests'[j].user = requests[j].user /\ requests'[j].skill = requests[j].skill
  BY <1>2 DEF Underway
<1>4. \A u, skill : Adding(u, skill)' \subseteq Adding(u, skill)
  BY <1>3 DEF Adding
<1>5. CASE assigned' = assigned
  BY <1>3, <1>5, BudgetIdle
<1>6. CASE InsertSkill(i) /\ assigned' # assigned
  <2> DEFINE row == [id |-> r.id, user |-> r.user, skill |-> r.skill, level |-> r.level]
  <2>1. assigned' = assigned \cup {row} /\ Underway(i, "add")
    BY <1>6 DEF InsertSkill
  <2>2. row.user = r.user /\ row.skill = r.skill
    OBVIOUS
  <2> HIDE DEF row
  <2>3. IsFiniteSet(assigned')
    BY <2>1, FS_AddElement DEF SkillBudget
  <2> SUFFICES ASSUME NEW u, NEW skill
               PROVE  Cardinality(SkillRows(u, skill))' + Cardinality(Adding(u, skill))'
                        <= Cardinality(Slots)
    BY <2>3 DEF SkillBudget
  <2>4. /\ IsFiniteSet(SkillRows(u, skill)) /\ Cardinality(SkillRows(u, skill)) \in Nat
        /\ IsFiniteSet(Adding(u, skill)) /\ Cardinality(Adding(u, skill)) \in Nat
        /\ Cardinality(SkillRows(u, skill)) + Cardinality(Adding(u, skill)) <= Cardinality(Slots)
        /\ Cardinality(Slots) \in Nat
    BY BudgetIsFinite DEF SkillBudget
  <2>5. CASE u = r.user /\ skill = r.skill
    <3>1. SkillRows(u, skill)' = SkillRows(u, skill) \cup {row}
      BY <2>1, <2>2, <2>5 DEF SkillRows
    <3>2. /\ Cardinality(SkillRows(u, skill)') <= Cardinality(SkillRows(u, skill)) + 1
          /\ Cardinality(SkillRows(u, skill)') \in Nat
      <4> DEFINE S == SkillRows(u, skill)
      <4>1. IsFiniteSet(S) /\ Cardinality(S) \in Nat
        BY <2>4
      <4>2. SkillRows(u, skill)' = S \cup {row}
        BY <3>1
      <4> HIDE DEF S
      <4>3. /\ IsFiniteSet(S \cup {row})
            /\ Cardinality(S \cup {row}) = IF row \in S THEN Cardinality(S) ELSE Cardinality(S) + 1
        BY <4>1, FS_AddElement
      <4>4. Cardinality(SkillRows(u, skill)') <= Cardinality(S) + 1
        BY <4>1, <4>2, <4>3
      <4>5. Cardinality(SkillRows(u, skill)') \in Nat
        BY <4>2, <4>3, FS_CardinalityType
      <4> QED
        BY <4>4, <4>5 DEF S
    <3>3. Adding(u, skill)' = Adding(u, skill) \ {i} /\ i \in Adding(u, skill)
      BY <1>2, <2>1, <2>5 DEF Adding, Underway
    <3>4. Cardinality(Adding(u, skill)') = Cardinality(Adding(u, skill)) - 1
      BY <3>3, <2>4, FS_RemoveElement
    <3> HIDE DEF r
    <3> QED
      BY <3>2, <3>4, <2>4
  <2>6. CASE ~(u = r.user /\ skill = r.skill)
    <3>1. SkillRows(u, skill)' = SkillRows(u, skill)
      BY <2>1, <2>2, <2>6 DEF SkillRows
    <3> QED
      BY <3>1, <2>3, <2>4, <1>4, BudgetShrinks
  <2> QED
    BY <2>5, <2>6
<1>7. CASE WriteSkill(i)
  <2> DEFINE Changed(row) == [row EXCEPT !.level = r.level]
             new == [row \in assigned |-> IF row.id = r.id THEN Changed(row) ELSE row]
             rows == {row \in assigned : row.id = r.id}
  <2>1. assigned' = (assigned \ rows) \cup
                      (IF r.op = "remove" THEN {} ELSE {Changed(row) : row \in rows})
    BY <1>7 DEF WriteSkill
  <2>2. \A row \in assigned : new[row].user = row.user /\ new[row].skill = row.skill
    BY DEF Inv, SkillsOK
  <2> HIDE DEF Changed
  <2>3. \A got \in assigned' : \E row \in assigned : got = new[row]
    BY <2>1
  <2> HIDE DEF new
  <2>4. assigned' \subseteq {new[row] : row \in assigned}
    BY <2>3
  <2>5. IsFiniteSet(assigned')
    <3>1. IsFiniteSet(assigned)
      BY DEF SkillBudget
    <3>2. IsFiniteSet({new[row] : row \in assigned})
      BY <3>1, ImageIsNoLarger
    <3> QED
      BY <2>4, <3>2, FS_Subset
  <2> SUFFICES ASSUME NEW u, NEW skill
               PROVE  Cardinality(SkillRows(u, skill))' + Cardinality(Adding(u, skill))'
                        <= Cardinality(Slots)
    BY <2>5 DEF SkillBudget
  <2>6. SkillRows(u, skill)' \subseteq {new[row] : row \in SkillRows(u, skill)}
    BY <2>2, <2>3 DEF SkillRows
  <2>7. Cardinality(SkillRows(u, skill)') <= Cardinality(SkillRows(u, skill))
    <3> DEFINE S == SkillRows(u, skill)
               T == {new[row] : row \in S}
    <3>1. IsFiniteSet(S) /\ Cardinality(S) \in Nat
      BY BudgetIsFinite DEF SkillBudget
    <3> HIDE DEF S
    <3>2. IsFiniteSet(T) /\ Cardinality(T) <= Cardinality(S)
      BY <3>1, ImageIsNoLarger
    <3>3. Cardinality(SkillRows(u, skill)') <= Cardinality(T)
      BY <3>2, <2>6, FS_Subset DEF S
    <3>4. Cardinality(T) \in Nat /\ Cardinality(SkillRows(u, skill)') \in Nat
      BY <3>2, <2>6, FS_Subset, FS_CardinalityType DEF S
    <3> HIDE DEF T
    <3> QED
      BY <3>1, <3>2, <3>3, <3>4 DEF S
  <2> QED
    BY <2>5, <2>7, <1>4, BudgetShrinks
<1> QED
  BY <1>5, <1>6, <1>7 DEF Serve, WritePassword, InsertUser, WriteStatus

LEMMA BudgetStep ==
  ASSUME Inv, SkillBudget, [Next]_vars
  PROVE  SkillBudget'
<1>1. CASE UNCHANGED <<assigned, requests>>
  <2>1. \A i \in Slots : Underway(i, "add")' =>
           /\ Underway(i, "add")
           /\ requests'[i].user = requests[i].user /\ requests'[i].skill = requests[i].skill
    BY <1>1 DEF Underway
  <2> QED
    BY <1>1, <2>1, BudgetIdle
<1>2. ASSUME NEW k \in Clients,
             \/ Start(k) \/ Read(k) \/ ReadFails(k) \/ Open(k) \/ Back(k) \/ Logout(k) \/ Quit(k)
             \/ SaveOther(k) \/ SaveFails(k) \/ Hear(k) \/ EnterLogin(k)
      PROVE  UNCHANGED <<assigned, requests>>
  BY <1>2
     DEF Start, Read, ReadFails, Open, Back, Logout, Quit, Leave, SaveOther, SaveFails, Hear,
         EnterLogin, Login, accountVars
<1>3. ASSUME NEW i \in Slots, GiveUp(i) PROVE SkillBudget'
  <2> DEFINE late == [requests[i] EXCEPT !.waited = FALSE]
  <2>1. requests[i] # Null /\ RequestOK(requests[i]) /\ assigned' = assigned
    BY <1>3 DEF GiveUp, Inv, RequestsOK
  <2>2. /\ late.op = requests[i].op
        /\ late.op = "add" => late.user = requests[i].user /\ late.skill = requests[i].skill
    BY <2>1 DEF RequestOK, Fields
  <2>3. requests' = [requests EXCEPT ![i] = late]
    BY <1>3 DEF GiveUp
  <2> HIDE DEF late
  <2>4. requests'[i] = late /\ \A j \in Slots \ {i} : requests'[j] = requests[j]
    BY <2>3 DEF Inv, RequestsOK
  <2>5. \A j \in Slots : Underway(j, "add")' =>
           /\ Underway(j, "add")
           /\ requests'[j].user = requests[j].user /\ requests'[j].skill = requests[j].skill
    BY <2>1, <2>2, <2>4 DEF Underway
  <2> QED
    BY <2>1, <2>5, BudgetIdle
<1>4. CASE HourPasses
  BY <1>1, <1>4 DEF HourPasses
<1>5. CASE UNCHANGED vars
  BY <1>1, <1>5 DEF vars, accountVars
<1> QED
  BY <1>1, <1>2, <1>3, <1>4, <1>5, BudgetSaveAccount, BudgetServe DEF Next

\* No employee has one skill more often than requests can be under way at once, and
\* every skill that is assigned is catalogued.
THEOREM SkillsAreBounded == Spec => []SkillsBounded
<1>1. Inv /\ SkillBudget => SkillsBounded
  <2> SUFFICES ASSUME Inv, SkillBudget, NEW row \in assigned PROVE
                 /\ row.skill \in skills
                 /\ Cardinality(SkillRows(row.user, row.skill)) <= Cardinality(Slots)
    BY DEF SkillsBounded, SkillRows
  <2>1. row.skill \in skills
    BY DEF Inv, SkillsOK
  <2>2. /\ Cardinality(SkillRows(row.user, row.skill)) \in Nat
        /\ Cardinality(Adding(row.user, row.skill)) \in Nat
        /\ Cardinality(Slots) \in Nat
        /\ Cardinality(SkillRows(row.user, row.skill))
             + Cardinality(Adding(row.user, row.skill)) <= Cardinality(Slots)
    BY BudgetIsFinite DEF SkillBudget
  <2> QED
    BY <2>1, <2>2
<1> QED
  BY <1>1, BudgetInit, BudgetStep, Invariance, PTL DEF Spec

-----------------------------------------------------------------------------
(***************************************************************************)
(* The tables.  No two share a name, so that a call or a screen is what    *)
(* its own table says.  Every screen under the menu of a role makes only   *)
(* calls that the API serves to that role, reads at most twice before it   *)
(* prompts, and leads only to screens of the role, nested less deep.       *)
(***************************************************************************)

\* What f says, g says.
Within(f, g) == DOMAIN f \subseteq DOMAIN g /\ \A x \in DOMAIN f : g[x] = f[x]
Joined(f, g, h) == Within(f, h) /\ Within(g, h) /\ DOMAIN h = DOMAIN f \cup DOMAIN g

LEMMA PlusLaw ==
  ASSUME NEW f, NEW g, DOMAIN f \cap DOMAIN g = {}
  PROVE  Joined(f, g, f ++ g)
BY DEF Joined, Within, ++

LEMMA WithinTrans ==
  ASSUME NEW f, NEW g, NEW h, Within(f, g), Within(g, h)
  PROVE  Within(f, h)
BY DEF Within

\* The names of the calls.
LEMMA CallDomains ==
  /\ DOMAIN SessionCalls = {"login", "change_password"}
  /\ DOMAIN UserCalls = {"create_user", "list_users", "reset_user_password", "deactivate_user",
                         "reactivate_user"}
  /\ DOMAIN EmployeeCalls = {"list_employees", "get_employee", "update_employee",
                             "deactivate_employee", "assign_manager"}
  /\ DOMAIN SkillCalls = {"list_user_skills", "add_user_skill", "update_user_skill",
                          "remove_user_skill"}
  /\ DOMAIN ProjectCalls = {"create_project", "list_projects", "get_project", "update_project",
                            "list_milestones", "add_milestone", "update_milestone_status"}
  /\ DOMAIN SettingCalls = {"list_allocations", "get_configuration", "update_llm_api_key",
                            "update_llm_provider", "update_scheduler_interval",
                            "update_max_weekly_hours"}
  /\ DOMAIN ResourceCalls = {"get_resource_dashboard", "get_engineer_resource_detail",
                             "list_manager_projects", "get_manager_project",
                             "list_project_allocations", "create_allocation", "end_allocation"}
  /\ DOMAIN AssistantCalls = {"skill_match", "team_match", "get_risk_summary",
                              "list_team_timesheets"}
  /\ DOMAIN EngineerCalls = {"list_allocations_for_week", "list_my_allocations",
                             "submit_timesheet", "list_my_timesheets",
                             "get_my_timesheet_detail"}
  /\ DOMAIN DetailCalls = {"get_engineer_timesheet_detail"}
BY DEF SessionCalls, UserCalls, EmployeeCalls, SkillCalls, ProjectCalls, SettingCalls,
       ResourceCalls, AssistantCalls, EngineerCalls, DetailCalls

\* No two tables of calls share a name.
LEMMA CallsLaw ==
  /\ Within(SessionCalls, Calls)
  /\ Within(UserCalls, Calls)
  /\ Within(EmployeeCalls, Calls)
  /\ Within(SkillCalls, Calls)
  /\ Within(ProjectCalls, Calls)
  /\ Within(SettingCalls, Calls)
  /\ Within(ResourceCalls, Calls)
  /\ Within(AssistantCalls, Calls)
  /\ Within(EngineerCalls, Calls)
  /\ Within(DetailCalls, Calls)
  /\ DOMAIN Calls = DOMAIN SessionCalls \cup DOMAIN UserCalls \cup DOMAIN EmployeeCalls
                     \cup DOMAIN SkillCalls \cup DOMAIN ProjectCalls \cup DOMAIN SettingCalls
                     \cup DOMAIN ResourceCalls \cup DOMAIN AssistantCalls
                     \cup DOMAIN EngineerCalls \cup DOMAIN DetailCalls
<1> DEFINE t2 == SessionCalls ++ UserCalls
           t3 == t2 ++ EmployeeCalls
           t4 == t3 ++ SkillCalls
           t5 == t4 ++ ProjectCalls
           t6 == t5 ++ SettingCalls
           t7 == t6 ++ ResourceCalls
           t8 == t7 ++ AssistantCalls
           t9 == t8 ++ EngineerCalls
<1> HIDE DEF t2, t3, t4, t5, t6, t7, t8, t9
<1>1. DOMAIN SessionCalls \cap DOMAIN UserCalls = {}
  BY CallDomains
<1>2. Joined(SessionCalls, UserCalls, t2)
  BY <1>1, PlusLaw DEF t2
<1>3. DOMAIN t2 \cap DOMAIN EmployeeCalls = {}
  BY <1>2, CallDomains DEF Joined
<1>4. Joined(t2, EmployeeCalls, t3)
  BY <1>3, PlusLaw DEF t3
<1>5. DOMAIN t3 \cap DOMAIN SkillCalls = {}
  BY <1>2, <1>4, CallDomains DEF Joined
<1>6. Joined(t3, SkillCalls, t4)
  BY <1>5, PlusLaw DEF t4
<1>7. DOMAIN t4 \cap DOMAIN ProjectCalls = {}
  BY <1>2, <1>4, <1>6, CallDomains DEF Joined
<1>8. Joined(t4, ProjectCalls, t5)
  BY <1>7, PlusLaw DEF t5
<1>9. DOMAIN t5 \cap DOMAIN SettingCalls = {}
  BY <1>2, <1>4, <1>6, <1>8, CallDomains DEF Joined
<1>10. Joined(t5, SettingCalls, t6)
  BY <1>9, PlusLaw DEF t6
<1>11. DOMAIN t6 \cap DOMAIN ResourceCalls = {}
  BY <1>2, <1>4, <1>6, <1>8, <1>10, CallDomains DEF Joined
<1>12. Joined(t6, ResourceCalls, t7)
  BY <1>11, PlusLaw DEF t7
<1>13. DOMAIN t7 \cap DOMAIN AssistantCalls = {}
  BY <1>2, <1>4, <1>6, <1>8, <1>10, <1>12, CallDomains DEF Joined
<1>14. Joined(t7, AssistantCalls, t8)
  BY <1>13, PlusLaw DEF t8
<1>15. DOMAIN t8 \cap DOMAIN EngineerCalls = {}
  BY <1>2, <1>4, <1>6, <1>8, <1>10, <1>12, <1>14, CallDomains DEF Joined
<1>16. Joined(t8, EngineerCalls, t9)
  BY <1>15, PlusLaw DEF t9
<1>17. DOMAIN t9 \cap DOMAIN DetailCalls = {}
  BY <1>2, <1>4, <1>6, <1>8, <1>10, <1>12, <1>14, <1>16, CallDomains DEF Joined
<1>18. Joined(t9, DetailCalls, Calls)
  BY <1>17, PlusLaw DEF Calls, t2, t3, t4, t5, t6, t7, t8, t9
<1> QED
  BY <1>2, <1>4, <1>6, <1>8, <1>10, <1>12, <1>14, <1>16, <1>18, WithinTrans DEF Joined

\* The names of the screens.
LEMMA ScreenDomains ==
  /\ DOMAIN SessionScreens = {"welcome", "change_password"}
  /\ DOMAIN AdminMenu = {"ADMIN"}
  /\ DOMAIN UserScreens = {"manage_users", "view_all_users", "reactivate_user",
                           "reset_password", "deactivate_user"}
  /\ DOMAIN CreateUserScreen = {"create_user"}
  /\ DOMAIN EmployeeScreens = {"manage_employees", "view_all_employees", "update_employee",
                               "deactivate_employee", "assign_manager"}
  /\ DOMAIN SkillScreens = {"manage_skills", "add_skill", "update_skill_proficiency",
                            "remove_skill"}
  /\ DOMAIN ProjectScreens = {"manage_projects", "create_project", "view_projects",
                              "update_project"}
  /\ DOMAIN MilestoneScreens = {"manage_milestones", "add_milestone",
                                "update_milestone_status"}
  /\ DOMAIN AllocationsScreen = {"view_allocations"}
  /\ DOMAIN ConfigScreens = {"system_config", "update_api_key", "update_provider",
                             "update_scheduler_interval", "update_max_weekly_hours"}
  /\ DOMAIN ManagerMenu = {"MANAGER"}
  /\ DOMAIN DashboardScreens = {"resource_dashboard", "engineer_detail"}
  /\ DOMAIN MatchScreens = {"allocate_resource", "ai_allocate", "allocate_match"}
  /\ DOMAIN DirectScreens = {"direct_allocate", "end_allocation"}
  /\ DOMAIN MyProjectScreens = {"my_projects", "project_detail", "project_risk"}
  /\ DOMAIN TeamTimesheetScreens = {"team_timesheets", "employee_timesheet"}
  /\ DOMAIN AssistantScreens = {"ai_assistant", "skill_match", "risk_summary"}
  /\ DOMAIN TeamBuilderScreen = {"team_builder"}
  /\ DOMAIN EngineerMenu = {"ENGINEER"}
  /\ DOMAIN SubmitScreen = {"submit_timesheet"}
  /\ DOMAIN MyTimesheetScreens = {"my_timesheets", "week_detail"}
  /\ DOMAIN MyAllocationsScreen = {"my_allocations"}
BY DEF SessionScreens, AdminMenu, UserScreens, CreateUserScreen, EmployeeScreens, SkillScreens,
       ProjectScreens, MilestoneScreens, AllocationsScreen, ConfigScreens, ManagerMenu,
       DashboardScreens, MatchScreens, DirectScreens, MyProjectScreens, TeamTimesheetScreens,
       AssistantScreens, TeamBuilderScreen, EngineerMenu, SubmitScreen, MyTimesheetScreens,
       MyAllocationsScreen

\* Nor do two tables of screens.
LEMMA AdminLaw ==
  /\ Within(AdminMenu, AdminScreens)
  /\ Within(UserScreens, AdminScreens)
  /\ Within(CreateUserScreen, AdminScreens)
  /\ Within(EmployeeScreens, AdminScreens)
  /\ Within(SkillScreens, AdminScreens)
  /\ Within(ProjectScreens, AdminScreens)
  /\ Within(MilestoneScreens, AdminScreens)
  /\ Within(AllocationsScreen, AdminScreens)
  /\ Within(ConfigScreens, AdminScreens)
  /\ DOMAIN AdminScreens = DOMAIN AdminMenu \cup DOMAIN UserScreens \cup DOMAIN CreateUserScreen
                            \cup DOMAIN EmployeeScreens \cup DOMAIN SkillScreens
                            \cup DOMAIN ProjectScreens \cup DOMAIN MilestoneScreens
                            \cup DOMAIN AllocationsScreen \cup DOMAIN ConfigScreens
<1> DEFINE t2 == AdminMenu ++ UserScreens
           t3 == t2 ++ CreateUserScreen
           t4 == t3 ++ EmployeeScreens
           t5 == t4 ++ SkillScreens
           t6 == t5 ++ ProjectScreens
           t7 == t6 ++ MilestoneScreens
           t8 == t7 ++ AllocationsScreen
<1> HIDE DEF t2, t3, t4, t5, t6, t7, t8
<1>1. DOMAIN AdminMenu \cap DOMAIN UserScreens = {}
  BY ScreenDomains
<1>2. Joined(AdminMenu, UserScreens, t2)
  BY <1>1, PlusLaw DEF t2
<1>3. DOMAIN t2 \cap DOMAIN CreateUserScreen = {}
  BY <1>2, ScreenDomains DEF Joined
<1>4. Joined(t2, CreateUserScreen, t3)
  BY <1>3, PlusLaw DEF t3
<1>5. DOMAIN t3 \cap DOMAIN EmployeeScreens = {}
  BY <1>2, <1>4, ScreenDomains DEF Joined
<1>6. Joined(t3, EmployeeScreens, t4)
  BY <1>5, PlusLaw DEF t4
<1>7. DOMAIN t4 \cap DOMAIN SkillScreens = {}
  BY <1>2, <1>4, <1>6, ScreenDomains DEF Joined
<1>8. Joined(t4, SkillScreens, t5)
  BY <1>7, PlusLaw DEF t5
<1>9. DOMAIN t5 \cap DOMAIN ProjectScreens = {}
  BY <1>2, <1>4, <1>6, <1>8, ScreenDomains DEF Joined
<1>10. Joined(t5, ProjectScreens, t6)
  BY <1>9, PlusLaw DEF t6
<1>11. DOMAIN t6 \cap DOMAIN MilestoneScreens = {}
  BY <1>2, <1>4, <1>6, <1>8, <1>10, ScreenDomains DEF Joined
<1>12. Joined(t6, MilestoneScreens, t7)
  BY <1>11, PlusLaw DEF t7
<1>13. DOMAIN t7 \cap DOMAIN AllocationsScreen = {}
  BY <1>2, <1>4, <1>6, <1>8, <1>10, <1>12, ScreenDomains DEF Joined
<1>14. Joined(t7, AllocationsScreen, t8)
  BY <1>13, PlusLaw DEF t8
<1>15. DOMAIN t8 \cap DOMAIN ConfigScreens = {}
  BY <1>2, <1>4, <1>6, <1>8, <1>10, <1>12, <1>14, ScreenDomains DEF Joined
<1>16. Joined(t8, ConfigScreens, AdminScreens)
  BY <1>15, PlusLaw DEF AdminScreens, t2, t3, t4, t5, t6, t7, t8
<1> QED
  BY <1>2, <1>4, <1>6, <1>8, <1>10, <1>12, <1>14, <1>16, WithinTrans DEF Joined

LEMMA ManagerLaw ==
  /\ Within(ManagerMenu, ManagerScreens)
  /\ Within(DashboardScreens, ManagerScreens)
  /\ Within(MatchScreens, ManagerScreens)
  /\ Within(DirectScreens, ManagerScreens)
  /\ Within(MyProjectScreens, ManagerScreens)
  /\ Within(TeamTimesheetScreens, ManagerScreens)
  /\ Within(AssistantScreens, ManagerScreens)
  /\ Within(TeamBuilderScreen, ManagerScreens)
  /\ DOMAIN ManagerScreens = DOMAIN ManagerMenu \cup DOMAIN DashboardScreens
                              \cup DOMAIN MatchScreens \cup DOMAIN DirectScreens
                              \cup DOMAIN MyProjectScreens \cup DOMAIN TeamTimesheetScreens
                              \cup DOMAIN AssistantScreens \cup DOMAIN TeamBuilderScreen
<1> DEFINE t2 == ManagerMenu ++ DashboardScreens
           t3 == t2 ++ MatchScreens
           t4 == t3 ++ DirectScreens
           t5 == t4 ++ MyProjectScreens
           t6 == t5 ++ TeamTimesheetScreens
           t7 == t6 ++ AssistantScreens
<1> HIDE DEF t2, t3, t4, t5, t6, t7
<1>1. DOMAIN ManagerMenu \cap DOMAIN DashboardScreens = {}
  BY ScreenDomains
<1>2. Joined(ManagerMenu, DashboardScreens, t2)
  BY <1>1, PlusLaw DEF t2
<1>3. DOMAIN t2 \cap DOMAIN MatchScreens = {}
  BY <1>2, ScreenDomains DEF Joined
<1>4. Joined(t2, MatchScreens, t3)
  BY <1>3, PlusLaw DEF t3
<1>5. DOMAIN t3 \cap DOMAIN DirectScreens = {}
  BY <1>2, <1>4, ScreenDomains DEF Joined
<1>6. Joined(t3, DirectScreens, t4)
  BY <1>5, PlusLaw DEF t4
<1>7. DOMAIN t4 \cap DOMAIN MyProjectScreens = {}
  BY <1>2, <1>4, <1>6, ScreenDomains DEF Joined
<1>8. Joined(t4, MyProjectScreens, t5)
  BY <1>7, PlusLaw DEF t5
<1>9. DOMAIN t5 \cap DOMAIN TeamTimesheetScreens = {}
  BY <1>2, <1>4, <1>6, <1>8, ScreenDomains DEF Joined
<1>10. Joined(t5, TeamTimesheetScreens, t6)
  BY <1>9, PlusLaw DEF t6
<1>11. DOMAIN t6 \cap DOMAIN AssistantScreens = {}
  BY <1>2, <1>4, <1>6, <1>8, <1>10, ScreenDomains DEF Joined
<1>12. Joined(t6, AssistantScreens, t7)
  BY <1>11, PlusLaw DEF t7
<1>13. DOMAIN t7 \cap DOMAIN TeamBuilderScreen = {}
  BY <1>2, <1>4, <1>6, <1>8, <1>10, <1>12, ScreenDomains DEF Joined
<1>14. Joined(t7, TeamBuilderScreen, ManagerScreens)
  BY <1>13, PlusLaw DEF ManagerScreens, t2, t3, t4, t5, t6, t7
<1> QED
  BY <1>2, <1>4, <1>6, <1>8, <1>10, <1>12, <1>14, WithinTrans DEF Joined

LEMMA EngineerLaw ==
  /\ Within(EngineerMenu, EngineerScreens)
  /\ Within(SubmitScreen, EngineerScreens)
  /\ Within(MyTimesheetScreens, EngineerScreens)
  /\ Within(MyAllocationsScreen, EngineerScreens)
  /\ DOMAIN EngineerScreens = DOMAIN EngineerMenu \cup DOMAIN SubmitScreen
                               \cup DOMAIN MyTimesheetScreens \cup DOMAIN MyAllocationsScreen
<1> DEFINE t2 == EngineerMenu ++ SubmitScreen
           t3 == t2 ++ MyTimesheetScreens
<1> HIDE DEF t2, t3
<1>1. DOMAIN EngineerMenu \cap DOMAIN SubmitScreen = {}
  BY ScreenDomains
<1>2. Joined(EngineerMenu, SubmitScreen, t2)
  BY <1>1, PlusLaw DEF t2
<1>3. DOMAIN t2 \cap DOMAIN MyTimesheetScreens = {}
  BY <1>2, ScreenDomains DEF Joined
<1>4. Joined(t2, MyTimesheetScreens, t3)
  BY <1>3, PlusLaw DEF t3
<1>5. DOMAIN t3 \cap DOMAIN MyAllocationsScreen = {}
  BY <1>2, <1>4, ScreenDomains DEF Joined
<1>6. Joined(t3, MyAllocationsScreen, EngineerScreens)
  BY <1>5, PlusLaw DEF EngineerScreens, t2, t3
<1> QED
  BY <1>2, <1>4, <1>6, WithinTrans DEF Joined

LEMMA ScreensLaw ==
  /\ Within(SessionScreens, Screens)
  /\ Within(AdminScreens, Screens)
  /\ Within(ManagerScreens, Screens)
  /\ Within(EngineerScreens, Screens)
  /\ DOMAIN Screens = DOMAIN SessionScreens \cup DOMAIN AdminScreens \cup DOMAIN ManagerScreens
                       \cup DOMAIN EngineerScreens
<1> DEFINE t2 == SessionScreens ++ AdminScreens
           t3 == t2 ++ ManagerScreens
<1> HIDE DEF t2, t3
<1>1. DOMAIN SessionScreens \cap DOMAIN AdminScreens = {}
  BY AdminLaw, ManagerLaw, EngineerLaw, ScreenDomains
<1>2. Joined(SessionScreens, AdminScreens, t2)
  BY <1>1, PlusLaw DEF t2
<1>3. DOMAIN t2 \cap DOMAIN ManagerScreens = {}
  BY <1>2, AdminLaw, ManagerLaw, EngineerLaw, ScreenDomains DEF Joined
<1>4. Joined(t2, ManagerScreens, t3)
  BY <1>3, PlusLaw DEF t3
<1>5. DOMAIN t3 \cap DOMAIN EngineerScreens = {}
  BY <1>2, <1>4, AdminLaw, ManagerLaw, EngineerLaw, ScreenDomains DEF Joined
<1>6. Joined(t3, EngineerScreens, Screens)
  BY <1>5, PlusLaw DEF Screens, t2, t3
<1> QED
  BY <1>2, <1>4, <1>6, WithinTrans DEF Joined

\* What the claims and the permissions of a role let in.
Guards(role) == {"any", role} \cup Permissions[role]
HasRoute(call, guard) == <<Calls[call][1], Calls[call][2], guard>> \in Routes
Allowed(role) == {call \in DOMAIN Calls : \E guard \in Guards(role) : HasRoute(call, guard)}

\* The screens under the menu of a role.
Area(role) == CASE role = "ADMIN" -> DOMAIN AdminScreens
                [] role = "MANAGER" -> DOMAIN ManagerScreens
                [] role = "ENGINEER" -> DOMAIN EngineerScreens
                [] OTHER -> {role}

\* The forms that are opened from the list of the skills of an employee.
SkillForms == {"add_skill", "update_skill_proficiency", "remove_skill"}

\* How many screens are nested at most from a screen on.
Height(screen) ==
  CASE screen = "MANAGER" -> 6
    [] screen = "ai_assistant" -> 5
    [] screen \in {"ADMIN", "skill_match", "team_builder"} -> 4
    [] screen \in {"ENGINEER", "manage_employees", "manage_projects", "manage_users",
                   "allocate_resource", "my_projects"} -> 3
    [] screen \in {"view_all_users", "manage_skills", "manage_milestones", "system_config",
                   "resource_dashboard", "ai_allocate", "project_detail", "team_timesheets",
                   "my_timesheets"} -> 2
    [] OTHER -> 1

\* A screen of a role: it makes calls that the role is let into, at most two before it
\* prompts, and leads to screens of the role that are nested less deep.
Fits(screen, name, role) ==
  /\ screen.once \in Seq(Allowed(role)) /\ screen.each \in Seq(Allowed(role))
  /\ Len(screen.once) + Len(screen.each) <= 2
  /\ screen.write \in Allowed(role) \cup {Null}
  /\ screen.write \in DOMAIN SkillCalls => name \in SkillForms
  /\ screen.leads \subseteq Area(role)
  /\ \A next \in screen.leads : /\ Height(next) < Height(name)
                                /\ next \in SkillForms => name = "manage_skills"

Is(screen, once, each, write, leads) ==
  screen.once = once /\ screen.each = each /\ screen.write = write /\ screen.leads = leads

LEMMA NullIsNoCall == Null \notin DOMAIN Calls /\ Null \notin DOMAIN SkillCalls
BY CallsAssumption, CallsLaw DEF Within

LEMMA UserCallsAllowed == DOMAIN UserCalls \subseteq Allowed("ADMIN")
<1> DEFINE Goes(c, guard) == <<UserCalls[c][1], UserCalls[c][2], guard>> \in AdminUserRoutes
<1>1. /\ Goes("create_user", "user:create") /\ Goes("list_users", "ADMIN")
      /\ Goes("reset_user_password", "user:reset_password")
      /\ Goes("deactivate_user", "user:deactivate") /\ Goes("reactivate_user", "ADMIN")
  BY DEF UserCalls, AdminUserRoutes
<1>2. {"user:create", "ADMIN", "user:reset_password", "user:deactivate"}
        \subseteq Guards("ADMIN")
  BY DEF Guards, Permissions
<1>3. \A c \in DOMAIN UserCalls : c \in DOMAIN Calls /\ Calls[c] = UserCalls[c]
  BY CallsLaw DEF Within
<1> QED
  BY <1>1, <1>2, <1>3, CallDomains DEF Allowed, HasRoute, Routes

LEMMA EmployeeCallsAllowed == DOMAIN EmployeeCalls \subseteq Allowed("ADMIN")
<1> DEFINE Goes(c, guard) ==
             <<EmployeeCalls[c][1], EmployeeCalls[c][2], guard>> \in AdminEmployeeRoutes
<1>1. /\ Goes("list_employees", "engineer:manage") /\ Goes("get_employee", "engineer:manage")
      /\ Goes("update_employee", "engineer:manage")
      /\ Goes("deactivate_employee", "engineer:manage")
      /\ Goes("assign_manager", "engineer:assign_manager")
  BY DEF EmployeeCalls, AdminEmployeeRoutes
<1>2. {"engineer:manage", "engineer:assign_manager"} \subseteq Guards("ADMIN")
  BY DEF Guards, Permissions
<1>3. \A c \in DOMAIN EmployeeCalls : c \in DOMAIN Calls /\ Calls[c] = EmployeeCalls[c]
  BY CallsLaw DEF Within
<1> QED
  BY <1>1, <1>2, <1>3, CallDomains DEF Allowed, HasRoute, Routes

LEMMA SkillCallsAllowed == DOMAIN SkillCalls \subseteq Allowed("ADMIN")
<1> DEFINE Goes(c, guard) ==
             <<SkillCalls[c][1], SkillCalls[c][2], guard>> \in AdminEmployeeRoutes
<1>1. /\ Goes("list_user_skills", "skill:manage_any")
      /\ Goes("add_user_skill", "skill:manage_any")
      /\ Goes("update_user_skill", "skill:manage_any")
      /\ Goes("remove_user_skill", "skill:manage_any")
  BY DEF SkillCalls, AdminEmployeeRoutes
<1>2. {"skill:manage_any"} \subseteq Guards("ADMIN")
  BY DEF Guards, Permissions
<1>3. \A c \in DOMAIN SkillCalls : c \in DOMAIN Calls /\ Calls[c] = SkillCalls[c]
  BY CallsLaw DEF Within
<1> QED
  BY <1>1, <1>2, <1>3, CallDomains DEF Allowed, HasRoute, Routes

LEMMA ProjectCallsAllowed == DOMAIN ProjectCalls \subseteq Allowed("ADMIN")
<1> DEFINE Goes(c, guard) ==
             <<ProjectCalls[c][1], ProjectCalls[c][2], guard>> \in AdminProjectRoutes
<1>1. /\ Goes("create_project", "ADMIN") /\ Goes("list_projects", "ADMIN")
      /\ Goes("get_project", "ADMIN") /\ Goes("update_project", "ADMIN")
      /\ Goes("list_milestones", "ADMIN") /\ Goes("add_milestone", "ADMIN")
      /\ Goes("update_milestone_status", "ADMIN")
  BY DEF ProjectCalls, AdminProjectRoutes
<1>2. {"ADMIN"} \subseteq Guards("ADMIN")
  BY DEF Guards, Permissions
<1>3. \A c \in DOMAIN ProjectCalls : c \in DOMAIN Calls /\ Calls[c] = ProjectCalls[c]
  BY CallsLaw DEF Within
<1> QED
  BY <1>1, <1>2, <1>3, CallDomains DEF Allowed, HasRoute, Routes

LEMMA SettingCallsAllowed == DOMAIN SettingCalls \subseteq Allowed("ADMIN")
<1> DEFINE Goes(c, guard) ==
             <<SettingCalls[c][1], SettingCalls[c][2], guard>>
               \in AdminAllocationRoutes \cup AdminConfigRoutes
<1>1. /\ Goes("list_allocations", "ADMIN") /\ Goes("get_configuration", "ADMIN")
      /\ Goes("update_llm_api_key", "ADMIN") /\ Goes("update_llm_provider", "ADMIN")
      /\ Goes("update_scheduler_interval", "ADMIN") /\ Goes("update_max_weekly_hours", "ADMIN")
  BY DEF SettingCalls, AdminAllocationRoutes, AdminConfigRoutes
<1>2. {"ADMIN"} \subseteq Guards("ADMIN")
  BY DEF Guards, Permissions
<1>3. \A c \in DOMAIN SettingCalls : c \in DOMAIN Calls /\ Calls[c] = SettingCalls[c]
  BY CallsLaw DEF Within
<1> QED
  BY <1>1, <1>2, <1>3, CallDomains DEF Allowed, HasRoute, Routes

LEMMA ResourceCallsAllowed == DOMAIN ResourceCalls \subseteq Allowed("MANAGER")
<1> DEFINE Goes(c, guard) ==
             <<ResourceCalls[c][1], ResourceCalls[c][2], guard>> \in ManagerRoutes
<1>1. /\ Goes("get_resource_dashboard", "MANAGER")
      /\ Goes("get_engineer_resource_detail", "MANAGER")
      /\ Goes("list_manager_projects", "MANAGER") /\ Goes("get_manager_project", "MANAGER")
      /\ Goes("list_project_allocations", "MANAGER") /\ Goes("create_allocation", "MANAGER")
      /\ Goes("end_allocation", "MANAGER")
  BY DEF ResourceCalls, ManagerRoutes
<1>2. {"MANAGER"} \subseteq Guards("MANAGER")
  BY DEF Guards, Permissions
<1>3. \A c \in DOMAIN ResourceCalls : c \in DOMAIN Calls /\ Calls[c] = ResourceCalls[c]
  BY CallsLaw DEF Within
<1> QED
  BY <1>1, <1>2, <1>3, CallDomains DEF Allowed, HasRoute, Routes

LEMMA AssistantCallsAllowed == DOMAIN AssistantCalls \subseteq Allowed("MANAGER")
<1> DEFINE Goes(c, guard) ==
             <<AssistantCalls[c][1], AssistantCalls[c][2], guard>> \in ManagerRoutes
<1>1. /\ Goes("skill_match", "MANAGER") /\ Goes("team_match", "MANAGER")
      /\ Goes("get_risk_summary", "MANAGER") /\ Goes("list_team_timesheets", "MANAGER")
  BY DEF AssistantCalls, ManagerRoutes
<1>2. {"MANAGER"} \subseteq Guards("MANAGER")
  BY DEF Guards, Permissions
<1>3. \A c \in DOMAIN AssistantCalls : c \in DOMAIN Calls /\ Calls[c] = AssistantCalls[c]
  BY CallsLaw DEF Within
<1> QED
  BY <1>1, <1>2, <1>3, CallDomains DEF Allowed, HasRoute, Routes

LEMMA EngineerCallsAllowed == DOMAIN EngineerCalls \subseteq Allowed("ENGINEER")
<1> DEFINE Goes(c, guard) ==
             <<EngineerCalls[c][1], EngineerCalls[c][2], guard>> \in EngineerRoutes
<1>1. /\ Goes("list_allocations_for_week", "ENGINEER")
      /\ Goes("list_my_allocations", "ENGINEER") /\ Goes("submit_timesheet", "ENGINEER")
      /\ Goes("list_my_timesheets", "ENGINEER") /\ Goes("get_my_timesheet_detail", "ENGINEER")
  BY DEF EngineerCalls, EngineerRoutes
<1>2. {"ENGINEER"} \subseteq Guards("ENGINEER")
  BY DEF Guards, Permissions
<1>3. \A c \in DOMAIN EngineerCalls : c \in DOMAIN Calls /\ Calls[c] = EngineerCalls[c]
  BY CallsLaw DEF Within
<1> QED
  BY <1>1, <1>2, <1>3, CallDomains DEF Allowed, HasRoute, Routes

LEMMA DetailCallsAllowed == DOMAIN DetailCalls \subseteq Allowed("MANAGER")
<1> DEFINE Goes(c, guard) == <<DetailCalls[c][1], DetailCalls[c][2], guard>> \in ManagerRoutes
<1>1. /\ Goes("get_engineer_timesheet_detail", "MANAGER")
  BY DEF DetailCalls, ManagerRoutes
<1>2. {"MANAGER"} \subseteq Guards("MANAGER")
  BY DEF Guards, Permissions
<1>3. \A c \in DOMAIN DetailCalls : c \in DOMAIN Calls /\ Calls[c] = DetailCalls[c]
  BY CallsLaw DEF Within
<1> QED
  BY <1>1, <1>2, <1>3, CallDomains DEF Allowed, HasRoute, Routes

LEMMA AdminMenuFit == \A s \in DOMAIN AdminMenu : Fits(AdminMenu[s], s, "ADMIN")
<1>1. Is(AdminMenu["ADMIN"], << >>, << >>, Null,
            {"manage_users", "manage_employees", "manage_projects", "view_allocations",
             "system_config"})
  BY DEF Is, AdminMenu, Menu, Plain
<1>3. {"manage_employees", "manage_projects", "manage_users", "system_config",
       "view_allocations"} \subseteq DOMAIN AdminScreens
  BY ScreenDomains, AdminLaw
<1>4. Fits(AdminMenu["ADMIN"], "ADMIN", "ADMIN")
  BY <1>1, <1>3, NullIsNoCall, CallDomains DEF Is, Fits, Area, Height, SkillForms
<1> QED
  BY <1>4, ScreenDomains

LEMMA UserScreensFit == \A s \in DOMAIN UserScreens : Fits(UserScreens[s], s, "ADMIN")
<1>1. /\ Is(UserScreens["manage_users"], << >>, << >>, Null,
            {"create_user", "deactivate_user", "view_all_users", "reset_password"})
      /\ Is(UserScreens["view_all_users"], << >>, <<"list_users">>, Null, {"reactivate_user"})
      /\ Is(UserScreens["reactivate_user"], <<"list_users">>, << >>, "reactivate_user", {})
      /\ Is(UserScreens["reset_password"], <<"list_users">>, << >>, "reset_user_password", {})
      /\ Is(UserScreens["deactivate_user"], <<"list_users">>, << >>, "deactivate_user", {})
  BY DEF Is, UserScreens, Menu, Listing, Form, Plain
<1>2. {"deactivate_user", "list_users", "reactivate_user",
       "reset_user_password"} \subseteq Allowed("ADMIN")
  BY CallDomains, UserCallsAllowed
<1>3. {"create_user", "deactivate_user", "reactivate_user", "reset_password",
       "view_all_users"} \subseteq DOMAIN AdminScreens
  BY ScreenDomains, AdminLaw
<1>4. Fits(UserScreens["manage_users"], "manage_users", "ADMIN")
  BY <1>1, <1>2, <1>3, NullIsNoCall, CallDomains DEF Is, Fits, Area, Height, SkillForms
<1>5. Fits(UserScreens["view_all_users"], "view_all_users", "ADMIN")
  BY <1>1, <1>2, <1>3, NullIsNoCall, CallDomains DEF Is, Fits, Area, Height, SkillForms
<1>6. Fits(UserScreens["reactivate_user"], "reactivate_user", "ADMIN")
  BY <1>1, <1>2, <1>3, NullIsNoCall, CallDomains DEF Is, Fits, Area, Height, SkillForms
<1>7. Fits(UserScreens["reset_password"], "reset_password", "ADMIN")
  BY <1>1, <1>2, <1>3, NullIsNoCall, CallDomains DEF Is, Fits, Area, Height, SkillForms
<1>8. Fits(UserScreens["deactivate_user"], "deactivate_user", "ADMIN")
  BY <1>1, <1>2, <1>3, NullIsNoCall, CallDomains DEF Is, Fits, Area, Height, SkillForms
<1> QED
  BY <1>4, <1>5, <1>6, <1>7, <1>8, ScreenDomains

LEMMA CreateUserScreenFit ==
  \A s \in DOMAIN CreateUserScreen : Fits(CreateUserScreen[s], s, "ADMIN")
<1>1. Is(CreateUserScreen["create_user"], << >>, << >>, "create_user", {})
  BY DEF Is, CreateUserScreen, Form, Plain
<1>2. {"create_user"} \subseteq Allowed("ADMIN")
  BY CallDomains, UserCallsAllowed
<1>4. Fits(CreateUserScreen["create_user"], "create_user", "ADMIN")
  BY <1>1, <1>2, NullIsNoCall, CallDomains DEF Is, Fits, Area, Height, SkillForms
<1> QED
  BY <1>4, ScreenDomains

LEMMA EmployeeScreensFit ==
  \A s \in DOMAIN EmployeeScreens : Fits(EmployeeScreens[s], s, "ADMIN")
<1>1. /\ Is(EmployeeScreens["manage_employees"], << >>, << >>, Null,
            {"update_employee", "deactivate_employee", "assign_manager", "view_all_employees",
             "manage_skills"})
      /\ Is(EmployeeScreens["view_all_employees"], << >>, <<"list_employees">>, Null, {})
      /\ Is(EmployeeScreens["update_employee"], <<"get_employee">>, << >>, "update_employee",
            {})
      /\ Is(EmployeeScreens["deactivate_employee"], <<"get_employee", "list_allocations">>,
            << >>, "deactivate_employee",
            {})
      /\ Is(EmployeeScreens["assign_manager"], << >>, << >>, "assign_manager", {})
  BY DEF Is, EmployeeScreens, Menu, Listing, Form, Plain
<1>2. {"assign_manager", "deactivate_employee", "get_employee", "list_allocations",
       "list_employees", "update_employee"} \subseteq Allowed("ADMIN")
  BY CallDomains, EmployeeCallsAllowed, SettingCallsAllowed
<1>3. {"assign_manager", "deactivate_employee", "manage_skills", "update_employee",
       "view_all_employees"} \subseteq DOMAIN AdminScreens
  BY ScreenDomains, AdminLaw
<1>4. Fits(EmployeeScreens["manage_employees"], "manage_employees", "ADMIN")
  BY <1>1, <1>2, <1>3, NullIsNoCall, CallDomains DEF Is, Fits, Area, Height, SkillForms
<1>5. Fits(EmployeeScreens["view_all_employees"], "view_all_employees", "ADMIN")
  BY <1>1, <1>2, <1>3, NullIsNoCall, CallDomains DEF Is, Fits, Area, Height, SkillForms
<1>6. Fits(EmployeeScreens["update_employee"], "update_employee", "ADMIN")
  BY <1>1, <1>2, <1>3, NullIsNoCall, CallDomains DEF Is, Fits, Area, Height, SkillForms
<1>7. Fits(EmployeeScreens["deactivate_employee"], "deactivate_employee", "ADMIN")
  BY <1>1, <1>2, <1>3, NullIsNoCall, CallDomains DEF Is, Fits, Area, Height, SkillForms
<1>8. Fits(EmployeeScreens["assign_manager"], "assign_manager", "ADMIN")
  BY <1>1, <1>2, <1>3, NullIsNoCall, CallDomains DEF Is, Fits, Area, Height, SkillForms
<1> QED
  BY <1>4, <1>5, <1>6, <1>7, <1>8, ScreenDomains

LEMMA SkillScreensFit == \A s \in DOMAIN SkillScreens : Fits(SkillScreens[s], s, "ADMIN")
<1>1. /\ Is(SkillScreens["manage_skills"], <<"get_employee", "list_user_skills">>, << >>, Null,
            {"add_skill", "update_skill_proficiency", "remove_skill"})
      /\ Is(SkillScreens["add_skill"], << >>, << >>, "add_user_skill", {})
      /\ Is(SkillScreens["update_skill_proficiency"], << >>, << >>, "update_user_skill", {})
      /\ Is(SkillScreens["remove_skill"], << >>, << >>, "remove_user_skill", {})
  BY DEF Is, SkillScreens, Menu, Form, Plain
<1>2. {"add_user_skill", "get_employee", "list_user_skills", "remove_user_skill",
       "update_user_skill"} \subseteq Allowed("ADMIN")
  BY CallDomains, SkillCallsAllowed, EmployeeCallsAllowed
<1>3. {"add_skill", "remove_skill", "update_skill_proficiency"} \subseteq DOMAIN AdminScreens
  BY ScreenDomains, AdminLaw
<1>4. Fits(SkillScreens["manage_skills"], "manage_skills", "ADMIN")
  BY <1>1, <1>2, <1>3, NullIsNoCall, CallDomains DEF Is, Fits, Area, Height, SkillForms
<1>5. Fits(SkillScreens["add_skill"], "add_skill", "ADMIN")
  BY <1>1, <1>2, <1>3, NullIsNoCall, CallDomains DEF Is, Fits, Area, Height, SkillForms
<1>6. Fits(SkillScreens["update_skill_proficiency"], "update_skill_proficiency", "ADMIN")
  BY <1>1, <1>2, <1>3, NullIsNoCall, CallDomains DEF Is, Fits, Area, Height, SkillForms
<1>7. Fits(SkillScreens["remove_skill"], "remove_skill", "ADMIN")
  BY <1>1, <1>2, <1>3, NullIsNoCall, CallDomains DEF Is, Fits, Area, Height, SkillForms
<1> QED
  BY <1>4, <1>5, <1>6, <1>7, ScreenDomains

LEMMA ProjectScreensFit == \A s \in DOMAIN ProjectScreens : Fits(ProjectScreens[s], s, "ADMIN")
<1>1. /\ Is(ProjectScreens["manage_projects"], << >>, << >>, Null,
            {"create_project", "update_project", "view_projects", "manage_milestones"})
      /\ Is(ProjectScreens["create_project"], << >>, << >>, "create_project", {})
      /\ Is(ProjectScreens["view_projects"], <<"list_projects">>, << >>, Null, {})
      /\ Is(ProjectScreens["update_project"], <<"get_project">>, << >>, "update_project", {})
  BY DEF Is, ProjectScreens, Menu, View, Form, Plain
<1>2. {"create_project", "get_project", "list_projects",
       "update_project"} \subseteq Allowed("ADMIN")
  BY CallDomains, ProjectCallsAllowed
<1>3. {"create_project", "manage_milestones", "update_project",
       "view_projects"} \subseteq DOMAIN AdminScreens
  BY ScreenDomains, AdminLaw
<1>4. Fits(ProjectScreens["manage_projects"], "manage_projects", "ADMIN")
  BY <1>1, <1>2, <1>3, NullIsNoCall, CallDomains DEF Is, Fits, Area, Height, SkillForms
<1>5. Fits(ProjectScreens["create_project"], "create_project", "ADMIN")
  BY <1>1, <1>2, <1>3, NullIsNoCall, CallDomains DEF Is, Fits, Area, Height, SkillForms
<1>6. Fits(ProjectScreens["view_projects"], "view_projects", "ADMIN")
  BY <1>1, <1>2, <1>3, NullIsNoCall, CallDomains DEF Is, Fits, Area, Height, SkillForms
<1>7. Fits(ProjectScreens["update_project"], "update_project", "ADMIN")
  BY <1>1, <1>2, <1>3, NullIsNoCall, CallDomains DEF Is, Fits, Area, Height, SkillForms
<1> QED
  BY <1>4, <1>5, <1>6, <1>7, ScreenDomains

LEMMA MilestoneScreensFit ==
  \A s \in DOMAIN MilestoneScreens : Fits(MilestoneScreens[s], s, "ADMIN")
<1>1. /\ Is(MilestoneScreens["manage_milestones"], <<"get_project">>, <<"list_milestones">>,
            Null,
            {"add_milestone", "update_milestone_status"})
      /\ Is(MilestoneScreens["add_milestone"], << >>, << >>, "add_milestone", {})
      /\ Is(MilestoneScreens["update_milestone_status"], << >>, << >>,
            "update_milestone_status",
            {})
  BY DEF Is, MilestoneScreens, Listing, Form, Plain
<1>2. {"add_milestone", "get_project", "list_milestones",
       "update_milestone_status"} \subseteq Allowed("ADMIN")
  BY CallDomains, ProjectCallsAllowed
<1>3. {"add_milestone", "update_milestone_status"} \subseteq DOMAIN AdminScreens
  BY ScreenDomains, AdminLaw
<1>4. Fits(MilestoneScreens["manage_milestones"], "manage_milestones", "ADMIN")
  BY <1>1, <1>2, <1>3, NullIsNoCall, CallDomains DEF Is, Fits, Area, Height, SkillForms
<1>5. Fits(MilestoneScreens["add_milestone"], "add_milestone", "ADMIN")
  BY <1>1, <1>2, <1>3, NullIsNoCall, CallDomains DEF Is, Fits, Area, Height, SkillForms
<1>6. Fits(MilestoneScreens["update_milestone_status"], "update_milestone_status", "ADMIN")
  BY <1>1, <1>2, <1>3, NullIsNoCall, CallDomains DEF Is, Fits, Area, Height, SkillForms
<1> QED
  BY <1>4, <1>5, <1>6, ScreenDomains

LEMMA AllocationsScreenFit ==
  \A s \in DOMAIN AllocationsScreen : Fits(AllocationsScreen[s], s, "ADMIN")
<1>1. Is(AllocationsScreen["view_allocations"], << >>, <<"list_allocations">>, Null, {})
  BY DEF Is, AllocationsScreen, Listing, Plain
<1>2. {"list_allocations"} \subseteq Allowed("ADMIN")
  BY CallDomains, SettingCallsAllowed
<1>4. Fits(AllocationsScreen["view_allocations"], "view_allocations", "ADMIN")
  BY <1>1, <1>2, NullIsNoCall, CallDomains DEF Is, Fits, Area, Height, SkillForms
<1> QED
  BY <1>4, ScreenDomains

LEMMA ConfigScreensFit == \A s \in DOMAIN ConfigScreens : Fits(ConfigScreens[s], s, "ADMIN")
<1>1. /\ Is(ConfigScreens["system_config"], << >>, <<"get_configuration">>, Null,
            {"update_scheduler_interval", "update_max_weekly_hours", "update_api_key",
             "update_provider"})
      /\ Is(ConfigScreens["update_api_key"], << >>, << >>, "update_llm_api_key", {})
      /\ Is(ConfigScreens["update_provider"], << >>, << >>, "update_llm_provider", {})
      /\ Is(ConfigScreens["update_scheduler_interval"], << >>, << >>,
            "update_scheduler_interval",
            {})
      /\ Is(ConfigScreens["update_max_weekly_hours"], << >>, << >>, "update_max_weekly_hours",
            {})
  BY DEF Is, ConfigScreens, Listing, Form, Plain
<1>2. {"get_configuration", "update_llm_api_key", "update_llm_provider",
       "update_max_weekly_hours", "update_scheduler_interval"} \subseteq Allowed("ADMIN")
  BY CallDomains, SettingCallsAllowed
<1>3. {"update_api_key", "update_max_weekly_hours", "update_provider",
       "update_scheduler_interval"} \subseteq DOMAIN AdminScreens
  BY ScreenDomains, AdminLaw
<1>4. Fits(ConfigScreens["system_config"], "system_config", "ADMIN")
  BY <1>1, <1>2, <1>3, NullIsNoCall, CallDomains DEF Is, Fits, Area, Height, SkillForms
<1>5. Fits(ConfigScreens["update_api_key"], "update_api_key", "ADMIN")
  BY <1>1, <1>2, <1>3, NullIsNoCall, CallDomains DEF Is, Fits, Area, Height, SkillForms
<1>6. Fits(ConfigScreens["update_provider"], "update_provider", "ADMIN")
  BY <1>1, <1>2, <1>3, NullIsNoCall, CallDomains DEF Is, Fits, Area, Height, SkillForms
<1>7. Fits(ConfigScreens["update_scheduler_interval"], "update_scheduler_interval", "ADMIN")
  BY <1>1, <1>2, <1>3, NullIsNoCall, CallDomains DEF Is, Fits, Area, Height, SkillForms
<1>8. Fits(ConfigScreens["update_max_weekly_hours"], "update_max_weekly_hours", "ADMIN")
  BY <1>1, <1>2, <1>3, NullIsNoCall, CallDomains DEF Is, Fits, Area, Height, SkillForms
<1> QED
  BY <1>4, <1>5, <1>6, <1>7, <1>8, ScreenDomains

LEMMA ManagerMenuFit == \A s \in DOMAIN ManagerMenu : Fits(ManagerMenu[s], s, "MANAGER")
<1>1. Is(ManagerMenu["MANAGER"], << >>, << >>, Null,
            {"resource_dashboard", "allocate_resource", "my_projects", "team_timesheets",
             "ai_assistant"})
  BY DEF Is, ManagerMenu, Menu, Plain
<1>3. {"ai_assistant", "allocate_resource", "my_projects", "resource_dashboard",
       "team_timesheets"} \subseteq DOMAIN ManagerScreens
  BY ScreenDomains, ManagerLaw
<1>4. Fits(ManagerMenu["MANAGER"], "MANAGER", "MANAGER")
  BY <1>1, <1>3, NullIsNoCall, CallDomains DEF Is, Fits, Area, Height, SkillForms
<1> QED
  BY <1>4, ScreenDomains

LEMMA DashboardScreensFit ==
  \A s \in DOMAIN DashboardScreens : Fits(DashboardScreens[s], s, "MANAGER")
<1>1. /\ Is(DashboardScreens["resource_dashboard"], << >>, <<"get_resource_dashboard">>, Null,
            {"engineer_detail"})
      /\ Is(DashboardScreens["engineer_detail"], <<"get_engineer_resource_detail">>, << >>,
            Null,
            {})
  BY DEF Is, DashboardScreens, Listing, View, Plain
<1>2. {"get_engineer_resource_detail", "get_resource_dashboard"} \subseteq Allowed("MANAGER")
  BY CallDomains, ResourceCallsAllowed
<1>3. {"engineer_detail"} \subseteq DOMAIN ManagerScreens
  BY ScreenDomains, ManagerLaw
<1>4. Fits(DashboardScreens["resource_dashboard"], "resource_dashboard", "MANAGER")
  BY <1>1, <1>2, <1>3, NullIsNoCall, CallDomains DEF Is, Fits, Area, Height, SkillForms
<1>5. Fits(DashboardScreens["engineer_detail"], "engineer_detail", "MANAGER")
  BY <1>1, <1>2, <1>3, NullIsNoCall, CallDomains DEF Is, Fits, Area, Height, SkillForms
<1> QED
  BY <1>4, <1>5, ScreenDomains

LEMMA MatchScreensFit == \A s \in DOMAIN MatchScreens : Fits(MatchScreens[s], s, "MANAGER")
<1>1. /\ Is(MatchScreens["allocate_resource"], << >>, << >>, Null,
            {"end_allocation", "ai_allocate", "direct_allocate"})
      /\ Is(MatchScreens["ai_allocate"], <<"list_manager_projects", "skill_match">>, << >>,
            Null,
            {"allocate_match"})
      /\ Is(MatchScreens["allocate_match"], << >>, << >>, "create_allocation", {})
  BY DEF Is, MatchScreens, Menu, View, Form, Plain
<1>2. {"create_allocation", "list_manager_projects", "skill_match"} \subseteq Allowed("MANAGER")
  BY CallDomains, ResourceCallsAllowed, AssistantCallsAllowed
<1>3. {"ai_allocate", "allocate_match", "direct_allocate",
       "end_allocation"} \subseteq DOMAIN ManagerScreens
  BY ScreenDomains, ManagerLaw
<1>4. Fits(MatchScreens["allocate_resource"], "allocate_resource", "MANAGER")
  BY <1>1, <1>2, <1>3, NullIsNoCall, CallDomains DEF Is, Fits, Area, Height, SkillForms
<1>5. Fits(MatchScreens["ai_allocate"], "ai_allocate", "MANAGER")
  BY <1>1, <1>2, <1>3, NullIsNoCall, CallDomains DEF Is, Fits, Area, Height, SkillForms
<1>6. Fits(MatchScreens["allocate_match"], "allocate_match", "MANAGER")
  BY <1>1, <1>2, <1>3, NullIsNoCall, CallDomains DEF Is, Fits, Area, Height, SkillForms
<1> QED
  BY <1>4, <1>5, <1>6, ScreenDomains

LEMMA DirectScreensFit == \A s \in DOMAIN DirectScreens : Fits(DirectScreens[s], s, "MANAGER")
<1>1. /\ Is(DirectScreens["direct_allocate"], <<"list_manager_projects",
            "get_engineer_resource_detail">>, << >>, "create_allocation",
            {})
      /\ Is(DirectScreens["end_allocation"], <<"list_manager_projects",
            "list_project_allocations">>, << >>, "end_allocation",
            {})
  BY DEF Is, DirectScreens, Form, Plain
<1>2. {"create_allocation", "end_allocation", "get_engineer_resource_detail",
       "list_manager_projects", "list_project_allocations"} \subseteq Allowed("MANAGER")
  BY CallDomains, ResourceCallsAllowed
<1>4. Fits(DirectScreens["direct_allocate"], "direct_allocate", "MANAGER")
  BY <1>1, <1>2, NullIsNoCall, CallDomains DEF Is, Fits, Area, Height, SkillForms
<1>5. Fits(DirectScreens["end_allocation"], "end_allocation", "MANAGER")
  BY <1>1, <1>2, NullIsNoCall, CallDomains DEF Is, Fits, Area, Height, SkillForms
<1> QED
  BY <1>4, <1>5, ScreenDomains

LEMMA MyProjectScreensFit ==
  \A s \in DOMAIN MyProjectScreens : Fits(MyProjectScreens[s], s, "MANAGER")
<1>1. /\ Is(MyProjectScreens["my_projects"], << >>, <<"list_manager_projects">>, Null,
            {"project_detail"})
      /\ Is(MyProjectScreens["project_detail"], <<"get_manager_project">>, << >>, Null,
            {"project_risk"})
      /\ Is(MyProjectScreens["project_risk"], <<"get_risk_summary">>, << >>, Null, {})
  BY DEF Is, MyProjectScreens, Menu, Listing, View, Plain
<1>2. {"get_manager_project", "get_risk_summary",
       "list_manager_projects"} \subseteq Allowed("MANAGER")
  BY CallDomains, ResourceCallsAllowed, AssistantCallsAllowed
<1>3. {"project_detail", "project_risk"} \subseteq DOMAIN ManagerScreens
  BY ScreenDomains, ManagerLaw
<1>4. Fits(MyProjectScreens["my_projects"], "my_projects", "MANAGER")
  BY <1>1, <1>2, <1>3, NullIsNoCall, CallDomains DEF Is, Fits, Area, Height, SkillForms
<1>5. Fits(MyProjectScreens["project_detail"], "project_detail", "MANAGER")
  BY <1>1, <1>2, <1>3, NullIsNoCall, CallDomains DEF Is, Fits, Area, Height, SkillForms
<1>6. Fits(MyProjectScreens["project_risk"], "project_risk", "MANAGER")
  BY <1>1, <1>2, <1>3, NullIsNoCall, CallDomains DEF Is, Fits, Area, Height, SkillForms
<1> QED
  BY <1>4, <1>5, <1>6, ScreenDomains

LEMMA TeamTimesheetScreensFit ==
  \A s \in DOMAIN TeamTimesheetScreens : Fits(TeamTimesheetScreens[s], s, "MANAGER")
<1>1. /\ Is(TeamTimesheetScreens["team_timesheets"], << >>, <<"list_team_timesheets">>, Null,
            {"employee_timesheet"})
      /\ Is(TeamTimesheetScreens["employee_timesheet"], <<"get_engineer_timesheet_detail">>,
            << >>, Null,
            {})
  BY DEF Is, TeamTimesheetScreens, Listing, View, Plain
<1>2. {"get_engineer_timesheet_detail", "list_team_timesheets"} \subseteq Allowed("MANAGER")
  BY CallDomains, DetailCallsAllowed, AssistantCallsAllowed
<1>3. {"employee_timesheet"} \subseteq DOMAIN ManagerScreens
  BY ScreenDomains, ManagerLaw
<1>4. Fits(TeamTimesheetScreens["team_timesheets"], "team_timesheets", "MANAGER")
  BY <1>1, <1>2, <1>3, NullIsNoCall, CallDomains DEF Is, Fits, Area, Height, SkillForms
<1>5. Fits(TeamTimesheetScreens["employee_timesheet"], "employee_timesheet", "MANAGER")
  BY <1>1, <1>2, <1>3, NullIsNoCall, CallDomains DEF Is, Fits, Area, Height, SkillForms
<1> QED
  BY <1>4, <1>5, ScreenDomains

LEMMA AssistantScreensFit ==
  \A s \in DOMAIN AssistantScreens : Fits(AssistantScreens[s], s, "MANAGER")
<1>1. /\ Is(AssistantScreens["ai_assistant"], << >>, << >>, Null,
            {"skill_match", "risk_summary", "team_builder"})
      /\ Is(AssistantScreens["skill_match"], <<"list_manager_projects", "skill_match">>, << >>,
            Null,
            {"allocate_resource"})
      /\ Is(AssistantScreens["risk_summary"], <<"list_manager_projects", "get_risk_summary">>,
            << >>, Null,
            {})
  BY DEF Is, AssistantScreens, Menu, View, Plain
<1>2. {"get_risk_summary", "list_manager_projects", "skill_match"} \subseteq Allowed("MANAGER")
  BY CallDomains, AssistantCallsAllowed, ResourceCallsAllowed
<1>3. {"allocate_resource", "risk_summary", "skill_match",
       "team_builder"} \subseteq DOMAIN ManagerScreens
  BY ScreenDomains, ManagerLaw
<1>4. Fits(AssistantScreens["ai_assistant"], "ai_assistant", "MANAGER")
  BY <1>1, <1>2, <1>3, NullIsNoCall, CallDomains DEF Is, Fits, Area, Height, SkillForms
<1>5. Fits(AssistantScreens["skill_match"], "skill_match", "MANAGER")
  BY <1>1, <1>2, <1>3, NullIsNoCall, CallDomains DEF Is, Fits, Area, Height, SkillForms
<1>6. Fits(AssistantScreens["risk_summary"], "risk_summary", "MANAGER")
  BY <1>1, <1>2, <1>3, NullIsNoCall, CallDomains DEF Is, Fits, Area, Height, SkillForms
<1> QED
  BY <1>4, <1>5, <1>6, ScreenDomains

LEMMA TeamBuilderScreenFit ==
  \A s \in DOMAIN TeamBuilderScreen : Fits(TeamBuilderScreen[s], s, "MANAGER")
<1>1. Is(TeamBuilderScreen["team_builder"], <<"list_manager_projects", "team_match">>, << >>,
         Null,
            {"allocate_resource"})
  BY DEF Is, TeamBuilderScreen, View, Plain
<1>2. {"list_manager_projects", "team_match"} \subseteq Allowed("MANAGER")
  BY CallDomains, ResourceCallsAllowed, AssistantCallsAllowed
<1>3. {"allocate_resource"} \subseteq DOMAIN ManagerScreens
  BY ScreenDomains, ManagerLaw
<1>4. Fits(TeamBuilderScreen["team_builder"], "team_builder", "MANAGER")
  BY <1>1, <1>2, <1>3, NullIsNoCall, CallDomains DEF Is, Fits, Area, Height, SkillForms
<1> QED
  BY <1>4, ScreenDomains

LEMMA EngineerMenuFit == \A s \in DOMAIN EngineerMenu : Fits(EngineerMenu[s], s, "ENGINEER")
<1>1. Is(EngineerMenu["ENGINEER"], << >>, <<"list_my_timesheets", "list_allocations_for_week">>,
         Null,
            {"submit_timesheet", "my_timesheets", "my_allocations"})
  BY DEF Is, EngineerMenu, Menu, Plain
<1>2. {"list_allocations_for_week", "list_my_timesheets"} \subseteq Allowed("ENGINEER")
  BY CallDomains, EngineerCallsAllowed
<1>3. {"my_allocations", "my_timesheets", "submit_timesheet"} \subseteq DOMAIN EngineerScreens
  BY ScreenDomains, EngineerLaw
<1>4. Fits(EngineerMenu["ENGINEER"], "ENGINEER", "ENGINEER")
  BY <1>1, <1>2, <1>3, NullIsNoCall, CallDomains DEF Is, Fits, Area, Height, SkillForms
<1> QED
  BY <1>4, ScreenDomains

LEMMA SubmitScreenFit == \A s \in DOMAIN SubmitScreen : Fits(SubmitScreen[s], s, "ENGINEER")
<1>1. Is(SubmitScreen["submit_timesheet"], <<"list_allocations_for_week">>, << >>,
         "submit_timesheet",
            {})
  BY DEF Is, SubmitScreen, Form, Plain
<1>2. {"list_allocations_for_week", "submit_timesheet"} \subseteq Allowed("ENGINEER")
  BY CallDomains, EngineerCallsAllowed
<1>4. Fits(SubmitScreen["submit_timesheet"], "submit_timesheet", "ENGINEER")
  BY <1>1, <1>2, NullIsNoCall, CallDomains DEF Is, Fits, Area, Height, SkillForms
<1> QED
  BY <1>4, ScreenDomains

LEMMA MyTimesheetScreensFit ==
  \A s \in DOMAIN MyTimesheetScreens : Fits(MyTimesheetScreens[s], s, "ENGINEER")
<1>1. /\ Is(MyTimesheetScreens["my_timesheets"], << >>, <<"list_my_timesheets">>, Null,
            {"week_detail"})
      /\ Is(MyTimesheetScreens["week_detail"], <<"get_my_timesheet_detail">>, << >>, Null, {})
  BY DEF Is, MyTimesheetScreens, Listing, View, Plain
<1>2. {"get_my_timesheet_detail", "list_my_timesheets"} \subseteq Allowed("ENGINEER")
  BY CallDomains, EngineerCallsAllowed
<1>3. {"week_detail"} \subseteq DOMAIN EngineerScreens
  BY ScreenDomains, EngineerLaw
<1>4. Fits(MyTimesheetScreens["my_timesheets"], "my_timesheets", "ENGINEER")
  BY <1>1, <1>2, <1>3, NullIsNoCall, CallDomains DEF Is, Fits, Area, Height, SkillForms
<1>5. Fits(MyTimesheetScreens["week_detail"], "week_detail", "ENGINEER")
  BY <1>1, <1>2, <1>3, NullIsNoCall, CallDomains DEF Is, Fits, Area, Height, SkillForms
<1> QED
  BY <1>4, <1>5, ScreenDomains

LEMMA MyAllocationsScreenFit ==
  \A s \in DOMAIN MyAllocationsScreen : Fits(MyAllocationsScreen[s], s, "ENGINEER")
<1>1. Is(MyAllocationsScreen["my_allocations"], <<"list_my_allocations">>, << >>, Null, {})
  BY DEF Is, MyAllocationsScreen, View, Plain
<1>2. {"list_my_allocations"} \subseteq Allowed("ENGINEER")
  BY CallDomains, EngineerCallsAllowed
<1>4. Fits(MyAllocationsScreen["my_allocations"], "my_allocations", "ENGINEER")
  BY <1>1, <1>2, NullIsNoCall, CallDomains DEF Is, Fits, Area, Height, SkillForms
<1> QED
  BY <1>4, ScreenDomains

\* The screens that a console starts with.
Roots == {"welcome", "change_password", "ADMIN", "MANAGER", "ENGINEER"}

NRead(screen) == Len(Reads(Screens[screen]))

LEMMA ChangePasswordRoute == HasRoute("change_password", "any")
<1>1. Calls["change_password"] = <<"POST", "/auth/change-password">>
  BY CallsLaw, CallDomains DEF Within, SessionCalls
<1> QED
  BY <1>1 DEF HasRoute, Routes, AuthRoutes

LEMMA ScreensFit ==
  ASSUME NEW root \in Roots, NEW s \in Area(root)
  PROVE  s \in DOMAIN Screens /\ Fits(Screens[s], s, root)
<1>1. CASE root = "ADMIN"
  <2>1. s \in DOMAIN AdminScreens
    BY <1>1 DEF Area
  <2>2. Screens[s] = AdminScreens[s] /\ s \in DOMAIN Screens
    BY <2>1, ScreensLaw DEF Within
  <2>3. Fits(AdminScreens[s], s, "ADMIN")
    BY <2>1, AdminLaw, AdminMenuFit, UserScreensFit, CreateUserScreenFit, EmployeeScreensFit,
       SkillScreensFit, ProjectScreensFit, MilestoneScreensFit, AllocationsScreenFit,
       ConfigScreensFit DEF Within
  <2> QED
    BY <1>1, <2>2, <2>3
<1>2. CASE root = "MANAGER"
  <2>1. s \in DOMAIN ManagerScreens
    BY <1>2 DEF Area
  <2>2. Screens[s] = ManagerScreens[s] /\ s \in DOMAIN Screens
    BY <2>1, ScreensLaw DEF Within
  <2>3. Fits(ManagerScreens[s], s, "MANAGER")
    BY <2>1, ManagerLaw, ManagerMenuFit, DashboardScreensFit, MatchScreensFit, DirectScreensFit,
       MyProjectScreensFit, TeamTimesheetScreensFit, AssistantScreensFit, TeamBuilderScreenFit
       DEF Within
  <2> QED
    BY <1>2, <2>2, <2>3
<1>3. CASE root = "ENGINEER"
  <2>1. s \in DOMAIN EngineerScreens
    BY <1>3 DEF Area
  <2>2. Screens[s] = EngineerScreens[s] /\ s \in DOMAIN Screens
    BY <2>1, ScreensLaw DEF Within
  <2>3. Fits(EngineerScreens[s], s, "ENGINEER")
    BY <2>1, EngineerLaw, EngineerMenuFit, SubmitScreenFit, MyTimesheetScreensFit,
       MyAllocationsScreenFit DEF Within
  <2> QED
    BY <1>3, <2>2, <2>3
<1>4. CASE root \in {"welcome", "change_password"}
  <2>1. s = root /\ s \in DOMAIN SessionScreens
    BY <1>4, ScreenDomains DEF Area
  <2>2. Screens[s] = SessionScreens[s] /\ s \in DOMAIN Screens
    BY <2>1, ScreensLaw DEF Within
  <2>3. /\ Is(SessionScreens["welcome"], << >>, << >>, Null, {})
        /\ Is(SessionScreens["change_password"], << >>, << >>, "change_password", {})
    BY DEF Is, SessionScreens, Plain
  <2>4. "change_password" \in Allowed(root)
    BY CallDomains, CallsLaw, ChangePasswordRoute DEF Allowed, Guards
  <2>5. Fits(SessionScreens["welcome"], "welcome", "welcome")
    BY <2>3, NullIsNoCall DEF Is, Fits
  <2>6. root = "change_password" =>
          Fits(SessionScreens["change_password"], "change_password", "change_password")
    BY <2>3, <2>4, CallDomains DEF Is, Fits
  <2> QED
    BY <1>4, <2>1, <2>2, <2>5, <2>6
<1> QED
  BY <1>1, <1>2, <1>3, <1>4 DEF Roots

\* A console starts with a screen that stays, writes nothing but a password, and leads to
\* no screen that closes the one below.
LEMMA RootsLaw ==
  ASSUME NEW root \in Roots
  PROVE  /\ root \in Area(root) /\ root \notin SkillForms /\ 1 + Height(root) <= 7
         /\ Screens[root].stays
         /\ Screens[root].write \in {Null, "change_password"}
         /\ \A next \in Screens[root].leads : ~Screens[next].closes
<1>1. /\ SessionScreens["welcome"].stays /\ SessionScreens["welcome"].write = Null
      /\ SessionScreens["welcome"].leads = {}
      /\ SessionScreens["change_password"].stays /\ SessionScreens["change_password"].leads = {}
      /\ SessionScreens["change_password"].write = "change_password"
  BY DEF SessionScreens, Plain
<1>2. /\ AdminMenu["ADMIN"].stays /\ AdminMenu["ADMIN"].write = Null
      /\ AdminMenu["ADMIN"].leads = {"manage_employees", "manage_projects", "view_allocations",
                                     "manage_users", "system_config"}
  BY DEF AdminMenu, Menu, Plain
<1>3. /\ ManagerMenu["MANAGER"].stays /\ ManagerMenu["MANAGER"].write = Null
      /\ ManagerMenu["MANAGER"].leads = {"resource_dashboard", "allocate_resource",
                                         "my_projects", "team_timesheets", "ai_assistant"}
  BY DEF ManagerMenu, Menu, Plain
<1>4. /\ EngineerMenu["ENGINEER"].stays /\ EngineerMenu["ENGINEER"].write = Null
      /\ EngineerMenu["ENGINEER"].leads = {"submit_timesheet", "my_timesheets",
                                           "my_allocations"}
  BY DEF EngineerMenu, Menu, Plain
<1>5. /\ ~EmployeeScreens["manage_employees"].closes
      /\ ~ProjectScreens["manage_projects"].closes
      /\ ~AllocationsScreen["view_allocations"].closes
      /\ ~UserScreens["manage_users"].closes
      /\ ~ConfigScreens["system_config"].closes
  BY DEF EmployeeScreens, ProjectScreens, AllocationsScreen, UserScreens, ConfigScreens, Menu,
         Listing, Plain
<1>6. /\ ~DashboardScreens["resource_dashboard"].closes
      /\ ~MatchScreens["allocate_resource"].closes
      /\ ~MyProjectScreens["my_projects"].closes
      /\ ~TeamTimesheetScreens["team_timesheets"].closes
      /\ ~AssistantScreens["ai_assistant"].closes
  BY DEF DashboardScreens, MatchScreens, MyProjectScreens, TeamTimesheetScreens,
         AssistantScreens, Menu, Listing, Plain
<1>7. /\ ~SubmitScreen["submit_timesheet"].closes
      /\ ~MyTimesheetScreens["my_timesheets"].closes
      /\ ~MyAllocationsScreen["my_allocations"].closes
  BY DEF SubmitScreen, MyTimesheetScreens, MyAllocationsScreen, Form, Listing, View, Plain
<1>8. CASE root \in {"welcome", "change_password"}
  BY <1>1, <1>8, ScreenDomains, ScreensLaw DEF Within, Area, SkillForms, Height
<1>9. CASE root = "ADMIN"
  <2>1. \A s \in DOMAIN AdminScreens : Screens[s] = AdminScreens[s]
    BY ScreensLaw DEF Within
  <2>2. Screens["ADMIN"] = AdminMenu["ADMIN"] /\ "ADMIN" \in DOMAIN AdminScreens
    BY <2>1, AdminLaw, ScreenDomains DEF Within
  <2>3. /\ Screens["manage_employees"] = EmployeeScreens["manage_employees"]
        /\ Screens["manage_projects"] = ProjectScreens["manage_projects"]
        /\ Screens["view_allocations"] = AllocationsScreen["view_allocations"]
        /\ Screens["manage_users"] = UserScreens["manage_users"]
        /\ Screens["system_config"] = ConfigScreens["system_config"]
    BY <2>1, AdminLaw, ScreenDomains DEF Within
  <2> QED
    BY <1>2, <1>5, <1>9, <2>2, <2>3 DEF Area, SkillForms, Height
<1>10. CASE root = "MANAGER"
  <2>1. \A s \in DOMAIN ManagerScreens : Screens[s] = ManagerScreens[s]
    BY ScreensLaw DEF Within
  <2>2. Screens["MANAGER"] = ManagerMenu["MANAGER"] /\ "MANAGER" \in DOMAIN ManagerScreens
    BY <2>1, ManagerLaw, ScreenDomains DEF Within
  <2>3. /\ Screens["resource_dashboard"] = DashboardScreens["resource_dashboard"]
        /\ Screens["allocate_resource"] = MatchScreens["allocate_resource"]
        /\ Screens["my_projects"] = MyProjectScreens["my_projects"]
        /\ Screens["team_timesheets"] = TeamTimesheetScreens["team_timesheets"]
        /\ Screens["ai_assistant"] = AssistantScreens["ai_assistant"]
    BY <2>1, ManagerLaw, ScreenDomains DEF Within
  <2> QED
    BY <1>3, <1>6, <1>10, <2>2, <2>3 DEF Area, SkillForms, Height
<1>11. CASE root = "ENGINEER"
  <2>1. \A s \in DOMAIN EngineerScreens : Screens[s] = EngineerScreens[s]
    BY ScreensLaw DEF Within
  <2>2. Screens["ENGINEER"] = EngineerMenu["ENGINEER"] /\ "ENGINEER" \in DOMAIN EngineerScreens
    BY <2>1, EngineerLaw, ScreenDomains DEF Within
  <2>3. /\ Screens["submit_timesheet"] = SubmitScreen["submit_timesheet"]
        /\ Screens["my_timesheets"] = MyTimesheetScreens["my_timesheets"]
        /\ Screens["my_allocations"] = MyAllocationsScreen["my_allocations"]
    BY <2>1, EngineerLaw, ScreenDomains DEF Within
  <2> QED
    BY <1>4, <1>7, <1>11, <2>2, <2>3 DEF Area, SkillForms, Height
<1> QED
  BY <1>8, <1>9, <1>10, <1>11 DEF Roots

\* The list of the skills of an employee is the last thing that its screen reads.
LEMMA SkillListLaw ==
  /\ Reads(Screens["manage_skills"]) = <<"get_employee", "list_user_skills">>
  /\ Screens["manage_skills"].once = <<"get_employee", "list_user_skills">>
  /\ Screens["manage_skills"].skips = {}
<1>1. Screens["manage_skills"] = SkillScreens["manage_skills"]
  BY ScreensLaw, AdminLaw, ScreenDomains DEF Within
<1>2. /\ SkillScreens["manage_skills"].once = <<"get_employee", "list_user_skills">>
      /\ SkillScreens["manage_skills"].each = << >> /\ SkillScreens["manage_skills"].skips = {}
  BY DEF SkillScreens, Menu, Plain
<1>3. <<"get_employee", "list_user_skills">> \o << >> = <<"get_employee", "list_user_skills">>
  OBVIOUS
<1> QED
  BY <1>1, <1>2, <1>3 DEF Reads

\* What a screen of a role reads.
LEMMA ReadsLaw ==
  ASSUME NEW root \in Roots, NEW s \in Area(root)
  PROVE  /\ Reads(Screens[s]) \in Seq(Allowed(root))
         /\ NRead(s) = Len(Screens[s].once) + Len(Screens[s].each)
         /\ NRead(s) \in 0 .. 2
         /\ Len(Screens[s].once) \in 0 .. NRead(s)
<1>1. Fits(Screens[s], s, root)
  BY ScreensFit
<1>2. /\ Screens[s].once \in Seq(Allowed(root)) /\ Screens[s].each \in Seq(Allowed(root))
      /\ Len(Screens[s].once) + Len(Screens[s].each) <= 2
  BY <1>1 DEF Fits
<1>3. /\ Reads(Screens[s]) \in Seq(Allowed(root))
      /\ Len(Reads(Screens[s])) = Len(Screens[s].once) + Len(Screens[s].each)
  BY <1>2 DEF Reads
<1> DEFINE once == Len(Screens[s].once)
           each == Len(Screens[s].each)
<1>4. once \in Nat /\ each \in Nat /\ once + each <= 2 /\ NRead(s) = once + each
  <2>1. ASSUME NEW seq \in Seq(Allowed(root)) PROVE Len(seq) \in Nat
    OBVIOUS
  <2>2. once \in Nat /\ each \in Nat
    BY <1>2, <2>1
  <2>3. once + each <= 2
    BY <1>2
  <2>4. NRead(s) = once + each
    BY <1>3 DEF NRead
  <2> QED
    BY <2>2, <2>3, <2>4
<1>5. NRead(s) \in 0 .. 2 /\ once \in 0 .. NRead(s)
  <2> HIDE DEF once, each
  <2> QED
    BY <1>4
<1> QED
  <2>1. NRead(s) = Len(Screens[s].once) + Len(Screens[s].each)
    BY <1>4
  <2>2. Len(Screens[s].once) \in 0 .. NRead(s)
    BY <1>5
  <2>3. Reads(Screens[s]) \in Seq(Allowed(root))
    BY <1>3
  <2> QED
    BY <1>5, <2>1, <2>2, <2>3

-----------------------------------------------------------------------------
(***************************************************************************)
(* The screens of a console. Each was opened from the one below, so that   *)
(* they are nested as deep at most as the heights of the tables say.       *)
(***************************************************************************)

\* Least elements.
LEMMA LeastExists ==
  ASSUME NEW S, S \subseteq Nat, S # {}
  PROVE  \E i \in S : \A j \in S : i <= j
<1>1. PICK i \in S : \A j \in S : ~ (<<j, i>> \in OpToRel(<, Nat))
  BY NatLessThanWellFounded, WFMin, Zenon
<1>2. \A j \in S : ~ (j < i)
  BY <1>1 DEF OpToRel
<1> QED
  BY <1>2

\* The screens of a console whose lists have rows of R.
Frames(R) == [screen : DOMAIN Screens, done : 0 .. 2, user : Users \cup {Null}, rows : Seq(R)]

\* A screen at depth d of a console that started with root.
Placed(f, d, root) ==
  /\ f.screen \in Area(root)
  /\ d + Height(f.screen) <= 7
  /\ f.done \in 0 .. NRead(f.screen)
  /\ f.screen = "manage_skills" /\ f.done = NRead(f.screen) => f.user \in Users

\* Each screen was opened from the prompt of the one below.
Nested(fs, R) ==
  /\ fs \in Seq(Frames(R)) /\ fs # << >>
  /\ fs[1].screen \in Roots
  /\ \A d \in 1 .. Len(fs) : Placed(fs[d], d, fs[1].screen)
  /\ \A d \in 1 .. Len(fs) - 1 : /\ fs[d].done = NRead(fs[d].screen)
                                 /\ fs[d + 1].screen \in Screens[fs[d].screen].leads

LEMMA HeightLaw == \A screen : Height(screen) \in 1 .. 6
BY DEF Height

LEMMA FrameLaw ==
  ASSUME NEW R, NEW root \in Roots, NEW s \in Area(root)
  PROVE  /\ Frame(s) \in Frames(R)
         /\ Frame(s).screen = s /\ Frame(s).done = 0 /\ Frame(s).done \in 0 .. NRead(s)
<1>1. s \in DOMAIN Screens /\ NRead(s) \in 0 .. 2
  BY ScreensFit, ReadsLaw
<1>2. << >> \in Seq(R)
  OBVIOUS
<1> QED
  BY <1>1, <1>2 DEF Frame, Frames

LEMMA RootLaw ==
  ASSUME NEW R, NEW root \in Roots
  PROVE  Nested(<<Frame(root)>>, R) /\ <<Frame(root)>>[1].screen = root
<1> DEFINE fs == <<Frame(root)>>
<1>1. /\ Frame(root) \in Frames(R) /\ Frame(root).screen = root
      /\ Frame(root).done \in 0 .. NRead(root)
      /\ root \in Area(root) /\ 1 + Height(root) <= 7 /\ root # "manage_skills"
  BY FrameLaw, RootsLaw DEF Roots
<1>2. Placed(Frame(root), 1, root)
  BY <1>1 DEF Placed
<1>3. fs \in Seq(Frames(R)) /\ fs # << >> /\ fs[1] = Frame(root) /\ Len(fs) = 1
  BY <1>1
<1> HIDE DEF fs
<1> QED
  BY <1>1, <1>2, <1>3 DEF Nested, fs

\* The top screen reads.
LEMMA TopLaw ==
  ASSUME NEW R, NEW fs, Nested(fs, R), NEW f \in Frames(R),
         f.screen = fs[Len(fs)].screen, Placed(f, Len(fs), fs[1].screen)
  PROVE  /\ Nested([fs EXCEPT ![Len(fs)] = f], R)
         /\ [fs EXCEPT ![Len(fs)] = f][1].screen = fs[1].screen
<1> DEFINE gs == [fs EXCEPT ![Len(fs)] = f]
           n == Len(fs)
<1>1. fs \in Seq(Frames(R)) /\ n \in Nat /\ n >= 1
  BY DEF Nested
<1>2. gs \in Seq(Frames(R)) /\ Len(gs) = n /\ gs # << >>
  BY <1>1
<1>3. gs[n] = f /\ \A d \in 1 .. n : d # n => gs[d] = fs[d]
  BY <1>1
<1> HIDE DEF gs
<1>4. \A d \in 1 .. n : gs[d].screen = fs[d].screen
  BY <1>3
<1>5. gs[1].screen = fs[1].screen
  BY <1>1, <1>4
<1> HIDE DEF n
<1>6. \A d \in 1 .. n : Placed(gs[d], d, gs[1].screen)
  <2>1. \A d \in 1 .. n : Placed(fs[d], d, fs[1].screen)
    BY DEF Nested, n
  <2> QED
    BY <2>1, <1>3, <1>5 DEF n
<1>7. \A d \in 1 .. n - 1 : /\ gs[d].done = NRead(gs[d].screen)
                            /\ gs[d + 1].screen \in Screens[gs[d].screen].leads
  <2> TAKE d \in 1 .. n - 1
  <2>1. d \in 1 .. n /\ d + 1 \in 1 .. n /\ d # n
    BY <1>1
  <2>2. fs[d].done = NRead(fs[d].screen) /\ fs[d + 1].screen \in Screens[fs[d].screen].leads
    BY DEF Nested, n
  <2>3. gs[d] = fs[d] /\ gs[d + 1].screen = fs[d + 1].screen
    BY <2>1, <1>3, <1>4
  <2> QED
    BY <2>2, <2>3
<1>8. fs[1].screen \in Roots
  BY DEF Nested
<1> QED
  BY <1>2, <1>5, <1>6, <1>7, <1>8 DEF Nested, gs

\* Screens are closed.
LEMMA PrefixLaw ==
  ASSUME NEW R, NEW fs, Nested(fs, R), NEW n \in 1 .. Len(fs)
  PROVE  /\ Nested(SubSeq(fs, 1, n), R) /\ Len(SubSeq(fs, 1, n)) = n
         /\ SubSeq(fs, 1, n)[1] = fs[1] /\ SubSeq(fs, 1, n)[n] = fs[n]
<1> DEFINE gs == SubSeq(fs, 1, n)
<1>1. fs \in Seq(Frames(R)) /\ Len(fs) \in Nat
  BY DEF Nested
<1>2. gs \in Seq(Frames(R)) /\ Len(gs) = n /\ \A d \in 1 .. n : gs[d] = fs[d]
  BY <1>1
<1> HIDE DEF gs
<1>3. gs # << >> /\ gs[1] = fs[1] /\ gs[n] = fs[n]
  BY <1>2
<1>4. gs[1].screen \in Roots
  BY <1>3 DEF Nested
<1>5. \A d \in 1 .. n : Placed(gs[d], d, gs[1].screen)
  BY <1>1, <1>2, <1>3 DEF Nested
<1>6. \A d \in 1 .. n - 1 : /\ gs[d].done = NRead(gs[d].screen)
                            /\ gs[d + 1].screen \in Screens[gs[d].screen].leads
  <2> TAKE d \in 1 .. n - 1
  <2>1. d \in 1 .. n /\ d + 1 \in 1 .. n /\ d \in 1 .. Len(fs) - 1
    BY <1>1
  <2>2. fs[d].done = NRead(fs[d].screen) /\ fs[d + 1].screen \in Screens[fs[d].screen].leads
    BY <2>1 DEF Nested
  <2> QED
    BY <2>1, <2>2, <1>2
<1> QED
  BY <1>2, <1>3, <1>4, <1>5, <1>6 DEF Nested, gs

\* A screen is opened.
LEMMA AppendLaw ==
  ASSUME NEW R, NEW fs, Nested(fs, R), fs[Len(fs)].done = NRead(fs[Len(fs)].screen),
         NEW screen \in Screens[fs[Len(fs)].screen].leads
  PROVE  /\ Nested(Append(fs, Frame(screen)), R)
         /\ Append(fs, Frame(screen))[1] = fs[1]
<1> DEFINE gs == Append(fs, Frame(screen))
           n == Len(fs)
           root == fs[1].screen
<1>1. /\ fs \in Seq(Frames(R)) /\ n \in Nat /\ n >= 1 /\ root \in Roots
      /\ Placed(fs[n], n, root)
  BY DEF Nested
<1>2. Fits(Screens[fs[n].screen], fs[n].screen, root)
  BY <1>1, ScreensFit DEF Placed
<1>3. /\ screen \in Area(root) /\ Height(screen) < Height(fs[n].screen)
      /\ screen \in SkillForms => fs[n].screen = "manage_skills"
  BY <1>2 DEF Fits
<1>4. /\ Frame(screen) \in Frames(R) /\ Frame(screen).screen = screen
      /\ Frame(screen).done = 0 /\ Frame(screen).done \in 0 .. NRead(screen)
  BY <1>1, <1>3, FrameLaw
<1>5. Placed(Frame(screen), n + 1, root)
  <2>1. n + 1 + Height(screen) <= 7
    <3>1. n + Height(fs[n].screen) <= 7
      BY <1>1 DEF Placed
    <3>2. Height(screen) \in 1 .. 6 /\ Height(fs[n].screen) \in 1 .. 6
      BY HeightLaw
    <3> HIDE DEF n
    <3> QED
      BY <1>1, <1>3, <3>1, <3>2
  <2>2. screen = "manage_skills" => Frame(screen).done # NRead(screen)
    <3>1. NRead("manage_skills") = 2
      BY SkillListLaw DEF NRead
    <3> QED
      BY <1>4, <3>1
  <2> QED
    BY <1>3, <1>4, <2>1, <2>2 DEF Placed
<1>6. /\ gs \in Seq(Frames(R)) /\ Len(gs) = n + 1 /\ gs[n + 1] = Frame(screen)
      /\ \A d \in 1 .. n : gs[d] = fs[d]
  BY <1>1, <1>4
<1> HIDE DEF gs
<1>7. gs # << >> /\ gs[1] = fs[1]
  BY <1>1, <1>6
<1>8. \A d \in 1 .. n + 1 : Placed(gs[d], d, gs[1].screen)
  <2> TAKE d \in 1 .. n + 1
  <2>1. CASE d = n + 1
    BY <2>1, <1>5, <1>6, <1>7
  <2>2. CASE d # n + 1
    <3>1. d \in 1 .. n
      BY <1>1, <2>2
    <3>2. Placed(fs[d], d, root)
      BY <3>1 DEF Nested
    <3> QED
      BY <3>1, <3>2, <1>6, <1>7
  <2> QED
    BY <2>1, <2>2
<1>9. \A d \in 1 .. n : /\ gs[d].done = NRead(gs[d].screen)
                        /\ gs[d + 1].screen \in Screens[gs[d].screen].leads
  <2> TAKE d \in 1 .. n
  <2>1. CASE d = n
    BY <2>1, <1>4, <1>6
  <2>2. CASE d # n
    <3>1. d \in 1 .. n - 1 /\ d + 1 \in 1 .. n
      BY <1>1, <2>2
    <3>2. fs[d].done = NRead(fs[d].screen) /\ fs[d + 1].screen \in Screens[fs[d].screen].leads
      BY <3>1 DEF Nested
    <3> QED
      BY <3>1, <3>2, <1>6
  <2> QED
    BY <2>1, <2>2
<1>10. n + 1 - 1 = n
  BY <1>1
<1> QED
  BY <1>1, <1>6, <1>7, <1>8, <1>9, <1>10 DEF Nested, gs

\* The first screen stays, so that there is one to return to.
LEMMA BelowLaw ==
  ASSUME NEW R, NEW fs, Nested(fs, R), Len(fs) > 1
  PROVE  Nested(Below(fs), R) /\ Below(fs)[1].screen = fs[1].screen
<1> DEFINE n == Len(fs)
           root == fs[1].screen
           Stays(d) == Screens[fs[d].screen].stays
           Last(d) == Stays(d) /\ \A e \in d + 1 .. n - 1 : ~Stays(e)
<1>1. n \in Nat /\ n > 1 /\ root \in Roots /\ fs \in Seq(Frames(R))
  BY DEF Nested
<1>2. Stays(1)
  BY <1>1, RootsLaw
<1>3. \E d \in 1 .. n - 1 : Last(d)
  <2> DEFINE S == {m \in 1 .. n - 1 : Stays(n - m)}
  <2> HIDE DEF Stays
  <2>1. n - (n - 1) = 1 /\ n - 1 \in 1 .. n - 1
    BY <1>1
  <2>2. n - 1 \in S
    <3>1. Stays(n - (n - 1))
      BY <2>1, <1>2
    <3> QED
      BY <2>1, <3>1
  <2>3. S \subseteq Nat /\ S # {}
    <3>1. S \subseteq 1 .. n - 1 /\ S # {}
      BY <2>2
    <3>2. 1 .. n - 1 \subseteq Nat
      BY <1>1
    <3> HIDE DEF S
    <3> QED
      BY <3>1, <3>2
  <2> HIDE DEF S
  <2>4. PICK m \in S : \A j \in S : m <= j
    BY <2>3, LeastExists
  <2>5. m \in 1 .. n - 1 /\ Stays(n - m)
    BY DEF S
  <2>6. ASSUME NEW e \in n - m + 1 .. n - 1, Stays(e) PROVE FALSE
    <3>1. n - e \in 1 .. n - 1 /\ n - (n - e) = e /\ n - e < m
      BY <1>1, <2>5
    <3>2. n - e \in S
      BY <3>1, <2>6 DEF S
    <3> QED
      BY <1>1, <2>4, <2>5, <3>1, <3>2
  <2>7. n - m \in 1 .. n - 1
    BY <1>1, <2>5
  <2>8. Last(n - m)
    BY <2>5, <2>6
  <2> QED
    BY <2>7, <2>8
<1> DEFINE depth == CHOOSE d \in 1 .. n - 1 : Last(d)
           gs == SubSeq(fs, 1, depth)
           f == [fs[depth] EXCEPT !.done = Len(Screens[fs[depth].screen].once)]
<1>4. depth \in 1 .. n - 1
  BY <1>3
<1>5. Below(fs) = [gs EXCEPT ![depth].done = Len(Screens[fs[depth].screen].once)]
  BY DEF Below
<1> HIDE DEF depth
<1>6. depth \in 1 .. n /\ fs[depth] \in Frames(R) /\ Placed(fs[depth], depth, root)
  BY <1>1, <1>4 DEF Nested
<1>7. /\ Nested(gs, R) /\ Len(gs) = depth
      /\ gs[1] = fs[1] /\ gs[depth] = fs[depth]
  BY <1>6, PrefixLaw
<1>8. gs \in Seq(Frames(R))
  BY <1>7 DEF Nested
<1> HIDE DEF gs
<1>9. Below(fs) = [gs EXCEPT ![depth] = f]
  BY <1>5, <1>7, <1>8
<1>10. f \in Frames(R) /\ Placed(f, depth, root) /\ f.screen = fs[depth].screen
  <2> DEFINE k == Len(Screens[fs[depth].screen].once)
  <2>1. k \in 0 .. NRead(fs[depth].screen) /\ NRead(fs[depth].screen) \in 0 .. 2
    BY <1>1, <1>6, ReadsLaw DEF Placed
  <2>2. fs[depth].screen = "manage_skills" => fs[depth].user \in Users
    BY <1>4, <1>6 DEF Nested, Placed
  <2> HIDE DEF k
  <2>3. f = [fs[depth] EXCEPT !.done = k]
    BY DEF k
  <2>4. k \in 0 .. 2
    BY <2>1
  <2>5. /\ f \in Frames(R) /\ f.screen = fs[depth].screen /\ f.user = fs[depth].user
        /\ f.done = k
    BY <1>6, <2>3, <2>4 DEF Frames
  <2> QED
    BY <1>6, <2>1, <2>2, <2>5 DEF Placed
<1> HIDE DEF f
<1>11. f.screen = gs[Len(gs)].screen /\ Placed(f, Len(gs), gs[1].screen)
  BY <1>7, <1>10
<1>12. /\ Nested([gs EXCEPT ![Len(gs)] = f], R)
       /\ [gs EXCEPT ![Len(gs)] = f][1].screen = gs[1].screen
  BY <1>7, <1>10, <1>11, TopLaw
<1> QED
  BY <1>7, <1>9, <1>12

-----------------------------------------------------------------------------
(***************************************************************************)
(* The list of the skills of an employee has a row for every number.       *)
(***************************************************************************)

\* The rows of a user are numbered in the order of their ids, and every number has a row.
LEMMA ListLaw ==
  ASSUME NEW N \in Nat, \A row \in assigned : row.id \in 1 .. N,
         \A row, other \in assigned : row.id = other.id => row = other, NEW u
  PROVE  ListForUser(u) \in Seq(assigned)
<1> DEFINE rows == {row \in assigned : row.user = u}
           Until(row) == {other \in rows : other.id <= row.id}
           Rank(row) == Cardinality(Until(row))
<1>1. \A row \in rows : row \in assigned /\ row.id \in 1 .. N
  OBVIOUS
<1>2. \A row, other \in rows : row.id = other.id => row = other
  OBVIOUS
<1>3. ListForUser(u) = [n \in 1 .. Cardinality(rows) |-> CHOOSE row \in rows : Rank(row) = n]
  BY DEF ListForUser
<1> HIDE DEF rows
<1>4. IsFiniteSet(rows) /\ Cardinality(rows) \in Nat
  <2> DEFINE f == [row \in rows |-> row.id]
  <2>1. f \in Injection(rows, 1 .. N)
    BY <1>1, <1>2 DEF Injection, IsInjective
  <2>2. IsFiniteSet(1 .. N)
    BY FS_Interval
  <2> HIDE DEF f
  <2> QED
    BY <2>1, <2>2, FS_Injection, FS_CardinalityType
<1>5. ASSUME NEW row \in rows
      PROVE  /\ IsFiniteSet(Until(row)) /\ row \in Until(row) /\ Until(row) \subseteq rows
             /\ Rank(row) \in 1 .. Cardinality(rows)
  <2>1. row \in Until(row) /\ Until(row) \subseteq rows
    BY <1>1
  <2> HIDE DEF Until
  <2>2. IsFiniteSet(Until(row)) /\ Cardinality(Until(row)) <= Cardinality(rows)
    BY <1>4, <2>1, FS_Subset
  <2>3. Cardinality(Until(row)) \in Nat /\ Cardinality(Until(row)) # 0
    BY <2>1, <2>2, FS_CardinalityType, FS_EmptySet
  <2> QED
    BY <1>4, <2>1, <2>2, <2>3
<1>6. ASSUME NEW row \in rows, NEW other \in rows, row.id < other.id
      PROVE  Rank(row) # Rank(other)
  <2>1. Until(row) \subseteq Until(other) /\ other \notin Until(row)
    BY <1>1, <1>6
  <2>2. other \in Until(other) /\ IsFiniteSet(Until(other))
    BY <1>5
  <2> HIDE DEF Until
  <2>3. Until(row) # Until(other)
    BY <2>1, <2>2
  <2> QED
    BY <2>1, <2>2, <2>3, FS_Subset
<1> DEFINE rank == [row \in rows |-> Rank(row)]
<1> HIDE DEF Rank
<1>7. rank \in Injection(rows, 1 .. Cardinality(rows))
  <2>1. \A row, other \in rows : Rank(row) = Rank(other) => row = other
    BY <1>1, <1>2, <1>6
  <2> QED
    BY <1>5, <2>1 DEF Injection, IsInjective
<1>8. rank \in Surjection(rows, 1 .. Cardinality(rows))
  <2>1. /\ IsFiniteSet(1 .. Cardinality(rows))
        /\ Cardinality(1 .. Cardinality(rows)) = Cardinality(rows)
    BY <1>4, FS_Interval
  <2> HIDE DEF rank
  <2> QED
    BY <1>7, <2>1, FS_Injection
<1>9. \A n \in 1 .. Cardinality(rows) : \E row \in rows : Rank(row) = n
  BY <1>8 DEF Surjection
<1>10. \A n \in 1 .. Cardinality(rows) : ListForUser(u)[n] \in assigned
  BY <1>1, <1>3, <1>9
<1>11. ListForUser(u) = [n \in 1 .. Cardinality(rows) |-> ListForUser(u)[n]]
  BY <1>3
<1> QED
  <2> DEFINE c == Cardinality(rows)
             list == ListForUser(u)
  <2>1. c \in Nat /\ list \in [1 .. c -> assigned]
    BY <1>4, <1>10, <1>11
  <2> HIDE DEF c, list
  <2>2. list \in Seq(assigned)
    BY <2>1
  <2> QED
    BY <2>2 DEF list

-----------------------------------------------------------------------------
(***************************************************************************)
(* The inductive invariant of the consoles. The id of a row is given       *)
(* once, when the request is sent: a row that was seen under an id can be  *)
(* gone, but no other can stand in its place. A client waits for one       *)
(* request at a time, so that an answer comes to the prompt that sent it,  *)
(* and a token that is renewed is the one the request was sent with.       *)
(***************************************************************************)

Rows == [id : 1 .. Cardinality(Assigned) + MaxWrites, user : Users, skill : SkillNames,
         level : Levels]
LastId == Cardinality(Assigned) + writes

\* An id was given, and not to a request that is still to insert its row; if its row is
\* there, it has the skill.
Seen(id, skill) ==
  /\ id \in 1 .. LastId
  /\ \A row \in assigned : row.id = id => row.skill = skill
  /\ \A i \in Slots : Underway(i, "add") => requests[i].id # id

\* What a console may list.
Listable == {row \in Rows : Seen(row.id, row.skill)}

Asked(r) ==
  /\ r.op = "add" => /\ r.user \in Users /\ r.skill \in SkillNames /\ r.level \in Levels
                     /\ r.id \in 1 .. LastId
  /\ r.op = "level" => r.level \in Levels
  /\ r.op \in {"level", "remove"} => Seen(r.id, r.seen)

IdsOK ==
  /\ writes \in 0 .. MaxWrites /\ skills \subseteq SkillNames /\ assigned \subseteq Rows
  /\ \A row, other \in assigned : row.id = other.id => row = other
  /\ \A row \in assigned : Seen(row.id, row.skill)
  /\ \A i, j \in Slots : (/\ Underway(i, "add") /\ Underway(j, "add")
                          /\ requests[i].id = requests[j].id) => i = j
  /\ \A i \in Slots : requests[i] # Null => Asked(requests[i])

StacksOK ==
  /\ stack = [k \in Clients |-> stack[k]]
  /\ \A k \in Clients : stack[k] = << >> \/ Nested(stack[k], Listable)

\* The token, the role that it claims, and the screen that it opened.
MenuOK(token, frames) ==
  /\ token # Null => token.role = Role[token.user]
  /\ frames # << >> =>
       /\ frames[1].screen # "welcome" => token # Null
       /\ frames[1].screen \notin {"welcome", "change_password"} =>
            ~token.forced /\ token.role = frames[1].screen

MenusOK == \A k \in Clients : MenuOK(session[k], stack[k])

\* Whoever waits or has not looked at the answer is at the prompt that sent the request.
RepliesOK ==
  /\ reply \in [Clients -> {"none", "wait", "ok", "error"}]
  /\ \A k \in Clients : reply[k] # "none" =>
       /\ stack[k] # << >> /\ Top(k).done = NRead(Top(k).screen)
       /\ Shown(k).write \in AccountWrites

\* A client waits for one request, under the token that it was sent with.
WaitOK ==
  \A i \in Slots : requests[i] # Null =>
    LET r == requests[i]
    IN /\ r.waited \in BOOLEAN
       /\ r.waited =>
            /\ reply[r.client] = "wait"
            /\ \A j \in Slots : (/\ requests[j] # Null /\ requests[j].waited
                                 /\ requests[j].client = r.client) => i = j
            /\ r.op = "password" /\ ~r.forced =>
                 session[r.client] # Null /\ session[r.client].user = r.user

ConsoleInv == /\ Inv /\ now \in 0 .. MaxHours
              /\ IdsOK /\ StacksOK /\ MenusOK /\ RepliesOK /\ WaitOK

LEMMA BoundsLaw == Cardinality(Assigned) \in Nat /\ MaxWrites \in Nat /\ MaxHours \in Nat
BY AssignedAssumption, HoursAssumption, FS_CardinalityType

LEMMA ConsoleInit == Init => ConsoleInv
<1> SUFFICES ASSUME Init PROVE ConsoleInv
  OBVIOUS
<1>1. Inv
  BY InvInit
<1>2. /\ assigned = Assigned /\ writes = 0 /\ now = 0
      /\ \A i \in Slots : requests[i] = Null
      /\ \A k \in Clients : session[k] = Null /\ stack[k] = << >> /\ reply[k] = "none"
      /\ stack = [k \in Clients |-> stack[k]] /\ reply = [k \in Clients |-> reply[k]]
  BY DEF Init, AccountsInit
<1>3. now \in 0 .. MaxHours /\ writes \in 0 .. MaxWrites
  BY <1>2, BoundsLaw
<1>4. IdsOK
  <2>1. \A i \in Slots : ~Underway(i, "add")
    BY <1>2 DEF Underway
  <2>2. \A row \in assigned : row.id \in 1 .. Cardinality(Assigned)
    BY <1>2, AssignedAssumption
  <2>3. assigned \subseteq Rows
    <3>1. 1 .. Cardinality(Assigned) \subseteq 1 .. Cardinality(Assigned) + MaxWrites
      BY BoundsLaw
    <3> QED
      BY <1>2, <3>1, AssignedAssumption DEF Rows, Users
  <2>4. \A row, other \in assigned : row.id = other.id => row = other
    BY <1>2, AssignedAssumption
  <2>5. \A row \in assigned : Seen(row.id, row.skill)
    BY <1>2, <2>1, <2>2, <2>4, BoundsLaw DEF Seen, LastId
  <2>6. skills \subseteq SkillNames
    BY AssignedAssumption DEF Init, AccountsInit
  <2> QED
    BY <1>2, <1>3, <2>1, <2>3, <2>4, <2>5, <2>6 DEF IdsOK
<1>5. StacksOK /\ MenusOK /\ RepliesOK /\ WaitOK
  BY <1>2 DEF StacksOK, MenusOK, MenuOK, RepliesOK, WaitOK
<1> QED
  BY <1>1, <1>3, <1>4, <1>5 DEF ConsoleInv

\* Rows that may be listed may still be listed: ids are not given twice, and a row keeps
\* its skill.
LEMMA SeenStays ==
  ASSUME IdsOK, writes' \in Nat, writes <= writes',
         \A new \in assigned' :
           \/ \E row \in assigned : row.id = new.id /\ row.skill = new.skill
           \/ \E i \in Slots : Underway(i, "add") /\ requests[i].id = new.id,
         \A i \in Slots : Underway(i, "add")' =>
           \/ \E j \in Slots : Underway(j, "add") /\ requests[j].id = requests'[i].id
           \/ requests'[i].id = LastId + 1
  PROVE  (\A id, skill : Seen(id, skill) => Seen(id, skill)') /\ Listable \subseteq Listable'
<1>1. ASSUME NEW id, NEW skill, Seen(id, skill) PROVE Seen(id, skill)'
  <2>1. /\ id \in 1 .. LastId
        /\ \A row \in assigned : row.id = id => row.skill = skill
        /\ \A i \in Slots : Underway(i, "add") => requests[i].id # id
    BY <1>1 DEF Seen
  <2>2. LastId \in Nat /\ LastId' \in Nat /\ LastId <= LastId'
    BY BoundsLaw DEF LastId, IdsOK
  <2>3. id \in 1 .. LastId' /\ id # LastId + 1
    BY <2>1, <2>2
  <2>4. \A row \in assigned' : row.id = id => row.skill = skill
    BY <2>1
  <2>5. \A i \in Slots : Underway(i, "add")' => requests'[i].id # id
    BY <2>1, <2>3
  <2> QED
    BY <2>3, <2>4, <2>5 DEF Seen
<1> QED
  BY <1>1 DEF Listable, Rows

LEMMA NestedMonotone ==
  ASSUME NEW R, NEW Q, R \subseteq Q, NEW fs, Nested(fs, R)
  PROVE  Nested(fs, Q)
<1>1. Seq(R) \subseteq Seq(Q)
  OBVIOUS
<1>2. Frames(R) \subseteq Frames(Q)
  BY <1>1 DEF Frames
<1>3. Seq(Frames(R)) \subseteq Seq(Frames(Q))
  BY <1>2
<1> QED
  BY <1>3 DEF Nested

LEMMA StacksStay ==
  ASSUME StacksOK, stack' = stack, Listable \subseteq Listable'
  PROVE  StacksOK'
<1>1. \A k \in Clients : stack[k] = << >> \/ Nested(stack[k], Listable')
  BY NestedMonotone DEF StacksOK
<1> QED
  BY <1>1 DEF StacksOK

\* The screens of console k move; it had no request that it waited for.
Shift(k) ==
  /\ UNCHANGED <<users, skills, assigned, requests, now, lastActive, writes>>
  /\ stack' = [stack EXCEPT ![k] = stack'[k]]
  /\ session' = [session EXCEPT ![k] = session'[k]]
  /\ reply' = [reply EXCEPT ![k] = "none"]
  /\ reply[k] # "wait"
  /\ stack'[k] = << >> \/ Nested(stack'[k], Listable)
  /\ MenuOK(session'[k], stack'[k])

LEMMA ShiftKeeps ==
  ASSUME ConsoleInv, Inv', NEW k \in Clients, Shift(k)
  PROVE  ConsoleInv'
<1>1. IdsOK' /\ Listable' = Listable /\ (now \in 0 .. MaxHours)'
  BY DEF ConsoleInv, Shift, IdsOK, Asked, Listable, Seen, LastId, Underway
<1>2. /\ \A c \in Clients : stack'[c] = IF c = k THEN stack'[k] ELSE stack[c]
      /\ \A c \in Clients : session'[c] = IF c = k THEN session'[k] ELSE session[c]
      /\ \A c \in Clients : reply'[c] = IF c = k THEN "none" ELSE reply[c]
      /\ stack' = [c \in Clients |-> stack'[c]]
  BY DEF Shift, ConsoleInv, Inv, StacksOK, SessionsOK, RepliesOK
<1>3. StacksOK'
  BY <1>1, <1>2 DEF Shift, ConsoleInv, StacksOK
<1>4. MenusOK'
  <2>1. ASSUME NEW c \in Clients PROVE MenuOK(session'[c], stack'[c])
    BY <1>2 DEF Shift, ConsoleInv, MenusOK
  <2> QED
    BY <2>1 DEF MenusOK, MenuOK
<1>5. RepliesOK'
  <2>1. reply' \in [Clients -> {"none", "wait", "ok", "error"}]
    BY DEF Shift, ConsoleInv, RepliesOK
  <2>2. ASSUME NEW c \in Clients, reply'[c] # "none" PROVE c # k
    BY <1>2, <2>2
  <2> QED
    BY <1>2, <2>1, <2>2 DEF ConsoleInv, RepliesOK, Top, Shown
<1>6. WaitOK'
  <2>1. requests' = requests
    BY DEF Shift
  <2>2. ASSUME NEW i \in Slots, requests[i] # Null, requests[i].waited
        PROVE  requests[i].client \in Clients \ {k}
    BY <2>2 DEF ConsoleInv, WaitOK, Shift, Inv, RequestsOK, RequestOK
  <2> QED
    BY <1>2, <2>1, <2>2 DEF ConsoleInv, WaitOK
<1> QED
  BY <1>1, <1>3, <1>4, <1>5, <1>6 DEF ConsoleInv

-----------------------------------------------------------------------------
(***************************************************************************)
(* The steps of one console.                                               *)
(***************************************************************************)

RoleNames == {"ADMIN", "MANAGER", "ENGINEER"}

LEMMA RoleLaw == \A u \in Users : Role[u] \in RoleNames
BY RoleAssumption DEF Users, RoleNames

LEMMA TokenLaw ==
  ASSUME NEW u \in Users, NEW forced \in BOOLEAN, now \in Nat
  PROVE  /\ Token(u, forced) # Null /\ Token(u, forced).user = u
         /\ Token(u, forced).role = Role[u] /\ Token(u, forced).forced = forced
<1>1. Role[u] \in {"ADMIN", "MANAGER", "ENGINEER"} /\ now + TokenHours \in Int
  BY RoleLaw, HoursAssumption DEF RoleNames
<1> QED
  BY <1>1, NullAssumption DEF Token

\* A token opens the screen that it may show.
LEMMA MainScreenLaw ==
  ASSUME NEW token, token # Null => token.role = Role[token.user] /\ token.user \in Users, NEW R
  PROVE  /\ Nested(<<Frame(MainScreen(token))>>, R)
         /\ MenuOK(token, <<Frame(MainScreen(token))>>)
<1>1. MainScreen(token) \in Roots
  BY RoleLaw DEF MainScreen, Roots, RoleNames
<1>2. /\ Nested(<<Frame(MainScreen(token))>>, R)
      /\ <<Frame(MainScreen(token))>>[1].screen = MainScreen(token)
  BY <1>1, RootLaw
<1>3. /\ MainScreen(token) # "welcome" => token # Null
      /\ MainScreen(token) \notin {"welcome", "change_password"} =>
           ~token.forced /\ token.role = MainScreen(token)
  BY DEF MainScreen
<1> QED
  BY <1>2, <1>3 DEF MenuOK

LEMMA TopFacts ==
  ASSUME ConsoleInv, NEW k \in Clients, stack[k] # << >>
  PROVE  /\ Nested(stack[k], Listable)
         /\ stack[k] \in Seq(Frames(Listable))
         /\ Len(stack[k]) \in Nat /\ Len(stack[k]) >= 1
         /\ stack[k][1].screen \in Roots
         /\ Top(k) = stack[k][Len(stack[k])] /\ Top(k) \in Frames(Listable)
         /\ Placed(Top(k), Len(stack[k]), stack[k][1].screen)
         /\ Top(k).screen \in Area(stack[k][1].screen)
         /\ Fits(Shown(k), Top(k).screen, stack[k][1].screen)
         /\ Shown(k) = Screens[Top(k).screen]
         /\ NRead(Top(k).screen) = Len(Reads(Shown(k))) /\ NRead(Top(k).screen) \in 0 .. 2
<1>1. Nested(stack[k], Listable)
  BY DEF ConsoleInv, StacksOK
<1>2. /\ stack[k] \in Seq(Frames(Listable)) /\ Len(stack[k]) \in Nat /\ Len(stack[k]) >= 1
      /\ stack[k][1].screen \in Roots
  BY <1>1 DEF Nested
<1>3. /\ Top(k) = stack[k][Len(stack[k])] /\ Top(k) \in Frames(Listable)
      /\ Placed(Top(k), Len(stack[k]), stack[k][1].screen)
  BY <1>1, <1>2 DEF Nested, Top
<1>4. Top(k).screen \in Area(stack[k][1].screen)
  BY <1>3 DEF Placed
<1>5. Shown(k) = Screens[Top(k).screen] /\ NRead(Top(k).screen) = Len(Reads(Shown(k)))
  BY DEF Shown, NRead
<1>6. /\ Fits(Shown(k), Top(k).screen, stack[k][1].screen)
      /\ NRead(Top(k).screen) \in 0 .. 2
  BY <1>2, <1>4, <1>5, ScreensFit, ReadsLaw
<1> QED
  BY <1>1, <1>2, <1>3, <1>4, <1>5, <1>6

\* The only screen of a console is one that it starts with.
LEMMA FormFacts ==
  ASSUME ConsoleInv, NEW k \in Clients, stack[k] # << >>,
         ~Shown(k).stays \/ Shown(k).write \notin {Null, "change_password"}
         \/ Top(k).screen \in SkillForms
  PROVE  Len(stack[k]) > 1
<1>1. ASSUME Len(stack[k]) = 1 PROVE FALSE
  <2>1. Top(k).screen \in Roots /\ Shown(k) = Screens[Top(k).screen]
    BY <1>1, TopFacts
  <2> QED
    BY <2>1, RootsLaw
<1> DEFINE n == Len(stack[k])
<1>2. n \in Nat /\ n >= 1 /\ n # 1
  BY <1>1, TopFacts
<1>3. n > 1
  <2> HIDE DEF n
  <2> QED
    BY <1>2
<1> QED
  BY <1>3

LEMMA MoveShifts ==
  ASSUME ConsoleInv, NEW k \in Clients, NEW fs, stack' = [stack EXCEPT ![k] = fs],
         UNCHANGED accountVars, reply[k] = "none", stack[k] # << >>,
         Nested(fs, Listable), fs[1].screen = stack[k][1].screen
  PROVE  Shift(k)
<1>1. stack'[k] = fs
  BY DEF ConsoleInv, StacksOK
<1>2. fs # << >> /\ MenuOK(session[k], stack[k])
  BY DEF Nested, ConsoleInv, MenusOK
<1>3. MenuOK(session[k], fs)
  BY <1>2 DEF MenuOK
<1>4. session' = [session EXCEPT ![k] = session[k]] /\ session' = session
  BY DEF accountVars, ConsoleInv, Inv, SessionsOK
<1>5. reply' = [reply EXCEPT ![k] = "none"]
  BY DEF accountVars, ConsoleInv, RepliesOK
<1> QED
  BY <1>1, <1>3, <1>4, <1>5 DEF Shift, accountVars

LEMMA StartShifts ==
  ASSUME ConsoleInv, NEW k \in Clients, Start(k)
  PROVE  Shift(k)
<1>1. Nested(<<Frame("welcome")>>, Listable) /\ <<Frame("welcome")>>[1].screen = "welcome"
  BY RootLaw DEF Roots
<1>2. stack'[k] = <<Frame("welcome")>>
  BY DEF Start, ConsoleInv, StacksOK
<1>3. session' = [session EXCEPT ![k] = session[k]] /\ session' = session
  BY DEF Start, ConsoleInv, Inv, SessionsOK
<1>4. MenuOK(session[k], <<Frame("welcome")>>)
  BY <1>1 DEF ConsoleInv, MenusOK, MenuOK
<1> QED
  BY <1>1, <1>2, <1>3, <1>4 DEF Start, Shift, Waiting

LEMMA LoginShifts ==
  ASSUME ConsoleInv, NEW k \in Clients, EnterLogin(k)
  PROVE  Shift(k)
<1>1. PICK u \in Users, password \in {"own", "temporary"} : Login(k, u, password)
  BY DEF EnterLogin
<1> DEFINE token == Token(u, users[u].forced)
<1>2. session'[k] = token /\ session' = [session EXCEPT ![k] = token]
  BY <1>1 DEF Login, ConsoleInv, Inv, SessionsOK
<1>3. token # Null /\ token.user = u /\ token.role = Role[u]
  <2>1. users[u].forced \in BOOLEAN /\ now \in Nat
    BY <1>1 DEF Login, Exists, ConsoleInv, Inv, UsersOK, Account
  <2> QED
    BY <2>1, TokenLaw
<1> HIDE DEF token
<1>4. stack' = [stack EXCEPT ![k] = <<Frame(MainScreen(token))>>]
  BY <1>2 DEF EnterLogin
<1>5. stack'[k] = <<Frame(MainScreen(token))>>
  BY <1>4 DEF ConsoleInv, StacksOK
<1>6. Nested(stack'[k], Listable) /\ MenuOK(token, stack'[k])
  BY <1>3, <1>5, MainScreenLaw
<1>7. reply[k] = "none" /\ reply' = [reply EXCEPT ![k] = "none"]
  BY <1>1 DEF EnterLogin, AtPrompt, Login, ConsoleInv, RepliesOK
<1> QED
  BY <1>1, <1>2, <1>4, <1>5, <1>6, <1>7 DEF Shift, Login

LEMMA LeaveShifts ==
  ASSUME ConsoleInv, NEW k \in Clients, Logout(k) \/ Quit(k)
  PROVE  Shift(k)
<1>1. PICK frames \in {<< >>, <<Frame("welcome")>>} : Leave(k, frames)
  BY DEF Logout, Quit
<1>2. stack'[k] = frames /\ stack' = [stack EXCEPT ![k] = frames]
  BY <1>1 DEF Leave, ConsoleInv, StacksOK
<1>3. session'[k] = Null /\ session' = [session EXCEPT ![k] = Null]
  BY <1>1 DEF Leave, ConsoleInv, Inv, SessionsOK
<1>4. Nested(<<Frame("welcome")>>, Listable) /\ <<Frame("welcome")>>[1].screen = "welcome"
  BY RootLaw DEF Roots
<1>5. (frames = << >> \/ Nested(frames, Listable)) /\ MenuOK(Null, frames)
  BY <1>4 DEF MenuOK
<1>6. reply[k] = "none" /\ reply' = [reply EXCEPT ![k] = "none"]
  BY <1>1 DEF Leave, AtPrompt, ConsoleInv, RepliesOK
<1> QED
  BY <1>1, <1>2, <1>3, <1>5, <1>6 DEF Leave, Shift

LEMMA OpenShifts ==
  ASSUME ConsoleInv, NEW k \in Clients, Open(k)
  PROVE  Shift(k)
<1>1. PICK screen \in Shown(k).leads :
        stack' = [stack EXCEPT ![k] = Append(stack[k], Frame(screen))]
  BY DEF Open
<1>2. stack[k] # << >> /\ reply[k] = "none" /\ Top(k).done = Len(Reads(Shown(k)))
  BY DEF Open, AtPrompt
<1>3. /\ Nested(stack[k], Listable) /\ stack[k][Len(stack[k])].done = NRead(Top(k).screen)
      /\ Top(k) = stack[k][Len(stack[k])] /\ Shown(k) = Screens[Top(k).screen]
  BY <1>2, TopFacts
<1>4. /\ Nested(Append(stack[k], Frame(screen)), Listable)
      /\ Append(stack[k], Frame(screen))[1] = stack[k][1]
  BY <1>3, AppendLaw
<1> QED
  BY <1>1, <1>2, <1>4, MoveShifts DEF Open

LEMMA BackShifts ==
  ASSUME ConsoleInv, NEW k \in Clients, Back(k)
  PROVE  Shift(k)
<1>1. /\ stack[k] # << >> /\ reply[k] = "none" /\ Len(stack[k]) > 1
      /\ stack' = [stack EXCEPT ![k] = Below(stack[k])]
  BY DEF Back, AtPrompt
<1>2. Nested(Below(stack[k]), Listable) /\ Below(stack[k])[1].screen = stack[k][1].screen
  BY <1>1, TopFacts, BelowLaw
<1> QED
  BY <1>1, <1>2, MoveShifts DEF Back

\* What the top screen shows changes.
LEMMA TopShifts ==
  ASSUME ConsoleInv, NEW k \in Clients, stack[k] # << >>, reply[k] = "none",
         NEW f \in Frames(Listable), f.screen = Top(k).screen,
         f.done \in 0 .. NRead(Top(k).screen),
         f.screen = "manage_skills" /\ f.done = NRead(f.screen) => f.user \in Users,
         stack' = [stack EXCEPT ![k] = [stack[k] EXCEPT ![Len(stack[k])] = f]],
         UNCHANGED accountVars
  PROVE  Shift(k)
<1>1. /\ Nested(stack[k], Listable) /\ Top(k) = stack[k][Len(stack[k])]
      /\ Placed(Top(k), Len(stack[k]), stack[k][1].screen)
  BY TopFacts
<1>2. Placed(f, Len(stack[k]), stack[k][1].screen)
  BY <1>1 DEF Placed
<1> DEFINE fs == [stack[k] EXCEPT ![Len(stack[k])] = f]
<1>3. Nested(fs, Listable) /\ fs[1].screen = stack[k][1].screen
  BY <1>1, <1>2, TopLaw
<1>4. stack' = [stack EXCEPT ![k] = fs]
  OBVIOUS
<1> HIDE DEF fs
<1> QED
  BY <1>3, <1>4, MoveShifts

LEMMA ListableRows ==
  ASSUME ConsoleInv, NEW u
  PROVE  ListForUser(u) \in Seq(Listable)
<1>1. LastId \in Nat /\ \A row \in assigned : row.id \in 1 .. LastId /\ row \in Listable
  BY BoundsLaw DEF ConsoleInv, IdsOK, Seen, Listable, LastId
<1>2. \A row, other \in assigned : row.id = other.id => row = other
  BY DEF ConsoleInv, IdsOK
<1>3. ListForUser(u) \in Seq(assigned)
  BY <1>1, <1>2, ListLaw
<1>4. Seq(assigned) \subseteq Seq(Listable)
  BY <1>1
<1> QED
  BY <1>3, <1>4

LEMMA ReadShifts ==
  ASSUME ConsoleInv, NEW k \in Clients, Read(k)
  PROVE  Shift(k)
<1> DEFINE top == Top(k)
           call == Reads(Shown(k))[top.done + 1]
           n == NRead(top.screen)
<1>1. /\ stack[k] # << >> /\ top.done < Len(Reads(Shown(k)))
  BY DEF Read, Reading
<1>2. /\ top \in Frames(Listable) /\ n \in 0 .. 2 /\ n = Len(Reads(Shown(k)))
      /\ top = stack[k][Len(stack[k])] /\ Shown(k) = Screens[top.screen]
      /\ Len(stack[k]) \in Nat /\ Len(stack[k]) >= 1
      /\ stack[k] \in Seq(Frames(Listable))
  BY <1>1, TopFacts
<1> HIDE DEF top, n
<1>3. reply[k] = "none"
  BY <1>1, <1>2 DEF ConsoleInv, RepliesOK, top, n
<1>4. /\ top = [x \in {"screen", "done", "user", "rows"} |-> top[x]]
      /\ top.screen \in DOMAIN Screens /\ top.done \in 0 .. 2 /\ top.user \in Users \cup {Null}
      /\ top.rows \in Seq(Listable)
  BY <1>2 DEF Frames
<1>5. top.done + 1 \in 0 .. n /\ top.done + 1 \in 0 .. 2
  <2>1. top.done \in 0 .. 2 /\ n \in 0 .. 2 /\ top.done < n
    BY <1>1, <1>2, <1>4
  <2> QED
    BY <2>1
<1>6. UNCHANGED accountVars
  BY DEF Read
<1>7. CASE /\ call # "list_user_skills"
           /\ stack' = [stack EXCEPT ![k][Len(stack[k])].done = @ + 1]
  <2> DEFINE f == [top EXCEPT !.done = top.done + 1]
  <2>1. /\ f \in Frames(Listable) /\ f.screen = top.screen /\ f.done = top.done + 1
        /\ f.user = top.user
    BY <1>4, <1>5 DEF Frames
  <2>2. stack' = [stack EXCEPT ![k] = [stack[k] EXCEPT ![Len(stack[k])] = f]]
    BY <1>2, <1>7
  <2>3. f.screen = "manage_skills" => f.done # NRead(f.screen)
    <3>1. NRead("manage_skills") = 2
      BY SkillListLaw DEF NRead
    <3>2. ASSUME top.screen = "manage_skills", top.done + 1 = 2 PROVE FALSE
      <4>1. call = "list_user_skills"
        BY <1>2, <3>2, SkillListLaw
      <4> QED
        BY <4>1, <1>7
    <3> QED
      BY <2>1, <3>1, <3>2
  <2> HIDE DEF f
  <2> QED
    BY <1>1, <1>3, <1>5, <1>6, <2>1, <2>2, <2>3, TopShifts DEF top, n
<1>8. CASE /\ call = "list_user_skills"
           /\ \E u \in Users :
                stack' = [stack EXCEPT ![k][Len(stack[k])] =
                            [top EXCEPT !.done = @ + 1, !.user = u, !.rows = ListForUser(u)]]
  <2>1. PICK u \in Users :
          stack' = [stack EXCEPT ![k][Len(stack[k])] =
                      [top EXCEPT !.done = @ + 1, !.user = u, !.rows = ListForUser(u)]]
    BY <1>8
  <2> DEFINE f == [top EXCEPT !.done = @ + 1, !.user = u, !.rows = ListForUser(u)]
  <2>2. ListForUser(u) \in Seq(Listable)
    BY ListableRows
  <2>3. /\ f \in Frames(Listable) /\ f.screen = top.screen /\ f.done = top.done + 1
        /\ f.user = u
    BY <1>4, <1>5, <2>2 DEF Frames
  <2>4. stack' = [stack EXCEPT ![k] = [stack[k] EXCEPT ![Len(stack[k])] = f]]
    BY <2>1
  <2> HIDE DEF f
  <2> QED
    BY <1>1, <1>3, <1>5, <1>6, <2>3, <2>4, TopShifts DEF top, n
<1> QED
  BY <1>7, <1>8 DEF Read, top

LEMMA ReadFailsShifts ==
  ASSUME ConsoleInv, NEW k \in Clients, ReadFails(k)
  PROVE  Shift(k)
<1> DEFINE top == Top(k)
           call == Reads(Shown(k))[top.done + 1]
           n == NRead(top.screen)
<1>1. /\ stack[k] # << >> /\ top.done < Len(Reads(Shown(k)))
      /\ UNCHANGED <<users, skills, assigned, requests, reply, now, lastActive, writes>>
  BY DEF ReadFails, Reading
<1>2. /\ top \in Frames(Listable) /\ n \in 0 .. 2 /\ n = Len(Reads(Shown(k)))
      /\ top = stack[k][Len(stack[k])] /\ Shown(k) = Screens[top.screen]
      /\ Len(stack[k]) \in Nat /\ Len(stack[k]) >= 1
      /\ stack[k] \in Seq(Frames(Listable)) /\ Nested(stack[k], Listable)
  BY <1>1, TopFacts
<1>3. reply[k] = "none"
  BY <1>1, <1>2 DEF ConsoleInv, RepliesOK
<1>4. CASE call \in Shown(k).raises
  <2>1. /\ stack' = [stack EXCEPT ![k] = << >>] /\ session' = [session EXCEPT ![k] = Null]
    <3>1. stack' = [stack EXCEPT ![k] = << >>]
      BY <1>4 DEF ReadFails
    <3>2. session' = [session EXCEPT ![k] = Null]
      BY <1>4 DEF ReadFails
    <3> QED
      BY <3>1, <3>2
  <2>2. stack'[k] = << >> /\ session'[k] = Null
    BY <2>1 DEF ConsoleInv, StacksOK, Inv, SessionsOK
  <2>3. reply' = [reply EXCEPT ![k] = "none"]
    BY <1>1, <1>3 DEF ConsoleInv, RepliesOK
  <2>4. MenuOK(Null, << >>)
    BY DEF MenuOK
  <2> QED
    BY <1>1, <1>3, <2>1, <2>2, <2>3, <2>4 DEF Shift
<1>5. CASE call \notin Shown(k).raises
  <2>1. UNCHANGED accountVars
    BY <1>1, <1>5 DEF ReadFails, accountVars
  <2>2. CASE call \in Shown(k).skips
    <3> DEFINE f == [top EXCEPT !.done = n]
    <3>1. stack' = [stack EXCEPT ![k] = [stack[k] EXCEPT ![Len(stack[k])].done = n]]
      BY <1>2, <1>5, <2>2 DEF ReadFails
    <3>2. stack' = [stack EXCEPT ![k] = [stack[k] EXCEPT ![Len(stack[k])] = f]]
      BY <1>2, <3>1
    <3>3. top.screen # "manage_skills"
      BY <1>2, <2>2, SkillListLaw
    <3> HIDE DEF n, top
    <3>4. f \in Frames(Listable) /\ f.screen = top.screen /\ f.done = n
      BY <1>2 DEF Frames
    <3>5. f.done \in 0 .. n
      BY <1>2, <3>4
    <3> HIDE DEF f
    <3> QED
      BY <1>1, <1>3, <2>1, <3>2, <3>3, <3>4, <3>5, TopShifts DEF n, top
  <2>3. CASE call \notin Shown(k).skips /\ Len(stack[k]) = 1
    <3>1. stack' = [stack EXCEPT ![k] = stack[k]]
      BY <1>5, <2>3 DEF ReadFails
    <3> QED
      BY <1>1, <1>2, <1>3, <2>1, <3>1, MoveShifts
  <2>4. CASE call \notin Shown(k).skips /\ Len(stack[k]) # 1
    <3>1. stack' = [stack EXCEPT ![k] = Below(stack[k])]
      BY <1>5, <2>4 DEF ReadFails
    <3>2. Len(stack[k]) > 1
      <4> DEFINE m == Len(stack[k])
      <4>1. m \in Nat /\ m >= 1 /\ m # 1
        BY <1>2, <2>4
      <4>2. m > 1
        <5> HIDE DEF m
        <5> QED
          BY <4>1
      <4> QED
        BY <4>2
    <3>3. Nested(Below(stack[k]), Listable) /\ Below(stack[k])[1].screen = stack[k][1].screen
      BY <1>2, <3>2, BelowLaw
    <3> QED
      BY <1>1, <1>3, <2>1, <3>1, <3>3, MoveShifts
  <2> QED
    BY <2>2, <2>3, <2>4
<1> QED
  BY <1>4, <1>5

LEMMA SaveOtherShifts ==
  ASSUME ConsoleInv, NEW k \in Clients, SaveOther(k)
  PROVE  Shift(k)
<1> DEFINE open == IF Shown(k).closes THEN SubSeq(stack[k], 1, Len(stack[k]) - 1) ELSE stack[k]
<1>1. /\ stack[k] # << >> /\ reply[k] = "none" /\ UNCHANGED accountVars
      /\ Shown(k).write \notin AccountWrites \cup {Null}
      /\ stack' = [stack EXCEPT ![k] = Below(open)]
  BY DEF SaveOther, AtPrompt
<1>2. /\ Nested(stack[k], Listable) /\ Len(stack[k]) \in Nat
      /\ stack[k][1].screen \in Roots /\ Shown(k) = Screens[Top(k).screen]
      /\ Top(k) = stack[k][Len(stack[k])]
  BY <1>1, TopFacts
<1>3. Len(stack[k]) > 1
  BY <1>1, FormFacts DEF AccountWrites
<1>4. Nested(open, Listable) /\ Len(open) > 1 /\ open[1].screen = stack[k][1].screen
  <2>1. CASE Shown(k).closes
    <3>1. Len(stack[k]) # 2
      <4>1. ASSUME Len(stack[k]) = 2 PROVE FALSE
        <5>1. stack[k][2].screen \in Screens[stack[k][1].screen].leads
          BY <1>2, <4>1 DEF Nested
        <5>2. ~Screens[stack[k][2].screen].closes
          BY <1>2, <5>1, RootsLaw
        <5> QED
          BY <1>2, <2>1, <4>1, <5>2
      <4> QED
        BY <4>1
    <3>2. Len(stack[k]) - 1 \in 1 .. Len(stack[k]) /\ Len(stack[k]) - 1 > 1
      <4> DEFINE m == Len(stack[k])
      <4>1. m \in Nat /\ m > 1 /\ m # 2
        BY <1>2, <1>3, <3>1
      <4>2. m - 1 \in 1 .. m /\ m - 1 > 1
        <5> HIDE DEF m
        <5> QED
          BY <4>1
      <4> QED
        BY <4>2
    <3> QED
      BY <1>2, <2>1, <3>2, PrefixLaw
  <2>2. CASE ~Shown(k).closes
    BY <1>2, <1>3, <2>2
  <2> QED
    BY <2>1, <2>2
<1> HIDE DEF open
<1>5. Nested(Below(open), Listable) /\ Below(open)[1].screen = open[1].screen
  BY <1>4, BelowLaw
<1> QED
  BY <1>1, <1>4, <1>5, MoveShifts

\* After an error the console shows the form again, or what is below it.
LEMMA ErrorLaw ==
  ASSUME ConsoleInv, NEW k \in Clients, stack[k] # << >>
  PROVE  /\ Nested(AfterError(k, stack[k]), Listable)
         /\ AfterError(k, stack[k])[1].screen = stack[k][1].screen
<1>1. CASE Shown(k).stays
  BY <1>1, TopFacts DEF AfterError
<1>2. CASE ~Shown(k).stays
  <2>1. Len(stack[k]) > 1
    BY <1>2, FormFacts
  <2> QED
    BY <1>2, <2>1, TopFacts, BelowLaw DEF AfterError
<1> QED
  BY <1>1, <1>2

LEMMA SaveFailsShifts ==
  ASSUME ConsoleInv, NEW k \in Clients, SaveFails(k)
  PROVE  Shift(k)
BY ErrorLaw, MoveShifts DEF SaveFails, AtPrompt

LEMMA AccountWritesLaw == AccountWrites \subseteq DOMAIN Calls /\ Null \notin AccountWrites
<1>1. AccountWrites \subseteq DOMAIN Calls
  BY CallsLaw, CallDomains DEF AccountWrites
<1> QED
  BY <1>1, NullIsNoCall

LEMMA HearShifts ==
  ASSUME ConsoleInv, NEW k \in Clients, Hear(k)
  PROVE  Shift(k)
<1> DEFINE frames == CASE reply[k] = "error" -> AfterError(k, stack[k])
                       [] reply[k] = "ok" /\ Shown(k).write = "change_password" ->
                            <<Frame(MainScreen(session[k]))>>
                       [] OTHER -> Below(stack[k])
           list == ListForUser(List(k).user)
<1>1. /\ stack[k] # << >> /\ reply[k] \in {"ok", "error"} /\ reply[k] # "wait"
      /\ reply' = [reply EXCEPT ![k] = "none"]
      /\ UNCHANGED <<users, skills, assigned, session, requests, now, lastActive, writes>>
  BY DEF Hear
<1>2. Nested(stack[k], Listable) /\ MenuOK(session[k], stack[k])
  BY <1>1, TopFacts DEF ConsoleInv, MenusOK
<1>3. Nested(frames, Listable) /\ MenuOK(session[k], frames)
  <2>1. CASE reply[k] = "error"
    <3>1. frames = AfterError(k, stack[k])
      BY <2>1
    <3>2. Nested(frames, Listable) /\ frames[1].screen = stack[k][1].screen
      BY <1>1, <3>1, ErrorLaw
    <3> HIDE DEF frames
    <3> QED
      BY <1>1, <1>2, <3>2 DEF MenuOK, Nested
  <2>2. CASE reply[k] = "ok" /\ Shown(k).write = "change_password"
    <3>1. frames = <<Frame(MainScreen(session[k]))>>
      BY <2>2
    <3>2. session[k] # Null => /\ session[k].role = Role[session[k].user]
                               /\ session[k].user \in Users
      BY DEF ConsoleInv, MenusOK, MenuOK, Inv, SessionsOK
    <3> HIDE DEF frames
    <3> QED
      BY <3>1, <3>2, MainScreenLaw
  <2>3. CASE reply[k] = "ok" /\ Shown(k).write # "change_password"
    <3>1. frames = Below(stack[k])
      BY <2>3
    <3>2. Shown(k).write \in AccountWrites
      BY <1>1 DEF ConsoleInv, RepliesOK
    <3>3. Len(stack[k]) > 1
      BY <1>1, <2>3, <3>2, AccountWritesLaw, FormFacts
    <3>4. Nested(frames, Listable) /\ frames[1].screen = stack[k][1].screen
      BY <1>2, <3>1, <3>3, BelowLaw
    <3> HIDE DEF frames
    <3> QED
      BY <1>1, <1>2, <3>4 DEF MenuOK, Nested
  <2> QED
    BY <1>1, <2>1, <2>2, <2>3
<1>4. \/ stack' = [stack EXCEPT ![k] = frames]
      \/ stack' = [stack EXCEPT ![k] = [frames EXCEPT ![Len(frames)].rows = list]]
  BY DEF Hear
<1> HIDE DEF frames, list
<1> DEFINE f == [frames[Len(frames)] EXCEPT !.rows = list]
           listed == [frames EXCEPT ![Len(frames)] = f]
<1>5. /\ Nested(listed, Listable) /\ MenuOK(session[k], listed)
  <2>1. /\ frames \in Seq(Frames(Listable)) /\ Len(frames) \in Nat /\ Len(frames) >= 1
        /\ Placed(frames[Len(frames)], Len(frames), frames[1].screen)
        /\ frames # << >>
    BY <1>3 DEF Nested
  <2>2. frames[Len(frames)] \in Frames(Listable)
    BY <2>1
  <2>3. list \in Seq(Listable)
    BY ListableRows DEF list
  <2>4. /\ f \in Frames(Listable) /\ f.screen = frames[Len(frames)].screen
        /\ f.done = frames[Len(frames)].done /\ f.user = frames[Len(frames)].user
    BY <2>2, <2>3 DEF Frames
  <2> HIDE DEF f
  <2>5. Placed(f, Len(frames), frames[1].screen)
    BY <2>1, <2>4 DEF Placed
  <2>6. Nested(listed, Listable) /\ listed[1].screen = frames[1].screen
    BY <1>3, <2>4, <2>5, TopLaw
  <2> QED
    BY <1>3, <2>1, <2>6 DEF MenuOK
<1>6. [frames EXCEPT ![Len(frames)].rows = list] = listed
  BY <1>3 DEF Nested
<1> HIDE DEF listed
<1>7. PICK fs \in {frames, listed} : stack' = [stack EXCEPT ![k] = fs]
  BY <1>4, <1>6
<1>8. stack'[k] = fs
  BY <1>7 DEF ConsoleInv, StacksOK
<1>9. session' = [session EXCEPT ![k] = session[k]] /\ session' = session
  BY <1>1 DEF ConsoleInv, Inv, SessionsOK
<1> QED
  BY <1>1, <1>3, <1>5, <1>7, <1>8, <1>9 DEF Shift

-----------------------------------------------------------------------------
\* A request that client k may send now.
NewOK(k, r) ==
  /\ r.client = k /\ r.waited = TRUE
  /\ r.op = "add" => /\ r.user \in Users /\ r.skill \in SkillNames /\ r.level \in Levels
                     /\ r.id = LastId + 1
  /\ r.op = "level" => r.level \in Levels
  /\ r.op \in {"level", "remove"} => Seen(r.id, r.seen)
  /\ r.op = "password" /\ ~r.forced => session[k] # Null /\ session[k].user = r.user

LEMMA SendKeepsConsole ==
  ASSUME ConsoleInv, Inv', NEW k \in Clients, NEW request, Send(k, request), stack' = stack,
         AtPrompt(k), Shown(k).write \in AccountWrites, NewOK(k, Sent(k, request))
  PROVE  ConsoleInv'
<1> DEFINE r == Sent(k, request)
<1>1. PICK i \in Slots : requests[i] = Null /\ requests' = [requests EXCEPT ![i] = r]
  BY DEF Send
<1>2. /\ writes' = writes + 1 /\ writes \in 0 .. MaxWrites /\ writes < MaxWrites
      /\ UNCHANGED <<users, skills, assigned, session, now, lastActive>>
      /\ reply' = [reply EXCEPT ![k] = "wait"]
      /\ stack[k] # << >> /\ reply[k] = "none" /\ Top(k).done = NRead(Top(k).screen)
  BY DEF Send, AtPrompt, ConsoleInv, IdsOK, NRead, Shown
<1>3. NewOK(k, r)
  OBVIOUS
<1> HIDE DEF r
<1>4. requests'[i] = r /\ \A j \in Slots : j # i => requests'[j] = requests[j]
  BY <1>1 DEF ConsoleInv, Inv, RequestsOK
<1>5. /\ writes' \in Nat /\ writes <= writes' /\ writes' \in 0 .. MaxWrites
      /\ LastId \in Nat /\ LastId' = LastId + 1
  BY <1>2, BoundsLaw DEF LastId
<1>6. (\A id, skill : Seen(id, skill) => Seen(id, skill)') /\ Listable \subseteq Listable'
  <2>1. \A j \in Slots : Underway(j, "add")' =>
          \/ \E m \in Slots : Underway(m, "add") /\ requests[m].id = requests'[j].id
          \/ requests'[j].id = LastId + 1
    BY <1>3, <1>4 DEF Underway, NewOK
  <2>2. IdsOK
    BY DEF ConsoleInv
  <2> QED
    BY <1>2, <1>5, <2>1, <2>2, SeenStays
<1>7. IdsOK'
  <2>1. \A row \in assigned' : Seen(row.id, row.skill)'
    BY <1>2, <1>6 DEF ConsoleInv, IdsOK
  <2>2. ASSUME NEW j \in Slots, requests'[j] # Null PROVE Asked(requests[j])'
    <3>1. CASE j = i
      <4>1. LastId + 1 \in 1 .. LastId'
        BY <1>5
      <4> QED
        BY <3>1, <4>1, <1>3, <1>4, <1>6 DEF NewOK, Asked
    <3>2. CASE j # i
      <4>1. requests'[j] = requests[j] /\ Asked(requests[j])
        BY <3>2, <2>2, <1>4 DEF ConsoleInv, IdsOK
      <4>2. 1 .. LastId \subseteq 1 .. LastId'
        BY <1>5
      <4> QED
        BY <4>1, <4>2, <1>6 DEF Asked
    <3> QED
      BY <3>1, <3>2
  <2>3. ASSUME NEW j \in Slots, NEW m \in Slots, Underway(j, "add")', Underway(m, "add")',
               requests'[j].id = requests'[m].id
        PROVE  j = m
    <3>1. \A n \in Slots : Underway(n, "add") => requests[n].id \in 1 .. LastId
      BY DEF ConsoleInv, IdsOK, Asked, Underway
    <3>2. \A n \in Slots : Underway(n, "add") => requests[n].id # LastId + 1
      BY <3>1, <1>5
    <3>3. \A n \in Slots : Underway(n, "add")' =>
            IF n = i THEN requests'[n].id = LastId + 1
            ELSE Underway(n, "add") /\ requests'[n].id = requests[n].id
      BY <1>3, <1>4 DEF Underway, NewOK
    <3> QED
      BY <2>3, <3>2, <3>3 DEF ConsoleInv, IdsOK
  <2> QED
    BY <1>2, <1>5, <2>1, <2>2, <2>3 DEF ConsoleInv, IdsOK
<1>8. StacksOK'
  BY <1>6, StacksStay DEF ConsoleInv
<1>9. MenusOK'
  BY <1>2 DEF ConsoleInv, MenusOK, MenuOK
<1>10. RepliesOK'
  <2>1. \A c \in Clients : reply'[c] = IF c = k THEN "wait" ELSE reply[c]
    BY <1>2 DEF ConsoleInv, RepliesOK
  <2>2. reply' \in [Clients -> {"none", "wait", "ok", "error"}]
    BY <1>2 DEF ConsoleInv, RepliesOK
  <2> QED
    BY <1>2, <2>1, <2>2 DEF ConsoleInv, RepliesOK, Top, Shown
<1>11. WaitOK'
  <2>1. reply'[k] = "wait" /\ \A c \in Clients : c # k => reply'[c] = reply[c]
    BY <1>2 DEF ConsoleInv, RepliesOK
  <2>2. \A j \in Slots : (requests[j] # Null /\ requests[j].waited) =>
          requests[j].client \in Clients \ {k}
    BY <1>2 DEF ConsoleInv, WaitOK, Inv, RequestsOK, RequestOK
  <2>3. r.client = k /\ r.waited = TRUE
        /\ (r.op = "password" /\ ~r.forced => session[k] # Null /\ session[k].user = r.user)
    BY <1>3 DEF NewOK
  <2>4. ASSUME NEW j \in Slots, requests'[j] # Null, requests'[j].waited,
               NEW m \in Slots, requests'[m] # Null, requests'[m].waited,
               requests'[m].client = requests'[j].client
        PROVE  j = m
    BY <1>4, <2>2, <2>3, <2>4 DEF ConsoleInv, WaitOK
  <2>5. ASSUME NEW j \in Slots, requests'[j] # Null
        PROVE  /\ requests'[j].waited \in BOOLEAN
               /\ requests'[j].waited =>
                    /\ reply'[requests'[j].client] = "wait"
                    /\ requests'[j].op = "password" /\ ~requests'[j].forced =>
                         /\ session[requests'[j].client] # Null
                         /\ session[requests'[j].client].user = requests'[j].user
    <3>1. CASE j = i
      BY <3>1, <1>4, <2>1, <2>3
    <3>2. CASE j # i
      <4>1. requests'[j] = requests[j] /\ requests[j] # Null
        BY <3>2, <2>5, <1>4
      <4> QED
        BY <4>1, <2>1, <2>2 DEF ConsoleInv, WaitOK
    <3> QED
      BY <3>1, <3>2
  <2> QED
    BY <1>2, <2>4, <2>5 DEF WaitOK
<1>12. now' \in 0 .. MaxHours
  BY <1>2 DEF ConsoleInv
<1> QED
  BY <1>7, <1>8, <1>9, <1>10, <1>11, <1>12 DEF ConsoleInv

\* A form for a skill is opened from the list of the skills of an employee.
LEMMA ListFacts ==
  ASSUME ConsoleInv, NEW k \in Clients, stack[k] # << >>,
         Shown(k).write \in {"add_user_skill", "update_user_skill", "remove_user_skill"}
  PROVE  List(k).user \in Users /\ List(k).rows \in Seq(Listable)
<1> DEFINE n == Len(stack[k])
<1>1. /\ Nested(stack[k], Listable) /\ stack[k] \in Seq(Frames(Listable)) /\ n \in Nat
      /\ stack[k][1].screen \in Roots /\ Top(k) = stack[k][n]
      /\ Fits(Shown(k), Top(k).screen, stack[k][1].screen)
  BY TopFacts
<1>2. Top(k).screen \in SkillForms
  BY <1>1, CallDomains DEF Fits
<1>3. n > 1
  BY <1>2, FormFacts
<1>4. List(k) = stack[k][n - 1]
  BY DEF List
<1> HIDE DEF n
<1>5. n - 1 \in 1 .. n - 1 /\ n - 1 \in 1 .. n /\ n - 1 + 1 = n
  BY <1>1, <1>3
<1>6. /\ List(k) \in Frames(Listable) /\ Placed(List(k), n - 1, stack[k][1].screen)
      /\ List(k).done = NRead(List(k).screen)
      /\ Top(k).screen \in Screens[List(k).screen].leads
  <2>1. stack[k][n - 1] \in Frames(Listable)
    BY <1>1, <1>5 DEF n
  <2>2. Placed(stack[k][n - 1], n - 1, stack[k][1].screen)
    BY <1>1, <1>5 DEF Nested, n
  <2>3. /\ stack[k][n - 1].done = NRead(stack[k][n - 1].screen)
        /\ stack[k][n - 1 + 1].screen \in Screens[stack[k][n - 1].screen].leads
    BY <1>1, <1>5 DEF Nested, n
  <2> QED
    BY <1>1, <1>4, <1>5, <2>1, <2>2, <2>3
<1>7. Fits(Screens[List(k).screen], List(k).screen, stack[k][1].screen)
  BY <1>1, <1>6, ScreensFit DEF Placed
<1>8. List(k).screen = "manage_skills"
  BY <1>2, <1>6, <1>7 DEF Fits
<1> QED
  BY <1>6, <1>8 DEF Placed, Frames

LEMMA SaveAccountKeepsConsole ==
  ASSUME ConsoleInv, NEW k \in Clients, SaveAccount(k)
  PROVE  ConsoleInv'
<1> DEFINE write == Shown(k).write
<1>1. Inv' /\ Inv
  BY SaveAccountKeeps DEF ConsoleInv
<1>2. AtPrompt(k) /\ stack[k] # << >> /\ stack' = stack
  BY DEF SaveAccount, AtPrompt
<1>3. CASE write = "change_password" /\ ChangePassword(k)
  <2> DEFINE request == PasswordRequest(session[k].user, "own", FALSE)
  <2>1. Send(k, request) /\ session[k] # Null
    BY <1>3 DEF ChangePassword, Authenticated
  <2>2. NewOK(k, Sent(k, request))
    BY <2>1 DEF NewOK, Sent, PasswordRequest
  <2>3. write \in AccountWrites
    BY <1>3 DEF AccountWrites
  <2> HIDE DEF request
  <2> QED
    BY <1>1, <1>2, <2>1, <2>2, <2>3, SendKeepsConsole
<1>4. ASSUME NEW u \in Users, write = "reset_user_password", ResetPassword(k, u)
      PROVE  ConsoleInv'
  <2> DEFINE request == PasswordRequest(u, "temporary", TRUE)
  <2>1. Send(k, request)
    BY <1>4 DEF ResetPassword
  <2>2. NewOK(k, Sent(k, request))
    BY DEF NewOK, Sent, PasswordRequest
  <2>3. write \in AccountWrites
    BY <1>4 DEF AccountWrites
  <2> HIDE DEF request
  <2> QED
    BY <1>1, <1>2, <2>1, <2>2, <2>3, SendKeepsConsole
<1>5. ASSUME NEW u \in Users, NEW name \in Names, write = "create_user", CreateUser(k, u, name)
      PROVE  ConsoleInv'
  <2> DEFINE request == [op |-> "create", user |-> u, name |-> name]
  <2>1. Send(k, request)
    BY <1>5 DEF CreateUser
  <2>2. NewOK(k, Sent(k, request))
    BY DEF NewOK, Sent
  <2>3. write \in AccountWrites
    BY <1>5 DEF AccountWrites
  <2> HIDE DEF request
  <2> QED
    BY <1>1, <1>2, <2>1, <2>2, <2>3, SendKeepsConsole
<1>6. ASSUME NEW u \in Users,
             \/ write = "reactivate_user" /\ ReactivateUser(k, u)
             \/ write = "deactivate_user" /\ DeactivateUser(k, u)
             \/ write = "deactivate_employee" /\ DeactivateEmployee(k, u)
      PROVE  ConsoleInv'
  <2>1. PICK b \in BOOLEAN : Send(k, [op |-> "status", user |-> u, active |-> b])
    BY <1>6 DEF ReactivateUser, DeactivateUser, DeactivateEmployee
  <2> DEFINE request == [op |-> "status", user |-> u, active |-> b]
  <2>2. NewOK(k, Sent(k, request))
    BY DEF NewOK, Sent
  <2>3. write \in AccountWrites
    BY <1>6 DEF AccountWrites
  <2>4. Send(k, request)
    BY <2>1
  <2> HIDE DEF request
  <2> QED
    BY <1>1, <1>2, <2>2, <2>3, <2>4, SendKeepsConsole
<1>7. ASSUME NEW skill \in SkillNames, NEW level \in Levels, write = "add_user_skill",
             AddSkill(k, List(k).user, skill, level)
      PROVE  ConsoleInv'
  <2> DEFINE u == List(k).user
  <2>1. u \in Users
    BY <1>2, <1>7, ListFacts
  <2> HIDE DEF u
  <2> DEFINE request == [op |-> "add", user |-> u, skill |-> skill, level |-> level,
                         known |-> skill \in skills, id |-> Cardinality(Assigned) + writes + 1]
  <2>2. Send(k, request)
    BY <1>7 DEF AddSkill, u
  <2>3. NewOK(k, Sent(k, request))
    BY <2>1 DEF NewOK, Sent, LastId
  <2>4. write \in AccountWrites
    BY <1>7 DEF AccountWrites
  <2> HIDE DEF request
  <2> QED
    BY <1>1, <1>2, <2>2, <2>3, <2>4, SendKeepsConsole
<1>8. ASSUME NEW n \in DOMAIN List(k).rows, NEW level \in Levels, write = "update_user_skill",
             UpdateProficiency(k, PickedRow(k, n), List(k).rows[n].skill, level)
      PROVE  ConsoleInv'
  <2> DEFINE row == List(k).rows[n]
  <2>1. Seen(row.id, row.skill)
    <3>1. List(k).rows \in Seq(Listable)
      BY <1>2, <1>8, ListFacts
    <3>2. row \in Listable
      BY <3>1
    <3> QED
      BY <3>2 DEF Listable
  <2> DEFINE request == [op |-> "level", id |-> row.id, seen |-> row.skill, level |-> level]
  <2>2. Send(k, request)
    BY <1>8 DEF UpdateProficiency, PickedRow
  <2> HIDE DEF row
  <2>3. NewOK(k, Sent(k, request))
    BY <2>1 DEF NewOK, Sent
  <2>4. write \in AccountWrites
    BY <1>8 DEF AccountWrites
  <2> HIDE DEF request
  <2> QED
    BY <1>1, <1>2, <2>2, <2>3, <2>4, SendKeepsConsole
<1>9. ASSUME NEW n \in DOMAIN List(k).rows, write = "remove_user_skill",
             RemoveSkill(k, PickedRow(k, n), List(k).rows[n].skill)
      PROVE  ConsoleInv'
  <2> DEFINE row == List(k).rows[n]
  <2>1. Seen(row.id, row.skill)
    <3>1. List(k).rows \in Seq(Listable)
      BY <1>2, <1>9, ListFacts
    <3>2. row \in Listable
      BY <3>1
    <3> QED
      BY <3>2 DEF Listable
  <2> DEFINE request == [op |-> "remove", id |-> row.id, seen |-> row.skill]
  <2>2. Send(k, request)
    BY <1>9 DEF RemoveSkill, PickedRow
  <2> HIDE DEF row
  <2>3. NewOK(k, Sent(k, request))
    BY <2>1 DEF NewOK, Sent
  <2>4. write \in AccountWrites
    BY <1>9 DEF AccountWrites
  <2> HIDE DEF request
  <2> QED
    BY <1>1, <1>2, <2>2, <2>3, <2>4, SendKeepsConsole
<1> QED
  BY <1>3, <1>4, <1>5, <1>6, <1>7, <1>8, <1>9 DEF SaveAccount

-----------------------------------------------------------------------------
\* Request i is over, and what it wrote keeps ids what they were.
LEMMA FinishKeepsConsole ==
  ASSUME ConsoleInv, Inv', NEW i \in Slots, NEW answer \in {"ok", "error"},
         requests[i] # Null, Finish(i, answer), stack' = stack, now' = now,
         IdsOK', Listable \subseteq Listable',
         \/ session' = session
         \/ /\ requests[i].waited /\ requests[i].op = "password" /\ ~requests[i].forced
            /\ session' = [session EXCEPT ![requests[i].client] = Token(requests[i].user, FALSE)]
  PROVE  ConsoleInv'
<1> DEFINE r == requests[i]
           c == r.client
<1>1. /\ c \in Clients /\ r.waited \in BOOLEAN
      /\ r.waited => /\ reply[c] = "wait"
                     /\ \A j \in Slots : (/\ requests[j] # Null /\ requests[j].waited
                                          /\ requests[j].client = c) => i = j
                     /\ r.op = "password" /\ ~r.forced =>
                          session[c] # Null /\ session[c].user = r.user
  BY DEF ConsoleInv, Inv, RequestsOK, RequestOK, WaitOK
<1>2. /\ requests'[i] = Null /\ \A j \in Slots : j # i => requests'[j] = requests[j]
  BY DEF Finish, ConsoleInv, Inv, RequestsOK
<1>3. /\ reply' = [reply EXCEPT ![c] = IF r.waited THEN answer ELSE reply[c]]
      /\ reply'[c] = IF r.waited THEN answer ELSE reply[c]
      /\ \A k \in Clients : k # c => reply'[k] = reply[k]
  <2>1. reply' = [reply EXCEPT ![c] = IF r.waited THEN answer ELSE reply[c]]
    BY DEF Finish
  <2> HIDE DEF c, r
  <2> QED
    BY <1>1, <2>1 DEF ConsoleInv, RepliesOK
<1>4. \A k \in Clients :
        \/ session'[k] = session[k]
        \/ /\ k = c /\ r.waited /\ r.op = "password" /\ ~r.forced
           /\ session'[k] = Token(r.user, FALSE)
  BY <1>1 DEF ConsoleInv, Inv, SessionsOK
<1> HIDE DEF c
<1>5. StacksOK'
  BY StacksStay DEF ConsoleInv
<1>6. MenusOK'
  <2>1. ASSUME NEW k \in Clients PROVE MenuOK(session'[k], stack[k])
    <3>0. MenuOK(session[k], stack[k])
      BY DEF ConsoleInv, MenusOK
    <3>1. CASE session'[k] = session[k]
      BY <3>0, <3>1
    <3>2. CASE /\ k = c /\ r.waited /\ r.op = "password" /\ ~r.forced
               /\ session'[k] = Token(r.user, FALSE)
      <4>1. session[k] # Null /\ session[k].user = r.user /\ r.user \in Users /\ now \in Nat
        BY <1>1, <3>2 DEF ConsoleInv, Inv, SessionsOK, UsersOK
      <4>2. /\ Token(r.user, FALSE) # Null /\ Token(r.user, FALSE).user = r.user
            /\ Token(r.user, FALSE).role = Role[r.user] /\ Token(r.user, FALSE).forced = FALSE
        BY <4>1, TokenLaw
      <4> QED
        BY <3>0, <3>2, <4>1, <4>2 DEF MenuOK
    <3> QED
      BY <1>4, <3>1, <3>2
  <2> QED
    BY <2>1 DEF MenusOK, MenuOK
<1>7. RepliesOK'
  <2>1. reply' \in [Clients -> {"none", "wait", "ok", "error"}]
    BY <1>1, <1>3 DEF ConsoleInv, RepliesOK
  <2>2. ASSUME NEW k \in Clients, reply'[k] # "none" PROVE reply[k] # "none"
    BY <1>1, <1>3, <2>2
  <2> QED
    BY <2>1, <2>2 DEF ConsoleInv, RepliesOK, Top, Shown
<1>8. WaitOK'
  <2>1. ASSUME NEW j \in Slots, requests'[j] # Null
        PROVE  /\ j # i /\ requests'[j] = requests[j] /\ requests[j] # Null
               /\ requests[j].client \in Clients
    BY <1>2, <2>1 DEF ConsoleInv, Inv, RequestsOK, RequestOK
  <2>2. ASSUME NEW j \in Slots, requests'[j] # Null, requests[j].waited
        PROVE  /\ reply'[requests[j].client] = reply[requests[j].client]
               /\ session'[requests[j].client] = session[requests[j].client]
    BY <1>1, <1>3, <1>4, <2>1, <2>2
  <2> QED
    BY <2>1, <2>2 DEF ConsoleInv, WaitOK
<1> QED
  BY <1>5, <1>6, <1>7, <1>8 DEF ConsoleInv

\* What is left when request i is over and has written no skills.
LEMMA IdsStay ==
  ASSUME ConsoleInv, NEW i \in Slots, requests' = [requests EXCEPT ![i] = Null],
         UNCHANGED <<skills, assigned, writes>>
  PROVE  IdsOK' /\ Listable \subseteq Listable'
<1>1. \A j \in Slots : requests'[j] = IF j = i THEN Null ELSE requests[j]
  BY DEF ConsoleInv, Inv, RequestsOK
<1>2. writes' = writes /\ writes \in Nat
  BY BoundsLaw DEF ConsoleInv, IdsOK
<1>3. (\A id, skill : Seen(id, skill) => Seen(id, skill)') /\ Listable \subseteq Listable'
  <2>1. IdsOK /\ writes' \in Nat /\ writes <= writes'
    BY <1>2 DEF ConsoleInv
  <2>2. \A j \in Slots : Underway(j, "add")' =>
          \E m \in Slots : Underway(m, "add") /\ requests[m].id = requests'[j].id
    BY <1>1 DEF Underway
  <2> QED
    BY <2>1, <2>2, SeenStays
<1>4. LastId' = LastId
  BY DEF LastId
<1>5. ASSUME NEW j \in Slots, requests'[j] # Null PROVE Asked(requests[j])'
  <2>1. requests'[j] = requests[j] /\ Asked(requests[j])
    BY <1>1, <1>5 DEF ConsoleInv, IdsOK
  <2> QED
    BY <1>3, <1>4, <2>1 DEF Asked
<1>6. \A j \in Slots : Underway(j, "add")' => Underway(j, "add") /\ requests'[j] = requests[j]
  BY <1>1 DEF Underway
<1> QED
  BY <1>3, <1>5, <1>6 DEF ConsoleInv, IdsOK

-----------------------------------------------------------------------------
(***************************************************************************)
(* The steps of the API.                                                   *)
(***************************************************************************)

LEMMA InsertSkillKeepsConsole ==
  ASSUME ConsoleInv, NEW i \in Slots, InsertSkill(i), stack' = stack
  PROVE  ConsoleInv'
<1> DEFINE r == requests[i]
           row == [id |-> r.id, user |-> r.user, skill |-> r.skill, level |-> r.level]
<1>1. /\ Inv' /\ requests[i] # Null /\ Underway(i, "add")
      /\ now' = now /\ session' = session /\ writes' = writes
      /\ requests' = [requests EXCEPT ![i] = Null]
  BY SkillsKeep DEF ConsoleInv, InsertSkill, Underway, Finish
<1>2. PICK answer \in {"ok", "error"} : Finish(i, answer)
  BY DEF InsertSkill
<1>3. IdsOK' /\ Listable \subseteq Listable'
  <2>1. CASE UNCHANGED <<skills, assigned>>
    BY <1>1, <2>1, IdsStay
  <2>2. CASE skills' = skills \cup {r.skill} /\ assigned' = assigned \cup {row}
    <3>1. /\ r.user \in Users /\ r.skill \in SkillNames /\ r.level \in Levels
          /\ r.id \in 1 .. LastId
      BY <1>1 DEF ConsoleInv, IdsOK, Asked, Underway
    <3>2. \A other \in assigned : other.id # r.id
      BY <1>1 DEF ConsoleInv, IdsOK, Seen
    <3>3. /\ \A j \in Slots : Underway(j, "add")' =>
                /\ j # i /\ Underway(j, "add") /\ requests'[j] = requests[j]
          /\ \A j \in Slots : requests'[j] # Null => requests'[j] = requests[j]
      BY <1>1 DEF ConsoleInv, Inv, RequestsOK, Underway
    <3>4. row.id = r.id /\ row.user = r.user /\ row.skill = r.skill /\ row.level = r.level
      OBVIOUS
    <3>5. LastId \in Nat /\ LastId <= Cardinality(Assigned) + MaxWrites /\ LastId' = LastId
          /\ writes \in Nat
      BY <1>1, BoundsLaw DEF LastId, ConsoleInv, IdsOK
    <3>6. row \in Rows
      <4>1. r.id \in 1 .. Cardinality(Assigned) + MaxWrites
        BY <3>1, <3>5, BoundsLaw
      <4> QED
        BY <3>1, <4>1 DEF Rows
    <3> HIDE DEF row
    <3>7. (\A id, skill : Seen(id, skill) => Seen(id, skill)') /\ Listable \subseteq Listable'
      <4>1. \A new \in assigned' :
              \/ \E other \in assigned : other.id = new.id /\ other.skill = new.skill
              \/ \E j \in Slots : Underway(j, "add") /\ requests[j].id = new.id
        BY <1>1, <2>2, <3>4
      <4>2. IdsOK /\ writes' \in Nat /\ writes <= writes'
        BY <1>1, <3>5 DEF ConsoleInv
      <4> QED
        BY <3>3, <4>1, <4>2, SeenStays
    <3>8. ASSUME NEW new, new.id = row.id, new.skill = row.skill PROVE Seen(new.id, new.skill)'
      <4>1. \A other \in assigned' : other.id = new.id => other.skill = new.skill
        BY <2>2, <3>2, <3>4, <3>8
      <4>2. ASSUME NEW j \in Slots, Underway(j, "add")' PROVE requests'[j].id # new.id
        <5>1. j # i /\ Underway(j, "add") /\ requests'[j] = requests[j]
          BY <3>3, <4>2
        <5>2. requests[j].id # requests[i].id
          BY <1>1, <5>1 DEF ConsoleInv, IdsOK
        <5> QED
          BY <3>4, <3>8, <5>1, <5>2
      <4>3. new.id \in 1 .. LastId'
        BY <3>1, <3>4, <3>5, <3>8
      <4> QED
        BY <4>1, <4>2, <4>3 DEF Seen
    <3>9. ASSUME NEW new \in assigned' PROVE Seen(new.id, new.skill)'
      <4>1. new \in assigned \/ new = row
        BY <2>2
      <4> QED
        BY <3>7, <3>8, <4>1 DEF ConsoleInv, IdsOK
    <3>10. \A new, other \in assigned' : new.id = other.id => new = other
      BY <2>2, <3>2, <3>4 DEF ConsoleInv, IdsOK
    <3>11. \A j, m \in Slots : (/\ Underway(j, "add")' /\ Underway(m, "add")'
                                /\ requests'[j].id = requests'[m].id) => j = m
      BY <3>3 DEF ConsoleInv, IdsOK
    <3>12. ASSUME NEW j \in Slots, requests'[j] # Null PROVE Asked(requests[j])'
      <4>1. requests'[j] = requests[j] /\ Asked(requests[j])
        BY <3>3, <3>12 DEF ConsoleInv, IdsOK
      <4> QED
        BY <3>5, <3>7, <4>1 DEF Asked
    <3>13. writes' \in 0 .. MaxWrites /\ skills' \subseteq SkillNames /\ assigned' \subseteq Rows
      BY <1>1, <2>2, <3>1, <3>6 DEF ConsoleInv, IdsOK
    <3> QED
      BY <3>7, <3>9, <3>10, <3>11, <3>12, <3>13 DEF IdsOK
  <2> QED
    BY <2>1, <2>2 DEF InsertSkill
<1> QED
  BY <1>1, <1>2, <1>3, FinishKeepsConsole

LEMMA WriteSkillKeepsConsole ==
  ASSUME ConsoleInv, NEW i \in Slots, WriteSkill(i), stack' = stack
  PROVE  ConsoleInv'
<1> DEFINE r == requests[i]
           rows == {row \in assigned : row.id = r.id}
           Changed(row) == [row EXCEPT !.level = r.level]
<1>1. /\ Inv' /\ requests[i] # Null /\ r.op \in {"level", "remove"}
      /\ now' = now /\ session' = session /\ writes' = writes /\ skills' = skills
      /\ requests' = [requests EXCEPT ![i] = Null]
  BY SkillsKeep DEF ConsoleInv, WriteSkill, Underway, Finish
<1>2. PICK answer \in {"ok", "error"} : Finish(i, answer)
  BY DEF WriteSkill
<1>3. assigned' = (assigned \ rows) \cup
                    (IF r.op = "remove" THEN {} ELSE {Changed(row) : row \in rows})
  BY DEF WriteSkill
<1>4. ASSUME NEW row \in assigned, r.op # "remove"
      PROVE  /\ Changed(row) \in Rows
             /\ Changed(row).id = row.id /\ Changed(row).skill = row.skill
  <2>1. row \in Rows /\ r.level \in Levels
    BY <1>1, <1>4 DEF ConsoleInv, IdsOK, Asked
  <2> QED
    BY <2>1 DEF Rows
<1> HIDE DEF Changed
<1>5. ASSUME NEW new \in assigned'
      PROVE  \E row \in assigned :
               /\ IF row.id = r.id THEN r.op # "remove" /\ new = Changed(row) ELSE new = row
               /\ new \in Rows /\ new.id = row.id /\ new.skill = row.skill
  <2>1. CASE new \in assigned \ rows
    BY <2>1 DEF ConsoleInv, IdsOK
  <2>2. CASE new \notin assigned \ rows
    <3>1. r.op # "remove" /\ \E row \in rows : new = Changed(row)
      BY <1>3, <2>2
    <3>2. PICK row \in rows : new = Changed(row)
      BY <3>1
    <3> QED
      BY <1>4, <3>1, <3>2
  <2> QED
    BY <2>1, <2>2
<1>6. /\ \A j \in Slots : Underway(j, "add")' => Underway(j, "add") /\ requests'[j] = requests[j]
      /\ \A j \in Slots : requests'[j] # Null => requests'[j] = requests[j]
  BY <1>1 DEF ConsoleInv, Inv, RequestsOK, Underway
<1>7. LastId' = LastId /\ writes \in Nat
  BY <1>1, BoundsLaw DEF LastId, ConsoleInv, IdsOK
<1>8. (\A id, skill : Seen(id, skill) => Seen(id, skill)') /\ Listable \subseteq Listable'
  <2>1. \A new \in assigned' : \E row \in assigned : row.id = new.id /\ row.skill = new.skill
    BY <1>5
  <2>2. IdsOK /\ writes' \in Nat /\ writes <= writes'
    BY <1>1, <1>7 DEF ConsoleInv
  <2> QED
    BY <1>6, <2>1, <2>2, SeenStays
<1>9. IdsOK'
  <2>1. ASSUME NEW new \in assigned', NEW other \in assigned', new.id = other.id
        PROVE  new = other
    <3>1. PICK a \in assigned :
            /\ IF a.id = r.id THEN r.op # "remove" /\ new = Changed(a) ELSE new = a
            /\ new.id = a.id
      BY <1>5
    <3>2. PICK b \in assigned :
            /\ IF b.id = r.id THEN r.op # "remove" /\ other = Changed(b) ELSE other = b
            /\ other.id = b.id
      BY <1>5
    <3>3. a = b
      BY <2>1, <3>1, <3>2 DEF ConsoleInv, IdsOK
    <3> QED
      BY <3>1, <3>2, <3>3
  <2>2. \A new \in assigned' : new \in Rows /\ Seen(new.id, new.skill)'
    <3>1. \A row \in assigned : Seen(row.id, row.skill)
      BY DEF ConsoleInv, IdsOK
    <3> QED
      BY <1>5, <1>8, <3>1
  <2>3. \A j, m \in Slots : (/\ Underway(j, "add")' /\ Underway(m, "add")'
                             /\ requests'[j].id = requests'[m].id) => j = m
    BY <1>6 DEF ConsoleInv, IdsOK
  <2>4. ASSUME NEW j \in Slots, requests'[j] # Null PROVE Asked(requests[j])'
    <3>1. requests'[j] = requests[j] /\ Asked(requests[j])
      BY <1>6, <2>4 DEF ConsoleInv, IdsOK
    <3> QED
      BY <1>7, <1>8, <3>1 DEF Asked
  <2>5. writes' \in 0 .. MaxWrites /\ skills' \subseteq SkillNames
    BY <1>1 DEF ConsoleInv, IdsOK
  <2> QED
    BY <2>1, <2>2, <2>3, <2>4, <2>5 DEF IdsOK
<1> QED
  BY <1>1, <1>2, <1>8, <1>9, FinishKeepsConsole

LEMMA ServeKeepsConsole ==
  ASSUME ConsoleInv, NEW i \in Slots, Serve(i), stack' = stack
  PROVE  ConsoleInv'
<1>1. CASE WritePassword(i)
  <2>1. Inv'
    BY <1>1, WritePasswordKeeps DEF ConsoleInv
  <2>2. /\ requests[i] # Null /\ requests[i].op = "password" /\ Finish(i, "ok")
        /\ requests' = [requests EXCEPT ![i] = Null]
        /\ UNCHANGED <<skills, assigned, now, writes>>
    BY <1>1 DEF WritePassword, Underway, Finish
  <2>3. \/ session' = session
        \/ /\ requests[i].waited /\ ~requests[i].forced
           /\ session' = [session EXCEPT ![requests[i].client] = Token(requests[i].user, FALSE)]
    BY <1>1 DEF WritePassword
  <2>4. IdsOK' /\ Listable \subseteq Listable'
    BY <2>2, IdsStay
  <2> QED
    BY <2>1, <2>2, <2>3, <2>4, FinishKeepsConsole
<1>2. CASE InsertUser(i)
  <2>1. Inv'
    BY <1>2, InsertUserKeeps DEF ConsoleInv
  <2>2. PICK answer \in {"ok", "error"} : Finish(i, answer)
    BY <1>2 DEF InsertUser
  <2>3. /\ requests[i] # Null /\ requests' = [requests EXCEPT ![i] = Null]
        /\ UNCHANGED <<skills, assigned, now, writes>> /\ session' = session
    BY <1>2, <2>2 DEF InsertUser, Underway, Finish
  <2>4. IdsOK' /\ Listable \subseteq Listable'
    BY <2>3, IdsStay
  <2> QED
    BY <2>1, <2>2, <2>3, <2>4, FinishKeepsConsole
<1>3. CASE WriteStatus(i)
  <2>1. Inv'
    BY <1>3, WriteStatusKeeps DEF ConsoleInv
  <2>2. /\ requests[i] # Null /\ requests' = [requests EXCEPT ![i] = Null]
        /\ UNCHANGED <<skills, assigned, now, writes>> /\ session' = session
        /\ Finish(i, "ok")
    BY <1>3 DEF WriteStatus, Underway, Finish
  <2>3. IdsOK' /\ Listable \subseteq Listable'
    BY <2>2, IdsStay
  <2> QED
    BY <2>1, <2>2, <2>3, FinishKeepsConsole
<1> QED
  BY <1>1, <1>2, <1>3, InsertSkillKeepsConsole, WriteSkillKeepsConsole DEF Serve

LEMMA GiveUpKeepsConsole ==
  ASSUME ConsoleInv, NEW i \in Slots, GiveUp(i), stack' = stack
  PROVE  ConsoleInv'
<1> DEFINE r == requests[i]
           late == [r EXCEPT !.waited = FALSE]
           c == r.client
<1>1. /\ Inv' /\ r # Null /\ r.waited /\ requests' = [requests EXCEPT ![i] = late]
      /\ reply' = [reply EXCEPT ![c] = "error"]
      /\ UNCHANGED <<users, skills, assigned, session, now, lastActive, writes>>
  BY GiveUpKeeps DEF ConsoleInv, GiveUp
<1>2. c \in Clients /\ reply[c] = "wait" /\ RequestOK(r) /\ Asked(r)
      /\ \A j \in Slots : (/\ requests[j] # Null /\ requests[j].waited
                           /\ requests[j].client = c) => i = j
  BY <1>1 DEF ConsoleInv, Inv, RequestsOK, RequestOK, WaitOK, IdsOK
<1>3. DOMAIN late = DOMAIN r /\ \A f \in DOMAIN r \ {"waited"} : late[f] = r[f]
  BY <1>2 DEF RequestOK
<1>4. /\ late.op = r.op /\ late.waited = FALSE
      /\ r.op = "add" => /\ late.id = r.id /\ late.user = r.user /\ late.skill = r.skill
                         /\ late.level = r.level
      /\ r.op = "level" => late.id = r.id /\ late.seen = r.seen /\ late.level = r.level
      /\ r.op = "remove" => late.id = r.id /\ late.seen = r.seen
  <2>1. Fields(r.op) \subseteq DOMAIN r
    BY <1>2 DEF RequestOK
  <2>2. late.op = r.op /\ late.waited = FALSE
    BY <1>2, <1>3, <2>1 DEF Fields
  <2>3. r.op = "add" => /\ late.id = r.id /\ late.user = r.user /\ late.skill = r.skill
                        /\ late.level = r.level
    BY <1>3, <2>1 DEF Fields
  <2>4. r.op = "level" => late.id = r.id /\ late.seen = r.seen /\ late.level = r.level
    BY <1>3, <2>1 DEF Fields
  <2>5. r.op = "remove" => late.id = r.id /\ late.seen = r.seen
    BY <1>3, <2>1 DEF Fields
  <2> QED
    BY <2>2, <2>3, <2>4, <2>5
<1>5. requests'[i] = late /\ \A j \in Slots : j # i => requests'[j] = requests[j]
  BY <1>1 DEF ConsoleInv, Inv, RequestsOK
<1>6. reply'[c] = "error" /\ \A k \in Clients : k # c => reply'[k] = reply[k]
  BY <1>1, <1>2 DEF ConsoleInv, RepliesOK
<1> HIDE DEF late, c, r
<1>7. \A j \in Slots : /\ Underway(j, "add")' <=> (requests'[j] # Null /\ requests'[j].op = "add")
                       /\ Underway(j, "add")' =>
                            Underway(j, "add") /\ requests'[j].id = requests[j].id
  BY <1>1, <1>4, <1>5 DEF Underway, r
<1>8. LastId' = LastId /\ writes' = writes /\ writes \in Nat
  BY <1>1, BoundsLaw DEF LastId, ConsoleInv, IdsOK
<1>9. (\A id, skill : Seen(id, skill) => Seen(id, skill)') /\ Listable \subseteq Listable'
  <2>1. IdsOK /\ writes' \in Nat /\ writes <= writes' /\ assigned' = assigned
    BY <1>1, <1>8 DEF ConsoleInv
  <2> QED
    BY <1>7, <2>1, SeenStays
<1>10. IdsOK'
  <2>1. ASSUME NEW j \in Slots, requests'[j] # Null PROVE Asked(requests[j])'
    <3>1. CASE j = i
      BY <3>1, <1>2, <1>4, <1>5, <1>8, <1>9 DEF Asked
    <3>2. CASE j # i
      BY <3>2, <2>1, <1>5, <1>8, <1>9 DEF ConsoleInv, IdsOK, Asked
    <3> QED
      BY <3>1, <3>2
  <2>2. \A row \in assigned' : Seen(row.id, row.skill)'
    BY <1>1, <1>9 DEF ConsoleInv, IdsOK
  <2>3. \A j, m \in Slots : (/\ Underway(j, "add")' /\ Underway(m, "add")'
                             /\ requests'[j].id = requests'[m].id) => j = m
    BY <1>7 DEF ConsoleInv, IdsOK
  <2> QED
    BY <1>1, <2>1, <2>2, <2>3 DEF ConsoleInv, IdsOK
<1>11. StacksOK'
  BY <1>9, StacksStay DEF ConsoleInv
<1>12. MenusOK'
  BY <1>1 DEF ConsoleInv, MenusOK, MenuOK
<1>13. RepliesOK'
  <2>1. reply' \in [Clients -> {"none", "wait", "ok", "error"}]
    BY <1>1 DEF ConsoleInv, RepliesOK
  <2>2. \A k \in Clients : reply'[k] # "none" => reply[k] # "none"
    BY <1>2, <1>6
  <2> QED
    BY <2>1, <2>2 DEF ConsoleInv, RepliesOK, Top, Shown
<1>14. WaitOK'
  <2>1. ASSUME NEW j \in Slots, requests'[j] # Null, j # i
        PROVE  requests'[j] = requests[j] /\ requests[j] # Null /\ requests[j].client \in Clients
    BY <1>5, <2>1 DEF ConsoleInv, Inv, RequestsOK, RequestOK
  <2>2. ASSUME NEW j \in Slots, requests'[j] # Null, j # i, requests[j].waited
        PROVE  reply'[requests[j].client] = reply[requests[j].client]
    BY <1>2, <1>6, <2>1, <2>2
  <2>3. \A j \in Slots : (requests'[j] # Null /\ requests'[j].waited) => j # i
    BY <1>4, <1>5
  <2>4. \A j \in Slots : requests'[j] # Null => requests'[j].waited \in BOOLEAN
    BY <1>4, <1>5 DEF ConsoleInv, WaitOK
  <2> QED
    BY <1>1, <2>1, <2>2, <2>3, <2>4 DEF ConsoleInv, WaitOK
<1> QED
  BY <1>1, <1>10, <1>11, <1>12, <1>13, <1>14 DEF ConsoleInv

LEMMA HourPassesKeepsConsole ==
  ASSUME ConsoleInv, HourPasses, stack' = stack
  PROVE  ConsoleInv'
<1>1. Inv'
  BY HourPassesKeeps DEF ConsoleInv
<1>2. now' \in 0 .. MaxHours
  BY BoundsLaw DEF ConsoleInv, HourPasses
<1>3. /\ UNCHANGED <<skills, assigned, session, requests, reply, writes>>
      /\ \A i \in Slots : requests[i] = Null
  BY DEF HourPasses
<1>4. IdsOK' /\ Listable' = Listable
  BY <1>3 DEF ConsoleInv, IdsOK, Asked, Listable, Seen, LastId, Underway
<1>5. StacksOK'
  BY <1>4, StacksStay DEF ConsoleInv
<1>6. MenusOK' /\ RepliesOK' /\ WaitOK'
  BY <1>3 DEF ConsoleInv, MenusOK, MenuOK, RepliesOK, WaitOK, Top, Shown
<1> QED
  BY <1>1, <1>2, <1>4, <1>5, <1>6 DEF ConsoleInv

LEMMA ConsoleNext ==
  ASSUME ConsoleInv, [Next]_vars
  PROVE  ConsoleInv'
<1>1. Inv'
  BY NextKeeps DEF ConsoleInv
<1>2. ASSUME NEW k \in Clients,
             \/ Start(k) \/ EnterLogin(k) \/ Read(k) \/ ReadFails(k) \/ Open(k) \/ Back(k)
             \/ Logout(k) \/ Quit(k) \/ SaveOther(k) \/ SaveFails(k) \/ Hear(k)
      PROVE  ConsoleInv'
  <2>1. Shift(k)
    BY <1>2, StartShifts, LoginShifts, ReadShifts, ReadFailsShifts, OpenShifts, BackShifts,
       LeaveShifts, SaveOtherShifts, SaveFailsShifts, HearShifts
  <2> QED
    BY <1>1, <2>1, ShiftKeeps
<1>3. CASE UNCHANGED vars
  <2>1. /\ UNCHANGED <<skills, assigned, session, requests, reply, now, writes>>
        /\ stack' = stack
    BY <1>3 DEF vars, accountVars
  <2>2. IdsOK' /\ Listable' = Listable /\ (now \in 0 .. MaxHours)'
    BY <2>1 DEF ConsoleInv, IdsOK, Asked, Listable, Seen, LastId, Underway
  <2>3. StacksOK'
    BY <2>1, <2>2, StacksStay DEF ConsoleInv
  <2>4. MenusOK' /\ RepliesOK' /\ WaitOK'
    BY <2>1 DEF ConsoleInv, MenusOK, MenuOK, RepliesOK, WaitOK, Top, Shown
  <2> QED
    BY <1>1, <2>2, <2>3, <2>4 DEF ConsoleInv
<1>4. ASSUME NEW i \in Slots, Serve(i) \/ GiveUp(i), UNCHANGED stack PROVE ConsoleInv'
  BY <1>4, ServeKeepsConsole, GiveUpKeepsConsole
<1> QED
  BY <1>2, <1>3, <1>4, SaveAccountKeepsConsole, HourPassesKeepsConsole DEF Next

LEMMA ConsoleInvariance == Spec => []ConsoleInv
<1> QED
  BY ConsoleInit, ConsoleNext, PTL DEF Spec

-----------------------------------------------------------------------------
(***************************************************************************)
(* The theorems about consoles.                                            *)
(***************************************************************************)

\* Every call is a method and a path.
IsPair(p) == \E method, path : p = <<method, path>>

LEMMA PairLaw == \A method, path : IsPair(<<method, path>>)
BY DEF IsPair

LEMMA CallPairs == ASSUME NEW call \in DOMAIN Calls PROVE IsPair(Calls[call])
<1>1. /\ IsPair(SessionCalls["login"]) /\ IsPair(SessionCalls["change_password"])
  BY PairLaw DEF SessionCalls
<1>2. /\ IsPair(UserCalls["create_user"]) /\ IsPair(UserCalls["list_users"])
      /\ IsPair(UserCalls["reset_user_password"]) /\ IsPair(UserCalls["deactivate_user"])
      /\ IsPair(UserCalls["reactivate_user"])
  BY PairLaw DEF UserCalls
<1>3. /\ IsPair(EmployeeCalls["list_employees"]) /\ IsPair(EmployeeCalls["get_employee"])
      /\ IsPair(EmployeeCalls["update_employee"])
      /\ IsPair(EmployeeCalls["deactivate_employee"])
      /\ IsPair(EmployeeCalls["assign_manager"])
  BY PairLaw DEF EmployeeCalls
<1>4. /\ IsPair(SkillCalls["list_user_skills"]) /\ IsPair(SkillCalls["add_user_skill"])
      /\ IsPair(SkillCalls["update_user_skill"]) /\ IsPair(SkillCalls["remove_user_skill"])
  BY PairLaw DEF SkillCalls
<1>5. /\ IsPair(ProjectCalls["create_project"]) /\ IsPair(ProjectCalls["list_projects"])
      /\ IsPair(ProjectCalls["get_project"]) /\ IsPair(ProjectCalls["update_project"])
      /\ IsPair(ProjectCalls["list_milestones"]) /\ IsPair(ProjectCalls["add_milestone"])
      /\ IsPair(ProjectCalls["update_milestone_status"])
  BY PairLaw DEF ProjectCalls
<1>6. /\ IsPair(SettingCalls["list_allocations"])
      /\ IsPair(SettingCalls["get_configuration"])
      /\ IsPair(SettingCalls["update_llm_api_key"])
      /\ IsPair(SettingCalls["update_llm_provider"])
      /\ IsPair(SettingCalls["update_scheduler_interval"])
      /\ IsPair(SettingCalls["update_max_weekly_hours"])
  BY PairLaw DEF SettingCalls
<1>7. /\ IsPair(ResourceCalls["get_resource_dashboard"])
      /\ IsPair(ResourceCalls["get_engineer_resource_detail"])
      /\ IsPair(ResourceCalls["list_manager_projects"])
      /\ IsPair(ResourceCalls["get_manager_project"])
      /\ IsPair(ResourceCalls["list_project_allocations"])
      /\ IsPair(ResourceCalls["create_allocation"])
      /\ IsPair(ResourceCalls["end_allocation"])
  BY PairLaw DEF ResourceCalls
<1>8. /\ IsPair(AssistantCalls["skill_match"]) /\ IsPair(AssistantCalls["team_match"])
      /\ IsPair(AssistantCalls["get_risk_summary"])
      /\ IsPair(AssistantCalls["list_team_timesheets"])
  BY PairLaw DEF AssistantCalls
<1>9. /\ IsPair(EngineerCalls["list_allocations_for_week"])
      /\ IsPair(EngineerCalls["list_my_allocations"])
      /\ IsPair(EngineerCalls["submit_timesheet"])
      /\ IsPair(EngineerCalls["list_my_timesheets"])
      /\ IsPair(EngineerCalls["get_my_timesheet_detail"])
  BY PairLaw DEF EngineerCalls
<1>10. IsPair(DetailCalls["get_engineer_timesheet_detail"])
  BY PairLaw DEF DetailCalls
<1> QED
  BY <1>1, <1>2, <1>3, <1>4, <1>5, <1>6, <1>7, <1>8, <1>9, <1>10, CallDomains, CallsLaw
     DEF Within

\* A call that is allowed to the role of a token is served.
LEMMA AllowedIsServed ==
  ASSUME NEW token, token.role \in RoleNames, token.role = Role[token.user],
         NEW call \in Allowed(token.role)
  PROVE  Served(token, call)
<1>1. PICK guard \in Guards(token.role) : HasRoute(call, guard)
  BY DEF Allowed
<1> DEFINE route == <<Calls[call][1], Calls[call][2], guard>>
<1>2. route \in Routes /\ <<route[1], route[2]>> = Calls[call] /\ route[3] = guard
  <2>1. IsPair(Calls[call])
    BY CallPairs DEF Allowed
  <2> QED
    BY <1>1, <2>1 DEF HasRoute, IsPair
<1>3. Entitled(token, guard)
  BY <1>1 DEF Guards, Entitled
<1> HIDE DEF route
<1> QED
  BY <1>2, <1>3 DEF Served

\* Screens are nested six deep at most, whatever leads to what, and all that is stored
\* has its type.
THEOREM ConsoleTypeCorrectness == Spec => []TypeOK
<1>1. ASSUME ConsoleInv PROVE TypeOK
  <2>1. /\ \A u \in Users : users[u] \in Account \cup {Null}
        /\ skills \subseteq SkillNames /\ assigned \subseteq Rows
        /\ now \in 0 .. MaxHours /\ writes \in 0 .. MaxWrites
    BY <1>1 DEF ConsoleInv, Inv, UsersOK, IdsOK
  <2>2. ASSUME NEW k \in Clients, session[k] # Null PROVE session[k].expires <= now + TokenHours
    <3>1. /\ session[k].user \in Users /\ session[k].expires \in Nat
          /\ session[k].expires <= lastActive[session[k].user] + TokenHours
      BY <1>1, <2>2 DEF ConsoleInv, Inv, SessionsOK
    <3>2. /\ lastActive[session[k].user] \in Nat /\ now \in Nat
          /\ lastActive[session[k].user] <= now
      BY <1>1, <3>1 DEF ConsoleInv, Inv, UsersOK
    <3> QED
      BY <3>1, <3>2, HoursAssumption
  <2>3. ASSUME NEW k \in Clients
        PROVE  /\ Len(stack[k]) <= 6
               /\ \A d \in DOMAIN stack[k] : /\ stack[k][d].screen \in DOMAIN Screens
                                             /\ stack[k][d].done \in 0 .. 2
    <3>1. CASE stack[k] = << >>
      BY <3>1
    <3>2. CASE stack[k] # << >>
      <4> DEFINE n == Len(stack[k])
      <4>1. /\ stack[k] \in Seq(Frames(Listable)) /\ n \in Nat
            /\ Placed(Top(k), n, stack[k][1].screen)
        BY <1>1, <3>2, TopFacts
      <4>2. \A d \in DOMAIN stack[k] : stack[k][d] \in Frames(Listable)
        BY <4>1
      <4>3. n + Height(Top(k).screen) <= 7 /\ Height(Top(k).screen) \in 1 .. 6
        BY <4>1, HeightLaw DEF Placed
      <4>4. n <= 6
        <5> HIDE DEF n
        <5> QED
          BY <4>1, <4>3
      <4> QED
        BY <4>2, <4>4 DEF Frames
    <3> QED
      BY <3>1, <3>2
  <2>4. \A k \in Clients : reply[k] \in {"none", "wait", "ok", "error"}
    BY <1>1 DEF ConsoleInv, RepliesOK
  <2> QED
    BY <2>1, <2>2, <2>3, <2>4 DEF TypeOK, Rows
<1> QED
  BY <1>1, ConsoleInvariance, PTL

\* A menu is shown under a token of its role only, never before a forced change of the
\* password, and this stays so while answers come late and tokens are renewed.
THEOREM MenusAreForTheRole == Spec => []MenusNeedOwnPassword
<1>1. ConsoleInv => MenusNeedOwnPassword
  BY DEF ConsoleInv, MenusOK, MenuOK, MenusNeedOwnPassword
<1> QED
  BY <1>1, ConsoleInvariance, PTL

\* Whatever screens were opened from whichever, each call of the last has a route that
\* lets in whoever got there.
THEOREM CallsAreAlwaysServed == Spec => []CallsAreServed
<1>1. ASSUME ConsoleInv, NEW k \in Clients, stack[k] # << >>, Top(k).screen # "welcome",
             NEW call \in {Reads(Shown(k))[n] : n \in DOMAIN Reads(Shown(k))}
                            \cup {Shown(k).write},
             call # Null
      PROVE  Served(session[k], call)
  <2> DEFINE root == stack[k][1].screen
  <2>1. /\ root \in Roots /\ Top(k).screen \in Area(root) /\ Shown(k) = Screens[Top(k).screen]
        /\ Fits(Shown(k), Top(k).screen, root)
    BY <1>1, TopFacts
  <2>2. MenuOK(session[k], stack[k])
    BY <1>1 DEF ConsoleInv, MenusOK
  <2>3. CASE root = "welcome"
    BY <1>1, <2>1, <2>3 DEF Area
  <2>4. CASE root = "change_password"
    <3>1. Screens["change_password"] = SessionScreens["change_password"]
      BY ScreensLaw, ScreenDomains DEF Within
    <3>2. /\ Shown(k).write = "change_password"
          /\ Shown(k).once = << >> /\ Shown(k).each = << >>
      <4>1. Top(k).screen = "change_password"
        BY <2>1, <2>4 DEF Area
      <4>2. /\ SessionScreens["change_password"].write = "change_password"
            /\ SessionScreens["change_password"].once = << >>
            /\ SessionScreens["change_password"].each = << >>
        BY DEF SessionScreens, Plain
      <4> QED
        BY <2>1, <3>1, <4>1, <4>2
    <3>3. Reads(Shown(k)) = << >>
      BY <3>2 DEF Reads
    <3>4. call = "change_password"
      BY <1>1, <3>2, <3>3
    <3>5. Calls["change_password"] = <<"POST", "/auth/change-password">>
      BY CallsLaw, CallDomains DEF Within, SessionCalls
    <3>6. <<"POST", "/auth/change-password", "any">> \in Routes
      BY DEF Routes, AuthRoutes
    <3> QED
      BY <3>4, <3>5, <3>6 DEF Served, Entitled
  <2>5. CASE root \in RoleNames
    <3>1. session[k].role = root /\ session[k].role = Role[session[k].user]
      BY <1>1, <2>2, <2>5 DEF MenuOK, RoleNames
    <3>2. Reads(Shown(k)) \in Seq(Allowed(root)) /\ Shown(k).write \in Allowed(root) \cup {Null}
      BY <2>1, ReadsLaw DEF Fits
    <3> HIDE DEF root
    <3>3. \A n \in DOMAIN Reads(Shown(k)) : Reads(Shown(k))[n] \in Allowed(root)
      BY <3>2
    <3>4. call \in Allowed(root)
      BY <1>1, <3>2, <3>3
    <3> QED
      BY <2>5, <3>1, <3>4, AllowedIsServed
  <2> QED
    BY <2>1, <2>3, <2>4, <2>5 DEF Roots, RoleNames
<1>2. ConsoleInv => CallsAreServed
  BY <1>1 DEF CallsAreServed
<1> QED
  BY <1>2, ConsoleInvariance, PTL

\* Whatever was added, changed or removed since an admin saw the list: the row that is
\* changed or removed has the skill that stood beside the number.
THEOREM ThePickedIsChanged == Spec => PickedIsChanged
<1> DEFINE Picked == \A row \in assigned \ assigned' :
                       \E i \in Slots : /\ Underway(i, "level") \/ Underway(i, "remove")
                                        /\ requests[i].id = row.id /\ requests[i].seen = row.skill
<1>1. ASSUME ConsoleInv, NEW i \in Slots, WriteSkill(i) PROVE Picked
  <2> DEFINE r == requests[i]
             rows == {row \in assigned : row.id = r.id}
  <2>1. /\ Underway(i, "level") \/ Underway(i, "remove")
        /\ assigned' = (assigned \ rows) \cup
             (IF r.op = "remove" THEN {} ELSE {[row EXCEPT !.level = r.level] : row \in rows})
    BY <1>1 DEF WriteSkill
  <2>2. Seen(r.id, r.seen)
    BY <1>1, <2>1 DEF ConsoleInv, IdsOK, Asked, Underway
  <2>3. ASSUME NEW row \in assigned \ assigned' PROVE r.id = row.id /\ r.seen = row.skill
    <3>1. row \in rows
      BY <2>1, <2>3
    <3> QED
      BY <2>2, <3>1 DEF Seen
  <2> QED
    BY <2>1, <2>3
<1>2. ASSUME ConsoleInv, [Next]_vars PROVE Picked
  <2>1. ASSUME NEW k \in Clients,
               \/ Start(k) \/ EnterLogin(k) \/ Read(k) \/ ReadFails(k) \/ Open(k) \/ Back(k)
               \/ Logout(k) \/ Quit(k) \/ SaveOther(k) \/ SaveFails(k) \/ Hear(k)
        PROVE  assigned' = assigned
    BY <2>1 DEF Start, EnterLogin, Login, Read, ReadFails, Open, Back, Logout, Quit, Leave,
                SaveOther, SaveFails, Hear, accountVars
  <2>2. ASSUME NEW k \in Clients, SaveAccount(k) PROVE assigned' = assigned
    BY <2>2 DEF SaveAccount, ChangePassword, CreateUser, ResetPassword, ReactivateUser,
                DeactivateUser, DeactivateEmployee, AddSkill, UpdateProficiency, RemoveSkill,
                Send
  <2>3. ASSUME NEW i \in Slots, WritePassword(i) \/ InsertUser(i) \/ WriteStatus(i) \/ GiveUp(i)
        PROVE  assigned' = assigned
    BY <2>3 DEF WritePassword, InsertUser, WriteStatus, GiveUp
  <2>4. ASSUME NEW i \in Slots, InsertSkill(i) PROVE assigned \subseteq assigned'
    BY <2>4 DEF InsertSkill
  <2>5. HourPasses \/ UNCHANGED vars => assigned' = assigned
    BY DEF HourPasses, vars, accountVars
  <2>6. CASE assigned \subseteq assigned'
    BY <2>6
  <2>7. CASE \E i \in Slots : WriteSkill(i)
    BY <1>1, <1>2, <2>7
  <2> HIDE DEF Picked
  <2> QED
    BY <1>2, <2>1, <2>2, <2>3, <2>4, <2>5, <2>6, <2>7 DEF Next, Serve
<1>3. ConsoleInv /\ [Next]_vars => [Picked]_vars
  BY <1>2
<1> QED
  BY <1>3, ConsoleInvariance, PTL DEF Spec, PickedIsChanged
=============================================================================
