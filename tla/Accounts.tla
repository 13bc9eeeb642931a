------------------------------- MODULE Accounts -------------------------------
(***************************************************************************)
(* A request on its way: the gateway authenticates and authorizes it by    *)
(* the access token, forwards it, repeats it after a timeout, answers and  *)
(* audits it; the user service carries each attempt out in a transaction   *)
(* of its own on users, groups and projects.                               *)
(*                                                                         *)
(* An attempt has two steps, what the handler reads and decides, and its   *)
(* commit, between which others commit; get_db commits after the answer    *)
(* has been sent (the FastAPI of uv.lock ends a dependency then), so that  *)
(* a caller may have the answer first.  An attempt that the gateway gave   *)
(* up goes on.  Only local accounts; display names and passwords are left  *)
(* out, the read-only endpoints are operators over the tables, and the     *)
(* database does not fail.                                                 *)
(*                                                                         *)
(* Mutated forms, which no specification uses, stand before the            *)
(* definitions they change: RefreshAnyone, NoConflicts, WholeRow,          *)
(* StoreEventIfOk, NonMembersOfAny.                                        *)
(***************************************************************************)
EXTENDS Endpoints, Integers, FiniteSets

CONSTANTS
  Users, Groups, ProjectIds,
  MaxRequests,          \* bound: requests, which are numbered as they are made
  Nobody,               \* no user, group or project
  InitialRole,          \* the accounts at the start: user -> role; other users do not exist
  InitialMembers,       \* <<group, user>>
  InitialProjects,      \* project -> its group
  Asked,                \* bound: the requests that may be made, pairs of a user and one of Asks
  proxy_max_retries,
  SigningIn,            \* bound: the users whose tokens expire and are renewed; others keep theirs
  MaxTimeouts,          \* bound: attempts the gateway gives up
  MaxStops              \* bound: stops of the consumer and restarts of the user service

InitialGroups == {m[1] : m \in InitialMembers}

VARIABLES
  users,    \* user -> [role, active]
  members,  \* set of <<group, user>>
  groups,   \* set of groups
  projects, \* project -> [group, status, version], for those that exist
  token,    \* user -> the role in the access token, or "none"
  req,      \* request -> what it asks, and where it is
  attempt,  \* request -> sequence of its attempts
  listening,\* whether audit_consumer runs
  audit,    \* request -> "none", "published", "stored" or "lost"
  timeouts, stops

tables == <<users, members, groups, projects>>
vars == <<users, members, groups, projects, token, req, attempt, listening, audit, timeouts, stops>>

Requests == 1..MaxRequests

-----------------------------------------------------------------------------
(* What a request may ask. *)

Ask(op, user, role, group, project) ==
  [op |-> op, user |-> user, role |-> role, group |-> group, project |-> project]

Asks ==
  {Ask("create_user", u, role, Nobody, Nobody) : u \in Users, role \in {"analyst", "system_admin"}}
  \cup {Ask(op, u, "project_admin", g, Nobody) :
           u \in Users, g \in Groups, op \in {"create_user", "create_user_and_group"}}
  \cup {Ask("change_role", u, role, Nobody, Nobody) : u \in Users, role \in {"project_admin", "system_admin"}}
  \cup {Ask(op, u, "none", Nobody, Nobody) :
           u \in Users, op \in {"activate", "suspend", "deactivate_user", "reset_password"}}
  \cup {Ask("create_group", Nobody, "none", g, Nobody) : g \in Groups}
  \cup {Ask(op, u, "none", g, Nobody) : u \in Users, g \in Groups, op \in {"add_member", "remove_member"}}
  \cup {Ask("create_project", Nobody, "none", g, Nobody) : g \in Groups}
  \cup {Ask(op, Nobody, "none", Nobody, p) : p \in ProjectIds, op \in {"update_project", "archive_project"}}

UserUpdates == {"change_role", "activate", "suspend"}
UserCreations == {"create_user", "create_user_and_group"}
GroupCreations == {"create_group", "create_user_and_group"}
\* Their handlers load the user, change columns of it and have it flushed.
UserWrites == UserUpdates \cup {"deactivate_user", "reset_password"}

Method(ask) ==
  CASE ask.op \in UserUpdates \cup {"update_project"} -> "PUT"
    [] ask.op \in {"deactivate_user", "remove_member", "archive_project"} -> "DELETE"
    [] OTHER -> "POST"

Path(ask) ==
  CASE ask.op \in UserCreations -> Admin \o <<"users">>
    [] ask.op \in UserUpdates \cup {"deactivate_user"} -> Admin \o <<"users", "id">>
    [] ask.op = "reset_password" -> Admin \o <<"users", "id", "reset-password">>
    [] ask.op = "create_group" -> Admin \o <<"groups">>
    [] ask.op = "add_member" -> Admin \o <<"groups", "id", "members">>
    [] ask.op = "remove_member" -> Admin \o <<"groups", "id", "members", "id">>
    [] ask.op = "create_project" -> Projects
    [] ask.op \in {"update_project", "archive_project"} -> Projects \o <<"id">>

-----------------------------------------------------------------------------
(* State. *)

NoAsk == Ask("none", Nobody, "none", Nobody, Nobody)
NoRequest == [at |-> "idle", by |-> Nobody, role |-> "none", ask |-> NoAsk, answer |-> "none"]
\* What an attempt has read: the caller's groups, the rows it will change.
Sent == [at |-> "sent", groups |-> {}, row |-> Nobody]

\* Rows of the tables; version is what an update of a project changes.
UserRow == [role : Roles, active : BOOLEAN]
MemberRow == Groups \X Users
ProjectRow == [group : Groups, status : {"active", "archived"}, version : {0, 1}]

Ended == {"ok", "refused", "failed", "forbidden"}
Request == [at : {"idle", "forwarded", "answered"}, by : Users \cup {Nobody}, role : Roles \cup {"none"},
            ask : Asks \cup {NoAsk}, answer : Ended \cup {"none", "unavailable"}]
Attempt == [at : Ended \cup {"sent", "checked", "flushed", "dead"}, groups : SUBSET Groups,
            row : UserRow \cup ProjectRow \cup {Nobody}]

ASSUME AccountsAssumption ==
  /\ MaxRequests \in Nat /\ proxy_max_retries \in Nat /\ MaxTimeouts \in Nat /\ MaxStops \in Nat
  /\ Nobody \notin Users \cup Groups \cup ProjectIds
  /\ \E U \in SUBSET Users : InitialRole \in [U -> Roles]
  /\ InitialMembers \subseteq Groups \X DOMAIN InitialRole
  /\ \E P \in SUBSET ProjectIds : InitialProjects \in [P -> InitialGroups]
  /\ Asked \subseteq Users \X Asks /\ SigningIn \subseteq Users

\* Members and projects refer to rows that exist.
TypeOK ==
  /\ \E U \in SUBSET Users : users \in [U -> UserRow]
  /\ groups \subseteq Groups
  /\ members \subseteq MemberRow \cap (groups \X DOMAIN users)
  /\ \E P \in SUBSET ProjectIds : projects \in [P -> ProjectRow]
  /\ \A p \in DOMAIN projects : projects[p].group \in groups
  /\ token \in [Users -> Roles \cup {"none"}]
  /\ req \in [Requests -> Request]
  /\ attempt \in [Requests -> Seq(Attempt)]
  /\ \A r \in Requests : Len(attempt[r]) <= proxy_max_retries + 1
  /\ listening \in BOOLEAN
  /\ audit \in [Requests -> {"none", "published", "stored", "lost"}]
  /\ timeouts \in 0..MaxTimeouts /\ stops \in 0..MaxStops

Init ==
  /\ users = [u \in DOMAIN InitialRole |-> [role |-> InitialRole[u], active |-> TRUE]]
  /\ members = InitialMembers
  /\ groups = InitialGroups
  /\ projects = [p \in DOMAIN InitialProjects |-> [group |-> InitialProjects[p], status |-> "active", version |-> 0]]
  /\ token = [u \in Users |-> IF u \in DOMAIN InitialRole THEN InitialRole[u] ELSE "none"]
  /\ req = [r \in Requests |-> NoRequest]
  /\ attempt = [r \in Requests |-> <<>>]
  /\ listening = TRUE
  /\ audit = [r \in Requests |-> "none"]
  /\ timeouts = 0 /\ stops = 0

GroupsOf(u) == {g \in groups : <<g, u>> \in members}

-----------------------------------------------------------------------------
(* Tokens.  Login and refresh give the role that the table has then. *)

RefreshAnyone(u) ==
  /\ u \in DOMAIN users
  /\ token' = [token EXCEPT ![u] = users[u].role]
  /\ UNCHANGED <<tables, req, attempt, listening, audit, timeouts, stops>>

\* One step here: that the role is read a moment before it is signed is in Sessions.
LoginOrRefresh(u) ==
  /\ u \in DOMAIN users /\ users[u].active
  /\ token' = [token EXCEPT ![u] = users[u].role]
  /\ UNCHANGED <<tables, req, attempt, listening, audit, timeouts, stops>>

TokenExpires(u) ==
  /\ token[u] # "none"
  /\ token' = [token EXCEPT ![u] = "none"]
  /\ UNCHANGED <<tables, req, attempt, listening, audit, timeouts, stops>>

-----------------------------------------------------------------------------
(* The gateway. *)

\* After the answer the event is published; who does not listen then never gets it.
Answered(r, answer) ==
  /\ req' = [req EXCEPT ![r].at = "answered", ![r].answer = answer]
  /\ audit' = [audit EXCEPT ![r] = IF listening THEN "published" ELSE "lost"]

\* Requests are numbered in the order in which they reach the gateway.
IsNext(r) == req[r].at = "idle" /\ \A s \in 1..(r - 1) : req[s].at # "idle"

Submit(r, u, ask) ==
  /\ IsNext(r) /\ token[u] # "none"
  /\ Admits(token[u], Method(ask), Path(ask)) /\ resolve(Path(ask)) = "user-service"
  /\ req' = [req EXCEPT ![r] = [NoRequest EXCEPT !.at = "forwarded", !.by = u,
                                                 !.role = token[u], !.ask = ask]]
  /\ attempt' = [attempt EXCEPT ![r] = <<Sent>>]
  /\ UNCHANGED <<tables, token, listening, audit, timeouts, stops>>

Refuse(r, u, ask) ==
  /\ IsNext(r) /\ token[u] # "none"
  /\ ~Admits(token[u], Method(ask), Path(ask))
  /\ req' = [req EXCEPT ![r] = [NoRequest EXCEPT !.at = "answered", !.by = u, !.role = token[u],
                                                 !.ask = ask, !.answer = "forbidden"]]
  /\ audit' = [audit EXCEPT ![r] = IF listening THEN "published" ELSE "lost"]
  /\ UNCHANGED <<tables, token, attempt, listening, timeouts, stops>>

Reply(r) ==
  /\ req[r].at = "forwarded" /\ Last(attempt[r]).at \in Ended
  /\ Answered(r, Last(attempt[r]).at)
  /\ UNCHANGED <<tables, token, attempt, listening, timeouts, stops>>

Retries(r) == Len(attempt[r]) <= proxy_max_retries

\* No answer in time, or the connection breaks: the attempt itself goes on.
GiveUp(r) ==
  IF Retries(r)
  THEN attempt' = [attempt EXCEPT ![r] = Append(@, Sent)] /\ UNCHANGED <<req, audit>>
  ELSE Answered(r, "unavailable") /\ UNCHANGED attempt

TimesOut(r) ==
  /\ req[r].at = "forwarded" /\ timeouts < MaxTimeouts
  /\ timeouts' = timeouts + 1
  /\ GiveUp(r)
  /\ UNCHANGED <<tables, token, listening, stops>>

\* An error that the proxy does not catch passes the audit middleware too.
Unhandled(r) ==
  /\ req' = [req EXCEPT ![r].at = "answered", ![r].answer = "unavailable"]
  /\ audit' = [audit EXCEPT ![r] = "lost"]
  /\ UNCHANGED attempt

\* The service went down with the attempt: a network error, or a response cut short,
\* which the proxy does not count among them.
ConnectionFails(r) ==
  /\ req[r].at = "forwarded" /\ Last(attempt[r]).at = "dead"
  /\ GiveUp(r) \/ Unhandled(r)
  /\ UNCHANGED <<tables, token, listening, timeouts, stops>>

-----------------------------------------------------------------------------
(* The user service. *)

IsAdmin(role) == role \in {"project_admin", "system_admin"}

\* A caller in no group is not filtered.
Shared(by, u) == GroupsOf(by) \cap GroupsOf(u)
InScope(by, role, u) == role = "system_admin" \/ GroupsOf(by) = {} \/ Shared(by, u) # {}
GroupVisible(by, role, g) == role = "system_admin" \/ GroupsOf(by) = {} \/ g \in GroupsOf(by)

\* Refusals that turn on the caller's role; whether one of them or another comes first
\* does not matter.
RoleSuffices(role, ask) ==
  /\ ask.op = "deactivate_user" => role = "system_admin"
  /\ Under(Path(ask), Admin) => IsAdmin(role)

Escalates(role, ask) ==
  ask.op \in {"create_user", "change_role"} /\ ask.role = "system_admin" /\ role # "system_admin"

\* The query for a group that caller and user share expects at most one.
Ambiguous(by, role, ask) ==
  /\ ask.op \in UserUpdates \cup {"reset_password"} /\ role # "system_admin"
  /\ Cardinality(Shared(by, ask.user)) > 1

InProjectGroup(by, p) == p \in DOMAIN projects /\ projects[p].group \in GroupsOf(by)

\* What the lists show; whoever is in no group is shown nothing.
list_users(by, role) ==
  {v \in DOMAIN users : role = "system_admin" \/ Shared(by, v) # {}}
list_groups(by, role) == IF role = "system_admin" THEN groups ELSE GroupsOf(by)
list_members(g) == {v \in DOMAIN users : <<g, v>> \in members}
NonMembersOfAny(g) == {v \in DOMAIN users : users[v].active /\ GroupsOf(v) = {}}
list_non_members(g) == {v \in DOMAIN users : users[v].active /\ <<g, v>> \notin members}
list_projects(by) == {p \in DOMAIN projects : projects[p].group \in GroupsOf(by)}
\* Stored events name no group, so that a project admin's filter by group finds none.
list_audit_logs(role) == {e \in Requests : audit[e] = "stored" /\ role = "system_admin"}

\* The internal endpoints, which look the role up in the table.
get_user_permissions(u) ==
  [role |-> users[u].role, group_ids |-> GroupsOf(u),
   project_ids |-> {p \in DOMAIN projects : projects[p].group \in GroupsOf(u)}]

internal_check_permission(u, p, action) ==
  /\ u \in DOMAIN users /\ users[u].active
  /\ \/ users[u].role = "system_admin"
     \/ /\ p \in DOMAIN projects /\ <<projects[p].group, u>> \in members
        /\ action = "manage" => IsAdmin(users[u].role)

MayCreateUser(ask) ==
  ask.user \notin DOMAIN users
    /\ (ask.op = "create_user" /\ ask.role = "project_admin" => ask.group \in groups)
MayUpdateUser(by, role, ask) == ask.user \in DOMAIN users /\ InScope(by, role, ask.user)
MayAddMember(by, role, ask) ==
  GroupVisible(by, role, ask.group) /\ <<ask.group, ask.user>> \notin members
MayRemoveMember(by, role, ask) ==
  GroupVisible(by, role, ask.group) /\ <<ask.group, ask.user>> \in members
MayCreateProject(by, ask) == ask.group \in GroupsOf(by)
MayUpdateProject(by, ask) ==
  InProjectGroup(by, ask.project) /\ projects[ask.project].status = "active"

May(by, role, ask) ==
  CASE ask.op \in UserCreations -> MayCreateUser(ask)
    [] ask.op \in UserUpdates \cup {"reset_password"} -> MayUpdateUser(by, role, ask)
    [] ask.op = "deactivate_user" -> ask.user \in DOMAIN users
    [] ask.op = "create_group" -> TRUE
    [] ask.op = "add_member" -> MayAddMember(by, role, ask)
    [] ask.op = "remove_member" -> MayRemoveMember(by, role, ask)
    [] ask.op = "create_project" -> MayCreateProject(by, ask)
    [] ask.op = "update_project" -> MayUpdateProject(by, ask)
    [] ask.op = "archive_project" -> InProjectGroup(by, ask.project)

RowOf(ask) ==
  IF ask.user \in DOMAIN users THEN users[ask.user]
  ELSE IF ask.project \in DOMAIN projects THEN projects[ask.project]
  ELSE Nobody

\* The handler reads the tables and decides.
Check(r, k) ==
  LET q == req[r] IN
  /\ k \in DOMAIN attempt[r] /\ attempt[r][k].at = "sent"
  /\ attempt' = [attempt EXCEPT ![r][k] =
       IF ~RoleSuffices(q.role, q.ask) \/ Escalates(q.role, q.ask) THEN [@ EXCEPT !.at = "forbidden"]
       ELSE IF ~May(q.by, q.role, q.ask) THEN [@ EXCEPT !.at = "refused"]
       ELSE IF Ambiguous(q.by, q.role, q.ask) THEN [@ EXCEPT !.at = "failed"]
       ELSE [@ EXCEPT !.at = "checked", !.groups = GroupsOf(q.by), !.row = RowOf(q.ask)]]
  /\ UNCHANGED <<tables, token, req, listening, audit, timeouts, stops>>

NoConflicts(ask) == FALSE
\* Keys and references hold at the commit, whatever the handler read.
Conflicts(ask) ==
  CASE ask.op = "create_user" -> ask.user \in DOMAIN users
    [] ask.op = "create_user_and_group" -> ask.user \in DOMAIN users \/ ask.group \in groups
    [] ask.op = "create_group" -> ask.group \in groups
    [] ask.op = "add_member" -> \/ <<ask.group, ask.user>> \in members
                                \/ ask.group \notin groups \/ ask.user \notin DOMAIN users
    [] OTHER -> FALSE

\* A table with one more row.
Inserted(table, key, row) ==
  [k \in DOMAIN table \cup {key} |-> IF k = key THEN row ELSE table[k]]

Newcomer(q, seen) ==
  IF q.ask.role = "project_admin" THEN {<<q.ask.group, q.ask.user>>}
  ELSE IF q.role = "project_admin" THEN seen \X {q.ask.user} ELSE {}

WholeRow(now, read, wanted) == wanted
\* An update writes only the columns in which the row it wants differs from the row it
\* read; the others stay as they are then.
Updated(now, read, wanted) ==
  [c \in DOMAIN now |-> IF wanted[c] = read[c] THEN now[c] ELSE wanted[c]]

CreateUser(q, seen) ==
  /\ q.ask.op \in UserCreations
  /\ users' = Inserted(users, q.ask.user, [role |-> q.ask.role, active |-> TRUE])
  /\ members' = members \cup Newcomer(q, seen.groups)
  /\ groups' = groups \cup IF q.ask.op = "create_user_and_group" THEN {q.ask.group} ELSE {}
  /\ UNCHANGED projects

UpdateUser(q, seen) ==
  LET wanted == IF q.ask.op = "change_role" THEN [seen.row EXCEPT !.role = q.ask.role]
                ELSE [seen.row EXCEPT !.active = (q.ask.op = "activate")]
  IN
  /\ q.ask.op \in UserUpdates
  /\ users' = [users EXCEPT ![q.ask.user] = Updated(@, seen.row, wanted)]
  /\ UNCHANGED <<members, groups, projects>>

DeactivateUser(q, seen) ==
  /\ q.ask.op = "deactivate_user"
  /\ users' = [users EXCEPT ![q.ask.user] = Updated(@, seen.row, [seen.row EXCEPT !.active = FALSE])]
  /\ UNCHANGED <<members, groups, projects>>

\* The new password, which is left out, and the demand to change it.
ResetPassword(q) == q.ask.op = "reset_password" /\ UNCHANGED tables

CreateGroup(q) ==
  /\ q.ask.op = "create_group"
  /\ groups' = groups \cup {q.ask.group}
  /\ UNCHANGED <<users, members, projects>>

AddMember(q) ==
  /\ q.ask.op = "add_member"
  /\ members' = members \cup {<<q.ask.group, q.ask.user>>}
  /\ UNCHANGED <<users, groups, projects>>

RemoveMember(q) ==
  /\ q.ask.op = "remove_member"
  /\ members' = members \ {<<q.ask.group, q.ask.user>>}
  /\ UNCHANGED <<users, groups, projects>>

\* The id is new; which one does not matter.  Bound: as long as there are ids.
CreateProject(q) ==
  LET p == CHOOSE p \in ProjectIds : p \notin DOMAIN projects IN
  /\ q.ask.op = "create_project" /\ ~(ProjectIds \subseteq DOMAIN projects)
  /\ projects' = Inserted(projects, p, [group |-> q.ask.group, status |-> "active", version |-> 0])
  /\ UNCHANGED <<users, members, groups>>

UpdateProject(q, seen) ==
  LET wanted == [seen.row EXCEPT !.version = 1 - @] IN
  /\ q.ask.op = "update_project"
  /\ projects' = [projects EXCEPT ![q.ask.project] = Updated(@, seen.row, wanted)]
  /\ UNCHANGED <<users, members, groups>>

ArchiveProject(q, seen) ==
  LET wanted == [seen.row EXCEPT !.status = "archived"] IN
  /\ q.ask.op = "archive_project"
  /\ projects' = [projects EXCEPT ![q.ask.project] = Updated(@, seen.row, wanted)]
  /\ UNCHANGED <<users, members, groups>>

Written(q, seen) ==
  \/ CreateUser(q, seen) \/ UpdateUser(q, seen) \/ DeactivateUser(q, seen)
  \/ ResetPassword(q) \/ CreateGroup(q) \/ AddMember(q) \/ RemoveMember(q)
  \/ CreateProject(q) \/ UpdateProject(q, seen) \/ ArchiveProject(q, seen)

\* What an attempt has written and not committed is locked: the key that it inserts, or
\* the row that it updates or deletes.  (One that finds nothing to change is taken to
\* lock the row too.)
SameKey(ask, other) ==
  \/ ask.op \in UserCreations /\ other.op \in UserCreations /\ ask.user = other.user
  \/ ask.op \in GroupCreations /\ other.op \in GroupCreations /\ ask.group = other.group

SameRow(ask, other) ==
  \/ ask.op \in UserWrites /\ other.op \in UserWrites /\ ask.user = other.user
  \/ /\ ask.op \in {"add_member", "remove_member"} /\ other.op \in {"add_member", "remove_member"}
     /\ ask.group = other.group /\ ask.user = other.user
  \/ /\ ask.op \in {"update_project", "archive_project"}
     /\ other.op \in {"update_project", "archive_project"}
     /\ ask.project = other.project

Locks(ask, other) == SameKey(ask, other) \/ SameRow(ask, other)

Unlocked(r, k) ==
  \A s \in Requests : \A j \in DOMAIN attempt[s] :
    <<s, j>> # <<r, k>> /\ attempt[s][j].at = "flushed" => ~Locks(req[s].ask, req[r].ask)

\* The handler has flushed and answers; its transaction is still open.
ReplyBeforeCommit(r) ==
  LET k == Len(attempt[r]) IN
  /\ req[r].at = "forwarded" /\ attempt[r][k].at = "checked"
  /\ Unlocked(r, k) /\ ~Conflicts(req[r].ask)
  /\ Answered(r, "ok")
  /\ attempt' = [attempt EXCEPT ![r][k].at = "flushed"]
  /\ UNCHANGED <<tables, token, listening, timeouts, stops>>

Commit(r, k) ==
  LET q == req[r]
      seen == attempt[r][k]
  IN
  /\ k \in DOMAIN attempt[r]
  /\ seen.at = "flushed" \/ (seen.at = "checked" /\ Unlocked(r, k))
  /\ IF seen.at = "checked" /\ Conflicts(q.ask)
     THEN attempt' = [attempt EXCEPT ![r][k] = [Sent EXCEPT !.at = "failed"]] /\ UNCHANGED tables
     ELSE /\ attempt' = [attempt EXCEPT ![r][k] = [Sent EXCEPT !.at = "ok"]]
          /\ Written(q, seen)
  /\ UNCHANGED <<token, req, listening, audit, timeouts, stops>>

\* Transactions roll back.
UserServiceRestarts ==
  /\ stops < MaxStops /\ stops' = stops + 1
  /\ attempt' = [r \in Requests |-> [k \in DOMAIN attempt[r] |->
                   IF attempt[r][k].at \in {"sent", "checked", "flushed"} THEN [Sent EXCEPT !.at = "dead"]
                   ELSE attempt[r][k]]]
  /\ listening' = TRUE
  /\ audit' = [r \in Requests |-> IF audit[r] = "published" THEN "lost" ELSE audit[r]]
  /\ UNCHANGED <<tables, token, req, timeouts>>

-----------------------------------------------------------------------------
(* audit_consumer. *)

StoreEventIfOk(r) ==
  /\ listening /\ audit[r] = "published" /\ req[r].answer = "ok"
  /\ audit' = [audit EXCEPT ![r] = "stored"]
  /\ UNCHANGED <<tables, token, req, attempt, listening, timeouts, stops>>

StoreEvent(r) ==
  /\ listening /\ audit[r] = "published"
  /\ audit' = [audit EXCEPT ![r] = "stored"]
  /\ UNCHANGED <<tables, token, req, attempt, listening, timeouts, stops>>

\* A failed connection to Redis ends the task, and nothing starts it again.
ConsumerDies ==
  /\ listening /\ stops < MaxStops /\ stops' = stops + 1
  /\ listening' = FALSE
  /\ audit' = [r \in Requests |-> IF audit[r] = "published" THEN "lost" ELSE audit[r]]
  /\ UNCHANGED <<tables, token, req, attempt, timeouts>>

-----------------------------------------------------------------------------

Serve(r) ==
  Reply(r) \/ ReplyBeforeCommit(r) \/ ConnectionFails(r)
  \/ \E k \in DOMAIN attempt[r] : Check(r, k) \/ Commit(r, k)

Next ==
  \/ \E u \in SigningIn : LoginOrRefresh(u) \/ TokenExpires(u)
  \/ \E r \in Requests, a \in Asked : Submit(r, a[1], a[2]) \/ Refuse(r, a[1], a[2])
  \/ \E r \in Requests : Serve(r) \/ TimesOut(r) \/ StoreEvent(r)
  \/ UserServiceRestarts \/ ConsumerDies

Spec == Init /\ [][Next]_vars

\* The service answers what it has taken on and handles the events it receives; access
\* tokens expire.  Nobody has to sign in, and timeouts and stops need not happen.
FairSpec ==
  /\ Spec
  /\ \A r \in Requests : WF_vars(Serve(r)) /\ WF_vars(StoreEvent(r))
  /\ \A u \in SigningIn : WF_vars(TokenExpires(u))

-----------------------------------------------------------------------------
(* Properties. *)

\* A role check of the user service never refuses what the gateway let through, but for
\* the grant of a higher role: the two layers, written apart, agree on every endpoint.
AdmittedRoleSuffices ==
  \A r \in Requests : \A k \in DOMAIN attempt[r] :
    attempt[r][k].at = "forbidden" => Escalates(req[r].role, req[r].ask)

\* However often the gateway repeats the creation of a user or a group, and whoever else
\* asks for the same name, one attempt succeeds.  (A project is created again by each.)
CreatedOnce ==
  \A r \in Requests, s \in Requests : \A k \in DOMAIN attempt[r], j \in DOMAIN attempt[s] :
    attempt[r][k].at = "ok" /\ attempt[s][j].at = "ok" /\ SameKey(req[r].ask, req[s].ask)
      => <<r, k>> = <<s, j>>

\* The endpoints, each with its own query, agree on who may see and change what: a caller
\* is listed only users and groups that the caller may change; a group's members and
\* non-members are apart and hold every active user; the projects listed to a user
\* without the highest role are those that the internal endpoints grant.
ListsAgree ==
  \A u \in DOMAIN users : LET role == users[u].role IN
    /\ \A v \in list_users(u, role) : InScope(u, role, v)
    /\ \A g \in list_groups(u, role) :
         /\ GroupVisible(u, role, g)
         /\ list_members(g) \cap list_non_members(g) = {}
         /\ \A v \in DOMAIN users : users[v].active => v \in list_members(g) \cup list_non_members(g)
         /\ role = "project_admin" => list_members(g) \subseteq list_users(u, role)
    /\ list_projects(u) = get_user_permissions(u).project_ids
    /\ users[u].active /\ role # "system_admin" =>
         \A p \in ProjectIds : /\ p \in list_projects(u) <=> InProjectGroup(u, p)
                              /\ p \in list_projects(u) <=> internal_check_permission(u, p, "view")

\* An update that read its row earlier undoes no other's change: a project stays archived,
\* and a deactivated user is activated only by a request to do so.
NoLostUpdates ==
  [][/\ \A p \in DOMAIN projects : projects[p].status = "archived" => projects'[p].status = "archived"
     /\ \A u \in DOMAIN users : ~users[u].active /\ users'[u].active =>
          \E r \in Requests : /\ req[r].ask.op = "activate" /\ req[r].ask.user = u
                              /\ attempt'[r] # attempt[r]]_vars

\* The role in the tokens catches up with the table: in the end every access token is that
\* of an active user and carries the user's role.
TokensCatchUp ==
  \A u \in SigningIn :
    <>[](token[u] # "none" => u \in DOMAIN users /\ users[u].active /\ token[u] = users[u].role)

\* In the end every request that was made is answered, and its event is in the trail
\* unless the consumer or the service stopped.
RequestsAreAudited ==
  <>[](\A r \in Requests : req[r].at # "idle" =>
         req[r].at = "answered" /\ (r \in list_audit_logs("system_admin") \/ (audit[r] = "lost" /\ stops > 0)))

=============================================================================
