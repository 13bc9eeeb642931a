---------------------------- MODULE AccountsProofs ----------------------------
(***************************************************************************)
(* Proofs about Accounts, for any users, groups, projects, requests and    *)
(* repetitions, and any stops of the service: the gateway's access rules   *)
(* agree with the handlers', lists agree with checks, a creation succeeds  *)
(* once, no update undoes another, and no event is lost unless something   *)
(* stopped.                                                                *)
(***************************************************************************)
EXTENDS Accounts, SequenceTheorems, TLAPS

-----------------------------------------------------------------------------
(* Access: what the gateway lets through, for any path. *)

\* The segments of the paths, which ids stand for too.
Segments == {"api", "admin", "auth", "projects", "health", "audit-logs", "users", "groups", "members",
             "id", "reset-password"}

Operations ==
  UserCreations \cup UserWrites \cup {"create_group", "add_member", "remove_member", "create_project",
                                      "update_project", "archive_project"}

\* One sequence begins with another when it has its elements.
LEMMA PrefixSegments ==
  ASSUME NEW s \in Seq(Segments), NEW path \in Seq(Segments)
  PROVE  IsPrefix(s, path) <=> Len(s) <= Len(path) /\ \A i \in 1..Len(s) : s[i] = path[i]
<1>1. Len(s) \in Nat /\ Len(path) \in Nat
  OBVIOUS
<1>2. SubSeq(s, 1, Len(s)) = s
  BY SubSeqFull
<1>3. ASSUME Len(s) <= Len(path)
      PROVE  /\ SubSeq(path, 1, Len(s)) \in Seq(Segments) /\ Len(SubSeq(path, 1, Len(s))) = Len(s)
             /\ \A i \in 1..Len(s) : SubSeq(path, 1, Len(s))[i] = path[i]
  <2>1. \A i \in 1..Len(s) : path[i] \in Segments
    BY <1>1, <1>3, ElementOfSeq
  <2>. QED
    BY <1>1, <2>1, SubSeqProperties
<1>4. ASSUME Len(s) <= Len(path), \A i \in 1..Len(s) : s[i] = path[i]
      PROVE  s = SubSeq(path, 1, Len(s))
  BY <1>3, <1>4, SeqEqual
<1>. QED
  BY <1>2, <1>3, <1>4 DEF IsPrefix

\* Short tuples are sequences.
LEMMA ShortSequences ==
  ASSUME NEW S, NEW a \in S, NEW b \in S, NEW c \in S, NEW d \in S
  PROVE  {<<a>>, <<a, b>>, <<a, b, c>>, <<a, b, c, d>>} \subseteq Seq(S)
OBVIOUS

\* The prefixes that the gateway looks for.
LEMMA PathPrefixes ==
  /\ Admin \in Seq(Segments) /\ Len(Admin) = 2 /\ Admin[1] = "api" /\ Admin[2] = "admin"
  /\ Projects \in Seq(Segments)
<1>1. \A a \in Segments, b \in Segments : <<a, b>> \in Seq(Segments)
  BY ShortSequences
<1>. QED
  BY <1>1 DEF Admin, Projects, Segments

\* Where a path with one of them goes.
LEMMA PathsUnder ==
  ASSUME NEW path \in Seq(Segments)
  PROVE  /\ Under(path, Admin) <=> Len(path) >= 2 /\ path[1] = "api" /\ path[2] = "admin"
         /\ Under(path, <<"api", "auth">>) => path[2] = "auth"
         /\ Under(path, Admin \o <<"audit-logs">>) => path[3] = "audit-logs"
<1>1. Under(path, Admin) <=> Len(path) >= 2 /\ path[1] = "api" /\ path[2] = "admin"
  <2>1. IsPrefix(Admin, path) <=> Len(Admin) <= Len(path) /\ \A i \in 1..Len(Admin) : Admin[i] = path[i]
    BY PathPrefixes, PrefixSegments
  <2>. QED
    BY <2>1, PathPrefixes DEF Under
<1>2. <<"api", "auth">> \in Seq(Segments)
  BY ShortSequences DEF Segments
<1>3. Len(<<"api", "auth">>) = 2 /\ <<"api", "auth">>[2] = "auth"
  OBVIOUS
<1>4. <<"audit-logs">> \in Seq(Segments)
  BY ShortSequences DEF Segments
<1>5. Admin \o <<"audit-logs">> \in Seq(Segments)
  BY <1>4, PathPrefixes, ConcatProperties
<1>6. Len(Admin \o <<"audit-logs">>) = 3 /\ (Admin \o <<"audit-logs">>)[3] = "audit-logs"
  BY DEF Admin
<1>7. Under(path, <<"api", "auth">>) => path[2] = "auth"
  <2>. DEFINE auth == <<"api", "auth">>
  <2>1. auth \in Seq(Segments) /\ Len(auth) = 2 /\ auth[2] = "auth"
    BY <1>2, <1>3
  <2>. HIDE DEF auth
  <2>2. IsPrefix(auth, path) <=> Len(auth) <= Len(path) /\ \A i \in 1..Len(auth) : auth[i] = path[i]
    BY <2>1, PrefixSegments
  <2>. QED
    BY <2>1, <2>2 DEF Under, auth
<1>8. Under(path, Admin \o <<"audit-logs">>) => path[3] = "audit-logs"
  <2>. DEFINE logs == Admin \o <<"audit-logs">>
  <2>1. logs \in Seq(Segments) /\ Len(logs) = 3 /\ logs[3] = "audit-logs"
    BY <1>5, <1>6
  <2>. HIDE DEF logs
  <2>2. IsPrefix(logs, path) <=> Len(logs) <= Len(path) /\ \A i \in 1..Len(logs) : logs[i] = path[i]
    BY <2>1, PrefixSegments
  <2>. QED
    BY <2>1, <2>2 DEF Under, logs
<1>. QED
  BY <1>1, <1>7, <1>8

\* What the gateway requires of a path under /api/admin.
LEMMA AdminRules ==
  ASSUME NEW role \in Roles, NEW method, NEW path \in Seq(Segments), Under(path, Admin),
         Admits(role, method, path)
  PROVE  IsAdmin(role)
<1>1. Len(path) >= 2 /\ path[2] = "admin"
  BY PathsUnder
<1>2. ~Under(path, <<"api", "auth">>)
  BY <1>1, PathsUnder
<1>3. path # <<"health">>
  BY <1>1
<1>4. get_required_operation(method, path) = AdminOperation(method, path)
  BY <1>2, <1>3 DEF get_required_operation
<1>5. AdminOperation(method, path) \in {"view_all_audit", "cross_group_auth", "manage_members",
        "create_group", "manage_group", "deactivate_user", "manage_users"}
  BY DEF AdminOperation, GroupOperation, UserOperation
<1>. DEFINE effective == IF Under(path, Admin \o <<"audit-logs">>) /\ role # "system_admin"
                         THEN "view_group_audit" ELSE AdminOperation(method, path)
<1>6. check_permission(role, effective)
  BY <1>4, <1>5 DEF Admits
<1>7. effective \notin ResearcherOps
  BY <1>5 DEF ResearcherOps, AnalystOps
<1>. HIDE DEF effective
<1>. QED
  BY <1>6, <1>7 DEF check_permission, PERMISSION_MATRIX, Roles, IsAdmin, ResearcherOps

\* What is asked of each operation.
LEMMA AskFields ==
  ASSUME NEW ask \in Asks
  PROVE  /\ ask.op \in Operations
         /\ ask.op \in UserCreations \cup UserWrites \cup {"add_member", "remove_member"} => ask.user \in Users
         /\ ask.op \in UserCreations \cup {"change_role"} => ask.role \in Roles
         /\ ask.op \in GroupCreations \cup {"add_member", "remove_member", "create_project"} =>
              ask.group \in Groups
         /\ ask.op = "create_user" /\ ask.role = "project_admin" => ask.group \in Groups
         /\ ask.op \in {"update_project", "archive_project"} => ask.project \in ProjectIds /\ ask.user = Nobody
<1>. USE DEF Ask, Operations, UserCreations, UserWrites, UserUpdates, GroupCreations, Roles
<1>1. CASE ask \in {Ask("create_user", u, role, Nobody, Nobody) :
                      u \in Users, role \in {"analyst", "system_admin"}}
  BY <1>1
<1>2. CASE ask \in {Ask(op, u, "project_admin", g, Nobody) :
                      u \in Users, g \in Groups, op \in {"create_user", "create_user_and_group"}}
  BY <1>2
<1>3. CASE ask \in {Ask("change_role", u, role, Nobody, Nobody) :
                      u \in Users, role \in {"project_admin", "system_admin"}}
  BY <1>3
<1>4. CASE ask \in {Ask(op, u, "none", Nobody, Nobody) :
                      u \in Users, op \in {"activate", "suspend", "deactivate_user", "reset_password"}}
  BY <1>4
<1>5. CASE ask \in {Ask("create_group", Nobody, "none", g, Nobody) : g \in Groups}
  BY <1>5
<1>6. CASE ask \in {Ask(op, u, "none", g, Nobody) :
                      u \in Users, g \in Groups, op \in {"add_member", "remove_member"}}
  BY <1>6
<1>7. CASE ask \in {Ask("create_project", Nobody, "none", g, Nobody) : g \in Groups}
  BY <1>7
<1>8. CASE ask \in {Ask(op, Nobody, "none", Nobody, p) :
                      p \in ProjectIds, op \in {"update_project", "archive_project"}}
  BY <1>8
<1>. QED
  BY <1>1, <1>2, <1>3, <1>4, <1>5, <1>6, <1>7, <1>8 DEF Asks

\* Deactivating a user is for system administrators.
LEMMA DeactivationRule ==
  ASSUME NEW role \in Roles, Admits(role, "DELETE", Admin \o <<"users", "id">>)
  PROVE  role = "system_admin"
<1>. DEFINE path == Admin \o <<"users", "id">>
<1>1. path \in Seq(Segments)
  BY PathPrefixes, ShortSequences, ConcatProperties DEF Segments
<1>2. /\ Len(path) = 4 /\ path[1] = "api" /\ path[2] = "admin" /\ path[3] = "users" /\ path[4] = "id"
      /\ DOMAIN path = 1..4
  BY DEF Admin
<1>. HIDE DEF path
<1>3. Under(path, Admin) /\ ~Under(path, <<"api", "auth">>) /\ ~Under(path, Admin \o <<"audit-logs">>)
  BY <1>1, <1>2, PathsUnder
<1>4. Has(path, "users") /\ ~Has(path, "groups")
  BY <1>2 DEF Has, ToSet
<1>5. AdminOperation("DELETE", path) = "deactivate_user"
  BY <1>3, <1>4 DEF AdminOperation, UserOperation
<1>6. get_required_operation("DELETE", path) = "deactivate_user"
  BY <1>2, <1>3, <1>5 DEF get_required_operation
<1>7. check_permission(role, "deactivate_user")
  BY <1>3, <1>6 DEF Admits, path
<1>8. "deactivate_user" \notin ProjectAdminOps
  BY DEF ProjectAdminOps, ResearcherOps, AnalystOps
<1>. QED
  BY <1>7, <1>8 DEF check_permission, PERMISSION_MATRIX, Roles, ProjectAdminOps, ResearcherOps

\* What the gateway lets through, no role check of the user service refuses.
LEMMA AdmissionSuffices ==
  ASSUME NEW role \in Roles, NEW ask \in Asks, Admits(role, Method(ask), Path(ask))
  PROVE  RoleSuffices(role, ask)
<1>1. ask.op = "deactivate_user" => role = "system_admin"
  BY DeactivationRule DEF Method, Path, UserUpdates, UserCreations
<1>2. ASSUME Under(Path(ask), Admin) PROVE IsAdmin(role)
  <2>1. Path(ask) \in Seq(Segments)
    <3>1. \A t \in Seq(Segments) : Admin \o t \in Seq(Segments) /\ Projects \o t \in Seq(Segments)
      BY PathPrefixes, ConcatProperties
    <3>2. {<<"users">>, <<"groups">>, <<"id">>, <<"users", "id">>} \subseteq Seq(Segments)
      BY ShortSequences DEF Segments
    <3>3. {<<"users", "id", "reset-password">>, <<"groups", "id", "members">>} \subseteq Seq(Segments)
      BY ShortSequences DEF Segments
    <3>4. <<"groups", "id", "members", "id">> \in Seq(Segments)
      BY ShortSequences DEF Segments
    <3>5. ask.op \in Operations
      BY AskFields
    <3>6. CASE ask.op \in {"create_project", "update_project", "archive_project"}
      BY <3>1, <3>2, <3>6, PathPrefixes DEF Path, UserUpdates, UserCreations
    <3>7. CASE ask.op \notin {"create_project", "update_project", "archive_project"}
      <4>1. \E t \in Seq(Segments) : Path(ask) = Admin \o t
        BY <3>2, <3>3, <3>4, <3>5, <3>7 DEF Path, Operations, UserWrites, UserUpdates, UserCreations
      <4>. QED
        BY <3>1, <4>1
    <3>. QED
      BY <3>6, <3>7
  <2>. QED
    BY <1>2, <2>1, AdminRules
<1>. QED
  BY <1>1, <1>2 DEF RoleSuffices
-----------------------------------------------------------------------------
(* The inductive invariant.                                                *)
(*                                                                         *)
(* A handler decides on what it read, and its transaction ends later.      *)
(* What it relies on still holds then because users, groups and projects   *)
(* are never deleted; what it has flushed still conflicts with nothing     *)
(* because whoever would write the same key or row waits for it.           *)

RequestOK(r) ==
  /\ req[r].at = "idle" => attempt[r] = <<>>
  /\ req[r].at = "forwarded" => attempt[r] # <<>>
  /\ attempt[r] # <<>> => /\ req[r].by \in Users /\ req[r].role \in Roles /\ req[r].ask \in Asks
                          /\ RoleSuffices(req[r].role, req[r].ask)

\* What a handler that has decided relies on.
Ready(ask, seen) ==
  /\ seen.groups \subseteq groups
  /\ ask.op \in UserUpdates \cup {"deactivate_user"} =>
       ask.user \in DOMAIN users /\ seen.row \in UserRow
  /\ ask.op \in {"update_project", "archive_project"} =>
       ask.project \in DOMAIN projects /\ seen.row \in ProjectRow
  /\ ask.op = "create_project" => ask.group \in groups
  /\ ask.op = "create_user" /\ ask.role = "project_admin" => ask.group \in groups

\* What a successful attempt has created.
Created(ask) ==
  /\ ask.op \in UserCreations => ask.user \in DOMAIN users
  /\ ask.op \in GroupCreations => ask.group \in groups

AttemptOK(r, k) ==
  /\ attempt[r][k].at = "forbidden" => Escalates(req[r].role, req[r].ask)
  /\ attempt[r][k].at \in {"checked", "flushed"} => Ready(req[r].ask, attempt[r][k])
  /\ attempt[r][k].at = "flushed" => ~Conflicts(req[r].ask)
  /\ attempt[r][k].at = "ok" => Created(req[r].ask)

LocksHeld ==
  \A r \in Requests, s \in Requests : \A k \in DOMAIN attempt[r], j \in DOMAIN attempt[s] :
    attempt[r][k].at = "flushed" /\ attempt[s][j].at = "flushed" /\ Locks(req[r].ask, req[s].ask)
      => <<r, k>> = <<s, j>>

IInv ==
  /\ TypeOK
  /\ \A r \in Requests : RequestOK(r) /\ \A k \in DOMAIN attempt[r] : AttemptOK(r, k)
  /\ LocksHeld
  /\ CreatedOnce

-----------------------------------------------------------------------------
(* Types. *)

TablesTyped ==
  /\ \E U \in SUBSET Users : users \in [U -> UserRow]
  /\ groups \subseteq Groups
  /\ members \subseteq MemberRow \cap (groups \X DOMAIN users)
  /\ \E P \in SUBSET ProjectIds : projects \in [P -> ProjectRow]
  /\ \A p \in DOMAIN projects : projects[p].group \in groups

AttemptsTyped ==
  /\ attempt \in [Requests -> Seq(Attempt)]
  /\ \A r \in Requests : Len(attempt[r]) <= proxy_max_retries + 1

TrafficTyped ==
  /\ token \in [Users -> Roles \cup {"none"}]
  /\ req \in [Requests -> Request]
  /\ listening \in BOOLEAN
  /\ audit \in [Requests -> {"none", "published", "stored", "lost"}]
  /\ timeouts \in 0..MaxTimeouts /\ stops \in 0..MaxStops

\* The types, in three parts.
LEMMA TypeParts == TypeOK <=> TablesTyped /\ AttemptsTyped /\ TrafficTyped
BY DEF TypeOK, TablesTyped, AttemptsTyped, TrafficTyped

\* The same of the next state.
LEMMA TypePartsNext == TypeOK' <=> TablesTyped' /\ AttemptsTyped' /\ TrafficTyped'
BY TypeParts, PTL

\* An attempt that begins, and one that moves on.
LEMMA AttemptRecords ==
  /\ Sent \in Attempt /\ Sent.at = "sent"
  /\ \A at \in Ended \cup {"sent", "checked", "flushed", "dead"} :
       [Sent EXCEPT !.at = at] \in Attempt /\ [Sent EXCEPT !.at = at].at = at
  /\ \A a \in Attempt, at \in Ended \cup {"sent", "checked", "flushed", "dead"} :
       /\ [a EXCEPT !.at = at] \in Attempt /\ [a EXCEPT !.at = at].at = at
       /\ [a EXCEPT !.at = at].groups = a.groups /\ [a EXCEPT !.at = at].row = a.row
  /\ \A a \in Attempt, G \in SUBSET Groups, row \in UserRow \cup ProjectRow \cup {Nobody} :
       LET b == [a EXCEPT !.at = "checked", !.groups = G, !.row = row] IN
       b \in Attempt /\ b.at = "checked" /\ b.groups = G /\ b.row = row
BY DEF Sent, Attempt, Ended

\* A request that is answered keeps who asked for what.
LEMMA AnsweredRequest ==
  ASSUME NEW q \in Request, NEW answer \in Ended \cup {"unavailable"}
  PROVE  LET p == [q EXCEPT !.at = "answered", !.answer = answer] IN
         /\ p \in Request /\ p.at = "answered" /\ p.answer = answer
         /\ p.by = q.by /\ p.role = q.role /\ p.ask = q.ask
BY DEF Request

\* One attempt changes.
LEMMA AttemptChanges ==
  ASSUME AttemptsTyped, NEW r \in Requests, NEW k \in DOMAIN attempt[r], NEW a \in Attempt,
         attempt' = [attempt EXCEPT ![r][k] = a]
  PROVE  /\ AttemptsTyped'
         /\ \A s \in Requests : DOMAIN attempt'[s] = DOMAIN attempt[s] /\ Len(attempt'[s]) = Len(attempt[s])
         /\ \A s \in Requests : attempt'[s] = <<>> <=> attempt[s] = <<>>
         /\ \A s \in Requests : \A j \in DOMAIN attempt[s] :
              attempt'[s][j] = IF s = r /\ j = k THEN a ELSE attempt[s][j]
<1>1. attempt[r] \in Seq(Attempt) /\ k \in 1..Len(attempt[r])
  BY LenProperties DEF AttemptsTyped
<1>. DEFINE new == [attempt[r] EXCEPT ![k] = a]
<1>2. /\ new \in Seq(Attempt) /\ Len(new) = Len(attempt[r])
      /\ \A j \in 1..Len(attempt[r]) : new[j] = IF j = k THEN a ELSE attempt[r][j]
  BY <1>1, ExceptSeq
<1>3. \A s \in Requests : attempt'[s] = IF s = r THEN new ELSE attempt[s]
  BY DEF AttemptsTyped
<1>. HIDE DEF new
<1>4. attempt' \in [Requests -> Seq(Attempt)]
  <2>1. attempt' = [s \in Requests |-> attempt'[s]]
    BY DEF AttemptsTyped
  <2>. QED
    BY <1>2, <1>3, <2>1 DEF AttemptsTyped
<1>5. \A s \in Requests : Len(attempt'[s]) = Len(attempt[s])
  BY <1>2, <1>3
<1>6. \A s \in Requests : attempt[s] \in Seq(Attempt) /\ attempt'[s] \in Seq(Attempt)
  BY <1>4 DEF AttemptsTyped
<1>7. \A s \in Requests : DOMAIN attempt'[s] = DOMAIN attempt[s]
  BY <1>5, <1>6, LenProperties
<1>8. \A s \in Requests : attempt'[s] = <<>> <=> attempt[s] = <<>>
  BY <1>5, <1>6, EmptySeq
<1>9. \A s \in Requests : \A j \in DOMAIN attempt[s] :
        attempt'[s][j] = IF s = r /\ j = k THEN a ELSE attempt[s][j]
  BY <1>1, <1>2, <1>3, LenProperties
<1>. QED
  BY <1>4, <1>5, <1>7, <1>8, <1>9 DEF AttemptsTyped

\* One attempt more.
LEMMA AttemptBegins ==
  ASSUME AttemptsTyped, NEW r \in Requests, Len(attempt[r]) <= proxy_max_retries,
         attempt' = [attempt EXCEPT ![r] = Append(@, Sent)]
  PROVE  /\ AttemptsTyped'
         /\ attempt'[r] # <<>>
         /\ \A s \in Requests : s # r => attempt'[s] = attempt[s]
         /\ \A s \in Requests : \A j \in DOMAIN attempt'[s] :
              attempt'[s][j] = Sent \/ (j \in DOMAIN attempt[s] /\ attempt'[s][j] = attempt[s][j])
<1>1. attempt[r] \in Seq(Attempt) /\ Sent \in Attempt
  BY AttemptRecords DEF AttemptsTyped
<1>. DEFINE new == Append(attempt[r], Sent)
<1>2. /\ new \in Seq(Attempt) /\ new # <<>> /\ Len(new) = Len(attempt[r]) + 1
      /\ \A j \in 1..Len(attempt[r]) : new[j] = attempt[r][j]
      /\ new[Len(attempt[r]) + 1] = Sent
  BY <1>1, AppendProperties
<1>3. \A s \in Requests : attempt'[s] = IF s = r THEN new ELSE attempt[s]
  BY DEF AttemptsTyped
<1>. HIDE DEF new
<1>4. attempt' \in [Requests -> Seq(Attempt)]
  <2>1. attempt' = [s \in Requests |-> attempt'[s]]
    BY DEF AttemptsTyped
  <2>. QED
    BY <1>2, <1>3, <2>1 DEF AttemptsTyped
<1>5. \A s \in Requests : Len(attempt'[s]) <= proxy_max_retries + 1
  BY <1>1, <1>2, <1>3, AccountsAssumption DEF AttemptsTyped
<1>6. \A j \in DOMAIN new : new[j] = Sent \/ (j \in DOMAIN attempt[r] /\ new[j] = attempt[r][j])
  <2>1. DOMAIN new = 1..(Len(attempt[r]) + 1) /\ DOMAIN attempt[r] = 1..Len(attempt[r])
        /\ Len(attempt[r]) \in Nat
    BY <1>1, <1>2, LenProperties
  <2>. QED
    BY <1>2, <2>1
<1>. QED
  BY <1>2, <1>3, <1>4, <1>5, <1>6 DEF AttemptsTyped

-----------------------------------------------------------------------------
(* The start. *)

\* The initial tables are well typed, and nobody has asked yet.
LEMMA InvInit == Init => IInv
<1>. SUFFICES ASSUME Init PROVE IInv
  OBVIOUS
<1>1. PICK U \in SUBSET Users : InitialRole \in [U -> Roles]
  BY AccountsAssumption
<1>2. PICK P \in SUBSET ProjectIds : InitialProjects \in [P -> InitialGroups]
  BY AccountsAssumption
<1>3. InitialGroups \subseteq Groups /\ InitialMembers \subseteq InitialGroups \X U
  BY <1>1, AccountsAssumption DEF InitialGroups
<1>4. users \in [U -> UserRow] /\ DOMAIN users = U
  BY <1>1 DEF Init, UserRow
<1>5. projects \in [P -> ProjectRow] /\ \A p \in P : projects[p].group \in InitialGroups
  BY <1>2, <1>3 DEF Init, ProjectRow
<1>6. TablesTyped
  BY <1>3, <1>4, <1>5 DEF Init, TablesTyped, MemberRow
<1>7. \A r \in Requests : attempt[r] = <<>> /\ Len(attempt[r]) = 0 /\ DOMAIN attempt[r] = {}
  BY DEF Init
<1>8. AttemptsTyped
  BY <1>7, EmptySeq, AccountsAssumption DEF Init, AttemptsTyped
<1>9. TrafficTyped
  BY <1>1, AccountsAssumption DEF Init, TrafficTyped, NoRequest, Request, Ended
<1>10. \A r \in Requests : RequestOK(r)
  BY <1>7 DEF Init, RequestOK, NoRequest
<1>. QED
  BY <1>6, <1>7, <1>8, <1>9, <1>10, TypeParts DEF IInv, LocksHeld, CreatedOnce

-----------------------------------------------------------------------------
(* Steps that leave the tables alone. *)

\* An attempt that a step leaves alone.
Kept(r, k) ==
  /\ k \in DOMAIN attempt[r] /\ attempt'[r][k] = attempt[r][k]
  /\ req'[r].ask = req[r].ask /\ req'[r].role = req[r].role

\* What is known of an attempt holds as long as it and the tables stay.
LEMMA KeptStaysOK ==
  ASSUME UNCHANGED tables, NEW r \in Requests, NEW k, Kept(r, k), AttemptOK(r, k)
  PROVE  AttemptOK(r, k)'
BY DEF tables, Kept, AttemptOK, Ready, Created, Conflicts

\* Nothing is asked of an attempt that has not begun.
LEMMA SentIsOK ==
  ASSUME NEW r, NEW k, attempt'[r][k] = Sent
  PROVE  AttemptOK(r, k)' /\ attempt'[r][k].at \notin {"flushed", "ok"}
<1>1. attempt'[r][k].at = "sent"
  BY AttemptRecords
<1>. QED
  BY <1>1 DEF AttemptOK

\* A step that leaves the tables alone and makes nothing flushed or successful.
LEMMA Frame ==
  ASSUME IInv, TypeOK', UNCHANGED tables,
         \A r \in Requests : RequestOK(r)',
         \A r \in Requests : \A k \in DOMAIN attempt'[r] :
           Kept(r, k) \/ (AttemptOK(r, k)' /\ attempt'[r][k].at \notin {"flushed", "ok"})
  PROVE  IInv'
<1>1. \A r \in Requests : \A k \in DOMAIN attempt'[r] : AttemptOK(r, k)'
  BY KeptStaysOK DEF IInv, Kept
<1>2. LocksHeld'
  BY DEF IInv, LocksHeld, Kept
<1>3. CreatedOnce'
  BY DEF IInv, CreatedOnce, Kept
<1>. QED
  BY <1>1, <1>2, <1>3 DEF IInv

\* A step that changes neither tables, requests nor attempts.
LEMMA Bystanders ==
  ASSUME IInv, TrafficTyped', UNCHANGED <<tables, req, attempt>>
  PROVE  IInv'
<1>1. TablesTyped' /\ AttemptsTyped'
  BY TypeParts DEF IInv, tables, TablesTyped, AttemptsTyped
<1>2. TypeOK'
  BY <1>1, TypePartsNext
<1>3. \A r \in Requests : RequestOK(r)'
  BY DEF IInv, RequestOK
<1>4. \A r \in Requests : \A k \in DOMAIN attempt'[r] : Kept(r, k)
  BY DEF Kept
<1>. QED
  BY <1>2, <1>3, <1>4, Frame

\* Sign-ins, expiring tokens and the consumer.
LEMMA BystanderSteps ==
  ASSUME IInv,
         \/ \E u \in SigningIn : LoginOrRefresh(u) \/ TokenExpires(u)
         \/ \E r \in Requests : StoreEvent(r)
         \/ ConsumerDies
         \/ UNCHANGED vars
  PROVE  IInv'
<1>1. TablesTyped /\ TrafficTyped
  BY TypeParts DEF IInv
<1>2. CASE \E u \in SigningIn : LoginOrRefresh(u) \/ TokenExpires(u)
  <2>1. \A u \in DOMAIN users : users[u].role \in Roles
    BY <1>1 DEF TablesTyped, UserRow
  <2>2. TrafficTyped'
    BY <1>1, <1>2, <2>1 DEF LoginOrRefresh, TokenExpires, TrafficTyped
  <2>. QED
    BY <1>2, <2>2, Bystanders DEF LoginOrRefresh, TokenExpires
<1>3. CASE \E r \in Requests : StoreEvent(r)
  <2>1. TrafficTyped'
    BY <1>1, <1>3 DEF StoreEvent, TrafficTyped
  <2>. QED
    BY <1>3, <2>1, Bystanders DEF StoreEvent
<1>4. CASE ConsumerDies
  <2>1. TrafficTyped'
    <3>1. stops' \in 0..MaxStops
      BY <1>1, <1>4, AccountsAssumption DEF ConsumerDies, TrafficTyped
    <3>2. audit' \in [Requests -> {"none", "published", "stored", "lost"}]
      BY <1>1, <1>4 DEF ConsumerDies, TrafficTyped
    <3>. QED
      BY <1>1, <1>4, <3>1, <3>2 DEF ConsumerDies, TrafficTyped
  <2>. QED
    BY <1>4, <2>1, Bystanders DEF ConsumerDies
<1>5. CASE UNCHANGED vars
  <2>1. TrafficTyped'
    BY <1>1, <1>5 DEF vars, TrafficTyped
  <2>. QED
    BY <1>5, <2>1, Bystanders DEF vars, tables
<1>. QED
  BY <1>2, <1>3, <1>4, <1>5

\* The service goes down: whatever was under way is dead.
LEMMA RestartStep ==
  ASSUME IInv, UserServiceRestarts
  PROVE  IInv'
<1>1. TablesTyped /\ AttemptsTyped /\ TrafficTyped
  BY TypeParts DEF IInv
<1>2. ASSUME NEW r \in Requests
      PROVE  /\ attempt'[r] \in Seq(Attempt) /\ Len(attempt'[r]) = Len(attempt[r])
             /\ DOMAIN attempt'[r] = DOMAIN attempt[r]
             /\ \A k \in DOMAIN attempt[r] :
                  attempt'[r][k] = IF attempt[r][k].at \in {"sent", "checked", "flushed"}
                                   THEN [Sent EXCEPT !.at = "dead"] ELSE attempt[r][k]
  <2>1. attempt[r] \in Seq(Attempt) /\ DOMAIN attempt[r] = 1..Len(attempt[r]) /\ Len(attempt[r]) \in Nat
    BY <1>1, LenProperties DEF AttemptsTyped
  <2>2. attempt'[r] = [k \in 1..Len(attempt[r]) |->
          IF attempt[r][k].at \in {"sent", "checked", "flushed"} THEN [Sent EXCEPT !.at = "dead"]
          ELSE attempt[r][k]]
    BY <1>1, <2>1 DEF UserServiceRestarts, AttemptsTyped
  <2>3. attempt'[r] \in [1..Len(attempt[r]) -> Attempt]
    <3>1. \A k \in 1..Len(attempt[r]) : attempt[r][k] \in Attempt
      BY <2>1, ElementOfSeq
    <3>2. [Sent EXCEPT !.at = "dead"] \in Attempt
      BY AttemptRecords
    <3>. QED
      BY <2>2, <3>1, <3>2
  <2>4. attempt'[r] \in Seq(Attempt)
    BY <2>1, <2>3, SeqDef
  <2>. QED
    BY <2>1, <2>2, <2>3, <2>4, LenProperties
<1>3. AttemptsTyped'
  BY <1>1, <1>2 DEF UserServiceRestarts, AttemptsTyped
<1>4. TablesTyped' /\ TrafficTyped'
  BY <1>1, AccountsAssumption DEF UserServiceRestarts, tables, TablesTyped, TrafficTyped
<1>5. \A r \in Requests : RequestOK(r)'
  <2>1. \A r \in Requests : attempt'[r] = <<>> <=> attempt[r] = <<>>
    BY <1>1, <1>2, EmptySeq DEF AttemptsTyped
  <2>. QED
    BY <2>1 DEF IInv, RequestOK, UserServiceRestarts
<1>6. \A r \in Requests : \A k \in DOMAIN attempt'[r] :
        Kept(r, k) \/ (AttemptOK(r, k)' /\ attempt'[r][k].at \notin {"flushed", "ok"})
  <2>1. [Sent EXCEPT !.at = "dead"].at = "dead"
    BY AttemptRecords
  <2>. QED
    BY <1>2, <2>1 DEF Kept, AttemptOK, UserServiceRestarts
<1>. QED
  BY <1>3, <1>4, <1>5, <1>6, TypePartsNext, Frame DEF UserServiceRestarts

-----------------------------------------------------------------------------
(* The gateway's steps. *)

\* A request is let through: its caller's role suffices for the handler.
LEMMA SubmitStep ==
  ASSUME IInv, NEW r \in Requests, NEW u \in Users, NEW ask \in Asks, Submit(r, u, ask)
  PROVE  IInv'
<1>1. TablesTyped /\ AttemptsTyped /\ TrafficTyped
  BY TypeParts DEF IInv
<1>. DEFINE new == [NoRequest EXCEPT !.at = "forwarded", !.by = u, !.role = token[u], !.ask = ask]
<1>2. token[u] \in Roles
  BY <1>1 DEF Submit, TrafficTyped
<1>3. /\ new \in Request /\ new.at = "forwarded" /\ new.by = u /\ new.role = token[u] /\ new.ask = ask
  BY <1>2 DEF NoRequest, Request
<1>. HIDE DEF new
<1>4. \A s \in Requests : req'[s] = IF s = r THEN new ELSE req[s]
  BY <1>1 DEF Submit, TrafficTyped, new
<1>5. \A s \in Requests : attempt'[s] = IF s = r THEN <<Sent>> ELSE attempt[s]
  BY <1>1 DEF Submit, AttemptsTyped
<1>6. /\ <<Sent>> \in Seq(Attempt) /\ Len(<<Sent>>) = 1 /\ DOMAIN <<Sent>> = {1} /\ <<Sent>>[1] = Sent
      /\ <<Sent>> # <<>>
  <2>1. <<Sent>> \in Seq(Attempt)
    BY AttemptRecords, ShortSequences
  <2>2. Len(<<Sent>>) = 1 /\ <<Sent>>[1] = Sent /\ <<Sent>> # <<>>
    OBVIOUS
  <2>3. DOMAIN <<Sent>> = {1}
    BY <2>1, <2>2, LenProperties
  <2>. QED
    BY <2>1, <2>2, <2>3
<1>7. RoleSuffices(token[u], ask)
  BY <1>2, AdmissionSuffices DEF Submit
<1>8. AttemptsTyped'
  <2>1. attempt' = [s \in Requests |-> attempt'[s]]
    BY <1>1 DEF Submit, AttemptsTyped
  <2>2. \A s \in Requests : attempt'[s] \in Seq(Attempt)
    BY <1>1, <1>5, <1>6 DEF AttemptsTyped
  <2>3. \A s \in Requests : Len(attempt'[s]) <= proxy_max_retries + 1
    <3>1. Len(<<Sent>>) <= proxy_max_retries + 1
      BY <1>6, AccountsAssumption
    <3>2. \A s \in Requests : Len(attempt[s]) <= proxy_max_retries + 1
      BY <1>1 DEF AttemptsTyped
    <3>. QED
      BY <1>5, <3>1, <3>2
  <2>. QED
    BY <2>1, <2>2, <2>3 DEF AttemptsTyped
<1>9. TablesTyped' /\ TrafficTyped'
  BY <1>1, <1>3 DEF Submit, tables, TablesTyped, TrafficTyped, new
<1>10. \A s \in Requests : RequestOK(s)'
  BY <1>2, <1>3, <1>4, <1>5, <1>6, <1>7 DEF IInv, RequestOK
<1>11. \A s \in Requests : \A k \in DOMAIN attempt'[s] :
         Kept(s, k) \/ (AttemptOK(s, k)' /\ attempt'[s][k].at \notin {"flushed", "ok"})
  BY <1>4, <1>5, <1>6, SentIsOK DEF Kept
<1>. QED
  BY <1>8, <1>9, <1>10, <1>11, TypePartsNext, Frame DEF Submit

\* A request is refused, and never reaches the service.
LEMMA RefuseStep ==
  ASSUME IInv, NEW r \in Requests, NEW u \in Users, NEW ask \in Asks, Refuse(r, u, ask)
  PROVE  IInv'
<1>1. TablesTyped /\ AttemptsTyped /\ TrafficTyped
  BY TypeParts DEF IInv
<1>. DEFINE new == [NoRequest EXCEPT !.at = "answered", !.by = u, !.role = token[u],
                                     !.ask = ask, !.answer = "forbidden"]
<1>2. new \in Request /\ new.at = "answered"
  BY <1>1 DEF NoRequest, Request, Ended, TrafficTyped
<1>. HIDE DEF new
<1>3. \A s \in Requests : req'[s] = IF s = r THEN new ELSE req[s]
  BY <1>1 DEF Refuse, TrafficTyped, new
<1>4. attempt[r] = <<>> /\ DOMAIN attempt[r] = {}
  BY DEF IInv, RequestOK, Refuse, IsNext
<1>5. TablesTyped' /\ AttemptsTyped' /\ TrafficTyped'
  BY <1>1, <1>2 DEF Refuse, tables, TablesTyped, AttemptsTyped, TrafficTyped, new
<1>6. \A s \in Requests : RequestOK(s)'
  BY <1>2, <1>3, <1>4 DEF IInv, RequestOK, Refuse
<1>7. \A s \in Requests : \A k \in DOMAIN attempt'[s] : Kept(s, k)
  BY <1>3, <1>4 DEF Kept, Refuse
<1>. QED
  BY <1>5, <1>6, <1>7, TypePartsNext, Frame DEF Refuse

\* The gateway answers, and the attempts go on as they were.
LEMMA AnsweringStep ==
  ASSUME IInv, NEW r \in Requests, req[r].at = "forwarded",
         NEW answer \in Ended \cup {"unavailable"},
         req' = [req EXCEPT ![r].at = "answered", ![r].answer = answer],
         UNCHANGED <<tables, attempt>>, TrafficTyped'
  PROVE  IInv'
<1>1. TablesTyped /\ AttemptsTyped /\ TrafficTyped
  BY TypeParts DEF IInv
<1>. DEFINE new == [req[r] EXCEPT !.at = "answered", !.answer = answer]
<1>2. /\ new.at = "answered" /\ new.by = req[r].by /\ new.role = req[r].role /\ new.ask = req[r].ask
  <2>1. req[r] \in Request
    BY <1>1 DEF TrafficTyped
  <2>. QED
    BY <2>1, AnsweredRequest
<1>. HIDE DEF new
<1>3. \A s \in Requests : req'[s] = IF s = r THEN new ELSE req[s]
  BY <1>1 DEF TrafficTyped, new
<1>4. TablesTyped' /\ AttemptsTyped'
  BY <1>1 DEF tables, TablesTyped, AttemptsTyped
<1>5. \A s \in Requests : RequestOK(s)'
  BY <1>2, <1>3 DEF IInv, RequestOK
<1>6. \A s \in Requests : \A k \in DOMAIN attempt'[s] : Kept(s, k)
  BY <1>2, <1>3 DEF Kept
<1>. QED
  BY <1>4, <1>5, <1>6, TypePartsNext, Frame

\* The gateway tries again.
LEMMA RepeatingStep ==
  ASSUME IInv, NEW r \in Requests, req[r].at = "forwarded", Retries(r),
         attempt' = [attempt EXCEPT ![r] = Append(@, Sent)],
         UNCHANGED <<tables, req>>, TrafficTyped'
  PROVE  IInv'
<1>1. TablesTyped /\ AttemptsTyped
  BY TypeParts DEF IInv
<1>2. /\ AttemptsTyped' /\ attempt'[r] # <<>>
      /\ \A s \in Requests : s # r => attempt'[s] = attempt[s]
      /\ \A s \in Requests : \A j \in DOMAIN attempt'[s] :
           attempt'[s][j] = Sent \/ (j \in DOMAIN attempt[s] /\ attempt'[s][j] = attempt[s][j])
  BY <1>1, AttemptBegins DEF Retries
<1>3. TablesTyped'
  BY <1>1 DEF tables, TablesTyped
<1>4. \A s \in Requests : RequestOK(s)'
  BY <1>2 DEF IInv, RequestOK
<1>5. \A s \in Requests : \A k \in DOMAIN attempt'[s] :
        Kept(s, k) \/ (AttemptOK(s, k)' /\ attempt'[s][k].at \notin {"flushed", "ok"})
  BY <1>2, SentIsOK DEF Kept
<1>. QED
  BY <1>2, <1>3, <1>4, <1>5, TypePartsNext, Frame

\* Whatever becomes of the answer, the types of the traffic stay.
LEMMA AnswerTypes ==
  ASSUME TrafficTyped, NEW r \in Requests, NEW answer \in Ended \cup {"unavailable"},
         req' = [req EXCEPT ![r].at = "answered", ![r].answer = answer],
         NEW event \in {"published", "lost"}, audit' = [audit EXCEPT ![r] = event],
         UNCHANGED <<token, listening, stops>>, timeouts' \in 0..MaxTimeouts
  PROVE  TrafficTyped'
<1>1. [req[r] EXCEPT !.at = "answered", !.answer = answer] \in Request
  BY AnsweredRequest DEF TrafficTyped
<1>. QED
  BY <1>1 DEF TrafficTyped

\* A timeout, a broken connection or the answer of the last attempt.
LEMMA GatewaySteps ==
  ASSUME IInv, NEW r \in Requests, Reply(r) \/ TimesOut(r) \/ ConnectionFails(r)
  PROVE  IInv'
<1>1. TrafficTyped
  BY TypeParts DEF IInv
<1>2. timeouts' \in 0..MaxTimeouts /\ UNCHANGED <<tables, token, listening, stops>>
  BY <1>1, AccountsAssumption DEF TrafficTyped, Reply, TimesOut, ConnectionFails
<1>3. req[r].at = "forwarded"
  BY DEF Reply, TimesOut, ConnectionFails
<1>4. ASSUME NEW answer \in Ended \cup {"unavailable"}, UNCHANGED attempt,
             Answered(r, answer) \/ (answer = "unavailable" /\ Unhandled(r))
      PROVE  IInv'
  <2>1. /\ req' = [req EXCEPT ![r].at = "answered", ![r].answer = answer]
        /\ \E event \in {"published", "lost"} : audit' = [audit EXCEPT ![r] = event]
    BY <1>4 DEF Answered, Unhandled
  <2>2. TrafficTyped'
    BY <1>1, <1>2, <2>1, AnswerTypes
  <2>. QED
    BY <1>2, <1>3, <1>4, <2>1, <2>2, AnsweringStep
<1>5. ASSUME Retries(r), attempt' = [attempt EXCEPT ![r] = Append(@, Sent)], UNCHANGED <<req, audit>>
      PROVE  IInv'
  <2>1. TrafficTyped'
    BY <1>1, <1>2, <1>5 DEF TrafficTyped
  <2>. QED
    BY <1>2, <1>3, <1>5, <2>1, RepeatingStep
<1>6. CASE Reply(r)
  BY <1>4, <1>6 DEF Reply
<1>7. CASE GiveUp(r)
  BY <1>4, <1>5, <1>7 DEF GiveUp
<1>8. CASE Unhandled(r)
  BY <1>4, <1>8 DEF Unhandled
<1>. QED
  BY <1>6, <1>7, <1>8 DEF TimesOut, ConnectionFails

-----------------------------------------------------------------------------
(* The handler decides and flushes. *)

\* A step gives one attempt a new record, and may answer the request.
Moves(r, k, a) ==
  /\ attempt' = [attempt EXCEPT ![r][k] = a]
  /\ \A s \in Requests : /\ req'[s].by = req[s].by /\ req'[s].role = req[s].role
                         /\ req'[s].ask = req[s].ask
                         /\ req'[s].at = req[s].at \/ (s = r /\ req'[s].at = "answered")

\* The other attempts stay.
LEMMA OneAttempt ==
  ASSUME IInv, NEW r \in Requests, NEW k \in DOMAIN attempt[r], NEW a \in Attempt, Moves(r, k, a)
  PROVE  /\ AttemptsTyped' /\ \A s \in Requests : RequestOK(s)'
         /\ \A s \in Requests : DOMAIN attempt'[s] = DOMAIN attempt[s]
         /\ attempt'[r][k] = a
         /\ \A s \in Requests : \A j \in DOMAIN attempt'[s] : <<s, j>> # <<r, k>> => Kept(s, j)
<1>1. AttemptsTyped
  BY TypeParts DEF IInv
<1>2. /\ AttemptsTyped'
      /\ \A s \in Requests : DOMAIN attempt'[s] = DOMAIN attempt[s] /\ Len(attempt'[s]) = Len(attempt[s])
      /\ \A s \in Requests : attempt'[s] = <<>> <=> attempt[s] = <<>>
      /\ \A s \in Requests : \A j \in DOMAIN attempt[s] :
           attempt'[s][j] = IF s = r /\ j = k THEN a ELSE attempt[s][j]
  BY <1>1, AttemptChanges DEF Moves
<1>3. attempt[r] # <<>>
  BY <1>1, LenProperties, EmptySeq DEF AttemptsTyped
<1>4. \A s \in Requests : RequestOK(s)'
  BY <1>2, <1>3 DEF IInv, RequestOK, Moves
<1>5. \A s \in Requests : \A j \in DOMAIN attempt'[s] : <<s, j>> # <<r, k>> => Kept(s, j)
  BY <1>2 DEF Kept, Moves
<1>. QED
  BY <1>2, <1>4, <1>5

\* The rows a handler has read are rows, and what it needs is there.
LEMMA MayIsReady ==
  ASSUME TablesTyped, NEW ask \in Asks, NEW by, NEW role, May(by, role, ask), NEW seen,
         seen.groups = GroupsOf(by), seen.row = RowOf(ask)
  PROVE  /\ Ready(ask, seen)
         /\ GroupsOf(by) \in SUBSET Groups /\ RowOf(ask) \in UserRow \cup ProjectRow \cup {Nobody}
<1>1. GroupsOf(by) \subseteq groups /\ groups \subseteq Groups
  BY DEF TablesTyped, GroupsOf
<1>2. \A u \in DOMAIN users : u \in Users /\ users[u] \in UserRow
  BY DEF TablesTyped
<1>3. \A p \in DOMAIN projects : p \in ProjectIds /\ projects[p] \in ProjectRow
  BY DEF TablesTyped
<1>4. ask.user \in DOMAIN users => RowOf(ask) = users[ask.user]
  BY DEF RowOf
<1>5. ask.user \notin DOMAIN users /\ ask.project \in DOMAIN projects => RowOf(ask) = projects[ask.project]
  BY DEF RowOf
<1>6. ask.user \notin DOMAIN users /\ ask.project \notin DOMAIN projects => RowOf(ask) = Nobody
  BY DEF RowOf
<1>7. ask.op \in UserUpdates \cup {"deactivate_user"} => ask.user \in DOMAIN users
  BY DEF May, MayUpdateUser, UserUpdates, UserCreations
<1>8. ASSUME ask.op \in {"update_project", "archive_project"}
      PROVE  ask.project \in DOMAIN projects /\ seen.row \in ProjectRow
  <2>1. ask.project \in DOMAIN projects
    BY <1>8 DEF May, MayUpdateProject, InProjectGroup, UserUpdates, UserCreations
  <2>2. ask.user \notin DOMAIN users
    BY <1>2, <1>8, AskFields, AccountsAssumption
  <2>. QED
    BY <1>3, <1>5, <2>1, <2>2
<1>9. ask.op = "create_project" => ask.group \in groups
  BY <1>1 DEF May, MayCreateProject, UserUpdates, UserCreations
<1>10. ask.op = "create_user" /\ ask.role = "project_admin" => ask.group \in groups
  BY DEF May, MayCreateUser, UserUpdates, UserCreations
<1>. QED
  BY <1>1, <1>2, <1>3, <1>4, <1>5, <1>6, <1>7, <1>8, <1>9, <1>10 DEF Ready

\* The handler's decision.
LEMMA CheckStep ==
  ASSUME IInv, NEW r \in Requests, NEW k \in DOMAIN attempt[r], Check(r, k)
  PROVE  IInv'
<1>1. TablesTyped /\ AttemptsTyped /\ TrafficTyped
  BY TypeParts DEF IInv
<1>. DEFINE q == req[r]
            old == attempt[r][k]
<1>2. old \in Attempt /\ attempt[r] # <<>>
  BY <1>1, LenProperties, ElementOfSeq, EmptySeq DEF AttemptsTyped
<1>3. q.role \in Roles /\ q.ask \in Asks /\ RoleSuffices(q.role, q.ask)
  BY <1>2 DEF IInv, RequestOK
<1>4. PICK a : /\ attempt' = [attempt EXCEPT ![r][k] = a]
               /\ \/ a = [old EXCEPT !.at = "forbidden"] /\ Escalates(q.role, q.ask)
                  \/ \E at \in {"refused", "failed"} : a = [old EXCEPT !.at = at]
                  \/ /\ a = [old EXCEPT !.at = "checked", !.groups = GroupsOf(q.by), !.row = RowOf(q.ask)]
                     /\ May(q.by, q.role, q.ask)
  BY <1>3 DEF Check
<1>5. /\ a \in Attempt
      /\ \/ a.at = "forbidden" /\ Escalates(q.role, q.ask)
         \/ a.at \in {"refused", "failed"}
         \/ a.at = "checked" /\ Ready(q.ask, a)
  <2>1. CASE a = [old EXCEPT !.at = "forbidden"] /\ Escalates(q.role, q.ask)
    BY <1>2, <2>1, AttemptRecords DEF Ended
  <2>2. ASSUME NEW at \in {"refused", "failed"}, a = [old EXCEPT !.at = at]
        PROVE  a \in Attempt /\ a.at = at
    BY <1>2, <2>2 DEF Attempt, Ended
  <2>3. CASE /\ a = [old EXCEPT !.at = "checked", !.groups = GroupsOf(q.by), !.row = RowOf(q.ask)]
             /\ May(q.by, q.role, q.ask)
    <3>1. GroupsOf(q.by) \in SUBSET Groups /\ RowOf(q.ask) \in UserRow \cup ProjectRow \cup {Nobody}
      <4>1. PICK seen : seen = [groups |-> GroupsOf(q.by), row |-> RowOf(q.ask)]
        OBVIOUS
      <4>. QED
        BY <1>1, <1>3, <2>3, <4>1, MayIsReady
    <3>2. a \in Attempt /\ a.at = "checked" /\ a.groups = GroupsOf(q.by) /\ a.row = RowOf(q.ask)
      BY <1>2, <2>3, <3>1 DEF Attempt, Ended
    <3>3. Ready(q.ask, a)
      BY <1>1, <1>3, <2>3, <3>2, MayIsReady
    <3>. QED
      BY <3>2, <3>3
  <2>. QED
    BY <1>4, <2>1, <2>2, <2>3
<1>6. UNCHANGED <<tables, req>> /\ TrafficTyped'
  BY <1>1 DEF Check, TrafficTyped
<1>7. /\ AttemptsTyped' /\ \A s \in Requests : RequestOK(s)'
      /\ attempt'[r][k] = a
      /\ \A s \in Requests : \A j \in DOMAIN attempt'[s] : <<s, j>> # <<r, k>> => Kept(s, j)
  <2>1. Moves(r, k, a)
    BY <1>4, <1>6 DEF Moves
  <2>2. a \in Attempt
    BY <1>5
  <2>. QED
    BY <2>1, <2>2, OneAttempt
<1>8. TypeOK'
  BY <1>1, <1>6, <1>7, TypePartsNext DEF tables, TablesTyped
<1>9. Ready(q.ask, a) => Ready(q.ask, a)'
  BY <1>4, <1>6 DEF tables, Ready
<1>10. AttemptOK(r, k)' /\ attempt'[r][k].at \notin {"flushed", "ok"}
  BY <1>5, <1>6, <1>7, <1>9 DEF AttemptOK, Ready
<1>. QED
  BY <1>6, <1>7, <1>10, <1>8, Frame

\* Whose lock is whose does not matter.
LEMMA LocksAreMutual ==
  ASSUME NEW a, NEW b
  PROVE  (Locks(a, b) <=> Locks(b, a)) /\ (SameKey(a, b) <=> SameKey(b, a))
BY DEF Locks, SameKey, SameRow

\* The handler flushes, which has nothing in its way, and the answer goes out.
LEMMA ReplyBeforeCommitStep ==
  ASSUME IInv, NEW r \in Requests, ReplyBeforeCommit(r)
  PROVE  IInv'
<1>1. TablesTyped /\ AttemptsTyped /\ TrafficTyped
  BY TypeParts DEF IInv
<1>2. PICK k \in DOMAIN attempt[r] : k = Len(attempt[r]) /\ attempt[r][k] \in Attempt
  <2>1. attempt[r] \in Seq(Attempt) /\ attempt[r] # <<>>
    BY <1>1 DEF AttemptsTyped, IInv, RequestOK, ReplyBeforeCommit
  <2>. QED
    BY <2>1, LenProperties, EmptySeq, ElementOfSeq
<1>3. PICK a : a = [attempt[r][k] EXCEPT !.at = "flushed"]
  OBVIOUS
<1>4. /\ a \in Attempt /\ a.at = "flushed"
      /\ a.groups = attempt[r][k].groups /\ a.row = attempt[r][k].row
  BY <1>2, <1>3 DEF Attempt
<1>5. /\ attempt[r][k].at = "checked" /\ Unlocked(r, k) /\ ~Conflicts(req[r].ask)
      /\ UNCHANGED <<tables, token, listening, timeouts, stops>>
      /\ attempt' = [attempt EXCEPT ![r][k] = a]
  BY <1>2, <1>3 DEF ReplyBeforeCommit
<1>6. /\ req' = [req EXCEPT ![r].at = "answered", ![r].answer = "ok"]
      /\ \E event \in {"published", "lost"} : audit' = [audit EXCEPT ![r] = event]
  BY DEF ReplyBeforeCommit, Answered
<1>7. TrafficTyped'
  <2>1. timeouts' \in 0..MaxTimeouts
    BY <1>1, <1>5 DEF TrafficTyped
  <2>2. "ok" \in Ended
    BY DEF Ended
  <2>. QED
    BY <1>1, <1>5, <1>6, <2>1, <2>2, AnswerTypes
<1>8. \A s \in Requests : /\ req'[s].by = req[s].by /\ req'[s].role = req[s].role
                          /\ req'[s].ask = req[s].ask
                          /\ req'[s].at = req[s].at \/ (s = r /\ req'[s].at = "answered")
  <2>. DEFINE new == [req[r] EXCEPT !.at = "answered", !.answer = "ok"]
  <2>1. req[r] \in Request /\ "ok" \in Ended
    BY <1>1 DEF TrafficTyped, Ended
  <2>2. new.at = "answered" /\ new.by = req[r].by /\ new.role = req[r].role /\ new.ask = req[r].ask
    BY <2>1, AnsweredRequest
  <2>. HIDE DEF new
  <2>3. \A s \in Requests : req'[s] = IF s = r THEN new ELSE req[s]
    BY <1>1, <1>6 DEF TrafficTyped, new
  <2>. QED
    BY <2>2, <2>3
<1>9. /\ AttemptsTyped' /\ \A s \in Requests : RequestOK(s)'
      /\ \A s \in Requests : DOMAIN attempt'[s] = DOMAIN attempt[s]
      /\ attempt'[r][k] = a
      /\ \A s \in Requests : \A j \in DOMAIN attempt'[s] : <<s, j>> # <<r, k>> => Kept(s, j)
  <2>1. Moves(r, k, a)
    BY <1>5, <1>8 DEF Moves
  <2>. QED
    BY <1>4, <2>1, OneAttempt
<1>10. TypeOK'
  BY <1>1, <1>5, <1>7, <1>9, TypePartsNext DEF tables, TablesTyped
<1>11. AttemptOK(r, k)'
  <2>1. Ready(req[r].ask, attempt[r][k])
    BY <1>2, <1>5 DEF IInv, AttemptOK
  <2>2. Ready(req[r].ask, a)
    BY <1>4, <2>1 DEF Ready
  <2>3. (Ready(req[r].ask, attempt[r][k]))'
    BY <1>5, <1>8, <1>9, <2>2 DEF Ready, tables
  <2>4. ~(Conflicts(req[r].ask))'
    BY <1>5, <1>8 DEF Conflicts, tables
  <2>. QED
    BY <1>4, <1>9, <2>3, <2>4 DEF AttemptOK
<1>12. \A s \in Requests : \A j \in DOMAIN attempt'[s] : AttemptOK(s, j)'
  <2>. SUFFICES ASSUME NEW s \in Requests, NEW j \in DOMAIN attempt'[s] PROVE AttemptOK(s, j)'
    OBVIOUS
  <2>1. CASE <<s, j>> = <<r, k>>
    BY <1>11, <2>1
  <2>2. CASE <<s, j>> # <<r, k>>
    BY <1>5, <1>9, <2>2, KeptStaysOK DEF IInv, Kept
  <2>. QED
    BY <2>1, <2>2
<1>13. LocksHeld'
  <2>. SUFFICES ASSUME NEW s \in Requests, NEW t \in Requests,
                       NEW i \in DOMAIN attempt'[s], NEW j \in DOMAIN attempt'[t],
                       attempt'[s][i].at = "flushed", attempt'[t][j].at = "flushed",
                       Locks(req'[s].ask, req'[t].ask)
                PROVE  <<s, i>> = <<t, j>>
    BY DEF LocksHeld, Locks, SameKey, SameRow
  <2>1. Locks(req[s].ask, req[t].ask)
    BY <1>8
  <2>2. CASE <<s, i>> # <<r, k>> /\ <<t, j>> # <<r, k>>
    BY <1>9, <2>1, <2>2 DEF IInv, LocksHeld, Kept
  <2>3. CASE <<s, i>> = <<r, k>> /\ <<t, j>> # <<r, k>>
    BY <1>5, <1>9, <2>1, <2>3, LocksAreMutual DEF Unlocked, Kept
  <2>4. CASE <<s, i>> # <<r, k>> /\ <<t, j>> = <<r, k>>
    BY <1>5, <1>9, <2>1, <2>4 DEF Unlocked, Kept
  <2>. QED
    BY <2>2, <2>3, <2>4
<1>14. CreatedOnce'
  <2>1. \A s \in Requests : \A j \in DOMAIN attempt'[s] : attempt'[s][j].at = "ok" => Kept(s, j)
    BY <1>4, <1>9
  <2>. QED
    BY <1>8, <2>1 DEF IInv, CreatedOnce, Kept
<1>. QED
  BY <1>9, <1>12, <1>13, <1>14, <1>10 DEF IInv

-----------------------------------------------------------------------------
(* The commit. *)

\* A row that is updated is a row, with the columns that the update means to change.
LEMMA UpdatedRows ==
  /\ \A now \in UserRow, read \in UserRow, wanted \in UserRow :
       /\ Updated(now, read, wanted) \in UserRow
       /\ Updated(now, read, wanted).active = IF wanted.active = read.active THEN now.active ELSE wanted.active
  /\ \A now \in ProjectRow, read \in ProjectRow, wanted \in ProjectRow :
       /\ Updated(now, read, wanted) \in ProjectRow
       /\ Updated(now, read, wanted).group = IF wanted.group = read.group THEN now.group ELSE wanted.group
       /\ Updated(now, read, wanted).status = IF wanted.status = read.status THEN now.status ELSE wanted.status
<1>1. ASSUME NEW now \in UserRow, NEW read \in UserRow, NEW wanted \in UserRow
      PROVE  /\ Updated(now, read, wanted) \in UserRow
             /\ Updated(now, read, wanted).active =
                  IF wanted.active = read.active THEN now.active ELSE wanted.active
  <2>1. Updated(now, read, wanted) = [role |-> IF wanted.role = read.role THEN now.role ELSE wanted.role,
          active |-> IF wanted.active = read.active THEN now.active ELSE wanted.active]
    BY DEF Updated, UserRow
  <2>. QED
    BY <2>1 DEF UserRow
<1>2. ASSUME NEW now \in ProjectRow, NEW read \in ProjectRow, NEW wanted \in ProjectRow
      PROVE  /\ Updated(now, read, wanted) \in ProjectRow
             /\ Updated(now, read, wanted).group =
                  IF wanted.group = read.group THEN now.group ELSE wanted.group
             /\ Updated(now, read, wanted).status =
                  IF wanted.status = read.status THEN now.status ELSE wanted.status
  <2>1. Updated(now, read, wanted) = [group |-> IF wanted.group = read.group THEN now.group ELSE wanted.group,
          status |-> IF wanted.status = read.status THEN now.status ELSE wanted.status,
          version |-> IF wanted.version = read.version THEN now.version ELSE wanted.version]
    BY DEF Updated, ProjectRow
  <2>. QED
    BY <2>1 DEF ProjectRow
<1>. QED
  BY <1>1, <1>2

\* What becomes of the tables: rows come, with the keys that the request names, and none goes.
Grows(ask) ==
  /\ DOMAIN users \subseteq DOMAIN users' /\ groups \subseteq groups'
  /\ DOMAIN projects \subseteq DOMAIN projects'
  /\ \A u \in DOMAIN users' : u \in DOMAIN users \/ (ask.op \in UserCreations /\ u = ask.user)
  /\ \A g \in groups' : g \in groups \/ (ask.op \in GroupCreations /\ g = ask.group)
  /\ \A m \in members' : \/ m \in members
                         \/ ask.op = "add_member" /\ m = <<ask.group, ask.user>>
                         \/ m[2] \notin DOMAIN users

\* A user is created, with the memberships that go with it.
LEMMA CreateUserTables ==
  ASSUME TablesTyped, NEW q, q.ask \in Asks, NEW seen, Ready(q.ask, seen), ~Conflicts(q.ask),
         CreateUser(q, seen)
  PROVE  TablesTyped' /\ Grows(q.ask) /\ Created(q.ask)'
<1>. DEFINE u == q.ask.user
            row == [role |-> q.ask.role, active |-> TRUE]
<1>1. q.ask.op \in UserCreations /\ u \in Users /\ row \in UserRow
  <2>1. q.ask.op \in UserCreations
    BY DEF CreateUser
  <2>. QED
    BY <2>1, AskFields DEF UserRow
<1>2. u \notin DOMAIN users
  BY <1>1 DEF Conflicts, UserCreations
<1>3. users' = [v \in DOMAIN users \cup {u} |-> IF v = u THEN row ELSE users[v]]
  BY DEF CreateUser, Inserted
<1>. HIDE DEF row
<1>4. \E U \in SUBSET Users : users' \in [U -> UserRow]
  <2>1. PICK U \in SUBSET Users : users \in [U -> UserRow]
    BY DEF TablesTyped
  <2>2. users' \in [U \cup {u} -> UserRow] /\ U \cup {u} \in SUBSET Users
    BY <1>1, <1>3, <2>1
  <2>. QED
    BY <2>2
<1>5. DOMAIN users' = DOMAIN users \cup {u}
  BY <1>3
<1>6. groups' = groups \cup IF q.ask.op = "create_user_and_group" THEN {q.ask.group} ELSE {}
  BY DEF CreateUser
<1>7. q.ask.op = "create_user_and_group" => q.ask.op \in GroupCreations /\ q.ask.group \in Groups
  BY AskFields DEF GroupCreations
<1>8. q.ask.op = "create_user_and_group" \/ q.ask.op = "create_user"
  BY <1>1 DEF UserCreations
<1>9. \A m \in Newcomer(q, seen.groups) : \E g \in groups' : m = <<g, u>>
  <2>1. seen.groups \subseteq groups
    BY DEF Ready
  <2>2. q.ask.role = "project_admin" => q.ask.group \in groups'
    BY <1>6, <1>8 DEF Ready
  <2>. QED
    BY <1>6, <2>1, <2>2 DEF Newcomer
<1>10. groups \subseteq groups' /\ groups' \subseteq Groups
  BY <1>6, <1>7 DEF TablesTyped
<1>11. members' = members \cup Newcomer(q, seen.groups) /\ projects' = projects
  BY DEF CreateUser
<1>12. members' \subseteq MemberRow \cap (groups' \X DOMAIN users')
  <2>. SUFFICES ASSUME NEW m \in members' PROVE m \in MemberRow \cap (groups' \X DOMAIN users')
    OBVIOUS
  <2>1. CASE m \in members
    BY <1>5, <1>10, <2>1 DEF TablesTyped
  <2>2. CASE m \in Newcomer(q, seen.groups)
    BY <1>1, <1>5, <1>9, <1>10, <2>2 DEF MemberRow
  <2>. QED
    BY <1>11, <2>1, <2>2
<1>13. TablesTyped'
  BY <1>4, <1>10, <1>11, <1>12 DEF TablesTyped
<1>14. Grows(q.ask)
  <2>1. \A m \in members' : m \in members \/ m[2] \notin DOMAIN users
    BY <1>2, <1>9, <1>11
  <2>. QED
    BY <1>1, <1>5, <1>6, <1>7, <1>10, <1>11, <2>1 DEF Grows
<1>15. Created(q.ask)'
  BY <1>5, <1>6, <1>8 DEF Created, GroupCreations
<1>. QED
  BY <1>13, <1>14, <1>15

\* An update keeps the keys of the table.
LEMMA UserTables ==
  ASSUME TablesTyped, NEW ask, NEW u \in DOMAIN users, NEW row \in UserRow,
         users' = [users EXCEPT ![u] = row], UNCHANGED <<members, groups, projects>>
  PROVE  TablesTyped' /\ Grows(ask)
<1>1. PICK U \in SUBSET Users : users \in [U -> UserRow]
  BY DEF TablesTyped
<1>2. users' \in [U -> UserRow] /\ DOMAIN users' = DOMAIN users
  BY <1>1
<1>3. TablesTyped'
  BY <1>1, <1>2 DEF TablesTyped
<1>4. Grows(ask)
  BY <1>2 DEF Grows
<1>. QED
  BY <1>3, <1>4

\* The same of a project, which stays in its group.
LEMMA ProjectTables ==
  ASSUME TablesTyped, NEW ask, NEW p \in DOMAIN projects, NEW row \in ProjectRow, row.group \in groups,
         projects' = [projects EXCEPT ![p] = row], UNCHANGED <<users, members, groups>>
  PROVE  TablesTyped' /\ Grows(ask)
<1>1. PICK P \in SUBSET ProjectIds : projects \in [P -> ProjectRow]
  BY DEF TablesTyped
<1>2. projects' \in [P -> ProjectRow] /\ DOMAIN projects' = DOMAIN projects
  BY <1>1
<1>3. \A i \in DOMAIN projects' : projects'[i].group \in groups'
  BY <1>1, <1>2 DEF TablesTyped
<1>4. TablesTyped'
  BY <1>2, <1>3 DEF TablesTyped
<1>5. Grows(ask)
  BY <1>2 DEF Grows
<1>. QED
  BY <1>4, <1>5

\* The row that an update wants: that which it read, but for the columns it is for.
WantedUser(ask, read) ==
  IF ask.op = "change_role" THEN [read EXCEPT !.role = ask.role]
  ELSE [read EXCEPT !.active = (ask.op = "activate")]

\* A user is updated or deactivated.
LEMMA UpdateUserTables ==
  ASSUME TablesTyped, NEW q, q.ask \in Asks, NEW seen, Ready(q.ask, seen),
         UpdateUser(q, seen) \/ DeactivateUser(q, seen)
  PROVE  /\ TablesTyped' /\ Grows(q.ask)
         /\ \A u \in DOMAIN users : /\ u # q.ask.user => users'[u] = users[u]
                                    /\ ~users[u].active /\ users'[u].active => q.ask.op = "activate"
<1>. DEFINE u == q.ask.user
            wanted == WantedUser(q.ask, seen.row)
            new == Updated(users[u], seen.row, wanted)
<1>1. q.ask.op \in UserUpdates \cup {"deactivate_user"}
  BY DEF UpdateUser, DeactivateUser
<1>2. u \in DOMAIN users /\ seen.row \in UserRow /\ users[u] \in UserRow
  BY <1>1 DEF Ready, TablesTyped
<1>3. q.ask.op = "change_role" => q.ask.role \in Roles
  BY AskFields
<1>4. /\ wanted \in UserRow
      /\ q.ask.op # "activate" => wanted.active = seen.row.active \/ ~wanted.active
  BY <1>2, <1>3 DEF WantedUser, UserRow
<1>5. users' = [users EXCEPT ![u] = new] /\ UNCHANGED <<members, groups, projects>>
  BY DEF UpdateUser, DeactivateUser, WantedUser
<1>. HIDE DEF wanted
<1>6. new \in UserRow /\ new.active = IF wanted.active = seen.row.active THEN users[u].active ELSE wanted.active
  BY <1>2, <1>4, UpdatedRows
<1>. HIDE DEF new
<1>7. TablesTyped' /\ Grows(q.ask)
  BY <1>2, <1>5, <1>6, UserTables
<1>8. \A v \in DOMAIN users : users'[v] = IF v = u THEN new ELSE users[v]
  BY <1>5
<1>9. ~users[u].active /\ new.active => q.ask.op = "activate"
  BY <1>4, <1>6
<1>. QED
  BY <1>7, <1>8, <1>9

\* A project is updated or archived.
LEMMA UpdateProjectTables ==
  ASSUME TablesTyped, NEW q, NEW seen, Ready(q.ask, seen),
         UpdateProject(q, seen) \/ ArchiveProject(q, seen)
  PROVE  /\ TablesTyped' /\ Grows(q.ask)
         /\ \A p \in DOMAIN projects : projects[p].status = "archived" => projects'[p].status = "archived"
<1>. DEFINE p == q.ask.project
<1>1. p \in DOMAIN projects /\ seen.row \in ProjectRow
  BY DEF Ready, UpdateProject, ArchiveProject
<1>2. projects[p] \in ProjectRow /\ projects[p].group \in groups
  BY <1>1 DEF TablesTyped
<1>3. PICK wanted : /\ \/ wanted = [seen.row EXCEPT !.version = 1 - @]
                       \/ wanted = [seen.row EXCEPT !.status = "archived"]
                    /\ projects' = [projects EXCEPT ![p] = Updated(projects[p], seen.row, wanted)]
                    /\ UNCHANGED <<users, members, groups>>
  BY DEF UpdateProject, ArchiveProject
<1>4. /\ wanted \in ProjectRow /\ wanted.group = seen.row.group
      /\ wanted.status = seen.row.status \/ wanted.status = "archived"
  <2>1. CASE wanted = [seen.row EXCEPT !.version = 1 - @]
    <3>1. seen.row.version \in {0, 1} /\ 1 - seen.row.version \in {0, 1}
      BY <1>1 DEF ProjectRow
    <3>. QED
      BY <1>1, <2>1, <3>1 DEF ProjectRow
  <2>2. CASE wanted = [seen.row EXCEPT !.status = "archived"]
    BY <1>1, <2>2 DEF ProjectRow
  <2>. QED
    BY <1>3, <2>1, <2>2
<1>5. PICK new : new = Updated(projects[p], seen.row, wanted)
  OBVIOUS
<1>6. /\ new \in ProjectRow /\ new.group = projects[p].group
      /\ projects[p].status = "archived" => new.status = "archived"
  BY <1>1, <1>2, <1>4, <1>5, UpdatedRows
<1>7. TablesTyped' /\ Grows(q.ask)
  BY <1>1, <1>2, <1>3, <1>5, <1>6, ProjectTables
<1>8. \A i \in DOMAIN projects : projects'[i] = IF i = p THEN new ELSE projects[i]
  BY <1>3, <1>5
<1>. QED
  BY <1>6, <1>7, <1>8

\* A project is created, in a group that exists.
LEMMA CreateProjectTables ==
  ASSUME TablesTyped, NEW q, NEW seen, Ready(q.ask, seen), CreateProject(q)
  PROVE  /\ TablesTyped' /\ Grows(q.ask)
         /\ \A i \in DOMAIN projects : projects'[i] = projects[i]
<1>1. PICK p \in ProjectIds : p \notin DOMAIN projects
                              /\ p = CHOOSE i \in ProjectIds : i \notin DOMAIN projects
  BY DEF CreateProject
<1>2. PICK row : row = [group |-> q.ask.group, status |-> "active", version |-> 0]
  OBVIOUS
<1>3. projects' = [i \in DOMAIN projects \cup {p} |-> IF i = p THEN row ELSE projects[i]]
  BY <1>1, <1>2 DEF CreateProject, Inserted
<1>4. q.ask.group \in groups /\ groups \subseteq Groups
  BY DEF CreateProject, Ready, TablesTyped
<1>5. row \in ProjectRow /\ row.group \in groups
  BY <1>2, <1>4 DEF ProjectRow
<1>6. PICK P \in SUBSET ProjectIds : projects \in [P -> ProjectRow]
  BY DEF TablesTyped
<1>7. projects' \in [P \cup {p} -> ProjectRow] /\ P \cup {p} \in SUBSET ProjectIds
  BY <1>3, <1>5, <1>6
<1>8. UNCHANGED <<users, members, groups>>
  BY DEF CreateProject
<1>9. \A i \in DOMAIN projects' : projects'[i].group \in groups'
  BY <1>3, <1>5, <1>8 DEF TablesTyped
<1>10. TablesTyped'
  BY <1>7, <1>8, <1>9 DEF TablesTyped
<1>11. DOMAIN projects' = DOMAIN projects \cup {p} /\ \A i \in DOMAIN projects : projects'[i] = projects[i]
  BY <1>1, <1>3
<1>12. Grows(q.ask)
  BY <1>8, <1>11 DEF Grows
<1>. QED
  BY <1>10, <1>11, <1>12

\* Groups and memberships.
LEMMA GroupTables ==
  ASSUME TablesTyped, NEW q, q.ask \in Asks, ~Conflicts(q.ask),
         CreateGroup(q) \/ AddMember(q) \/ RemoveMember(q) \/ ResetPassword(q)
  PROVE  TablesTyped' /\ Grows(q.ask) /\ Created(q.ask)' /\ UNCHANGED <<users, projects>>
<1>1. CASE CreateGroup(q)
  <2>1. q.ask.op = "create_group" /\ q.ask.group \in Groups
    BY <1>1, AskFields DEF CreateGroup, GroupCreations
  <2>2. groups' = groups \cup {q.ask.group} /\ UNCHANGED <<users, members, projects>>
    BY <1>1 DEF CreateGroup
  <2>3. TablesTyped'
    BY <2>1, <2>2 DEF TablesTyped
  <2>. QED
    BY <2>1, <2>2, <2>3 DEF Grows, Created, UserCreations, GroupCreations
<1>2. CASE AddMember(q)
  <2>1. /\ q.ask.op = "add_member" /\ q.ask.group \in groups /\ q.ask.user \in DOMAIN users
        /\ q.ask.group \in Groups /\ q.ask.user \in Users
    BY <1>2, AskFields DEF AddMember, Conflicts
  <2>2. members' = members \cup {<<q.ask.group, q.ask.user>>} /\ UNCHANGED <<users, groups, projects>>
    BY <1>2 DEF AddMember
  <2>3. TablesTyped'
    BY <2>1, <2>2 DEF TablesTyped, MemberRow
  <2>. QED
    BY <2>1, <2>2, <2>3 DEF Grows, Created, UserCreations, GroupCreations
<1>3. CASE RemoveMember(q)
  <2>1. TablesTyped'
    BY <1>3 DEF RemoveMember, TablesTyped
  <2>. QED
    BY <1>3, <2>1 DEF RemoveMember, Grows, Created, UserCreations, GroupCreations
<1>4. CASE ResetPassword(q)
  <2>1. TablesTyped'
    BY <1>4 DEF ResetPassword, tables, TablesTyped
  <2>. QED
    BY <1>4, <2>1 DEF ResetPassword, tables, Grows, Created, UserCreations, GroupCreations
<1>. QED
  BY <1>1, <1>2, <1>3, <1>4

\* What a committed request does to the tables.
LEMMA WrittenTables ==
  ASSUME TablesTyped, NEW q, q.ask \in Asks, NEW seen, Ready(q.ask, seen), ~Conflicts(q.ask),
         Written(q, seen)
  PROVE  /\ TablesTyped' /\ Grows(q.ask) /\ Created(q.ask)'
         /\ \A p \in DOMAIN projects : projects[p].status = "archived" => projects'[p].status = "archived"
         /\ \A u \in DOMAIN users : ~users[u].active /\ users'[u].active =>
              q.ask.op = "activate" /\ u = q.ask.user
<1>1. CASE CreateUser(q, seen)
  <2>1. TablesTyped' /\ Grows(q.ask) /\ Created(q.ask)'
    BY <1>1, CreateUserTables
  <2>2. q.ask.op \in UserCreations /\ UNCHANGED projects
    BY <1>1 DEF CreateUser
  <2>3. q.ask.user \notin DOMAIN users
    BY <2>2 DEF Conflicts, UserCreations
  <2>4. \A u \in DOMAIN users : users'[u] = users[u]
    BY <1>1, <2>3 DEF CreateUser, Inserted
  <2>. QED
    BY <2>1, <2>2, <2>4
<1>2. CASE UpdateUser(q, seen) \/ DeactivateUser(q, seen)
  <2>1. Created(q.ask)' /\ UNCHANGED projects
    BY <1>2 DEF UpdateUser, DeactivateUser, Created, UserCreations, UserUpdates, GroupCreations
  <2>. QED
    BY <1>2, <2>1, UpdateUserTables
<1>3. CASE UpdateProject(q, seen) \/ ArchiveProject(q, seen)
  <2>1. Created(q.ask)' /\ UNCHANGED users
    BY <1>3 DEF UpdateProject, ArchiveProject, Created, UserCreations, GroupCreations
  <2>. QED
    BY <1>3, <2>1, UpdateProjectTables
<1>4. CASE CreateProject(q)
  <2>1. Created(q.ask)' /\ UNCHANGED users
    BY <1>4 DEF CreateProject, Created, UserCreations, GroupCreations
  <2>. QED
    BY <1>4, <2>1, CreateProjectTables
<1>5. CASE CreateGroup(q) \/ AddMember(q) \/ RemoveMember(q) \/ ResetPassword(q)
  BY <1>5, GroupTables
<1>. QED
  BY <1>1, <1>2, <1>3, <1>4, <1>5 DEF Written

\* What another attempt relies on outlives the commit: rows do not go, and whoever has
\* flushed holds the keys and rows in question.
LEMMA OthersStayOK ==
  ASSUME NEW ask, Grows(ask), NEW r \in Requests, NEW k, Kept(r, k), AttemptOK(r, k),
         attempt[r][k].at = "flushed" => ~Locks(req[r].ask, ask)
  PROVE  AttemptOK(r, k)'
<1>. DEFINE own == req[r].ask
<1>1. Ready(own, attempt[r][k]) => Ready(own, attempt[r][k])'
  BY DEF Kept, Grows, Ready
<1>2. Created(own) => Created(own)'
  BY DEF Kept, Grows, Created
<1>3. ASSUME ~Locks(own, ask), ~Conflicts(own) PROVE ~Conflicts(own)'
  <2>1. own.op \in UserCreations /\ own.user \notin DOMAIN users => own.user \notin DOMAIN users'
    BY <1>3 DEF Grows, Locks, SameKey
  <2>2. own.op \in GroupCreations /\ own.group \notin groups => own.group \notin groups'
    BY <1>3 DEF Grows, Locks, SameKey
  <2>3. own.op = "add_member" /\ own.user \in DOMAIN users /\ <<own.group, own.user>> \notin members =>
          <<own.group, own.user>> \notin members'
    BY <1>3 DEF Grows, Locks, SameRow
  <2>. QED
    BY <1>3, <2>1, <2>2, <2>3 DEF Conflicts, Grows, Kept, UserCreations, GroupCreations
<1>. QED
  BY <1>1, <1>2, <1>3 DEF AttemptOK, Kept

\* The transaction ends.
LEMMA CommitStep ==
  ASSUME IInv, NEW r \in Requests, NEW k \in DOMAIN attempt[r], Commit(r, k)
  PROVE  IInv'
<1>1. TablesTyped /\ AttemptsTyped /\ TrafficTyped
  BY TypeParts DEF IInv
<1>2. UNCHANGED <<token, req, listening, audit, timeouts, stops>>
  BY DEF Commit
<1>3. TrafficTyped'
  BY <1>1, <1>2 DEF TrafficTyped
<1>4. \A a : attempt' = [attempt EXCEPT ![r][k] = a] => Moves(r, k, a)
  BY <1>2 DEF Moves
<1>5. ASSUME attempt' = [attempt EXCEPT ![r][k] = [Sent EXCEPT !.at = "failed"]], UNCHANGED tables
      PROVE  IInv'
  <2>1. PICK a : a = [Sent EXCEPT !.at = "failed"]
    OBVIOUS
  <2>2. a \in Attempt /\ a.at = "failed"
    BY <2>1 DEF Sent, Attempt, Ended
  <2>3. Moves(r, k, a)
    BY <1>4, <1>5, <2>1
  <2>4. /\ AttemptsTyped' /\ \A s \in Requests : RequestOK(s)'
        /\ attempt'[r][k] = a
        /\ \A s \in Requests : \A j \in DOMAIN attempt'[s] : <<s, j>> # <<r, k>> => Kept(s, j)
    BY <2>2, <2>3, OneAttempt
  <2>5. TypeOK'
    BY <1>1, <1>3, <1>5, <2>4, TypePartsNext DEF tables, TablesTyped
  <2>6. AttemptOK(r, k)'
    BY <2>2, <2>4 DEF AttemptOK
  <2>. QED
    BY <1>5, <2>2, <2>4, <2>5, <2>6, Frame
<1>6. ASSUME attempt' = [attempt EXCEPT ![r][k] = [Sent EXCEPT !.at = "ok"]],
             Written(req[r], attempt[r][k]),
             attempt[r][k].at = "flushed" \/ (attempt[r][k].at = "checked" /\ ~Conflicts(req[r].ask))
      PROVE  IInv'
  <2>. DEFINE ask == req[r].ask
  <2>1. PICK a : a = [Sent EXCEPT !.at = "ok"]
    OBVIOUS
  <2>2. a \in Attempt /\ a.at = "ok"
    BY <2>1 DEF Sent, Attempt, Ended
  <2>3. Moves(r, k, a)
    BY <1>4, <1>6, <2>1
  <2>4. /\ AttemptsTyped' /\ \A s \in Requests : RequestOK(s)'
        /\ \A s \in Requests : DOMAIN attempt'[s] = DOMAIN attempt[s]
        /\ attempt'[r][k] = a
        /\ \A s \in Requests : \A j \in DOMAIN attempt'[s] : <<s, j>> # <<r, k>> => Kept(s, j)
    BY <2>2, <2>3, OneAttempt
  <2>5. ask \in Asks
    <3>1. attempt[r] # <<>>
      BY <1>1, LenProperties, EmptySeq DEF AttemptsTyped
    <3>. QED
      BY <3>1 DEF IInv, RequestOK
  <2>6. Ready(ask, attempt[r][k]) /\ ~Conflicts(ask)
    BY <1>6 DEF IInv, AttemptOK
  <2>7. TablesTyped' /\ Grows(ask) /\ Created(ask)'
    <3>1. PICK q, seen : q = req[r] /\ seen = attempt[r][k]
      OBVIOUS
    <3>2. TablesTyped' /\ Grows(q.ask) /\ Created(q.ask)'
      BY <1>1, <1>6, <2>5, <2>6, <3>1, WrittenTables
    <3>. QED
      BY <1>2, <3>1, <3>2 DEF Created
  <2>8. TypeOK'
    BY <1>3, <2>4, <2>7, TypePartsNext
  <2>9. \A s \in Requests : \A j \in DOMAIN attempt[s] :
          <<s, j>> # <<r, k>> /\ attempt[s][j].at = "flushed" => ~Locks(req[s].ask, ask)
    <3>1. CASE attempt[r][k].at = "flushed"
      BY <3>1 DEF IInv, LocksHeld
    <3>2. CASE attempt[r][k].at = "checked"
      BY <3>2 DEF Commit, Unlocked
    <3>. QED
      BY <1>6, <3>1, <3>2
  <2>10. AttemptOK(r, k)'
    BY <1>2, <2>2, <2>4, <2>7 DEF AttemptOK, Created
  <2>11. \A s \in Requests : \A j \in DOMAIN attempt'[s] : AttemptOK(s, j)'
    <3>. SUFFICES ASSUME NEW s \in Requests, NEW j \in DOMAIN attempt'[s], <<s, j>> # <<r, k>>
                  PROVE  AttemptOK(s, j)'
      BY <2>10
    <3>1. Kept(s, j) /\ j \in DOMAIN attempt[s]
      BY <2>4
    <3>2. AttemptOK(s, j)
      BY <3>1 DEF IInv
    <3>3. attempt[s][j].at = "flushed" => ~Locks(req[s].ask, ask)
      BY <2>9, <3>1
    <3>. HIDE DEF ask
    <3>. QED
      BY <2>7, <3>1, <3>2, <3>3, OthersStayOK
  <2>12. LocksHeld'
    <3>1. \A s \in Requests : \A j \in DOMAIN attempt'[s] : attempt'[s][j].at = "flushed" => Kept(s, j)
      BY <2>2, <2>4
    <3>. QED
      BY <1>2, <3>1 DEF IInv, LocksHeld, Kept
  <2>13. CreatedOnce'
    <3>1. ASSUME NEW s \in Requests, NEW j \in DOMAIN attempt[s], attempt[s][j].at = "ok"
          PROVE  ~SameKey(req[s].ask, ask)
      <4>1. Created(req[s].ask)
        BY <3>1 DEF IInv, AttemptOK
      <4>. QED
        BY <2>6, <4>1 DEF Created, SameKey, Conflicts, UserCreations, GroupCreations
    <3>. SUFFICES ASSUME NEW s \in Requests, NEW t \in Requests,
                         NEW i \in DOMAIN attempt'[s], NEW j \in DOMAIN attempt'[t],
                         attempt'[s][i].at = "ok", attempt'[t][j].at = "ok",
                         SameKey(req[s].ask, req[t].ask)
                  PROVE  <<s, i>> = <<t, j>>
      BY <1>2 DEF CreatedOnce
    <3>2. CASE <<s, i>> # <<r, k>> /\ <<t, j>> # <<r, k>>
      BY <2>4, <3>2 DEF IInv, CreatedOnce, Kept
    <3>3. CASE <<s, i>> = <<r, k>> /\ <<t, j>> # <<r, k>>
      BY <2>4, <3>1, <3>3, LocksAreMutual DEF Kept
    <3>4. CASE <<s, i>> # <<r, k>> /\ <<t, j>> = <<r, k>>
      BY <2>4, <3>1, <3>4 DEF Kept
    <3>. QED
      BY <3>2, <3>3, <3>4
  <2>. QED
    BY <2>4, <2>8, <2>11, <2>12, <2>13 DEF IInv
<1>. QED
  BY <1>5, <1>6 DEF Commit

-----------------------------------------------------------------------------
(* The theorems. *)

\* Every step keeps the invariant.
LEMMA InvNext == IInv /\ [Next]_vars => IInv'
<1>. SUFFICES ASSUME IInv, [Next]_vars PROVE IInv'
  OBVIOUS
<1>1. ASSUME NEW r \in Requests, NEW a \in Asked, Submit(r, a[1], a[2]) \/ Refuse(r, a[1], a[2])
      PROVE  IInv'
  <2>1. a[1] \in Users /\ a[2] \in Asks
    BY AccountsAssumption
  <2>. QED
    BY <1>1, <2>1, SubmitStep, RefuseStep
<1>2. ASSUME NEW r \in Requests, Serve(r) PROVE IInv'
  BY <1>2, GatewaySteps, ReplyBeforeCommitStep, CheckStep, CommitStep DEF Serve
<1>3. ASSUME NEW r \in Requests, TimesOut(r) PROVE IInv'
  BY <1>3, GatewaySteps
<1>4. CASE \/ \E u \in SigningIn : LoginOrRefresh(u) \/ TokenExpires(u)
           \/ \E r \in Requests : StoreEvent(r)
           \/ ConsumerDies
           \/ UNCHANGED vars
  BY <1>4, BystanderSteps
<1>. QED
  BY <1>1, <1>2, <1>3, <1>4, RestartStep DEF Next

\* The inductive invariant, of every behaviour.
THEOREM Invariance == Spec => []IInv
BY InvInit, InvNext, PTL DEF Spec

\* The tables hold rows of their kinds, and no membership and no project refers to a
\* group or a user that is not there; no request has more attempts than the gateway may make.
THEOREM TypeCorrect == Spec => []TypeOK
<1>1. IInv => TypeOK
  BY DEF IInv
<1>. QED
  BY <1>1, Invariance, PTL

\* For every request and every interleaving, what the gateway's middleware let through is
\* refused by no role check of a handler, but for the grant of a higher role.
THEOREM RolesAgree == Spec => []AdmittedRoleSuffices
<1>1. IInv => AdmittedRoleSuffices
  BY DEF IInv, AttemptOK, AdmittedRoleSuffices
<1>. QED
  BY <1>1, Invariance, PTL

\* However many attempts the gateway makes and whatever the handlers read before others
\* committed, of all the attempts to create one user or one group at most one succeeds.
THEOREM CreationsHappenOnce == Spec => []CreatedOnce
<1>1. IInv => CreatedOnce
  BY DEF IInv
<1>. QED
  BY <1>1, Invariance, PTL

\* Whatever the tables hold, the endpoints' own queries agree on who sees and changes what.
THEOREM ListsAlwaysAgree == Spec => []ListsAgree
<1>1. ASSUME TypeOK PROVE ListsAgree
  <2>. SUFFICES ASSUME NEW u \in DOMAIN users
                PROVE  LET role == users[u].role IN
                       /\ \A v \in list_users(u, role) : InScope(u, role, v)
                       /\ \A g \in list_groups(u, role) :
                            /\ GroupVisible(u, role, g)
                            /\ list_members(g) \cap list_non_members(g) = {}
                            /\ \A v \in DOMAIN users :
                                 users[v].active => v \in list_members(g) \cup list_non_members(g)
                            /\ role = "project_admin" => list_members(g) \subseteq list_users(u, role)
                       /\ list_projects(u) = get_user_permissions(u).project_ids
                       /\ users[u].active /\ role # "system_admin" =>
                            \A p \in ProjectIds :
                              /\ p \in list_projects(u) <=> InProjectGroup(u, p)
                              /\ p \in list_projects(u) <=> internal_check_permission(u, p, "view")
    BY DEF ListsAgree
  <2>. DEFINE role == users[u].role
  <2>1. \A v \in list_users(u, role) : InScope(u, role, v)
    BY DEF list_users, InScope
  <2>2. ASSUME NEW g \in list_groups(u, role)
        PROVE  /\ GroupVisible(u, role, g)
               /\ list_members(g) \cap list_non_members(g) = {}
               /\ \A v \in DOMAIN users : users[v].active => v \in list_members(g) \cup list_non_members(g)
    BY DEF list_groups, GroupVisible, list_members, list_non_members
  <2>3. ASSUME NEW g \in list_groups(u, role), role = "project_admin", NEW v \in list_members(g)
        PROVE  v \in list_users(u, role)
    <3>1. g \in GroupsOf(u) /\ g \in GroupsOf(v)
      BY <2>3, <1>1 DEF list_groups, list_members, GroupsOf
    <3>. QED
      BY <3>1, <2>3 DEF list_users, list_members, Shared
  <2>4. list_projects(u) = get_user_permissions(u).project_ids
    BY DEF list_projects, get_user_permissions
  <2>5. ASSUME users[u].active, role # "system_admin", NEW p \in ProjectIds
        PROVE  /\ p \in list_projects(u) <=> InProjectGroup(u, p)
               /\ p \in list_projects(u) <=> internal_check_permission(u, p, "view")
    <3>1. p \in list_projects(u) <=> InProjectGroup(u, p)
      BY DEF list_projects, InProjectGroup
    <3>2. p \in DOMAIN projects => projects[p].group \in groups
      BY <1>1 DEF TypeOK
    <3>3. p \in list_projects(u) <=> p \in DOMAIN projects /\ <<projects[p].group, u>> \in members
      BY <3>2 DEF list_projects, GroupsOf
    <3>. QED
      BY <2>5, <3>1, <3>3 DEF internal_check_permission
  <2>. QED
    BY <2>1, <2>2, <2>3, <2>4, <2>5
<1>2. IInv => TypeOK
  BY DEF IInv
<1>. QED
  BY <1>1, <1>2, Invariance, PTL

\* No commit undoes another's change: what an update read before, it writes back only in
\* the columns that it means to change.
THEOREM UpdatesAreKept == Spec => NoLostUpdates
<1>. DEFINE NothingUndone ==
       /\ \A p \in DOMAIN projects : projects[p].status = "archived" => projects'[p].status = "archived"
       /\ \A u \in DOMAIN users : ~users[u].active /\ users'[u].active =>
            \E r \in Requests : /\ req[r].ask.op = "activate" /\ req[r].ask.user = u
                                /\ attempt'[r] # attempt[r]
<1>1. IInv /\ [Next]_vars => NothingUndone
  <2>. SUFFICES ASSUME IInv, [Next]_vars PROVE NothingUndone
    OBVIOUS
  <2>1. CASE UNCHANGED tables
    BY <2>1 DEF tables
  <2>2. ASSUME NEW r \in Requests, NEW k \in DOMAIN attempt[r], Commit(r, k), ~UNCHANGED tables
        PROVE  NothingUndone
    <3>1. TablesTyped /\ AttemptsTyped /\ attempt[r] # <<>>
      BY TypeParts, LenProperties, EmptySeq DEF IInv, AttemptsTyped
    <3>2. /\ attempt[r][k].at = "flushed" \/ (attempt[r][k].at = "checked" /\ ~Conflicts(req[r].ask))
          /\ attempt' = [attempt EXCEPT ![r][k] = [Sent EXCEPT !.at = "ok"]]
          /\ Written(req[r], attempt[r][k])
      BY <2>2 DEF Commit
    <3>3. req[r].ask \in Asks
      BY <3>1 DEF IInv, RequestOK
    <3>4. Ready(req[r].ask, attempt[r][k]) /\ ~Conflicts(req[r].ask)
      BY <3>2 DEF IInv, AttemptOK
    <3>5. /\ \A p \in DOMAIN projects : projects[p].status = "archived" => projects'[p].status = "archived"
          /\ \A u \in DOMAIN users : ~users[u].active /\ users'[u].active =>
               req[r].ask.op = "activate" /\ u = req[r].ask.user
      BY <3>1, <3>2, <3>3, <3>4, WrittenTables
    <3>6. attempt'[r] # attempt[r]
      <4>1. PICK a : a = [Sent EXCEPT !.at = "ok"]
        OBVIOUS
      <4>2. a \in Attempt /\ a.at = "ok"
        BY <4>1 DEF Sent, Attempt, Ended
      <4>3. attempt'[r][k] = a
        <5>1. attempt'[r] = [attempt[r] EXCEPT ![k] = a]
          BY <3>1, <3>2, <4>1 DEF AttemptsTyped
        <5>. QED
          BY <5>1
      <4>. QED
        BY <3>2, <4>2, <4>3
    <3>. QED
      BY <3>5, <3>6
  <2>3. UNCHANGED tables \/ \E r \in Requests : \E k \in DOMAIN attempt[r] : Commit(r, k)
    BY DEF Next, Serve, vars, tables, LoginOrRefresh, TokenExpires, Submit, Refuse, Reply, ReplyBeforeCommit,
           ConnectionFails, Check, TimesOut, StoreEvent, UserServiceRestarts, ConsumerDies
  <2>. QED
    BY <2>1, <2>2, <2>3
<1>2. Spec => [][NothingUndone]_vars
  BY <1>1, Invariance, PTL DEF Spec
<1>. QED
  BY <1>2 DEF NoLostUpdates

-----------------------------------------------------------------------------
(* The trail of events.                                                    *)
(*                                                                         *)
(* An attempt is dead, and a consumer not listening, only after a stop.    *)
(* What is left of RequestsAreAudited is that answers and events are       *)
(* handled.                                                                *)

EventKept(r) ==
  /\ req[r].at = "answered" <=> audit[r] # "none"
  /\ audit[r] = "published" => listening
  /\ audit[r] = "lost" => stops > 0
  /\ \A k \in DOMAIN attempt[r] : attempt[r][k].at = "dead" => stops > 0

EventsKept == (~listening => stops > 0) /\ \A r \in Requests : EventKept(r)

\* A step that stops nothing, and answers only with an event.
LEMMA EventsFrame ==
  ASSUME EventsKept, UNCHANGED <<listening, stops>>,
         \A r \in Requests : \A k \in DOMAIN attempt'[r] : attempt'[r][k].at = "dead" => stops > 0,
         \A r \in Requests :
           \/ (req'[r].at = "answered" <=> req[r].at = "answered") /\ audit'[r] = audit[r]
           \/ /\ req'[r].at = "answered"
              /\ \/ audit'[r] = "published" /\ listening
                 \/ audit'[r] = "lost" /\ stops > 0
                 \/ audit'[r] = "stored"
  PROVE  EventsKept'
BY DEF EventsKept, EventKept

\* What is dead in the next state was in this one.
LEMMA NobodyDies ==
  ASSUME EventsKept,
         \A r \in Requests : \A k \in DOMAIN attempt'[r] :
           attempt'[r][k].at = "dead" => k \in DOMAIN attempt[r] /\ attempt[r][k] = attempt'[r][k]
  PROVE  \A r \in Requests : \A k \in DOMAIN attempt'[r] : attempt'[r][k].at = "dead" => stops > 0
BY DEF EventsKept, EventKept

\* One attempt moves on, and does not die.
LEMMA LivingAttempt ==
  ASSUME IInv, EventsKept, NEW r \in Requests, NEW k \in DOMAIN attempt[r],
         NEW a \in Attempt, a.at # "dead", Moves(r, k, a)
  PROVE  \A s \in Requests : \A j \in DOMAIN attempt'[s] : attempt'[s][j].at = "dead" => stops > 0
<1>1. /\ \A s \in Requests : DOMAIN attempt'[s] = DOMAIN attempt[s]
      /\ attempt'[r][k] = a
      /\ \A s \in Requests : \A j \in DOMAIN attempt'[s] : <<s, j>> # <<r, k>> => Kept(s, j)
  BY OneAttempt
<1>2. \A s \in Requests : \A j \in DOMAIN attempt'[s] :
        attempt'[s][j].at = "dead" => j \in DOMAIN attempt[s] /\ attempt[s][j] = attempt'[s][j]
  BY <1>1 DEF Kept
<1>. QED
  BY <1>2, NobodyDies

\* What the gateway makes of a request that it answers.
AnsweredWith(r, answer) == req' = [req EXCEPT ![r].at = "answered", ![r].answer = answer]

\* The gateway has answered: the request keeps who asked for what, and everybody else's
\* are as they were.
LEMMA AnsweredAsk ==
  ASSUME TrafficTyped, NEW r \in Requests, NEW answer \in Ended \cup {"unavailable"},
         AnsweredWith(r, answer)
  PROVE  \A s \in Requests :
           /\ req'[s].at = IF s = r THEN "answered" ELSE req[s].at
           /\ req'[s].by = req[s].by /\ req'[s].role = req[s].role /\ req'[s].ask = req[s].ask
<1>. DEFINE new == [req[r] EXCEPT !.at = "answered", !.answer = answer]
<1>1. new.at = "answered" /\ new.by = req[r].by /\ new.role = req[r].role /\ new.ask = req[r].ask
  <2>1. req[r] \in Request
    BY DEF TrafficTyped
  <2>. QED
    BY <2>1, AnsweredRequest
<1>. HIDE DEF new
<1>2. \A s \in Requests : req'[s] = IF s = r THEN new ELSE req[s]
  BY DEF TrafficTyped, AnsweredWith, new
<1>. QED
  BY <1>1, <1>2

\* The same of its event.
LEMMA AnsweredEvent ==
  ASSUME TrafficTyped, NEW r \in Requests, NEW answer \in Ended \cup {"unavailable"},
         NEW event \in {"published", "stored", "lost"},
         AnsweredWith(r, answer), audit' = [audit EXCEPT ![r] = event]
  PROVE  \A s \in Requests : IF s = r THEN req'[s].at = "answered" /\ audit'[s] = event
                             ELSE req'[s].at = req[s].at /\ audit'[s] = audit[s]
<1>1. \A s \in Requests : req'[s].at = IF s = r THEN "answered" ELSE req[s].at
  BY AnsweredAsk
<1>. QED
  BY <1>1 DEF TrafficTyped

\* Requests arrive and are let through or refused.
LEMMA ArrivalEvents ==
  ASSUME IInv, EventsKept, NEW r \in Requests, NEW u \in Users, NEW ask \in Asks,
         Submit(r, u, ask) \/ Refuse(r, u, ask)
  PROVE  EventsKept'
<1>1. AttemptsTyped /\ TrafficTyped
  BY TypeParts DEF IInv
<1>2. CASE Submit(r, u, ask)
  <2>1. \A s \in Requests : attempt'[s] = IF s = r THEN <<Sent>> ELSE attempt[s]
    BY <1>1, <1>2 DEF Submit, AttemptsTyped
  <2>2. \A k \in DOMAIN <<Sent>> : <<Sent>>[k].at # "dead"
    <3>1. Sent.at # "dead" /\ <<Sent>> \in Seq({Sent})
      BY DEF Sent
    <3>. QED
      BY <3>1, LenProperties, ElementOfSeq
  <2>3. \A s \in Requests : \A k \in DOMAIN attempt'[s] :
          attempt'[s][k].at = "dead" => k \in DOMAIN attempt[s] /\ attempt[s][k] = attempt'[s][k]
    BY <2>1, <2>2
  <2>4. \A s \in Requests : req'[s].at = "answered" <=> req[s].at = "answered"
    <3>1. PICK new : new = [NoRequest EXCEPT !.at = "forwarded", !.by = u, !.role = token[u], !.ask = ask]
      OBVIOUS
    <3>2. new.at = "forwarded"
      BY <3>1 DEF NoRequest
    <3>3. \A s \in Requests : req'[s] = IF s = r THEN new ELSE req[s]
      BY <1>1, <1>2, <3>1 DEF Submit, TrafficTyped
    <3>4. req[r].at = "idle"
      BY <1>2 DEF Submit, IsNext
    <3>. QED
      BY <3>2, <3>3, <3>4
  <2>5. UNCHANGED <<listening, stops, audit>>
    BY <1>2 DEF Submit
  <2>6. \A s \in Requests : \A k \in DOMAIN attempt'[s] : attempt'[s][k].at = "dead" => stops > 0
    BY <2>3, NobodyDies
  <2>. QED
    BY <2>4, <2>5, <2>6, EventsFrame
<1>3. CASE Refuse(r, u, ask)
  <2>1. PICK new : /\ new = [NoRequest EXCEPT !.at = "answered", !.by = u, !.role = token[u],
                                               !.ask = ask, !.answer = "forbidden"]
    OBVIOUS
  <2>2. new.at = "answered"
    BY <2>1 DEF NoRequest
  <2>3. \A s \in Requests :
          IF s = r THEN /\ req'[s].at = "answered"
                        /\ audit'[s] = IF listening THEN "published" ELSE "lost"
          ELSE req'[s] = req[s] /\ audit'[s] = audit[s]
    BY <1>1, <1>3, <2>1, <2>2 DEF Refuse, TrafficTyped
  <2>4. UNCHANGED <<attempt, listening, stops>>
    BY <1>3 DEF Refuse
  <2>5. ~listening => stops > 0
    BY DEF EventsKept
  <2>6. \A s \in Requests : \A k \in DOMAIN attempt'[s] : attempt'[s][k].at = "dead" => stops > 0
    BY <2>4, NobodyDies
  <2>. QED
    BY <2>3, <2>4, <2>5, <2>6, EventsFrame
<1>. QED
  BY <1>2, <1>3

\* The gateway answers, tries again or gives up: without an event only when the service
\* stopped.
LEMMA GatewayEvents ==
  ASSUME IInv, EventsKept, NEW r \in Requests, Reply(r) \/ TimesOut(r) \/ ConnectionFails(r)
  PROVE  EventsKept'
<1>1. AttemptsTyped /\ TrafficTyped
  BY TypeParts DEF IInv
<1>2. UNCHANGED <<listening, stops>> /\ (~listening => stops > 0)
  BY DEF Reply, TimesOut, ConnectionFails, EventsKept
<1>3. ASSUME NEW answer \in Ended \cup {"unavailable"}, UNCHANGED attempt, Answered(r, answer)
      PROVE  EventsKept'
  <2>1. PICK event \in {"published", "lost"} :
          audit' = [audit EXCEPT ![r] = event] /\ event = IF listening THEN "published" ELSE "lost"
    BY <1>3 DEF Answered
  <2>2. \A s \in Requests : IF s = r THEN req'[s].at = "answered" /\ audit'[s] = event
                            ELSE req'[s].at = req[s].at /\ audit'[s] = audit[s]
    <3>1. AnsweredWith(r, answer)
      BY <1>3 DEF Answered, AnsweredWith
    <3>2. audit' = [audit EXCEPT ![r] = event]
      BY <2>1
    <3>3. answer \in Ended \cup {"unavailable"} /\ event \in {"published", "stored", "lost"}
      BY <1>3
    <3>. QED
      BY <1>1, <3>1, <3>2, <3>3, AnsweredEvent
  <2>3. \A s \in Requests : \A k \in DOMAIN attempt'[s] : attempt'[s][k].at = "dead" => stops > 0
    BY <1>3, NobodyDies
  <2>. QED
    BY <1>2, <2>1, <2>2, <2>3, EventsFrame
<1>4. ASSUME Retries(r), attempt' = [attempt EXCEPT ![r] = Append(@, Sent)], UNCHANGED <<req, audit>>
      PROVE  EventsKept'
  <2>1. \A s \in Requests : \A j \in DOMAIN attempt'[s] :
          attempt'[s][j] = Sent \/ (j \in DOMAIN attempt[s] /\ attempt'[s][j] = attempt[s][j])
    BY <1>1, <1>4, AttemptBegins DEF Retries
  <2>2. Sent.at # "dead"
    BY DEF Sent
  <2>3. \A s \in Requests : \A k \in DOMAIN attempt'[s] :
          attempt'[s][k].at = "dead" => k \in DOMAIN attempt[s] /\ attempt[s][k] = attempt'[s][k]
    BY <2>1, <2>2
  <2>4. \A s \in Requests : \A k \in DOMAIN attempt'[s] : attempt'[s][k].at = "dead" => stops > 0
    BY <2>3, NobodyDies
  <2>. QED
    BY <1>2, <1>4, <2>4, EventsFrame
<1>5. CASE Reply(r)
  BY <1>3, <1>5 DEF Reply
<1>6. CASE GiveUp(r)
  BY <1>3, <1>4, <1>6 DEF GiveUp
<1>7. CASE ConnectionFails(r) /\ Unhandled(r)
  <2>1. stops > 0
    <3>1. attempt[r] \in Seq(Attempt) /\ attempt[r] # <<>> /\ attempt[r][Len(attempt[r])].at = "dead"
      BY <1>1, <1>7 DEF AttemptsTyped, IInv, RequestOK, ConnectionFails, Last
    <3>2. Len(attempt[r]) \in DOMAIN attempt[r]
      BY <3>1, LenProperties, EmptySeq
    <3>. QED
      BY <3>1, <3>2 DEF EventsKept, EventKept
  <2>2. \A s \in Requests : IF s = r THEN req'[s].at = "answered" /\ audit'[s] = "lost"
                            ELSE req'[s].at = req[s].at /\ audit'[s] = audit[s]
    BY <1>1, <1>7, AnsweredEvent DEF Unhandled, AnsweredWith
  <2>3. \A s \in Requests : \A k \in DOMAIN attempt'[s] : attempt'[s][k].at = "dead" => stops > 0
    BY <1>7, NobodyDies DEF Unhandled
  <2>. QED
    BY <1>2, <2>1, <2>2, <2>3, EventsFrame
<1>. QED
  BY <1>5, <1>6, <1>7 DEF TimesOut, ConnectionFails

\* The handler reads, flushes and commits.
LEMMA ServiceEvents ==
  ASSUME IInv, EventsKept, NEW r \in Requests,
         ReplyBeforeCommit(r) \/ \E k \in DOMAIN attempt[r] : Check(r, k) \/ Commit(r, k)
  PROVE  EventsKept'
<1>1. AttemptsTyped /\ TrafficTyped
  BY TypeParts DEF IInv
<1>2. attempt[r] \in Seq(Attempt) /\ \A k \in DOMAIN attempt[r] : attempt[r][k] \in Attempt
  BY <1>1, LenProperties, ElementOfSeq DEF AttemptsTyped
<1>3. \A s \in Requests : req'[s] = req[s] /\ audit'[s] = audit[s] => req'[s].at = req[s].at
  OBVIOUS
<1>4. ASSUME NEW k \in DOMAIN attempt[r], Check(r, k) \/ Commit(r, k)
      PROVE  EventsKept'
  <2>1. UNCHANGED <<req, audit, listening, stops>>
    BY <1>4 DEF Check, Commit
  <2>2. PICK a \in Attempt : a.at # "dead" /\ attempt' = [attempt EXCEPT ![r][k] = a]
    <3>1. ASSUME NEW b, NEW at \in Ended, b = [Sent EXCEPT !.at = at] \/ b = [attempt[r][k] EXCEPT !.at = at]
          PROVE  b \in Attempt /\ b.at # "dead"
      BY <1>2, <3>1 DEF Sent, Attempt, Ended
    <3>2. CASE Commit(r, k)
      <4>1. "ok" \in Ended /\ "failed" \in Ended
        BY DEF Ended
      <4>2. PICK b : /\ b = [Sent EXCEPT !.at = "ok"] \/ b = [Sent EXCEPT !.at = "failed"]
                     /\ attempt' = [attempt EXCEPT ![r][k] = b]
        BY <3>2 DEF Commit
      <4>. QED
        BY <3>1, <4>1, <4>2
    <3>3. CASE Check(r, k)
      <4>1. PICK b : /\ attempt' = [attempt EXCEPT ![r][k] = b]
                     /\ \/ \E at \in {"forbidden", "refused", "failed"} : b = [attempt[r][k] EXCEPT !.at = at]
                        \/ /\ b = [attempt[r][k] EXCEPT !.at = "checked", !.groups = GroupsOf(req[r].by),
                                                        !.row = RowOf(req[r].ask)]
                           /\ May(req[r].by, req[r].role, req[r].ask)
        BY <3>3 DEF Check
      <4>2. CASE \E at \in {"forbidden", "refused", "failed"} : b = [attempt[r][k] EXCEPT !.at = at]
        <5>1. {"forbidden", "refused", "failed"} \subseteq Ended
          BY DEF Ended
        <5>. QED
          BY <3>1, <4>1, <4>2, <5>1
      <4>3. CASE /\ b = [attempt[r][k] EXCEPT !.at = "checked", !.groups = GroupsOf(req[r].by),
                                               !.row = RowOf(req[r].ask)]
                 /\ May(req[r].by, req[r].role, req[r].ask)
        <5>1. GroupsOf(req[r].by) \in SUBSET Groups
          BY TypeParts DEF IInv, TablesTyped, GroupsOf
        <5>2. RowOf(req[r].ask) \in UserRow \cup ProjectRow \cup {Nobody}
          BY TypeParts DEF IInv, TablesTyped, RowOf
        <5>3. b \in Attempt /\ b.at = "checked"
          BY <1>2, <4>3, <5>1, <5>2 DEF Attempt, Ended
        <5>. QED
          BY <4>1, <5>3
      <4>. QED
        BY <4>1, <4>2, <4>3
    <3>. QED
      BY <1>4, <3>2, <3>3
  <2>3. Moves(r, k, a)
    BY <2>1, <2>2 DEF Moves
  <2>4. \A s \in Requests : \A j \in DOMAIN attempt'[s] : attempt'[s][j].at = "dead" => stops > 0
    BY <2>2, <2>3, LivingAttempt
  <2>. QED
    BY <2>1, <2>4, EventsFrame
<1>5. CASE ReplyBeforeCommit(r)
  <2>1. PICK k \in DOMAIN attempt[r] : k = Len(attempt[r])
    <3>1. attempt[r] # <<>>
      BY <1>5 DEF IInv, RequestOK, ReplyBeforeCommit
    <3>. QED
      BY <1>2, <3>1, LenProperties, EmptySeq
  <2>2. PICK a : a = [attempt[r][k] EXCEPT !.at = "flushed"]
    OBVIOUS
  <2>3. a \in Attempt /\ a.at # "dead"
    BY <1>2, <2>2 DEF Attempt
  <2>4. attempt' = [attempt EXCEPT ![r][k] = a] /\ UNCHANGED <<listening, stops>> /\ Answered(r, "ok")
    BY <1>5, <2>1, <2>2 DEF ReplyBeforeCommit
  <2>5. PICK event \in {"published", "lost"} :
          audit' = [audit EXCEPT ![r] = event] /\ event = IF listening THEN "published" ELSE "lost"
    BY <2>4 DEF Answered
  <2>6. \A s \in Requests : IF s = r THEN req'[s].at = "answered" /\ audit'[s] = event
                            ELSE req'[s].at = req[s].at /\ audit'[s] = audit[s]
    <3>1. "ok" \in Ended
      BY DEF Ended
    <3>. QED
      BY <1>1, <2>4, <2>5, <3>1, AnsweredEvent DEF Answered, AnsweredWith
  <2>7. \A s \in Requests : \A j \in DOMAIN attempt'[s] : attempt'[s][j].at = "dead" => stops > 0
    <3>1. "ok" \in Ended
      BY DEF Ended
    <3>2. \A s \in Requests :
            /\ req'[s].at = IF s = r THEN "answered" ELSE req[s].at
            /\ req'[s].by = req[s].by /\ req'[s].role = req[s].role /\ req'[s].ask = req[s].ask
      BY <1>1, <2>4, <3>1, AnsweredAsk DEF Answered, AnsweredWith
    <3>3. Moves(r, k, a)
      BY <2>4, <3>2 DEF Moves
    <3>. QED
      BY <2>3, <3>3, LivingAttempt
  <2>8. ~listening => stops > 0
    BY DEF EventsKept
  <2>. QED
    BY <2>4, <2>5, <2>6, <2>7, <2>8, EventsFrame
<1>. QED
  BY <1>4, <1>5

\* The service and the consumer stop.
LEMMA StopEvents ==
  ASSUME IInv, EventsKept, UserServiceRestarts \/ ConsumerDies
  PROVE  EventsKept'
<1>1. TrafficTyped
  BY TypeParts DEF IInv
<1>2. stops' > 0
  <2>1. stops \in Nat /\ stops' = stops + 1
    BY <1>1, AccountsAssumption DEF TrafficTyped, UserServiceRestarts, ConsumerDies
  <2>. QED
    BY <2>1
<1>3. \A r \in Requests : audit'[r] = IF audit[r] = "published" THEN "lost" ELSE audit[r]
  BY DEF UserServiceRestarts, ConsumerDies
<1>4. UNCHANGED req
  BY DEF UserServiceRestarts, ConsumerDies
<1>. QED
  BY <1>2, <1>3, <1>4 DEF EventsKept, EventKept

\* Every request has an event once it is answered, and not before.  An event that is on
\* its way has a consumer; it is lost, and an attempt dies, only after something stopped.
THEOREM EventsAreKept == Spec => []EventsKept
<1>1. Init => EventsKept
  <2>. SUFFICES ASSUME Init PROVE EventsKept
    OBVIOUS
  <2>1. NoRequest.at = "idle"
    BY DEF NoRequest
  <2>2. \A r \in Requests : DOMAIN attempt[r] = {}
    BY DEF Init
  <2>. QED
    BY <2>1, <2>2 DEF Init, EventsKept, EventKept
<1>2. IInv /\ EventsKept /\ [Next]_vars => EventsKept'
  <2>. SUFFICES ASSUME IInv, EventsKept, [Next]_vars PROVE EventsKept'
    OBVIOUS
  <2>1. ASSUME NEW r \in Requests, NEW a \in Asked, Submit(r, a[1], a[2]) \/ Refuse(r, a[1], a[2])
        PROVE  EventsKept'
    <3>1. a[1] \in Users /\ a[2] \in Asks
      BY AccountsAssumption
    <3>. QED
      BY <2>1, <3>1, ArrivalEvents
  <2>2. ASSUME NEW r \in Requests, Serve(r) \/ TimesOut(r) PROVE EventsKept'
    BY <2>2, GatewayEvents, ServiceEvents DEF Serve
  <2>3. CASE UNCHANGED <<req, attempt, listening, audit, stops>>
    BY <2>3 DEF EventsKept, EventKept
  <2>4. ASSUME NEW r \in Requests, StoreEvent(r)
        PROVE  EventsKept'
    <3>1. /\ UNCHANGED <<req, attempt, listening, stops>> /\ audit[r] = "published"
          /\ audit' = [audit EXCEPT ![r] = "stored"]
      BY <2>4 DEF StoreEvent
    <3>2. \A s \in Requests : audit'[s] = IF s = r THEN "stored" ELSE audit[s]
      BY <3>1, TypeParts DEF IInv, TrafficTyped
    <3>. QED
      BY <3>1, <3>2 DEF EventsKept, EventKept
  <2>. QED
    BY <2>1, <2>2, <2>3, <2>4, StopEvents DEF Next, vars, LoginOrRefresh, TokenExpires
<1>. QED
  BY <1>1, <1>2, Invariance, PTL DEF Spec

=============================================================================
