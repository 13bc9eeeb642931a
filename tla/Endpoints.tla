------------------------------ MODULE Endpoints ------------------------------
(***************************************************************************)
(* What the gateway decides from the method and the path of a request      *)
(* alone: the operation it requires, the roles that may perform it, and    *)
(* the service it goes to.                                                 *)
(*                                                                         *)
(* A path is the sequence of its segments; ids stand as "id".  The code    *)
(* tests for "/groups" and the like anywhere in the path, which is to have *)
(* the segment for the paths the services define.                          *)
(*                                                                         *)
(* DeletesAsUpdates is a mutated form of the definition after it, which no *)
(* specification uses.                                                     *)
(***************************************************************************)
EXTENDS Sequences, SequencesExt

Has(path, segment) == segment \in ToSet(path)
Under(path, prefix) == IsPrefix(prefix, path)

Admin == <<"api", "admin">>
Projects == <<"api", "projects">>

-----------------------------------------------------------------------------
(* Roles and operations. *)

Roles == {"analyst", "senior_researcher", "project_admin", "system_admin"}

AnalystOps == {"view_content", "upload_document", "create_task", "manage_task", "export_output"}
ResearcherOps ==
  AnalystOps \cup {"create_project", "manage_project", "manage_document", "review_output",
                   "approve_output"}
ProjectAdminOps ==
  ResearcherOps \cup {"manage_members", "manage_users", "create_group", "manage_group",
                      "cross_group_auth", "view_group_audit"}
SystemAdminOps == ProjectAdminOps \cup {"deactivate_user", "view_all_audit"}

PERMISSION_MATRIX ==
  [role \in Roles |-> CASE role = "analyst" -> AnalystOps
                        [] role = "senior_researcher" -> ResearcherOps
                        [] role = "project_admin" -> ProjectAdminOps
                        [] role = "system_admin" -> SystemAdminOps]

\* The middleware names no group of the resource, so that the scope does not matter.
check_permission(role, operation) == operation \in PERMISSION_MATRIX[role]

GroupOperation(method, path) ==
  CASE method = "POST" /\ Has(path, "share") -> "cross_group_auth"
    [] method = "POST" /\ Has(path, "members") -> "manage_members"
    [] method = "POST" -> "create_group"
    [] method \in {"PUT", "DELETE"} -> "manage_group"
    [] OTHER -> "manage_members"

DeletesAsUpdates(method) == "manage_users"
UserOperation(method) == IF method = "DELETE" THEN "deactivate_user" ELSE "manage_users"

AdminOperation(method, path) ==
  CASE Under(path, Admin \o <<"audit-logs">>) -> "view_all_audit"
    [] Has(path, "groups") -> GroupOperation(method, path)
    [] Has(path, "users") -> UserOperation(method)
    [] OTHER -> "manage_users"

TaskOperation(method, path) ==
  CASE method = "POST" /\ (Has(path, "cancel") \/ Has(path, "retry")) -> "manage_task"
    [] method = "POST" -> "create_task"
    [] method # "POST" /\ Has(path, "export") -> "export_output"
    [] OTHER -> "view_content"

DocumentOperation(method, path) ==
  CASE method = "DELETE" \/ Has(path, "reindex") -> "manage_document"
    [] method = "POST" -> "upload_document"
    [] OTHER -> "view_content"

ProjectOperation(method, path) ==
  CASE method = "POST" /\ Has(path, "search") -> "view_content"
    [] method = "POST" -> "create_project"
    [] method \in {"PUT", "DELETE"} -> "manage_project"
    [] OTHER -> "view_content"

\* In the order in which the code looks; the first that fits decides.
get_required_operation(method, path) ==
  IF Under(path, <<"api", "auth">>) \/ path = <<"health">> THEN "none"
  ELSE IF Under(path, Admin) THEN AdminOperation(method, path)
  ELSE IF Has(path, "output") /\ Has(path, "review") THEN "review_output"
  ELSE IF Has(path, "output") /\ Has(path, "approve") THEN "approve_output"
  ELSE IF Has(path, "tasks") THEN TaskOperation(method, path)
  ELSE IF Has(path, "documents") THEN DocumentOperation(method, path)
  ELSE IF Under(path, Projects) THEN ProjectOperation(method, path)
  ELSE "view_content"

Admits(role, method, path) ==
  LET operation == get_required_operation(method, path)
      effective == IF Under(path, Admin \o <<"audit-logs">>) /\ role # "system_admin"
                   THEN "view_group_audit" ELSE operation
  IN operation = "none" \/ check_permission(role, effective)

-----------------------------------------------------------------------------
(* Routing. *)

InProject(path, segment) == Under(path, Projects) /\ Len(path) >= 4 /\ path[4] = segment

resolve(path) ==
  CASE InProject(path, "documents") -> "document-service"
    [] InProject(path, "search") /\ Len(path) = 4 -> "kb-service"
    [] InProject(path, "tasks") -> "orchestration-service"
    [] Under(path, <<"api", "institutional", "search">>) -> "kb-service"
    [] Under(path, <<"api", "tasks">>) /\ Len(path) = 4 /\ path[4] = "export" -> "output-service"
    [] Under(path, <<"api", "tasks">>) /\ Len(path) >= 3
         /\ ~(Len(path) = 4 /\ path[4] = "export") -> "orchestration-service"
    [] Under(path, <<"api", "auth">>) \/ Under(path, Admin) -> "user-service"
    [] Under(path, Projects)
         /\ ~InProject(path, "documents") /\ ~InProject(path, "tasks")
         /\ ~(InProject(path, "search") /\ Len(path) = 4) -> "user-service"
    [] OTHER -> "none"

=============================================================================
