------------------------------ MODULE ListPage ------------------------------
(***************************************************************************)
(* A page of the web client that shows a list: tasks, documents, projects, *)
(* users, groups or the audit trail.  All are built on useRequest with the *)
(* page number among its refreshDeps, and their buttons make a change on   *)
(* the server and then load the list again.                                *)
(*                                                                         *)
(* A list is the set of changes that its answer contains, those of this    *)
(* page and those of others.  The answers to the loads come in any order.  *)
(* The user service commits a change after it has answered (its get_db),   *)
(* the others before.  A document is processed in the background when it   *)
(* has been uploaded or is indexed anew, and the page polls only the latter.*)
(* The dialogs, the member panel and the search box are left out.          *)
(***************************************************************************)
EXTENDS Naturals, Sequences, SequencesExt

CONSTANTS
  Kinds,        \* the kinds of pages
  PageNumbers,  \* pages of the list, and sizes of a page
  Filters,
  MaxActions,   \* bound: what the user does
  MaxChanges,   \* bound: changes to the list, by this page and by others
  MaxPolls,     \* the polls of pollUntilReady, 30 in the code
  MaxFailures   \* bound: calls that fail on the way

ASSUME ListPageAssumption ==
  1 \in PageNumbers /\ "all" \in Filters /\ MaxPolls \in Nat \ {0}

VARIABLES
  kind,
  page, filter,    \* what the user has chosen
  loads,           \* the loads, in the order of useRequest's counter
  loading, failed, \* useRequest's loading and error
  data,            \* useRequest's data: the page it is of and the list
  rows,            \* the changes that the server's list shows
  calls,           \* change -> the page's call that makes it, if it is one of this page
  told,            \* the changes the page has been told of
  actions, failures

listsVars == <<kind, page, filter, loads, loading, failed, data, rows, calls, told, actions, failures>>
requestVars == <<loads, loading, failed, data>>

Changes == 1 .. MaxChanges

\* A change is visible when it is made; the processing of a document ends later.
Made(c) == <<c, "made">>
Processed(c) == <<c, "processed">>

-----------------------------------------------------------------------------
(* The pages and their buttons, each with what it does after a success. *)

TaskList == [create |-> "refresh", cancel |-> "refresh", retry |-> "refresh"]

KnowledgeBase == [upload |-> "refresh", delete |-> "refresh", reindex |-> "refresh and poll"]

ProjectList == [create |-> "refresh", archive |-> "refresh"]

UserManagement ==
  [create |-> "refresh", edit |-> "refresh", resetPassword |-> "refresh", disable |-> "refresh"]

GroupManagement ==
  [create |-> "refresh", addMember |-> "members and refresh", removeMember |-> "members and refresh"]

AuditLogs == [none |-> "none"]

Tails(k) ==
  CASE k = "tasks" -> Range(TaskList)
    [] k = "documents" -> Range(KnowledgeBase)
    [] k = "projects" -> Range(ProjectList)
    [] k = "users" -> Range(UserManagement)
    [] k = "groups" -> Range(GroupManagement)
    [] k = "logs" -> Range(AuditLogs) \ {"none"}

CommitsFirst(k) == k \in {"tasks", "documents"}

HasFilter(k) == k \notin {"users", "groups"}

-----------------------------------------------------------------------------
(* Types. *)

\* What an answer holds, what becomes of a load and of a call of the page.
Answer == [page : PageNumbers \cup {0}, filter : Filters \cup {"none"},
           rows : SUBSET (Changes \X {"made", "processed"})]
Load == [at : {"asked", "answered", "over"}, answer : Answer]
TailOfAKind == UNION {Tails(k) : k \in Kinds}
Call == [at : {"none", "asked", "refused", "done", "members", "waiting", "over", "failed"},
         tail : TailOfAKind \cup {"none"}, polls : Nat]

ListsTypeOK ==
  /\ kind \in Kinds /\ page \in PageNumbers /\ filter \in Filters
  /\ loads \in Seq(Load) /\ loading \in BOOLEAN /\ failed \in BOOLEAN /\ data \in Answer
  /\ rows \subseteq Changes \X {"made", "processed"} /\ told \subseteq Changes \X {"made", "processed"}
  /\ calls \in [Changes -> Call]
  /\ actions \in Nat /\ failures \in Nat

-----------------------------------------------------------------------------
(* useRequest. *)

NoAnswer == [page |-> 0, filter |-> "none", rows |-> {}]

\* A load, numbered by its place; what it asks for is what is chosen when it is made.
Asking(p, f) == [at |-> "asked", answer |-> [page |-> p, filter |-> f, rows |-> {}]]
Over == [at |-> "over", answer |-> NoAnswer]

RunRequest(p, f) ==
  /\ loads' = Append(loads, Asking(p, f))
  /\ loading' = TRUE /\ failed' = FALSE
  /\ UNCHANGED data

AnswerLoad(i) ==
  /\ loads[i].at = "asked"
  /\ loads' = [loads EXCEPT ![i].at = "answered", ![i].answer.rows = rows]
  /\ UNCHANGED <<kind, page, filter, loading, failed, data, rows, calls, told, actions, failures>>

ApplyAnyLoad(i) ==
  /\ loads[i].at = "answered"
  /\ loads' = [loads EXCEPT ![i] = Over]
  /\ data' = loads[i].answer /\ loading' = FALSE /\ failed' = FALSE
  /\ UNCHANGED <<kind, page, filter, rows, calls, told, actions, failures>>

\* Only the newest load counts.
ApplyLoad(i) ==
  /\ loads[i].at = "answered"
  /\ loads' = [loads EXCEPT ![i] = Over]
  /\ IF i = Len(loads)
     THEN data' = loads[i].answer /\ loading' = FALSE /\ failed' = FALSE
     ELSE UNCHANGED <<data, loading, failed>>
  /\ UNCHANGED <<kind, page, filter, rows, calls, told, actions, failures>>

\* The failure of an older load is ignored as its answer is.
LoadFails(i) ==
  /\ i = Len(loads) /\ loads[i].at # "over"
  /\ failures < MaxFailures /\ failures' = failures + 1
  /\ loads' = [loads EXCEPT ![i] = Over]
  /\ loading' = FALSE /\ failed' = TRUE
  /\ UNCHANGED <<kind, page, filter, data, rows, calls, told, actions>>

-----------------------------------------------------------------------------
(* The user. *)

Acts == actions < MaxActions /\ actions' = actions + 1

ChoosePage(p) ==
  /\ Acts /\ p # page
  /\ page' = p
  /\ RunRequest(p, filter)
  /\ UNCHANGED <<kind, filter, rows, calls, told, failures>>

\* Choosing a filter goes back to the first page; only that loads the list again.
ChooseFilter(f) ==
  /\ Acts /\ HasFilter(kind) /\ f # filter
  /\ filter' = f /\ page' = 1
  /\ IF page = 1 THEN UNCHANGED requestVars ELSE RunRequest(1, f)
  /\ UNCHANGED <<kind, rows, calls, told, failures>>

Refresh ==
  /\ Acts
  /\ RunRequest(page, filter)
  /\ UNCHANGED <<kind, page, filter, rows, calls, told, failures>>

Used(c) == calls[c].at # "none" \/ Made(c) \in rows
\* Changes are numbered as they are begun.
Unused(c) == ~Used(c) /\ \A b \in 1 .. c - 1 : Used(b)

\* Bound: one document is indexed anew, not several at once.
Press(c, tail) ==
  /\ Acts /\ Unused(c)
  /\ tail = "refresh and poll" => \A b \in Changes : calls[b].tail # tail
  /\ calls' = [calls EXCEPT ![c] = [at |-> "asked", tail |-> tail, polls |-> 0]]
  /\ UNCHANGED <<kind, page, filter, requestVars, rows, told, failures>>

-----------------------------------------------------------------------------
(* The servers. *)

\* Others change the list, and a document that others have processed anew counts as one change.
OtherChange(c) ==
  /\ Unused(c)
  /\ rows' = rows \cup {Made(c)}
  /\ UNCHANGED <<kind, page, filter, requestVars, calls, told, actions, failures>>

Move(c, at) == calls' = [calls EXCEPT ![c].at = at]

AnswerCall(c) ==
  /\ calls[c].at = "asked"
  /\ \/ Move(c, "refused") /\ UNCHANGED rows
     \/ CommitsFirst(kind) /\ Move(c, "done") /\ rows' = rows \cup {Made(c)}
     \/ ~CommitsFirst(kind) /\ Move(c, "done") /\ UNCHANGED rows
  /\ UNCHANGED <<kind, page, filter, requestVars, told, actions, failures>>

CommitLate(c) ==
  /\ ~CommitsFirst(kind) /\ calls[c].at \notin {"none", "asked", "refused"}
  /\ Made(c) \notin rows
  /\ rows' = rows \cup {Made(c)}
  /\ UNCHANGED <<kind, page, filter, requestVars, calls, told, actions, failures>>

Process(c) ==
  /\ calls[c].tail = "refresh and poll" /\ Made(c) \in rows /\ Processed(c) \notin rows
  /\ rows' = rows \cup {Processed(c)}
  /\ UNCHANGED <<kind, page, filter, requestVars, calls, told, actions, failures>>

-----------------------------------------------------------------------------
(* What follows a success.  The list is asked for as it is chosen by then. *)

ToldWithoutRefresh(c) ==
  /\ calls[c].at = "done" /\ calls[c].tail # "members and refresh"
  /\ told' = told \cup {Made(c)}
  /\ Move(c, IF calls[c].tail = "refresh and poll" THEN "waiting" ELSE "over")
  /\ UNCHANGED <<kind, page, filter, requestVars, rows, actions, failures>>

Succeeds(c) ==
  /\ calls[c].at = "done" /\ calls[c].tail # "members and refresh"
  /\ told' = told \cup {Made(c)}
  /\ Move(c, IF calls[c].tail = "refresh and poll" THEN "waiting" ELSE "over")
  /\ RunRequest(page, filter)
  /\ UNCHANGED <<kind, page, filter, rows, actions, failures>>

\* loadMembers comes first; it may fail, silently.
MemberChanged(c) ==
  /\ calls[c].at = "done" /\ calls[c].tail = "members and refresh"
  /\ Move(c, "members")
  /\ UNCHANGED <<kind, page, filter, requestVars, rows, told, actions, failures>>

MembersLoaded(c) ==
  /\ calls[c].at = "members"
  /\ told' = told \cup {Made(c)}
  /\ Move(c, "over")
  /\ RunRequest(page, filter)
  /\ UNCHANGED <<kind, page, filter, rows, actions, failures>>

CallFails(c) ==
  /\ \/ calls[c].at = "refused" /\ UNCHANGED failures
     \/ calls[c].at \in {"asked", "done"} /\ failures < MaxFailures /\ failures' = failures + 1
  /\ Move(c, "failed")
  /\ UNCHANGED <<kind, page, filter, requestVars, rows, told, actions>>

\* pollUntilReady: a poll that sees the document settled, that fails, or that is the last
\* one ends it, and the list is loaded again.
PollAgain(c) ==
  /\ calls[c].at = "waiting" /\ Processed(c) \notin rows /\ calls[c].polls + 1 < MaxPolls
  /\ calls' = [calls EXCEPT ![c].polls = @ + 1]
  /\ UNCHANGED <<kind, page, filter, requestVars, rows, told, actions, failures>>

PollEnds(c) ==
  /\ calls[c].at = "waiting"
  /\ \/ Processed(c) \in rows /\ told' = told \cup {Processed(c)} /\ UNCHANGED failures
     \/ Processed(c) \notin rows /\ calls[c].polls + 1 = MaxPolls /\ UNCHANGED <<told, failures>>
     \/ failures < MaxFailures /\ failures' = failures + 1 /\ UNCHANGED told
  /\ Move(c, "over")
  /\ RunRequest(page, filter)
  /\ UNCHANGED <<kind, page, filter, rows, actions>>

-----------------------------------------------------------------------------

ListsInit ==
  /\ kind \in Kinds
  /\ page = 1 /\ filter = "all"
  /\ loads = <<Asking(1, "all")>>
  /\ loading = TRUE /\ failed = FALSE
  /\ data = NoAnswer
  /\ rows = {}
  /\ calls = [c \in Changes |-> [at |-> "none", tail |-> "none", polls |-> 0]]
  /\ told = {}
  /\ actions = 0 /\ failures = 0

LoadStep(i) == AnswerLoad(i) \/ ApplyLoad(i)

CallStep(c) ==
  AnswerCall(c) \/ Succeeds(c) \/ MemberChanged(c) \/ MembersLoaded(c) \/ CallFails(c)
  \/ PollAgain(c) \/ PollEnds(c)

ListsNext ==
  \/ \E i \in DOMAIN loads : LoadStep(i) \/ LoadFails(i)
  \/ \E p \in PageNumbers : ChoosePage(p)
  \/ \E f \in Filters : ChooseFilter(f)
  \/ Refresh
  \/ \E c \in Changes, tail \in Tails(kind) : Press(c, tail)
  \/ \E c \in Changes : CallStep(c) \/ OtherChange(c) \/ CommitLate(c) \/ Process(c)

\* Every call is answered or fails (the client gives it up after 30 seconds).
ListsFairness ==
  /\ \A i \in 1 .. 2 * MaxActions + 1 : WF_listsVars(i \in DOMAIN loads /\ LoadStep(i))
  /\ \A c \in Changes : WF_listsVars(CallStep(c))

ListsSpec == ListsInit /\ [][ListsNext]_listsVars /\ ListsFairness

-----------------------------------------------------------------------------

Settled == ~loading /\ ~failed

\* When nothing is loading the table shows every change that the user of the page has been
\* told of, in whatever order the answers came.  (Of what the user service has not yet
\* committed it may not.)
OwnChangesAreShown ==
  Settled /\ CommitsFirst(kind) => told \subseteq data.rows

\* A change of this page comes to be shown, or the user is told that a call failed, also
\* when others change the list and the user turns its pages.
ChangesAppear ==
  \A c \in Changes :
    CommitsFirst(kind) /\ calls[c].at = "done" ~> Made(c) \in data.rows \/ failures > 0

=============================================================================
