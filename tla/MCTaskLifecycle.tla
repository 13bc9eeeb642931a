-------------------------- MODULE MCTaskLifecycle --------------------------
(***************************************************************************)
(* A TLC instance of TaskLifecycle on its own: one task with one run shows *)
(* what becomes of a task that is cancelled while its run is suspended.    *)
(* All else about tasks is checked together with their page (MCTaskPage).  *)
(***************************************************************************)
EXTENDS TaskLifecycle

CONSTANT t1

MCTasks == {t1}

=============================================================================
