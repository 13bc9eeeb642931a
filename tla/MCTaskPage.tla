----------------------------- MODULE MCTaskPage -----------------------------
(* A small instance of TaskPage for TLC: a task with one retry. *)
EXTENDS TaskPage

CONSTANTS t1, docx, pptx

MCTasks == {t1}
\* The page offers a format that the task did not request.
MCFormats == {docx, pptx}
MCRequested == {docx}

=============================================================================
