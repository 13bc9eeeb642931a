---------------------------- MODULE MCAgentLoop ----------------------------
(***************************************************************************)
(* TLC instances of AgentLoop: two planned sections and one title the      *)
(* model makes up.                                                         *)
(***************************************************************************)
EXTENDS AgentLoop

CONSTANTS intro, findings, extra

MCPlanned == {intro, findings}
MCTitles == {intro, findings, extra}

=============================================================================
