---------------------------- MODULE MCLLMRouter ----------------------------
(* Instances of LLMRouter for TLC: two concurrent requests and small limits. *)
EXTENDS LLMRouter, TLC

CONSTANTS r1, r2

MCTwoRequests == {r1, r2}

Symmetry == Permutations(MCTwoRequests)

=============================================================================
