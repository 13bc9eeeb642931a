--------------------------- MODULE MCKnowledgeBase ---------------------------
(* An instance of KnowledgeBase for TLC: a document of one project, another *)
(* project without one, two calls that may overlap, one search.             *)
EXTENDS KnowledgeBase, TLC

CONSTANTS d1, p1, p2, k1, k2, s1

MCDocs == {d1}
MCProjects == {p1, p2}
MCProjectOf == d1 :> p1
MCCalls == {k1, k2}
MCSearches == {s1}

=============================================================================
