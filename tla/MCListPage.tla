----------------------------- MODULE MCListPage -----------------------------
(* Small lists of every kind for TLC: two pages, two filters. *)
EXTENDS ListPage

MCKinds == {"tasks", "documents", "projects", "users", "groups", "logs"}
MCFilters == {"all", "some"}

=============================================================================
