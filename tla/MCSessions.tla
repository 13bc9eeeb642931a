----------------------------- MODULE MCSessions -----------------------------
(***************************************************************************)
(* TLC instance of Sessions: pages with two requests beside Me.            *)
(***************************************************************************)
EXTENDS Sessions

MCRoles == {"analyst", "project_admin"}

=============================================================================
