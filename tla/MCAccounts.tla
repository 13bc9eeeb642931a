------------------------------ MODULE MCAccounts ------------------------------
EXTENDS Accounts

CONSTANTS root, boss, ann, bob, g1, g2, p1, p2, p3, p4

MCUsers == {root, boss, ann, bob}
MCGroups == {g1, g2}
\* One for every attempt to create one.
MCProjectIds == {p1, p2, p3, p4}
MCInitialRole ==
  [u \in {root, boss, ann} |->
     CASE u = root -> "system_admin" [] u = boss -> "project_admin" [] u = ann -> "senior_researcher"]
MCInitialMembers == {<<g1, boss>>, <<g1, ann>>}
MCInitialProjects == [p \in {p1} |-> g1]

\* bob and g2 do not exist at first.
MCAsked ==
  {<<root, ask>> : ask \in {Ask("create_user_and_group", bob, "project_admin", g2, Nobody),
                            Ask("change_role", ann, "system_admin", Nobody, Nobody),
                            Ask("deactivate_user", ann, "none", Nobody, Nobody),
                            Ask("remove_member", boss, "none", g1, Nobody)}}
  \cup {<<boss, ask>> : ask \in {Ask("create_user", bob, "analyst", Nobody, Nobody),
                                 Ask("change_role", ann, "system_admin", Nobody, Nobody),
                                 Ask("deactivate_user", ann, "none", Nobody, Nobody),
                                 Ask("reset_password", ann, "none", Nobody, Nobody),
                                 Ask("create_group", Nobody, "none", g2, Nobody),
                                 Ask("add_member", bob, "none", g1, Nobody),
                                 Ask("archive_project", Nobody, "none", Nobody, p1)}}
  \cup {<<ann, ask>> : ask \in {Ask("create_project", Nobody, "none", g1, Nobody),
                                Ask("update_project", Nobody, "none", Nobody, p1)}}

=============================================================================
