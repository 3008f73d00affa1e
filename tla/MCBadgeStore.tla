--------------------------- MODULE MCBadgeStore ---------------------------
(* BadgeStore with a stable version, and a later one with its betas, which *)
(* can fill GitLab's page.                                                 *)
EXTENDS BadgeStore

CONSTANTS c1, c2, o1

old  == [core |-> <<2026, 5, 1>>, pre |-> "", num |-> 0]
beta == [core |-> <<2026, 6, 0>>, pre |-> "b", num |-> 1]
beta2 == [core |-> <<2026, 6, 0>>, pre |-> "b", num |-> 2]
new  == [core |-> <<2026, 6, 0>>, pre |-> "", num |-> 0]

MCTags == {old, beta, beta2, new}
=============================================================================
