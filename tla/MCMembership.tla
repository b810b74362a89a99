---- MODULE MCMembership ----
(* Instances of the workspace model for TLC.                               *)
EXTENDS WorkspaceMembership, TLC

CONSTANTS u1, u2, u3, v1, s1, s2, r1, r2

OneWorkspace == {v1}
TwoUsers == {u1, u2}
ThreeUsers == {u1, u2, u3}
TwoSlugs == {s1, s2}
OneRequest == {r1}
TwoRequests == {r1, r2}
\* A viewer can do nothing here that a member cannot.
SomeRoles == {"owner", "admin", "member"}

\* Users, slugs and requests differ in nothing but their names.
Symmetry == Permutations(Users) \cup Permutations(Requests) \cup Permutations(Slugs)
====
