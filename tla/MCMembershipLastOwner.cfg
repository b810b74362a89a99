SPECIFICATION Spec
CONSTANTS
  u1 = u1
  u2 = u2
  u3 = u3
  v1 = v1
  s1 = s1
  s2 = s2
  r1 = r1
  r2 = r2
  NoUser = NoUser
  NoWorkspace = NoWorkspace
  NoSlug = NoSlug
  Users <- TwoUsers
  Workspaces <- OneWorkspace
  Slugs <- TwoSlugs
  Requests <- TwoRequests
  AskedRoles <- SomeRoles
SYMMETRY Symmetry
INVARIANT AlwaysAnOwner
CHECK_DEADLOCK FALSE
