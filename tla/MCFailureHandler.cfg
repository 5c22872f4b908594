SPECIFICATION Spec
CONSTANTS
  r1 = r1
  c1 = c1
  c2 = c2
  c3 = c3
  read = read
  logs = logs
  Roots = {r1}
  Children = {c1, c2, c3}
  Actions = {read}
  Resources = {logs}
  RootGrants <- MCRootGrants
  RequestGrants <- MCRequestGrants
  RequestDepths <- MCDepths
  RequestTtls <- MCTtls
  RootDepth = 2
  Forever = 3
  MaxTime = 2
  null = null
  Watched = {r1}
  TickSeqs = {7}
  MaxRetries = 1
  TakesStates = TRUE
  MaxCalls = 5
SYMMETRY ChildSymmetry
INVARIANTS TreeIsForest AuthorityShrinks RevocationIsDeep RetryBudget
PROPERTIES RevokedSubtreesAreFrozen PanicFreezes
CHECK_DEADLOCK FALSE
