SPECIFICATION Spec
CONSTANTS
  r1 = r1
  c1 = c1
  c2 = c2
  c3 = c3
  read = read
  logs = logs
  Roots = {r1}
  Children = {c1, c2, c3}
  Actions = {read}
  Resources = {logs}
  RootGrants <- MCRootGrants
  RequestGrants <- MCRequestGrants
  RequestDepths <- MCDepths
  RequestTtls <- MCTtls
  RootDepth = 2
  Forever = 3
  MaxTime = 2
  null = null
  Watched = {r1}
  TickSeqs = {7}
  MaxRetries = 1
  TakesStates = FALSE
  MaxCalls = 5
INVARIANT BreachTerminates
CHECK_DEADLOCK FALSE
