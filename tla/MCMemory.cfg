SPECIFICATION Spec
CONSTANTS
  k1 = k1
  k2 = k2
  a1 = a1
  a2 = a2
  c1 = c1
  s1 = s1
  v1 = v1
  v2 = v2
  res1 = res1
  absent = absent
  none = absent
  Kernels = {k1, k2}
  Stores = {k1, k2}
  MaxEntries = 4
  Cells = {c1}
  Values = {v1}
  Callers = {a1, a2}
  SharedCells = {s1}
  SharedValues = {v1}
  Actions <- MCActions
  Resources = {res1}
  resourceOf <- MCResourceOf
  GrantLists <- MCGrantLists
  PolicyAnswers <- MCPolicyAnswers
  Times = {1, 2}
  Owners = {a1}
  ColonAgents = {}
  ScratchTicks = {1, 2}
  ScratchKeys = {c1}
  MaxLives = 1
  Workloads <- MCWorkloads
  MaxCalls <- MCMaxCalls
SYMMETRY MCSymmetry
INVARIANTS RowsAreLogged LogTellsRows MemoryIsLogged AccessesAreAllowed ScratchIsOwn
CHECK_DEADLOCK FALSE
