SPECIFICATION Spec
CONSTANTS
  a1 = a1
  a2 = a2
  l1 = l1
  l2 = l2
  t1 = t1
  missing = missing
  v1 = v1
  v2 = v2
  Agents <- TwoAgents
  Loops <- TwoLoops
  Tools = {t1, missing}
  Handlers = {t1}
  Values = {v1, v2}
  Quotas <- MCQuotas
  NoQuota = NoQuota
  null = null
  MaxHostSteps = 4
SYMMETRY Symmetry
INVARIANTS LogTellsLifecycle ResultBeforeReturn CompletedOnce
PROPERTIES ImplementsAgentLifecycle TickQuotaHolds HandlerCallsAreAllowed QuotaStopsAgent
CHECK_DEADLOCK FALSE
