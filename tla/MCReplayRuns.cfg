SPECIFICATION ReplaySpec
CONSTANTS
  a1 = a1
  a2 = a2
  l1 = l1
  l2 = l2
  r1 = r1
  t1 = t1
  v1 = v1
  v2 = v2
  Agents <- OneAgent
  Loops <- MCLoops
  Tools = {t1}
  Handlers = {t1}
  Values = {v1, v2}
  Quotas <- MCQuotas
  NoQuota = NoQuota
  null = null
  MaxHostSteps = 4
  Replays = {r1}
INVARIANT AnyRunReplays
CHECK_DEADLOCK FALSE
