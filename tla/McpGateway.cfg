CONSTANTS
  customer = customer
  invoke = invoke
  get_customer = get_customer
  Task = {k1, k2, k3}
  Subject = {s1, s2}
  Agent = {customer, payments}
  Role = {invoke}
  Tool = {get_customer, shell}
  Registered = {get_customer}
  AllowedAgents <- MCAllowedAgents
  RequiredRoles <- MCRequiredRoles
  MaxAttempts = 2
  Limit = 1
  Window = 2
  Time = {0, 1, 2}
SPECIFICATION FairSpec
CHECK_DEADLOCK FALSE
INVARIANTS TypeOK AuditTellsTruth OnlyGovernedCalls AllowancesHold
PROPERTIES EachKeyHasItsLimiter EveryInvocationEnds
