SPECIFICATION Spec
CONSTANTS
  e1 = e1
  e2 = e2
  e3 = e3
  w1 = w1
  w2 = w2
  o1 = o1
  o2 = o2
  s1 = s1
  a1 = a1
  Schedules = {s1}
  Actions = {a1}
  Executions = {e1}
  Workers = {w1}
  Operators = {o1}
  Policies <- MCPolicies
  AttemptHardLimit = 3
  LeaseTime = 1
  AutomaticRetryWindow = 2
  OperatorRetryWindow = 2
  SuccessRetention = 2
  FailureRetention = 3
  MaxTime = 4
  MaxSwitches = 0
SYMMETRY Symmetry
CHECK_DEADLOCK FALSE
INVARIANT RefusedOnlyWhenAttemptsAreUsed
