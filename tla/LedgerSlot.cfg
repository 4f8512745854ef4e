SPECIFICATION Spec
CONSTANTS
  e1 = e1
  e2 = e2
  e3 = e3
  w1 = w1
  w2 = w2
  o1 = o1
  o2 = o2
  s1 = s1
  a1 = a1
  Schedules = {s1}
  Actions = {a1}
  Executions = {e1, e2, e3}
  Workers = {w1}
  Operators = {o1}
  Policies <- JustNoRetry
  AttemptHardLimit = 2
  LeaseTime = 1
  AutomaticRetryWindow = 1
  OperatorRetryWindow = 1
  SuccessRetention = 1
  FailureRetention = 2
  MaxTime = 1
  MaxSwitches = 0
SYMMETRY Symmetry
CHECK_DEADLOCK FALSE
INVARIANT OneActivePerSchedule
PROPERTY ImplementsSlot
