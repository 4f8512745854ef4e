SPECIFICATION MCSpec
CONSTANTS
  a1 = a1
  a2 = a2
  a3 = a3
  b1 = b1
  b2 = b2
  c1 = c1
  c2 = c2
  e1 = e1
  e2 = e2
  e3 = e3
  open = open
  done = done
  None = None
  NoRow = NoRow
  NoTick = NoTick
  NoBlock = NoBlock
  Ticks = {b1, b2}
  Rows = {e1, e2, e3}
  TimeoutOf <- Timeouts
  SoftWall = 3
  Reserve = 1
  RpcBudget = 3
  Concurrency = 2
  Requests = {a1, a2, a3}
  Actors = {"anna"}
  IdempotencyKeys = {b1, b2}
  Values = {"small", "large"}
  Operations = {"settings", "pause", "resume", "enable", "disable", "check"}
  Blanks = {None}
  Actions = {"sync"}
  Logins = {a1, a2, a3, b1}
  Window = 2
  Block = 2
  MaxFailures = 2
  MaxTime = 3
  Tokens = {b1, b2}
  TabCalls = {a1, a2}
  WebsiteCalls = {b1, b2}
  WebsiteKeys = {c1, c2}
  Sources = {"crm", "erp"}
  Modes = {"retryable_then_success", "timeout_after_effect", "malformed_result"}
  MaxArms = 1
  WebsiteActions = {"syncUsers", "testScenario", "nonIdempotentScenario"}
  Ids = {1, 2, 3, 4}
  Statuses = {open, done}
  Settled = {done}
  AllStatuses = AllStatuses
  Lists = {"history", "ledger"}
  Limit = 2
  Lag = 1
  SlidingWindow = 2
  Retention = 1
  PagingTime = 3
  MaxChanges = 2
  MaxReads = 3
  Numbers = {0, 1, 7, 8}
  Steps = {0, 3}
  MaxAtoms = 2
  FirstYear = 2095
  LastYear = 2106
  Late = 6
  MaxBytes = 5
  Widths = {1, 2, 3}
  MaxCharacters = 3
  Moving = {"pool", "heartbeat", "dispatch", "target", "settings", "check", "login", "tab",
           "sync", "scenario", "paging", "dialect", "horizon", "body"}
CHECK_DEADLOCK FALSE
INVARIANTS
  TypesOK
  TicksAreAccountedFor
  AnswersAreEarned
  WalksAreComplete
  RulesRunAsMeant
  BodiesAreBounded
PROPERTIES
  MutationsHappenOnce
  FailuresAreCounted
  SessionsEnd
