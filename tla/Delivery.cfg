SPECIFICATION MCSpec
CONSTANTS
  Deliveries = {d1, d2}
  Senders = {t1, t2}
  Consumers = {c1, c2}
  WebsiteConsumers = {w1}
  Batch = 2
  LeaseTime = 1
  WallBudget = 1
  RetryDelay = 0
  MaxTries = 2
  MaxCopies = 1
  MaxAttempts = 2
  MaxSwitches = 1
SYMMETRY Symmetry
INVARIANT TypeOK
PROPERTY CallsAreCounted
PROPERTY SendsOnlyOwnRows
PROPERTY ImplementsContract
