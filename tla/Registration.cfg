SPECIFICATION MCSpec
CONSTANTS
  t1 = t1
  t2 = t2
  k1 = k1
  k2 = k2
  c1 = c1
  c2 = c2
  c3 = c3
  v1 = v1
  NoToken = NoToken
  NoDeclaration = NoDeclaration
  Targets = {t1, t2}
  Tokens = {k1, k2}
  TokenTarget <- TwoTargets
  Revisions = {v1, v2}
  Contents = {c1, c2, c3}
  SizeOf <- Sizes
  Unsafe <- QueueUnsafe
  Forms = {1}
  Keys = {i1}
  Capacities = {1, 2}
  Requests = {r1, r2}
SYMMETRY Symmetric
CHECK_DEADLOCK FALSE
INVARIANT TypeOK
PROPERTY OutcomesAreTrue
PROPERTY ImplementsDeclaredState
