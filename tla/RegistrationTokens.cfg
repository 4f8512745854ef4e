SPECIFICATION MCSpec
CONSTANTS
  r0 = r0
  k1 = k1
  k2 = k2
  k3 = k3
  i1 = i1
  NoToken = NoToken
  Tokens = {k1, k2, k3}
  Targets = {"data", "other"}
  SyncedTargets = {"data"}
  Lifetimes = {"days", "never", "inherit"}
  Keys = {i1, i2}
  Requests = {r0, r1, r2}
  MaxSecret = 2
SYMMETRY Symmetric
CHECK_DEADLOCK FALSE
INVARIANT TokensAreSound
PROPERTY ImplementsCredentials
