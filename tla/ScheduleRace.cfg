SPECIFICATION Spec
CONSTANTS
  t1 = t1
  t2 = t2
  r1 = r1
  r2 = r2
  o1 = o1
  d1 = d1
  d2 = d2
  d3 = d3
  d4 = d4
  Omitted = Omitted
  Ticks = {t1, t2}
  Registrars = {r1}
  Operators = {o1}
  Configs <- MCConfigs
  Documents = {d1, d2, d3, d4}
  Declares <- MCDeclares
  MaxTime = 4
  MaxRevision = 3
SYMMETRY Symmetry
INVARIANT TypeOK
INVARIANT ArmedIffEnabled
INVARIANT EnabledIsDeclared
PROPERTY SnapshotIsCurrent
PROPERTY NoBackfill
