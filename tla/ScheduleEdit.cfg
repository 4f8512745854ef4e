SPECIFICATION Spec
CONSTANTS
  t1 = t1
  t2 = t2
  r1 = r1
  r2 = r2
  o1 = o1
  d1 = d1
  d2 = d2
  d3 = d3
  d4 = d4
  Omitted = Omitted
  Ticks = {t1}
  Registrars = {r1}
  Operators = {o1}
  Configs <- MCConfigs
  Documents = {d1, d2, d3, d4}
  Declares <- EditDeclares
  MaxTime = 4
  MaxRevision = 4
INVARIANT ArmedOccurrenceIsNew
