SPECIFICATION MCSpec
CONSTANTS
  t1 = t1
  t2 = t2
  r1 = r1
  r2 = r2
  o1 = o1
  d1 = d1
  d2 = d2
  d3 = d3
  k1 = k1
  e1 = e1
  e2 = e2
  e3 = e3
  NoRow = NoRow
  none = none
  Moving = {"queue", "pool", "tab", "website", "table"}
CHECK_DEADLOCK FALSE
PROPERTIES
  IntentsAreDelivered TicksEnd EndIsNoticed CallsEnd DueOccurrenceSettles
