SPECIFICATION Spec
CONSTANTS
  p1 = p1
  p2 = p2
  t1 = t1
  t2 = t2
  Processes = {p1}
  Ticks = {t1}
  Hostings <- OneProcessOnly
  Employees = {e1}
  SendBatch = 1
  MaxFaults <- OneFault
INVARIANTS
  NoDuplicateSends
