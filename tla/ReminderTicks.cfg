SPECIFICATION FairSpec
CONSTANTS
  p1 = p1
  p2 = p2
  t1 = t1
  t2 = t2
  Processes = {p1, p2}
  Ticks = {t1, t2}
  Hostings <- OneOrTwoProcesses
  Employees = {e1}
  SendBatch = 1
  MaxFaults <- TwoFaultsInOneProcess
INVARIANTS
  TypeOK
  MarksAreTrue
  EarlyRespondersNotNagged
PROPERTIES
  SettledStaysSettled
  PendingSettles
