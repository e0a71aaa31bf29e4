SPECIFICATION Spec
CONSTANTS
  ann = ann
  bob = bob
  e1 = e1
  e2 = e2
  m1 = m1
  m2 = m2
  Nothing = Nothing
  Handlers = {h1, h2}
  Accounts = {ann, bob}
  Employees = {e1, e2}
  AccountOf <- TwoShops
  Messages = {m1, m2}
  AuthorOf <- AllByAnn
  LastWeek = 2
  MaxFaults = 1
SYMMETRY Symmetry
INVARIANTS
  TypeOK
  SavedByItsAuthor
  ChoicesStand
