SPECIFICATION Spec
CONSTANTS
  ann = ann
  s1 = s1
  s2 = s2
  j1 = j1
  j2 = j2
  q1 = q1
  q2 = q2
  q3 = q3
  NoRole = NoRole
  NoRow = NoRow
  Idle = Idle
  Shops = {s1, s2}
  Accounts = {ann}
  Starts = {j1, j2}
  SenderOf <- AllByAnn
  CodeOf <- AllToS1
  Requests = {q1, q2, q3}
  OwnerOf <- TwoTabs
  Names = {n1, n2}
  Roles = {bar}
SYMMETRY Symmetry
INVARIANTS
  TypeOK
  WelcomesAreTrue
PROPERTIES
  ChangesHaveAnAuthor
