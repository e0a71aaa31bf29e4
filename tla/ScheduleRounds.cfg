SPECIFICATION FairSpec
CONSTANTS
  s1 = s1
  s2 = s2
  e1 = e1
  Free = Free
  NoRow = NoRow
  Shops = {s1, s2}
  Weeks = {w1, w2}
  NumCandidates = 2
  Generators = {g1, g2}
  Approvers = {a1, a2}
  OwnerShop <- AllOwnS1
  Employees = {e1}
  EmployeeShop <- OneEmployee
INVARIANTS
  TypeOK
  AtMostOneApproved
  CandidatesComplete
  VotesAreConsistent
PROPERTIES
  StatusChangesInOwnRound
  ApprovalIsKept
  ImplementsBoard
  RequestsEnd
