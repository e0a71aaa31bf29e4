SPECIFICATION Spec
CONSTANTS
  None = None
  Creations = {c1, c2}
  Signups = {o1}
  Usernames = {n1}
  Passwords = {p1, p2}
  Handlers = {h1, h2}
  DefaultShifts = 2
  MaxTokens = 2
  MaxFaults = 1
SYMMETRY AccountSymmetry
INVARIANTS
  TypeOK
  OneShopPerUsername
  ShopsArriveWhole
  PasswordsFollowTheirLinks
CHECK_DEADLOCK FALSE
