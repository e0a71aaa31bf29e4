SPECIFICATION Spec
CONSTANTS
  u1 = u1
  None = None
  Shops = {s1, s2}
  Users = {u1, u2}
  Chats = {c1}
  Messages = {m1}
  AuthorOf <- AllByU1
  Handlers = {h1, h2}
  MaxLinks = 2
  MaxChoices = 1
  MaxFaults = 1
SYMMETRY ChatSymmetry
INVARIANTS
  TypeOK
  LinksCountOnce
  OwnersSpeakForTheirShop
  AnswersAreTrue
CHECK_DEADLOCK FALSE
