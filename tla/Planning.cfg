SPECIFICATION PlanSpec
CONSTANTS
  anna = anna
  bob = bob
  Anna = Anna
  ANNA = ANNA
  Bob = Bob
  monday = monday
  sunday = sunday
  pair = pair
  off = off
  custom = custom
  old = old
  leave = leave
  DayLength = 4
  NameKey <- MCNameKey
  Staff = {anna, bob}
  Names = {Anna, ANNA, Bob}
  Templates = {monday, sunday}
  Template <- MCTemplate
  Answers <- MCAnswers
  NoAnswer = NoAnswer
  Rules = {pair, off, custom, old, leave}
  RuleRow <- MCRuleRow
  Leaves = {leave}
  LeaveOf <- MCLeaveOf
  MaxChanges = 2
INVARIANTS
  PlanTypeOK
  PlansWhatStood
  AnswersInTimeCount
  RulesReachTheirPeople
