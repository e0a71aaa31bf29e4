SPECIFICATION Spec
CONSTANTS
  Employees = {ann}
  Zones <- EasternZones
  Moments <- EdgesOfTheWeek
  FormDates <- AroundTheWeek
  DraftTTL = 30
  MaxDrafts = 1
  MaxPlans = 1
CHECK_DEADLOCK FALSE
INVARIANTS
  TypeOK
  RepliesCountForTheWeekNamed
  AskedOnceInTime
PROPERTIES
  PlansFindTheAnswers
