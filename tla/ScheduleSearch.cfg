SPECIFICATION Spec
CONSTANTS
  an = an
  binh = binh
  chi = chi
  early = early
  middle = middle
  late = late
  night = night
  Employees = {an, binh, chi}
  Shifts = {early, middle, late, night}
  Start <- Starts
  End <- Ends
  MinStaff <- Needs
  MaxStaff <- Takes
  MaxHours <- Limits
  Preference <- Wishes
  HoursOf <- HoursSum
  Presets <- PresetOrder
  Score <- ScoreAsInCode
  MaxAttempts = 4
INVARIANTS
  TypeOK
  HardConstraintsHold
  CoverageNeverLost
  NeverBelowStart
  GreedyLeavesNoGap
CHECK_DEADLOCK FALSE
