CONSTANTS
  DayLen = 4
  FirstWeekday = 4
  MonthStart <- Months
  Start = 6
  MaxLength = 3
  Commands <- PassingCommands
  Manglings = {0, 1}
  StartNumbers = {2, 100}
  MaxDeleted = 1
SPECIFICATION DbSpec
INVARIANTS EveryNamedDay NoSelfOverlap StoredAsChecked UntilFromLaterDay LoopsAreExpand ReadsBack
CHECK_DEADLOCK FALSE
