CONSTANTS
  NumVideo = 1
  MaxEntries = 2
  TimeRes = 1
  MissLimit = 2
  MaxLength = 3
  WatchDog = 1
  MaxTime = 5
  MaxSeq = 3
  DayLen = 3
  ThreadMayFail = FALSE
  XmlMayFail = FALSE
  MayShutdown = FALSE
  Requests <- SmallRequests
  EarlierDbs <- NewOrLeft
  OccStart <- DailyStart
  OccEnd <- DailyEnd
  AdjStart <- SameStart
  AdjEnd <- SameEnd
SPECIFICATION Spec
INVARIANTS TypeOK NoOverlap CardExclusive Accounted NoInheritedCancel DbCurrent
PROPERTIES ImplementsSchedule
CHECK_DEADLOCK FALSE
