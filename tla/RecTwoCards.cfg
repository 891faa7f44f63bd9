CONSTANTS
  NumVideo = 2
  MaxEntries = 1
  TimeRes = 1
  MissLimit = 0
  MaxLength = 3
  WatchDog = 1
  MaxTime = 2
  MaxSeq = 2
  DayLen = 3
  ThreadMayFail = TRUE
  XmlMayFail = FALSE
  MayShutdown = TRUE
  Requests <- TwoCardRequests
  EarlierDbs <- NewOrLeft
  OccStart <- DailyStart
  OccEnd <- DailyEnd
  AdjStart <- SameStart
  AdjEnd <- SameEnd
SPECIFICATION Spec
INVARIANTS CardExclusive Accounted
PROPERTIES ImplementsSchedule
CHECK_DEADLOCK FALSE
