CONSTANTS
  NumVideo = 1
  MaxEntries = 2
  TimeRes = 1
  MissLimit = 2
  MaxLength = 3
  WatchDog = 1
  MaxTime = 5
  MaxSeq = 2
  DayLen = 3
  ThreadMayFail = FALSE
  XmlMayFail = TRUE
  MayShutdown = FALSE
  Requests <- SmallRequests
  EarlierDbs <- NewOrLeft
  OccStart <- DailyStart
  OccEnd <- DailyEnd
  AdjStart <- SameStart
  AdjEnd <- SameEnd
SPECIFICATION FairSpec
PROPERTIES EverySettled
CHECK_DEADLOCK FALSE
