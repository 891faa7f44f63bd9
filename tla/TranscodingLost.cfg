CONSTANTS
  MaxOngoing = 1
  MaxWaiting = 1
  MaxName = 1
  Together <- Pairs
  NoJob = NoJob
  series = series
  film = film
  fileA = fileA
  fileB = fileB
  fileC = fileC
  Recording = {series, film}
  FileJob = {fileA, fileB, fileC}
  Profiles <- SomeProfiles
  NameOf <- SomeNames
  FileOf <- SomeFiles
  MayGiveUp = FALSE
  MayFail = FALSE
SPECIFICATION Spec
INVARIANTS DeletedIsTranscoded
CHECK_DEADLOCK FALSE
