SPECIFICATION Spec
CONSTANTS
    Pids = {9, 10, 11}
    StartedAs = {"root", "user"}
    username = "tvpvrd"
    StartsOverlap = FALSE
    StartsAfterGap = FALSE
    MaxStarts = 3
    Threads = {t1, t2}
    MaxTitle = 3
    Odd = {3}
    HISTORY_LENGTH = 2
    EndsOverlap = FALSE
    MaxFaults = 1
SYMMETRY AnyThread
INVARIANTS OneServer HistoryIsLatest NothingUncounted

\* When the last server has ended, all is still.
CHECK_DEADLOCK FALSE
