SPECIFICATION Spec
CONSTANTS
    Lists = {1, 2, 3}
    Files <- MCFiles
    Missing = {3}
    Addrs = {1, 2}
    Nobody = Nobody
    Junk = Junk
    MAX_FILELISTS = 1
    MaxFaults = 1
INVARIANTS QueueNamesRunning GoesThroughItsList 
PROPERTIES EveryListEnds
CHECK_DEADLOCK FALSE
