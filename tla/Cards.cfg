SPECIFICATION Spec
CONSTANTS
    Table <- TableDef
    Manual <- ManualDef
    Stations <- StationsDef
    Configs <- ConfigsDef
    tuner_input_index = 0
    Profiles <- ProfilesDef
    default_profile = "normal"
    SizesKnown = {"vga", "qvga", "pal", "QVGA"}
    SizesNamed = {"vga", "qvga", "pal"}
    EncodersFound <- FoundDef
    ProfileLists <- ListsDef
    Channels = {"news", "e5"}
    Inputs = {1}
    Controls = {"hue", "bass", "volume"}
    card_control <- ControlDef
    Normal <- NormalDef
    CommandsUsed = {"va", "ac", "ic", "vc"}
    MaxFd = 7
    MaxFaults = 3
INVARIANTS RecordsAsAsked FailsCleanly
