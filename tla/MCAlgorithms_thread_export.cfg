SPECIFICATION ThreadSpec
CONSTANTS
    Correspondent = {"a", "b"}
    MaxAddress = 5
    MaxTable = 4
INVARIANT ExportsWholeThread
CHECK_DEADLOCK FALSE
