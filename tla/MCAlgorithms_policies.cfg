SPECIFICATION PolicySpec
CONSTANTS
    Correspondent = {"a", "b"}
    MaxAddress = 5
    MaxTable = 4
INVARIANT PoliciesAreAsDocumented
CHECK_DEADLOCK FALSE
