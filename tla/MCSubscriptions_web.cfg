CONSTANTS
    List = {l1}
    Address = {a1, a2}
    Writer = {w1}
    Jobs = {"subscribe", "password"}
    WebUser = {a1}
    NoWriter = NoWriter
    MaxPk = 2
    MaxFroms = 1
    Froms <- MCFroms
SPECIFICATION FairSpec
INVARIANTS
    KeysNameTheirRows
PROPERTIES
    LinkBreaksOnlyByStaleAccount
    RequestsEnd
