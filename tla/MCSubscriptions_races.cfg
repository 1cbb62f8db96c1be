CONSTANTS
    List = {l1}
    Address = {a1, a2}
    Writer = {w1, w2}
    Jobs = {"subscribe", "unsubscribe", "import"}
    WebUser = {}
    NoWriter = NoWriter
    MaxPk = 2
    MaxFroms = 2
    Froms <- MCFroms
SPECIFICATION Spec
INVARIANTS
    TypeOK
    KeysNameTheirRows
PROPERTIES
    WaitingSubscriberOnlyAfterRollback
    ImplementsMembership
SYMMETRY WriterSymmetry
