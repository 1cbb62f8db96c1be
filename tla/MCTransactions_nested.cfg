CONSTANTS
    Name = {n1, n2}
    Write = {w1, w2, w3}
    Behavior = {"rollback", "commit", "ignore", "panic"}
    MaxHandles = 3
    MaxMarks = 3
SPECIFICATION Spec
SYMMETRY WriteSymmetry
INVARIANT TypeOK
PROPERTIES
    InnerCommitStoresNothing
    RollbackUndoesTheHandle
    CommittedTransactionIsStored
