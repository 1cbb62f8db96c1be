CONSTANTS
    Name = {n1}
    Write = {w1}
    Behavior = {"rollback"}
    MaxHandles = 1
    MaxMarks = 2
SPECIFICATION Spec
PROPERTY CommittedSavepointIsStored
