CONSTANTS
    m1 = m1
    m2 = m2
    Mail = {m1, m2}
    List = {1}
    Address = {a1}
    To <- ToNone
    DryRuns = {FALSE}
    MaxTries = 1
SPECIFICATION Spec
INVARIANTS
    ErrorsAreRecorded
