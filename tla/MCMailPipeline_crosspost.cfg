CONSTANTS
    m1 = m1
    m2 = m2
    Mail = {m1}
    List = {1, 2}
    Address = {a1, a2}
    To <- ToBoth
    DryRuns = {FALSE}
    MaxTries = 2
SPECIFICATION Spec
SYMMETRY Recipients
INVARIANTS
    TypeOK
    DeferNeverConflicts
    PostIsDistributed
    SentIsArchived
    AcceptedMailIsKept
    SettledOnce
