CONSTANTS
    m1 = m1
    m2 = m2
    Mail = {m1}
    List = {1, 2}
    Address = {a1}
    To <- ToBoth
    DryRuns = {FALSE, TRUE}
    MaxTries = 2
SPECIFICATION FairSpec
PROPERTIES
    DryFlushChangesNothing
    ImplementsDelivery
    OutboxDrains
