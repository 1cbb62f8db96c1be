CONSTANTS
    m1 = m1
    m2 = m2
    Mail = {m1}
    List = {1}
    Address = {a1}
    To <- ToBoth
    DryRuns = {TRUE}
    MaxTries = 1
SPECIFICATION Spec
PROPERTIES
    DryPostChangesNothing
