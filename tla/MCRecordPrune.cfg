CONSTANTS
    r1 = r1
    r2 = r2
    RecordSets <- OneSet
    Keys <- MCKeys
    SpecsOf <- OneSetSpecs
    None = None
    ZoneMayGo = TRUE
    MaxChanges = 2
    MaxFailures = 1
    MaxCrashes = 0
SPECIFICATION FairSpec
PROPERTY EventuallyPruned
CHECK_DEADLOCK FALSE
