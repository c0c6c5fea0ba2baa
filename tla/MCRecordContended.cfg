CONSTANTS
    r1 = r1
    r2 = r2
    RecordSets <- TwoSets
    Keys <- MCKeys
    SpecsOf <- ContendedSpecs
    None = None
    ZoneMayGo = FALSE
    MaxChanges = 3
    MaxFailures = 0
    MaxCrashes = 0
SPECIFICATION FairSpec
PROPERTY ClaimedNameIsServed
CHECK_DEADLOCK FALSE
