CONSTANTS
    r1 = r1
    r2 = r2
    RecordSets <- TwoSets
    Keys <- MCKeys
    SpecsOf <- BothSpecs
    None = None
    ZoneMayGo = TRUE
    MaxChanges = 3
    MaxFailures = 1
    MaxCrashes = 1
SPECIFICATION MCSpec
INVARIANTS ProgrammedIsServed NothingLeftBehind
PROPERTIES  EventuallySettled
CHECK_DEADLOCK FALSE
