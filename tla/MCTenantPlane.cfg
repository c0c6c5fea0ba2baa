CONSTANTS
    p1 = p1
    p2 = p2
    d1 = d1
    d2 = d2
    Projects = {p1, p2}
    Private = {}
    None = None
    MaxChanges = 3
    MaxFaults = 1
    Parts = {"zones", "discovery", "replica", "admission", "commands", "create", "wait", "publish", "apply", "foreign", "lost", "copies"}
SPECIFICATION MCSpec
INVARIANTS
    ShadowIsAccounted
    ServedIsProven
    QuietIsReplicated
    QuietIsDiscovered
    
    
    MissedEventsHeal
    
PROPERTIES
    UnnamedSurvives
    
    
CHECK_DEADLOCK FALSE
