CONSTANTS
    Processes = {p1, p2}
    Duration = 3
    Third = 1
    MaxSkew = 1
    None = None
    MaxTime = 4
    MaxVersion = 2
    c1 = c1
    c2 = c2
    z1 = z1
    z2 = z2
    a1 = a1
    a2 = a2
    n1 = n1
    Parts = {"lease", "store", "claims", "capacity", "proof", "targets", "regions", "collect", "activation", "routing", "replace", "policy", "limit", "consumer", "access", "fence", "reserve", "srv"}
SPECIFICATION MCSpec
INVARIANTS
    
    
    
    
    PrivateStaysPrivate
    AttachmentsHold
    PublicationIsCurrent
PROPERTIES
    StoreIsWhole
    ShardKeepsItsWord
    
    
    GuardedRespectsReservations
CHECK_DEADLOCK FALSE
