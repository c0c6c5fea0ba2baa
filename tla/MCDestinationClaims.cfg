CONSTANTS
    p1 = p1
    p2 = p2
    c1 = c1
    c2 = c2
    r1 = r1
    r2 = r2
    o1 = o1
    o2 = o2
    None = None
    Claimers <- TwoClaimers
    Contexts <- TwoContexts
    ContextOf <- OneEach
    Reservers <- TwoReservers
    Owners <- TwoOwners
    OwnerOf <- OneReserverEach
    MaxCrashes = 2
    MaxChanges = 3
SPECIFICATION FairSpec
INVARIANT ClaimsHold
PROPERTY EventuallyReleased
