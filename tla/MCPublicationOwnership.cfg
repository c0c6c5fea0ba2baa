CONSTANTS
    p1 = p1
    p2 = p2
    w1 = w1
    w2 = w2
    w3 = w3
    Workers <- MCWorkers
    Compilers <- MCCompilers
    Identities <- MCIdentities
    IdentityOf <- MCIdentityOf
    Contents = {c1, gone}
    Tombstone = gone
    NoOne = NoOne
    NoHash = NoHash
    MaxTicks = 2
    MaxSkip = 1
    MaxStops = 1
    MaxChanges = 1
SPECIFICATION FairSpec
PROPERTIES ImplementsLog EventuallyPublished
