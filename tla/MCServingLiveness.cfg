\* Convergence on the last publication, after a fault.
SPECIFICATION MCFairSpec
CONSTANTS
    Gone = Gone
    One = One
    Two = Two
    Contents = {Gone, One}
    RecordsOf <- MCRecordsOf
    SeenOf <- MCSeenOf
    SeenTwo = 1
    First = {One}
    Ordered = TRUE
    Nil = Nil
    Gated = Gated
    Empty = Empty
    MaxLog = 2
    MaxFaults = 1
PROPERTY EventuallyServed
