\* A withdrawal that fails after an approval that failed.
SPECIFICATION MCSpec
CONSTANTS
    Gone = Gone
    One = One
    Two = Two
    Contents = {Gone, One}
    RecordsOf <- MCRecordsOf
    SeenOf <- MCSeenOf
    SeenTwo = 1
    First = {One}
    Ordered = TRUE
    Nil = Nil
    Gated = Gated
    Empty = Empty
    MaxLog = 2
    MaxFaults = 2
INVARIANT WithdrawnIsNotServed
