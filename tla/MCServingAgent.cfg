\* Two publications from any observations, and two faults.
SPECIFICATION MCSpec
CONSTANTS
    Gone = Gone
    One = One
    Two = Two
    Contents = {Gone, One, Two}
    RecordsOf <- MCRecordsOf
    SeenOf <- MCSeenOf
    SeenTwo = 2
    First = {Two}
    Ordered = FALSE
    Nil = Nil
    Gated = Gated
    Empty = Empty
    MaxLog = 2
    MaxFaults = 2
INVARIANTS NoResurrection WithdrawalGates RestoredExpires
PROPERTIES AckIsProven FencesAdvance
