--------------------------- MODULE MCServingAgent ---------------------------
(* ServingAgent on a zone with two records. *)
EXTENDS ServingAgent, TLC

CONSTANTS One, Two,
          SeenTwo,  \* the observation Two is compiled from; One is from the first
          First     \* what the first publication may be

MCRecordsOf == [c \in Contents |-> IF c = Gone THEN {}
                                   ELSE IF c = One THEN {"a"} ELSE {"a", "b"}]
MCSeenOf == [c \in Contents |-> IF c = One THEN 1 ELSE IF c = Gone THEN 0 ELSE SeenTwo]

\* What comes first is something to withdraw; what follows is anything.
MCNext == Next /\ (log = <<>> /\ log' # log => log'[1].content \in First)

MCSpec == Init /\ [][MCNext]_vars
MCFairSpec == MCSpec /\ Fairness
=============================================================================
