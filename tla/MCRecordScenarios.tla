-------------------------- MODULE MCRecordScenarios --------------------------
(* RecordProgramming in two scenarios: one record set, which begins with two   *)
(* names, with a fault and a zone that may go; or two whose records exclude    *)
(* each other, in a zone that is programmed, without.                          *)
EXTENDS MCRecordProgramming

VARIABLE scenario

BothSpecs == r1 :> (OneSetSpecs[r1] \cup ExclusiveSpecs[r1]) @@ r2 :> ExclusiveSpecs[r2]

MCInit == Init /\ scenario \in {"one", "two"}

\* The set that is never created is taken off the queue at once: its pass does
\* nothing, whenever it runs.
OneOnly ==
    /\ r2 \in queue => Nothing(r2)
    /\ obj'[r2] = NoObject
    /\ obj'[r1].spec \in {{}} \cup OneSetSpecs[r1]
    /\ obj'[r1].gen = 1 => obj'[r1].spec = {<<"w", "A">>, <<"x", "A">>}
    /\ failures' + crashes' <= 1

TwoExclusive ==
    /\ obj'[r1].spec \in {{}} \cup ExclusiveSpecs[r1]
    /\ zone'.state = "live" /\ (changes' # changes => zone.programmed)
    /\ failures' + crashes' = 0

MCNext ==
    /\ Next
    /\ scenario = "one" => OneOnly
    /\ scenario = "two" => TwoExclusive
    /\ UNCHANGED scenario

MCSpec == MCInit /\ [][MCNext]_<<vars, scenario>> /\ Fairness
=============================================================================
