------------------------- MODULE MCRecordProgramming -------------------------
(* Small instances of RecordProgramming. *)
EXTENDS RecordProgramming, TLC

CONSTANTS r1, r2

MCKeys == {<<"w", "A">>, <<"w", "CNAME">>, <<"x", "A">>}

\* One record set that gains and loses a name and changes its type.
OneSet == {r1}
OneSetSpecs == r1 :> {{<<"w", "A">>}, {<<"w", "A">>, <<"x", "A">>}, {<<"w", "CNAME">>}}

\* Two record sets with records that exclude each other at one of the names.
TwoSets == {r1, r2}
ExclusiveSpecs == r1 :> {{<<"w", "A">>}, {<<"x", "A">>}} @@ r2 :> {{<<"w", "CNAME">>}}

\* Two record sets that list the same RRset.
ContendedSpecs == [r \in TwoSets |-> {{<<"w", "A">>}}]
=============================================================================
