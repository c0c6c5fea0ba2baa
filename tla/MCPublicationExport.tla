------------------------- MODULE MCPublicationExport -------------------------
(***************************************************************************)
(* Instances of PublicationExport: a content of one chunk and a tombstone. *)
(***************************************************************************)
EXTENDS PublicationExport, TLC

CONSTANTS Zone, Gone   \* model values: a zone's records, and none

MCChunkCount == [c \in Contents |-> IF c = Zone THEN 1 ELSE 0]

\* Three manifests, or two and a failure.
MCNext == Next /\ (failures' > 0 => Cardinality(manifests') < MaxManifests)

MCSpec == Init /\ [][MCNext]_vars /\ Fairness
==============================================================================
