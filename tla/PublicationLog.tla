---------------------------- MODULE PublicationLog ----------------------------
(***************************************************************************)
(* What the control plane promises those who export and apply a zone's     *)
(* publications: manifests are immutable and named once, and the commit    *)
(* pointer only moves forward, each time to a manifest of the current      *)
(* writer epoch that was compiled from the revision it replaces.           *)
(* PublicationOwnership implements it; PublicationExport builds on it.     *)
(***************************************************************************)
EXTENDS Naturals

CONSTANTS Contents   \* compiled zone states

VARIABLES
    epoch,      \* WriterEpoch of the ownership record, 0 before it exists
    manifests,  \* the manifests that were staged
    active      \* the fence the commit pointer names

logVars == <<epoch, manifests, active>>

Fence == [epoch : Nat, revision : Nat]
NoFence == [epoch |-> 0, revision |-> 0]
Manifest == [epoch : Nat, revision : Nat, previous : Nat, content : Contents]
FenceOf(m) == [epoch |-> m.epoch, revision |-> m.revision]

\* model.Compare > 0
Later(a, b) == \/ a.epoch > b.epoch
               \/ a.epoch = b.epoch /\ a.revision > b.revision

\* The revision a commit in the present epoch replaces.
Base == IF active.epoch = epoch THEN active.revision ELSE 0

LogInit == epoch = 0 /\ manifests = {} /\ active = NoFence

\* A process takes the record over, in a later epoch.
NewEpoch ==
    /\ epoch' \in Nat /\ epoch' > epoch
    /\ UNCHANGED <<manifests, active>>

\* A manifest is staged under a name that was never used.
Stage ==
    /\ \E m \in manifests' :
         /\ manifests' = manifests \cup {m}
         /\ m \in Manifest
         /\ m.epoch <= epoch
         /\ \A n \in manifests : FenceOf(n) # FenceOf(m)
    /\ UNCHANGED <<epoch, active>>

\* The commit pointer moves to a staged manifest.
CommitTo(m) ==
    /\ m.epoch = epoch
    /\ Later(m, active)
    /\ m.previous = Base
    /\ active' = FenceOf(m)
    /\ UNCHANGED <<epoch, manifests>>

LogNext == NewEpoch \/ Stage \/ (\E m \in manifests : CommitTo(m))

LogSpec == LogInit /\ [][LogNext]_logVars
=============================================================================
