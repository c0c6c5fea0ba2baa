------------------------- MODULE PrivateReplication -------------------------
(***************************************************************************)
(* Private DNS objects between a project's API and the federation hub      *)
(* (internal/privatereplication): the replicator copies a project's object *)
(* into the hub, the object mirror copies a region's object from the hub   *)
(* into the project, and the status mirror merges the regions' entries,    *)
(* which the hub collects, into the project object's status.               *)
(*                                                                         *)
(* One name of one kind, a record set's: an object is its origin UID and   *)
(* generation, the origin it is labelled with, its deletion mark and its   *)
(* finalizer, UID 0 standing for no object.  The clients read these kinds  *)
(* from the API, not from a cache, and each controller runs one pass per   *)
(* name at a time.  A write under an optimistic lock fails when the object *)
(* has changed since it was read.                                          *)
(***************************************************************************)
EXTENDS Naturals, FiniteSets

CONSTANTS
    Members,    \* clusters the hub may place an object in
    RegionOf,   \* the region of each
    MaxUid,     \* bound: objects ever created
    MaxGen,     \* bound: generations of one object
    MaxChanges  \* bound: changes of the zone, the placement and the labels

VARIABLES
    prUp,       \* the project's object
    prHub,      \* the hub's object
    prZone,     \* the zone a record set names: "missing", "public", "private"
    prUids,     \* UIDs given out
    prQueue,    \* controllers whose queue holds the name
    prPass,     \* the replicator's pass
    prMirror,   \* the object mirror's pass
    prStatus,   \* the status mirror's pass
    prPlaced,   \* ResourceBinding: the members the object is placed in
    prReports,  \* ResourceBinding: the generation each member reports published
    prChanges

prVars == <<prUp, prHub, prZone, prUids, prQueue, prPass, prMirror, prStatus, prPlaced, prReports, prChanges>>

Regions == {RegionOf[m] : m \in Members}
Origins == {"none", "project", "region"}
NoEntries == [r \in Regions |-> 0]
NoUp == [uid |-> 0, gen |-> 0, origin |-> "none", dying |-> FALSE, fin |-> FALSE, entries |-> NoEntries, published |-> 0]
NoHub == [uid |-> 0, gen |-> 0, origin |-> "none", dying |-> FALSE, fin |-> FALSE]
IdlePass == [stage |-> "idle", up |-> NoUp]
IdleMirror == [stage |-> "idle", hub |-> NoHub]
IdleStatus == [stage |-> "idle", up |-> NoUp, placed |-> {}, reports |-> [m \in Members |-> 0]]

ReplicationTypeOK ==
    /\ prUp.uid \in 0..MaxUid /\ prUp.origin \in Origins
    /\ prHub.uid \in 0..MaxUid /\ prHub.origin \in Origins
    /\ prQueue \subseteq {"replicator", "mirror", "status"}
    /\ prPlaced \subseteq Members
    /\ prReports \in [Members -> 0..MaxGen]

ReplicationInit ==
    /\ prUp = NoUp
    /\ prHub = NoHub
    /\ prZone = "missing"
    /\ prUids = 0
    /\ prQueue = {}
    /\ prPass = IdlePass
    /\ prMirror = IdleMirror
    /\ prStatus = IdleStatus
    /\ prPlaced = {}
    /\ prReports = [m \in Members |-> 0]
    /\ prChanges = 0

Passes == <<prPass, prMirror, prStatus>>
Binding == <<prPlaced, prReports>>

Queue(who) == prQueue' = prQueue \cup {who}

(* Deletion marks an object that has a finalizer and removes one that has  *)
(* none.                                                                   *)
Deleted(obj, none) == IF obj.fin THEN [obj EXCEPT !.dying = TRUE] ELSE none

(* Taking the finalizer off removes an object marked for deletion.         *)
Released(obj, none) == IF obj.dying THEN none ELSE [obj EXCEPT !.fin = FALSE]

(* The project's user.                                                     *)

CreateUp ==
    /\ prUp = NoUp
    /\ prUids < MaxUid
    /\ prUids' = prUids + 1
    /\ prUp' = [NoUp EXCEPT !.uid = prUids + 1, !.gen = 1, !.origin = "project"]
    /\ Queue("replicator")
    /\ UNCHANGED <<prHub, prZone, Passes, Binding, prChanges>>

EditUp ==
    /\ prUp.origin = "project"
    /\ prUp.gen < MaxGen
    /\ prUp' = [prUp EXCEPT !.gen = @ + 1]
    /\ Queue("replicator")
    /\ UNCHANGED <<prHub, prZone, prUids, Passes, Binding, prChanges>>

DeleteUp ==
    /\ prUp.origin = "project"
    /\ ~ prUp.dying
    /\ prUp' = Deleted(prUp, NoUp)
    /\ Queue("replicator")
    /\ UNCHANGED <<prHub, prZone, prUids, Passes, Binding, prChanges>>

(* The zone comes or goes.  Only a record set's own events queue it.       *)
ChangeZone(visibility) ==
    /\ prZone # visibility
    /\ prChanges < MaxChanges
    /\ prChanges' = prChanges + 1
    /\ prZone' = visibility
    /\ UNCHANGED <<prUp, prHub, prUids, prQueue, Passes, Binding>>

(* A region's publisher writes the hub (copyToHub, withdrawFromHub).       *)

RegionWrites ==
    /\ prHub.origin \in {"none", "region"}
    /\ \/ /\ prHub = NoHub
          /\ prUids < MaxUid
          /\ prUids' = prUids + 1
          /\ prHub' = [NoHub EXCEPT !.uid = prUids + 1, !.gen = 1, !.origin = "region"]
       \/ /\ prHub # NoHub
          /\ prHub.gen < MaxGen
          /\ prHub' = [prHub EXCEPT !.gen = @ + 1]
          /\ UNCHANGED prUids
    /\ Queue("mirror")
    /\ UNCHANGED <<prUp, prZone, Passes, Binding, prChanges>>

RegionWithdraws ==
    /\ prHub.origin = "region"
    /\ ~ prHub.dying
    /\ prHub' = Deleted(prHub, NoHub)
    /\ Queue("mirror")
    /\ UNCHANGED <<prUp, prZone, prUids, Passes, Binding, prChanges>>

(* Replicator.replicate.                                                   *)

(* private: a record set belongs to private DNS when its zone does.        *)
private == prZone = "private"

CopyFirst(up) ==
    IF up = NoUp \/ up.origin # "project" THEN "idle"
    ELSE IF up.dying \/ ~ private THEN (IF up.fin THEN "withdraw" ELSE "idle")
    ELSE "copy"

(* What a pass does with the object it read.                               *)
Plan(up) ==
    IF up = NoUp \/ up.origin # "project" THEN "idle"
    ELSE IF up.dying \/ ~ private THEN (IF up.fin THEN "withdraw" ELSE "idle")
    ELSE IF up.fin THEN "copy" ELSE "finalize"

ReplicateRead ==
    /\ "replicator" \in prQueue
    /\ prPass = IdlePass
    /\ prQueue' = prQueue \ {"replicator"}
    /\ prPass' = IF Plan(prUp) = "idle" THEN IdlePass ELSE [stage |-> Plan(prUp), up |-> prUp]
    /\ UNCHANGED <<prUp, prHub, prZone, prUids, prMirror, prStatus, Binding, prChanges>>

PassTo(stage, up) == prPass' = [stage |-> stage, up |-> up]

PassFails ==
    /\ prPass' = IdlePass
    /\ Queue("replicator")
    /\ UNCHANGED <<prUp, prHub, prZone, prUids, prMirror, prStatus, Binding, prChanges>>

(* A call of the pass fails, the lookup of the project's UID among them.   *)
ReplicateFails ==
    /\ prPass # IdlePass
    /\ PassFails

AddFinalizer ==
    /\ prPass.stage = "finalize"
    /\ prPass.up = prUp
    /\ prUp' = [prUp EXCEPT !.fin = TRUE]
    /\ PassTo("copy", prUp')
    /\ Queue("replicator")
    /\ UNCHANGED <<prHub, prZone, prUids, prMirror, prStatus, Binding, prChanges>>

(* copy leaves a copy that is of a later generation of the same object.    *)
Newer(hub, up) == hub.uid = up.uid /\ hub.gen > up.gen

Copied(hub, up) ==
    IF Newer(hub, up) THEN hub ELSE [hub EXCEPT !.uid = up.uid, !.gen = up.gen, !.origin = "project"]

(* ensureNamespace comes first; it fails or leaves the mapped namespace.   *)
copy ==
    /\ prPass.stage = "copy"
    /\ prHub.origin # "region"
    /\ prHub' = Copied(prHub, prPass.up)
    /\ prPass' = IdlePass
    /\ UNCHANGED <<prUp, prZone, prUids, prQueue, prMirror, prStatus, Binding, prChanges>>

withdraw ==
    /\ prPass.stage = "withdraw"
    /\ prHub.origin # "region"
    /\ prHub' = IF prHub = NoHub THEN NoHub ELSE Deleted(prHub, NoHub)
    /\ PassTo("release", prPass.up)
    /\ prPlaced' = {}
    /\ prReports' = [m \in Members |-> 0]
    /\ UNCHANGED <<prUp, prZone, prUids, prQueue, prMirror, prStatus, prChanges>>

RemoveFinalizer ==
    /\ prPass.stage = "release"
    /\ prPass.up = prUp
    /\ prUp' = Released(prUp, NoUp)
    /\ prPass' = IdlePass
    /\ UNCHANGED <<prHub, prZone, prUids, prQueue, prMirror, prStatus, Binding, prChanges>>

(* ObjectMirror.mirror.  An object in the hub keeps its origin label here, *)
(* so the branch that lets go of one whose label was taken away is absent. *)

MirrorPlan(hub) ==
    IF hub = NoHub THEN "idle"
    ELSE IF hub.origin # "region" THEN "idle"
    ELSE IF hub.dying THEN (IF hub.fin THEN "withdraw" ELSE "idle")
    ELSE IF hub.fin THEN "write" ELSE "finalize"

MirrorRead ==
    /\ "mirror" \in prQueue
    /\ prMirror = IdleMirror
    /\ prQueue' = prQueue \ {"mirror"}
    /\ prMirror' = IF MirrorPlan(prHub) = "idle" THEN IdleMirror ELSE [stage |-> MirrorPlan(prHub), hub |-> prHub]
    /\ UNCHANGED <<prUp, prHub, prZone, prUids, prPass, prStatus, Binding, prChanges>>

MirrorFails ==
    /\ prMirror # IdleMirror
    /\ prMirror' = IdleMirror
    /\ Queue("mirror")
    /\ UNCHANGED <<prUp, prHub, prZone, prUids, prPass, prStatus, Binding, prChanges>>

MirrorFinalizer ==
    /\ prMirror.stage = "finalize"
    /\ prMirror.hub = prHub
    /\ prHub' = [prHub EXCEPT !.fin = TRUE]
    /\ prMirror' = [stage |-> "write", hub |-> prHub']
    /\ Queue("mirror")
    /\ UNCHANGED <<prUp, prZone, prUids, prPass, prStatus, Binding, prChanges>>

(* The project's object is left alone when it is of another origin.  The   *)
(* check and the write are one step: the window between them is the one    *)
(* InputFeed's ApplyCheck and ApplyWrite show.                             *)
MirrorWrite ==
    /\ prMirror.stage = "write"
    /\ prUp.origin # "project"
    /\ prUp' = [prUp EXCEPT !.uid = prMirror.hub.uid, !.gen = prMirror.hub.gen, !.origin = "region"]
    /\ prMirror' = IdleMirror
    /\ UNCHANGED <<prHub, prZone, prUids, prQueue, prPass, prStatus, Binding, prChanges>>

MirrorRemoves == prUp' = IF prUp.origin = "region" THEN NoUp ELSE prUp

MirrorWithdraw ==
    /\ prMirror.stage = "withdraw"
    /\ MirrorRemoves
    /\ prMirror' = [prMirror EXCEPT !.stage = "release"]
    /\ UNCHANGED <<prHub, prZone, prUids, prQueue, prPass, prStatus, Binding, prChanges>>

MirrorRelease ==
    /\ prMirror.stage = "release"
    /\ prMirror.hub = prHub
    /\ prHub' = Released(prHub, NoHub)
    /\ prMirror' = IdleMirror
    /\ UNCHANGED <<prUp, prZone, prUids, prQueue, prPass, prStatus, Binding, prChanges>>

(* The hub places its copy of the project's object, and each member's      *)
(* region publishes it and reports.                                        *)

Place(m) ==
    /\ prHub.origin = "project"
    /\ m \notin prPlaced
    /\ prChanges < MaxChanges
    /\ prChanges' = prChanges + 1
    /\ prPlaced' = prPlaced \cup {m}
    /\ Queue("status")
    /\ UNCHANGED <<prUp, prHub, prZone, prUids, Passes, prReports>>

Report(m) ==
    /\ m \in prPlaced
    /\ prHub.origin = "project"
    /\ prReports[m] # prHub.gen
    /\ prReports' = [prReports EXCEPT ![m] = prHub.gen]
    /\ Queue("status")
    /\ UNCHANGED <<prUp, prHub, prZone, prUids, Passes, prPlaced, prChanges>>

(* StatusMirror.mirror.                                                    *)

(* regionEntries: a region two members report keeps the newer entry.       *)
regionEntries(reports) ==
    [r \in Regions |-> CHOOSE g \in 0..MaxGen :
        /\ \E m \in Members : RegionOf[m] = r /\ reports[m] = g
        /\ \A m \in Members : RegionOf[m] = r => reports[m] <= g]

Reporting(entries) == {r \in Regions : entries[r] > 0}

IgnoreMissing(entries, placed) == FALSE

(* Fewer regions have reported than the hub placed the object in.          *)
Missing(entries, placed) == Cardinality(placed) > Cardinality(Reporting(entries))

(* applyRegions: the regions that report replace their entries, the others *)
(* stay, and Published waits for every entry and for the rest.             *)
applyRegions(up, entries, placed) ==
    LET merged == [r \in Regions |-> IF entries[r] > 0 THEN entries[r] ELSE up.entries[r]]
        pending == Missing(entries, placed) \/ \E r \in Reporting(merged) : merged[r] # up.gen
    IN  [up EXCEPT !.entries = merged, !.published = IF pending THEN 0 ELSE up.gen]

StatusRead ==
    /\ "status" \in prQueue
    /\ prStatus = IdleStatus
    /\ prQueue' = prQueue \ {"status"}
    /\ prStatus' = IF prPlaced = {} \/ Reporting(regionEntries(prReports)) = {} \/ prUp = NoUp THEN IdleStatus
                   ELSE [stage |-> "patch", up |-> prUp, placed |-> prPlaced, reports |-> prReports]
    /\ UNCHANGED <<prUp, prHub, prZone, prUids, prPass, prMirror, Binding, prChanges>>

StatusPatch ==
    /\ prStatus.stage = "patch"
    /\ prStatus' = IdleStatus
    /\ LET up == applyRegions(prStatus.up, regionEntries(prStatus.reports), prStatus.placed)
       IN  \/ /\ up = prStatus.up \/ prStatus.up = prUp
              /\ prUp' = IF up = prStatus.up THEN prUp ELSE up
              /\ prQueue' = IF prUp' = prUp THEN prQueue ELSE prQueue \cup {"replicator"}
           \/ /\ up # prStatus.up /\ prStatus.up # prUp
              /\ Queue("status")
              /\ UNCHANGED prUp
    /\ UNCHANGED <<prHub, prZone, prUids, prPass, prMirror, Binding, prChanges>>

ReplicationNext ==
    \/ CreateUp \/ EditUp \/ DeleteUp \/ \E v \in {"missing", "public", "private"} : ChangeZone(v)
    \/ RegionWrites \/ RegionWithdraws
    \/ ReplicateRead \/ ReplicateFails \/ AddFinalizer \/ copy \/ withdraw \/ RemoveFinalizer
    \/ MirrorRead \/ MirrorFails \/ MirrorFinalizer \/ MirrorWrite \/ MirrorWithdraw \/ MirrorRelease
    \/ \E m \in Members : Place(m) \/ Report(m)
    \/ StatusRead \/ StatusPatch

-----------------------------------------------------------------------------

(* Invariant: an object that has left the project, or that the replicator  *)
(* has let go, has no copy in the hub, and an object a region withdrew     *)
(* from the hub has none in the project, at whatever step a pass fails     *)
(* (replicator.go:79-94 and 173-194, mirror.go:241-291).                   *)
ReleasedIsWithdrawn ==
    /\ prHub.origin = "project" => prHub.uid = prUp.uid /\ prUp.fin
    /\ prUp.origin = "region" => prHub.uid = prUp.uid /\ prHub.fin
=============================================================================
