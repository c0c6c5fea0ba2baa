-------------------------- MODULE RecordReplication --------------------------
(***************************************************************************)
(* How one upstream DNSRecordSet reaches the authoritative cluster:        *)
(* DNSRecordSetReplicator (internal/controller/                            *)
(* dnsrecordset_replicator_controller.go), the downstream-termination      *)
(* checks, the upstream-owner watch, and the Programmed events.            *)
(*                                                                         *)
(* A pass runs only when something queued the record set: a change of the  *)
(* record set itself, a change of its downstream shadow, a retry, or the   *)
(* informers' resync.  A change of the zone queues nothing.  The shadow    *)
(* and its anchor are read from the downstream cache, which may miss a     *)
(* change for a while; the record set and the zone are read as they are.   *)
(* Incarnations of the zone and of the anchor are numbered: an owner       *)
(* reference names an incarnation.                                         *)
(***************************************************************************)
EXTENDS Naturals, FiniteSets

CONSTANTS
    MaxEdits,     \* bound: changes of the record set, the zone, the namespace
    MaxAnchors,   \* bound: incarnations of the anchor
    MaxVerdicts   \* bound: reports of the downstream controller

VARIABLES
    rrZone,     \* the zone the record set names: state and incarnation
    rrSet,      \* the upstream DNSRecordSet
    rrNs,       \* the downstream namespace: "live" or "terminating"
    rrAnchor,   \* incarnation of the anchor that exists, or 0
    rrShadow,   \* the downstream DNSRecordSet
    rrCache,    \* anchor and shadow as the downstream cache has them
    rrQueued,   \* the record set waits for a pass
    rrPass,     \* the step the running pass is at, and the edit it read
    rrEvent,    \* the last Programmed event emitted: "none", "True" or "False"
    rrBlind,    \* history: the finalizer went while the cache missed the anchor
    rrMade, rrEdits, rrVerdicts

rrUp == <<rrZone, rrSet>>
rrDown == <<rrNs, rrAnchor, rrShadow, rrCache>>
rrBounds == <<rrMade, rrEdits, rrVerdicts>>
rrSeen == <<rrEvent, rrBlind>>
rrVars == <<rrUp, rrDown, rrQueued, rrPass, rrSeen, rrBounds>>

NoStatus == [accepted |-> "unset", programmed |-> "unset", of |-> 0]
NoSet == [state |-> "absent", fin |-> FALSE, owner |-> 0, edit |-> 0, status |-> NoStatus]
NoShadowSet == [state |-> "absent", owners |-> {}, edit |-> 0, status |-> NoStatus]
NoPass == [at |-> "idle", edit |-> 0]

ReplicaInit ==
    /\ rrZone \in {[state |-> "absent", uid |-> 0], [state |-> "public", uid |-> 1]}
    /\ rrSet = NoSet
    /\ rrNs = "live"
    /\ rrAnchor = 0
    /\ rrShadow = NoShadowSet
    /\ rrCache = [anchor |-> 0, shadow |-> NoShadowSet]
    /\ rrQueued = FALSE
    /\ rrPass = NoPass
    /\ rrEvent = "none" /\ rrBlind = FALSE
    /\ rrMade = 0 /\ rrEdits = 0 /\ rrVerdicts = 0

-----------------------------------------------------------------------------
(* Users, the zone, and the two clusters.                                  *)

Edit == rrEdits < MaxEdits /\ rrEdits' = rrEdits + 1 /\ UNCHANGED <<rrMade, rrVerdicts>>

\* An object being deleted goes away with its last finalizer.  A set made again
\* under its name has another anchor and is not followed here.
Settled(s) == IF s.state = "deleting" /\ ~s.fin THEN [s EXCEPT !.state = "gone"] ELSE s

\* Every write of the record set is an event of the upstream watch.
WriteSet(s) == rrSet' = Settled(s) /\ rrQueued' = (rrQueued \/ Settled(s) # rrSet)

EditSet ==
    /\ rrSet.state \in {"absent", "live"}
    /\ Edit
    /\ WriteSet([rrSet EXCEPT !.state = "live", !.edit = rrEdits + 1])
    /\ UNCHANGED <<rrZone, rrDown, rrPass, rrSeen>>

DeleteSet ==
    /\ rrSet.state = "live"
    /\ Edit
    /\ WriteSet([rrSet EXCEPT !.state = "deleting"])
    /\ UNCHANGED <<rrZone, rrDown, rrPass, rrSeen>>

ChangeZone ==
    /\ Edit
    /\ \/ /\ rrZone.state = "absent"
          /\ \E v \in {"public", "private"} : rrZone' = [state |-> v, uid |-> rrZone.uid + 1]
       \/ /\ rrZone.state = "public"
          /\ rrZone' = [rrZone EXCEPT !.state = "deleting"]
       \/ /\ rrZone.state \in {"deleting", "private"}
          /\ rrZone' = [rrZone EXCEPT !.state = "absent"]
    /\ UNCHANGED <<rrSet, rrDown, rrQueued, rrPass, rrSeen>>

\* Garbage collection upstream: the zone that controls the record set is gone.
CollectSet ==
    /\ rrSet.state = "live"
    /\ rrSet.owner # 0
    /\ rrZone.state = "absent" \/ rrZone.uid # rrSet.owner
    /\ WriteSet([rrSet EXCEPT !.state = "deleting"])
    /\ UNCHANGED <<rrZone, rrDown, rrPass, rrSeen, rrBounds>>

\* A change of the anchor or the shadow; the cache follows now or later, and
\* the watch queues the record set when the cache does.
Downstream(anchor, shadow) ==
    /\ rrAnchor' = anchor
    /\ rrShadow' = shadow
    /\ UNCHANGED <<rrNs, rrCache>>

\* TypedEnqueueRequestForUpstreamOwner maps a shadow to its upstream record set
\* by the annotations SetControllerReference left; an anchor carries none that
\* names a kind the watch asks for.
EnqueueUpstreamOwner(old, new) == old # new

CatchUpAnchor ==
    /\ rrCache.anchor # rrAnchor
    /\ rrCache' = [rrCache EXCEPT !.anchor = rrAnchor]
    /\ UNCHANGED <<rrUp, rrNs, rrAnchor, rrShadow, rrQueued, rrPass, rrSeen, rrBounds>>

CatchUpShadow ==
    /\ rrCache.shadow # rrShadow
    /\ rrCache' = [rrCache EXCEPT !.shadow = rrShadow]
    /\ rrQueued' = (rrQueued \/ EnqueueUpstreamOwner(rrCache.shadow, rrShadow))
    /\ UNCHANGED <<rrUp, rrNs, rrAnchor, rrShadow, rrPass, rrSeen, rrBounds>>

\* Garbage collection downstream: no owner of the shadow is left.
CollectReplica ==
    /\ rrShadow.state = "live"
    /\ rrAnchor \notin rrShadow.owners
    /\ Downstream(rrAnchor, [rrShadow EXCEPT !.state = "deleting"])
    /\ UNCHANGED <<rrUp, rrQueued, rrPass, rrSeen, rrBounds>>

\* The record controller finalizes a shadow, or reports what programming it did
\* (RecordProgramming).
FinalizeReplica ==
    /\ rrShadow.state = "deleting"
    /\ Downstream(rrAnchor, NoShadowSet)
    /\ UNCHANGED <<rrUp, rrQueued, rrPass, rrSeen, rrBounds>>

ProgramReplica ==
    /\ rrShadow.state = "live"
    /\ rrShadow.status.of # rrShadow.edit \/ rrShadow.status.programmed = "False"
    /\ Downstream(rrAnchor, [rrShadow EXCEPT !.status =
         [accepted |-> "True", programmed |-> "True", of |-> rrShadow.edit]])
    /\ UNCHANGED <<rrUp, rrQueued, rrPass, rrSeen, rrBounds>>

FailReplica ==
    /\ rrShadow.state = "live"
    /\ rrVerdicts < MaxVerdicts
    /\ rrVerdicts' = rrVerdicts + 1
    /\ Downstream(rrAnchor, [rrShadow EXCEPT !.status =
         [accepted |-> "True", programmed |-> "False", of |-> rrShadow.edit]])
    /\ UNCHANGED <<rrUp, rrQueued, rrPass, rrSeen, rrMade, rrEdits>>

\* The downstream namespace is deleted: its anchor and shadow go, then a later
\* pass makes it anew.
TerminateNs ==
    /\ rrNs = "live"
    /\ rrMade < MaxAnchors - 1
    /\ Edit
    /\ rrNs' = "terminating"
    /\ UNCHANGED <<rrUp, rrAnchor, rrShadow, rrCache, rrQueued, rrPass, rrSeen>>

EmptyNs ==
    /\ rrNs = "terminating"
    /\ IF rrAnchor # 0 \/ rrShadow.state = "live"
         THEN /\ rrAnchor' = 0
              /\ rrShadow' = IF rrShadow.state = "live"
                               THEN [rrShadow EXCEPT !.state = "deleting"] ELSE rrShadow
              /\ UNCHANGED rrNs
         ELSE /\ rrShadow.state = "absent"
              /\ rrNs' = "live"
              /\ UNCHANGED <<rrAnchor, rrShadow>>
    /\ UNCHANGED <<rrUp, rrCache, rrQueued, rrPass, rrSeen, rrBounds>>

\* The informers' resync, and a restart of the operator, queue every object (one
\* that falls into a pass counts as falling right behind it).
ResyncSet ==
    /\ rrPass.at = "idle"
    /\ rrSet.state \in {"live", "deleting"}
    /\ ~rrQueued
    /\ rrQueued' = TRUE
    /\ UNCHANGED <<rrUp, rrDown, rrPass, rrSeen, rrBounds>>

-----------------------------------------------------------------------------
(* A pass.                                                                 *)

PassTo(at) == rrPass' = [at |-> at, edit |-> rrSet.edit]
PassEnds == rrPass' = NoPass

\* Fault: the anchor is left to the garbage collector.
KeepAnchor == rrAnchor

\* DeleteAnchorForObject: the anchor the cache shows is deleted; with none in
\* the cache there is nothing to delete.
DeleteAnchorForObject == IF rrCache.anchor = rrAnchor THEN 0 ELSE rrAnchor

\* handleDeletion: without the finalizer there is nothing to do; while the cache
\* shows a shadow, delete it and wait for its events; then the anchor goes, and
\* the finalizer in a call of its own.
HandleDeletion ==
    IF ~rrSet.fin
      THEN PassEnds /\ rrQueued' = FALSE /\ UNCHANGED <<rrSet, rrDown, rrBlind>>
      ELSE IF rrCache.shadow.state # "absent"
        THEN /\ Downstream(rrAnchor, IF rrShadow.state = "live" /\ rrCache.shadow.state = "live"
                                       THEN [rrShadow EXCEPT !.state = "deleting"] ELSE rrShadow)
             /\ PassEnds
             /\ rrQueued' = FALSE
             /\ UNCHANGED <<rrSet, rrBlind>>
        ELSE /\ Downstream(DeleteAnchorForObject, rrShadow)
             /\ rrBlind' = (rrCache.anchor # rrAnchor)
             /\ PassTo("release")
             /\ rrQueued' = FALSE
             /\ UNCHANGED rrSet

\* The finalizer goes by a merge patch of the copy the pass read.
ReleaseSet ==
    /\ rrPass.at = "release"
    /\ PassEnds
    /\ WriteSet([rrSet EXCEPT !.fin = FALSE])
    /\ UNCHANGED <<rrZone, rrDown, rrSeen, rrBounds>>

\* One write of the record set ends the pass; its event starts the next.
Rewrite(s) ==
    /\ rrSet' = s
    /\ rrQueued' = (s # rrSet)
    /\ PassEnds
    /\ UNCHANGED <<rrDown, rrBlind>>

\* checkDownstreamNamespace: a namespace that is going is tried again in a minute.
CheckDownstreamNamespace ==
    /\ UNCHANGED <<rrSet, rrDown, rrBlind>>
    /\ IF rrNs = "terminating"
         THEN PassEnds /\ rrQueued' = TRUE
         ELSE PassTo("anchor") /\ rrQueued' = FALSE

\* Reconcile, up to the calls downstream.  A record set may come before its zone,
\* so the finalizer waits until the zone's visibility is known.
ReconcileSet ==
    /\ rrPass.at = "idle"
    /\ rrQueued
    /\ LET skip == PassEnds /\ rrQueued' = FALSE /\ UNCHANGED <<rrSet, rrDown, rrBlind>>
           live == rrSet.state = "live"
           known == live /\ rrZone.state \in {"public", "deleting"}
           public == known /\ rrZone.state = "public" /\ rrSet.fin
       IN  \/ rrSet.state \in {"absent", "gone"} /\ skip
           \/ rrSet.state = "deleting" /\ HandleDeletion
           \/ live /\ rrZone.state = "private" /\ HandleDeletion
           \/ known /\ ~rrSet.fin /\ Rewrite([rrSet EXCEPT !.fin = TRUE])
           \/ /\ live /\ rrZone.state = "absent"
              /\ Rewrite([rrSet EXCEPT !.status.accepted = "Pending"])
           \/ known /\ rrZone.state = "deleting" /\ rrSet.fin /\ skip
           \/ public /\ rrSet.owner = 0 /\ Rewrite([rrSet EXCEPT !.owner = rrZone.uid])
           \/ \* another zone controls it: SetControllerReference fails, and a retry follows
              public /\ rrSet.owner \notin {0, rrZone.uid} /\ UNCHANGED <<rrSet, rrDown, rrPass, rrQueued, rrBlind>>
           \/ public /\ rrSet.owner = rrZone.uid /\ CheckDownstreamNamespace
    /\ UNCHANGED <<rrZone, rrEvent, rrBounds>>

\* A call downstream that fails ends the pass and has it retried.
PassFails == PassEnds /\ rrQueued' = TRUE /\ UNCHANGED <<rrDown, rrMade>>

\* SetControllerReference, inside CreateOrPatch: a dying shadow is left alone;
\* the anchor the cache lacks is created, which fails when it exists and when
\* the namespace is going.
EnsureSetAnchor ==
    /\ rrPass.at = "anchor"
    /\ IF rrCache.shadow.state = "deleting" \/ (rrCache.anchor = 0 /\ (rrAnchor # 0 \/ rrNs = "terminating"))
         THEN PassFails
         ELSE /\ rrPass' = [rrPass EXCEPT !.at = IF rrCache.shadow.state = "absent" THEN "create" ELSE "patch"]
              /\ UNCHANGED rrQueued
              /\ IF rrCache.anchor # 0
                   THEN UNCHANGED <<rrDown, rrMade>>
                   ELSE /\ rrMade < MaxAnchors
                        /\ rrMade' = rrMade + 1
                        /\ Downstream(rrMade + 1, rrShadow)
    /\ UNCHANGED <<rrUp, rrSeen, rrEdits, rrVerdicts>>

\* The anchor the reference names: the one the cache shows, or the one just made.
Named == IF rrCache.anchor # 0 THEN rrCache.anchor ELSE rrMade

\* ensureDownstreamRecordSet: a create that finds the shadow there, and a patch
\* that finds it gone, fail.  A created shadow is read by a later pass.
EnsureDownstreamSet ==
    /\ rrPass.at \in {"create", "patch"}
    /\ LET create == rrPass.at = "create"
           there == rrShadow.state # "absent"
       IN  IF create = there \/ (create /\ rrNs = "terminating")
             THEN PassFails
             ELSE /\ Downstream(rrAnchor, [rrShadow EXCEPT !.state = IF create THEN "live" ELSE @,
                       !.owners = @ \cup {Named}, !.edit = rrPass.edit])
                  /\ rrPass' = IF create THEN NoPass ELSE [rrPass EXCEPT !.at = "mirror"]
                  /\ UNCHANGED <<rrQueued, rrMade>>
    /\ UNCHANGED <<rrUp, rrSeen, rrEdits, rrVerdicts>>

\* programmedConditionTransitioned.
ProgrammedConditionTransitioned(prev, curr) ==
    \/ curr = "True" /\ prev # "True"
    \/ curr = "False" /\ prev = "True"

\* updateStatus: the shadow's status, whole.
MirroredStatus(status) == status

\* updateStatus copies the shadow's whole status, as cached, over the record
\* set's; emitRecordSetEvent follows a transition of Programmed.
MirrorStatus ==
    /\ rrPass.at = "mirror"
    /\ PassEnds
    /\ IF rrCache.shadow.state = "absent"
         THEN rrQueued' = TRUE /\ UNCHANGED <<rrSet, rrEvent>>
         ELSE LET prev == rrSet.status.programmed
                  status == rrCache.shadow.status
              IN  /\ IF rrSet.state = "gone" THEN UNCHANGED <<rrSet, rrQueued>>
                     ELSE WriteSet([rrSet EXCEPT !.status = MirroredStatus(status)])
                  /\ rrEvent' = IF ProgrammedConditionTransitioned(prev, status.programmed)
                                   THEN status.programmed ELSE rrEvent
    /\ UNCHANGED <<rrZone, rrDown, rrBlind, rrBounds>>

AtPass == EnsureSetAnchor \/ EnsureDownstreamSet \/ MirrorStatus \/ ReleaseSet

ReplicaNext ==
    \/ EditSet \/ DeleteSet \/ ChangeZone \/ CollectSet \/ TerminateNs \/ EmptyNs
    \/ CatchUpAnchor \/ CatchUpShadow \/ CollectReplica \/ FinalizeReplica \/ ProgramReplica \/ FailReplica
    \/ ResyncSet \/ ReconcileSet \/ AtPass

-----------------------------------------------------------------------------
(* Properties.                                                             *)

\* handleDeletion releases a record set whose shadow the cache does not show yet.
\* The shadow is then collected all the same: once the record set is gone, a
\* live shadow has no anchor left, unless the cache missed the anchor as well.
ReleasedShadowIsCollected ==
    rrSet.state = "gone" /\ ~rrBlind /\ rrShadow.state = "live" => rrAnchor \notin rrShadow.owners
=============================================================================
