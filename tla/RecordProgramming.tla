-------------------------- MODULE RecordProgramming --------------------------
(***************************************************************************)
(* How the records of one public zone reach PowerDNS: DNSRecordSetReconciler*)
(* and DNSZoneReconciler (internal/controller) and the PowerDNS client they *)
(* call (internal/dns/pdns/client.go).                                     *)
(*                                                                         *)
(* The zone and its record sets are Kubernetes objects; a pass reads them  *)
(* from a cache that lags (cache, zcache) and patches the objects with     *)
(* merge patches that carry no precondition.  The work queue never runs    *)
(* two passes of one key at a time, so a record set has one pass; passes   *)
(* of different record sets interleave between any two calls.  A pass that *)
(* ends with an error or a RequeueAfter puts its key back in the queue:    *)
(* how long it waits is not modelled.                                      *)
(*                                                                         *)
(* An RRset carries comments that say which object wrote it, under which   *)
(* UID and at which generation (a stamp); its content is a function of     *)
(* that stamp.  The names of a record set fit one PATCH (patchChunkSize).  *)
(* The zone is public, of this operator's class, and is not created twice. *)
(* The zone's own Accepted condition and nameservers, which no reconciler  *)
(* here reads, are left out, and so are the ALIAS checks.                  *)
(***************************************************************************)
EXTENDS Naturals, FiniteSets

CONSTANTS
    RecordSets,   \* names of DNSRecordSet objects in the zone
    Keys,         \* RRsets: pairs of an owner name and a type
    SpecsOf,      \* per record set: the specs it may get, each a set of Keys
    None,         \* no RRset, no owner
    ZoneMayGo,    \* bound: whether a user may delete the zone
    MaxChanges,   \* bound: creations, edits and deletions
    MaxFailures,  \* bound: calls that fail, or whose answer is lost
    MaxCrashes    \* bound: restarts of the operator

ASSUME ConstantsAssumption ==
    /\ SpecsOf \in [RecordSets -> SUBSET (SUBSET Keys)]
    /\ None \notin RecordSets
    /\ ZoneMayGo \in BOOLEAN
    /\ MaxChanges \in Nat
    /\ MaxFailures \in Nat
    /\ MaxCrashes \in Nat

VARIABLES
    obj,      \* the DNSRecordSet objects
    cache,    \* the operator's copies of them
    queue,    \* record sets waiting for a pass
    pass,     \* the pass of each record set
    zone,     \* the DNSZone object
    zcache,   \* the operator's copy of it
    zqueued,  \* it waits for a pass
    zat,      \* where its pass is
    pzone,    \* PowerDNS has the zone
    rr,       \* the RRsets PowerDNS serves
    changes, failures, crashes

objects == <<obj, zone>>
zoneVars == <<zone, zcache, zqueued, zat>>
provider == <<pzone, rr>>
bounds == <<changes, failures, crashes>>
vars == <<obj, cache, queue, pass, zoneVars, provider, bounds>>

NameOf(k) == k[1]
TypeOf(k) == k[2]
NamesOf(keys) == {NameOf(k) : k \in keys}

-----------------------------------------------------------------------------
(* Objects *)

NoStatus == [gen |-> 0, ok |-> FALSE, names |-> {}, waiting |-> {}]
NoObject == [state |-> "absent", uid |-> 0, gen |-> 0, spec |-> {},
             finalizer |-> FALSE, owned |-> FALSE, accepted |-> 0,
             status |-> NoStatus]
NoZone == [state |-> "absent", finalizer |-> FALSE, programmed |-> FALSE]

Status == [gen : Nat, ok : BOOLEAN, names : SUBSET NamesOf(Keys),
           waiting : SUBSET NamesOf(Keys)]
Object == [state : {"absent", "live", "deleting"}, uid : Nat, gen : Nat,
           spec : SUBSET Keys, finalizer : BOOLEAN, owned : BOOLEAN,
           accepted : Nat, status : Status]
Zone == [state : {"absent", "live", "deleting"}, finalizer : BOOLEAN,
         programmed : BOOLEAN]
Stamp == [owner : RecordSets \cup {None}, uid : Nat, gen : Nat]

\* A pass holds the object it read, the keys it has still to write or delete,
\* the surplus it has to prune, and what came of the keys so far.
Steps == {"idle", "read", "patch", "prune", "status", "targets", "delete",
          "release"}
NoPass == [at |-> "idle", copy |-> NoObject, todo |-> {}, surplus |-> {},
           refused |-> {}, answered |-> FALSE, again |-> FALSE]
Pass == [at : Steps, copy : Object, todo : SUBSET Keys, surplus : SUBSET Keys,
         refused : SUBSET Keys, answered : BOOLEAN, again : BOOLEAN]

StampOf(r, o) == [owner |-> r, uid |-> o.uid, gen |-> o.gen]
Unowned == [owner |-> None, uid |-> 0, gen |-> 0]

Init ==
    /\ obj = [r \in RecordSets |-> NoObject]
    /\ cache = obj
    /\ queue = {}
    /\ pass = [r \in RecordSets |-> NoPass]
    /\ zone = [NoZone EXCEPT !.state = "live"]
    /\ zcache = NoZone
    /\ zqueued = FALSE
    /\ zat = "idle"
    /\ pzone = FALSE
    /\ rr = [k \in Keys |-> None]
    /\ changes = 0 /\ failures = 0 /\ crashes = 0

\* The object without its finalizer is gone when it is being deleted.
Released(o) ==
    IF o.state = "deleting" THEN [NoObject EXCEPT !.uid = o.uid]
                            ELSE [o EXCEPT !.finalizer = FALSE]
Deleted(o) ==
    IF o.state # "live" THEN o
    ELSE IF o.finalizer THEN [o EXCEPT !.state = "deleting"]
                        ELSE [NoObject EXCEPT !.uid = o.uid]

\* A call fails, or its answer is lost.
Failing == failures < MaxFailures /\ failures' = failures + 1

-----------------------------------------------------------------------------
(* What users and Kubernetes do *)

Change == changes < MaxChanges /\ changes' = changes + 1

Create(r) ==
    /\ Change
    /\ obj[r].state = "absent"
    /\ \E s \in SpecsOf[r] :
         obj' = [obj EXCEPT ![r] = [NoObject EXCEPT !.state = "live",
                                       !.uid = obj[r].uid + 1, !.gen = 1, !.spec = s]]
    /\ UNCHANGED <<cache, queue, pass, zoneVars, provider, failures, crashes>>

Edit(r) ==
    /\ Change
    /\ obj[r].state = "live"
    /\ \E s \in SpecsOf[r] \ {obj[r].spec} :
         obj' = [obj EXCEPT ![r].spec = s, ![r].gen = @ + 1]
    /\ UNCHANGED <<cache, queue, pass, zoneVars, provider, failures, crashes>>

Remove(r) ==
    /\ Change
    /\ obj[r].state = "live"
    /\ obj' = [obj EXCEPT ![r] = Deleted(@)]
    /\ UNCHANGED <<cache, queue, pass, zoneVars, provider, failures, crashes>>

RemoveZone ==
    /\ Change
    /\ ZoneMayGo
    /\ zone.state = "live"
    /\ zone' = IF zone.finalizer THEN [zone EXCEPT !.state = "deleting"] ELSE NoZone
    /\ UNCHANGED <<obj, cache, queue, pass, zcache, zqueued, zat, provider,
                   failures, crashes>>

\* The owner reference makes Kubernetes delete what a deleted zone owned.
CollectGarbage(r) ==
    /\ zone.state = "absent"
    /\ obj[r].state = "live" /\ obj[r].owned
    /\ obj' = [obj EXCEPT ![r] = Deleted(@)]
    /\ UNCHANGED <<cache, queue, pass, zoneVars, provider, bounds>>

-----------------------------------------------------------------------------
(* Watches *)

\* waitsOnAny: names of an unprogrammed status entry
Waiting(o, names) == o.status.waiting \cap names # {}

\* recordSetsWaitingOn, for the old and the new state of a holder.  A creation
\* tells the waiting record sets nothing.
WaitingOn(r, old, new) ==
    {q \in RecordSets \ {r} :
        /\ old.state # "absent"
        /\ zcache.state # "absent"
        /\ Waiting(cache[q], NamesOf(old.spec \cup new.spec)
                               \cup old.status.names \cup new.status.names)}

Observe(r) ==
    /\ cache[r] # obj[r]
    /\ cache' = [cache EXCEPT ![r] = obj[r]]
    /\ queue' = queue \cup {r} \cup WaitingOn(r, cache[r], obj[r])
    /\ UNCHANGED <<obj, pass, zoneVars, provider, bounds>>

\* zoneBecameProgrammed
ObserveZone ==
    /\ zcache # zone
    /\ zcache' = zone
    /\ zqueued' = TRUE
    /\ queue' = IF zone.programmed /\ ~zcache.programmed
                  THEN queue \cup {r \in RecordSets : cache[r].state # "absent"}
                  ELSE queue
    /\ UNCHANGED <<obj, cache, pass, zone, zat, provider, bounds>>

\* The operator restarts: it lists everything anew and looks at all of it.  The
\* list may come from a server that has not heard of the newest objects yet.
Crash ==
    /\ crashes < MaxCrashes
    /\ crashes' = crashes + 1
    /\ pass' = [r \in RecordSets |-> NoPass]
    /\ zat' = "idle"
    /\ \E missed \in SUBSET RecordSets :
         cache' = [r \in RecordSets |-> IF r \in missed THEN NoObject ELSE obj[r]]
    /\ zcache' \in {zone, NoZone}
    /\ queue' = RecordSets
    /\ zqueued' = TRUE
    /\ UNCHANGED <<objects, provider, changes, failures>>

-----------------------------------------------------------------------------
(* DNSRecordSetReconciler.Reconcile *)

\* The pass of r ends; `again` puts the key back in the queue.
Finish(r, again) ==
    /\ pass' = [pass EXCEPT ![r] = NoPass]
    /\ queue' = (queue \ {r}) \cup (IF again \/ (r \in queue /\ pass[r].at # "idle")
                                      THEN {r} ELSE {})

Due(r) == r \in queue /\ pass[r].at = "idle"

Elsewhere == <<cache, zoneVars, provider, changes, crashes>>

\* The object is gone, or was programmed at this generation: nothing to do.
ProgrammedAtGeneration(o) == o.status.ok /\ o.status.gen = o.gen

Nothing(r) ==
    /\ Due(r)
    /\ \/ cache[r].state = "absent"
       \/ /\ cache[r].state = "live" /\ zcache.state # "absent"
          /\ cache[r].finalizer /\ cache[r].owned
          /\ cache[r].accepted = cache[r].gen
          /\ ProgrammedAtGeneration(cache[r])
    /\ Finish(r, FALSE)
    /\ UNCHANGED Elsewhere /\ UNCHANGED <<obj, failures>>

\* Fault: a record set without a zone is never released.
OrphanKept(r) ==
    /\ Due(r)
    /\ cache[r].state # "absent"
    /\ zcache.state = "absent"
    /\ Finish(r, FALSE)
    /\ UNCHANGED Elsewhere /\ UNCHANGED <<obj, failures>>

\* The zone is not in the cache.  A record set that is being deleted is
\* released once the API says there is no zone; another one waits for it.
Orphan(r) ==
    /\ Due(r)
    /\ cache[r].state # "absent"
    /\ zcache.state = "absent"
    /\ \/ /\ cache[r].state = "deleting"
          /\ zone.state # "absent"
          /\ Finish(r, TRUE)
          /\ UNCHANGED obj
       \/ /\ cache[r].state = "deleting"
          /\ zone.state = "absent"
          /\ Finish(r, FALSE)
          /\ obj' = [obj EXCEPT ![r] = Released(@)]
       \/ /\ cache[r].state = "live"
          /\ Finish(r, FALSE)
          /\ obj' = IF obj[r].state = "absent" THEN obj
                                               ELSE [obj EXCEPT ![r].accepted = 0]
    /\ UNCHANGED Elsewhere /\ UNCHANGED failures

\* The finalizer, then the owner reference, then Accepted, one per pass.  A
\* patch of an object that has gone fails and is tried again.
Prepare(r) ==
    /\ Due(r)
    /\ cache[r].state = "live" /\ zcache.state # "absent"
    /\ \/ ~cache[r].finalizer
       \/ ~cache[r].owned
       \/ cache[r].accepted # cache[r].gen
    /\ Finish(r, obj[r].state = "absent")
    /\ obj' = IF obj[r].state = "absent" THEN obj
              ELSE IF ~cache[r].finalizer THEN [obj EXCEPT ![r].finalizer = TRUE]
              ELSE IF ~cache[r].owned THEN [obj EXCEPT ![r].owned = TRUE]
              ELSE [obj EXCEPT ![r].accepted = cache[r].gen]
    /\ UNCHANGED Elsewhere /\ UNCHANGED failures

\* EnsureRecordSet or DeleteRecordSet is called with the copy from the cache.
Call(r) ==
    /\ Due(r)
    /\ zcache.state # "absent"
    /\ \/ /\ cache[r].state = "deleting"
          /\ pass' = [pass EXCEPT ![r] = [NoPass EXCEPT !.at = "targets", !.copy = cache[r]]]
       \/ /\ cache[r].state = "live"
          /\ cache[r].finalizer /\ cache[r].owned
          /\ cache[r].accepted = cache[r].gen
          /\ ~ProgrammedAtGeneration(cache[r])
          /\ pass' = [pass EXCEPT ![r] = [NoPass EXCEPT !.at = "read", !.copy = cache[r]]]
    /\ queue' = queue \ {r}
    /\ UNCHANGED Elsewhere /\ UNCHANGED <<obj, failures>>

-----------------------------------------------------------------------------
(* Client.EnsureRecordSet *)

\* Fault: whatever the spec does not list is surplus.
SurplusOfAnyone(r, spec) == {k \in Keys \ spec : rr[k] # None}

\* ownedSurplus: what r wrote and the spec does not list.
OwnedSurplus(r, spec) == {k \in Keys \ spec : rr[k] # None /\ rr[k].owner = r}

\* rrsetMatchesObject
Matches(r, k) == rr[k] # None /\ rr[k] = StampOf(r, pass[r].copy)

\* Which record of the pass of r to go on with.
Following(p) == IF p.todo # {} THEN "patch" ELSE IF p.surplus # {} THEN "prune" ELSE "status"
Advance(r, p) == pass' = [pass EXCEPT ![r] = [p EXCEPT !.at = Following(p)]]

\* The zone is read once.  A read that fails, or finds no zone, is an error
\* that counts as transient and leaves no status entries.
ReadZone(r) ==
    /\ pass[r].at = "read"
    /\ \/ /\ pzone
          /\ LET spec == pass[r].copy.spec
             IN  Advance(r, [pass[r] EXCEPT
                               !.todo = {k \in spec : ~Matches(r, k)},
                               !.surplus = OwnedSurplus(r, spec),
                               !.answered = TRUE])
          /\ UNCHANGED failures
       \/ /\ pzone => Failing
          /\ ~pzone => UNCHANGED failures
          /\ pass' = [pass EXCEPT ![r].at = "status", ![r].again = TRUE]
    /\ UNCHANGED <<obj, queue>> /\ UNCHANGED Elsewhere

\* pairDeletes: the deletes that travel with the replaces at their names.
Paired(p) == {k \in p.surplus : NameOf(k) \in NamesOf(p.todo)}

\* PowerDNS refuses a CNAME beside another type at one name, and answers for
\* the first refused RRset.
Exclusive(k, m) ==
    /\ k # m /\ NameOf(k) = NameOf(m)
    /\ "CNAME" \in {TypeOf(k), TypeOf(m)}
Refused(p) ==
    {k \in p.todo : \E m \in Keys \ Paired(p) : rr[m] # None /\ Exclusive(k, m)}

Replaced(r, p) ==
    [k \in Keys |-> IF k \in p.todo THEN StampOf(r, p.copy)
                    ELSE IF k \in Paired(p) THEN None ELSE rr[k]]

\* applyIsolatingRefusals: a PATCH is applied as a whole or not at all; when a
\* change is refused, the others are sent again without it.
Patch(r) ==
    /\ pass[r].at = "patch"
    /\ LET p == pass[r]
           done == [p EXCEPT !.todo = {}, !.surplus = p.surplus \ Paired(p)]
           failed == [done EXCEPT !.refused = p.refused \cup p.todo]
       IN  \/ /\ pzone /\ Refused(p) = {}
              /\ rr' = Replaced(r, p)
              /\ Advance(r, done)
              /\ UNCHANGED failures
           \/ /\ pzone /\ Refused(p) # {}
              /\ \E k \in Refused(p) :
                   Advance(r, [p EXCEPT !.todo = p.todo \ {k}, !.refused = p.refused \cup {k},
                                        !.surplus = p.surplus \ Paired([p EXCEPT !.todo = {k}])])
              /\ UNCHANGED <<rr, failures>>
           \/ /\ ~pzone
              /\ Advance(r, failed)
              /\ UNCHANGED <<rr, failures>>
           \/ /\ pzone /\ Failing
              /\ rr' \in {rr} \cup (IF Refused(p) = {} THEN {Replaced(r, p)} ELSE {})
              /\ Advance(r, [failed EXCEPT !.again = TRUE])
    /\ UNCHANGED <<obj, queue, pzone, cache, zoneVars, changes, crashes>>

\* The deletes at no replaced name.  A failure is logged.
Prune(r) ==
    /\ pass[r].at = "prune"
    /\ LET pruned == [k \in Keys |-> IF k \in pass[r].surplus THEN None ELSE rr[k]]
       IN  \/ /\ rr' = IF pzone THEN pruned ELSE rr
              /\ UNCHANGED failures
           \/ /\ Failing
              /\ rr' \in {rr, pruned}
    /\ pass' = [pass EXCEPT ![r].at = "status", ![r].surplus = {}]
    /\ UNCHANGED <<obj, queue, pzone, cache, zoneVars, changes, crashes>>

\* updateStatus: Programmed is true when every name is, and says at which
\* generation.  It is written when it differs from the copy.
StatusOf(p) ==
    [gen |-> p.copy.gen,
     ok |-> ~p.again /\ p.refused = {},
     names |-> IF p.answered THEN NamesOf(p.copy.spec) ELSE {},
     waiting |-> NamesOf(p.refused)]

\* Fault: the status is stamped with the generation the object has by now.
UpdateStatusLate(r) ==
    /\ pass[r].at = "status"
    /\ LET status == [StatusOf(pass[r]) EXCEPT !.gen = obj[r].gen]
       IN  /\ obj' = [obj EXCEPT ![r].status = status]
           /\ Finish(r, ~status.ok)
    /\ UNCHANGED Elsewhere /\ UNCHANGED failures

UpdateStatus(r) ==
    /\ pass[r].at = "status"
    /\ LET status == StatusOf(pass[r])
       IN  \/ /\ obj' = IF status = pass[r].copy.status \/ obj[r].state = "absent" THEN obj
                        ELSE [obj EXCEPT ![r].status = status]
              /\ Finish(r, ~status.ok \/ obj[r].state = "absent")
              /\ UNCHANGED failures
           \/ /\ Failing
              /\ Finish(r, TRUE)
              /\ UNCHANGED obj
    /\ UNCHANGED Elsewhere

-----------------------------------------------------------------------------
(* Client.DeleteRecordSet, and the finalizer *)

\* Fault: only the names of the spec are looked for.
TargetsInSpec(r, p) == {k \in p.copy.spec : rr[k] # None /\ rr[k].owner \in {None, r}}

\* What the spec lists, unless another record set rewrote it, and whatever else
\* r wrote.
Targets(r, p) ==
    {k \in p.copy.spec : rr[k] # None /\ rr[k].owner \in {None, r}} \cup OwnedSurplus(r, {})

ReadTargets(r) ==
    /\ pass[r].at = "targets"
    /\ \/ /\ LET todo == IF pzone THEN Targets(r, pass[r]) ELSE {}
             IN  pass' = [pass EXCEPT ![r].todo = todo,
                                      ![r].at = IF todo = {} THEN "release" ELSE "delete"]
          /\ UNCHANGED <<queue, failures>>
       \/ /\ Failing
          /\ Finish(r, TRUE)
    /\ UNCHANGED obj /\ UNCHANGED Elsewhere

DeleteTargets(r) ==
    /\ pass[r].at = "delete"
    /\ LET deleted == [k \in Keys |-> IF k \in pass[r].todo THEN None ELSE rr[k]]
       IN  \/ /\ pzone
              /\ rr' = deleted
              /\ pass' = [pass EXCEPT ![r].todo = {}, ![r].at = "release"]
              /\ UNCHANGED <<queue, failures>>
           \/ /\ pzone /\ Failing
              /\ rr' \in {rr, deleted}
              /\ Finish(r, TRUE)
           \/ /\ ~pzone
              /\ Finish(r, TRUE)
              /\ UNCHANGED <<rr, failures>>
    /\ UNCHANGED <<obj, pzone, cache, zoneVars, changes, crashes>>

\* The object is read again before its finalizer is removed.
Release(r) ==
    /\ pass[r].at = "release"
    /\ \/ /\ obj' = IF cache[r].state = "absent" THEN obj ELSE [obj EXCEPT ![r] = Released(@)]
          /\ Finish(r, cache[r].state # "absent" /\ obj[r].state = "absent")
          /\ UNCHANGED failures
       \/ /\ Failing
          /\ Finish(r, TRUE)
          /\ UNCHANGED obj
    /\ UNCHANGED Elsewhere

-----------------------------------------------------------------------------
(* DNSZoneReconciler.Reconcile, with the client's EnsureZone and DeleteZone *)

ZoneDue == zqueued /\ zat = "idle"
ZoneFinish(again) == zat' = "idle" /\ zqueued' = (again \/ (zqueued /\ zat # "idle"))
ZoneGoto(step) == zat' = step /\ zqueued' = (zqueued /\ zat # "idle")
ElsewhereZ == <<cache, queue, pass, zcache, changes, crashes>>

ZoneNothing ==
    /\ ZoneDue
    /\ zcache.state = "absent"
    /\ ZoneFinish(FALSE)
    /\ UNCHANGED <<obj, zone, provider, failures>> /\ UNCHANGED ElsewhereZ

ZoneAdopt ==
    /\ ZoneDue
    /\ zcache.state = "live" /\ ~zcache.finalizer
    /\ zone' = IF zone.state = "absent" THEN zone ELSE [zone EXCEPT !.finalizer = TRUE]
    /\ ZoneFinish(zone.state = "absent")
    /\ UNCHANGED <<obj, provider, failures>> /\ UNCHANGED ElsewhereZ

\* EnsureZone creates the zone; a zone that exists is left alone.
EnsureZone ==
    /\ ZoneDue
    /\ zcache.state = "live" /\ zcache.finalizer
    /\ \/ /\ pzone' = TRUE
          /\ ZoneGoto("programmed")
          /\ UNCHANGED failures
       \/ /\ Failing
          /\ pzone' \in {pzone, TRUE}
          /\ ZoneFinish(TRUE)
    /\ UNCHANGED <<obj, zone, rr>> /\ UNCHANGED ElsewhereZ

ZoneProgrammed ==
    /\ zat = "programmed"
    /\ zone' = IF zone.state = "absent" THEN zone ELSE [zone EXCEPT !.programmed = TRUE]
    /\ ZoneFinish(zone.state = "absent")
    /\ UNCHANGED <<obj, provider, failures>> /\ UNCHANGED ElsewhereZ

\* A zone that is being deleted first deletes the record sets it can see.
Cascade ==
    /\ ZoneDue
    /\ zcache.state = "deleting"
    /\ \E r \in RecordSets : cache[r].state # "absent"
    /\ obj' = [r \in RecordSets |->
                 IF cache[r].state # "absent" THEN Deleted(obj[r]) ELSE obj[r]]
    /\ ZoneFinish(TRUE)
    /\ UNCHANGED <<zone, provider, failures>> /\ UNCHANGED ElsewhereZ

\* clearZoneComments: the read and the PATCH leave RRsets nobody owns.
ClearComments ==
    /\ ZoneDue
    /\ zcache.state = "deleting"
    /\ \A r \in RecordSets : cache[r].state = "absent"
    /\ \/ /\ rr' = [k \in Keys |-> IF rr[k] = None THEN None ELSE Unowned]
          /\ ZoneGoto("drop")
          /\ UNCHANGED failures
       \/ /\ Failing
          /\ ZoneFinish(TRUE)
          /\ UNCHANGED rr
    /\ UNCHANGED <<obj, zone, pzone>> /\ UNCHANGED ElsewhereZ

\* The zone goes with everything in it.
DropZone ==
    /\ zat = "drop"
    /\ \/ /\ ZoneGoto("release")
          /\ UNCHANGED failures
          /\ pzone' = FALSE
       \/ /\ Failing
          /\ ZoneFinish(TRUE)
          /\ pzone' \in {pzone, FALSE}
    /\ rr' = IF pzone' THEN rr ELSE [k \in Keys |-> None]
    /\ UNCHANGED <<obj, zone>> /\ UNCHANGED ElsewhereZ

ReleaseZone ==
    /\ zat = "release"
    /\ zone' = NoZone
    /\ ZoneFinish(zone.state = "absent")
    /\ UNCHANGED <<obj, provider, failures>> /\ UNCHANGED ElsewhereZ

-----------------------------------------------------------------------------

Reconcile(r) ==
    \/ Nothing(r) \/ Orphan(r) \/ Prepare(r) \/ Call(r)
    \/ ReadZone(r) \/ Patch(r) \/ Prune(r) \/ UpdateStatus(r)
    \/ ReadTargets(r) \/ DeleteTargets(r) \/ Release(r)

ReconcileZone ==
    \/ ZoneNothing \/ ZoneAdopt \/ EnsureZone \/ ZoneProgrammed
    \/ Cascade \/ ClearComments \/ DropZone \/ ReleaseZone

Next ==
    \/ \E r \in RecordSets :
         \/ Create(r) \/ Edit(r) \/ Remove(r) \/ CollectGarbage(r)
         \/ Observe(r) \/ Reconcile(r)
    \/ RemoveZone \/ ObserveZone \/ ReconcileZone \/ Crash

Spec == Init /\ [][Next]_vars

\* Watches deliver, workers take what is queued, the garbage collector runs.
\* Users need not act and nothing need fail.
Fairness ==
    /\ \A r \in RecordSets :
         /\ WF_vars(Observe(r))
         /\ WF_vars(Reconcile(r))
         /\ WF_vars(CollectGarbage(r))
    /\ WF_vars(ObserveZone)
    /\ WF_vars(ReconcileZone)

FairSpec == Spec /\ Fairness

-----------------------------------------------------------------------------
(* Properties *)

\* Objects, passes and RRsets have the shape the reconcilers give them.
TypeOK ==
    /\ obj \in [RecordSets -> Object]
    /\ cache \in [RecordSets -> Object]
    /\ queue \subseteq RecordSets
    /\ pass \in [RecordSets -> Pass]
    /\ zone \in Zone /\ zcache \in Zone
    /\ zqueued \in BOOLEAN
    /\ zat \in {"idle", "programmed", "drop", "release"}
    /\ pzone \in BOOLEAN
    /\ rr \in [Keys -> Stamp \cup {None}]
    /\ <<changes, failures, crashes>> \in (0 .. MaxChanges) \X (0 .. MaxFailures) \X (0 .. MaxCrashes)

\* A record set that reports Programmed=True for its present generation
\* (recordSetProgrammedAtGeneration, after which no pass looks at PowerDNS
\* again) has every name of its spec served as that generation wrote it, while
\* its zone is not being deleted and no other record set lists the same RRset.
ProgrammedIsServed ==
    \A r \in RecordSets :
      (obj[r].state = "live" /\ ProgrammedAtGeneration(obj[r]) /\ zone.state = "live")
        => \A k \in obj[r].spec : rr[k] = StampOf(r, obj[r])

\* Once the finalizer of a record set is gone (Reconcile's deletion path), no
\* RRset it wrote is served, whatever names it listed before and whichever of
\* its calls failed; once the DNSZone is gone PowerDNS has no zone, and no late
\* write of a record set brings one back.
NothingLeftBehind ==
    /\ \A r \in RecordSets :
         obj[r].state = "absent" => \A k \in Keys : rr[k] = None \/ rr[k].owner # r
    /\ zone.state = "absent" => ~pzone /\ \A k \in Keys : rr[k] = None

Blocked(k) == \E m \in Keys : rr[m] # None /\ Exclusive(k, m)

\* Everything settles: no deletion stays stuck on its finalizer, a zone that is
\* kept is created, and a record set of it ends up served at its present
\* generation or held back by the exclusive record at its name.
EventuallySettled ==
    <>[](/\ zone.state # "deleting"
         /\ \A r \in RecordSets :
              /\ obj[r].state # "deleting"
              /\ (obj[r].state = "live" /\ zone.state = "live") =>
                   \A k \in obj[r].spec : rr[k] = StampOf(r, obj[r]) \/ Blocked(k))

\* Names a record set has dropped from its spec are eventually not served on
\* its behalf any more (EnsureRecordSet prunes them).
EventuallyPruned ==
    <>[](\A r \in RecordSets : obj[r].state = "live" /\ zone.state = "live"
                                 => OwnedSurplus(r, obj[r].spec) = {})

\* While record sets claim a name of a zone, one of them is eventually served
\* there.
ClaimedNameIsServed ==
    <>[](zone.state = "live" =>
           \A r \in RecordSets : obj[r].state = "live" =>
             \A k \in obj[r].spec : rr[k] # None \/ Blocked(k))

\* No pass deletes an RRset another record set wrote (DeleteRecordSet,
\* EnsureRecordSet's surplus); only the zone's own deletion does.
DeletesOwnOnly ==
    [][\A r \in RecordSets, k \in Keys :
         (pass[r].at \in {"prune", "delete", "patch"} /\ pass'[r] # pass[r]
            /\ rr[k] # None /\ rr'[k] = None)
           => rr[k].owner \in {None, r}]_vars
=============================================================================
