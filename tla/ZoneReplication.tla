--------------------------- MODULE ZoneReplication ---------------------------
(***************************************************************************)
(* How public zones of several projects that name one domain reach the     *)
(* authoritative cluster: DNSZoneReplicator (internal/controller/          *)
(* dnszone_replicator_controller.go) with the mapped-namespace strategy    *)
(* (internal/downstreamclient/mappednamespace.go).                         *)
(*                                                                         *)
(* Every project has at most one zone of the domain.  The ledger is the    *)
(* ConfigMap named after the domain in the accounting namespace; a shadow  *)
(* is the downstream DNSZone, and an anchor the ConfigMap that owns it.    *)
(* One worker runs the passes, so passes do not overlap, but users, the    *)
(* Domain controller and the downstream operator act between any two calls *)
(* of a pass.  A pass reads the upstream objects as they are when it reads *)
(* them; the ledger, the anchors and the shadows come from the downstream  *)
(* cache, which may miss a change for a while (a lag).                     *)
(*                                                                         *)
(* Not here: events, record counts, the nameservers' spelling, and which   *)
(* Domain covers a name.                                                   *)
(***************************************************************************)
EXTENDS Naturals, FiniteSets

CONSTANTS
    Projects,    \* upstream clusters, each with one namespace
    Private,     \* those whose zone is private
    None,        \* nobody owns the domain
    MaxChanges,  \* bound: what users and the Domain controller do
    MaxFaults    \* bound: passes cut short by an error or a restart (aborts),
                 \* and own writes the cache misses for a while (lags)

ASSUME ProjectsAssumption == None \notin Projects

VARIABLES
    zone,      \* upstream DNSZone per project
    domain,    \* the Domain of each project: "none", "unverified", "verified",
               \* or "revoked" when it was verified once
    class,     \* the DNSZoneClass exists
    sets,      \* apex record sets of each zone
    ledger,    \* owner of the domain, as written
    anchors,   \* per project: UIDs of zones that have an anchor
    shadow,    \* downstream DNSZone per project
    cached,    \* the downstream cache: ledger, anchors, shadow
    queue,     \* zones waiting for a pass
    pass,      \* the pass that runs
    changes, aborts, lags

upstream == <<zone, domain, class, sets>>
downstream == <<ledger, anchors, shadow>>
zrVars == <<upstream, downstream, cached, queue, pass, changes, aborts, lags>>

NoZone == [state |-> "absent", uid |-> 0, fin |-> FALSE, class |-> FALSE,
           accepted |-> "unset", programmed |-> "unset", ns |-> FALSE, ref |-> FALSE]
NoShadow == [state |-> "absent", owners |-> {}, ns |-> FALSE]
Idle == [of |-> None, at |-> "idle"]

\* An owner is written "project" or, before v0.23 of multicluster-runtime,
\* "/project".
Owner(p) == [of |-> p, slash |-> FALSE]
LegacyOwner(p) == [of |-> p, slash |-> TRUE]
Nobody == [of |-> None, slash |-> FALSE]

\* Fault: owners compared byte by byte.
SameBytes(a, b) == a = b

\* sameZoneOwner
SameZoneOwner(a, b) == a.of = b.of

\* Nothing is there yet, or one project's zone from before the upgrade.
Init ==
    \E old \in Projects \cup {None} :
    /\ zone = [p \in Projects |-> IF p # old THEN NoZone ELSE
                 [NoZone EXCEPT !.state = "live", !.uid = 1, !.fin = TRUE, !.class = TRUE]]
    /\ domain = [p \in Projects |-> IF p = old THEN "verified" ELSE "none"]
    /\ class \in BOOLEAN /\ (old # None => class)
    /\ sets = [p \in Projects |-> {}]
    /\ ledger = IF old = None THEN Nobody ELSE LegacyOwner(old)
    /\ anchors = [p \in Projects |-> IF p = old THEN {1} ELSE {}]
    /\ shadow = [p \in Projects |-> IF p # old THEN NoShadow ELSE
                   [state |-> "live", owners |-> {1}, ns |-> FALSE]]
    /\ cached = [ledger |-> ledger, anchors |-> anchors, shadow |-> shadow]
    /\ queue = {p \in Projects : zone[p].state # "absent"}
    /\ pass = Idle
    /\ changes = 0 /\ aborts = 0 /\ lags = 0

-----------------------------------------------------------------------------
(* The downstream cluster: a write of the replicator, and whether the cache   *)
(* has it at once.                                                            *)

Downstream(l, a, s) ==
    /\ ledger' = l /\ anchors' = a /\ shadow' = s
    /\ LET unless(old, new, seen) == IF old = new THEN seen ELSE new
           now == [ledger |-> unless(ledger, l, cached.ledger),
                   anchors |-> unless(anchors, a, cached.anchors),
                   shadow |-> [p \in Projects |->
                                 unless(shadow[p], s[p], cached.shadow[p])]]
       IN  \/ cached' = now /\ UNCHANGED lags
           \/ /\ now # cached /\ aborts + lags < MaxFaults
              /\ lags' = lags + 1
              /\ UNCHANGED cached

\* The cache catches up; a zone whose shadow changed is looked at again.
CatchUp ==
    /\ cached # [ledger |-> ledger, anchors |-> anchors, shadow |-> shadow]
    /\ cached' = [ledger |-> ledger, anchors |-> anchors, shadow |-> shadow]
    /\ queue' = queue \cup {p \in Projects : cached.shadow[p] # shadow[p]}
    /\ UNCHANGED <<upstream, downstream, pass, changes, aborts, lags>>

\* Patching a zone wakes its next pass when that changes something.
PatchZone(p, z, waiting) ==
    /\ zone' = [zone EXCEPT ![p] = z]
    /\ queue' = IF z = zone[p] THEN waiting ELSE waiting \cup {p}

\* What others do downstream reaches the cache later.
Elsewhere(p, s) ==
    /\ shadow' = [shadow EXCEPT ![p] = s]
    /\ UNCHANGED <<upstream, ledger, anchors, cached, queue, pass, changes, aborts, lags>>

\* Kubernetes deletes a shadow once none of its owners is left.
CollectShadow(p) ==
    /\ shadow[p].state = "live"
    /\ shadow[p].owners \cap anchors[p] = {}
    /\ Elsewhere(p, [shadow[p] EXCEPT !.state = "deleting"])

\* The downstream operator (RecordProgramming) reports nameservers, and lets
\* go of a deleted shadow once PowerDNS has dropped the zone.
ReportNameservers(p) ==
    /\ shadow[p].state = "live" /\ ~shadow[p].ns
    /\ Elsewhere(p, [shadow[p] EXCEPT !.ns = TRUE])

ReleaseShadow(p) ==
    /\ shadow[p].state = "deleting"
    /\ Elsewhere(p, NoShadow)

-----------------------------------------------------------------------------
(* What users and the Domain controller do *)

Change ==
    /\ changes < MaxChanges /\ changes' = changes + 1
    /\ UNCHANGED <<downstream, cached, pass, aborts, lags>>

CreateZone(p) ==
    /\ Change
    /\ zone[p].state = "absent"
    /\ \E named \in BOOLEAN :
         zone' = [zone EXCEPT ![p] = [NoZone EXCEPT !.state = "live", !.class = named,
                                                    !.uid = zone[p].uid + 1]]
    /\ queue' = queue \cup {p}
    /\ UNCHANGED <<domain, class, sets>>

DeleteZone(p) ==
    /\ Change
    /\ zone[p].state = "live"
    /\ zone' = [zone EXCEPT ![p] = IF @.fin THEN [@ EXCEPT !.state = "deleting"]
                                            ELSE [NoZone EXCEPT !.uid = zone[p].uid]]
    /\ queue' = queue \cup {p}
    /\ UNCHANGED <<domain, class, sets>>

\* The class is named, or made; making it wakes no zone.
NameClass(p) ==
    /\ Change
    /\ zone[p].state = "live" /\ ~zone[p].class
    /\ zone' = [zone EXCEPT ![p].class = TRUE]
    /\ queue' = queue \cup {p}
    /\ UNCHANGED <<domain, class, sets>>

CreateClass ==
    /\ Change
    /\ ~class /\ class' = TRUE
    /\ UNCHANGED <<zone, domain, sets, queue>>

\* The Domain watch wakes the zones of its namespace that it covers.
CoveredZones(p) == {q \in {p} : zone[q].state # "absent"}

\* A Domain is proven or loses its proof.  The Domain controller looks for a
\* proof where a zone's status names the Domain.
Verify(p) ==
    /\ Change
    /\ domain[p] # "none"
    /\ domain[p] = "unverified" => zone[p].ref
    /\ domain' = [domain EXCEPT ![p] = IF @ = "verified" THEN "revoked" ELSE "verified"]
    /\ queue' = queue \cup CoveredZones(p)
    /\ UNCHANGED <<zone, class, sets>>

\* A record set goes: a user deletes it, or its zone has gone.
LoseSet(p, t) ==
    /\ t \in sets[p]
    /\ sets' = [sets EXCEPT ![p] = @ \ {t}]
    /\ queue' = queue \cup {p}
    /\ IF zone[p].state = "absent" THEN UNCHANGED changes
       ELSE changes < MaxChanges /\ changes' = changes + 1
    /\ UNCHANGED <<zone, domain, class, downstream, cached, pass, aborts, lags>>

\* Informers hand every object out again now and then.
Resync ==
    /\ queue' = queue \cup {p \in Projects : zone[p].state # "absent"}
    /\ UNCHANGED <<upstream, downstream, cached, pass, changes, aborts, lags>>

-----------------------------------------------------------------------------
(* DNSZoneReplicator.Reconcile *)

Calls == <<domain, class, changes, aborts>>
Goto(at) == pass' = [pass EXCEPT !.at = at]
Done == pass' = Idle
At(p, step) == pass = [of |-> p, at |-> step]

\* A pass that fails is tried again; a restart looks at everything.
Abort ==
    /\ pass # Idle
    /\ aborts + lags < MaxFaults /\ aborts' = aborts + 1
    /\ Done
    /\ queue' = Projects
    /\ UNCHANGED <<upstream, downstream, cached, changes, lags>>

\* Nothing to do, the finalizer, the class, or on to the calls.
Start(p) ==
    /\ pass = Idle /\ p \in queue
    /\ LET z == zone[p]
           take(new) == PatchZone(p, new, queue \ {p})
       IN
       \/ /\ z.state = "absent" \/ p \in Private
          /\ take(z) /\ Done
       \/ /\ z.state = "live" /\ ~z.fin /\ p \notin Private
          /\ take([z EXCEPT !.fin = TRUE]) /\ Done
       \/ /\ z.state = "live" /\ z.fin /\ ~(z.class /\ class)
          /\ take([z EXCEPT !.accepted = "noclass"]) /\ Done
       \/ /\ z.state = "live" /\ z.fin /\ z.class /\ class
          /\ take(z) /\ pass' = [of |-> p, at |-> "claim"]
       \/ /\ z.state = "deleting"
          /\ take(z) /\ pass' = [of |-> p, at |-> "unanchor"]
    /\ UNCHANGED <<sets, downstream, cached, lags, Calls>>

\* A zone that lost the ledger says so and is not looked at again for that.
InUse(z) == [z EXCEPT !.accepted = "inuse", !.programmed = "inuse"]

\* ensureZoneAccounting: an entry that exists is compared, and rewritten when
\* it has the old spelling; otherwise it is created.  A creation that finds one
\* reads again, and fails when the cache still shows none.
Claim(p) ==
    /\ At(p, "claim")
    /\ LET seen == IF cached.ledger = Nobody /\ ledger # Nobody THEN {Nobody, ledger}
                                                               ELSE {cached.ledger}
       IN \E l \in seen :
          \/ /\ l = Nobody /\ ledger = Nobody
             /\ Downstream(Owner(p), anchors, shadow)
             /\ Goto("domain") /\ UNCHANGED <<zone, queue>>
          \/ /\ l = Nobody /\ ledger # Nobody
             /\ Done /\ queue' = queue \cup {p}
             /\ UNCHANGED <<zone, downstream, cached, lags>>
          \/ /\ l # Nobody /\ SameZoneOwner(l, Owner(p))
             /\ IF l # Owner(p) /\ ledger # Nobody
                  THEN Downstream(Owner(p), anchors, shadow)
                  ELSE UNCHANGED <<downstream, cached, lags>>
             /\ Goto("domain") /\ UNCHANGED <<zone, queue>>
          \/ /\ l # Nobody /\ ~SameZoneOwner(l, Owner(p))
             /\ PatchZone(p, InUse(zone[p]), queue)
             /\ Done /\ UNCHANGED <<downstream, cached, lags>>
    /\ UNCHANGED <<sets, Calls>>

\* ensureDomain
DomainEnsured(p) == [domain EXCEPT ![p] = IF @ = "none" THEN "unverified" ELSE @]

\* desiredDomainRef and ensureDomainRef: the Domain exists by now.
Referring(z) == [z EXCEPT !.ref = TRUE]

\* Fault: an unverified domain is not held back.
AnyDomain(p) == TRUE

\* isDomainVerified
DomainVerified(p) == domain[p] = "verified"

\* markPendingDomainVerification: the nameservers of the class, and Programmed
\* as it was.
PendingVerification(z) == [z EXCEPT !.accepted = "unverified", !.ns = TRUE]

EnsureDomain(p) ==
    /\ At(p, "domain")
    /\ domain' = DomainEnsured(p)
    /\ LET z == Referring(zone[p])
           waiting == IF domain' = domain THEN queue ELSE queue \cup CoveredZones(p)
       IN  IF DomainVerified(p)
             THEN PatchZone(p, z, waiting) /\ Goto("anchor")
             ELSE PatchZone(p, PendingVerification(z), waiting) /\ Done
    /\ UNCHANGED <<sets, downstream, cached, lags, class, changes, aborts>>

\* ensureDownstreamZone: a shadow that is being deleted is left alone and tried
\* again in a minute.  The anchor comes first; making one that exists fails.
EnsureAnchor(p) ==
    /\ At(p, "anchor")
    /\ LET uid == zone[p].uid
           dying == cached.shadow[p].state = "deleting"
           exists == uid \in anchors[p] /\ uid \notin cached.anchors[p]
       IN  IF dying \/ exists
             THEN Done /\ queue' = queue \cup {p} /\ UNCHANGED <<downstream, cached, lags>>
             ELSE /\ IF uid \in cached.anchors[p]
                       THEN UNCHANGED <<downstream, cached, lags>>
                       ELSE Downstream(ledger, [anchors EXCEPT ![p] = @ \cup {uid}], shadow)
                  /\ Goto(IF cached.shadow[p].state = "absent" THEN "create" ELSE "patch")
                  /\ UNCHANGED queue
    /\ UNCHANGED <<zone, sets, Calls>>

\* Creating a shadow that exists, or patching one that has gone, fails.
EnsureShadow(p) ==
    /\ At(p, "create") \/ At(p, "patch")
    /\ LET uid == zone[p].uid
           exists == shadow[p].state # "absent"
           made == [state |-> "live", owners |-> {uid}, ns |-> FALSE]
           joined == [shadow[p] EXCEPT !.owners = shadow[p].owners \cup {uid}]
       IN  IF (pass.at = "create") = exists
             THEN Done /\ queue' = queue \cup {p} /\ UNCHANGED <<downstream, cached, lags>>
             ELSE /\ Downstream(ledger, anchors,
                                [shadow EXCEPT ![p] = IF exists THEN joined ELSE made])
                  /\ Goto("status")
                  /\ queue' = IF exists /\ uid \in shadow[p].owners THEN queue ELSE queue \cup {p}
    /\ UNCHANGED <<zone, sets, Calls>>

\* hasApexRecordSet, for both types
HasApexSets(p) == sets[p] = {"SOA", "NS"}

\* updateStatus: nameservers from the shadow are kept, never blanked.
SynthesizedStatus(p, z) ==
    LET ns == z.ns \/ cached.shadow[p].ns
    IN  [z EXCEPT !.ns = ns, !.ref = domain[p] # "none",
                  !.accepted = IF ns THEN "yes" ELSE "nons",
                  !.programmed = IF ns /\ HasApexSets(p) THEN "yes" ELSE "pending"]

\* The first update: without nameservers the pass waits for the shadow.
UpdateStatus(p, step, next) ==
    /\ At(p, step)
    /\ LET z == SynthesizedStatus(p, zone[p])
       IN  /\ PatchZone(p, z, queue)
           /\ IF z.ns /\ next # "idle" THEN Goto(next) ELSE Done
    /\ UNCHANGED <<sets, downstream, cached, lags, Calls>>

\* createApexRecordSet: a set that is missing is made, under another name when
\* a user's record has the default one.
CreateApexSet(p, t) ==
    /\ sets' = [sets EXCEPT ![p] = @ \cup {t}]
    /\ queue' = IF t \in sets[p] THEN queue ELSE queue \cup {p}

EnsureSOA(p) ==
    /\ At(p, "SOA")
    /\ CreateApexSet(p, "SOA")
    /\ Goto("NS")
    /\ UNCHANGED <<zone, downstream, cached, lags, Calls>>

EnsureNS(p) ==
    /\ At(p, "NS")
    /\ CreateApexSet(p, "NS")
    /\ Goto("status2")
    /\ UNCHANGED <<zone, downstream, cached, lags, Calls>>

-----------------------------------------------------------------------------
(* Deletion: the anchor, then wait for the shadow, the ledger, the finalizer. *)

DeleteAnchor(p) ==
    /\ At(p, "unanchor")
    /\ LET uid == zone[p].uid
       IN  IF uid \in cached.anchors[p]
             THEN Downstream(ledger, [anchors EXCEPT ![p] = @ \ {uid}], shadow)
             ELSE UNCHANGED <<downstream, cached, lags>>
    /\ Goto("gone")
    /\ UNCHANGED <<zone, sets, queue, Calls>>

AwaitShadow(p) ==
    /\ At(p, "gone")
    /\ IF cached.shadow[p].state = "absent" THEN Goto("release") ELSE Done
    /\ UNCHANGED <<zone, sets, queue, downstream, cached, lags, Calls>>

\* Fault: the entry goes whoever owns it.
CleanupAnyones(p) ==
    /\ At(p, "release")
    /\ Downstream(Nobody, anchors, shadow)
    /\ Goto("finalize")
    /\ UNCHANGED <<zone, sets, queue, Calls>>

\* cleanupZoneAccounting: only the owner's entry is deleted.
CleanupAccounting(p) ==
    /\ At(p, "release")
    /\ IF SameZoneOwner(cached.ledger, Owner(p))
         THEN Downstream(Nobody, anchors, shadow)
         ELSE UNCHANGED <<downstream, cached, lags>>
    /\ Goto("finalize")
    /\ UNCHANGED <<zone, sets, queue, Calls>>

RemoveFinalizer(p) ==
    /\ At(p, "finalize")
    /\ zone' = [zone EXCEPT ![p] = [NoZone EXCEPT !.uid = zone[p].uid]]
    /\ Done
    /\ UNCHANGED <<sets, queue, downstream, cached, lags, Calls>>

-----------------------------------------------------------------------------

Step(p) ==
    \/ Start(p) \/ Claim(p) \/ EnsureDomain(p)
    \/ EnsureAnchor(p) \/ EnsureShadow(p)
    \/ UpdateStatus(p, "status", "SOA")
    \/ EnsureSOA(p) \/ EnsureNS(p)
    \/ UpdateStatus(p, "status2", "idle")
    \/ DeleteAnchor(p) \/ AwaitShadow(p) \/ CleanupAccounting(p) \/ RemoveFinalizer(p)

Cluster(p) == CollectShadow(p) \/ ReportNameservers(p) \/ ReleaseShadow(p)

Next ==
    \/ \E p \in Projects :
         \/ CreateZone(p) \/ DeleteZone(p) \/ NameClass(p) \/ Verify(p)
         \/ \E t \in {"SOA", "NS"} : LoseSet(p, t)
         \/ Step(p) \/ Cluster(p)
    \/ CreateClass \/ CatchUp \/ Resync \/ Abort

Spec == Init /\ [][Next]_zrVars

-----------------------------------------------------------------------------
(* Properties *)

TypeOK ==
    /\ zone \in [Projects -> [state : {"absent", "live", "deleting"}, uid : Nat,
                  fin : BOOLEAN, class : BOOLEAN, ns : BOOLEAN, ref : BOOLEAN,
                  accepted : {"unset", "noclass", "inuse", "unverified", "nons", "yes"},
                  programmed : {"unset", "inuse", "pending", "yes"}]]
    /\ domain \in [Projects -> {"none", "unverified", "verified", "revoked"}]
    /\ sets \in [Projects -> SUBSET {"SOA", "NS"}]
    /\ ledger \in [of : Projects \cup {None}, slash : BOOLEAN]
    /\ anchors \in [Projects -> SUBSET Nat]
    /\ shadow \in [Projects -> [state : {"absent", "live", "deleting"},
                                owners : SUBSET Nat, ns : BOOLEAN]]

\* The ledger entry covers the whole life of a shadow, and nothing outlives
\* the zone.  While a project's zone is in the authoritative cluster that
\* project owns the domain, so two projects never serve it together; once the
\* zone object is gone its shadow, its anchor and its ledger entry are gone,
\* whatever was cut short (ensureZoneAccounting before the shadow; on deletion
\* the wait for the shadow, cleanupZoneAccounting, then the finalizer).  It
\* holds while the replicator's cache has shown it its own writes.
ShadowIsAccounted ==
    lags = 0 => \A p \in Projects :
        /\ shadow[p].state # "absent" => ledger.of = p
        /\ zone[p].state = "absent"
              => shadow[p].state = "absent" /\ anchors[p] = {} /\ ledger.of # p

\* A zone is served only where ownership of its domain was proven (the gate of
\* isDomainVerified), and one that says Programmed=True is provisioned and owns
\* the domain, also after its Domain lost its proof and after any restart,
\* while the cache has shown the replicator its own writes.
ServedIsProven ==
    \A p \in Projects :
        /\ shadow[p].state # "absent" => domain[p] \in {"verified", "revoked"}
        /\ (lags = 0 /\ zone[p].state = "live" /\ zone[p].programmed = "yes")
              => shadow[p].state = "live" /\ ledger.of = p

\* No wakeup is lost.  Once every watch has delivered, nothing is queued and the
\* cluster has nothing left to do, a zone that owns the domain, with its class
\* and its proof, says Programmed=True, and no zone is left deleting; neither
\* may wait for a resync (Reconcile ends passes without a retry and relies on
\* the watches of zones, Domains, record sets and shadows).
QuietIsReplicated ==
    (/\ pass = Idle /\ queue = {}
     /\ cached = [ledger |-> ledger, anchors |-> anchors, shadow |-> shadow]
     /\ \A p \in Projects : ~ENABLED Cluster(p))
    => \A p \in Projects :
         /\ (zone[p].state = "live" /\ domain[p] = "verified" /\ ledger.of = p)
               => zone[p].programmed = "yes"
         /\ zone[p].state # "deleting"
=============================================================================
