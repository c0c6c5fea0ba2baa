--------------------------- MODULE ZoneDiscovery ---------------------------
(* One-shot discovery of the records a public zone resolves to              *)
(* (internal/controller/dnszonediscovery_controller.go and                  *)
(* internal/discovery/resolver.go, discovery.go) and the import that waits  *)
(* for it (internal/cmd/dns/zone/import.go).                                *)
(*                                                                          *)
(* The controller reads the discovery and its zone from an informer cache   *)
(* and is woken by creations, deletions and generation changes only: the    *)
(* status and owner reference patches it makes itself raise no event.  Its  *)
(* patches carry no resource version.  A merge patch replaces a field with  *)
(* the value computed from the cached copy, and leaves the field alone when *)
(* that value equals the cached one.                                        *)
EXTENDS Naturals, FiniteSets, SequencesExt

CONSTANTS
    Order,       \* the discoveries that may exist, in the order of their names
    CliName,     \* <zone>-discovery, the one an import creates
    Apex,        \* the zone's own name
    Subdomains,  \* the other names discovery asks for
    Answers,     \* per name, what resolvers answer: a set of [owner, type]
    Typed,       \* the record types that have a typed field
    MaxLives,    \* bound on creations of the zone, and of discoveries
    Budgets      \* the bounds of one behaviour: [zones, discs, edits, faults],
                 \* faults counting failed API calls and failed apex lookups

VARIABLES
    zdZone,      \* the zone: [life, gen, private], life 0 when absent
    zdZoneCache, \* the controller's copy
    zdDisc,      \* per discovery: [life, owner, accepted, discovered, records],
                 \* and whether a snapshot was ever stored (a history field)
    zdCache,     \* the controller's copies
    zdQueue,     \* the discoveries in the work queue
    zdPass,      \* the pass under way
    zdImport,    \* the import command
    zdBudget     \* what is left of the behaviour's bounds

zdVars == <<zdZone, zdZoneCache, zdDisc, zdCache, zdQueue, zdPass, zdImport,
            zdBudget>>

Discs == ToSet(Order)
Lives == 0..MaxLives

NoZone == [life |-> 0, gen |-> 0, private |-> FALSE]
NoDisc == [life |-> 0, owner |-> 0, accepted |-> "unset",
           discovered |-> FALSE, records |-> {}, ever |-> FALSE]
NoPass == [at |-> "idle"]
Spend(field) == /\ zdBudget[field] > 0
                /\ zdBudget' = [zdBudget EXCEPT ![field] = @ - 1]

Exists(object) == object.life > 0

DiscoveryInit ==
    /\ zdZone = NoZone
    /\ zdZoneCache = NoZone
    /\ zdDisc = [d \in Discs |-> NoDisc]
    /\ zdCache = [d \in Discs |-> NoDisc]
    /\ zdQueue = {}
    /\ zdPass = NoPass
    /\ zdImport = [at |-> "idle"]
    /\ zdBudget \in Budgets

----------------------------------------------------------------------------
(* What discovery asks for and what it keeps of the answers. *)

candidateDiscoveryNames == {Apex} \cup Subdomains

(* A name inside the zone becomes relative; any other stays as answered. *)
ownerToRelative(owner) == IF owner = Apex THEN "@" ELSE owner

mapAnswersToEntries(answers) ==
    {[name |-> ownerToRelative(a.owner), type |-> a.type] :
        a \in {b \in answers : b.type \in Typed}}

(* Each name is looked up on its own.  A timeout counts as no answer, and a *)
(* failed lookup fails the discovery for the apex only.                     *)
Outcomes == [candidateDiscoveryNames -> {"answered", "timeout", "failed"}]

DiscoverFails(outcome) == outcome[Apex] = "failed"

DiscoverZoneRecords(outcome) ==
    mapAnswersToEntries(UNION {Answers[n] :
        n \in {m \in candidateDiscoveryNames : outcome[m] = "answered"}})

----------------------------------------------------------------------------
(* The API server's store. *)

CreateZone(private) ==
    /\ ~Exists(zdZone)
    /\ Spend("zones")
    /\ zdZone' = [life |-> MaxLives + 1 - zdBudget.zones, gen |-> 1,
                  private |-> private]
    /\ UNCHANGED <<zdZoneCache, zdDisc, zdCache, zdQueue, zdPass, zdImport>>

(* A change of the zone's specification; visibility never changes. *)
EditZone ==
    /\ Exists(zdZone)
    /\ Spend("edits")
    /\ zdZone' = [zdZone EXCEPT !.gen = @ + 1]
    /\ UNCHANGED <<zdZoneCache, zdDisc, zdCache, zdQueue, zdPass, zdImport>>

DeleteZone ==
    /\ Exists(zdZone)
    /\ zdZone' = NoZone
    /\ UNCHANGED <<zdZoneCache, zdDisc, zdCache, zdQueue, zdPass, zdImport,
                   zdBudget>>

NewDisc == [NoDisc EXCEPT !.life = MaxLives + 1 - zdBudget.discs]

(* The portal asks for a discovery under a name of its own. *)
CreateDiscovery(d) ==
    /\ d # CliName /\ ~Exists(zdDisc[d])
    /\ Spend("discs")
    /\ zdDisc' = [zdDisc EXCEPT ![d] = NewDisc]
    /\ UNCHANGED <<zdZone, zdZoneCache, zdCache, zdQueue, zdPass, zdImport>>

DeleteDiscovery(d) ==
    /\ Exists(zdDisc[d])
    /\ zdDisc' = [zdDisc EXCEPT ![d] = NoDisc]
    /\ UNCHANGED <<zdZone, zdZoneCache, zdCache, zdQueue, zdPass, zdImport,
                   zdBudget>>

(* A discovery whose owning zone is gone is garbage collected. *)
Collect(d) ==
    /\ zdDisc[d].owner \notin {0, zdZone.life}
    /\ DeleteDiscovery(d)

----------------------------------------------------------------------------
(* The watches. *)

SyncDiscovery(d) ==
    /\ zdCache[d] # zdDisc[d]
    /\ zdCache' = [zdCache EXCEPT ![d] = zdDisc[d]]
    /\ zdQueue' = IF zdCache[d].life = zdDisc[d].life THEN zdQueue
                                                      ELSE zdQueue \cup {d}
    /\ UNCHANGED <<zdZone, zdZoneCache, zdDisc, zdPass, zdImport, zdBudget>>

enqueueDiscoveriesForZone == {d \in Discs : Exists(zdCache[d])}

SyncZone ==
    /\ zdZoneCache # zdZone
    /\ zdZoneCache' = zdZone
    /\ zdQueue' = zdQueue \cup enqueueDiscoveriesForZone
    /\ UNCHANGED <<zdZone, zdDisc, zdCache, zdPass, zdImport, zdBudget>>

----------------------------------------------------------------------------
(* A pass of the controller. *)

End == zdPass' = NoPass

(* A pass that ends in an error is queued again, with a delay. *)
Retry(d) == zdQueue' = zdQueue \cup {d}

(* Fault: the pass relies on the event of its own patch. *)
TrustTheEvent(d) == UNCHANGED zdQueue

(* ctrl.Result{Requeue: true} *)
Requeue(d) == zdQueue' = zdQueue \cup {d}

(* SetControllerReference refuses an object another owner controls. *)
OwnedByAnother(disc, zone) == disc.owner \notin {0, zone.life}

NextStep(disc, zone) ==
    IF ~Exists(zone) THEN "pend"
    ELSE IF disc.owner # zone.life THEN "own"
    ELSE IF disc.accepted # "true" THEN "accept"
    ELSE "discover"

Take(d) ==
    LET disc == zdCache[d]
        zone == zdZoneCache
    IN
    /\ zdPass.at = "idle" /\ d \in zdQueue
    /\ zdQueue' = zdQueue \ {d}
    /\ zdPass' = IF ~Exists(disc) \/ disc.discovered
                    \/ (Exists(zone) /\ zone.private)
                    \/ (~Exists(zone) /\ disc.accepted = "false")
                 THEN NoPass
                 ELSE [at |-> NextStep(disc, zone), d |-> d, disc |-> disc,
                       zone |-> zone]
    /\ UNCHANGED <<zdZone, zdZoneCache, zdDisc, zdCache, zdImport, zdBudget>>

(* A patch reaches whatever object carries the name. *)
Patch(d, change) ==
    /\ Exists(zdDisc[d])
    /\ zdDisc' = [zdDisc EXCEPT ![d] = change]

(* The call fails, or finds no object of that name. *)
PatchFails ==
    /\ zdPass.at \in {"pend", "own", "accept", "store"}
    /\ IF Exists(zdDisc[zdPass.d]) THEN Spend("faults") ELSE UNCHANGED zdBudget
    /\ Retry(zdPass.d)
    /\ End
    /\ UNCHANGED <<zdZone, zdZoneCache, zdDisc, zdCache, zdImport>>

Pend ==
    LET d == zdPass.d IN
    /\ zdPass.at = "pend"
    /\ Patch(d, [zdDisc[d] EXCEPT !.accepted = "false",
                                  !.discovered = zdPass.disc.discovered])
    /\ End
    /\ UNCHANGED <<zdZone, zdZoneCache, zdCache, zdQueue, zdImport, zdBudget>>

SetOwner ==
    LET d == zdPass.d IN
    /\ zdPass.at = "own"
    /\ ~OwnedByAnother(zdPass.disc, zdPass.zone)
    /\ Patch(d, [zdDisc[d] EXCEPT !.owner = zdPass.zone.life])
    /\ Requeue(d)
    /\ End
    /\ UNCHANGED <<zdZone, zdZoneCache, zdCache, zdImport, zdBudget>>

OwnerRefused ==
    /\ zdPass.at = "own"
    /\ OwnedByAnother(zdPass.disc, zdPass.zone)
    /\ Retry(zdPass.d)
    /\ End
    /\ UNCHANGED <<zdZone, zdZoneCache, zdDisc, zdCache, zdImport, zdBudget>>

Accept ==
    LET d == zdPass.d IN
    /\ zdPass.at = "accept"
    /\ Patch(d, [zdDisc[d] EXCEPT !.accepted = "true",
                                  !.discovered = zdPass.disc.discovered])
    /\ zdPass' = [zdPass EXCEPT !.at = "discover", !.disc = zdDisc'[d]]
    /\ UNCHANGED <<zdZone, zdZoneCache, zdCache, zdQueue, zdImport, zdBudget>>

Discover ==
    /\ zdPass.at = "discover"
    /\ \E outcome \in Outcomes :
          /\ ~DiscoverFails(outcome)
          /\ zdPass' = [at |-> "store", d |-> zdPass.d, disc |-> zdPass.disc,
                        zone |-> zdPass.zone,
                        records |-> DiscoverZoneRecords(outcome)]
    /\ UNCHANGED <<zdZone, zdZoneCache, zdDisc, zdCache, zdQueue, zdImport,
                   zdBudget>>

DiscoverError ==
    /\ zdPass.at = "discover"
    /\ \E outcome \in Outcomes : DiscoverFails(outcome)
    /\ Spend("faults")
    /\ Retry(zdPass.d)
    /\ End
    /\ UNCHANGED <<zdZone, zdZoneCache, zdDisc, zdCache, zdImport>>

StoreRecords ==
    LET d == zdPass.d
        found == zdPass.records
    IN
    /\ zdPass.at = "store"
    /\ Patch(d, [zdDisc[d] EXCEPT
                    !.accepted = "true", !.discovered = TRUE, !.ever = TRUE,
                    !.records = IF found = zdPass.disc.records THEN @ ELSE found])
    /\ End
    /\ UNCHANGED <<zdZone, zdZoneCache, zdCache, zdQueue, zdImport, zdBudget>>

----------------------------------------------------------------------------
(* datumctl dns zone import --discover. *)

Import(change) == /\ zdImport' = change
                  /\ UNCHANGED <<zdZone, zdZoneCache, zdCache, zdQueue, zdPass>>

(* The first finished discovery of the zone, else the first in flight. *)
Chosen ==
    LET mine == SelectSeq(Order, LAMBDA d : Exists(zdDisc[d]))
        done == SelectSeq(mine, LAMBDA d : zdDisc[d].discovered)
    IN  IF done # <<>> THEN Head(done) ELSE Head(mine)

ensureDiscovery ==
    /\ zdImport.at = "idle" /\ Exists(zdZone)
    /\ IF \E d \in Discs : Exists(zdDisc[d])
       THEN Import(IF zdDisc[Chosen].discovered
                   THEN [at |-> "got"]
                   ELSE [at |-> "wait", d |-> Chosen])
       ELSE Import([at |-> "create"])
    /\ UNCHANGED <<zdDisc, zdBudget>>

CreateOwn ==
    /\ zdImport.at = "create"
    /\ IF Exists(zdDisc[CliName])
       THEN /\ Import([at |-> "failed", why |-> "conflict"])
            /\ UNCHANGED <<zdDisc, zdBudget>>
       ELSE /\ Spend("discs")
            /\ zdDisc' = [zdDisc EXCEPT ![CliName] = NewDisc]
            /\ Import([at |-> "wait", d |-> CliName])

waitForDiscovery ==
    LET disc == zdDisc[zdImport.d] IN
    /\ zdImport.at = "wait"
    /\ \/ ~Exists(disc) /\ Import([at |-> "failed", why |-> "gone"])
       \/ disc.discovered /\ Import([at |-> "got"])
       \/ /\ Exists(disc) /\ ~disc.discovered /\ disc.accepted = "false"
          /\ Import([at |-> "failed", why |-> "rejected"])
    /\ UNCHANGED <<zdDisc, zdBudget>>

ImportTimesOut ==
    /\ zdImport.at = "wait"
    /\ Import([at |-> "failed", why |-> "timeout"])
    /\ UNCHANGED <<zdDisc, zdBudget>>

RunAgain ==
    /\ zdImport.at \in {"got", "failed"}
    /\ Import([at |-> "idle"])
    /\ UNCHANGED <<zdDisc, zdBudget>>

----------------------------------------------------------------------------

PassNext == Pend \/ SetOwner \/ OwnerRefused \/ Accept \/ StoreRecords
               \/ PatchFails \/ DiscoverError

DiscoveryNext ==
    \/ \E private \in BOOLEAN : CreateZone(private)
    \/ EditZone \/ DeleteZone \/ SyncZone
    \/ \E d \in Discs : \/ CreateDiscovery(d) \/ DeleteDiscovery(d) \/ Collect(d)
                        \/ SyncDiscovery(d) \/ Take(d)
    \/ PassNext \/ Discover
    \/ ensureDiscovery \/ CreateOwn \/ waitForDiscovery \/ ImportTimesOut
    \/ RunAgain

----------------------------------------------------------------------------
(* Properties. *)

DiscoveryTypeOK ==
    /\ zdZone.life \in Lives /\ zdZoneCache.life \in Lives
    /\ \A d \in Discs : /\ zdDisc[d].life \in Lives
                        /\ zdDisc[d].accepted \in {"unset", "false", "true"}
    /\ zdQueue \subseteq Discs

(* No wakeup is lost: when the watches have delivered, nothing is queued    *)
(* and no pass runs, every discovery of a public zone has been carried out, *)
(* whatever order the two objects appeared in and however late the          *)
(* controller's cache learned of them.  "zone not found" ends a pass        *)
(* without a retry and the owner reference patch raises no event, so each   *)
(* relies on being woken again (Reconcile and enqueueDiscoveriesForZone).   *)
QuietIsDiscovered ==
    (/\ zdPass.at = "idle" /\ zdQueue = {}
     /\ zdZoneCache = zdZone /\ zdCache = zdDisc
     /\ Exists(zdZone) /\ ~zdZone.private)
    => \A d \in Discs : Exists(zdDisc[d]) => zdDisc[d].ever
=============================================================================
