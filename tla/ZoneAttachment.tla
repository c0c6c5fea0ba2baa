--------------------------- MODULE ZoneAttachment ---------------------------
(***************************************************************************)
(* Which private zones a resolver context resolves: the first half of a    *)
(* project pass (reconcileProject: reconcileResolverContexts,              *)
(* reconcileAssociations, reconcileNamingPolicies, collectReferenceStates, *)
(* the zone list reconcileContextBindings computes) and the admission of   *)
(* the objects it reads.                                                   *)
(*                                                                         *)
(* Objects are named, and a name may be deleted and used again: the uid of *)
(* an object is the number of its lifetime.  An association (or a naming   *)
(* policy) names a zone and a context; a ConfigMap, its reference state,   *)
(* pins the lifetimes it first resolved, and a replacement of the same     *)
(* name is refused until the association itself is recreated.  A pass      *)
(* lists zones and sources once and works from the lists; several passes   *)
(* over a project may overlap (there is no leader election).               *)
(*                                                                         *)
(* All contexts carry one consumerID, the case in which they compete.  A   *)
(* context with a managed namespace owns a zone and an association named   *)
(* after its own lifetime, <<c, uid>>.                                     *)
(***************************************************************************)
EXTENDS Naturals, FiniteSets

CONSTANTS
    Passes,      \* project passes that may overlap
    Contexts,    \* names of resolver contexts
    Plain,       \* names of zones that tenants create
    PlainSources,\* names of associations that tenants create
    Policies,    \* names of naming policies
    PlainZone,   \* dnsZoneRef of a source
    PlainContext,\* resolverContextRef of a source
    Rank,        \* the sort order of names (and of uids, for contexts)
    Apex,        \* domainName of a zone
    Shadowing,   \* zones that would shadow a reserved subtree
    MaxZones,    \* maxZonesPerResolverContext
    MaxLife,     \* bound: lifetimes of a name
    MaxTime,     \* bound: seconds in which timestamps differ
    MaxChanges   \* bound: creations, deletions and edits from outside

VARIABLES
    zaZones,     \* the zone objects
    zaSources,   \* the associations and naming policies
    zaPins,      \* the reference states, by source name and uid
    zaContexts,  \* the resolver contexts
    zaBindings,  \* zones in the bindings of a context lifetime
    zaPermitted, \* whether the managed domain is below a permitted suffix
    zaPass,      \* what a pass has listed and what it does next
    zaNow, zaChanges,
    zaServed     \* history: which zone lifetime an association attached

zaVars == <<zaZones, zaSources, zaPins, zaContexts, zaBindings, zaPermitted,
            zaPass, zaNow, zaChanges, zaServed>>
zaOutside == <<zaPermitted, zaNow, zaChanges>>

Uids == 1 .. MaxLife
Lifetimes == Contexts \X Uids
ZoneNames == Plain \cup Lifetimes
AssociationNames == PlainSources \cup Lifetimes
SourceNames == AssociationNames \cup Policies
ZoneOf(s) == IF s \in Lifetimes THEN s ELSE PlainZone[s]
ContextOf(s) == IF s \in Lifetimes THEN s[1] ELSE PlainContext[s]

NoZone == [uid |-> 0, phase |-> "gone"]
NoSource == [uid |-> 0, live |-> FALSE, status |-> "none", created |-> 0,
             since |-> 0]
NoPin == [kind |-> "none", zone |-> 0, context |-> 0]
NoContext == [uid |-> 0, live |-> FALSE, ready |-> "none", seen |-> FALSE,
              managed |-> FALSE, created |-> 0]
Idle == [at |-> "idle", zones |-> [z \in ZoneNames |-> NoZone],
         sources |-> [s \in SourceNames |-> NoSource],
         contexts |-> [c \in Contexts |-> NoContext], fresh |-> {},
         owner |-> {}, permitted |-> TRUE, changed |-> FALSE, todo |-> {},
         refs |-> [s \in SourceNames |-> [zone |-> 0, context |-> 0,
                                          current |-> FALSE]]]

AttachmentInit ==
    /\ zaZones = [z \in ZoneNames |-> NoZone]
    /\ zaSources = [s \in SourceNames |-> NoSource]
    /\ zaPins = [k \in SourceNames \X Uids |-> NoPin]
    /\ zaContexts = [c \in Contexts |-> NoContext]
    /\ zaBindings = [l \in Lifetimes |-> {}]
    /\ zaPermitted = TRUE
    /\ zaPass = [p \in Passes |-> Idle]
    /\ zaNow = 0 /\ zaChanges = 0
    /\ zaServed = {}

Fail(p) == zaPass' = [zaPass EXCEPT ![p] = Idle]

\* A write to a context makes every list that holds it stale.
Outdate(passes, c) ==
    [p \in Passes |-> [passes[p] EXCEPT !.fresh = @ \ {c}]]

----------------------------------------------------------------------------
(* Objects created, edited and deleted from outside, through admission.    *)

Edit == zaChanges < MaxChanges /\ zaChanges' = zaChanges + 1

CreateZone(z) ==
    /\ Edit
    /\ zaZones[z].phase = "gone" /\ zaZones[z].uid < MaxLife
    /\ zaZones' = [zaZones EXCEPT ![z] = [uid |-> @.uid + 1, phase |-> "live"]]
    /\ UNCHANGED <<zaSources, zaPins, zaContexts, zaBindings, zaPermitted,
                   zaPass, zaNow, zaServed>>

\* managedZone and managedDomainRefused: the zone of a context that lives
\* and whose managed domain has not been refused cannot be deleted.
DeletionAllowed(z) ==
    z \in Lifetimes =>
        LET c == zaContexts[z[1]] IN
        ~c.live \/ c.uid # z[2] \/ (c.ready = "InvalidDomain" /\ c.seen)

DeleteZone(z) ==
    /\ Edit
    /\ zaZones[z].phase = "live" /\ DeletionAllowed(z)
    /\ zaZones' = [zaZones EXCEPT ![z].phase = "terminating"]
    /\ UNCHANGED <<zaSources, zaPins, zaContexts, zaBindings, zaPermitted,
                   zaPass, zaNow, zaServed>>

\* The last finalizer goes once the zone is withdrawn (RegionalPublication).
FinalizeZone(z) ==
    /\ zaZones[z].phase = "terminating"
    /\ zaZones' = [zaZones EXCEPT ![z].phase = "gone"]
    /\ UNCHANGED <<zaSources, zaPins, zaContexts, zaBindings, zaPass,
                   zaServed>>
    /\ UNCHANGED zaOutside

\* association and namingPolicy of the admission handler.
SourceAdmitted(s) ==
    /\ zaZones[ZoneOf(s)].phase = "live"
    /\ zaContexts[ContextOf(s)].live
    /\ IF s \in Policies
       THEN /\ zaContexts[ContextOf(s)].ready = "True"
            /\ zaContexts[ContextOf(s)].seen
       ELSE ~(zaContexts[ContextOf(s)].managed /\ ZoneOf(s) \in Shadowing)

NewSource(s) == [uid |-> zaSources[s].uid + 1, live |-> TRUE,
                 status |-> "none", created |-> zaNow, since |-> 0]

CreateSource(s) ==
    /\ Edit
    /\ ~zaSources[s].live /\ zaSources[s].uid < MaxLife
    /\ SourceAdmitted(s)
    /\ zaSources' = [zaSources EXCEPT ![s] = NewSource(s)]
    /\ UNCHANGED <<zaZones, zaPins, zaContexts, zaBindings, zaPermitted,
                   zaPass, zaNow, zaServed>>

DeleteSource(s) ==
    /\ Edit
    /\ zaSources[s].live
    /\ zaSources' = [zaSources EXCEPT ![s].live = FALSE]
    /\ UNCHANGED <<zaZones, zaPins, zaContexts, zaBindings, zaPermitted,
                   zaPass, zaNow, zaServed>>

CreateContext(c) ==
    /\ Edit
    /\ ~zaContexts[c].live /\ zaContexts[c].uid < MaxLife
    /\ \E m \in BOOLEAN :
           zaContexts' = [zaContexts EXCEPT ![c] =
               [NoContext EXCEPT !.uid = zaContexts[c].uid + 1, !.live = TRUE,
                                 !.managed = m, !.created = zaNow]]
    /\ UNCHANGED <<zaZones, zaSources, zaPins, zaBindings, zaPermitted, zaNow,
                   zaServed>>
    /\ zaPass' = Outdate(zaPass, c)

\* managedNamespace.enabled is the only part of the spec that may change.
ToggleManaged(c) ==
    /\ Edit
    /\ zaContexts[c].live
    /\ zaContexts' = [zaContexts EXCEPT ![c].managed = ~@, ![c].seen = FALSE]
    /\ zaPass' = Outdate(zaPass, c)
    /\ UNCHANGED <<zaZones, zaSources, zaPins, zaBindings, zaPermitted, zaNow,
                   zaServed>>

\* The garbage collector takes what the context controlled.
DeleteContext(c) ==
    /\ Edit
    /\ zaContexts[c].live
    /\ zaContexts' = [zaContexts EXCEPT ![c].live = FALSE]
    /\ zaPass' = Outdate(zaPass, c)
    /\ UNCHANGED <<zaZones, zaSources, zaPins, zaBindings, zaPermitted, zaNow,
                   zaServed>>

CollectOwned(l) ==
    /\ ~(zaContexts[l[1]].live /\ zaContexts[l[1]].uid = l[2])
    /\ zaSources[l].live \/ zaZones[l].phase = "live"
    /\ zaSources' = [zaSources EXCEPT ![l].live = FALSE]
    /\ zaZones' = [zaZones EXCEPT ![l].phase =
                       IF @ = "live" THEN "terminating" ELSE @]
    /\ UNCHANGED <<zaPins, zaContexts, zaBindings, zaPass, zaServed>>
    /\ UNCHANGED zaOutside

\* The operator is redeployed with other ManagedDomainSuffixes.
Reconfigure ==
    /\ Edit
    /\ zaPermitted' = ~zaPermitted
    /\ UNCHANGED <<zaZones, zaSources, zaPins, zaContexts, zaBindings, zaPass,
                   zaNow, zaServed>>

Tick ==
    /\ zaNow < MaxTime
    /\ zaNow' = zaNow + 1
    /\ UNCHANGED <<zaZones, zaSources, zaPins, zaContexts, zaBindings,
                   zaPermitted, zaPass, zaChanges, zaServed>>

----------------------------------------------------------------------------
(* The pass.  Lists come first, zones before associations.                 *)

ListZones(p) ==
    /\ zaPass[p].at = "idle"
    /\ zaPass' = [zaPass EXCEPT ![p] = [Idle EXCEPT
           !.at = "list", !.zones = zaZones, !.permitted = zaPermitted]]
    /\ UNCHANGED <<zaZones, zaSources, zaPins, zaContexts, zaBindings,
                   zaServed>>
    /\ UNCHANGED zaOutside

\* reconcileResolverContexts lists the contexts right after.
ListSources(p) ==
    /\ zaPass[p].at = "list"
    /\ zaPass' = [zaPass EXCEPT
           ![p].at = "contexts", ![p].sources = zaSources,
           ![p].contexts = zaContexts, ![p].fresh = Contexts,
           ![p].todo = {c \in Contexts : zaContexts[c].live}]
    /\ UNCHANGED <<zaZones, zaSources, zaPins, zaContexts, zaBindings,
                   zaServed>>
    /\ UNCHANGED zaOutside

Before(c, d, of) ==
    \/ of[c].created < of[d].created
    \/ of[c].created = of[d].created /\ Rank[c] < Rank[d]
First(cs, of) == CHOOSE c \in cs : \A d \in cs \ {c} : Before(c, d, of)

\* getOrCreate for the managed zone and association of lifetime l, with the
\* objects the pass has listed: whether each is found, and the object.
FoundZone(p, l) == zaPass[p].zones[l].phase # "gone"
ZoneObject(p, l) ==
    IF FoundZone(p, l) THEN zaPass[p].zones[l]
    ELSE IF zaZones[l].phase # "gone" THEN zaZones[l]
    ELSE [uid |-> zaZones[l].uid + 1, phase |-> "live"]
FoundSource(p, l) == zaPass[p].sources[l].live
SourceObject(p, l) ==
    IF FoundSource(p, l) THEN zaPass[p].sources[l]
    ELSE IF zaSources[l].live THEN zaSources[l] ELSE NewSource(l)

\* readReferences: the pins of one source lifetime.
RefsOf(s, uid) == zaPins[<<s, uid>>]
Accepted(source) == source.live /\ source.status = "Accepted"

\* What getOrCreate leaves of the zone and the association of lifetime l.
\* The association is created only beside a live zone (admission), so the
\* zone may be created and the call fail.
ZonesAfter(p, l) ==
    IF FoundZone(p, l) \/ zaZones[l].phase # "gone" THEN zaZones
    ELSE [zaZones EXCEPT ![l] = ZoneObject(p, l)]
CreatesSource(p, l) == ~FoundSource(p, l) /\ ~zaSources[l].live
CanCreateSource(p, l) ==
    /\ ZonesAfter(p, l)[l].phase = "live"
    /\ zaContexts[l[1]].live

\* Ready: the zone is live and controlled, the association accepted and
\* pinned to this zone and this context.
ManagedReady(p, l) ==
    LET a == SourceObject(p, l)  refs == RefsOf(l, a.uid) IN
    /\ ZoneObject(p, l).phase = "live"
    /\ Accepted(a)
    /\ refs.zone = ZoneObject(p, l).uid
    /\ refs.context = l[2]

\* One context of the list, oldest first.  The status patch carries the
\* resourceVersion of the list, so it fails when the context has changed.
ReconcileContext(p) ==
    /\ zaPass[p].at = "contexts" /\ zaPass[p].todo # {}
    /\ LET me == zaPass[p]
           c == First(me.todo, me.contexts)
           context == me.contexts[c]
           l == <<c, context.uid>>
           duplicate == me.owner # {}
           invalidDomain == context.managed /\ ~me.permitted
           managing == context.managed /\ ~duplicate /\ ~invalidDomain
           creates == managing /\ CreatesSource(p, l)
           refused == creates /\ ~CanCreateSource(p, l)
           ready == CASE invalidDomain -> "InvalidDomain"
                      [] duplicate /\ ~invalidDomain -> "Duplicate"
                      [] managing /\ ~ManagedReady(p, l) -> "Preparing"
                      [] OTHER -> "True"
           patched == [context EXCEPT !.ready = ready, !.seen = TRUE]
           writes == patched # context
           conflict == writes /\ c \notin me.fresh
       IN /\ managing => zaZones[l].uid < MaxLife \/ ZonesAfter(p, l) = zaZones
          /\ creates => zaSources[l].uid < MaxLife
          /\ zaZones' = IF managing THEN ZonesAfter(p, l) ELSE zaZones
          /\ zaSources' = IF creates /\ ~refused
                          THEN [zaSources EXCEPT ![l] = NewSource(l)]
                          ELSE zaSources
          /\ zaContexts' = IF writes /\ ~refused /\ ~conflict
                           THEN [zaContexts EXCEPT ![c] = patched]
                           ELSE zaContexts
          /\ zaPass' =
               LET next == [me EXCEPT
                     !.at = IF invalidDomain THEN "withdraw" ELSE @,
                     !.todo = IF invalidDomain THEN @ ELSE @ \ {c},
                     !.owner = IF duplicate THEN @ ELSE {c},
                     !.changed = @ \/ (managing /\
                         (~FoundZone(p, l) \/ ~FoundSource(p, l)))]
               IN IF refused \/ conflict
                  THEN [zaPass EXCEPT ![p] = Idle]
                  ELSE [(IF writes THEN Outdate(zaPass, c) ELSE zaPass)
                          EXCEPT ![p] = next]
    /\ UNCHANGED <<zaPins, zaBindings, zaServed>>
    /\ UNCHANGED zaOutside

\* withdrawManagedZone: first the association, then the zone, each by a
\* live read; admission may refuse the zone, which fails the pass.
WithdrawAssociation(p) ==
    /\ zaPass[p].at = "withdraw"
    /\ LET c == First(zaPass[p].todo, zaPass[p].contexts)
           l == <<c, zaPass[p].contexts[c].uid>> IN
       /\ zaSources' = [zaSources EXCEPT ![l].live = FALSE]
       /\ zaPass' = [zaPass EXCEPT
              ![p].at = "withdrawZone",
              ![p].changed = @ \/ zaSources[l].live]
    /\ UNCHANGED <<zaZones, zaPins, zaContexts, zaBindings, zaServed>>
    /\ UNCHANGED zaOutside

WithdrawZone(p) ==
    /\ zaPass[p].at = "withdrawZone"
    /\ LET c == First(zaPass[p].todo, zaPass[p].contexts)
           l == <<c, zaPass[p].contexts[c].uid>> IN
       IF zaZones[l].phase = "live"
       THEN /\ zaZones' = IF DeletionAllowed(l)
                          THEN [zaZones EXCEPT ![l].phase = "terminating"]
                          ELSE zaZones
            /\ IF DeletionAllowed(l)
               THEN zaPass' = [zaPass EXCEPT ![p].at = "contexts",
                      ![p].todo = @ \ {c}, ![p].changed = TRUE]
               ELSE Fail(p)
       ELSE /\ zaPass' = [zaPass EXCEPT ![p].at = "contexts",
                              ![p].todo = @ \ {c}]
            /\ UNCHANGED zaZones
    /\ UNCHANGED <<zaSources, zaPins, zaContexts, zaBindings, zaServed>>
    /\ UNCHANGED zaOutside

\* Zones and associations are listed again when the contexts phase has
\* created or deleted one; naming policies are not.
ContextsDone(p) ==
    /\ zaPass[p].at = "contexts" /\ zaPass[p].todo = {}
    /\ LET changed == zaPass[p].changed
           sources == [s \in SourceNames |->
                         IF changed /\ s \in AssociationNames
                         THEN zaSources[s] ELSE zaPass[p].sources[s]] IN
       zaPass' = [zaPass EXCEPT
           ![p].at = "pin",
           ![p].zones = IF changed THEN zaZones ELSE @,
           ![p].sources = sources,
           ![p].contexts = Idle.contexts, ![p].fresh = {}, ![p].owner = {},
           ![p].changed = FALSE, ![p].permitted = TRUE,
           ![p].todo = {s \in SourceNames : sources[s].live}]
    /\ UNCHANGED <<zaZones, zaSources, zaPins, zaContexts, zaBindings,
                   zaServed>>
    /\ UNCHANGED zaOutside

----------------------------------------------------------------------------
(* Pins.                                                                   *)

\* pinNamedReference: a resolved lifetime stays while its name does.
PinKeepsAnything(previous, current) ==
    IF current = 0 THEN [pin |-> previous, current |-> FALSE]
    ELSE [pin |-> current, current |-> TRUE]

PinNamedReference(previous, current) ==
    IF current = 0 \/ (previous # 0 /\ previous # current)
    THEN [pin |-> previous, current |-> FALSE]
    ELSE [pin |-> current, current |-> TRUE]

\* loadReferenceState: a source that already carries a status but has no
\* state is never pinned anew.
LoadState(s, source) ==
    LET state == RefsOf(s, source.uid) IN
    IF state.kind = "none" /\ source.status # "none"
    THEN [NoPin EXCEPT !.kind = "unverified"]
    ELSE state

\* pinReferences for the next source, against the listed zones and a live
\* read of the context.  Create and the locked patch make it atomic.
PinReferences(p) ==
    /\ zaPass[p].at = "pin" /\ zaPass[p].todo # {}
    /\ LET me == zaPass[p]
           s == CHOOSE x \in me.todo :
                  \A y \in me.todo \ {x} : Rank[x] < Rank[y]
           source == me.sources[s]
           z == me.zones[ZoneOf(s)]
           context == zaContexts[ContextOf(s)]
           state == LoadState(s, source)
           zone == PinNamedReference(state.zone,
                     IF z.phase = "live" THEN z.uid ELSE 0)
           ctx == PinNamedReference(state.context,
                     IF context.live THEN context.uid ELSE 0)
           verified == state.kind # "unverified"
       IN /\ zaPins' = [zaPins EXCEPT ![<<s, source.uid>>] =
                IF verified
                THEN [kind |-> "pinned", zone |-> zone.pin,
                      context |-> ctx.pin]
                ELSE state]
          /\ zaPass' = [zaPass EXCEPT
                ![p].todo = @ \ {s},
                ![p].refs[s] = [zone |-> zone.pin, context |-> ctx.pin,
                    current |-> verified /\ zone.current /\ ctx.current]]
    /\ UNCHANGED <<zaZones, zaSources, zaContexts, zaBindings, zaServed>>
    /\ UNCHANGED zaOutside

----------------------------------------------------------------------------
(* Associations.                                                           *)

Current(me, s) == me.sources[s].live /\ me.refs[s].current
Unreserved(me, s) ==
    /\ Current(me, s)
    /\ ~(zaContexts[ContextOf(s)].managed /\ ZoneOf(s) \in Shadowing)

\* Every association before s, in name order, that owns the same apex in
\* the same context holds the same zone.
OwnsApex(me, s) ==
    /\ Unreserved(me, s)
    /\ \A t \in AssociationNames :
         (/\ Rank[t] < Rank[s] /\ Unreserved(me, t)
          /\ me.refs[t].context = me.refs[s].context
          /\ ContextOf(t) = ContextOf(s)
          /\ Apex[ZoneOf(t)] = Apex[ZoneOf(s)])
         => ZoneOf(t) = ZoneOf(s)

\* overZoneLimit: the managed zone first, then accepted zones by the time
\* they were accepted, then by creation, then by name.
RankOf(me, z, all) ==
    LET mine == {s \in all : ZoneOf(s) = z}
        accepted == {s \in mine : Accepted(me.sources[s])}
        earliest(ts) == CHOOSE t \in ts : \A u \in ts : t <= u IN
    <<IF mine \cap Lifetimes # {} THEN 0 ELSE 1,
      IF accepted # {} THEN 0 ELSE 1,
      IF accepted # {} THEN earliest({me.sources[s].since : s \in accepted})
      ELSE 0,
      earliest({me.sources[s].created : s \in mine}),
      earliest({Rank[s] : s \in mine})>>
Precedes(a, b) == \E i \in 1 .. 5 : a[i] < b[i] /\ \A j \in 1 .. i - 1 : a[j] = b[j]

NoZoneLimit(me, all) == {}

OverZoneLimit(me, all) ==
    LET zones == {ZoneOf(s) : s \in all} IN
    {s \in all :
        Cardinality({z \in zones : Precedes(RankOf(me, z, all),
                                            RankOf(me, ZoneOf(s), all))})
            >= MaxZones}

Verdict(me, s) ==
    LET rivals == {t \in AssociationNames :
                     /\ OwnsApex(me, t) /\ ContextOf(t) = ContextOf(s)
                     /\ me.refs[t].context = me.refs[s].context} IN
    CASE ~Current(me, s) -> "InvalidReference"
      [] Current(me, s) /\ ~Unreserved(me, s) -> "ReservedScope"
      [] Unreserved(me, s) /\ ~OwnsApex(me, s) -> "ApexConflict"
      [] OwnsApex(me, s) /\ s \in OverZoneLimit(me, rivals)
           -> "ZoneLimitExceeded"
      [] OTHER -> "Accepted"

\* setCondition keeps the time of the last transition.
WithStatus(source, status) ==
    [source EXCEPT !.status = status,
        !.since = IF (source.status = "Accepted") = (status = "Accepted")
                  THEN @ ELSE zaNow]

\* The statuses are patched without a lock: onto whatever object has the
\* name now, unless it is gone (the pass fails).
Judge(me) ==
    [s \in SourceNames |->
        IF s \in AssociationNames /\ me.sources[s].live
        THEN WithStatus(me.sources[s], Verdict(me, s))
        ELSE me.sources[s]]
ReconcileAssociations(p) ==
    /\ zaPass[p].at = "pin" /\ zaPass[p].todo = {}
    /\ LET me == zaPass[p]
           judged == Judge(me)
           patches == {s \in SourceNames : judged[s] # me.sources[s]}
       IN /\ zaSources' = [s \in SourceNames |->
                IF s \in patches /\ zaSources[s].live
                THEN [zaSources[s] EXCEPT !.status = judged[s].status,
                                          !.since = judged[s].since]
                ELSE zaSources[s]]
          /\ IF \E s \in patches : ~zaSources[s].live
             THEN Fail(p)
             ELSE zaPass' = [zaPass EXCEPT ![p].at = "policies",
                                           ![p].sources = judged]
    /\ UNCHANGED <<zaZones, zaPins, zaContexts, zaBindings, zaServed>>
    /\ UNCHANGED zaOutside

\* associatedWithContext
AssociatedWithContext(me, zone, name, context) ==
    \E a \in AssociationNames :
        /\ Accepted(me.sources[a]) /\ ZoneOf(a) = name
        /\ RefsOf(a, me.sources[a].uid).zone = zone
        /\ RefsOf(a, me.sources[a].uid).context = context

ReconcileNamingPolicies(p) ==
    /\ zaPass[p].at = "policies"
    /\ LET me == zaPass[p]
           judged(s) ==
             LET context == zaContexts[ContextOf(s)] IN
             IF /\ Current(me, s) /\ context.live
                /\ context.ready = "True" /\ context.seen
                /\ AssociatedWithContext(me, me.refs[s].zone, ZoneOf(s),
                                         me.refs[s].context)
             THEN "Accepted" ELSE "InvalidPolicy"
           listed == {s \in Policies : me.sources[s].live}
       IN /\ zaSources' = [s \in SourceNames |->
                IF s \in listed /\ zaSources[s].live
                THEN WithStatus(zaSources[s], judged(s)) ELSE zaSources[s]]
          /\ IF \E s \in listed : ~zaSources[s].live
             THEN Fail(p)
             ELSE zaPass' = [zaPass EXCEPT ![p].at = "collect",
                                           ![p].refs = Idle.refs]
    /\ UNCHANGED <<zaZones, zaPins, zaContexts, zaBindings, zaServed>>
    /\ UNCHANGED zaOutside

\* collectReferenceStates: the states of sources the pass has not listed,
\* unless a live read still finds the source.
CollectReferenceStates(p) ==
    /\ zaPass[p].at = "collect"
    /\ zaPins' = [k \in SourceNames \X Uids |->
          IF \/ zaPass[p].sources[k[1]].live /\ zaPass[p].sources[k[1]].uid = k[2]
             \/ zaSources[k[1]].live /\ zaSources[k[1]].uid = k[2]
          THEN zaPins[k] ELSE NoPin]
    /\ zaPass' = [zaPass EXCEPT ![p].at = "bind"]
    /\ UNCHANGED <<zaZones, zaSources, zaContexts, zaBindings, zaServed>>
    /\ UNCHANGED zaOutside

\* associationMatchesZone: the zones the bindings of context lifetime l get.
Attaching(me, l) ==
    {a \in AssociationNames :
        /\ Accepted(me.sources[a])
        /\ ContextOf(a) = l[1]
        /\ RefsOf(a, me.sources[a].uid).context = l[2]
        /\ me.zones[ZoneOf(a)].phase # "gone"
        /\ RefsOf(a, me.sources[a].uid).zone = me.zones[ZoneOf(a)].uid}

\* Only a context that is live and Ready gets a binding (a live read).
WriteBindings(p) ==
    /\ zaPass[p].at = "bind"
    /\ LET me == zaPass[p]
           bound == {l \in Lifetimes :
                       LET c == zaContexts[l[1]] IN
                       c.live /\ c.uid = l[2] /\ c.ready = "True" /\ c.seen}
       IN /\ zaBindings' = [l \in Lifetimes |->
                IF l \in bound
                THEN {<<ZoneOf(a), me.zones[ZoneOf(a)].uid>> :
                        a \in Attaching(me, l)}
                ELSE zaBindings[l]]
          /\ zaServed' = zaServed \cup UNION
                {{[by |-> a, lifetime |-> me.sources[a].uid,
                   zone |-> me.zones[ZoneOf(a)].uid, context |-> l[2]] :
                     a \in Attaching(me, l)} : l \in bound}
          /\ Fail(p)
    /\ UNCHANGED <<zaZones, zaSources, zaPins, zaContexts>>
    /\ UNCHANGED zaOutside

AttachmentNext ==
    \/ \E z \in ZoneNames : FinalizeZone(z) \/ DeleteZone(z)
    \/ \E z \in Plain : CreateZone(z)
    \/ \E s \in PlainSources \cup Policies : CreateSource(s)
    \/ \E s \in SourceNames : DeleteSource(s)
    \/ \E c \in Contexts : CreateContext(c) \/ ToggleManaged(c) \/ DeleteContext(c)
    \/ \E l \in Lifetimes : CollectOwned(l)
    \/ Reconfigure \/ Tick
    \/ \E p \in Passes :
          \/ ListZones(p) \/ ListSources(p)
          \/ ReconcileContext(p) \/ WithdrawAssociation(p) \/ WithdrawZone(p)
          \/ ContextsDone(p) \/ PinReferences(p)
          \/ ReconcileAssociations(p) \/ ReconcileNamingPolicies(p)
          \/ CollectReferenceStates(p) \/ WriteBindings(p)

----------------------------------------------------------------------------
\* Replacing a zone or a context by another of the same name never attaches
\* it silently: whatever lists, pins and passes overlap, the bindings that
\* one lifetime of an association has ever contributed to show one zone
\* lifetime for one context lifetime (pinNamedReference,
\* collectReferenceStates).
NoSilentReattach ==
    \A x, y \in zaServed :
        x.by = y.by /\ x.lifetime = y.lifetime
            => x.zone = y.zone /\ x.context = y.context

\* No binding lists more zones than its schema admits, whatever passes have
\* accepted at the same time (overZoneLimit and the MaxItems of ZoneRefs).
WithinLimit == \A l \in Lifetimes : Cardinality(zaBindings[l]) <= MaxZones

\* An association is told to be recreated when its zone was replaced
\* ("Recreate the association or policy to attach a replacement with the
\* same name"), so the state of a live association is never one that refuses
\* to pin anything.
RecreatedCanAttach ==
    \A s \in SourceNames :
        zaSources[s].live => RefsOf(s, zaSources[s].uid).kind # "unverified"
=============================================================================
