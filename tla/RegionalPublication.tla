------------------------ MODULE RegionalPublication -------------------------
(***************************************************************************)
(* A private zone that several regional control planes publish, each to    *)
(* the shards of its own region (internal/internaldns/controlplane/        *)
(* publication_reconciler.go, projectstatus/, and the publication half of  *)
(* platform/acks.go): which shards a revision serves and which it          *)
(* withdraws from, the finalizers that hold the zone, the verdict of each  *)
(* region and the condition that sums them up.                             *)
(*                                                                         *)
(* How one control plane commits a revision is PublicationOwnership, how   *)
(* it is exported is PublicationExport; here each is one step.  A pass     *)
(* works on the copy of the zone that it began with, and its patches of    *)
(* the zone fail once somebody else has written it.                        *)
(***************************************************************************)
EXTENDS Naturals, FiniteSets

CONSTANTS Shards, RegionOf,   \* shard -> region
          RetiredRegion,      \* a region that has no control plane any more
          MaxManifests,       \* revisions of each control plane
          MaxChanges          \* changes of bindings and of the zone's input

VARIABLES rpZone,      \* state, finalizers and input generation of the zone
          rpBound,     \* shards where a context of the zone is bound
          rpMan,       \* region -> the active manifest
          rpDelivered, \* region -> shards that its broker took the manifest for
          rpVerified,  \* region -> shards whose members have verified it
          rpBroker,    \* shard -> what its broker has last taken
          rpInst,      \* shard -> what its members serve
          rpPass,      \* region -> the pass that its control plane is in
          rpStatus,    \* entries and condition of an input of the zone
          rpChanges

rpVars == <<rpZone, rpBound, rpMan, rpDelivered, rpVerified, rpBroker, rpInst, rpPass,
            rpStatus, rpChanges>>

Regions == {RegionOf[s] : s \in Shards}
Local(c, S) == {s \in S : RegionOf[s] = c}
RegionsOfShards(S) == {RegionOf[s] : s \in S}

NoMan == [rev |-> 0, gen |-> 0, tombstone |-> FALSE, serve |-> {}, withdraw |-> {}, expected |-> {}]
Nothing == [rev |-> 0, gen |-> 0, serve |-> FALSE]
NoEntryYet == [gen |-> 0, rev |-> 0, published |-> FALSE]
Idle == [at |-> "idle", current |-> FALSE, fins |-> {}, man |-> NoMan]

RegionalInit ==
    /\ \E fins \in {{}, {RetiredRegion}} : rpZone = [state |-> "live", fins |-> fins, gen |-> 1]
    /\ rpBound = {}
    /\ rpMan = [c \in Regions |-> NoMan]
    /\ rpDelivered = [c \in Regions |-> {}]
    /\ rpVerified = [c \in Regions |-> {}]
    /\ rpBroker = [s \in Shards |-> Nothing]
    /\ rpInst = [s \in Shards |-> Nothing]
    /\ rpPass = [c \in Regions |-> Idle]
    /\ rpStatus = [entry |-> [c \in Regions |-> NoEntryYet], published |-> FALSE, gen |-> 0]
    /\ rpChanges = 0

-----------------------------------------------------------------------------
Change == rpChanges < MaxChanges /\ rpChanges' = rpChanges + 1

\* Bindings come and go with the resolver contexts (DestinationClaims).
Rebind(S) ==
    /\ Change
    /\ rpBound' = S
    /\ UNCHANGED <<rpZone, rpMan, rpDelivered, rpVerified, rpBroker, rpInst, rpPass, rpStatus>>

\* Every write of the zone outdates the copies that passes hold.
WriteZone(z) ==
    rpZone' = IF z.state = "deleting" /\ z.fins = {} THEN [z EXCEPT !.state = "gone"] ELSE z

Outdated(c) == [d \in Regions |-> IF d = c THEN Idle ELSE [rpPass[d] EXCEPT !.current = FALSE]]

EditInput ==
    /\ Change
    /\ rpZone.state = "live"
    /\ rpZone' = [rpZone EXCEPT !.gen = @ + 1]
    /\ UNCHANGED <<rpBound, rpMan, rpDelivered, rpVerified, rpBroker, rpInst, rpPass, rpStatus>>

DeleteZone ==
    /\ rpZone.state = "live"
    /\ WriteZone([rpZone EXCEPT !.state = "deleting"])
    /\ rpPass' = [d \in Regions |-> [rpPass[d] EXCEPT !.current = FALSE]]
    /\ UNCHANGED <<rpBound, rpMan, rpDelivered, rpVerified, rpBroker, rpInst, rpStatus, rpChanges>>

-----------------------------------------------------------------------------
\* publicationTargets

\* A zone is published where a context of it is bound, or everywhere while none is.
Wanted == IF rpBound = {} THEN Shards ELSE rpBound

ServingTargets(c, tombstone) ==
    IF tombstone THEN rpMan[c].serve ELSE Local(c, Wanted)

\* Fault: only the shards that the last revision served are withdrawn.
WithdrawLast(c, serve) == rpMan[c].serve \ serve

\* A shard that an earlier revision served is withdrawn by each revision until
\* one of them has reached its broker.
WithdrawnTargets(c, serve) ==
    (rpMan[c].serve \ serve)
    \cup {s \in rpMan[c].withdraw \ serve : s \notin rpDelivered[c]}

\* A withdrawal stays expected wherever the zone was.
ExpectedRegions(c, tombstone) ==
    IF tombstone THEN RegionsOfShards(rpMan[c].serve) \cup rpMan[c].expected
    ELSE RegionsOfShards(Wanted)

NextManifest(c, tombstone) ==
    LET serve == ServingTargets(c, tombstone)
    IN  [rev |-> rpMan[c].rev + 1, gen |-> rpZone.gen, tombstone |-> tombstone, serve |-> serve,
         withdraw |-> WithdrawnTargets(c, serve), expected |-> ExpectedRegions(c, tombstone)]

\* The content hash: a tombstone has no content; withdrawn shards are not in it.
SameContent(m, n) ==
    /\ m.rev > 0
    /\ m.tombstone = n.tombstone
    /\ ~m.tombstone => m.gen = n.gen /\ m.serve = n.serve /\ m.expected = n.expected

\* publicationVerified: every shard that the manifest serves.
Published(c) == rpMan[c].serve # {} /\ rpMan[c].serve \subseteq rpVerified[c]

TombstoneAcknowledged(c) ==
    rpMan[c].tombstone /\ (rpMan[c].serve = {} \/ Published(c))

\* compileZone up to what it has to write: nothing, the release of a zone that
\* is withdrawn (or was never served here), or the next revision.
BeginPass(c) ==
    LET tombstone == rpZone.state = "deleting"
        m == NextManifest(c, tombstone)
        nothing == m.serve = {} /\ rpMan[c].rev = 0
        same == SameContent(rpMan[c], m)
        release == tombstone /\ (nothing \/ (same /\ TombstoneAcknowledged(c)))
    IN  /\ rpPass[c] = Idle
        /\ rpZone.state # "gone"
        /\ release \/ ~(nothing \/ same)
        /\ release \/ m.rev <= MaxManifests
        /\ rpPass' = [rpPass EXCEPT ![c] =
                [at |-> IF release THEN "release" ELSE IF tombstone THEN "commit" ELSE "hold",
                 current |-> TRUE, fins |-> rpZone.fins, man |-> m]]
        /\ UNCHANGED <<rpZone, rpBound, rpMan, rpDelivered, rpVerified, rpBroker, rpInst,
                       rpStatus, rpChanges>>

\* holdRegions: the regions to add to the finalizers of the zone.
HoldRegions(c, fins, expected) ==
    IF c \in fins /\ expected \subseteq fins THEN {}
    ELSE ({c} \cup RegionsOfShards(rpBound)) \ fins

\* Fault: the zone is published without being held.
HoldNothing(c) ==
    /\ rpPass[c].at = "hold"
    /\ rpPass' = [rpPass EXCEPT ![c].at = "commit"]
    /\ UNCHANGED <<rpZone, rpBound, rpMan, rpDelivered, rpVerified, rpBroker, rpInst,
                   rpStatus, rpChanges>>

Hold(c) ==
    LET more == HoldRegions(c, rpPass[c].fins, rpPass[c].man.expected)
    IN  /\ rpPass[c].at = "hold"
        /\ \/ /\ more = {}
              /\ rpPass' = [rpPass EXCEPT ![c].at = "commit"]
              /\ UNCHANGED rpZone
           \/ /\ more # {} /\ rpPass[c].current
              /\ WriteZone([rpZone EXCEPT !.fins = @ \cup more])
              /\ rpPass' = [Outdated(c) EXCEPT ![c] = [rpPass[c] EXCEPT !.at = "commit"]]
           \/ /\ more # {} /\ ~rpPass[c].current
              /\ rpPass' = [rpPass EXCEPT ![c] = Idle]
              /\ UNCHANGED rpZone
        /\ UNCHANGED <<rpBound, rpMan, rpDelivered, rpVerified, rpBroker, rpInst, rpStatus, rpChanges>>

\* persistPublication and the commit of the ownership record; a pass may also fail.
Commit(c) ==
    /\ rpPass[c].at = "commit"
    /\ rpMan' = [rpMan EXCEPT ![c] = rpPass[c].man]
    /\ rpDelivered' = [rpDelivered EXCEPT ![c] = {}]
    /\ rpVerified' = [rpVerified EXCEPT ![c] = {}]
    /\ rpPass' = [rpPass EXCEPT ![c] = Idle]
    /\ UNCHANGED <<rpZone, rpBound, rpBroker, rpInst, rpStatus, rpChanges>>

FailPass(c) ==
    /\ rpPass[c] # Idle
    /\ rpPass' = [rpPass EXCEPT ![c] = Idle]
    /\ UNCHANGED <<rpZone, rpBound, rpMan, rpDelivered, rpVerified, rpBroker, rpInst,
                   rpStatus, rpChanges>>

\* releaseZone: this region's finalizer, and those of regions that have no
\* control plane; the list is patched under an optimistic lock.
ReleaseZone(c) ==
    /\ rpPass[c].at = "release"
    /\ \/ /\ rpPass[c].current
          /\ WriteZone([rpZone EXCEPT !.fins = (rpPass[c].fins \ {c}) \cap Regions])
          /\ rpPass' = Outdated(c)
       \/ /\ ~rpPass[c].current
          /\ rpPass' = [rpPass EXCEPT ![c] = Idle]
          /\ UNCHANGED rpZone
    /\ UNCHANGED <<rpBound, rpMan, rpDelivered, rpVerified, rpBroker, rpInst, rpStatus, rpChanges>>

-----------------------------------------------------------------------------
\* The exporter takes the outboxes of the active manifest to the brokers, the
\* members install what their broker has, and the sink records who has.
Export(s) ==
    LET c == RegionOf[s]
        m == rpMan[c]
    IN  /\ s \in (m.serve \cup m.withdraw) \ rpDelivered[c]
        /\ rpBroker' = [rpBroker EXCEPT ![s] =
                [rev |-> m.rev, gen |-> m.gen, serve |-> s \in m.serve /\ ~m.tombstone]]
        /\ rpDelivered' = [rpDelivered EXCEPT ![c] = @ \cup {s}]
        /\ UNCHANGED <<rpZone, rpBound, rpMan, rpVerified, rpInst, rpPass, rpStatus, rpChanges>>

Install(s) ==
    /\ rpInst[s] # rpBroker[s]
    /\ rpInst' = [rpInst EXCEPT ![s] = rpBroker[s]]
    /\ UNCHANGED <<rpZone, rpBound, rpMan, rpDelivered, rpVerified, rpBroker, rpPass, rpStatus, rpChanges>>

\* publication: a row counts for the manifest it names; rows lapse with the
\* lease of the member that sent them.
Acknowledge(s) ==
    LET c == RegionOf[s]
    IN  /\ s \in rpMan[c].serve /\ rpInst[s].rev = rpMan[c].rev
        /\ rpVerified' = [rpVerified EXCEPT ![c] = @ \cup {s}]
        /\ UNCHANGED <<rpZone, rpBound, rpMan, rpDelivered, rpBroker, rpInst, rpPass, rpStatus, rpChanges>>

LapseRow(s) ==
    /\ s \in rpVerified[RegionOf[s]]
    /\ rpVerified' = [rpVerified EXCEPT ![RegionOf[s]] = @ \ {s}]
    /\ UNCHANGED <<rpZone, rpBound, rpMan, rpDelivered, rpBroker, rpInst, rpPass, rpStatus, rpChanges>>

-----------------------------------------------------------------------------
\* Fault: an entry counts whatever generation it is about.
PendingNow(entries, expected, gen) == {d \in expected \cap Regions : ~entries[d].published}

\* PendingRegions: the expected regions whose entry has not published gen.
PendingRegions(entries, expected, gen) ==
    {d \in expected : d \notin Regions \/ ~(entries[d].gen = gen /\ entries[d].published)}

\* RecordRegions: a control plane writes the entry of its own region, and drops
\* it once the zone has left the region.
RecordRegions(c) ==
    [rpStatus.entry EXCEPT ![c] =
        IF c \in rpMan[c].expected
          THEN [gen |-> rpMan[c].gen, rev |-> rpMan[c].rev, published |-> Published(c)]
          ELSE NoEntryYet]

\* aggregatePublicationStatus, on a fresh read of the object, for the generation
\* that the manifest has compiled.
AggregateStatus(c) ==
    LET m == rpMan[c]
        entries == RecordRegions(c)
    IN  /\ m.rev > 0 /\ ~m.tombstone
        /\ m.gen = rpZone.gen /\ rpZone.state # "gone"
        /\ rpStatus' = [entry |-> entries, gen |-> m.gen,
                published |-> IF m.expected = {} THEN Published(c)
                              ELSE PendingRegions(entries, m.expected, m.gen) = {}]
        /\ UNCHANGED <<rpZone, rpBound, rpMan, rpDelivered, rpVerified, rpBroker, rpInst,
                       rpPass, rpChanges>>

RegionalNext ==
    \/ \E S \in SUBSET Shards : S # rpBound /\ Rebind(S)
    \/ EditInput \/ DeleteZone
    \/ \E c \in Regions :
        \/ BeginPass(c) \/ Hold(c) \/ Commit(c) \/ FailPass(c) \/ ReleaseZone(c)
        \/ AggregateStatus(c)
    \/ \E s \in Shards : Export(s) \/ Install(s) \/ Acknowledge(s) \/ LapseRow(s)

RegionalSpec == RegionalInit /\ [][RegionalNext]_rpVars

-----------------------------------------------------------------------------
\* publicationTargets: a shard whose broker was last given a serving revision is
\* a target of the active manifest, to be served or to be withdrawn, however
\* often bindings moved and whichever exports came too late.
NoShardForgotten ==
    \A s \in Shards :
        rpBroker[s].serve => s \in rpMan[RegionOf[s]].serve \cup rpMan[RegionOf[s]].withdraw

\* holdRegions and releaseZone: when the zone object is gone, the members of a
\* shard serve it only where the zone had left the shard before it was deleted
\* and that withdrawal, committed or delivered, is still on its way; no region is
\* left that was not asked, and no control plane is about to publish it again.
RemovedZoneIsWithdrawn ==
    rpZone.state = "gone" =>
        /\ \A s \in Shards :
            (rpBroker[s].serve \/ rpInst[s].serve) =>
                /\ rpMan[RegionOf[s]].tombstone
                /\ s \notin rpMan[RegionOf[s]].serve
                /\ rpBroker[s].serve => s \in rpMan[RegionOf[s]].withdraw
        /\ \A c \in Regions : rpPass[c].at = "commit" => rpPass[c].man.tombstone

\* Nothing that was served is forgotten, while the zone lives or after it
\* (publicationTargets, holdRegions, releaseZone).
NothingServedIsForgotten == NoShardForgotten /\ RemovedZoneIsWithdrawn

\* PublishedForRegions: an input is said to be published only when every region
\* that the zone is expected in has members that serve this generation of it, or
\* one that is newer, though each region only ever reports for itself.
PublishedEverywhere ==
    (rpStatus'.published /\ rpStatus' # rpStatus) =>
      \E c \in Regions :
          /\ rpMan[c].gen = rpStatus'.gen
          /\ \A d \in rpMan[c].expected :
              \E s \in Local(d, Shards) : rpInst[s].gen >= rpStatus'.gen
=============================================================================
