--------------------------- MODULE MCPrivatePlane ---------------------------
(* Instances of the components behind private DNS.  Each is given an        *)
(* environment of its own in its module, so a behaviour runs one of them,   *)
(* and `part` says which; they share the variables x1, x2, ...  Where one   *)
(* instance with every bound raised would be too large, a component has     *)
(* several parts, each of which leaves something out.                       *)
EXTENDS RegionLease, FiniteSets, Sequences, TLC

CONSTANTS
    Parts,           \* the parts to run
    c1, c2, z1, z2,  \* resolver contexts and zones
    a1, a2, n1,      \* associations and a naming policy
    MaxTime,         \* bound: how long a lease is contended for
    MaxVersion       \* bound: writes of a lease

VARIABLES
    part,            \* the part that runs
    x1, x2, x3, x4, x5, x6, x7, x8, x9, x10, x11, x12, x13, x14, x15, x16, x17   \* its variables

----------------------------------------------------------------------------
(* pubstore: two callers, a replica and a rival control plane. *)

StoreBuckets == {"home"}
StoreKeys == {"own"}
KeyRegion == "own" :> None
StoreClients == {1, 2}
StorePlanes == {"self", "rival"}
PlaneRegions == "self" :> 1 @@ "rival" :> 2

Store == INSTANCE PublicationStore WITH
    Buckets <- StoreBuckets, Home <- "home", Keys <- StoreKeys,
    Region <- KeyRegion, Clients <- StoreClients, Planes <- StorePlanes,
    Self <- "self", RegionsOf <- PlaneRegions, MaxSeq <- 3, MaxBreaks <- 1,
    psKv <- x1, psSeq <- x2, psIndex <- x3, psWatch <- x4, psPending <- x5,
    psOp <- x6, psClaim <- x7, psPlane <- x8, psBreaks <- x9

psSeq == x2
psOp == x6
psPlane == x8

(* Store: calls, with no rival: one caller writes specs, one statuses. *)
(* Claims: planes start on a quiet bucket.                                  *)
StoreParts == {"store", "claims"}
StoreStep ==
    /\ Store!StoreNext
    /\ IF part = "store" THEN /\ psPlane'["rival"] = psPlane["rival"]
                              /\ psOp'[2].at # "delete" /\ psOp'[1].sub # "status"
                              /\ psOp'[2].at \in {"write", "swap"} => psOp'[2].sub = "status"
                         ELSE UNCHANGED psSeq

(* A shard with a listed member and one that a pattern admits.  Capacity:   *)
(* members stand still.  Proof: one binding comes and goes in two revisions. *)
TwoPlanners == {"p1", "p2"}
BindingOrder == <<"b1", "b2">>
OneZone == {"z"}
LegacyBindings == {"b2"}
ListedMembers == {"l"}
PatternMembers == {"n"}
MemberTier == "l" :> "node" @@ "n" :> "node"

Shard == INSTANCE ShardServing WITH
    Planners <- TwoPlanners, Order <- BindingOrder, ShardZones <- OneZone,
    Legacy <- LegacyBindings, Listed <- ListedMembers, Pattern <- PatternMembers,
    Tier <- MemberTier, MaxBindings <- 2, MaxBytes <- 4,
    MaxEpoch <- 2, MaxRevision <- 3, MaxEdits <- 4,
    ssBinding <- x1, ssZone <- x2, ssOwner <- x3, ssPlan <- x4, ssInst <- x5,
    ssAck <- x6, ssRow <- x7, ssStatus <- x8, ssHeard <- x9, ssEdits <- x10

ssBinding == x1
ssZone == x2
ssOwner == x3
ssInst == x5
ssAck == x6
ssEdits == x10
ssRow == x7

CapacityStep == Shard!ShardNext /\ UNCHANGED <<ssInst, ssAck, ssRow>> /\ ssEdits' <= 3
ProofStep ==
    /\ Shard!ShardNext
    /\ UNCHANGED ssZone /\ ssBinding'["b2"] = ssBinding["b2"] /\ ssOwner'.next <= 3

(* Two shards of one region whose bindings move, or two regions that        *)
(* publish twice.                                                           *)
ShardNames == {"a1", "a2", "b1"}
ShardRegion == "a1" :> "a" @@ "a2" :> "a" @@ "b1" :> "b"
Regional == INSTANCE RegionalPublication WITH
    Shards <- ShardNames,
    RegionOf <- ShardRegion,
    RetiredRegion <- "old", MaxManifests <- 3, MaxChanges <- 2,
    rpZone <- x1, rpBound <- x2, rpMan <- x3, rpDelivered <- x4,
    rpVerified <- x5, rpBroker <- x6, rpInst <- x7, rpPass <- x8,
    rpStatus <- x9, rpChanges <- x10

rpZone == x1
rpBound == x2
rpMan == x3
rpVerified == x5
rpPass == x8
rpStatus == x9

TargetsStep ==
    /\ Regional!RegionalNext
    /\ rpBound' \subseteq {"a1", "a2"} /\ rpPass'["b"] = rpPass["b"]
    /\ rpZone'.gen = rpZone.gen /\ UNCHANGED rpStatus
RegionsStep ==
    /\ Regional!RegionalNext
    /\ rpBound' \in {{}, {"a1"}, {"a1", "b1"}} /\ \A c \in {"a", "b"} : rpMan'[c].rev <= 2
    /\ rpPass' # rpPass => rpBound # {}
    /\ rpMan' = rpMan => "b1" \notin rpVerified["b"] \ rpVerified'["b"]

(* Garbage collection of publications. *)
Collect == INSTANCE PublicationCollect WITH
    MaxPublications <- 3, MaxSnapshots <- 1,
    pcMan <- x1, pcActive <- x2, pcStaged <- x3, pcExport <- x4, pcAct <- x5,
    pcServ <- x6, pcShard <- x7, pcNext <- x8, pcOld <- x9, pcPlan <- x10,
    pcView <- x11

(* A member's activation, where a second failure strikes only while a first *)
(* is being recovered from, and the queries it answers.                     *)
Activation == INSTANCE DaemonActivation WITH
    MaxVersion <- 2, MaxFailures <- 2,
    daPc <- x1, daWant <- x2, daDrops <- x3, daPrev <- x4, daNeeds <- x5,
    daMem <- x6, daCkpt <- x7, daMarker <- x8, daLock <- x9, daFile <- x10,
    daAllow <- x11, daProc <- x12, daSup <- x13, daCheck <- x14,
    daPort <- x15, daApproved <- x16, daFailures <- x17

daPc == x1
daFailures == x17

ActivationStep ==
    /\ Activation!ActivationNext
    /\ daFailures' = 2 => daFailures = 2 \/ daPc \in {"rollback", "reloadOld", "gated"}

RoutingContexts == {"c1", "c2"}
RoutingApexes == {<<"corp">>, <<"sub", "corp">>}
RoutingNames == {<<"www", "corp">>, <<"www", "sub", "corp">>}

Routing == INSTANCE QueryRouting WITH
    Contexts <- RoutingContexts, Varied <- "c1", Apexes <- RoutingApexes,
    QNames <- RoutingNames, MaxSwaps <- 1,
    qrRole <- x1, qrKeyed <- x2, qrDesired <- x3, qrLoaded <- x4,
    qrMinimum <- x5, qrQuery <- x6, qrAt <- x7, qrAnswer <- x8, qrSwaps <- x9

qrRole == x1
qrKeyed == x2
qrDesired == x3
qrLoaded == x4

(* Without a shared identity key, one apex, behind a tier that forwards; on *)
(* an authoritative node, which asks no other tier, the longer apex is      *)
(* absent or ready.                                                         *)
LongerUnready(s) == s.zones[<<"sub", "corp">>] \notin {"absent", "ready"}
RoutingStart ==
    /\ Routing!RoutingInit
    /\ ~qrKeyed => /\ qrDesired.zones[<<"sub", "corp">>] = "absent"
                   /\ qrRole = "forwarding"
    /\ qrRole = "authoritative" => ~LongerUnready(qrDesired)

RoutingStep ==
    /\ Routing!RoutingNext
    /\ qrRole = "authoritative" =>
         /\ ~LongerUnready(qrDesired')
         /\ \A d \in {"regionDist", "regionCore"} : qrLoaded'[d] = qrLoaded[d]

----------------------------------------------------------------------------
(* The context controller.  Replace: a zone, its context and its association *)
(* are replaced, and from the last change on a second pass overlaps.        *)
(* Policy: a naming policy names the same zone.  Limit: a second zone is    *)
(* over the limit.  Consumer: two contexts have one consumer.               *)

ContextNames == {c1, c2}
ZoneOf == a1 :> z1 @@ a2 :> z2 @@ n1 :> z1
ContextOf == a1 :> c1 @@ a2 :> c1 @@ n1 :> c1
Lives == 1..2
Managed == ContextNames \X Lives   \* a managed zone is named after its context
RankOf == [x \in {c1, c2, a1, a2, n1} \cup Managed |->
             CASE x \in {c1, a1} -> 1
               [] x \in {c2, a2} -> 2
               [] x = n1 -> 9
               [] OTHER -> 3 + x[2] + IF x[1] = c1 THEN 0 ELSE 2]
ApexOf == [z \in {z1, z2} \cup Managed |-> IF z \in {z1, z2} THEN z ELSE z[1]]

TwoPasses == {1, 2}
PlainZones == {z1, z2}
Associations == {a1, a2}
NamingPolicies == {n1}
NoApex == {}

zaZones == x1
zaSources == x2
zaPins == x3
zaContexts == x4
zaBindings == x5
zaPermitted == x6
zaPass == x7
zaNow == x8
zaChanges == x9
zaServed == x10

Attach == INSTANCE ZoneAttachment WITH
    Passes <- TwoPasses, Contexts <- ContextNames, Plain <- PlainZones,
    PlainSources <- Associations, Policies <- NamingPolicies, PlainZone <- ZoneOf,
    PlainContext <- ContextOf, Rank <- RankOf, Apex <- ApexOf, Shadowing <- NoApex,
    MaxZones <- 1, MaxLife <- 2, MaxTime <- 1, MaxChanges <- 4

AttachNames ==
    CASE part = "replace" -> {c1, z1, a1}
      [] part = "policy" -> {c1, z1, a1, n1}
      [] part = "limit" -> {c1, z1, z2, a1, a2}
      [] part = "consumer" -> {c1, c2}
AttachBudget == IF part \in {"policy", "consumer"} THEN 3 ELSE 2

(* The objects of the part exist; the lifetimes of other names are used up. *)
AttachStart ==
    /\ zaPins = [k \in Attach!SourceNames \X Attach!Uids |-> Attach!NoPin]
    /\ zaBindings = [l \in Attach!Lifetimes |-> {}]
    /\ zaPermitted = TRUE /\ zaServed = {}
    /\ zaPass = [p \in 1..2 |->
         IF p = 1 \/ part = "replace" THEN Attach!Idle ELSE [Attach!Idle EXCEPT !.at = "off"]]
    /\ zaNow = 0 /\ zaChanges = 4 - AttachBudget
    /\ zaZones = [z \in Attach!ZoneNames |->
         IF z \in {z1, z2} \ AttachNames THEN [Attach!NoZone EXCEPT !.uid = 2]
         ELSE IF z \in {z1, z2} THEN [uid |-> 1, phase |-> "live"] ELSE Attach!NoZone]
    /\ zaContexts = [c \in ContextNames |->
         IF c \notin AttachNames THEN [Attach!NoContext EXCEPT !.uid = 2]
         ELSE IF c = c1 THEN [Attach!NoContext EXCEPT !.uid = 1, !.live = TRUE]
         ELSE Attach!NoContext]
    /\ zaSources = [s \in Attach!SourceNames |->
         IF s \in Managed THEN Attach!NoSource
         ELSE IF s \notin AttachNames THEN [Attach!NoSource EXCEPT !.uid = 2]
         ELSE IF s = n1 THEN Attach!NoSource
         ELSE [Attach!NoSource EXCEPT !.uid = 1, !.live = TRUE]]

AttachStep ==
    /\ Attach!AttachmentNext
    /\ zaNow' # zaNow => part = "consumer" /\ zaPass[1].at = "idle" /\ zaChanges = 1
    /\ zaPass[2].at = "idle" /\ zaPass'[2].at # "idle" => zaChanges = 4
    /\ part \in {"replace", "policy"} =>
         zaPermitted' = zaPermitted /\ \A c \in ContextNames : ~zaContexts'[c].managed

(* Overlapping passes over the bindings of one context. *)
OneAccess == {"a"}
TwoShards == <<"s1", "s2">>

Access == INSTANCE AccessBindings WITH
    Passes <- TwoPasses, Accesses <- OneAccess, ShardOrder <- TwoShards,
    MaxLife <- 2, MaxChanges <- 2,
    abContext <- x1, abAccess <- x2, abBinding <- x3, abZones <- x4,
    abShards <- x5, abPass <- x6, abJustified <- x7, abChanges <- x8

----------------------------------------------------------------------------
(* The compiler.  Fence: contributions and their registration are replaced  *)
(* in a tenant's zone.  In a managed one, reserve: declarations race; srv:  *)
(* static and contributed records meet.                                     *)

Address(n) == [at |-> n, type |-> "A", target |-> "-"]
Service(n, t) == [at |-> n, type |-> "SRV", target |-> t]
Declares(n, scopes, types) == [at |-> n, scopes |-> scopes, types |-> types]
Contributes(rec, eligible) == [recs |-> {rec}, eligible |-> eligible, valid |-> TRUE]

TwoRegs == {"r1", "r2"}
OneContrib == {"c1"}
OneStatic == {"s1"}
BelowPairs == {<<"a", "s">>}
Declarations == {Declares("s", {}, {"A", "SRV"}), Declares("s", {"s"}, {"A", "SRV"}),
                 Declares("a", {"a"}, {"A"})}
Contributions == {Contributes(Address("s"), TRUE), Contributes(Address("a"), TRUE),
                  Contributes(Address("s"), FALSE), Contributes(Service("s", "a"), TRUE)}
StaticSets == {[recs |-> {Address("a")}, valid |-> TRUE]}

zcManaged == x1
zcApi == x2
zcAsked == x3
zcCache == x4
zcAttached == x5
zcQueue == x6
zcState == x7
zcPass == x8
zcPlan == x9
zcGap == x10
zcLives == x11
zcChanges == x12

Compile == INSTANCE ZoneCompile WITH
    Regs <- TwoRegs, Contribs <- OneContrib, Statics <- OneStatic, Below <- BelowPairs,
    RegSpecs <- Declarations, ContribSpecs <- Contributions, StaticSpecs <- StaticSets,
    MaxLife <- 2, MaxGen <- 2, MaxChanges <- 3

Registration == [name |-> "r1", life |-> 1, gen |-> 1, dying |-> FALSE, born |-> 0,
                 spec |-> Declares("s", {}, {"A", "SRV"})]
CompileStart ==
    /\ zcManaged = (part # "fence")
    /\ zcApi = IF part = "reserve" THEN {} ELSE {Registration}
    /\ zcLives = [n \in {"r1", "r2", "c1", "s1"} |->
                    IF part # "reserve" /\ n = "r1" THEN 1 ELSE 0]
    /\ zcAttached = TRUE /\ zcAsked = {} /\ zcCache = {} /\ zcQueue = {"zone"}
    /\ zcGap = FALSE /\ zcState = Compile!NoState /\ zcPass = Compile!Idle
    /\ zcPlan = Compile!NoPlan
    /\ zcChanges = IF part = "srv" THEN 1 ELSE 0

CompileStep ==
    /\ Compile!ZoneNext
    /\ CASE part = "fence" ->
              /\ zcAttached' = zcAttached /\ ~zcGap'
              /\ \A o \in zcAsked' :
                   \/ o.name = "r1" /\ o.life = 2
                   \/ o.name = "c1" /\ Address("s") \in o.spec.recs /\ o.spec.eligible
         [] part = "reserve" ->
              /\ zcAttached' = zcAttached /\ zcCache' = zcCache
              /\ \A o \in zcAsked' :
                   /\ o.gen = 1 /\ o.life = 1
                   /\ o.name = "c1" => o.spec = Contributes(Address("s"), TRUE)
         [] part = "srv" -> \A o \in zcAsked' : o.name # "r2"

----------------------------------------------------------------------------

mcVars == <<part, rlVars, x1, x2, x3, x4, x5, x6, x7, x8, x9, x10, x11, x12,
            x13, x14, x15, x16, x17>>

ShardParts == {"capacity", "proof"}
RegionalParts == {"targets", "regions"}
AttachParts == {"replace", "policy", "limit", "consumer"}
CompileParts == {"fence", "reserve", "srv"}

(* How many of the variables the part uses. *)
Size ==
    CASE part = "lease" -> 0
      [] part = "access" -> 8
      [] part \in StoreParts \cup {"routing"} -> 9
      [] part \in ShardParts \cup RegionalParts \cup AttachParts -> 10
      [] part = "collect" -> 11
      [] part \in CompileParts -> 12
      [] part = "activation" -> 17

MCInit ==
    /\ part \in Parts
    /\ LeaseInit /\ (part # "lease" => rlSkew = [p \in Processes |-> 0])
    /\ IF Size < 8 THEN /\ x1 = 0 /\ x2 = 0 /\ x3 = 0 /\ x4 = 0
                       /\ x5 = 0 /\ x6 = 0 /\ x7 = 0 /\ x8 = 0 ELSE TRUE
    /\ IF Size < 9 THEN x9 = 0 ELSE TRUE
    /\ IF Size < 10 THEN x10 = 0 ELSE TRUE
    /\ IF Size < 11 THEN x11 = 0 ELSE TRUE
    /\ IF Size < 12 THEN x12 = 0 ELSE TRUE
    /\ IF Size < 17 THEN x13 = 0 /\ x14 = 0 /\ x15 = 0 /\ x16 = 0 /\ x17 = 0 ELSE TRUE
    /\ \/ part = "lease"
       \/ part \in StoreParts /\ Store!StoreInit
       \/ part \in ShardParts /\ Shard!ShardInit
       \/ part = "targets" /\ Regional!RegionalInit
       \/ part = "regions" /\ Regional!RegionalInit /\ rpZone.fins = {}
       \/ part = "collect" /\ Collect!CollectInit
       \/ part = "activation" /\ Activation!ActivationInit
       \/ part = "routing" /\ RoutingStart
       \/ part \in AttachParts /\ AttachStart
       \/ part = "access" /\ Access!BindingInit
       \/ part \in CompileParts /\ CompileStart

MCNext ==
    /\ \/ part = "lease" /\ LeaseNext /\ rlTime' <= MaxTime /\ rlLease'.version <= MaxVersion
       \/ part \in StoreParts /\ StoreStep
       \/ part = "capacity" /\ CapacityStep
       \/ part = "proof" /\ ProofStep
       \/ part = "targets" /\ TargetsStep
       \/ part = "regions" /\ RegionsStep
       \/ part = "collect" /\ Collect!CollectNext
       \/ part = "activation" /\ ActivationStep
       \/ part = "routing" /\ RoutingStep
       \/ part \in AttachParts /\ AttachStep
       \/ part = "access" /\ Access!BindingNext
       \/ part \in CompileParts /\ CompileStep
    /\ UNCHANGED part
    /\ IF part = "lease" THEN TRUE ELSE UNCHANGED rlVars
    /\ IF Size < 8 THEN UNCHANGED <<x1, x2, x3, x4, x5, x6, x7, x8>> ELSE TRUE
    /\ IF Size < 9 THEN UNCHANGED x9 ELSE TRUE
    /\ IF Size < 10 THEN UNCHANGED x10 ELSE TRUE
    /\ IF Size < 11 THEN UNCHANGED x11 ELSE TRUE
    /\ IF Size < 12 THEN UNCHANGED x12 ELSE TRUE
    /\ IF Size < 17 THEN UNCHANGED <<x13, x14, x15, x16, x17>> ELSE TRUE

MCSpec == MCInit /\ [][MCNext]_mcVars

----------------------------------------------------------------------------
(* What is checked of each component. *)

\* After every step: no write changed both the spec and the status of a record
\* (compose), a list misses no record once the watch has delivered (apply,
\* sync), and control planes for different regions do not run on one bucket
\* (ClaimRegions).
StoreIsWhole ==
    [][(part \in StoreParts) => /\ Store!WritesCompose
                                /\ Store!ListMissesNothing'
                                /\ Store!OneControlPlane']_mcVars

\* A withdrawn binding is said to be fully replicated only when no member that
\* counts serves it (bindingProof), and no binding that is served is left out
\* of a snapshot (fitSnapshot).
ShardKeepsItsWord ==
    [][(part \in ShardParts) => Shard!WithdrawalIsProven /\ Shard!EstablishedStays]_mcVars

\* A shard that was given a serving revision stays a target until it is
\* withdrawn, and when the zone object is gone the zone is withdrawn everywhere
\* (publicationTargets, holdRegions, releaseZone).
NothingServedIsForgotten ==
    part \in RegionalParts => Regional!NothingServedIsForgotten

\* An input is said to be published only when every region that is expected
\* serves it (PublishedForRegions).
PublishedEverywhere == [][(part \in RegionalParts) => Regional!PublishedEverywhere]_mcVars

\* The collector deletes nothing that a member or an outbox still needs
\* (Collect, protected publications and serving outboxes).
CollectKeepsNeeded == part = "collect" => Collect!CollectKeepsNeeded

\* When no activation is under way, CoreDNS answers from an approved version
\* (apply, failClosed, restoreActive, runDaemons).
ClosedServesApproved == part = "activation" => Activation!ClosedServesApproved

\* A name under an apex that stays attached never falls through to public
\* recursion, and is answered from the most specific apex (matchZone, serve).
PrivateStaysPrivate == part = "routing" => Routing!PrivateStaysPrivate

\* An association never comes to attach a later zone of the same name, and no
\* context attaches more zones than the limit (pinNamedReference, the limit of
\* the context pass).
AttachmentsHold ==
    part \in AttachParts => Attach!NoSilentReattach /\ Attach!WithinLimit

\* A binding is withdrawn only where that was due while the pass ran
\* (confirmAccessWithdrawal).
TombstoneIsJustified == [][part = "access" => Access!TombstoneIsJustified]_mcVars

\* A contribution retired for good is gone, and at rest the publication is what
\* a live compile gives (compileInputs, confirmContributions, reconcileQueueKey).
PublicationIsCurrent ==
    part \in CompileParts => Compile!RetiredIsGone /\ Compile!QuietIsCompiled

\* What has passed the guard respects every reservation stored at that moment
\* (Owner, guardZoneAccess).
GuardedRespectsReservations ==
    [][(part \in CompileParts) => Compile!GuardedRespectsReservations]_mcVars
=============================================================================
