--------------------------- MODULE MCTenantPlane ---------------------------
(* Instances of the components that carry what tenants declare: the          *)
(* replicators of public zones and record sets, discovery, admission of      *)
(* record sets, the commands, and the copies of private objects between      *)
(* projects, hub and regions.  They meet only through the API server's       *)
(* objects, so a behaviour runs one of them, and `part` says which; the      *)
(* variables of the others stand still.                                      *)
EXTENDS ZoneReplication, Sequences, TLC

CONSTANTS p1, p2,  \* projects that want the same domain
          d1, d2,  \* discoveries
          Parts    \* the components to run

VARIABLES
    part,
    zdZone, zdZoneCache, zdDisc, zdCache, zdQueue, zdPass, zdImport, zdBudget,
    rrZone, rrSet, rrNs, rrAnchor, rrShadow, rrCache, rrQueued, rrPass, rrEvent,
    rrBlind, rrMade, rrEdits, rrVerdicts,
    raStored, raRequest, raRacing, raDiff, raWrites,
    rcStore, rcRun, rcBudget,
    cwZone, cwCreate, cwHolder, cwClass, cwVerified, cwBackend, cwDelete,
    cwSet, cwLive, cwWait,
    fdObjs, fdUids, fdQueue, fdSync, fdResync, fdSettled, fdLog, fdHub,
    fdMirror, fdHeard, fdWatch, fdPresent, fdFailed, fdPruned, fdLoop,
    fdApply, fdCopies, fdPlace, fdServed, fdBudget,
    prUp, prHub, prZone, prUids, prQueue, prPass, prMirror, prStatus,
    prPlaced, prReports, prChanges

\* The projects are alike, so the one with the first zone may be p1.
ZonesStep == Next /\ (zone[p1].uid = 0 => zone'[p2] = zone[p2])

----------------------------------------------------------------------------
(* Discovery: two objects, or two lives of the zone, or faults. *)

Discovery == INSTANCE ZoneDiscovery WITH
    Order <- <<d1, d2>>, CliName <- d1, Apex <- "apex", Subdomains <- {"www"},
    Answers <- "apex" :> {[owner |-> "apex", type |-> "PTR"]}
            @@ "www" :> {[owner |-> "www", type |-> "CNAME"]},
    Typed <- {"A", "CNAME"}, MaxLives <- 2,
    Budgets <- {[zones |-> 1, discs |-> 2, edits |-> 0, faults |-> 0],
                [zones |-> 2, discs |-> 1, edits |-> 0, faults |-> 0],
                [zones |-> 1, discs |-> 1, edits |-> 1, faults |-> 1]}

Replica == INSTANCE RecordReplication WITH
    MaxEdits <- 3, MaxAnchors <- 3, MaxVerdicts <- 1

Admission == INSTANCE RecordAdmission WITH
    RecordSets <- {"s1", "s2"}, Labels <- {"@", "*"}, Values <- {"v"},
    RRTypes <- {"A", "CNAME", "ALIAS"}, MaxRecords <- 1, MaxWrites <- 3

\* The sets are alike, so the first write may be the first one's.  The lookups
\* of the last write answer.
AdmissionStep ==
    /\ Admission!AdmissionNext
    /\ raWrites = 0 => raRequest'["s2"] = raRequest["s2"]
    /\ raWrites = 2 /\ raWrites' = 3 =>
         \A s \in {"s1", "s2"} : raRequest'[s] = raRequest[s] \/ raRequest'[s].against # <<>>

Waits == INSTANCE CommandWaits WITH
    Creates <- {1, 2}, Spellings <- {"www", "www."},
    Reasons <- {"Conflict", "SomethingNew"}, MaxWrites <- 2, MaxReports <- 2

----------------------------------------------------------------------------
(* Two shells edit a zone of four types, from flags and from files. *)

TypeOrder == <<"A", "ALIAS", "CNAME", "NS">>

Flags(verb, type, owner, values) ==
    [verb |-> verb, type |-> type, owner |-> owner, values |-> values,
     ttlSet |-> FALSE, ttl |-> 0, force |-> FALSE, dry |-> FALSE,
     option |-> FALSE, file |-> <<>>]
File(verb, records, option) ==
    [Flags(verb, "A", "@", <<>>) EXCEPT !.file = records, !.option = option]

Entry(owner, value) ==
    [owner |-> owner, absolute |-> FALSE, value |-> value, ttl |-> 0]
Absolute(owner, value) == [Entry(owner, value) EXCEPT !.absolute = TRUE]
Line(type, owner, value) == [type |-> type, entry |-> Entry(owner, value)]

Mixed == <<Line("NS", "@", "v"), Line("A", "w", "v"), Line("CNAME", "w", "v")>>
ApexAlias == <<Line("CNAME", "@", "u"), Line("NS", "w", "u")>>
Broken == <<Line("A", "w", "x"), Line("NS", "w", "u")>>

CommandLines ==
    {Flags("create", "A", "w", <<"v">>),
     [Flags("create", "A", "w", <<"u">>) EXCEPT !.ttlSet = TRUE, !.ttl = 60],
     Flags("set", "CNAME", "w", <<"u">>),
     [Flags("set", "NS", "@", <<"u">>) EXCEPT !.force = TRUE],
     Flags("delete", "A", "w", <<>>),
     File("apply", Mixed, FALSE), File("apply", Mixed, TRUE),
     [File("apply", Mixed, TRUE) EXCEPT !.dry = TRUE],
     File("import", ApexAlias, FALSE), File("import", Broken, TRUE)}

Nothing == [t \in {"A", "ALIAS", "CNAME", "NS"} |->
              [s \in 1..2 |-> [there |-> FALSE, machine |-> FALSE, recs |-> <<>>]]]
Something ==
    [Nothing EXCEPT
       !["A"][2] = [there |-> TRUE, machine |-> FALSE,
                    recs |-> <<Entry("w", "v"), Absolute("@", "v")>>],
       !["NS"][2] = [there |-> TRUE, machine |-> FALSE,
                     recs |-> <<Absolute("@", "v"), Entry("w", "v")>>]]

Commands == INSTANCE RecordCommands WITH
    Commands <- {1, 2}, TypeOrder <- TypeOrder, Owners <- {"@", "w"},
    Values <- {"u", "v", "x"}, Malformed <- {"x"}, TTLs <- {0, 60},
    DefaultTTL <- 300, Inputs <- CommandLines,
    ForeignEntries <- {Entry("w", "u"), Absolute("w", "v")},
    Delegation <- Entry("@", "v"), Starts <- {Nothing, Something},
    Conventional <- 2, MaxRuns <- 2, MaxWrites <- 1, MaxEntries <- 2

\* The second shell takes a few of them.
CommandsStep ==
    /\ Commands!CommandsNext
    /\ rcRun[2].at = "idle" /\ rcRun'[2].at # "idle" =>
          rcRun'[2].in \in {Flags("create", "A", "w", <<"v">>), File("apply", Mixed, TRUE)}

----------------------------------------------------------------------------
(* The input feed.  Publish: the writer's races, before a peer listens.     *)
(* Apply: the peer's, with a writer that finishes what it begins.  Foreign: *)
(* another origin takes a name.  Lost: the region loses its access.         *)

Feed == INSTANCE InputFeed WITH
    Keys <- {"k1", "k2"}, MaxUid <- 2, MaxGen <- 2, MaxFaults <- 1,
    MaxForeign <- 1, MaxLosses <- 1

writerVars == <<fdObjs, fdUids, fdQueue, fdSync, fdResync, fdSettled>>
WriterBusy ==
    \/ fdQueue # {} \/ fdResync.at # "idle"
    \/ \E c \in DOMAIN fdSync : fdSync[c] # Feed!NoCall
WriterRuns == writerVars' # writerVars
OneKey == fdObjs'["k2"] = Feed!Gone
NoForeign == fdBudget'.foreign = 1
NoLoss == fdBudget'.losses = 1
NoFault == fdBudget'.faults = 1
OneLife == fdUids' <= 1 /\ \A k \in {"k1", "k2"} : fdObjs'[k].gen < 2
WriterFirst == WriterBusy => WriterRuns /\ fdObjs' = fdObjs

FeedStep ==
    /\ Feed!FeedNext
    /\ CASE part = "publish" ->
              /\ OneKey /\ NoForeign /\ NoLoss
              /\ WriterRuns => fdMirror = 0 /\ ~fdWatch.on /\ fdPlace = "absent"
              /\ ~WriterRuns => ~WriterBusy /\ fdSettled /\ fdBudget' = fdBudget
              /\ fdWatch'.on => fdPlace = "served" /\ fdMirror = Len(fdLog)
              /\ Len(fdLog') <= 4
              /\ fdUids' = 2 => fdObjs'["k1"].gen < 2
         [] part = "apply" ->
              /\ OneKey /\ NoForeign /\ NoLoss /\ WriterFirst
              /\ fdUids' = 2 => fdObjs'["k1"].gen < 2 /\ NoFault
              /\ (fdResync' # fdResync /\ fdResync.at = "idle") => ~WriterBusy /\ ~fdSettled
              /\ (~fdSettled /\ ~WriterBusy) => fdResync' # fdResync
              /\ WriterRuns => fdBudget' = fdBudget
              /\ fdWatch'.on => fdPlace # "absent"
         [] part = "foreign" ->
              /\ OneLife /\ NoFault /\ WriterFirst
              /\ fdResync' = fdResync
              /\ fdWatch'.on => fdPlace = "served"
              /\ Cardinality({i \in DOMAIN fdLog' : fdLog'[i].obj # Feed!Gone}) <= 2
         [] part = "lost" -> OneKey /\ NoForeign /\ OneLife /\ NoFault /\ WriterFirst

(* The replicator to the hub and the mirrors back. *)
Copies == INSTANCE PrivateReplication WITH
    Members <- {"m1", "m2"}, RegionOf <- "m1" :> "east" @@ "m2" :> "west",
    MaxUid <- 2, MaxGen <- 2, MaxChanges <- 3

----------------------------------------------------------------------------

NoDiscovery == /\ zdZone = 0 /\ zdZoneCache = 0 /\ zdDisc = 0 /\ zdCache = 0
               /\ zdQueue = 0 /\ zdPass = 0 /\ zdImport = 0 /\ zdBudget = 0
NoReplica == /\ rrZone = 0 /\ rrSet = 0 /\ rrNs = 0 /\ rrAnchor = 0
             /\ rrShadow = 0 /\ rrCache = 0 /\ rrQueued = 0 /\ rrPass = 0
             /\ rrEvent = 0 /\ rrBlind = 0 /\ rrMade = 0 /\ rrEdits = 0
             /\ rrVerdicts = 0
NoAdmission == /\ raStored = 0 /\ raRequest = 0 /\ raRacing = 0 /\ raDiff = 0
               /\ raWrites = 0
NoCommands == rcStore = 0 /\ rcRun = 0 /\ rcBudget = 0
NoWaits == /\ cwZone = 0 /\ cwCreate = 0 /\ cwHolder = 0 /\ cwClass = 0
           /\ cwVerified = 0 /\ cwBackend = 0 /\ cwDelete = 0 /\ cwSet = 0
           /\ cwLive = 0 /\ cwWait = 0
NoFeed == /\ fdObjs = 0 /\ fdUids = 0 /\ fdQueue = 0 /\ fdSync = 0
          /\ fdResync = 0 /\ fdSettled = 0 /\ fdLog = 0 /\ fdHub = 0
          /\ fdMirror = 0 /\ fdHeard = 0 /\ fdWatch = 0 /\ fdPresent = 0
          /\ fdFailed = 0 /\ fdPruned = 0 /\ fdLoop = 0 /\ fdApply = 0
          /\ fdCopies = 0 /\ fdPlace = 0 /\ fdServed = 0 /\ fdBudget = 0
NoCopies == /\ prUp = 0 /\ prHub = 0 /\ prZone = 0 /\ prUids = 0
            /\ prQueue = 0 /\ prPass = 0 /\ prMirror = 0 /\ prStatus = 0
            /\ prPlaced = 0 /\ prReports = 0 /\ prChanges = 0

zdVars == <<zdZone, zdZoneCache, zdDisc, zdCache, zdQueue, zdPass, zdImport, zdBudget>>
rrVars == <<rrZone, rrSet, rrNs, rrAnchor, rrShadow, rrCache, rrQueued, rrPass, rrEvent,
            rrBlind, rrMade, rrEdits, rrVerdicts>>
raVars == <<raStored, raRequest, raRacing, raDiff, raWrites>>
rcVars == <<rcStore, rcRun, rcBudget>>
cwVars == <<cwZone, cwCreate, cwHolder, cwClass, cwVerified, cwBackend, cwDelete,
            cwSet, cwLive, cwWait>>

fdVars == <<fdObjs, fdUids, fdQueue, fdSync, fdResync, fdSettled, fdLog,
            fdHub, fdMirror, fdHeard, fdWatch, fdPresent, fdFailed, fdPruned,
            fdLoop, fdApply, fdCopies, fdPlace, fdServed, fdBudget>>
prVars == <<prUp, prHub, prZone, prUids, prQueue, prPass, prMirror, prStatus,
            prPlaced, prReports, prChanges>>

FeedParts == {"publish", "apply", "foreign", "lost"}

MCInit ==
    /\ part \in Parts
    /\ Init
    /\ part # "zones" => queue = {} /\ class
    /\ zone[p2].state = "absent"
    /\ IF part = "discovery" THEN Discovery!DiscoveryInit ELSE NoDiscovery
    /\ IF part = "replica" THEN Replica!ReplicaInit ELSE NoReplica
    /\ IF part = "admission" THEN Admission!AdmissionInit ELSE NoAdmission
    /\ IF part = "commands" THEN Commands!CommandsInit ELSE NoCommands
    /\ IF part \in {"create", "wait"} THEN Waits!WaitsInit ELSE NoWaits
    /\ IF part \in FeedParts THEN Feed!FeedInit ELSE NoFeed
    /\ IF part = "copies" THEN Copies!ReplicationInit ELSE NoCopies

MCNext ==
    /\ \/ part = "zones" /\ ZonesStep
       \/ part = "discovery" /\ Discovery!DiscoveryNext
       \/ part = "replica" /\ Replica!ReplicaNext
       \/ part = "admission" /\ AdmissionStep
       \/ part = "commands" /\ CommandsStep
       \/ part = "create" /\ Waits!ZoneNext
       \/ part = "wait" /\ Waits!RecordNext
       \/ part \in FeedParts /\ FeedStep
       \/ part = "copies" /\ Copies!ReplicationNext
    /\ UNCHANGED part
    /\ IF part = "zones" THEN TRUE ELSE UNCHANGED zrVars
    /\ IF part = "discovery" THEN TRUE ELSE UNCHANGED zdVars
    /\ IF part = "replica" THEN TRUE ELSE UNCHANGED rrVars
    /\ IF part = "admission" THEN TRUE ELSE UNCHANGED raVars
    /\ IF part = "commands" THEN TRUE ELSE UNCHANGED rcVars
    /\ IF part \in {"create", "wait"} THEN TRUE ELSE UNCHANGED cwVars
    /\ IF part \in FeedParts THEN TRUE ELSE UNCHANGED fdVars
    /\ IF part = "copies" THEN TRUE ELSE UNCHANGED prVars

mcVars == <<part, zrVars, zdVars, rrVars, raVars, rcVars, cwVars, fdVars, prVars>>

MCSpec == MCInit /\ [][MCNext]_mcVars

----------------------------------------------------------------------------
(* What is checked of each component. *)

\* No discovery waits for an event that never comes
\* (DNSZoneDiscoveryReconciler.Reconcile, enqueueDiscoveriesForZone).
QuietIsDiscovered == part = "discovery" => Discovery!QuietIsDiscovered

\* Once a record set is gone a live shadow has no anchor left, unless the cache
\* missed the anchor as well (handleDeletion, DeleteAnchorForObject).
ReleasedShadowIsCollected == part = "replica" => Replica!ReleasedShadowIsCollected

\* Two stored record sets contend for an owner name only when one was admitted
\* without being compared with the other as stored (the record set validator).
ContentionNeedsARace == part = "admission" => Admission!ContentionNeedsARace

\* No command removes or changes a record it does not name, whatever is written
\* between its read and its write (applyEdit, plan.resolve, bulkWriteSet).
UnnamedSurvives == [][part = "commands" => Commands!UnnamedSurvives]_mcVars

\* A wait concludes that a record is programmed only when every spelling of its
\* name is (recordStatus, statusSeverity, waitForProgrammed).
LiveMeansEverySpelling == [][part = "wait" => Waits!LiveMeansEverySpelling]_mcVars

\* At rest the peer's copies are the writing region's objects, whatever was
\* missed (Resync, Sync, the applier's replay and prune).
MissedEventsHeal == part \in FeedParts => Feed!MissedEventsHeal

\* A copy never goes back to an earlier generation (olderEntry).
CopyAdvances == [][(part \in FeedParts) => Feed!CopyAdvances]_mcVars

\* An object that has left its origin has no copy on the other side, at whatever
\* step a pass fails (Replicator.Reconcile, ObjectMirror.Reconcile).
ReleasedIsWithdrawn == part = "copies" => Copies!ReleasedIsWithdrawn
=============================================================================
