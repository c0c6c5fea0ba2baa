----------------------------- MODULE InputFeed -----------------------------
(***************************************************************************)
(* The input feed: how the registrations and contributions one region      *)
(* writes itself reach another region (internal/internaldns/feed).         *)
(*                                                                         *)
(* The writing region's publisher keeps one key per object in the region's *)
(* bucket and a copy of the object in the hub.  Two callers run            *)
(* Publisher.Sync side by side: the controller, for each changed object,   *)
(* and Resync, every minute, for all of them.  The peer's broker mirrors   *)
(* the bucket, and the peer's applier, one goroutine, watches the mirror   *)
(* and keeps the local copies.                                             *)
(*                                                                         *)
(* An object is its origin UID and its generation, <<0, 0>> standing for   *)
(* an object that is absent, being deleted or no longer of the region's    *)
(* origin: the publisher treats the three alike.  The bucket is the log of *)
(* its writes, one entry per key kept (History 1), and a mirror, and the   *)
(* watch on it, are positions in that log.                                 *)
(***************************************************************************)
EXTENDS Naturals, FiniteSets, SequencesExt

CONSTANTS
    Keys,       \* the names of objects of the writing region, in one namespace
    MaxUid,     \* bound: objects ever created
    MaxGen,     \* bound: generations of one object
    MaxFaults,  \* bound: failed calls and restarts
    MaxForeign, \* bound: objects another origin puts in the peer or the hub
    MaxLosses   \* bound: times the region loses its access to the project

VARIABLES
    fdObjs,     \* the writing region's objects
    fdUids,     \* UIDs given out
    fdQueue,    \* keys queued for the controller
    fdSync,     \* the Sync call of each caller
    fdResync,   \* the round of Resync
    fdSettled,  \* no change or late write since the last whole round
    fdLog,      \* the bucket's writes
    fdHub,      \* the hub's objects of these names
    fdMirror,   \* the mirror's position
    fdHeard,    \* the source's position as the mirror's broker last heard it
    fdWatch,    \* the applier's watch: position at its start, and cursor
    fdPresent,  \* present: keys the watch has shown to exist
    fdFailed,   \* failed: keys to apply again
    fdPruned,   \* pruned
    fdLoop,     \* where the applier's loop is
    fdApply,    \* the Apply call under way
    fdCopies,   \* the peer's objects of these names
    fdPlace,    \* the peer's namespace: absent, without access, or served
    fdServed,   \* servedProjects: the cached answer and whether it is current
    fdBudget    \* what is left of the bounds

writerVars == <<fdObjs, fdUids, fdQueue, fdSync, fdResync, fdSettled>>
brokerVars == <<fdLog, fdMirror, fdHeard>>
loopVars == <<fdWatch, fdPresent, fdFailed, fdPruned, fdLoop, fdApply>>
peerVars == <<fdCopies, fdPlace, fdServed>>
fdVars == <<writerVars, brokerVars, loopVars, peerVars, fdHub, fdBudget>>

Gone == [uid |-> 0, gen |-> 0]
Object == [uid : 0..MaxUid, gen : 0..MaxGen]
Callers == {"controller", "resync"}
Absent == [origin |-> "none", obj |-> Gone]
NoCall == [key |-> "none", obj |-> Gone]
NoApply == [key |-> "none", value |-> Gone, local |-> Absent, stage |-> "none"]
NoRound == [at |-> "idle", todo |-> {}, present |-> {}]
Off == [on |-> FALSE, start |-> 0, cursor |-> 0]

FeedTypeOK ==
    /\ fdObjs \in [Keys -> Object]
    /\ fdQueue \subseteq Keys
    /\ fdSync \in [Callers -> [key : Keys \cup {"none"}, obj : Object]]
    /\ fdLog \in Seq([key : Keys, obj : Object])
    /\ fdMirror \in 0..Len(fdLog)
    /\ fdPresent \subseteq Keys
    /\ fdFailed \subseteq Keys
    /\ fdCopies \in [Keys -> [origin : {"none", "region", "other"}, obj : Object]]
    /\ fdHub \in [Keys -> [origin : {"none", "region", "other"}, obj : Object]]
    /\ fdPlace \in {"absent", "unserved", "served"}

FeedInit ==
    /\ fdObjs = [k \in Keys |-> Gone]
    /\ fdUids = 0
    /\ fdQueue = {}
    /\ fdSync = [c \in Callers |-> NoCall]
    /\ fdResync = NoRound
    /\ fdSettled = TRUE
    /\ fdLog = <<>>
    /\ fdHub = [k \in Keys |-> Absent]
    /\ fdMirror = 0
    /\ fdHeard = [known |-> FALSE, at |-> 0]
    /\ fdWatch = Off
    /\ fdPresent = {}
    /\ fdFailed = {}
    /\ fdPruned = FALSE
    /\ fdLoop = [at |-> "select", todo |-> {}]
    /\ fdApply = NoApply
    /\ fdCopies = [k \in Keys |-> Absent]
    /\ fdPlace = "absent"
    /\ fdServed = [read |-> FALSE, value |-> FALSE]
    /\ fdBudget = [faults |-> MaxFaults, foreign |-> MaxForeign, losses |-> MaxLosses]

Spend(what) ==
    /\ fdBudget[what] > 0
    /\ fdBudget' = [fdBudget EXCEPT ![what] = @ - 1]

(* The region's users, and the controller's watch on them.                 *)

Write(k, obj) ==
    /\ fdObjs' = [fdObjs EXCEPT ![k] = obj]
    /\ fdQueue' = fdQueue \cup {k}
    /\ fdSettled' = FALSE
    /\ UNCHANGED <<fdSync, fdResync, brokerVars, loopVars, peerVars, fdHub>>

CreateObject(k) ==
    /\ fdObjs[k] = Gone
    /\ fdUids < MaxUid
    /\ fdUids' = fdUids + 1
    /\ Write(k, [uid |-> fdUids + 1, gen |-> 1])
    /\ UNCHANGED fdBudget

(* An object made from another's manifest keeps its origin UID annotation. *)
CopyObject(k, other) ==
    /\ fdObjs[k] = Gone
    /\ fdObjs[other] # Gone
    /\ Spend("foreign")
    /\ Write(k, [uid |-> fdObjs[other].uid, gen |-> 1])
    /\ UNCHANGED fdUids

EditObject(k) ==
    /\ fdObjs[k] # Gone
    /\ fdObjs[k].gen < MaxGen
    /\ Write(k, [fdObjs[k] EXCEPT !.gen = @ + 1])
    /\ UNCHANGED <<fdUids, fdBudget>>

DeleteObject(k) ==
    /\ fdObjs[k] # Gone
    /\ Write(k, Gone)
    /\ UNCHANGED <<fdUids, fdBudget>>

(* An object another origin writes under the same name: the project's, in  *)
(* the hub, or a third region's or the peer's own, in the peer.            *)
ForeignCopy(k) ==
    /\ fdPlace # "absent"
    /\ fdCopies[k].origin # "region"
    /\ Spend("foreign")
    /\ fdCopies' = [fdCopies EXCEPT ![k] = [origin |-> "other", obj |-> Gone]]
    /\ UNCHANGED <<writerVars, brokerVars, loopVars, fdPlace, fdServed, fdHub>>

ForeignHub(k) ==
    /\ fdHub[k].origin # "region"
    /\ Spend("foreign")
    /\ fdHub' = [fdHub EXCEPT ![k] = [origin |-> "other", obj |-> Gone]]
    /\ UNCHANGED <<writerVars, brokerVars, loopVars, peerVars>>

(* The bucket.  HeldAt is the value of a key after the first n writes.     *)

HeldAt(k, n) ==
    LET writes == {i \in 1..n : fdLog[i].key = k}
    IN  IF writes = {} THEN Gone
        ELSE fdLog[CHOOSE i \in writes : \A j \in writes : j <= i].obj

Held(k) == HeldAt(k, Len(fdLog))

(* A later write of the same key has removed write i, of the first n.      *)
Superseded(i, n) == \E j \in (i + 1)..n : fdLog[j].key = fdLog[i].key

(* put and remove read the key and write with its revision: a write in     *)
(* between fails the call, which is a failed Sync (its caller tries again). *)
put(k, obj) ==
    fdLog' = IF Held(k) = obj THEN fdLog ELSE Append(fdLog, [key |-> k, obj |-> obj])

remove(k) ==
    fdLog' = IF Held(k) = Gone THEN fdLog ELSE Append(fdLog, [key |-> k, obj |-> Gone])

copyToHub(k, obj) == [fdHub EXCEPT ![k] = [origin |-> "region", obj |-> obj]]

HubRefuses(k) == fdHub[k].origin = "other"

withdrawFromHub(k) == IF HubRefuses(k) THEN fdHub ELSE [fdHub EXCEPT ![k] = Absent]

(* Publisher.Sync: read the object, then write the bucket and the hub, each *)
(* whatever happens to the other.                                          *)

SyncRead(caller, k) ==
    /\ fdSync[caller] = NoCall
    /\ fdSync' = [fdSync EXCEPT ![caller] = [key |-> k, obj |-> fdObjs[k]]]
    /\ UNCHANGED <<fdObjs, fdUids, fdSettled, brokerVars, loopVars, peerVars, fdHub, fdBudget>>

ControllerSync(k) ==
    /\ k \in fdQueue
    /\ fdQueue' = fdQueue \ {k}
    /\ SyncRead("controller", k)
    /\ UNCHANGED fdResync

(* Both writes of a Sync, of which the ones in "done" get through.         *)
SyncWrites(k, obj, done) ==
    /\ IF "bucket" \in done
         THEN IF obj = Gone THEN remove(k) ELSE put(k, obj)
         ELSE fdLog' = fdLog
    /\ fdHub' = IF "hub" \notin done THEN fdHub
                ELSE IF obj = Gone THEN withdrawFromHub(k)
                ELSE copyToHub(k, obj)

Unrefused(k, obj, done) == ~ (obj # Gone /\ "hub" \in done /\ HubRefuses(k))

SyncEnds(caller, done) ==
    LET call == fdSync[caller]
        failed == done # {"bucket", "hub"}
    IN  /\ call # NoCall
        /\ Unrefused(call.key, call.obj, done)
        /\ IF failed /\ ~ HubRefuses(call.key) THEN Spend("faults") ELSE UNCHANGED fdBudget
        /\ SyncWrites(call.key, call.obj, done)
        /\ fdSync' = [fdSync EXCEPT ![caller] = NoCall]
        /\ fdQueue' = IF failed /\ caller = "controller" THEN fdQueue \cup {call.key} ELSE fdQueue
        /\ fdSettled' = (fdSettled /\ IF caller = "resync" THEN ~ failed ELSE fdLog' = fdLog)
        /\ UNCHANGED <<fdObjs, fdUids, fdResync, fdMirror, fdHeard, loopVars, peerVars>>

(* Resync: Sync of every object listed, then of every key the bucket holds *)
(* beside them.  A Sync that fails does not end the round.                 *)

ResyncList ==
    /\ fdResync.at = "idle"
    /\ LET listed == {k \in Keys : fdObjs[k] # Gone}
       IN  fdResync' = [at |-> "listed", todo |-> listed, present |-> listed]
    /\ fdSettled' = TRUE
    /\ UNCHANGED <<fdObjs, fdUids, fdQueue, fdSync, brokerVars, loopVars, peerVars, fdHub, fdBudget>>

(* snapshot: the keys the bucket holds, read by a watch of its own.        *)
snapshot == {k \in Keys : Held(k) # Gone}

SweepNothing(present) == {}

Sweep(present) == snapshot \ present

ResyncSnapshot ==
    /\ fdResync.at = "listed"
    /\ fdResync.todo = {}
    /\ fdSync["resync"] = NoCall
    /\ fdResync' = [fdResync EXCEPT !.at = "swept", !.todo = Sweep(fdResync.present)]
    /\ UNCHANGED <<fdObjs, fdUids, fdQueue, fdSync, fdSettled, brokerVars, loopVars, peerVars, fdHub, fdBudget>>

ResyncSync(k) ==
    /\ k \in fdResync.todo
    /\ fdResync' = [fdResync EXCEPT !.todo = @ \ {k}]
    /\ SyncRead("resync", k)
    /\ UNCHANGED fdQueue

ResyncEnd ==
    /\ fdResync.at = "swept"
    /\ fdResync.todo = {}
    /\ fdSync["resync"] = NoCall
    /\ fdResync' = NoRound
    /\ UNCHANGED <<fdObjs, fdUids, fdQueue, fdSync, fdSettled, brokerVars, loopVars, peerVars, fdHub, fdBudget>>

(* startPublisher and runFeed: a new process lists the objects there are;  *)
(* the deletions it missed are left to Resync.                             *)
PublisherRestart ==
    /\ Spend("faults")
    /\ fdQueue' = {k \in Keys : fdObjs[k] # Gone}
    /\ fdSync' = [c \in Callers |-> NoCall]
    /\ fdResync' = NoRound
    /\ fdSettled' = FALSE
    /\ UNCHANGED <<fdObjs, fdUids, brokerVars, loopVars, peerVars, fdHub>>

(* The peer's broker.  It copies the next write the source still keeps.    *)

MirrorNext ==
    /\ \E m \in (fdMirror + 1)..Len(fdLog) :
          /\ \A i \in (fdMirror + 1)..(m - 1) : Superseded(i, Len(fdLog))
          /\ fdMirror' = m
    /\ fdHeard' = [known |-> TRUE, at |-> Len(fdLog)]
    /\ UNCHANGED <<writerVars, fdLog, loopVars, peerVars, fdHub, fdBudget>>

MirrorHears ==
    /\ fdHeard # [known |-> TRUE, at |-> Len(fdLog)]
    /\ fdHeard' = [known |-> TRUE, at |-> Len(fdLog)]
    /\ UNCHANGED <<writerVars, fdLog, fdMirror, loopVars, peerVars, fdHub, fdBudget>>

(* MirrorKeyValueBucket creates the mirror again after it was lost; the    *)
(* watch on the old one has ended.                                         *)
MirrorLost ==
    /\ fdMirror > 0
    /\ ~ fdWatch.on
    /\ Spend("faults")
    /\ fdMirror' = 0
    /\ fdHeard' = [known |-> FALSE, at |-> 0]
    /\ UNCHANGED <<writerVars, fdLog, loopVars, peerVars, fdHub>>

(* MirrorCaughtUp: no lag behind what the broker last heard of the source. *)
MirrorCaughtUp == fdHeard = [known |-> TRUE, at |-> fdMirror]

(* The peer's namespace and the access bindings in it, placed by the hub.  *)

Placed ==
    /\ fdPlace # "served"
    /\ fdPlace' = IF fdPlace = "absent" THEN "unserved" ELSE "served"
    /\ UNCHANGED <<writerVars, brokerVars, loopVars, fdCopies, fdServed, fdHub, fdBudget>>

AccessLost ==
    /\ fdPlace = "served"
    /\ Spend("losses")
    /\ fdPlace' = "unserved"
    /\ UNCHANGED <<writerVars, brokerVars, loopVars, fdCopies, fdServed, fdHub>>

(* servedProjects answers from its cache for an interval.  The answers it  *)
(* may give, each with the cache it leaves.                                *)
servedProjects ==
    {[read |-> TRUE, value |-> fdPlace = "served"]} \cup (IF fdServed.read THEN {fdServed} ELSE {})

Expire ==
    /\ fdServed.read
    /\ fdServed.value # (fdPlace = "served")
    /\ fdServed' = [fdServed EXCEPT !.read = FALSE]
    /\ UNCHANGED <<writerVars, brokerVars, loopVars, fdCopies, fdPlace, fdHub, fdBudget>>

(* Applier.Run.                                                            *)

AtSelect == fdWatch.on /\ fdLoop.at = "select" /\ fdApply = NoApply

WatchStart ==
    /\ ~ fdWatch.on
    /\ fdWatch' = [on |-> TRUE, start |-> fdMirror, cursor |-> 0]
    /\ UNCHANGED <<writerVars, brokerVars, peerVars, fdPresent, fdFailed, fdPruned, fdLoop, fdApply, fdHub, fdBudget>>

(* The watch ends, or the process does, at any point of the loop.          *)
WatchEnd ==
    /\ fdWatch.on
    /\ Spend("faults")
    /\ fdWatch' = Off
    /\ fdPresent' = {}
    /\ fdFailed' = {}
    /\ fdPruned' = FALSE
    /\ fdLoop' = [at |-> "select", todo |-> {}]
    /\ fdApply' = NoApply
    /\ UNCHANGED <<writerVars, brokerVars, peerVars, fdHub>>

(* The replay of what the mirror held when the watch started is over.      *)
Synced ==
    /\ fdWatch.on
    /\ \A i \in (fdWatch.cursor + 1)..fdWatch.start : Superseded(i, fdMirror)

BeginApply(k, value) == fdApply' = [key |-> k, value |-> value, local |-> Absent, stage |-> "get"]

(* The next event of the watch: the next write the mirror still keeps.     *)
TakeEvent ==
    /\ AtSelect
    /\ \E m \in (fdWatch.cursor + 1)..fdMirror :
          /\ \A i \in (fdWatch.cursor + 1)..(m - 1) : Superseded(i, fdMirror)
          /\ fdWatch' = [fdWatch EXCEPT !.cursor = m]
          /\ fdPresent' = IF fdLog[m].obj = Gone THEN fdPresent \ {fdLog[m].key}
                          ELSE fdPresent \cup {fdLog[m].key}
          /\ BeginApply(fdLog[m].key, fdLog[m].obj)
    /\ UNCHANGED <<writerVars, brokerVars, peerVars, fdFailed, fdPruned, fdLoop, fdHub, fdBudget>>

Tick ==
    /\ AtSelect
    /\ fdLoop' = [at |-> "retry", todo |-> fdFailed]
    /\ UNCHANGED <<writerVars, brokerVars, peerVars, fdWatch, fdPresent, fdFailed, fdPruned, fdApply, fdHub, fdBudget>>

RetryKey(k) ==
    /\ fdLoop.at = "retry"
    /\ fdApply = NoApply
    /\ k \in fdLoop.todo
    /\ fdLoop' = [fdLoop EXCEPT !.todo = @ \ {k}]
    /\ BeginApply(k, HeldAt(k, fdMirror))
    /\ UNCHANGED <<writerVars, brokerVars, peerVars, fdWatch, fdPresent, fdFailed, fdPruned, fdHub, fdBudget>>

(* Once, after the replay and when the mirror has caught up, prune.        *)
CheckPrune ==
    /\ fdLoop = [at |-> "retry", todo |-> {}]
    /\ fdApply = NoApply
    /\ \/ /\ Synced /\ ~ fdPruned /\ MirrorCaughtUp
          /\ fdLoop' = [at |-> "prune", todo |-> {}]
       \/ /\ fdPruned
          /\ fdLoop' = [at |-> "withdraw", todo |-> {}]
       \/ /\ ~ fdPruned /\ ~ (Synced /\ MirrorCaughtUp)
          /\ fdLoop' = [at |-> "select", todo |-> {}]
    /\ UNCHANGED <<writerVars, brokerVars, peerVars, fdWatch, fdPresent, fdFailed, fdPruned, fdApply, fdHub, fdBudget>>

Drop(keys) ==
    fdCopies' = [k \in Keys |-> IF k \in keys /\ fdCopies[k].origin = "region" THEN Absent ELSE fdCopies[k]]

(* prune removes the region's copies whose key the watch has not shown.    *)
Prune ==
    /\ fdLoop.at = "prune"
    /\ Drop(Keys \ fdPresent)
    /\ fdPruned' = TRUE
    /\ fdLoop' = [at |-> "withdraw", todo |-> {}]
    /\ UNCHANGED <<writerVars, brokerVars, fdPlace, fdServed, fdWatch, fdPresent, fdFailed, fdApply, fdHub, fdBudget>>

(* withdrawUnserved removes the region's copies of a project it has no     *)
(* access to.                                                              *)
WithdrawUnserved ==
    /\ fdLoop.at = "withdraw"
    /\ \E answer \in servedProjects :
          /\ fdServed' = answer
          /\ IF answer.value \/ fdPlace = "absent" THEN UNCHANGED fdCopies ELSE Drop(Keys)
    /\ fdLoop' = [at |-> "select", todo |-> {}]
    /\ UNCHANGED <<writerVars, brokerVars, fdPlace, fdWatch, fdPresent, fdFailed, fdPruned, fdApply, fdHub, fdBudget>>

(* Applier.Apply, and what Run makes of its outcome: a refused key waits   *)
(* for its next write, a failed one for the ticker.                        *)

EndApply(outcome) ==
    /\ fdApply' = NoApply
    /\ fdFailed' = IF outcome = "failed" THEN fdFailed \cup {fdApply.key} ELSE fdFailed \ {fdApply.key}
    /\ UNCHANGED <<writerVars, brokerVars, fdPlace, fdWatch, fdPresent, fdPruned, fdLoop, fdHub>>

ApplyFails ==
    /\ fdApply # NoApply
    /\ Spend("faults")
    /\ EndApply("failed")
    /\ UNCHANGED <<fdCopies, fdServed>>

ApplyGet ==
    /\ fdApply.stage = "get"
    /\ LET local == fdCopies[fdApply.key]
       IN  IF local.origin = "other"
             THEN EndApply("refused")
             ELSE /\ fdApply' = [fdApply EXCEPT !.local = local,
                                    !.stage = IF fdApply.value = Gone THEN "delete" ELSE "check"]
                  /\ UNCHANGED <<writerVars, brokerVars, fdPlace, fdWatch, fdPresent, fdFailed, fdPruned, fdLoop, fdHub>>
    /\ UNCHANGED <<fdCopies, fdServed, fdBudget>>

(* The writer withdrew the key: the copy read above is deleted by name.    *)
ApplyDelete ==
    /\ fdApply.stage = "delete"
    /\ fdCopies' = IF fdApply.local = Absent THEN fdCopies ELSE [fdCopies EXCEPT ![fdApply.key] = Absent]
    /\ EndApply("done")
    /\ UNCHANGED <<fdServed, fdBudget>>

(* uniqueIdentity: another object of the namespace answers to this UID.    *)
Claimed(k, uid) == \E o \in Keys \ {k} : fdCopies[o].origin = "region" /\ fdCopies[o].obj.uid = uid

(* mapped: the namespace is there, for a project the region serves.        *)
mapped(answer) == fdPlace # "absent" /\ answer.value

(* The copy read is of an earlier object of that name.                     *)
Recreated(local, value) == local.origin = "region" /\ local.obj.uid # value.uid

OlderIsFine(local, value) == FALSE

(* The copy read is of a later generation than the entry.                  *)
OlderEntry(local, value) == local.origin = "region" /\ local.obj.gen > value.gen

(* What the checks of Apply come to, in their order.                       *)
Verdict(k, local, value, answer) ==
    IF ~ mapped(answer) THEN "failed"
    ELSE IF Claimed(k, value.uid) THEN "refused"
    ELSE IF Recreated(local, value) THEN "replace"
    ELSE IF OlderEntry(local, value) THEN "done"
    ELSE "write"

(* A recreated object's copy is deleted and the key fails, so that it is   *)
(* applied again with the new identity.                                    *)
ApplyCheck ==
    /\ fdApply.stage = "check"
    /\ \E answer \in (IF fdPlace = "absent" THEN {fdServed} ELSE servedProjects) :
          LET verdict == Verdict(fdApply.key, fdApply.local, fdApply.value, answer)
          IN  /\ fdServed' = answer
              /\ fdCopies' = IF verdict = "replace" THEN [fdCopies EXCEPT ![fdApply.key] = Absent] ELSE fdCopies
              /\ \/ /\ verdict # "write"
                    /\ EndApply(IF verdict = "replace" THEN "failed" ELSE verdict)
                 \/ /\ verdict = "write"
                    /\ fdApply' = [fdApply EXCEPT !.stage = "write"]
                    /\ UNCHANGED <<writerVars, brokerVars, fdPlace, fdWatch, fdPresent, fdFailed, fdPruned, fdLoop, fdHub>>
    /\ UNCHANGED fdBudget

(* CreateOrPatch reads the object again and writes whatever it finds.      *)
ApplyWrite ==
    /\ fdApply.stage = "write"
    /\ fdCopies' = [fdCopies EXCEPT ![fdApply.key] = [origin |-> "region", obj |-> fdApply.value]]
    /\ EndApply("done")
    /\ UNCHANGED <<fdServed, fdBudget>>

WriterNext ==
    \/ \E k \in Keys : CreateObject(k) \/ EditObject(k) \/ DeleteObject(k)
    \/ \E k, other \in Keys : CopyObject(k, other)
    \/ \E k \in Keys : ControllerSync(k) \/ ResyncSync(k)
    \/ \E c \in Callers, done \in SUBSET {"bucket", "hub"} : SyncEnds(c, done)
    \/ ResyncList \/ ResyncSnapshot \/ ResyncEnd
    \/ PublisherRestart

PeerNext ==
    \/ MirrorNext \/ MirrorHears \/ MirrorLost
    \/ Placed \/ AccessLost \/ Expire
    \/ WatchStart \/ WatchEnd
    \/ TakeEvent \/ Tick \/ CheckPrune \/ Prune \/ WithdrawUnserved
    \/ \E k \in Keys : RetryKey(k)
    \/ ApplyFails \/ ApplyGet \/ ApplyDelete \/ ApplyCheck \/ ApplyWrite

FeedNext ==
    \/ WriterNext
    \/ PeerNext
    \/ \E k \in Keys : ForeignCopy(k) \/ ForeignHub(k)

-----------------------------------------------------------------------------

(* Nothing is left to do: the publisher has seen every change and made a   *)
(* whole round after it, the mirror and the watch have reached its end and *)
(* no key waits to be applied again.                                       *)
Quiet ==
    /\ fdQueue = {}
    /\ fdSync = [c \in Callers |-> NoCall]
    /\ fdResync.at = "idle"
    /\ fdSettled
    /\ fdMirror = Len(fdLog)
    /\ AtSelect
    /\ fdWatch.cursor = Len(fdLog)
    /\ fdFailed = {}
    /\ fdPruned
    /\ fdPlace = "served"

(* A hub copy whose key never reached the bucket: Resync finds what is gone *)
(* by the bucket's keys alone, so nothing withdraws this one.              *)
HubLeftover(k) == IF fdObjs[k] = Gone THEN {fdHub[k].obj} ELSE {}

Converged == \A k \in Keys : fdCopies[k].obj = fdObjs[k] /\ fdHub[k].obj \in {fdObjs[k]} \cup HubLeftover(k)

(* Invariant: once nothing is left to do, the peer's copies are exactly    *)
(* the writing region's objects and the hub has each of them, whatever was *)
(* missed while the publisher, the mirror or the applier was down          *)
(* (feed.go:10-12), as long as no other origin took a name and the region  *)
(* kept its access.                                                        *)
MissedEventsHeal ==
    Quiet /\ fdBudget.foreign = MaxForeign /\ fdBudget.losses = MaxLosses => Converged


(* Action property: a copy never goes back to an earlier generation of the *)
(* same object, though the two callers of Sync may put an older entry over *)
(* a newer one (apply.go:184-188).                                         *)
CopyAdvances ==
    \A k \in Keys : fdCopies[k].obj.uid = fdCopies'[k].obj.uid => fdCopies[k].obj.gen <= fdCopies'[k].obj.gen
=============================================================================
