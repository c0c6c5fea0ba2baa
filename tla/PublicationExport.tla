-------------------------- MODULE PublicationExport --------------------------
(***************************************************************************)
(* How a committed publication leaves the control plane for one region and *)
(* shard (internaldns/platform/outbox.go, internaldns/transport/           *)
(* jetstream.go, internaldns/serving/bootstrap.go).                        *)
(*                                                                         *)
(* The control plane stages a manifest with one outbox record per chunk    *)
(* and one for the manifest itself, and commits it (PublicationLog).  The  *)
(* outbox loop publishes the records of the committed manifest to the      *)
(* stream and puts them in the bootstrap store, where a member that starts *)
(* reads them.  The loop runs in the process that leads the region; at a   *)
(* change of leader two of them can overlap, so it is modelled as a set of *)
(* exporters.  A KV compare-and-swap loop is one step: only the swap that  *)
(* succeeds has an effect.                                                 *)
(*                                                                         *)
(* Left out: serving snapshots, which the planner writes; the payload      *)
(* hashes and envelope checks (lines 73-102 of outbox.go), which hold for  *)
(* the records the reconciler writes; Attempts and LastError.              *)
(***************************************************************************)
EXTENDS PublicationLog, FiniteSets

CONSTANTS
    Exporters,     \* processes that run the region's outbox loop
    Readers,       \* members that load the bootstrap store
    ChunkCount,    \* chunks of a content in this region; 0 is a tombstone
    MaxEpoch,      \* bounds: writer epochs, revisions of an epoch,
    MaxRevision,   \* manifests staged,
    MaxManifests,
    MaxFailures    \* failed calls and lost passes

ASSUME ExportAssumption ==
    /\ ChunkCount \in [Contents -> Nat]
    /\ MaxEpoch \in Nat /\ MaxRevision \in Nat
    /\ MaxManifests \in Nat /\ MaxFailures \in Nat

VARIABLES
    committed,  \* history: the manifests the commit pointer has named
    acked,      \* outbox records in state Acknowledged
    dropped,    \* outbox records in state Superseded; the others are Pending
    exported,   \* manifests with ExportedAt
    stream,     \* the events the broker holds
    head,       \* the manifest under the zone's bootstrap key, or NoFence
    stored,     \* the chunk keys of the bootstrap store
    before,     \* history: the head that the present one replaced
    pass,       \* what each exporter's Step is doing
    load,       \* what each reader's Load is doing
    failures    \* failures so far, for the bound

writerVars == <<epoch, manifests, active, committed>>
outboxVars == <<acked, dropped, exported>>
storeVars == <<head, stored, before>>
vars == <<writerVars, outboxVars, stream, storeVars, pass, load, failures>>

----------------------------------------------------------------------------
\* An event is one outbox record's envelope: part 0 is the manifest, parts
\* 1, 2, ... are its chunks.
Events == [manifest : Manifest, part : Nat]
Event(m, i) == [manifest |-> m, part |-> i]
ChunksOf(m) == {Event(m, i) : i \in 1 .. ChunkCount[m.content]}
RecordsOf(m) == {Event(m, 0)} \cup ChunksOf(m)
NoEvent == Event(NoFence, 0)

\* Step's field selector: neither Acknowledged nor Superseded.
PendingRecords == UNION {RecordsOf(m) : m \in manifests} \ (acked \cup dropped)

Idle == [at |-> "idle", list |-> {}, sent |-> {}, event |-> NoEvent,
         replaced |-> NoFence]
NoLoad == [at |-> "idle", keys |-> {}, want |-> {}, have |-> {},
           head |-> NoFence]

Init ==
    /\ LogInit
    /\ committed = {}
    /\ acked = {} /\ dropped = {} /\ exported = {}
    /\ stream = {} /\ head = NoFence /\ stored = {} /\ before = NoFence
    /\ pass = [x \in Exporters |-> Idle]
    /\ load = [r \in Readers |-> NoLoad]
    /\ failures = 0

----------------------------------------------------------------------------
(***************************************************************************)
(* The control plane, as far as PublicationLog describes it.               *)
(***************************************************************************)
Candidates == [epoch : 1 .. MaxEpoch, revision : 1 .. MaxRevision,
               previous : 0 .. MaxRevision, content : Contents]

TakeOver ==
    /\ epoch < MaxEpoch
    /\ epoch' = epoch + 1
    /\ NewEpoch
    /\ UNCHANGED <<committed, outboxVars, stream, storeVars, pass, load,
                   failures>>

StageManifest ==
    /\ Cardinality(manifests) < MaxManifests
    /\ \E m \in Candidates : m.previous < m.revision
                             /\ m.epoch <= epoch
                             /\ manifests' = manifests \cup {m}
    /\ Stage
    /\ UNCHANGED <<committed, outboxVars, stream, storeVars, pass, load,
                   failures>>

CommitManifest ==
    /\ \E m \in manifests : CommitTo(m) /\ committed' = committed \cup {m}
    /\ UNCHANGED <<outboxVars, stream, storeVars, pass, load, failures>>

----------------------------------------------------------------------------
(***************************************************************************)
(* The outbox loop.                                                        *)
(***************************************************************************)
At(x, where) == pass[x].at = where
Go(x, where) == pass' = [pass EXCEPT ![x].at = where]

\* The loop goes on to the next record of its list, or ends.
Continue(x, sent) ==
    LET rest == pass[x].list \ {pass[x].event} IN
    pass' = [pass EXCEPT ![x] =
        IF rest = {} THEN Idle
        ELSE [Idle EXCEPT !.at = "next", !.list = rest,
                          !.sent = pass[x].sent \cup sent]]

List(x) ==
    /\ At(x, "idle")
    /\ PendingRecords # {}
    /\ pass' = [pass EXCEPT ![x].at = "next", ![x].list = PendingRecords]
    /\ UNCHANGED <<writerVars, outboxVars, stream, storeVars, load, failures>>

\* committed: the ownership record names this manifest, in its own epoch.
Committed(m) == m.epoch = epoch /\ FenceOf(m) = active

\* Records that do not activate anything come first.
Take(x) ==
    /\ At(x, "next")
    /\ \E e \in pass[x].list :
         /\ e.part = 0 => \A d \in pass[x].list : d.part = 0
         /\ pass' = [pass EXCEPT ![x].event = e,
                ![x].at = IF Committed(e.manifest) THEN "ready" ELSE "older"]
    /\ UNCHANGED <<writerVars, outboxVars, stream, storeVars, load, failures>>

\* Fault: what is not committed yet is given up.
DropUncommitted(x) ==
    /\ At(x, "older")
    /\ dropped' = dropped \cup {pass[x].event}
    /\ Continue(x, {})
    /\ UNCHANGED <<writerVars, acked, exported, stream, storeVars, load,
                   failures>>

\* superseded, and the patch under the resource version that was listed.
Drop(x) ==
    /\ At(x, "older")
    /\ LET e == pass[x].event IN
       dropped' = IF Later(active, e.manifest) /\ e \notin acked
                  THEN dropped \cup {e} ELSE dropped
    /\ Continue(x, {})
    /\ UNCHANGED <<writerVars, acked, exported, stream, storeVars, load,
                   failures>>

\* dependencyReady: a manifest waits for all chunks of its own revision.
DependencyReady(x) ==
    LET e == pass[x].event IN
    e.part = 0 => ChunksOf(e.manifest) \subseteq acked \cup pass[x].sent

CheckReady(x) ==
    /\ At(x, "ready")
    /\ IF DependencyReady(x) THEN Go(x, "publish") ELSE Continue(x, {})
    /\ UNCHANGED <<writerVars, outboxVars, stream, storeVars, load, failures>>

Publish(x) ==
    /\ At(x, "publish")
    /\ stream' = stream \cup {pass[x].event}
    /\ Go(x, "put")
    /\ UNCHANGED <<writerVars, outboxVars, storeVars, load, failures>>

\* SnapshotStore.put: a chunk has a key of its own, the manifest key keeps
\* the latest fence.
PutChunk(e) ==
    /\ e.part # 0
    /\ stored' = stored \cup {e}
    /\ UNCHANGED <<head, before>>

MoveHead(e) ==
    /\ e.part = 0
    /\ Later(e.manifest, head)
    /\ head' = e.manifest
    /\ before' = head
    /\ UNCHANGED stored

KeepHead(e) ==
    /\ e.part = 0
    /\ ~ Later(e.manifest, head)
    /\ UNCHANGED storeVars

Put(x) ==
    /\ At(x, "put")
    /\ LET e == pass[x].event IN
       \/ PutChunk(e) /\ Go(x, "settle")
       \/ KeepHead(e) /\ Go(x, "mark")
       \/ /\ MoveHead(e)
          /\ pass' = [pass EXCEPT ![x].replaced = head,
                ![x].at = IF head = NoFence THEN "mark" ELSE "prune"]
    /\ UNCHANGED <<writerVars, outboxVars, stream, load, failures>>

\* Fault: everything older than the new head is pruned.
PrunableBelowHead(x) == {c \in stored : Later(head, c.manifest)}

\* pruneSupersededChunks of the store.  An error only stops the purge.
Prunable(x) == {c \in stored : Later(pass[x].replaced, c.manifest)}

Prune(x) ==
    /\ At(x, "prune")
    /\ \E purged \in SUBSET Prunable(x) : stored' = stored \ purged
    /\ Go(x, "mark")
    /\ UNCHANGED <<writerVars, outboxVars, stream, head, before, load,
                   failures>>

MarkExported(x) ==
    /\ At(x, "mark")
    /\ exported' = exported \cup {pass[x].event.manifest}
    /\ Go(x, "settle")
    /\ UNCHANGED <<writerVars, acked, dropped, stream, storeVars, load,
                   failures>>

Acknowledge(x) ==
    /\ At(x, "settle")
    /\ acked' = acked \cup {pass[x].event}
    /\ dropped' = dropped \ {pass[x].event}
    /\ Continue(x, {pass[x].event})
    /\ UNCHANGED <<writerVars, exported, stream, storeVars, load, failures>>

\* After an error the refetched record is patched to Pending, whatever
\* state another exporter has given it.
ReportError(x) ==
    /\ At(x, "report")
    /\ acked' = acked \ {pass[x].event}
    /\ dropped' = dropped \ {pass[x].event}
    /\ Continue(x, {})
    /\ UNCHANGED <<writerVars, exported, stream, storeVars, load, failures>>

----------------------------------------------------------------------------
(***************************************************************************)
(* Failures: a call that fails may still have had its effect; a failed     *)
(* status patch leaves the record for a later pass; a pass can end at any  *)
(* point, with its process or with its lease.                              *)
(***************************************************************************)
Failing == failures < MaxFailures /\ failures' = failures + 1

PublishFails(x) ==
    /\ Failing
    /\ At(x, "publish")
    /\ stream' \in {stream, stream \cup {pass[x].event}}
    /\ Go(x, "report")
    /\ UNCHANGED <<writerVars, outboxVars, storeVars, load>>

PutFails(x) ==
    /\ Failing
    /\ At(x, "put")
    /\ LET e == pass[x].event IN
       PutChunk(e) \/ MoveHead(e) \/ UNCHANGED storeVars
    /\ Go(x, "report")
    /\ UNCHANGED <<writerVars, outboxVars, stream, load>>

PatchFails(x) ==
    /\ Failing
    /\ pass[x].at \in {"settle", "report"}
    /\ Continue(x, IF At(x, "settle") THEN {pass[x].event} ELSE {})
    /\ UNCHANGED <<writerVars, outboxVars, stream, storeVars, load>>

PassEnds(x) ==
    /\ Failing
    /\ ~ At(x, "idle")
    /\ pass' = [pass EXCEPT ![x] = Idle]
    /\ UNCHANGED <<writerVars, outboxVars, stream, storeVars, load>>

----------------------------------------------------------------------------
(***************************************************************************)
(* SnapshotStore.List and SnapshotBootstrap.Load: the keys, then the head, *)
(* then the chunks of the head among the listed keys; a cut that is not    *)
(* complete is loaded again.                                               *)
(***************************************************************************)
ListKeys(r) ==
    /\ load[r].at \in {"idle", "loaded"}
    /\ head # NoFence
    /\ load' = [load EXCEPT ![r] = [NoLoad EXCEPT !.at = "head",
                                                  !.keys = stored]]
    /\ UNCHANGED <<writerVars, outboxVars, stream, storeVars, pass, failures>>

ReadHead(r) ==
    /\ load[r].at = "head"
    /\ load' = [load EXCEPT ![r].at = "chunks", ![r].head = head,
                ![r].want = {c \in load[r].keys : c.manifest = head}]
    /\ UNCHANGED <<writerVars, outboxVars, stream, storeVars, pass, failures>>

\* Fault: a chunk that is not there is waited for.
ReadChunkOrWait(r) ==
    /\ load[r].at = "chunks"
    /\ \E c \in load[r].want :
         /\ c \in stored
         /\ load' = [load EXCEPT ![r].want = @ \ {c}, ![r].have = @ \cup {c}]
    /\ UNCHANGED <<writerVars, outboxVars, stream, storeVars, pass, failures>>

ReadChunk(r) ==
    /\ load[r].at = "chunks"
    /\ \E c \in load[r].want :
         load' = [load EXCEPT ![r] =
             IF c \in stored
             THEN [load[r] EXCEPT !.want = load[r].want \ {c},
                                  !.have = load[r].have \cup {c}]
             ELSE NoLoad]
    /\ UNCHANGED <<writerVars, outboxVars, stream, storeVars, pass, failures>>

\* verifyBootstrap accepts a cut with every chunk its manifest refers to.
Verify(r) ==
    /\ load[r].at = "chunks"
    /\ load[r].want = {}
    /\ load' = [load EXCEPT ![r] =
           IF ChunksOf(load[r].head) \subseteq load[r].have
           THEN [@ EXCEPT !.at = "loaded"] ELSE NoLoad]
    /\ UNCHANGED <<writerVars, outboxVars, stream, storeVars, pass, failures>>

----------------------------------------------------------------------------
Writer == TakeOver \/ StageManifest \/ CommitManifest

Export(x) ==
    \/ List(x) \/ Take(x) \/ Drop(x) \/ CheckReady(x) \/ Publish(x) \/ Put(x)
    \/ Prune(x) \/ MarkExported(x) \/ Acknowledge(x) \/ ReportError(x)

ExportFails(x) ==
    PublishFails(x) \/ PutFails(x) \/ PatchFails(x) \/ PassEnds(x)

Read(r) == ListKeys(r) \/ ReadHead(r) \/ ReadChunk(r) \/ Verify(r)

Next ==
    \/ Writer
    \/ \E x \in Exporters : Export(x) \/ ExportFails(x)
    \/ \E r \in Readers : Read(r)

Spec == Init /\ [][Next]_vars

\* Some process leads the region and runs its outbox loop; a member that
\* starts loading goes on until it has a cut.
Fairness == /\ WF_vars(\E x \in Exporters : Export(x))
            /\ \A r \in Readers : WF_vars(Read(r))

FairSpec == Spec /\ Fairness

----------------------------------------------------------------------------
Parts == [at : {"idle", "next", "older", "ready", "publish", "put", "prune",
                "mark", "settle", "report"},
          list : SUBSET Events, sent : SUBSET Events,
          event : Events \cup {NoEvent}, replaced : Manifest \cup {NoFence}]
Loads == [at : {"idle", "head", "chunks", "loaded"}, keys : SUBSET Events,
          want : SUBSET Events, have : SUBSET Events,
          head : Manifest \cup {NoFence}]

\* Every variable has its type: the outbox, the stream and the store hold
\* events of manifests, a pass and a load are where the code can be.
TypeOK ==
    /\ epoch \in Nat /\ active \in Fence
    /\ manifests \subseteq Manifest /\ committed \subseteq Manifest
    /\ acked \subseteq Events /\ dropped \subseteq Events
    /\ exported \subseteq Manifest
    /\ stream \subseteq Events /\ stored \subseteq Events
    /\ head \in Manifest \cup {NoFence} /\ before \in Manifest \cup {NoFence}
    /\ pass \in [Exporters -> Parts]
    /\ load \in [Readers -> Loads]
    /\ failures \in Nat

\* Nothing that was only staged reaches a member: every event of the stream
\* and the head of the bootstrap store belong to a manifest that the commit
\* pointer has named, whatever moved between Outbox.committed and Publish.
OnlyCommitted ==
    /\ \A e \in stream : e.manifest \in committed
    /\ head # NoFence => head \in committed

\* A manifest is in the stream only after all chunks of its own revision
\* (Outbox.dependencyReady).
ChunksFirst ==
    \A e \in stream : e.part = 0 => ChunksOf(e.manifest) \subseteq stream

\* The head of the bootstrap store can always be loaded, and so can the head
\* that it replaced, for a member that read that one just before it moved
\* (the comment of SnapshotStore.pruneSupersededChunks).
HeadLoadable ==
    \A h \in {head, before} : h # NoFence => ChunksOf(h) \subseteq stored

\* A record in state Superseded is never needed again: the commit pointer is
\* past its manifest, and stays there (Outbox.superseded).
DroppedIsPassed == \A e \in dropped : Later(active, e.manifest)

\* An acknowledged manifest was published, is marked exported, and the head
\* of the bootstrap store is at least as late.
AckedIsExported ==
    \A e \in acked : /\ e \in stream
                     /\ e.part = 0 => /\ e.manifest \in exported
                                      /\ ~ Later(e.manifest, head)

\* What an exporter may rely on, and a member that loads the store, together:
\* nothing uncommitted, chunks before manifests, loadable heads, no record
\* given up that is still needed and none acknowledged too early.
ExportIsSound ==
    /\ OnlyCommitted /\ ChunksFirst /\ HeadLoadable
    /\ DroppedIsPassed /\ AckedIsExported

\* The bootstrap head never moves back, so a delayed exporter cannot hide a
\* newer publication from a member that starts (SnapshotStore.put).
HeadAdvances == [][head' = head \/ Later(head', head)]_vars

\* A publication that stays committed in its writer's epoch is exported:
\* the head is that manifest and all its records are acknowledged for good.
EventuallyExported ==
    <>[](active.epoch = epoch /\ active # NoFence)
      => <>[](/\ head # NoFence
              /\ FenceOf(head) = active
              /\ RecordsOf(head) \subseteq acked)

\* A member that starts to load the bootstrap store ends with a cut, however
\* the head moves and the chunks are pruned meanwhile.
LoadEnds ==
    \A r \in Readers : (load[r].at = "head") ~> (load[r].at = "loaded")

----------------------------------------------------------------------------
(***************************************************************************)
(* The inductive invariant behind the safety properties.                   *)
(***************************************************************************)
LogInv ==
    /\ \A m, n \in manifests : FenceOf(m) = FenceOf(n) => m = n
    /\ \A m \in manifests : m.epoch > 0
    /\ active = NoFence \/ \E m \in committed : FenceOf(m) = active
    /\ committed \subseteq manifests
    /\ \A m \in committed : ~ Later(m, active)

\* What a pass has established about the record it holds, by where it is.
PassInv(x) ==
    LET p == pass[x]
        e == pass[x].event
    IN /\ \A d \in p.list : d.manifest \in manifests
       /\ p.sent \subseteq stream
       /\ p.at \notin {"idle", "next"} => e \in Events
       /\ p.at \notin {"idle", "next", "older"} => e.manifest \in committed
       /\ p.at \in {"put", "prune", "mark", "settle"} => e \in stream
       /\ p.at = "publish" /\ e.part = 0
            => ChunksOf(e.manifest) \subseteq stream
       /\ p.at \in {"prune", "mark"} => e.part = 0
       /\ p.at \in {"prune", "mark", "settle"} /\ e.part = 0
            => ~ Later(e.manifest, head)
       /\ p.at = "settle" /\ e.part = 0 => e.manifest \in exported

\* A chunk that was put is there until the replaced head is past it.
Kept(e) == e.part # 0 => e \in stored \/ Later(before, e.manifest)

PassKept(x) ==
    LET p == pass[x]
        e == pass[x].event
    IN /\ \A d \in p.sent : Kept(d)
       /\ p.at = "settle" => Kept(e)
       /\ p.at \in {"publish", "put"} /\ e.part = 0
            => \A c \in ChunksOf(e.manifest) : Kept(c)
       /\ p.at = "prune" => ~ Later(p.replaced, before)

StoreInv ==
    /\ head = before => head = NoFence
    /\ head # before => Later(head, before)
    /\ \A e \in acked : Kept(e)
    /\ \A x \in Exporters : PassKept(x)

\* The safety properties with what makes them inductive: the pointer never
\* passes a manifest that is committed later, each place of the outbox loop
\* remembers what it checked, and a chunk that was put outlives its use.
IInv ==
    /\ TypeOK /\ LogInv
    /\ OnlyCommitted /\ ChunksFirst /\ HeadLoadable
    /\ DroppedIsPassed /\ AckedIsExported
    /\ \A x \in Exporters : PassInv(x)
    /\ StoreInv
=============================================================================
