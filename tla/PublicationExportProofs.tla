----------------------- MODULE PublicationExportProofs -----------------------
(***************************************************************************)
(* Proofs about PublicationExport, for any exporters, readers, contents    *)
(* and bounds.                                                             *)
(***************************************************************************)
EXTENDS PublicationExport, TLAPS

Fenced(a) == a.epoch \in Nat /\ a.revision \in Nat

\* The order of fences (model.Compare) is strict and total.
LEMMA LaterOrder ==
    ASSUME NEW a, NEW b, NEW c, Fenced(a), Fenced(b), Fenced(c)
    PROVE  /\ ~ Later(a, a)
           /\ Later(a, b) => ~ Later(b, a)
           /\ Later(a, b) /\ Later(b, c) => Later(a, c)
           /\ Later(a, b) /\ ~ Later(c, b) => Later(a, c)
           /\ ~ Later(b, a) /\ Later(b, c) => Later(a, c)
           /\ ~ Later(b, a) /\ ~ Later(c, b) => ~ Later(c, a)
  BY DEF Later, Fenced

\* Manifests and the absent one have fences.
LEMMA ManifestFenced ==
    ASSUME NEW m \in Manifest \cup {NoFence}
    PROVE  Fenced(m)
  BY DEF Fenced, Manifest, NoFence

\* A manifest is not the absent head.
LEMMA ManifestIsSome ==
    ASSUME NEW m \in Manifest
    PROVE  m # NoFence
<1>1. "content" \in DOMAIN m
  BY Zenon DEF Manifest
<1>2. "content" \notin DOMAIN NoFence
  BY Zenon DEF NoFence
<1> QED
  BY <1>1, <1>2, Zenon

\* The chunks of a manifest are events of it, and not its manifest event.
LEMMA ChunkEvents ==
    ASSUME NEW m \in Manifest
    PROVE  /\ ChunksOf(m) \subseteq Events
           /\ \A c \in ChunksOf(m) : c.manifest = m /\ c.part # 0
<1>1. ChunkCount[m.content] \in Nat
  BY ExportAssumption, Zenon DEF Manifest
<1> QED
  BY <1>1 DEF ChunksOf, Event, Events

\* What the end of a record's turn leaves of a pass.
LEMMA ContinueFacts ==
    ASSUME pass \in [Exporters -> Parts], NEW x \in Exporters,
           NEW S \in SUBSET Events, Continue(x, S)
    PROVE  /\ pass' \in [Exporters -> Parts]
           /\ \A y \in Exporters \ {x} : pass'[y] = pass[y]
           /\ pass'[x].at \in {"idle", "next"}
           /\ pass'[x].list \subseteq pass[x].list
           /\ pass'[x].sent \subseteq pass[x].sent \cup S
<1> DEFINE rest == pass[x].list \ {pass[x].event}
           more == [Idle EXCEPT !.at = "next", !.list = rest,
                                !.sent = pass[x].sent \cup S]
<1>1. pass[x] \in Parts
  BY Zenon
<1>2. Idle \in Parts /\ Idle.at = "idle" /\ Idle.list = {} /\ Idle.sent = {}
  BY Zenon DEF Idle, Parts
<1>3. /\ more \in Parts /\ more.at = "next" /\ more.list = rest
      /\ more.sent = pass[x].sent \cup S
  BY <1>1, Zenon DEF Idle, Parts
<1>4. pass' = [pass EXCEPT ![x] = IF rest = {} THEN Idle ELSE more]
  BY Zenon DEF Continue
<1>5. pass'[x] = IF rest = {} THEN Idle ELSE more
  BY <1>4, Zenon
<1> HIDE DEF more, rest
<1>6. /\ pass' \in [Exporters -> Parts]
      /\ \A y \in Exporters \ {x} : pass'[y] = pass[y]
  BY <1>2, <1>3, <1>4, Zenon
<1>7. rest \subseteq pass[x].list
  BY Zenon DEF rest
<1> QED
  BY <1>2, <1>3, <1>5, <1>6, <1>7, Zenon

\* A move inside a record's turn changes nothing but the place.
LEMMA GoFacts ==
    ASSUME pass \in [Exporters -> Parts], NEW x \in Exporters,
           NEW w \in {"ready", "publish", "put", "mark", "settle", "report"},
           Go(x, w)
    PROVE  /\ pass' \in [Exporters -> Parts]
           /\ \A y \in Exporters \ {x} : pass'[y] = pass[y]
           /\ pass'[x].at = w
           /\ pass'[x].list = pass[x].list
           /\ pass'[x].sent = pass[x].sent
           /\ pass'[x].event = pass[x].event
<1>1. pass[x] \in Parts
  BY Zenon
<1>2. pass'[x] = [pass[x] EXCEPT !.at = w]
  BY Zenon DEF Go
<1> QED
  BY <1>1, <1>2, Zenon DEF Go, Parts

----------------------------------------------------------------------------
\* The initial state satisfies the invariant.
LEMMA InitInv == Init => IInv
<1> SUFFICES ASSUME Init PROVE IInv
  BY Zenon
<1> USE DEF Init, LogInit
<1>1. TypeOK
  <2>1. Idle \in Parts
    BY Zenon DEF Idle, Parts
  <2>2. NoLoad \in Loads
    BY Zenon DEF NoLoad, Loads
  <2>3. NoFence \in Fence
    BY Zenon DEF NoFence, Fence
  <2> QED
    BY <2>1, <2>2, <2>3, Zenon DEF TypeOK
<1>2. LogInv /\ OnlyCommitted /\ ChunksFirst /\ HeadLoadable
      /\ DroppedIsPassed /\ AckedIsExported
  BY Zenon DEF LogInv, OnlyCommitted, ChunksFirst, HeadLoadable, DroppedIsPassed,
         AckedIsExported
<1>3. \A x \in Exporters : PassInv(x) /\ PassKept(x)
  BY Zenon DEF PassInv, PassKept, Idle
<1> QED
  BY <1>1, <1>2, <1>3, Zenon DEF IInv, StoreInv

\* A pass that an action does not touch keeps what it has established while
\* the log, the stream, the export marks and the head only advance.
LEMMA PassFrame ==
    ASSUME TypeOK, NEW y \in Exporters, PassInv(y),
           pass'[y] = pass[y],
           manifests \subseteq manifests', committed \subseteq committed',
           stream \subseteq stream', exported \subseteq exported',
           head' \in Manifest \cup {NoFence},
           head' = head \/ Later(head', head)
    PROVE  PassInv(y)'
<1>1. pass[y] \in Parts
  BY Zenon DEF TypeOK
<1>2. ASSUME pass[y].event \in Events, ~ Later(pass[y].event.manifest, head)
      PROVE  ~ Later(pass[y].event.manifest, head')
  <2>1. pass[y].event.manifest \in Manifest
    BY <1>2, Zenon DEF Events
  <2> QED
    BY <2>1, <1>2, ManifestFenced, LaterOrder DEF TypeOK
<1> QED
  BY <1>1, <1>2, Zenon DEF PassInv, ChunksOf

\* What was put stays while the store only grows.
LEMMA KeptFrame ==
    ASSUME NEW y \in Exporters, PassKept(y), pass'[y] = pass[y],
           stored \subseteq stored', before' = before
    PROVE  PassKept(y)'
<1>1. \A d : Kept(d) => Kept(d)'
  BY Zenon DEF Kept
<1> QED
  BY <1>1, Zenon DEF PassKept, ChunksOf

\* The writer's steps: a new epoch, a staged manifest, a commit.
LEMMA WriterStep == IInv /\ Writer => IInv'
<1> SUFFICES ASSUME IInv, Writer PROVE IInv'
  BY Zenon
<1> USE DEF IInv
<1>1. /\ manifests \subseteq manifests' /\ committed \subseteq committed'
      /\ UNCHANGED <<outboxVars, stream, storeVars, pass, load, failures>>
  BY Zenon DEF Writer, TakeOver, StageManifest, CommitManifest, NewEpoch, Stage,
         CommitTo
<1>2. /\ TypeOK'
      /\ active' = active \/ Later(active', active)
  <2>1. CASE TakeOver
    BY <2>1, <1>1, Zenon DEF TakeOver, NewEpoch, TypeOK, outboxVars, storeVars
  <2>2. CASE StageManifest
    <3>1. manifests' \subseteq Manifest
      <4>1. PICK m \in manifests' : manifests' = manifests \cup {m}
                                    /\ m \in Manifest
        BY <2>2, Zenon DEF StageManifest, Stage
      <4> QED
        BY <4>1, Zenon DEF TypeOK
    <3> QED
      BY <3>1, <2>2, <1>1, Zenon DEF StageManifest, Stage, TypeOK, outboxVars,
                              storeVars
  <2>3. CASE CommitManifest
    <3>1. PICK m \in manifests : CommitTo(m)
                                 /\ committed' = committed \cup {m}
      BY <2>3, Zenon DEF CommitManifest
    <3>2. m \in Manifest
      BY Zenon DEF TypeOK
    <3>3. FenceOf(m) \in Fence
      BY <3>2, Zenon DEF FenceOf, Fence, Manifest
    <3>4. Later(FenceOf(m), active)
      BY <3>1, Zenon DEF CommitTo, Later, FenceOf
    <3> QED
      BY <3>1, <3>2, <3>3, <3>4, <1>1, Zenon DEF CommitTo, TypeOK, outboxVars,
                                          storeVars
  <2> QED
    BY <2>1, <2>2, <2>3, Zenon DEF Writer
<1>3. Fenced(active) /\ Fenced(active')
  BY <1>2, Zenon DEF TypeOK, Fence, Fenced
<1>4. LogInv'
  <2>1. CASE TakeOver
    BY <2>1, Zenon DEF TakeOver, NewEpoch, LogInv
  <2>2. CASE StageManifest
    <3>1. PICK m \in manifests' : /\ manifests' = manifests \cup {m}
                                  /\ \A n \in manifests : FenceOf(n) # FenceOf(m)
      BY <2>2, Zenon DEF StageManifest, Stage
    <3>2. \A n \in manifests' : n.epoch > 0
      BY <2>2 DEF StageManifest, Candidates, LogInv
    <3> QED
      BY <3>1, <3>2, <2>2, Zenon DEF StageManifest, Stage, LogInv
  <2>3. CASE CommitManifest
    <3>1. PICK m \in manifests : CommitTo(m)
                                 /\ committed' = committed \cup {m}
      BY <2>3, Zenon DEF CommitManifest
    <3>2. ~ Later(m, active')
      BY <3>1, ManifestFenced DEF CommitTo, FenceOf, Later, Fenced, TypeOK
    <3>3. ASSUME NEW c \in committed PROVE ~ Later(c, active')
      <4>1. Fenced(c) /\ ~ Later(c, active)
        BY ManifestFenced, Zenon DEF TypeOK, LogInv
      <4> QED
        BY <4>1, <1>2, <1>3, LaterOrder, Zenon
    <3> QED
      BY <3>1, <3>2, <3>3, Zenon DEF CommitTo, LogInv
  <2> QED
    BY <2>1, <2>2, <2>3, Zenon DEF Writer
<1>5. OnlyCommitted' /\ ChunksFirst' /\ HeadLoadable' /\ AckedIsExported'
  BY <1>1, Zenon DEF OnlyCommitted, ChunksFirst, HeadLoadable, AckedIsExported,
              ChunksOf, outboxVars, storeVars
<1>6. DroppedIsPassed'
  <2>1. \A e \in dropped : Fenced(e.manifest)
    BY ManifestFenced, Zenon DEF TypeOK, Events
  <2> QED
    BY <2>1, <1>1, <1>2, <1>3, LaterOrder, Zenon DEF DroppedIsPassed, outboxVars
<1>7. \A x \in Exporters : PassInv(x)'
  BY <1>1, <1>2, PassFrame, Zenon DEF outboxVars, storeVars, TypeOK
<1>8. StoreInv'
  <2>1. \A x \in Exporters : PassKept(x)'
    BY <1>1, KeptFrame, Zenon DEF storeVars, StoreInv
  <2> QED
    BY <2>1, <1>1, Zenon DEF StoreInv, Kept, storeVars, outboxVars
<1> QED
  BY <1>2, <1>4, <1>5, <1>6, <1>7, <1>8, Zenon

\* A reader's steps touch nothing but its own load.
LEMMA ReadStep == ASSUME NEW r \in Readers PROVE IInv /\ Read(r) => IInv'
<1> SUFFICES ASSUME IInv, Read(r) PROVE IInv'
  BY Zenon
<1> USE DEF IInv
<1>1. UNCHANGED <<writerVars, outboxVars, stream, storeVars, pass, failures>>
  BY Zenon DEF Read, ListKeys, ReadHead, ReadChunk, Verify
<1>2. load' \in [Readers -> Loads]
  <2>1. load[r] \in Loads /\ NoLoad \in Loads
    BY Zenon DEF TypeOK, Loads, NoLoad
  <2>2. CASE ListKeys(r)
    <3>1. [NoLoad EXCEPT !.at = "head", !.keys = stored] \in Loads
      BY Zenon DEF NoLoad, Loads, TypeOK
    <3> QED
      BY <3>1, <2>2, Zenon DEF ListKeys, TypeOK
  <2>3. CASE ReadHead(r)
    <3>1. {c \in load[r].keys : c.manifest = head} \subseteq Events
      BY <2>1, Zenon DEF Loads
    <3>2. [load[r] EXCEPT !.at = "chunks", !.head = head,
             !.want = {c \in load[r].keys : c.manifest = head}] \in Loads
      BY <3>1, <2>1, Zenon DEF TypeOK, Loads
    <3>3. load' = [load EXCEPT ![r] =
            [load[r] EXCEPT !.at = "chunks", !.head = head,
               !.want = {c \in load[r].keys : c.manifest = head}]]
      BY <2>3, Zenon DEF ReadHead, TypeOK
    <3> QED
      BY <3>2, <3>3, Zenon DEF TypeOK
  <2>4. CASE ReadChunk(r)
    <3>1. PICK c \in load[r].want :
            load' = [load EXCEPT ![r] =
              IF c \in stored
              THEN [load[r] EXCEPT !.want = load[r].want \ {c},
                                   !.have = load[r].have \cup {c}]
              ELSE NoLoad]
      BY <2>4, Zenon DEF ReadChunk
    <3>2. [load[r] EXCEPT !.want = load[r].want \ {c},
                          !.have = load[r].have \cup {c}] \in Loads
      BY <2>1, Zenon DEF Loads
    <3> QED
      BY <3>1, <3>2, <2>1, Zenon DEF TypeOK
  <2>5. CASE Verify(r)
    <3>1. [load[r] EXCEPT !.at = "loaded"] \in Loads
      BY <2>1, Zenon DEF Loads
    <3> QED
      BY <3>1, <2>1, <2>5, Zenon DEF Verify, TypeOK
  <2> QED
    BY <2>2, <2>3, <2>4, <2>5, Zenon DEF Read
<1>3. TypeOK' /\ LogInv'
  BY <1>1, <1>2, Zenon DEF TypeOK, LogInv, writerVars, outboxVars, storeVars
<1>4. /\ OnlyCommitted' /\ ChunksFirst' /\ HeadLoadable'
      /\ DroppedIsPassed' /\ AckedIsExported'
  BY <1>1, Zenon DEF OnlyCommitted, ChunksFirst, HeadLoadable, DroppedIsPassed,
              AckedIsExported, ChunksOf, writerVars, outboxVars, storeVars
<1>5. \A x \in Exporters : PassInv(x)'
  BY <1>1, PassFrame, Zenon DEF writerVars, outboxVars, storeVars, TypeOK
<1>6. StoreInv'
  <2>1. \A x \in Exporters : PassKept(x)'
    BY <1>1, KeptFrame, Zenon DEF storeVars, StoreInv
  <2> QED
    BY <2>1, <1>1, Zenon DEF StoreInv, Kept, storeVars, outboxVars
<1> QED
  BY <1>3, <1>4, <1>5, <1>6, Zenon

\* A step of one exporter that leaves the writer and the bootstrap store
\* alone preserves the invariant if its own pass, the events it publishes
\* and the states it settles are as the invariant says.
LEMMA ExportFrame ==
    ASSUME IInv, NEW x \in Exporters,
           UNCHANGED <<writerVars, storeVars, load>>,
           failures' \in Nat,
           pass' \in [Exporters -> Parts],
           \A y \in Exporters \ {x} : pass'[y] = pass[y],
           PassInv(x)', PassKept(x)',
           stream \subseteq stream', stream' \subseteq Events,
           \A e \in stream' \ stream :
               /\ e.manifest \in committed
               /\ e.part = 0 => ChunksOf(e.manifest) \subseteq stream,
           exported \subseteq exported', exported' \subseteq Manifest,
           acked' \subseteq Events, dropped' \subseteq Events,
           \A e \in acked' \ acked :
               /\ e \in stream /\ Kept(e)
               /\ e.part = 0 => /\ e.manifest \in exported
                                /\ ~ Later(e.manifest, head),
           \A e \in dropped' \ dropped : Later(active, e.manifest)
    PROVE  IInv'
<1> USE DEF IInv
<1>1. TypeOK' /\ LogInv'
  BY Zenon DEF TypeOK, LogInv, writerVars, storeVars
<1>2. OnlyCommitted' /\ HeadLoadable' /\ DroppedIsPassed' /\ AckedIsExported'
  BY Zenon DEF OnlyCommitted, HeadLoadable, DroppedIsPassed, AckedIsExported,
         ChunksOf, writerVars, storeVars
<1>3. ChunksFirst'
  BY Zenon DEF ChunksFirst, ChunksOf
<1>4. ASSUME NEW y \in Exporters \ {x} PROVE PassInv(y)' /\ PassKept(y)'
  BY PassFrame, KeptFrame, Zenon DEF StoreInv, TypeOK, writerVars, storeVars
<1>5. StoreInv'
  BY <1>4, Zenon DEF StoreInv, Kept, storeVars
<1> QED
  BY <1>1, <1>2, <1>3, <1>4, <1>5, Zenon

\* After a record's turn a pass knows only which chunks it has sent.
LEMMA ContinueInv ==
    ASSUME IInv, NEW x \in Exporters, NEW S \in SUBSET stream,
           \A d \in S : Kept(d), Continue(x, S),
           UNCHANGED <<writerVars, storeVars, stream>>
    PROVE  /\ PassInv(x)' /\ PassKept(x)'
           /\ pass' \in [Exporters -> Parts]
           /\ \A y \in Exporters \ {x} : pass'[y] = pass[y]
<1>1. /\ pass \in [Exporters -> Parts] /\ S \subseteq Events
      /\ PassInv(x) /\ PassKept(x)
  BY Zenon DEF IInv, TypeOK, StoreInv
<1>2. /\ pass' \in [Exporters -> Parts]
      /\ \A y \in Exporters \ {x} : pass'[y] = pass[y]
      /\ pass'[x].at \in {"idle", "next"}
      /\ pass'[x].list \subseteq pass[x].list
      /\ pass'[x].sent \subseteq pass[x].sent \cup S
  BY <1>1, ContinueFacts, Zenon
<1>3. PassInv(x)'
  BY <1>1, <1>2, Zenon DEF PassInv, writerVars
<1>4. PassKept(x)'
  <2>1. \A d \in pass'[x].sent : Kept(d)
    BY <1>1, <1>2, Zenon DEF PassKept
  <2> QED
    BY <2>1, <1>2, Zenon DEF PassKept, Kept, storeVars
<1> QED
  BY <1>2, <1>3, <1>4, Zenon

\* Outbox.Step lists the pending records and takes one of them.
LEMMA ListStep ==
    ASSUME NEW x \in Exporters PROVE IInv /\ (List(x) \/ Take(x)) => IInv'
<1> SUFFICES ASSUME IInv, List(x) \/ Take(x) PROVE IInv'
  BY Zenon
<1>1. /\ UNCHANGED <<writerVars, outboxVars, stream, storeVars, load, failures>>
      /\ TypeOK /\ LogInv /\ PassInv(x) /\ PassKept(x) /\ pass[x] \in Parts
  BY Zenon DEF List, Take, IInv, StoreInv, TypeOK
<1>2. /\ pass' \in [Exporters -> Parts]
      /\ \A y \in Exporters \ {x} : pass'[y] = pass[y]
      /\ PassInv(x)' /\ PassKept(x)'
  <2>1. CASE List(x)
    <3>1. /\ PendingRecords \subseteq Events
          /\ \A d \in PendingRecords : d.manifest \in manifests
      <4>1. ASSUME NEW m \in manifests, NEW d \in RecordsOf(m)
            PROVE  d \in Events /\ d.manifest = m
        BY <4>1, <1>1, ChunkEvents DEF TypeOK, RecordsOf, Event, Events
      <4> QED
        BY <4>1, Zenon DEF PendingRecords
    <3>2. pass' = [pass EXCEPT ![x] = [pass[x] EXCEPT !.at = "next",
                                         !.list = PendingRecords]]
      BY <2>1, <1>1, Zenon DEF List, TypeOK
    <3>3. [pass[x] EXCEPT !.at = "next", !.list = PendingRecords] \in Parts
      BY <3>1, <1>1, Zenon DEF Parts
    <3>4. /\ pass'[x].at = "next" /\ pass'[x].list = PendingRecords
          /\ pass'[x].sent = pass[x].sent
      BY <3>2, <1>1, Zenon DEF TypeOK, Parts
    <3>5. PassInv(x)'
      BY <3>1, <3>4, <1>1, Zenon DEF PassInv, writerVars
    <3>6. PassKept(x)'
      BY <3>4, <1>1, Zenon DEF PassKept, Kept, storeVars
    <3> QED
      BY <3>2, <3>3, <3>5, <3>6, <1>1, Zenon DEF TypeOK
  <2>2. CASE Take(x)
    <3>1. PICK e \in pass[x].list :
            pass' = [pass EXCEPT ![x].event = e,
                ![x].at = IF Committed(e.manifest) THEN "ready" ELSE "older"]
      BY <2>2, Zenon DEF Take
    <3>2. e \in Events /\ e.manifest \in manifests
      BY <1>1, Zenon DEF PassInv, Parts
    <3>3. Committed(e.manifest) => e.manifest \in committed
      BY <3>2, <1>1 DEF Committed, LogInv, TypeOK, FenceOf, NoFence
    <3>4. /\ pass'[x] \in Parts
          /\ pass'[x].at \in {"ready", "older"} /\ pass'[x].event = e
          /\ pass'[x].at = "ready" => Committed(e.manifest)
          /\ pass'[x].list = pass[x].list /\ pass'[x].sent = pass[x].sent
      BY <3>1, <3>2, <1>1, Zenon DEF TypeOK, Parts
    <3>5. PassInv(x)'
      BY <3>2, <3>3, <3>4, <1>1, Zenon DEF PassInv, writerVars
    <3>6. PassKept(x)'
      BY <3>4, <1>1, Zenon DEF PassKept, Kept, storeVars
    <3> QED
      BY <3>1, <3>4, <3>5, <3>6, <1>1, Zenon DEF TypeOK
  <2> QED
    BY <2>1, <2>2, Zenon
<1> QED
  BY <1>1, <1>2, ExportFrame, Zenon DEF TypeOK, outboxVars

\* A record that is given up, or whose chunks are missing, ends its turn.
LEMMA DropStep == ASSUME NEW x \in Exporters PROVE IInv /\ Drop(x) => IInv'
<1> SUFFICES ASSUME IInv, Drop(x) PROVE IInv'
  BY Zenon
<1>1. /\ UNCHANGED <<writerVars, acked, exported, stream, storeVars, load,
                     failures>>
      /\ Continue(x, {}) /\ TypeOK
  BY Zenon DEF Drop, IInv
<1>2. /\ PassInv(x)' /\ PassKept(x)'
      /\ pass' \in [Exporters -> Parts]
      /\ \A y \in Exporters \ {x} : pass'[y] = pass[y]
  BY <1>1, ContinueInv, Zenon
<1>3. /\ dropped' \subseteq Events
      /\ \A e \in dropped' \ dropped : Later(active, e.manifest)
  <2>1. pass[x].event \in Events
    BY Zenon DEF Drop, At, IInv, PassInv
  <2> QED
    BY <2>1, <1>1, Zenon DEF Drop, TypeOK
<1> QED
  BY <1>1, <1>2, <1>3, ExportFrame, Zenon DEF TypeOK

\* A manifest goes on to Publish only with all its chunks sent.
LEMMA CheckReadyStep ==
    ASSUME NEW x \in Exporters PROVE IInv /\ CheckReady(x) => IInv'
<1> SUFFICES ASSUME IInv, CheckReady(x) PROVE IInv'
  BY Zenon
<1> DEFINE e == pass[x].event
<1>1. /\ UNCHANGED <<writerVars, outboxVars, stream, storeVars, load, failures>>
      /\ TypeOK /\ PassInv(x) /\ PassKept(x) /\ StoreInv /\ AckedIsExported
      /\ At(x, "ready")
  BY Zenon DEF CheckReady, IInv, StoreInv
<1>2. /\ PassInv(x)' /\ PassKept(x)'
      /\ pass' \in [Exporters -> Parts]
      /\ \A y \in Exporters \ {x} : pass'[y] = pass[y]
  <2>1. CASE ~ DependencyReady(x)
    BY <2>1, <1>1, ContinueInv, Zenon DEF CheckReady
  <2>2. CASE DependencyReady(x)
    <3>1. e.part = 0 => /\ ChunksOf(e.manifest) \subseteq stream
                        /\ \A c \in ChunksOf(e.manifest) : Kept(c)
      BY <2>2, <1>1, Zenon DEF DependencyReady, PassInv, PassKept, StoreInv,
                        AckedIsExported
    <3>2. /\ pass' \in [Exporters -> Parts]
          /\ \A y \in Exporters \ {x} : pass'[y] = pass[y]
          /\ pass'[x].at = "publish" /\ pass'[x].event = e
          /\ pass'[x].list = pass[x].list /\ pass'[x].sent = pass[x].sent
      BY <2>2, <1>1, GoFacts, Zenon DEF CheckReady, TypeOK
    <3>3. PassInv(x)'
      BY <3>1, <3>2, <1>1, Zenon DEF PassInv, At, ChunksOf, writerVars
    <3>4. PassKept(x)'
      BY <3>1, <3>2, <1>1, Zenon DEF PassKept, Kept, ChunksOf, storeVars
    <3> QED
      BY <3>2, <3>3, <3>4, Zenon
  <2> QED
    BY <2>1, <2>2, Zenon
<1> QED
  BY <1>1, <1>2, ExportFrame, Zenon DEF TypeOK, outboxVars

\* Publish, with or without an error.
LEMMA PublishStep ==
    ASSUME NEW x \in Exporters
    PROVE  IInv /\ (Publish(x) \/ PublishFails(x)) => IInv'
<1> SUFFICES ASSUME IInv, Publish(x) \/ PublishFails(x) PROVE IInv'
  BY Zenon
<1> DEFINE e == pass[x].event
<1>1. /\ UNCHANGED <<writerVars, outboxVars, storeVars, load>>
      /\ TypeOK /\ PassInv(x) /\ PassKept(x) /\ At(x, "publish")
      /\ e \in Events /\ e.manifest \in committed
      /\ e.part = 0 => ChunksOf(e.manifest) \subseteq stream
      /\ failures' \in Nat
  BY DEF Publish, PublishFails, Failing, IInv, StoreInv, TypeOK, PassInv, At
<1>2. /\ stream \subseteq stream' /\ stream' \subseteq stream \cup {e}
      /\ \/ Go(x, "put") /\ e \in stream'
         \/ Go(x, "report")
  BY Zenon DEF Publish, PublishFails
<1>3. /\ pass' \in [Exporters -> Parts]
      /\ \A y \in Exporters \ {x} : pass'[y] = pass[y]
      /\ \/ pass'[x].at = "put" /\ e \in stream'
         \/ pass'[x].at = "report"
      /\ pass'[x].event = e
      /\ pass'[x].list = pass[x].list /\ pass'[x].sent = pass[x].sent
  BY <1>1, <1>2, GoFacts, Zenon DEF TypeOK
<1>4. PassInv(x)'
  BY <1>1, <1>2, <1>3, Zenon DEF PassInv, At, ChunksOf, writerVars
<1>5. PassKept(x)'
  BY <1>1, <1>3, Zenon DEF PassKept, At, Kept, ChunksOf, storeVars
<1>6. /\ stream' \subseteq Events
      /\ \A d \in stream' \ stream :
            /\ d.manifest \in committed
            /\ d.part = 0 => ChunksOf(d.manifest) \subseteq stream
  BY <1>1, <1>2, Zenon DEF TypeOK
<1> QED
  BY <1>1, <1>2, <1>3, <1>4, <1>5, <1>6, ExportFrame, Zenon DEF TypeOK, outboxVars

\* The export mark goes on a manifest that is published and put.
LEMMA MarkStep ==
    ASSUME NEW x \in Exporters PROVE IInv /\ MarkExported(x) => IInv'
<1> SUFFICES ASSUME IInv, MarkExported(x) PROVE IInv'
  BY Zenon
<1> DEFINE e == pass[x].event
<1>1. /\ UNCHANGED <<writerVars, acked, dropped, stream, storeVars, load,
                     failures>>
      /\ TypeOK /\ PassInv(x) /\ PassKept(x) /\ At(x, "mark")
      /\ e \in Events /\ e.part = 0
      /\ exported' = exported \cup {e.manifest} /\ Go(x, "settle")
  BY Zenon DEF MarkExported, IInv, StoreInv, PassInv, At
<1>2. /\ pass' \in [Exporters -> Parts]
      /\ \A y \in Exporters \ {x} : pass'[y] = pass[y]
      /\ pass'[x].at = "settle" /\ pass'[x].event = e
      /\ pass'[x].list = pass[x].list /\ pass'[x].sent = pass[x].sent
  BY <1>1, GoFacts, Zenon DEF TypeOK
<1>3. PassInv(x)'
  BY <1>1, <1>2, Zenon DEF PassInv, At, writerVars, storeVars
<1>4. PassKept(x)'
  BY <1>1, <1>2, Zenon DEF PassKept, Kept, storeVars
<1>5. exported' \subseteq Manifest
  BY <1>1, Zenon DEF TypeOK, Events
<1> QED
  BY <1>1, <1>2, <1>3, <1>4, <1>5, ExportFrame, Zenon DEF TypeOK

\* The status patches: Acknowledged, Pending after an error, or lost.
LEMMA SettleStep ==
    ASSUME NEW x \in Exporters
    PROVE  IInv /\ (Acknowledge(x) \/ ReportError(x) \/ PatchFails(x)) => IInv'
<1> SUFFICES ASSUME IInv, Acknowledge(x) \/ ReportError(x) \/ PatchFails(x)
             PROVE  IInv'
  BY Zenon
<1> DEFINE e == pass[x].event
<1>1. /\ UNCHANGED <<writerVars, exported, stream, storeVars, load>>
      /\ TypeOK /\ PassInv(x) /\ PassKept(x) /\ e \in Events
      /\ failures' \in Nat /\ dropped' \subseteq dropped
  <2>1. TypeOK /\ PassInv(x) /\ PassKept(x)
    BY Zenon DEF IInv, StoreInv
  <2>2. pass[x].at \in {"settle", "report"}
    BY Zenon DEF Acknowledge, ReportError, PatchFails, At
  <2>3. e \in Events
    BY <2>1, <2>2, Zenon DEF PassInv
  <2>4. failures \in Nat
    BY <2>1, Zenon DEF TypeOK
  <2>5. CASE Acknowledge(x)
    BY <2>1, <2>3, <2>4, <2>5, Zenon DEF Acknowledge
  <2>6. CASE ReportError(x)
    BY <2>1, <2>3, <2>4, <2>6, Zenon DEF ReportError
  <2>7. CASE PatchFails(x)
    BY <2>1, <2>3, <2>4, <2>7 DEF PatchFails, Failing, outboxVars
  <2> QED
    BY <2>5, <2>6, <2>7, Zenon
<1>2. At(x, "settle") => /\ e \in stream /\ Kept(e)
                         /\ e.part = 0 => /\ e.manifest \in exported
                                          /\ ~ Later(e.manifest, head)
  BY <1>1, Zenon DEF PassInv, PassKept, At
<1>3. /\ acked' \subseteq acked \cup (IF At(x, "settle") THEN {e} ELSE {})
      /\ \E S \in SUBSET stream : Continue(x, S) /\ \A d \in S : Kept(d)
  <2>1. CASE Acknowledge(x)
    BY <2>1, <1>2 DEF Acknowledge
  <2>2. CASE ReportError(x)
    BY <2>2 DEF ReportError
  <2>3. CASE PatchFails(x)
    BY <2>3, <1>2 DEF PatchFails, outboxVars
  <2> QED
    BY <2>1, <2>2, <2>3, Zenon
<1>4. /\ PassInv(x)' /\ PassKept(x)'
      /\ pass' \in [Exporters -> Parts]
      /\ \A y \in Exporters \ {x} : pass'[y] = pass[y]
  BY <1>1, <1>3, ContinueInv, Zenon
<1>5. /\ acked' \subseteq Events /\ dropped' \subseteq Events
      /\ \A d \in acked' \ acked : d = e /\ At(x, "settle")
  BY <1>1, <1>3, Zenon DEF TypeOK
<1> QED
  BY <1>1, <1>2, <1>4, <1>5, ExportFrame, Zenon DEF TypeOK

\* A pass can end anywhere.
LEMMA PassEndsStep ==
    ASSUME NEW x \in Exporters PROVE IInv /\ PassEnds(x) => IInv'
<1> SUFFICES ASSUME IInv, PassEnds(x) PROVE IInv'
  BY Zenon
<1>1. /\ UNCHANGED <<writerVars, outboxVars, stream, storeVars, load>>
      /\ TypeOK /\ failures' \in Nat
      /\ pass' = [pass EXCEPT ![x] = Idle]
  BY DEF PassEnds, Failing, IInv, TypeOK
<1>2. /\ pass' \in [Exporters -> Parts] /\ pass'[x] = Idle
      /\ \A y \in Exporters \ {x} : pass'[y] = pass[y]
  <2>1. Idle \in Parts
    BY Zenon DEF Idle, Parts
  <2> QED
    BY <2>1, <1>1, Zenon DEF TypeOK
<1>3. PassInv(x)' /\ PassKept(x)'
  BY <1>2 DEF PassInv, PassKept, Idle
<1> QED
  BY <1>1, <1>2, <1>3, ExportFrame, Zenon DEF TypeOK, outboxVars

\* A step of one exporter on the bootstrap store preserves the invariant if
\* the head and the one it replaced advance, both can be loaded, and what
\* was kept is kept.
LEMMA StoreFrame ==
    ASSUME IInv, NEW x \in Exporters,
           UNCHANGED <<writerVars, outboxVars, stream, load>>,
           failures' \in Nat,
           pass' \in [Exporters -> Parts],
           \A y \in Exporters \ {x} : pass'[y] = pass[y],
           PassInv(x)', PassKept(x)',
           stored' \subseteq Events,
           head' \in committed \cup {NoFence},
           before' \in Manifest \cup {NoFence},
           head' = head \/ Later(head', head),
           before' = before \/ Later(before', before),
           head' = before' => head' = NoFence,
           head' # before' => Later(head', before'),
           HeadLoadable',
           \A d \in Events : Kept(d) => Kept(d)'
    PROVE  IInv'
<1> USE DEF IInv
<1>1. TypeOK' /\ LogInv'
  BY Zenon DEF TypeOK, LogInv, writerVars, outboxVars
<1>2. \A m \in Manifest \cup {NoFence} :
        /\ ~ Later(m, head) => ~ Later(m, head')
        /\ ~ Later(m, before) => ~ Later(m, before')
  BY <1>1, ManifestFenced, LaterOrder, Zenon DEF TypeOK
<1>3. OnlyCommitted' /\ ChunksFirst' /\ DroppedIsPassed'
  BY Zenon DEF OnlyCommitted, ChunksFirst, DroppedIsPassed, ChunksOf, writerVars,
         outboxVars
<1>4. AckedIsExported'
  BY <1>2, Zenon DEF AckedIsExported, outboxVars, TypeOK, Events
<1>5. ASSUME NEW y \in Exporters \ {x} PROVE PassInv(y)' /\ PassKept(y)'
  <2>1. PassInv(y)'
    BY <1>1, PassFrame, Zenon DEF TypeOK, writerVars, outboxVars
  <2>2. pass[y] \in Parts /\ PassInv(y) /\ PassKept(y)
    BY Zenon DEF TypeOK, StoreInv
  <2>3. \A d \in pass[y].sent : Kept(d)'
    BY <2>2, Zenon DEF PassKept, Parts
  <2>4. pass[y].at = "settle" => Kept(pass[y].event)'
    BY <2>2, Zenon DEF PassKept, PassInv
  <2>5. ASSUME pass[y].at \in {"publish", "put"}, pass[y].event.part = 0,
               NEW c \in ChunksOf(pass[y].event.manifest)
        PROVE  Kept(c)'
    <3>1. pass[y].event.manifest \in Manifest
      BY <2>2, <2>5, Zenon DEF PassInv, Events
    <3>2. c \in Events
      BY <3>1, ChunkEvents, Zenon
    <3> QED
      BY <3>2, <2>2, <2>5, Zenon DEF PassKept
  <2>6. pass[y].at = "prune" => ~ Later(pass[y].replaced, before')
    BY <2>2, <1>2, Zenon DEF PassKept, Parts
  <2>7. PassKept(y)'
    BY <2>3, <2>4, <2>5, <2>6, Zenon DEF PassKept, ChunksOf
  <2> QED
    BY <2>1, <2>7, Zenon
<1>6. \A e \in acked' : Kept(e)'
  BY Zenon DEF StoreInv, outboxVars, TypeOK
<1>7. StoreInv'
  BY <1>5, <1>6, Zenon DEF StoreInv
<1> QED
  BY <1>1, <1>3, <1>4, <1>5, <1>7, Zenon

\* What the three outcomes of SnapshotStore.put do to the store.
LEMMA PutStore ==
    ASSUME IInv, NEW x \in Exporters, At(x, "put"), NEW e,
           e = pass[x].event,
           UNCHANGED <<writerVars, outboxVars, stream, load>>,
           PutChunk(e) \/ MoveHead(e) \/ UNCHANGED storeVars
    PROVE  /\ e \in Events /\ e.manifest \in committed
           /\ stored' \subseteq Events
           /\ head' \in committed \cup {NoFence}
           /\ before' \in Manifest \cup {NoFence}
           /\ head' = head \/ Later(head', head)
           /\ before' = before \/ Later(before', before)
           /\ head' = before' => head' = NoFence
           /\ head' # before' => Later(head', before')
           /\ HeadLoadable'
           /\ \A d \in Events : Kept(d) => Kept(d)'
<1> USE DEF IInv
<1>1. /\ e \in Events /\ e.manifest \in committed /\ e.manifest \in Manifest
      /\ e.part = 0 => \A c \in ChunksOf(e.manifest) : Kept(c)
      /\ head \in committed \cup {NoFence}
      /\ before \in Manifest \cup {NoFence}
  BY Zenon DEF PassInv, PassKept, StoreInv, At, Events, OnlyCommitted, TypeOK
<1>2. /\ Fenced(head) /\ Fenced(before) /\ Fenced(e.manifest)
      /\ \A d \in Events : Fenced(d.manifest)
  BY <1>1, ManifestFenced, Zenon DEF TypeOK, Events
<1>3. /\ head = before => head = NoFence
      /\ head # before => Later(head, before)
  BY Zenon DEF StoreInv
<1>4. committed \subseteq Manifest
  BY Zenon DEF TypeOK
<1>5. CASE PutChunk(e)
  BY <1>1, <1>3, <1>4, <1>5, Zenon
     DEF PutChunk, HeadLoadable, ChunksOf, Kept, TypeOK
<1>6. CASE UNCHANGED storeVars
  BY <1>1, <1>3, <1>4, <1>6, Zenon
     DEF storeVars, HeadLoadable, ChunksOf, Kept, TypeOK
<1>7. CASE MoveHead(e)
  <2>1. /\ head' = e.manifest /\ before' = head /\ stored' = stored
        /\ Later(e.manifest, head) /\ e.part = 0
    BY <1>7, Zenon DEF MoveHead
  <2>2. before' = before \/ Later(before', before)
    BY <2>1, <1>3, Zenon
  <2>3. ~ Later(before, e.manifest)
    BY <2>1, <1>2, <1>3, LaterOrder, Zenon
  <2>4. ChunksOf(e.manifest) \subseteq stored
    BY <2>1, <2>3, <1>1, ChunkEvents, Zenon DEF Kept
  <2>5. HeadLoadable'
    <3>1. \A h : ChunksOf(h)' = ChunksOf(h)
      BY Zenon DEF ChunksOf
    <3>2. head # NoFence => ChunksOf(head) \subseteq stored
      BY Zenon DEF HeadLoadable
    <3>3. SUFFICES ASSUME NEW h \in {e.manifest, head}, h # NoFence
                   PROVE  ChunksOf(h) \subseteq stored
      BY <2>1, <3>1, Zenon DEF HeadLoadable
    <3> QED
      BY <2>4, <3>2, <3>3, Zenon
  <2>6. \A d \in Events : Kept(d) => Kept(d)'
    BY <2>1, <2>2, <1>2, LaterOrder, Zenon DEF Kept
  <2>7. head' # before'
    BY <2>1, <1>2, LaterOrder, Zenon
  <2> QED
    BY <2>1, <2>2, <2>5, <2>6, <2>7, <1>1, Zenon DEF TypeOK
<1> QED
  BY <1>5, <1>6, <1>7, Zenon

\* SnapshotStore.Put, with or without an error.
LEMMA PutStep ==
    ASSUME NEW x \in Exporters
    PROVE  IInv /\ (Put(x) \/ PutFails(x)) => IInv'
<1> SUFFICES ASSUME IInv, Put(x) \/ PutFails(x) PROVE IInv'
  BY Zenon
<1> DEFINE e == pass[x].event
<1>1. /\ UNCHANGED <<writerVars, outboxVars, stream, load>>
      /\ TypeOK /\ PassInv(x) /\ PassKept(x) /\ StoreInv /\ At(x, "put")
      /\ failures' \in Nat /\ pass[x] \in Parts
  BY DEF Put, PutFails, Failing, IInv, StoreInv, TypeOK
<1>2. PutChunk(e) \/ MoveHead(e) \/ UNCHANGED storeVars
  BY Zenon DEF Put, PutFails, KeepHead
<1>3. /\ e \in Events /\ e.manifest \in committed
      /\ stored' \subseteq Events
      /\ head' \in committed \cup {NoFence}
      /\ before' \in Manifest \cup {NoFence}
      /\ head' = head \/ Later(head', head)
      /\ before' = before \/ Later(before', before)
      /\ head' = before' => head' = NoFence
      /\ head' # before' => Later(head', before')
      /\ HeadLoadable'
      /\ \A d \in Events : Kept(d) => Kept(d)'
  BY <1>1, <1>2, PutStore, Zenon
<1>4. /\ pass' \in [Exporters -> Parts]
      /\ \A y \in Exporters \ {x} : pass'[y] = pass[y]
      /\ pass'[x].event = e
      /\ pass'[x].list = pass[x].list /\ pass'[x].sent = pass[x].sent
      /\ \/ pass'[x].at = "settle" /\ PutChunk(e)
         \/ pass'[x].at = "mark" /\ KeepHead(e)
         \/ /\ pass'[x].at \in {"mark", "prune"} /\ MoveHead(e)
            /\ pass'[x].replaced = head
         \/ pass'[x].at = "report"
  <2>1. CASE PutFails(x)
    BY <2>1, <1>1, GoFacts, Zenon DEF PutFails, TypeOK
  <2>2. CASE Put(x)
    <3>1. CASE PutChunk(e) /\ Go(x, "settle")
      BY <3>1, <1>1, GoFacts, Zenon DEF TypeOK
    <3>2. CASE KeepHead(e) /\ Go(x, "mark")
      BY <3>2, <1>1, GoFacts, Zenon DEF TypeOK
    <3>3. CASE /\ MoveHead(e)
               /\ pass' = [pass EXCEPT ![x].replaced = head,
                    ![x].at = IF head = NoFence THEN "mark" ELSE "prune"]
      <4>1. pass'[x] = [pass[x] EXCEPT !.replaced = head,
                    !.at = IF head = NoFence THEN "mark" ELSE "prune"]
        BY <3>3, <1>1, Zenon DEF TypeOK
      <4>2. head \in Manifest \cup {NoFence}
        BY <1>1, Zenon DEF TypeOK
      <4> QED
        BY <3>3, <4>1, <4>2, <1>1, Zenon DEF TypeOK, Parts
    <3> QED
      BY <2>2, <3>1, <3>2, <3>3, Zenon DEF Put
  <2> QED
    BY <2>1, <2>2, Zenon
<1>5. e \in stream /\ e.manifest \in Manifest
  BY <1>1, <1>3, Zenon DEF PassInv, At, Events
<1>6. MoveHead(e) \/ KeepHead(e) => ~ Later(e.manifest, head')
  BY <1>5, ManifestFenced, LaterOrder DEF MoveHead, KeepHead, storeVars
<1>7. PassInv(x)'
  BY <1>1, <1>3, <1>4, <1>5, <1>6, Zenon DEF PassInv, PutChunk, MoveHead, KeepHead,
                                      writerVars, outboxVars
<1>8. PassKept(x)'
  <2>1. \A d \in pass'[x].sent : Kept(d)'
    BY <1>1, <1>3, <1>4, Zenon DEF PassKept, Parts
  <2>2. pass'[x].at = "settle" => Kept(e)'
    BY <1>4, Zenon DEF PutChunk, Kept
  <2>3. pass'[x].at = "prune" => ~ Later(pass'[x].replaced, before')
    <3>1. head \in Manifest \cup {NoFence}
      BY <1>1, Zenon DEF TypeOK
    <3> QED
      BY <3>1, <1>4, ManifestFenced, LaterOrder, Zenon DEF MoveHead
  <2>4. pass'[x].at \notin {"publish", "put"}
    BY <1>4, Zenon
  <2> QED
    BY <2>1, <2>2, <2>3, <2>4, <1>4, Zenon DEF PassKept
<1> QED
  BY <1>1, <1>3, <1>4, <1>7, <1>8, StoreFrame, Zenon

\* The purge spares the head, the one it replaced and all that is later.
LEMMA PruneStep == ASSUME NEW x \in Exporters PROVE IInv /\ Prune(x) => IInv'
<1> SUFFICES ASSUME IInv, Prune(x) PROVE IInv'
  BY Zenon
<1> DEFINE e == pass[x].event
<1>1. /\ UNCHANGED <<writerVars, outboxVars, stream, head, before, load,
                     failures>>
      /\ TypeOK /\ PassInv(x) /\ PassKept(x) /\ StoreInv /\ HeadLoadable
      /\ OnlyCommitted /\ At(x, "prune") /\ Go(x, "mark")
      /\ pass[x] \in Parts
  BY Zenon DEF Prune, IInv, StoreInv, TypeOK
<1>2. PICK purged \in SUBSET Prunable(x) : stored' = stored \ purged
  BY Zenon DEF Prune
<1>3. /\ Fenced(pass[x].replaced) /\ Fenced(before) /\ Fenced(head)
      /\ \A d \in Events : Fenced(d.manifest)
  BY <1>1, ManifestFenced, Zenon DEF TypeOK, Parts, Events
<1>4. ~ Later(pass[x].replaced, before)
  BY <1>1, Zenon DEF PassKept, At
<1>5. \A d \in purged : d \in Events /\ Later(before, d.manifest)
  BY <1>1, <1>3, <1>4, LaterOrder, Zenon DEF Prunable, TypeOK
<1>6. HeadLoadable'
  <2>1. ASSUME NEW h \in {head, before}, h # NoFence,
               NEW d \in ChunksOf(h)
        PROVE  d \in stored'
    <3>1. h \in Manifest
      BY <2>1, <1>1, Zenon DEF TypeOK
    <3>2. d \in stored /\ d.manifest = h /\ d \in Events
      BY <3>1, <2>1, <1>1, ChunkEvents, Zenon DEF HeadLoadable
    <3>3. ~ Later(before, h)
      BY <2>1, <1>1, <1>3, LaterOrder, Zenon DEF StoreInv
    <3> QED
      BY <3>2, <3>3, <1>2, <1>5, Zenon
  <2> QED
    BY <2>1, <1>1, Zenon DEF HeadLoadable, ChunksOf
<1>7. \A d \in Events : Kept(d) => Kept(d)'
  BY <1>1, <1>2, <1>5, Zenon DEF Kept
<1>8. /\ pass' \in [Exporters -> Parts]
      /\ \A y \in Exporters \ {x} : pass'[y] = pass[y]
      /\ pass'[x].at = "mark" /\ pass'[x].event = e
      /\ pass'[x].list = pass[x].list /\ pass'[x].sent = pass[x].sent
  BY <1>1, GoFacts, Zenon DEF TypeOK
<1>9. PassInv(x)'
  BY <1>1, <1>8, Zenon DEF PassInv, At, writerVars, outboxVars
<1>10. PassKept(x)'
  BY <1>1, <1>7, <1>8, Zenon DEF PassKept, Parts
<1>11. stored' \subseteq Events /\ failures' \in Nat
  BY <1>1, <1>2, Zenon DEF TypeOK
<1>12. /\ head' \in committed \cup {NoFence}
       /\ before' \in Manifest \cup {NoFence}
       /\ head' = before' => head' = NoFence
       /\ head' # before' => Later(head', before')
  BY <1>1, Zenon DEF OnlyCommitted, TypeOK, StoreInv
<1> QED
  BY <1>1, <1>6, <1>7, <1>8, <1>9, <1>10, <1>11, <1>12, StoreFrame, Zenon

----------------------------------------------------------------------------
\* Every step preserves the invariant.
LEMMA NextInv == IInv /\ [Next]_vars => IInv'
<1> SUFFICES ASSUME IInv, [Next]_vars PROVE IInv'
  BY Zenon
<1>1. CASE Writer
  BY <1>1, WriterStep, Zenon
<1>2. ASSUME NEW x \in Exporters, Export(x) PROVE IInv'
  BY <1>2, ListStep, DropStep, CheckReadyStep, PublishStep, PutStep,
     PruneStep, MarkStep, SettleStep, Zenon DEF Export
<1>3. ASSUME NEW x \in Exporters, ExportFails(x) PROVE IInv'
  BY <1>3, PublishStep, PutStep, SettleStep, PassEndsStep, Zenon DEF ExportFails
<1>4. ASSUME NEW r \in Readers, Read(r) PROVE IInv'
  BY <1>4, ReadStep, Zenon
<1>5. CASE UNCHANGED vars
  <2>1. UNCHANGED <<writerVars, outboxVars, stream, storeVars, pass, load,
                    failures>>
    BY <1>5, Zenon DEF vars
  <2> USE <2>1 DEF writerVars, outboxVars, storeVars
  <2>2. \A m : ChunksOf(m)' = ChunksOf(m)
    BY Zenon DEF ChunksOf
  <2>3. TypeOK' /\ LogInv'
    BY Zenon DEF IInv, TypeOK, LogInv
  <2>4. OnlyCommitted' /\ ChunksFirst' /\ HeadLoadable'
    BY <2>2, Zenon DEF IInv, OnlyCommitted, ChunksFirst, HeadLoadable
  <2>5. DroppedIsPassed' /\ AckedIsExported'
    BY Zenon DEF IInv, DroppedIsPassed, AckedIsExported
  <2>6. \A x \in Exporters : PassInv(x)'
    BY <2>2, Zenon DEF IInv, PassInv
  <2>7. StoreInv'
    BY <2>2, Zenon DEF IInv, StoreInv, PassKept, Kept
  <2> QED
    BY <2>3, <2>4, <2>5, <2>6, <2>7, Zenon DEF IInv
<1> QED
  BY <1>1, <1>2, <1>3, <1>4, <1>5, Zenon DEF Next

\* The invariant holds in every reachable state.
THEOREM Invariance == Spec => []IInv
<1> QED
  BY InitInv, NextInv, PTL DEF Spec

\* Every reachable state is well typed.
THEOREM TypeCorrect == Spec => []TypeOK
<1>1. IInv => TypeOK
  BY Zenon DEF IInv
<1> QED
  BY <1>1, Invariance, PTL

\* However many exporters overlap, whatever fails and however the pointer
\* moves, a member is only ever sent committed publications.
THEOREM SentIsCommitted == Spec => []OnlyCommitted
<1>1. IInv => OnlyCommitted
  BY Zenon DEF IInv
<1> QED
  BY <1>1, Invariance, PTL

\* A manifest is in the stream only after all its chunks.
THEOREM ManifestsFollowChunks == Spec => []ChunksFirst
<1>1. IInv => ChunksFirst
  BY Zenon DEF IInv
<1> QED
  BY <1>1, Invariance, PTL

\* The bootstrap head, and the one it replaced, keep all their chunks.
THEOREM HeadsAreLoadable == Spec => []HeadLoadable
<1>1. IInv => HeadLoadable
  BY Zenon DEF IInv
<1> QED
  BY <1>1, Invariance, PTL

\* A superseded record's manifest is never the committed one again.
THEOREM DroppedIsNeverNeeded == Spec => []DroppedIsPassed
<1>1. IInv => DroppedIsPassed
  BY Zenon DEF IInv
<1> QED
  BY <1>1, Invariance, PTL

\* Acknowledged records were published, marked and put.
THEOREM AckedIsSent == Spec => []AckedIsExported
<1>1. IInv => AckedIsExported
  BY Zenon DEF IInv
<1> QED
  BY <1>1, Invariance, PTL

\* All of it at once: what the run checks with one exporter holds with any
\* number of them, for any contents, epochs and failures.
THEOREM ExportsAreSound == Spec => []ExportIsSound
<1>1. IInv => ExportIsSound
  BY Zenon DEF IInv, ExportIsSound
<1> QED
  BY <1>1, Invariance, PTL

\* The bootstrap head only moves to later fences.
THEOREM HeadsAdvance == Spec => HeadAdvances
<1>1. [Next]_vars => [head' = head \/ Later(head', head)]_vars
  BY Zenon DEF Next, Writer, TakeOver, StageManifest, CommitManifest, Export,
         ExportFails, Read, List, Take, Drop, CheckReady, Publish, Put, Prune,
         MarkExported, Acknowledge, ReportError, PublishFails, PutFails,
         PatchFails, PassEnds, ListKeys, ReadHead, ReadChunk, Verify,
         PutChunk, MoveHead, KeepHead, vars, storeVars
<1> QED
  BY <1>1, PTL DEF Spec, HeadAdvances
=============================================================================
