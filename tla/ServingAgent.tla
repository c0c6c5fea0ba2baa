---------------------------- MODULE ServingAgent ----------------------------
(***************************************************************************)
(* A regional member that serves a zone's publications                     *)
(* (internaldns/serving: agent.go, continuity.go, state.go).               *)
(*                                                                         *)
(* The member is in combined mode, with a serving snapshot that attaches   *)
(* one zone.  It is fed by the bootstrap store and by the stream, whose    *)
(* events come in any order and any number of times; both hold only        *)
(* committed manifests (PublicationExport).  Handlers and the periodic     *)
(* Step run under one lock; the model takes a step for each effect that    *)
(* outlives the process: a checkpoint save, an installation, an            *)
(* acknowledgement.  A crash can fall between any two of them.             *)
(*                                                                         *)
(* A save that fails may or may not have replaced the file.  An            *)
(* installation that fails either leaves the daemons as they were (a       *)
(* preserved transaction) or ends with them stopped.  The activation       *)
(* marker is folded into Restart: with it or without it, the daemons       *)
(* answer from the approved files afterwards.                              *)
(*                                                                         *)
(* Left out: resolver and node-authoritative members, probes of resolver   *)
(* paths, attachments that wait for a later publication than the recorded  *)
(* one, retired tombstones (retireTombstones only shrinks a verified       *)
(* withdrawal), several chunks per manifest.                               *)
(***************************************************************************)
EXTENDS Naturals, Sequences

CONSTANTS
    Contents,     \* compiled zone states
    Gone,         \* the content of a tombstone
    RecordsOf,    \* the eligible records of a content
    SeenOf,       \* the observation a content was compiled from
    Ordered,      \* TRUE: the writer never compiles from an older observation
    Nil, Gated, Empty,
    MaxLog,       \* bounds: publications;
    MaxFaults     \* crashes, and failed saves, installations and probes

ASSUME AgentAssumption ==
    /\ Gone \in Contents /\ RecordsOf[Gone] = {}
    /\ SeenOf \in [Contents -> Nat] /\ SeenOf[Gone] = 0
    /\ Ordered \in BOOLEAN
    /\ MaxLog \in Nat /\ MaxFaults \in Nat

VARIABLES
    log,        \* the committed manifests, in order
    todo,       \* events of the stream the member has not acknowledged
    boot,       \* the bootstrap cut being applied, Nil if none
    mem, disk,  \* the checkpoint in memory and in checkpoint.json
    served,     \* what the daemons answer from
    needs,      \* needsActivation
    installed,  \* installedPublications: the publication last installed
    at,         \* where the holder of the lock is
    job,        \* on whose behalf reconcile runs
    next,       \* the manifest being handled
    acks,       \* publications acknowledged as Verified, and whether the
                \* checkpoint held them then
    late,       \* history: a bootstrap manifest was recorded since a Step
    trust,      \* restoredAt, bootstrapComplete and the passing of time
    faults      \* failures and crashes so far, for the bound

vars == <<log, todo, boot, mem, disk, served, needs, installed, at, job,
          next, acks, late, trust, faults>>

----------------------------------------------------------------------------
NoFence == [epoch |-> 0, revision |-> 0]
Manifest == [epoch : Nat, revision : Nat, previous : Nat, content : Contents]

ASSUME MarksAssumption ==
    /\ {Nil, Gated, Empty} \intersect (Manifest \union {NoFence}) = {}
    /\ Nil # Gated /\ Nil # Empty /\ Gated # Empty

\* model.Compare
Later(a, b) == \/ a.epoch > b.epoch
               \/ a.epoch = b.epoch /\ a.revision > b.revision

IsZone(p) == p # NoFence /\ p.content # Gone
DataOf(p) == IF IsZone(p) THEN RecordsOf[p.content] ELSE {}

\* renderZone puts the fence into the SOA, so every zone file is different;
\* a zone without data is rendered as pending, whatever its fence.
Render(p) == IF IsZone(p) THEN p ELSE Empty

Checkpoint == [pub |-> NoFence, verified |-> FALSE, seen |-> 0, chunks |-> {},
               approved |-> Nil, rendered |-> Nil]

\* Fault: what is withdrawn is not compared.
RetainApproved(s) == s.approved # Nil

\* canRetainActive: nothing the approved configuration serves is withdrawn.
CanRetain(s) ==
    /\ s.approved # Nil
    /\ IsZone(s.approved) =>
         IsZone(s.pub) /\ DataOf(s.approved) \subseteq DataOf(s.pub)

\* stateStore.Save drops the chunks of superseded revisions.
Pruned(s) == [s EXCEPT !.chunks = {m \in s.chunks : ~ Later(s.pub, m)}]

Last(s) == s[Len(s)]
Committed == {log[i] : i \in DOMAIN log}

\* A new member whose first bootstrap has delivered the serving snapshot.
Init ==
    /\ log = <<>> /\ todo = {} /\ boot = Nil
    /\ mem = Checkpoint /\ disk = Checkpoint
    /\ served = Gated /\ needs = TRUE /\ installed = Nil
    /\ at = "idle" /\ job = "none" /\ next = Nil
    /\ acks = {} /\ late = FALSE
    /\ trust = [restored |-> FALSE, ready |-> TRUE, expired |-> FALSE,
                withdrawn |-> FALSE]
    /\ faults = 0

----------------------------------------------------------------------------
(* Effects shared by the steps *)

Idle == at' = "idle" /\ job' = "none" /\ next' = Nil

Fail == faults < MaxFaults /\ faults' = faults + 1

\* Save prunes the maps it shares with the state in memory.
Saves(s) == mem' = Pruned(s) /\ disk' = Pruned(s)
SaveFails(s) == Fail /\ mem' = Pruned(s) /\ disk' \in {disk, Pruned(s)}

\* Fault: needsActivation is forgotten.
GateAndForget(keep) ==
    /\ served' = IF keep THEN served ELSE Gated
    /\ needs' = needs

\* failClosed, unless keep
GateUnless(keep) ==
    /\ served' = IF keep THEN served ELSE Gated
    /\ needs' = (needs \/ ~ keep)

\* Fault: what is withdrawn is not compared.
RetainedUnchanged(s) ==
    s.approved # Nil /\ ~ needs /\ s.rendered = Render(s.approved)

\* The condition under which gateRejectedUpdate leaves the daemons alone
\* after an error that is not a failed installation.
Retained(s) == CanRetain(s) /\ ~ needs /\ s.rendered = Render(s.approved)

\* Fault: the files are compared, nothing is queried.
ProvenByIdentity == IsZone(mem.pub) => installed = mem.pub

\* VerifyPublication queries for the fence in the SOA.
Proven == IsZone(mem.pub) => installed = mem.pub /\ served = Render(mem.pub)

\* emitAck, for the recorded publication
Verified == [pub |-> mem.pub, durable |-> ~ Later(mem.pub, disk.pub)]

\* An event is acknowledged when Handle returns no error; the events of a
\* bootstrap cut are applied in order and the first error ends it.
Handled(kind, m) ==
    IF boot = Nil THEN todo' = todo \ {<<kind, m>>} /\ UNCHANGED boot
    ELSE /\ boot' = [boot EXCEPT !.left = IF kind = "chunk" THEN "manifest" ELSE "done"]
         /\ UNCHANGED todo
NotHandled == boot' = Nil /\ UNCHANGED todo

\* The stream is consumed only once a bootstrap has completed.
Delivered(kind, m) ==
    /\ at = "idle"
    /\ IF boot = Nil THEN trust.ready /\ m \in Committed
       ELSE boot.m = m /\ boot.left = kind

----------------------------------------------------------------------------
(* The control plane and the transport *)

\* The writer commits a manifest and the outbox exports it.
Commit ==
    \E c \in Contents, takeover \in BOOLEAN :
      LET l == IF log = <<>> THEN NoFence ELSE Last(log)
          m == IF takeover \/ l = NoFence
                 THEN [epoch |-> l.epoch + 1, revision |-> 1, previous |-> 0, content |-> c]
                 ELSE [epoch |-> l.epoch, revision |-> l.revision + 1,
                       previous |-> l.revision, content |-> c]
      IN /\ Len(log) < MaxLog
         /\ Ordered /\ c # Gone => \A p \in Committed : SeenOf[p.content] <= SeenOf[c]
         /\ log' = Append(log, m)
         /\ todo' = todo \union {<<"manifest", m>>}
                         \union (IF IsZone(m) THEN {<<"chunk", m>>} ELSE {})
         /\ UNCHANGED <<boot, mem, disk, served, needs, installed, at, job, next,
                        acks, late, trust, faults>>

\* loadBootstrap, after the store was read: chunks first, then manifests
BootstrapBegins ==
    \E m \in Committed \union {NoFence} :
      /\ at = "idle" /\ boot = Nil
      /\ boot' = [m |-> m, left |-> IF m = NoFence THEN "done"
                                    ELSE IF IsZone(m) THEN "chunk" ELSE "manifest"]
      /\ UNCHANGED <<log, todo, mem, disk, served, needs, installed, at, job, next,
                     acks, late, trust, faults>>

BootstrapEnds ==
    /\ at = "idle" /\ boot # Nil /\ boot.left = "done"
    /\ boot' = Nil
    /\ trust' = [trust EXCEPT !.ready = TRUE]
    /\ UNCHANGED <<log, todo, mem, disk, served, needs, installed, at, job, next,
                   acks, late, faults>>

\* The connection to the broker is lost while the cut is applied.
BootstrapFails ==
    /\ at = "idle" /\ boot # Nil
    /\ Fail /\ NotHandled
    /\ UNCHANGED <<log, mem, disk, served, needs, installed, at, job, next,
                   acks, late, trust>>

----------------------------------------------------------------------------
(* Handle *)

HandleChunk(m) ==
    LET kept == IF Later(mem.pub, m) THEN mem
                ELSE [mem EXCEPT !.chunks = mem.chunks \union {m}] IN
    /\ Delivered("chunk", m) /\ IsZone(m)
    /\ \/ Saves(kept) /\ Handled("chunk", m) /\ UNCHANGED faults
       \/ SaveFails(kept) /\ ~ Later(mem.pub, m) /\ NotHandled
    /\ UNCHANGED <<log, served, needs, installed, at, job, next, acks, late,
                   trust>>

\* finishEvent: renew the acknowledgement of a verified publication, then
\* require that what is recorded is what was installed.
FinishEvent(m) ==
    \/ /\ \/ boot # Nil
          \/ ~ mem.verified /\ (IsZone(mem.pub) => installed = mem.pub)
       /\ Handled("manifest", m)
       /\ UNCHANGED <<acks, served, needs>>
    \/ /\ boot = Nil /\ mem.verified /\ Proven
       /\ acks' = acks \union {Verified}
       /\ Handled("manifest", m)
       /\ UNCHANGED <<served, needs>>
    \/ /\ boot = Nil /\ mem.verified /\ ~ Proven
       /\ UNCHANGED <<todo, boot, acks, served, needs>>
    \/ /\ boot = Nil /\ ~ mem.verified /\ IsZone(mem.pub) /\ installed # mem.pub
       /\ GateUnless(FALSE)
       /\ UNCHANGED <<todo, boot, acks>>

\* A manifest older than the recorded one
IgnoreManifest(m) ==
    /\ Delivered("manifest", m)
    /\ Later(mem.pub, m)
    /\ FinishEvent(m)
    /\ UNCHANGED <<log, mem, disk, installed, at, job, next, late, trust,
                   faults>>

\* The recorded and verified manifest again
RepeatManifest(m) ==
    /\ Delivered("manifest", m)
    /\ m = mem.pub /\ mem.verified
    /\ \/ (boot # Nil \/ Proven) /\ FinishEvent(m)
       \/ /\ boot = Nil /\ ~ Proven
          /\ GateUnless(Retained(mem))
          /\ UNCHANGED <<todo, boot, acks>>
    /\ UNCHANGED <<log, mem, disk, installed, at, job, next, late, trust,
                   faults>>

Fresh(m) == ~ Later(mem.pub, m) /\ ~ (m = mem.pub /\ mem.verified)

\* Fault: a base equal to the recorded revision is too old.
AdmissibleAhead(m) ==
    /\ Later(m, mem.pub) /\ m.epoch = mem.pub.epoch => m.previous > mem.pub.revision
    /\ IsZone(m) => m \in mem.chunks /\ SeenOf[m.content] >= mem.seen

\* What handleManifest requires of a manifest it has not verified
Admissible(m) ==
    /\ Later(m, mem.pub) /\ m.epoch = mem.pub.epoch => m.previous >= mem.pub.revision
    /\ IsZone(m) => m \in mem.chunks /\ SeenOf[m.content] >= mem.seen

RefuseManifest(m) ==
    /\ Delivered("manifest", m) /\ Fresh(m) /\ ~ Admissible(m)
    /\ GateUnless(Retained(mem))
    /\ NotHandled
    /\ UNCHANGED <<log, mem, disk, installed, at, job, next, acks, late, trust,
                   faults>>

AcceptManifest(m) ==
    /\ Delivered("manifest", m) /\ Fresh(m) /\ Admissible(m)
    /\ next' = m
    /\ at' = IF IsZone(m) THEN "fences" ELSE "record"
    /\ UNCHANGED <<log, todo, boot, mem, disk, served, needs, installed, job,
                   acks, late, trust, faults>>

\* A failed save inside handleManifest
SaveRejected(s) ==
    /\ SaveFails(s)
    /\ GateUnless(Retained(s))
    /\ NotHandled /\ Idle

\* Fault: the high-water marks are not raised.
WithoutFences(s, m) == s

\* commitContributionFences and its save, before anything is materialised
WithFences(s, m) ==
    [s EXCEPT !.seen = IF SeenOf[m.content] > s.seen THEN SeenOf[m.content] ELSE s.seen]

SaveFences ==
    /\ at = "fences"
    /\ \/ /\ Saves(WithFences(mem, next)) /\ at' = "record"
          /\ UNCHANGED <<todo, boot, served, needs, job, next, faults>>
       \/ SaveRejected(WithFences(mem, next))
    /\ UNCHANGED <<log, installed, acks, late, trust>>

\* activatePublication up to its reconcile.  A bootstrap stops here and leaves
\* the installation to the next Step.
Record ==
    LET recorded == [mem EXCEPT !.pub = next, !.verified = FALSE] IN
    /\ at = "record"
    /\ \/ /\ Saves(recorded) /\ boot = Nil
          /\ at' = "plan" /\ job' = "first"
          /\ UNCHANGED <<todo, boot, served, needs, next, late, faults>>
       \/ /\ Saves(recorded) /\ boot # Nil
          /\ Handled("manifest", next) /\ Idle /\ late' = TRUE
          /\ UNCHANGED <<served, needs, faults>>
       \/ SaveRejected(recorded) /\ UNCHANGED late
    /\ UNCHANGED <<log, installed, acks, trust>>

----------------------------------------------------------------------------
(* reconcile, for a handler ("first", "second"), for retryPendingPublications
   ("retry") and for Step itself ("activate", "settle") *)

\* An error of reconcile gates when the desired state withdraws something the
\* approved configuration serves; for a handler and for a retry the caller
\* then applies gateRejectedUpdate as well.
ReconcileErrs(s) ==
    /\ GateUnless(CanRetain(s) /\ (job \in {"activate", "settle"} \/ Retained(s)))
    /\ UNCHANGED todo
    /\ Idle

Withdraw(s) == [s EXCEPT !.approved = Nil]

\* Compare the rendering with the installed one.  An approval that no longer
\* covers the desired state is dropped, durably, before anything else.
Plan ==
    LET install == Render(mem.pub) # mem.rendered \/ needs
        onwards == IF install THEN "install" ELSE "settle" IN
    /\ at = "plan"
    /\ \/ /\ CanRetain(mem) \/ (~ install /\ mem.approved = Nil)
          /\ at' = onwards
          /\ UNCHANGED <<mem, disk, todo, served, needs, job, next, faults>>
       \/ /\ ~ CanRetain(mem) /\ (install \/ mem.approved # Nil)
          /\ \/ /\ Saves(Withdraw(mem)) /\ at' = onwards
                /\ UNCHANGED <<todo, served, needs, job, next, faults>>
             \/ SaveFails(Withdraw(mem)) /\ ReconcileErrs(Withdraw(mem))
    /\ UNCHANGED <<log, boot, installed, acks, late, trust>>

\* FileTransaction.Apply: a failure leaves the daemons as they were, or is
\* uncertain and gates.
Install ==
    /\ at = "install"
    /\ \/ /\ served' = Render(mem.pub)
          /\ mem' = [mem EXCEPT !.rendered = Render(mem.pub)]
          /\ at' = "installed"
          /\ UNCHANGED <<needs, job, next, faults>>
       \/ /\ Fail /\ Idle
          /\ \/ GateUnless(CanRetain(mem))
             \/ GateUnless(FALSE)
          /\ UNCHANGED mem
    /\ UNCHANGED <<log, todo, boot, disk, installed, acks, late, trust>>

SaveInstalled ==
    /\ at = "installed"
    /\ \/ /\ Saves(mem) /\ needs' = FALSE /\ at' = "settle"
          /\ UNCHANGED <<todo, served, job, next, faults>>
       \/ SaveFails(mem) /\ ReconcileErrs(mem)
    /\ UNCHANGED <<log, boot, installed, acks, late, trust>>

\* Where a reconcile that returned no error leads
After(j) == CASE j = "first" -> "verify"
              [] j = "retry" -> "verify"
              [] j = "second" -> "ack"
              [] j = "activate" -> "beat"
              [] j = "settle" -> "idle"

Return == /\ at' = After(job)
          /\ job' = IF job = "settle" THEN "none" ELSE job
          /\ UNCHANGED <<next, todo>>

\* Query a publication that was verified before, then approve the
\* configuration once the publication it holds is verified.
Settle ==
    LET approved == [mem EXCEPT !.approved = mem.pub] IN
    /\ at = "settle"
    /\ installed' = mem.pub
    /\ \/ /\ mem.pub # NoFence /\ ~ mem.verified
          /\ Return
          /\ UNCHANGED <<mem, disk, served, needs, faults>>
       \/ /\ mem.verified /\ IsZone(mem.pub)
          /\ IF served = Render(mem.pub) THEN Fail ELSE UNCHANGED faults
          /\ GateUnless(FALSE) /\ Idle
          /\ UNCHANGED <<mem, disk, todo>>
       \/ /\ mem.verified \/ mem.pub = NoFence
          /\ IsZone(mem.pub) => served = Render(mem.pub)
          /\ \/ /\ Return
                /\ IF mem.approved = mem.pub THEN UNCHANGED <<mem, disk>> ELSE Saves(approved)
                /\ UNCHANGED <<served, needs, faults>>
             \/ /\ mem.approved # mem.pub
                /\ Fail /\ disk' \in {disk, Pruned(approved)}
                /\ UNCHANGED mem
                /\ ReconcileErrs(mem)
    /\ UNCHANGED <<log, boot, acks, late, trust>>

----------------------------------------------------------------------------
(* The rest of activatePublication and of retryPendingPublications *)

\* The first proof of a publication.  A handler gates when it fails, a retry
\* leaves that to gateRejectedUpdate.
Verify ==
    /\ at = "verify"
    /\ \/ Proven /\ at' = "verified"
          /\ UNCHANGED <<served, needs, job, next, faults>>
       \/ /\ IsZone(mem.pub)
          /\ IF Proven THEN Fail ELSE UNCHANGED faults
          /\ GateUnless(job = "retry" /\ Retained(mem))
          /\ Idle
    /\ UNCHANGED <<log, todo, boot, mem, disk, installed, acks, late, trust>>

SaveVerified ==
    LET verified == [mem EXCEPT !.verified = TRUE] IN
    /\ at = "verified"
    /\ \/ /\ Saves(verified)
          /\ at' = IF job = "first" THEN "plan" ELSE "pending"
          /\ job' = IF job = "first" THEN "second" ELSE "none"
          /\ UNCHANGED <<served, needs, next, faults>>
       \/ /\ SaveFails(verified)
          /\ GateUnless(Retained(verified)) /\ Idle
    /\ UNCHANGED <<log, todo, boot, installed, acks, late, trust>>

\* emitVerifiedPublicationAck; the settled reconcile has just installed pub.
Acknowledge ==
    /\ at = "ack"
    /\ acks' = acks \union {Verified}
    /\ todo' = todo \ {<<"manifest", next>>}
    /\ Idle
    /\ UNCHANGED <<log, boot, mem, disk, served, needs, installed, late, trust,
                   faults>>

----------------------------------------------------------------------------
(* Step *)

\* Fault: the limit is enforced by one Step only.
ExpiredOnce == /\ trust.restored /\ ~ trust.ready /\ trust.expired
               /\ ~ trust.withdrawn

\* restoredCheckpointExpired
Expired == trust.restored /\ ~ trust.ready /\ trust.expired

\* withdrawRestoredCheckpoint gates once.
StepExpired ==
    /\ at = "idle" /\ Expired
    /\ GateUnless(trust.withdrawn)
    /\ trust' = [trust EXCEPT !.withdrawn = TRUE]
    /\ UNCHANGED <<log, todo, boot, mem, disk, installed, at, job, next, acks,
                   late, faults>>

StepBegins ==
    /\ at = "idle" /\ ~ Expired
    /\ late' = FALSE
    /\ IF mem.pub # NoFence /\ ~ mem.verified
         THEN at' = "plan" /\ job' = "retry"
         ELSE at' = "pending" /\ UNCHANGED job
    /\ UNCHANGED <<log, todo, boot, mem, disk, served, needs, installed, next,
                   acks, trust, faults>>

StepActivates ==
    /\ at = "pending"
    /\ IF needs \/ installed \in {Nil, NoFence}
         THEN at' = "plan" /\ job' = "activate"
         ELSE at' = "beat" /\ UNCHANGED job
    /\ UNCHANGED <<log, todo, boot, mem, disk, served, needs, installed, next,
                   acks, late, trust, faults>>

\* heartbeatPublications: an error ends the Step, nothing is gated.
Heartbeat ==
    /\ at = "beat"
    /\ \/ /\ mem.verified => Proven
          /\ acks' = IF mem.verified THEN acks \union {Verified} ELSE acks
          /\ at' = "plan" /\ job' = "settle"
          /\ UNCHANGED <<next, faults>>
       \/ /\ mem.verified /\ IsZone(mem.pub)
          /\ IF Proven THEN Fail ELSE UNCHANGED faults
          /\ Idle
          /\ UNCHANGED acks
    /\ UNCHANGED <<log, todo, boot, mem, disk, served, needs, installed, late,
                   trust>>

----------------------------------------------------------------------------
(* Time, crashes and restarts *)

\* Fifteen minutes pass after a configuration was restored, without a bootstrap.
LimitPasses ==
    /\ at # "down" /\ trust.restored /\ ~ trust.ready /\ ~ trust.expired
    /\ trust' = [trust EXCEPT !.expired = TRUE]
    /\ UNCHANGED <<log, todo, boot, mem, disk, served, needs, installed, at, job,
                   next, acks, late, faults>>

\* The daemons outlive the agent.
Crash ==
    /\ at # "down" /\ Fail
    /\ served' \in IF at = "install" THEN {served, Render(mem.pub), Gated} ELSE {served}
    /\ mem' = disk
    /\ at' = "down" /\ job' = "none" /\ next' = Nil /\ boot' = Nil
    /\ needs' = FALSE /\ installed' = Nil /\ late' = FALSE
    /\ trust' = [v \in DOMAIN trust |-> FALSE]
    /\ UNCHANGED <<log, todo, disk, acks>>

\* NewAgent and restoreActive
Restart ==
    LET restored == [mem EXCEPT !.rendered = Render(mem.approved)] IN
    /\ at = "down" /\ at' = "idle"
    /\ \/ /\ ~ CanRetain(mem)
          /\ GateUnless(FALSE)
          /\ UNCHANGED <<mem, disk, trust, faults>>
       \/ /\ CanRetain(mem)
          /\ served' = Render(mem.approved) /\ Saves(restored)
          /\ needs' = FALSE /\ trust' = [trust EXCEPT !.restored = TRUE]
          /\ UNCHANGED faults
       \/ /\ CanRetain(mem)
          /\ served' = Render(mem.approved) /\ SaveFails(restored)
          /\ needs' \in BOOLEAN
          /\ trust' = [trust EXCEPT !.restored = ~ needs']
       \/ /\ CanRetain(mem) /\ Fail
          /\ served' \in {served, Gated}
          /\ needs' = TRUE
          /\ UNCHANGED <<mem, disk, trust>>
    /\ UNCHANGED <<log, todo, boot, installed, job, next, acks, late>>

----------------------------------------------------------------------------
HandleManifest(m) ==
    IgnoreManifest(m) \/ RepeatManifest(m) \/ RefuseManifest(m) \/ AcceptManifest(m)

\* The steps taken while the lock is held
Continue == \/ SaveFences \/ Record \/ Plan \/ Install \/ SaveInstalled \/ Settle
            \/ Verify \/ SaveVerified \/ Acknowledge \/ StepActivates \/ Heartbeat

Step == StepExpired \/ StepBegins

Next ==
    \/ Commit
    \/ BootstrapBegins \/ BootstrapEnds \/ BootstrapFails
    \/ \E m \in Committed : HandleChunk(m) \/ HandleManifest(m)
    \/ Continue \/ Step
    \/ LimitPasses \/ Crash \/ Restart

Spec == Init /\ [][Next]_vars

\* An event of the last publication that the member has not acknowledged is
\* redelivered.
Redeliver(kind) ==
    /\ log # <<>> /\ <<kind, Last(log)>> \in todo
    /\ IF kind = "chunk" THEN HandleChunk(Last(log)) ELSE HandleManifest(Last(log))

\* One event of the bootstrap cut is handled.
ApplyCut == boot # Nil /\ \/ BootstrapEnds
                          \/ \E m \in Committed : HandleChunk(m) \/ HandleManifest(m)

(***************************************************************************)
(* The lock is a fair mutex, so the ticker's Step, the transport and the   *)
(* holder all make progress.  The broker redelivers each event until it is *)
(* acknowledged, and RunTransport is called again until a bootstrap        *)
(* completes.  Failures and crashes are bounded, nothing else is assumed.  *)
(***************************************************************************)
Fairness ==
    /\ WF_vars(Continue) /\ WF_vars(Restart) /\ SF_vars(Step)
    /\ SF_vars(BootstrapBegins /\ ~ trust.ready) /\ SF_vars(ApplyCut)
    /\ SF_vars(Redeliver("chunk")) /\ SF_vars(Redeliver("manifest"))

FairSpec == Spec /\ Fairness

----------------------------------------------------------------------------
Publications == Committed \union {NoFence}

\* Every variable has its type; what is recorded, approved or served is a
\* committed manifest or nothing.
TypeOK ==
    /\ log \in Seq(Manifest) /\ Len(log) <= MaxLog
    /\ todo \subseteq {"chunk", "manifest"} \X Committed
    /\ boot # Nil => boot.m \in Publications /\ boot.left \in {"chunk", "manifest", "done"}
    /\ \A s \in {mem, disk} :
         /\ s.pub \in Publications /\ s.verified \in BOOLEAN /\ s.seen \in Nat
         /\ s.chunks \subseteq Committed
         /\ s.approved \in Publications \union {Nil}
         /\ s.rendered \in Committed \union {Empty, Nil}
    /\ served \in Committed \union {Empty, Gated}
    /\ needs \in BOOLEAN /\ late \in BOOLEAN
    /\ installed \in Publications \union {Nil}
    /\ at \in {"idle", "down", "fences", "record", "plan", "install", "installed",
               "settle", "verify", "verified", "ack", "pending", "beat"}
    /\ job \in {"none", "first", "second", "retry", "activate", "settle"}
    /\ next \in Committed \union {Nil}
    /\ acks \subseteq [pub : Committed, durable : BOOLEAN]
    /\ trust \in [restored : BOOLEAN, ready : BOOLEAN, expired : BOOLEAN, withdrawn : BOOLEAN]
    /\ faults \in 0 .. MaxFaults

\* The daemons answer with something that publication p, later than theirs,
\* has withdrawn.
AnswersWithdrawn(p) ==
    /\ served \notin {Empty, Gated}
    /\ Later(p, served)
    /\ ~ (DataOf(served) \subseteq DataOf(p))

\* Once the member has acknowledged a publication that its checkpoint holds,
\* nothing the publication withdrew is answered again: not after a failed save
\* or installation, not while the agent is down and not from the checkpoint it
\* restarts with (reconcile, restoreActive and gateRejectedUpdate together).
NoResurrection == \A a \in acks : a.durable => ~ AnswersWithdrawn(a.pub)

\* When the desired state withdraws something the approved configuration
\* serves, no failure on the way leaves the daemons answering it: whenever the
\* lock is free the member serves the recorded publication, serves less, or is
\* gated (the comment on reconcile).  Only a bootstrap may record a
\* publication and leave it to the next Step.
WithdrawalGates ==
    at = "idle" /\ ~ late /\ ~ CanRetain(mem) => ~ AnswersWithdrawn(mem.pub)

\* The same for everything the daemons answer, approved or not: a withdrawal
\* that cannot be applied gates serving (docs/private-dns/deployment.md).
WithdrawnIsNotServed ==
    at = "idle" /\ ~ late => ~ AnswersWithdrawn(mem.pub)

\* A member acknowledges a publication as Verified only while its daemons
\* answer from it; for a withdrawal, while they have no data of the zone, or
\* none that it withdrew: a later publication that was installed and whose
\* record a crash took may still be answered, as a withdrawal is not queried
\* for (emitVerifiedPublicationAck, heartbeatPublications, verifyPublication).
AckIsProven ==
    [][\A a \in acks' \ acks :
         \/ served' = Render(a.pub)
         \/ /\ ~ IsZone(a.pub)
            /\ served' = Gated \/ (served' # Empty /\ Later(served', a.pub))]_vars

\* The recorded publication never goes back, in memory or on disk, over any
\* redelivery, failure or restart: memory is never behind the disk and the
\* disk never returns to an earlier fence (handleManifest, Load, Save).  Nor
\* is a plan recorded that was compiled from an observation older than one the
\* member has durably acknowledged, even with a later fence: the high-water
\* marks survive the crashes between accepting and materialising a plan
\* (validateContributionFences and commitContributionFences).
FencesAdvance ==
    [][/\ ~ Later(disk.pub, disk'.pub) /\ ~ Later(disk'.pub, mem'.pub)
       /\ IsZone(mem'.pub) /\ mem'.pub # mem.pub /\ mem'.pub # disk.pub =>
            \A a \in acks : a.durable => SeenOf[a.pub.content] <= SeenOf[mem'.pub.content]]_vars

\* A configuration restored at restart stays gated once its fifteen minutes
\* have passed, whatever part of a bootstrap arrives, until a bootstrap
\* completes (withdrawRestoredCheckpoint).
RestoredExpires == trust.withdrawn /\ ~ trust.ready => served = Gated

\* Once the writer is quiet the member ends up serving the last publication
\* and has acknowledged it (handleManifest, Step, retryPendingPublications).
EventuallyServed ==
    <>[](log # <<>> => served = Render(Last(log)) /\ (\E a \in acks : a.pub = Last(log)))
=====
