------------------------ MODULE PublicationOwnership ------------------------
(***************************************************************************)
(* How the control plane publishes one private zone: the lease on the      *)
(* DNSPublicationOwnership record, and compileZone's reserve, stage and    *)
(* commit steps (internal/internaldns/controlplane).                       *)
(*                                                                         *)
(* Every write of the record is a patch with the optimistic lock, so a     *)
(* write succeeds exactly when nobody wrote the record since the writer    *)
(* read it.  The resourceVersion is only ever compared for equality, and   *)
(* `fresh` records the outcome of that comparison: the workers whose copy  *)
(* still carries the current version.  Every write empties it but for the  *)
(* writer.  Nothing in the code deletes the record.                        *)
(*                                                                         *)
(* Several workers can share an identity: with per-zone reconcile a        *)
(* process's project pass holds and renews the lease while the zone's key  *)
(* compiles.  Time is abstract: a lease ages and lapses at any moment,     *)
(* which also covers clocks that disagree.                                 *)
(***************************************************************************)
EXTENDS Integers, FiniteSets

CONSTANTS
    Workers,        \* reconcile workers of every control-plane process
    Compilers,      \* the workers that compile; the others only hold the lease
    Identities,     \* HolderIdentity of each process
    IdentityOf,     \* the process a worker belongs to
    Contents,       \* compiled zone states (their stateHash)
    Tombstone,      \* the state of a zone that is being deleted
    NoOne,          \* holder of a record that does not exist yet
    NoHash,         \* LastContentHash before the first commit
    MaxTicks,       \* bound: times a lease ages or lapses under its holder
    MaxSkip,        \* bound: how far the clock may push the epoch ahead
    MaxStops,       \* bound: process stops, crashes and failed passes
    MaxChanges      \* bound: changes of the zone's inputs

ASSUME ConstantsAssumption ==
    /\ IdentityOf \in [Workers -> Identities]
    /\ NoOne \notin Identities
    /\ NoHash \notin Contents
    /\ Tombstone \in Contents
    /\ Compilers \subseteq Workers
    /\ MaxTicks \in Nat
    /\ MaxSkip \in Nat \ {0}
    /\ MaxStops \in Nat
    /\ MaxChanges \in Nat

VARIABLES
    own,        \* the DNSPublicationOwnership record
    lease,      \* what is left of its LeaseUntil
    manifests,  \* the DNSPublicationManifest objects
    pass,       \* what each worker's pass holds in its local variables
    fresh,      \* workers whose copy has the current resourceVersion
    desired,    \* the zone's inputs
    stopped,    \* processes that are stopping or gone
    ticks, stops, changes

record == <<own, lease, fresh>>
world == <<desired, stopped, ticks, stops, changes>>
vars == <<own, lease, manifests, pass, fresh, desired, stopped, ticks, stops,
          changes>>

-----------------------------------------------------------------------------
(* A publication is named after its epoch and revision (artifactName).     *)

Fence == [epoch : Nat, revision : Nat]
NoFence == [epoch |-> 0, revision |-> 0]

Owner == [holder : Identities \cup {NoOne}, epoch : Nat, next : Nat,
          active : Fence, hash : Contents \cup {NoHash}]
Manifest == [epoch : Nat, revision : Nat, previous : Nat, content : Contents]

NoOwner == [holder |-> NoOne, epoch |-> 0, next |-> 0, active |-> NoFence,
            hash |-> NoHash]

\* A pass: where it is, its copy of the record, the state it compiled and the
\* previousRevision it computed.
Working == {"held", "compiled", "reserved", "staged"}
Pass == [at : Working \cup {"idle"}, copy : Owner, want : Contents, prev : Nat]
NoPass == [at |-> "idle", copy |-> NoOwner, want |-> Tombstone, prev |-> 0]

\* model.Compare > 0
Later(a, b) == \/ a.epoch > b.epoch
               \/ a.epoch = b.epoch /\ a.revision > b.revision

FenceOf(m) == [epoch |-> m.epoch, revision |-> m.revision]

Me(w) == IdentityOf[w]

\* Fault: a base taken from an earlier epoch.
ActiveRevisionOfAnyEpoch(o) ==
    IF o.active = NoFence THEN 0 ELSE o.active.revision

\* previousRevision: the active revision, when this epoch published it.
ActiveRevision(o) ==
    IF o.active = NoFence \/ o.active.epoch < o.epoch THEN 0
    ELSE o.active.revision

Revision(o) == IF o.next > 0 THEN o.next ELSE 1

\* A pass starts with the record it read, and its variables end with it.
Begin(w, o) == pass' = [pass EXCEPT ![w] = [NoPass EXCEPT !.at = "held", !.copy = o]]
End(w) == pass' = [pass EXCEPT ![w] = NoPass]

\* patchLease: w's write of o succeeds and extends the lease.
Write(w, o) ==
    /\ own' = o
    /\ lease' = "full"
    /\ fresh' = {w}

\* A conflicting patch ends the pass with an error; the requeue starts over.
Conflict(w) ==
    /\ w \notin fresh
    /\ End(w)
    /\ UNCHANGED <<record, manifests, world>>

-----------------------------------------------------------------------------
Init ==
    /\ own = NoOwner
    /\ lease = "lapsed"
    /\ manifests = {}
    /\ pass = [w \in Workers |-> NoPass]
    /\ fresh = {}
    /\ desired \in Contents
    /\ stopped = {}
    /\ ticks = 0
    /\ stops = 0
    /\ changes = 0

(* acquireOwnership.  The read and the conditional write are one step: when *)
(* somebody writes in between, the write fails and the pass ends.           *)

Acquiring(w) == pass[w].at = "idle" /\ Me(w) \notin stopped

\* NotFound: create the record at revision 1 and come back for it.  A second
\* creator gets AlreadyExists and does the same.
CreateOwnership(w) ==
    /\ Acquiring(w)
    /\ own.holder = NoOne
    /\ \E e \in 1..MaxSkip :
          own' = [holder |-> Me(w), epoch |-> e, next |-> 1,
                  active |-> NoFence, hash |-> NoHash]
    /\ lease' = "full"
    /\ fresh' = {}
    /\ UNCHANGED <<manifests, pass, world>>

\* Another holder's lease has lapsed: take the record over in a later epoch.
TakeOver(w) ==
    /\ Acquiring(w)
    /\ own.holder \notin {NoOne, Me(w)}
    /\ lease = "lapsed"
    /\ \E e \in own.epoch + 1 .. own.epoch + MaxSkip :
          LET o == [own EXCEPT !.holder = Me(w), !.epoch = e]
          IN  Write(w, o) /\ Begin(w, o)
    /\ UNCHANGED <<manifests, world>>

\* The record is already ours.
Hold(w) ==
    /\ Acquiring(w)
    /\ own.holder = Me(w)
    /\ lease = "full"
    /\ Begin(w, own)
    /\ fresh' = fresh \cup {w}
    /\ UNCHANGED <<own, lease, manifests, world>>

\* holdOwnership renews it once a third of the lease has elapsed, and also
\* when it has lapsed and nobody has taken it.
Renew(w) ==
    /\ Acquiring(w)
    /\ own.holder = Me(w)
    /\ lease # "full"
    /\ Begin(w, own)
    /\ Write(w, own)
    /\ UNCHANGED <<manifests, world>>

\* The project pass leaves the compilation to the zone's key.
Queue(w) ==
    /\ pass[w].at = "held"
    /\ w \notin Compilers
    /\ End(w)
    /\ UNCHANGED <<record, manifests, world>>

(* compileZone *)

\* Compile the inputs and compare with what this epoch already published.
Compile(w) ==
    /\ pass[w].at = "held"
    /\ w \in Compilers
    /\ LET revision == ActiveRevision(pass[w].copy) IN
       IF revision > 0 /\ pass[w].copy.hash = desired
       THEN End(w)
       ELSE pass' = [pass EXCEPT ![w] = [@ EXCEPT
                      !.at = "compiled", !.want = desired, !.prev = revision]]
    /\ UNCHANGED <<record, manifests, world>>

\* Reserve the identity (epoch, revision) before staging anything under it.
Reserve(w) ==
    /\ pass[w].at = "compiled"
    /\ Me(w) \notin stopped
    /\ \/ /\ w \in fresh
          /\ LET o == [pass[w].copy EXCEPT !.next = Revision(pass[w].copy) + 1] IN
             /\ Write(w, o)
             /\ pass' = [pass EXCEPT ![w] = [@ EXCEPT !.at = "reserved", !.copy = o]]
          /\ UNCHANGED <<manifests, world>>
       \/ Conflict(w)

\* A stopping process publishes nothing more.
GiveUp(w) ==
    /\ pass[w].at = "compiled"
    /\ Me(w) \in stopped
    /\ End(w)
    /\ UNCHANGED <<record, manifests, world>>

Staging(w) == [epoch |-> pass[w].copy.epoch, revision |-> pass[w].copy.next - 1,
               previous |-> pass[w].prev, content |-> pass[w].want]

\* persistPublication, down to createImmutable: an object of that name must
\* have the same content.
Persist(w) ==
    /\ pass[w].at = "reserved"
    /\ IF \E m \in manifests : FenceOf(m) = FenceOf(Staging(w)) /\ m # Staging(w)
       THEN End(w) /\ UNCHANGED manifests
       ELSE /\ pass' = [pass EXCEPT ![w] = [@ EXCEPT !.at = "staged"]]
            /\ manifests' = manifests \cup {Staging(w)}
    /\ UNCHANGED <<record, world>>

\* Fault: a commit without the optimistic lock.
CommitUnlocked(w) ==
    /\ pass[w].at = "staged"
    /\ Write(w, [pass[w].copy EXCEPT !.hash = pass[w].want,
                                     !.active = FenceOf(Staging(w))])
    /\ End(w)
    /\ UNCHANGED <<manifests, world>>

\* The commit pointer moves to the staged manifest.
Commit(w) ==
    /\ pass[w].at = "staged"
    /\ \/ /\ w \in fresh
          /\ Write(w, [pass[w].copy EXCEPT !.hash = pass[w].want,
                                           !.active = FenceOf(Staging(w))])
          /\ End(w)
          /\ UNCHANGED <<manifests, world>>
       \/ Conflict(w)

(* The world around it *)

LeaseAges ==
    /\ lease = "full"
    /\ ticks < MaxTicks
    /\ lease' = "aged"
    /\ ticks' = ticks + 1
    /\ UNCHANGED <<own, fresh, manifests, pass, desired, stopped, stops, changes>>

\* Only the lapses under a running holder need a bound.
LeaseExpires ==
    /\ lease # "lapsed"
    /\ IF own.holder \in stopped THEN UNCHANGED ticks
       ELSE ticks < MaxTicks /\ ticks' = ticks + 1
    /\ lease' = "lapsed"
    /\ UNCHANGED <<own, fresh, manifests, pass, desired, stopped, stops, changes>>

\* Records change until the zone is deleted, which is final.
ChangeInputs ==
    /\ changes < MaxChanges
    /\ desired # Tombstone
    /\ desired' \in Contents \ {desired}
    /\ changes' = changes + 1
    /\ UNCHANGED <<record, manifests, pass, stopped, ticks, stops>>

MayStop(i) == /\ i \notin stopped
              /\ stops < MaxStops
              /\ Identities \ (stopped \cup {i}) # {}

\* Shutdown begins; passes past their check still run.
Stop(i) ==
    /\ MayStop(i)
    /\ stopped' = stopped \cup {i}
    /\ stops' = stops + 1
    /\ UNCHANGED <<record, manifests, pass, desired, ticks, changes>>

\* A call of the pass fails, or takes effect with its answer lost: the pass
\* ends where it is and the requeue starts over.
Fail(w) ==
    /\ pass[w].at # "idle"
    /\ stops < MaxStops
    /\ stops' = stops + 1
    /\ End(w)
    /\ UNCHANGED <<record, manifests, desired, stopped, ticks, changes>>

\* ReleaseOwnership: end our lease so that the next process need not wait.
ReleaseOwnership(i) ==
    /\ i \in stopped
    /\ own.holder = i
    /\ lease # "lapsed"
    /\ lease' = "lapsed"
    /\ fresh' = {}
    /\ UNCHANGED <<own, manifests, pass, world>>

\* What the process was doing is lost.
Lost(i) == pass' = [w \in Workers |-> IF Me(w) = i THEN NoPass ELSE pass[w]]

Crash(i) ==
    /\ MayStop(i)
    /\ stopped' = stopped \cup {i}
    /\ stops' = stops + 1
    /\ Lost(i)
    /\ UNCHANGED <<record, manifests, desired, ticks, changes>>

Restart(i) ==
    /\ i \in stopped
    /\ stopped' = stopped \ {i}
    /\ Lost(i)
    /\ UNCHANGED <<record, manifests, desired, ticks, stops, changes>>

Work(w) == \/ CreateOwnership(w) \/ TakeOver(w) \/ Hold(w) \/ Renew(w)
           \/ Queue(w) \/ Compile(w) \/ Reserve(w) \/ GiveUp(w) \/ Persist(w) \/ Commit(w)

Next ==
    \/ \E w \in Workers : Work(w) \/ Fail(w)
    \/ LeaseAges \/ LeaseExpires
    \/ ChangeInputs
    \/ \E i \in Identities : Stop(i) \/ ReleaseOwnership(i) \/ Crash(i) \/ Restart(i)

Spec == Init /\ [][Next]_vars

\* Passes are requeued within half a lease and a running process finishes
\* them; time passes.  Nothing makes a stopped process come back.
Fairness ==
    /\ \A w \in Workers : WF_vars(Me(w) \notin stopped /\ Work(w))
    /\ WF_vars(LeaseExpires)

FairSpec == Spec /\ Fairness

-----------------------------------------------------------------------------
\* Every variable has its type; epochs and revisions never leave Nat.
TypeOK ==
    /\ own \in Owner
    /\ lease \in {"full", "aged", "lapsed"}
    /\ manifests \subseteq Manifest
    /\ pass \in [Workers -> Pass]
    /\ fresh \subseteq Workers
    /\ desired \in Contents
    /\ stopped \subseteq Identities
    /\ ticks \in Nat
    /\ stops \in Nat
    /\ changes \in Nat

Reserved == {w \in Workers : pass[w].at = "reserved"}
Staged == {w \in Workers : pass[w].at = "staged"}

\* "A retry can never reuse (epoch, revision) with different generated bytes":
\* the name a worker reserved is in nobody else's hands and names no object
\* yet, so createImmutable never meets a conflicting one, through crashes,
\* takeovers and workers that share an identity.
NoIdentityReuse ==
    /\ \A w \in Reserved, m \in manifests : FenceOf(m) # FenceOf(Staging(w))
    /\ \A v, w \in Reserved \cup Staged :
          v # w => FenceOf(Staging(v)) # FenceOf(Staging(w))

\* The commit pointer names a manifest that was staged in full, whose content
\* is the one LastContentHash claims, and no epoch later than the record's
\* (activeRevision's "does not match ownership fence" never happens).
ActiveIsStaged ==
    own.active # NoFence =>
        /\ \E m \in manifests : FenceOf(m) = own.active /\ m.content = own.hash
        /\ own.active.epoch <= own.epoch

\* A commit is made in the current epoch, moves the pointer strictly forward,
\* and its manifest is based on exactly the revision that was active before
\* it in that epoch: a deposed or delayed writer never commits, and agents
\* that compare PreviousRevision with what they applied never see a gap that
\* hides a commit.
CommitAdvances ==
    [][own'.active # own.active =>
        /\ own'.epoch = own.epoch
        /\ own'.active.epoch = own.epoch
        /\ Later(own'.active, own.active)
        /\ \E m \in manifests :
              /\ FenceOf(m) = own'.active
              /\ m.previous = ActiveRevision(own)]_vars

\* Once the inputs and the holder settle, the zone's state is committed in the
\* holder's own epoch, even when an earlier holder had already committed the
\* same content: the earlier epoch's outboxes can no longer be exported.
EventuallyPublished ==
    <>[](own.active.epoch = own.epoch /\ own.hash = desired)
-----------------------------------------------------------------------------
(* What exporters and agents may rely on. *)

Log == INSTANCE PublicationLog WITH epoch <- own.epoch, active <- own.active

\* Leases, reservations, crashes and lost answers are invisible outside: what
\* compileZone does to the manifests and to the commit pointer is a behaviour
\* of PublicationLog.
ImplementsLog == Log!LogSpec

-----------------------------------------------------------------------------
(* The inductive invariant behind the three safety properties.             *)

At(w, places) == pass[w].at \in places

\* Before the record exists nothing has been read from it or staged.
NothingBeforeRecord ==
    own.holder = NoOne =>
        /\ own = NoOwner
        /\ manifests = {}
        /\ \A w \in Workers : At(w, {"idle"})

\* What the optimistic lock compares: a fresh copy is the record, and no copy
\* is ahead of it.
CopiesAreReads ==
    \A w \in Workers : At(w, Working) =>
        /\ w \in fresh => pass[w].copy = own
        /\ pass[w].copy.next <= own.next
        /\ pass[w].copy.epoch <= own.epoch

\* Revisions are handed out once, whatever the epoch.
RevisionsAreUnique ==
    /\ \A m \in manifests : m.revision < own.next
    /\ \A w \in Workers : At(w, {"reserved", "staged"}) => pass[w].copy.next >= 2
    /\ \A v, w \in Workers :
          At(v, {"reserved", "staged"}) /\ At(w, {"reserved", "staged"}) /\ v # w
             => pass[v].copy.next # pass[w].copy.next
    /\ \A w \in Workers, m \in manifests :
          At(w, {"reserved"}) => m.revision # pass[w].copy.next - 1

\* What a pass carries from its compilation to its commit.
PassIsConsistent ==
    \A w \in Workers :
        /\ At(w, {"compiled", "reserved", "staged"}) =>
              pass[w].prev = ActiveRevision(pass[w].copy)
        /\ At(w, {"reserved", "staged"}) =>
              pass[w].copy.active.revision < pass[w].copy.next - 1
        /\ At(w, {"staged"}) => Staging(w) \in manifests

\* The commit pointer is behind the next revision and names a real manifest.
PointerIsBehind ==
    own.active # NoFence =>
        /\ own.active.revision >= 1
        /\ own.active.revision < own.next
        /\ own.active.epoch <= own.epoch
        /\ \E m \in manifests : FenceOf(m) = own.active /\ m.content = own.hash

\* The safety properties follow from this conjunction, and every action of
\* acquireOwnership, compileZone and ReleaseOwnership preserves it.
IInv ==
    /\ TypeOK
    /\ NothingBeforeRecord
    /\ CopiesAreReads
    /\ RevisionsAreUnique
    /\ PassIsConsistent
    /\ PointerIsBehind
=============================================================================
