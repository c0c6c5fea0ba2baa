---------------------------- MODULE ShardServing ----------------------------
(***************************************************************************)
(* One serving shard: the planner that merges the resolver bindings of     *)
(* every project into one snapshot (internal/internaldns/platform/         *)
(* planner.go, capacity.go), the members that install committed snapshots, *)
(* and the sink that turns their acknowledgements into the status of the   *)
(* bindings (acks.go).                                                     *)
(*                                                                         *)
(* A view is what a snapshot says of a binding; its size is one unit, one  *)
(* for each zone, and one more where it is the first to require the zone.  *)
(* Reads go to the API server, so a planner plans what is there; it may    *)
(* stop for any time before it writes.  Time shows as leases that run out  *)
(* and acknowledgements that lapse.                                        *)
(***************************************************************************)
EXTENDS Naturals, FiniteSets, SequencesExt

CONSTANTS Planners,
          Order,       \* the bindings, sorted by UID
          ShardZones,  \* zones that bindings attach
          Legacy,      \* bindings whose configuration names no apex for its zones
          Listed,      \* members named in the configuration
          Pattern,     \* members that a pattern admits
          Tier,        \* member -> "node" or "regional"
          MaxBindings, \* bindings of a snapshot
          MaxBytes,    \* size of a snapshot
          MaxEpoch,    \* takeovers
          MaxRevision, \* snapshots
          MaxEdits,    \* changes of bindings and publications
          None

VARIABLES ssBinding, \* binding -> its spec
          ssZone,    \* zone -> revision of its active publication here, or 0
          ssOwner,   \* the shard's ownership record, with the committed snapshot
          ssPlan,    \* planner -> the pass it is in
          ssInst,    \* member -> the snapshot it has installed
          ssAck,     \* acknowledgements that were sent: each arrives any number of times
          ssRow,     \* binding, member -> the acknowledgement on record
          ssStatus,  \* binding -> phase, FullyReplicated and CapacityAvailable
          ssHeard,   \* members that acknowledged a binding and have not retired
          ssEdits

ssVars == <<ssBinding, ssZone, ssOwner, ssPlan, ssInst, ssAck, ssRow, ssStatus, ssHeard, ssEdits>>

ShardBindings == Range(Order)
Members == Listed \cup Pattern
NoSnap == [epoch |-> 0, rev |-> 0, views |-> <<>>]
NoRow == [snap |-> <<0, 0>>, rev |-> 0, valid |-> "none"]
NoPass == [at |-> "idle", current |-> FALSE, views |-> <<>>]
SnapId(s) == <<s.epoch, s.rev>>

ShardInit ==
    /\ ssBinding = [b \in ShardBindings |-> [state |-> "absent", rev |-> 0]]
    /\ ssZone = [z \in ShardZones |-> 0]
    /\ ssOwner = [holder |-> None, epoch |-> 0, next |-> 1, live |-> FALSE,
                  known |-> FALSE, snap |-> NoSnap]
    /\ ssPlan = [p \in Planners |-> NoPass]
    /\ ssInst = [m \in Members |-> NoSnap]
    /\ ssAck = {}
    /\ ssRow = [b \in ShardBindings |-> [m \in Members |-> NoRow]]
    /\ ssStatus = [b \in ShardBindings |-> [phase |-> "Pending", full |-> FALSE, room |-> TRUE]]
    /\ ssHeard = {}
    /\ ssEdits = 0

-----------------------------------------------------------------------------
\* The control planes of the projects write bindings and publish zones.

Edit == ssEdits < MaxEdits /\ ssEdits' = ssEdits + 1

WriteBinding(b, from, to) ==
    /\ Edit
    /\ ssBinding[b].state = from
    /\ ssBinding' = [ssBinding EXCEPT ![b] = [state |-> to, rev |-> @.rev + 1]]
    /\ UNCHANGED <<ssZone, ssOwner, ssPlan, ssInst, ssAck, ssRow, ssStatus, ssHeard>>

PublishZone(z) ==
    /\ Edit
    /\ ssZone' = [ssZone EXCEPT ![z] = @ + 1]
    /\ UNCHANGED <<ssBinding, ssOwner, ssPlan, ssInst, ssAck, ssRow, ssStatus, ssHeard>>

-----------------------------------------------------------------------------
\* The planner

\* A write of the record gives it another resource version: the passes that
\* have read it, other than the writer's, can write it no more.
WriteOwner(p, o, pass) ==
    /\ ssOwner' = o
    /\ ssPlan' = [q \in Planners |-> IF q = p THEN pass ELSE [ssPlan[q] EXCEPT !.current = FALSE]]

ExpireOwner ==
    /\ ssOwner.live
    /\ ssOwner' = [ssOwner EXCEPT !.live = FALSE]
    /\ UNCHANGED <<ssBinding, ssZone, ssPlan, ssInst, ssAck, ssRow, ssStatus, ssHeard, ssEdits>>

\* Step: the record is created, or taken over once the lease has run out; a new
\* epoch publishes again even if nothing has changed.
TakeShard(p) ==
    /\ ssPlan[p].at = "idle"
    /\ ssOwner.holder # p /\ ~ssOwner.live
    /\ ssOwner.epoch < MaxEpoch
    /\ WriteOwner(p, [ssOwner EXCEPT !.holder = p, !.epoch = @ + 1, !.live = TRUE, !.known = FALSE],
                  NoPass)
    /\ UNCHANGED <<ssBinding, ssZone, ssInst, ssAck, ssRow, ssStatus, ssHeard, ssEdits>>

\* The attachment of a zone: pending until there is a publication for this
\* shard; the minimum that a view requires stays while the binding does.
Attach(b, z, prior) ==
    LET old == IF b \in DOMAIN prior THEN prior[b] ELSE None
    IN  IF ssZone[z] = 0 THEN 0
        ELSE IF old # None /\ old.rev = ssBinding[b].rev /\ old.zones[z] > 0 THEN old.zones[z]
        ELSE ssZone[z]

\* A withdrawal is carried explicitly.  A zone that cannot even be named leaves
\* the view without zones.
View(b, prior) ==
    LET zones == [z \in ShardZones |->
                    IF ssBinding[b].state = "withdrawn" THEN 0 ELSE Attach(b, z, prior)]
        whole == b \notin Legacy \/ \A z \in ShardZones : zones[z] > 0
    IN  [rev |-> ssBinding[b].rev,
         tombstone |-> ssBinding[b].state = "withdrawn",
         pending |-> ssBinding[b].state # "withdrawn" /\ ~whole,
         zones |-> IF whole THEN zones ELSE [z \in ShardZones |-> 0]]

Attached(v) == {z \in ShardZones : v.zones[z] > 0}

\* The bytes of a view: itself, its zones, and the requirement of each zone that
\* no view before it has required.
Size(acc, v) ==
    1 + Cardinality(Attached(v))
      + Cardinality(Attached(v) \ UNION {Attached(acc.views[x]) : x \in DOMAIN acc.views})

Fits(acc, v) == Cardinality(DOMAIN acc.views) < MaxBindings /\ acc.used + Size(acc, v) <= MaxBytes

Add(acc, b, v) ==
    [acc EXCEPT !.views = [x \in DOMAIN @ \cup {b} |-> IF x = b THEN v ELSE @[x]],
                !.used = @ + Size(acc, v)]

SafeExpansion(old, new) ==
    /\ ~old.tombstone /\ ~new.tombstone /\ ~old.pending /\ ~new.pending
    /\ \A z \in ShardZones : new.zones[z] > 0

\* Fault: what does not fit is left out.
FitOrDrop(acc, b, v, prior) ==
    IF acc.failed THEN acc
    ELSE IF Fits(acc, v) THEN Add(acc, b, v)
    ELSE [acc EXCEPT !.rejected = @ \cup {b}]

\* fitSnapshot: a binding that is served already keeps its old view rather than
\* make room, and the whole snapshot is refused if that is not possible.
FitOne(acc, b, v, prior) ==
    IF acc.failed THEN acc
    ELSE IF Fits(acc, v) THEN Add(acc, b, v)
    ELSE IF b \notin DOMAIN prior THEN [acc EXCEPT !.rejected = @ \cup {b}]
    ELSE IF SafeExpansion(prior[b], v) /\ Fits(acc, prior[b])
      THEN [Add(acc, b, prior[b]) EXCEPT !.rejected = @ \cup {b}]
    ELSE [acc EXCEPT !.failed = TRUE,
                     !.rejected = @ \cup {b} \cup (ShardBindings \ DOMAIN prior)]

FitSnapshot(wanted, prior) ==
    LET established(b) == b \in wanted /\ b \in DOMAIN prior
        new(b) == b \in wanted /\ b \notin DOMAIN prior
        queue == SelectSeq(Order, established) \o SelectSeq(Order, new)
        step(acc, b) == FitOne(acc, b, View(b, prior), prior)
    IN  FoldLeft(step, [views |-> <<>>, used |-> 0, rejected |-> {}, failed |-> FALSE], queue)

ReportCapacity(rejected) ==
    ssStatus' = [b \in ShardBindings |->
        IF ssBinding[b].state = "absent" THEN ssStatus[b]
        ELSE [ssStatus[b] EXCEPT !.room = b \notin rejected]]

\* A pass plans from what it lists.  Unchanged content only renews the lease.
PlanShard(p) ==
    LET wanted == {b \in ShardBindings : ssBinding[b].state \in {"live", "withdrawn"}}
        fit == FitSnapshot(wanted, ssOwner.snap.views)
    IN  /\ ssPlan[p].at = "idle"
        /\ ssOwner.holder = p
        /\ \/ /\ fit.failed \/ (ssOwner.known /\ fit.views = ssOwner.snap.views)
              /\ ReportCapacity(fit.rejected)
              /\ IF fit.failed THEN UNCHANGED <<ssOwner, ssPlan>>
                 ELSE WriteOwner(p, [ssOwner EXCEPT !.live = TRUE], NoPass)
           \/ /\ ~fit.failed /\ ~(ssOwner.known /\ fit.views = ssOwner.snap.views)
              /\ ssOwner.live
              /\ ssPlan' = [ssPlan EXCEPT ![p] =
                    [at |-> "reserve", current |-> TRUE, views |-> fit.views]]
              /\ ReportCapacity(fit.rejected)
              /\ UNCHANGED ssOwner
        /\ UNCHANGED <<ssBinding, ssZone, ssInst, ssAck, ssRow, ssHeard, ssEdits>>

\* The revision is reserved before anything is staged under it.
ReserveRevision(p) ==
    /\ ssPlan[p].at = "reserve"
    /\ ssOwner.next <= MaxRevision
    /\ \/ /\ ssPlan[p].current
          /\ WriteOwner(p, [ssOwner EXCEPT !.next = @ + 1, !.live = TRUE],
                        [ssPlan[p] EXCEPT !.at = "commit"])
       \/ /\ ~ssPlan[p].current
          /\ ssPlan' = [ssPlan EXCEPT ![p] = NoPass]
          /\ UNCHANGED ssOwner
    /\ UNCHANGED <<ssBinding, ssZone, ssInst, ssAck, ssRow, ssStatus, ssHeard, ssEdits>>

Committed(p) ==
    [ssOwner EXCEPT !.known = TRUE, !.live = TRUE,
        !.snap = [epoch |-> ssOwner.epoch, rev |-> ssOwner.next - 1, views |-> ssPlan[p].views]]

\* The snapshot is staged under the reserved revision, and the record points at
\* it if nobody has written the record in between.
CommitSnapshot(p) ==
    /\ ssPlan[p].at = "commit"
    /\ \/ ssPlan[p].current /\ WriteOwner(p, Committed(p), NoPass)
       \/ /\ ~ssPlan[p].current
          /\ ssPlan' = [ssPlan EXCEPT ![p] = NoPass]
          /\ UNCHANGED ssOwner
    /\ UNCHANGED <<ssBinding, ssZone, ssInst, ssAck, ssRow, ssStatus, ssHeard, ssEdits>>

\* A pass that stops half-way, and a planner that releases its lease.
AbandonPass(p) ==
    /\ \/ /\ ssPlan[p].at # "idle"
          /\ ssPlan' = [ssPlan EXCEPT ![p] = NoPass]
          /\ UNCHANGED ssOwner
       \/ /\ ssPlan[p].at = "idle" /\ ssOwner.holder = p /\ ssOwner.live
          /\ WriteOwner(p, [ssOwner EXCEPT !.live = FALSE], NoPass)
    /\ UNCHANGED <<ssBinding, ssZone, ssInst, ssAck, ssRow, ssStatus, ssHeard, ssEdits>>

-----------------------------------------------------------------------------
\* Members install what is committed and say so, for every binding in it.
InstallSnapshot(m) ==
    /\ SnapId(ssInst[m]) # SnapId(ssOwner.snap)
    /\ ssInst' = [ssInst EXCEPT ![m] = ssOwner.snap]
    /\ ssAck' = ssAck \cup {[member |-> m, binding |-> b, snap |-> SnapId(ssOwner.snap)] :
                                b \in DOMAIN ssOwner.snap.views}
    /\ UNCHANGED <<ssBinding, ssZone, ssOwner, ssPlan, ssRow, ssStatus, ssHeard, ssEdits>>

-----------------------------------------------------------------------------
\* The acknowledgement sink

\* bindingMembers: the listed members, and those a pattern admits that have
\* acknowledged this binding at any revision and not long ago.
BindingMembers(rows) ==
    Listed \cup {m \in Pattern : rows[m].valid \in {"fresh", "stale"}}

WithoutRetired(rows) ==
    [m \in Members |-> IF m \in Pattern /\ rows[m].valid = "retired" THEN NoRow ELSE rows[m]]

\* verified, for one member
Verified(b, rows, m) ==
    /\ rows[m].snap = SnapId(ssOwner.snap)
    /\ rows[m].rev = ssBinding[b].rev
    /\ rows[m].valid = "fresh"

InSnapshot(b) ==
    /\ b \in DOMAIN ssOwner.snap.views
    /\ ssOwner.snap.views[b].rev = ssBinding[b].rev
    /\ ssOwner.snap.views[b].tombstone = (ssBinding[b].state = "withdrawn")

\* bindingProof: all of the members, or one of each tier.
BindingProof(b, rows, all) ==
    LET members == BindingMembers(rows)
    IN  /\ InSnapshot(b)
        /\ Pattern # {} => \E m \in members : Tier[m] = "node"
        /\ IF all THEN \A m \in members : Verified(b, rows, m)
           ELSE \A m \in members : \E n \in members :
                    Tier[n] = Tier[m] /\ Verified(b, rows, n)
        /\ members # {}

BindingStatus(b, rows) ==
    [ssStatus[b] EXCEPT
        !.phase = IF ~BindingProof(b, rows, FALSE) THEN "Pending"
                  ELSE IF ssBinding[b].state = "withdrawn" THEN "Withdrawn" ELSE "Serving",
        !.full = BindingProof(b, rows, TRUE)]

Record(b, rows) ==
    /\ ssRow' = [ssRow EXCEPT ![b] = rows]
    /\ ssStatus' = [ssStatus EXCEPT ![b] = BindingStatus(b, rows)]

\* Fault: an acknowledgement that cannot be recorded leaves no trace.
NoPresence(a) == UNCHANGED <<ssRow, ssStatus>>

\* recordPatternPresence: a row that proves nothing but makes the member count.
Presence(a) ==
    /\ ssRow' = IF a.member \in Pattern /\ ssRow[a.binding][a.member] = NoRow
                  THEN [ssRow EXCEPT ![a.binding][a.member] =
                            [snap |-> a.snap, rev |-> 0, valid |-> "fresh"]]
                  ELSE ssRow
    /\ UNCHANGED ssStatus

\* serving: an acknowledgement of the committed snapshot, of a binding that is
\* still as the snapshot has it; one that says Applied and not Verified, as an
\* unhealthy member sends it, proves no more than a stale one.
ApplyAck(a) ==
    /\ a \in ssAck
    /\ ssBinding[a.binding].state \in {"live", "withdrawn"}
    /\ \/ /\ a.snap = SnapId(ssOwner.snap) /\ InSnapshot(a.binding)
          /\ \E v \in {"fresh", "stale"} :
                Record(a.binding,
                    [WithoutRetired(ssRow[a.binding]) EXCEPT ![a.member] =
                        [snap |-> a.snap, rev |-> ssBinding[a.binding].rev, valid |-> v]])
          /\ ssHeard' = ssHeard \cup {<<a.binding, a.member>>}
       \/ /\ ~(a.snap = SnapId(ssOwner.snap) /\ InSnapshot(a.binding))
          /\ Presence(a)
          /\ ssHeard' = IF ssRow[a.binding][a.member].valid = "retired" THEN ssHeard
                        ELSE ssHeard \cup {<<a.binding, a.member>>}
    /\ UNCHANGED <<ssBinding, ssZone, ssOwner, ssPlan, ssInst, ssAck, ssEdits>>

\* Refresh computes the status of a binding again.
RefreshBinding(b) ==
    /\ ssBinding[b].state \in {"live", "withdrawn"}
    /\ Record(b, WithoutRetired(ssRow[b]))
    /\ UNCHANGED <<ssBinding, ssZone, ssOwner, ssPlan, ssInst, ssAck, ssHeard, ssEdits>>

\* An acknowledgement lapses; much later a pattern member is no longer counted.
Lapse(b, m) ==
    /\ ssRow[b][m].valid \in {"fresh", "stale"}
    /\ \E v \in {"stale", "retired"} :
        /\ v # ssRow[b][m].valid
        /\ ssRow' = [ssRow EXCEPT ![b][m].valid = v]
        /\ ssHeard' = IF v = "retired" THEN ssHeard \ {<<b, m>>} ELSE ssHeard
    /\ UNCHANGED <<ssBinding, ssZone, ssOwner, ssPlan, ssInst, ssAck, ssStatus, ssEdits>>

ShardNext ==
    \/ \E b \in ShardBindings :
        \/ WriteBinding(b, "absent", "live") \/ WriteBinding(b, "live", "withdrawn")
        \/ RefreshBinding(b) \/ \E m \in Members : Lapse(b, m)
    \/ \E z \in ShardZones : PublishZone(z)
    \/ ExpireOwner
    \/ \E p \in Planners : \/ TakeShard(p) \/ PlanShard(p) \/ ReserveRevision(p)
                           \/ CommitSnapshot(p) \/ AbandonPass(p)
    \/ \E m \in Members : InstallSnapshot(m)
    \/ \E a \in ssAck : ApplyAck(a)

-----------------------------------------------------------------------------
Serves(m, b) == b \in DOMAIN ssInst[m].views /\ ~ssInst[m].views[b].tombstone

\* bindingProof and confirmAccessWithdrawal: when a withdrawn binding is said to
\* be fully replicated, no listed member serves it any more, and no member that
\* a pattern admits, has ever acknowledged it and has not retired, however the
\* acknowledgements were delayed, repeated or lost, and whichever planner wrote
\* the snapshot they are about.
WithdrawalIsProven ==
    \A b \in ShardBindings :
      (ssBinding[b].state = "withdrawn" /\ ssStatus'[b].full /\ ~ssStatus[b].full)
      => \A m \in Members : (m \in Listed \/ <<b, m>> \in ssHeard) => ~Serves(m, b)

\* fitSnapshot: a binding that is being served is never left out of a snapshot
\* for want of room, nor by a planner that had stopped while another one went on.
EstablishedStays ==
    DOMAIN ssOwner.snap.views \subseteq DOMAIN ssOwner'.snap.views
=============================================================================
