# Specifications of dns-operator

TLA+ specifications of the parts of dns-operator that are hard to test: the
steps of several processes, controllers and members in orders nobody wrote
down, with crashes, lost calls and stale reads between them. TLC checks small
instances; TLAPS proves the main safety properties for every instance.

## The system

dns-operator has two planes.

**The public plane** serves zones from PowerDNS. A project's `DNSZone` and
`DNSRecordSet` are copied by the *replicators* to a downstream cluster (the
shadow objects), after the zone is accounted for in a ledger of ConfigMaps and
its Domain is verified. In the downstream cluster `DNSZoneReconciler` and
`DNSRecordSetReconciler` program PowerDNS over its HTTP API and write
conditions, which the replicators copy back.

**The private plane** serves zones inside networks. Control-plane processes
reconcile resolver contexts, associations and bindings, allocate addresses, and
compile each zone into *publications*: immutable manifests and chunks, named by
a writer epoch and a revision and committed by moving a pointer in a
`DNSPublicationOwnership` record. An *outbox* loop per region sends committed
publications to a JetStream stream and to a bootstrap store. A *serving agent*
in every regional member applies them to CoreDNS and dnsdist, keeps a
checkpoint, and acknowledges what it has verified.

### Inventory

| Part | State | Operations | What makes it hard |
| --- | --- | --- | --- |
| Zone publication (`controlplane/publication_reconciler.go`) | ownership record, lease, manifests, each pass's copy | acquire, take over, renew, queue, compile, reserve, persist, commit, release | several workers per process, lapsed leases, a deposed writer that goes on, crashes between reserve, stage and commit |
| Outbox (`platform/outbox.go`) | outbox records' states, `ExportedAt` | list, committed?, superseded?, depends, publish, put, mark, acknowledge, report | overlapping exporters at a change of leader, failures between any two calls |
| Bootstrap store (`transport/jetstream.go`, `serving/bootstrap.go`) | head and chunk keys per zone | Put, prune, list and load | readers list before they read; prune runs after the head moved |
| Serving agent (`serving/`) | checkpoint in memory and on disk, files, daemons, acknowledgements | bootstrap, handle chunk and manifest, reconcile, install, approve, verify, acknowledge, Step, restore | redelivery, failing saves and installations, crashes, the 15 minute limit |
| Addresses (`platform/allocator.go`) | regional and destination claims, leases | reserve, claim, release | two kinds of claimants that check each other; deletes with preconditions |
| Contexts (`controlplane/context_reconciler.go`) | contexts, associations, bindings, managed zones | reconcile, bind, retire, withdraw | no leader election; cached lists |
| Record programming (`controller/dnsrecordset_downstream_controller.go`, `dns/pdns/client.go`) | record sets, conditions, RRsets with owner comments | ensure, prune, delete, wake the waiting | merge patches without preconditions, several HTTP calls per pass, refusals |
| Zone programming (`controller/dnszone_downstream_controller.go`) | zone, finalizer, provider zone | ensure, cascade, delete | record sets that come and go meanwhile |
| Zone replication, ledger (`controller/dnszone_replicator_controller.go`) | upstream and shadow zone, ledger, Domain | account, verify, copy, release | two clusters, first claimant wins, finalizers |
| Record replication (`controller/dnsrecordset_replicator_controller.go`) | upstream and shadow record set | copy, delete, reflect status | two clusters |
| Leases (`platform/region_lease.go`, `member_lease.go`) | lease objects, local deadlines | acquire, renew, release | clocks, margins |
| Publication store (`pubstore/`) | buckets, index | watch, get, collect | index applies reads and watch events in any order |
| Planner, acknowledgements (`platform/planner.go`, `acks.go`) | shard snapshots, member acknowledgements | plan, accept, expire | stale acknowledgements, moving members |
| Private replication (`privatereplication/`) | hub copies, mirrored status | copy, mirror | origins, generations, objects made again |
| Compiler, feed, admission, CoreDNS plugin, CLI | none or one snapshot | pure functions | boundaries and limits |

`PROJECT.json` lists every component with its status, and every hazard at the
line where it bites with the properties that would catch it.

## Modules

| Module | Models | Checked by |
| --- | --- | --- |
| `PublicationLog` | what publication promises: fresh immutable manifests, a pointer that only advances | refined by `PublicationOwnership`, extended by `PublicationExport` |
| `PublicationOwnership` | lease, reserve, stage, commit of one zone | `MCPublicationOwnership`, `PublicationOwnershipProofs` |
| `PublicationExport` | outbox, stream and bootstrap store of one region | `MCPublicationExport`, `PublicationExportProofs` |
| `ServingAgent` | one combined member and one zone | `MCServingAgent` |
| `DestinationClaims` | claims on one address and the bindings that use it | `MCDestinationClaims`, `DestinationClaimsProofs` |
| `RecordProgramming` | one public zone, its record sets and PowerDNS | `MCRecordProgramming` |

They form a chain on the private plane. `PublicationOwnership` implements
`PublicationLog`; `PublicationExport` extends `PublicationLog` with everything
that happens to a committed publication, so that it depends on what the writer
promises and not on how it keeps the promise. `ServingAgent` takes as its input
what `PublicationExport` guarantees (only committed manifests, in any order and
any number of times, chunks available).

### PublicationOwnership

`own` is the ownership record, `lease` what is left of `LeaseUntil`, `pass` the
local variables of each worker (its copy of the record, what it compiled).
A write with the optimistic lock succeeds exactly when the record has not been
written since it was read; `fresh` is the set of workers for which that is so.
`CreateOwnership`, `TakeOver` and `Hold` are `acquireOwnership`, `Renew` and
`Queue` the project pass, `Compile`, `Reserve`, `GiveUp`, `Persist` and `Commit`
`compileZone`, `ReleaseOwnership` the shutdown. A takeover may push the epoch
by any amount, as `NextWriterEpoch` takes the clock into account.

### PublicationExport

A record of the outbox is an event: part 0 is a manifest, the others are its
chunks. `acked` and `dropped` are the states Acknowledged and Superseded,
anything else is Pending. Each exporter's `pass` walks `Outbox.Step`, one action
per call that another process can see. `head`, `stored` and `Prune` are the
bootstrap store; a reader's `load` is `SnapshotBootstrap.Load`, which lists keys
and then reads them. Compare-and-swap loops are one step.

### ServingAgent

`mem` and `disk` are the checkpoint in memory and in `checkpoint.json`; `served`
is what the daemons answer from; `at` and `job` say how far the holder of the
agent's lock is, and for whom. There is an action for each effect that outlives
the process, so a crash falls between any two of them. A save that fails may or
may not have replaced the file (`stateStore.Save` renames and then syncs the
directory); an installation that fails either preserved the daemons or stopped
them. `late` is a history variable: a bootstrap manifest was recorded and no
`Step` has run since.

### DestinationClaims

One address. `regional` and `claim` are the owners of the two claim objects,
`regionalSeen` and `claimSeen` the passes whose delete precondition would still
hold, `binding` and `snapshot` the routes. The steps of `ClaimDestination`,
`reserve`, `ReleaseDestinations` and `destinationRouted` are the values of `at`.

### RecordProgramming

`obj` and `zone` are the objects, `cache` and `zcache` what the operator has
seen of them, `rr` what PowerDNS serves: each RRset carries the stamp (object,
UID, generation) that the code writes into its comments. A pass reads the
provider's zone, sends one PATCH of replacements and one of deletions, isolates
refusals, and patches the status; other passes run between the calls.

## Runs

| Run | Instance | Shows |
| --- | --- | --- |
| `zone_publication` | 2 processes, 3 workers, 2 contents, 2 lapses, 1 stop, 1 change, fair | `NoIdentityReuse`, `ActiveIsStaged`, `CommitAdvances`, `ImplementsLog`, `EventuallyPublished` and the inductive invariant |
| `export_safety` | 2 exporters, 2 epochs, 2 manifests, 1 failure | `OnlyCommitted`, `ChunksFirst`, `DroppedIsPassed`, `AckedIsExported`, `HeadAdvances`, `HeadLoadable` and the inductive invariant |
| `export_liveness` | 1 exporter, 1 reader, 3 manifests, 1 failure, fair | `EventuallyExported`, `LoadEnds` |
| `serving_safety` | 3 contents from 2 observations, 2 publications, 2 faults | `NoResurrection`, `WithdrawalGates`, `RestoredExpires`, `AckIsProven`, `FencesAdvance`, `ObservationsAdvance` |
| `serving_liveness` | 2 contents, 2 publications, 1 fault, fair | `EventuallyServed` |
| `destination_claims` | 2 contexts, 2 owners, 2 crashes, 3 changes, fair | `Exclusion`, `RouteIsClaimed`, `FreedWhenWithdrawn`, `EventuallyReleased` and the inductive invariant |
| `record_programming` | 1 record set, the zone may be deleted, 1 failure, 1 restart, 3 changes, fair | `ProgrammedIsServed`, `NothingLeftBehind`, `ZoneGoneIsGone`, `EventuallySettled` |
| `record_conflict` | a CNAME and another type at one name, 3 changes, fair | `ProgrammedIsServed`, `NothingLeftBehind`, `DeletesOwnOnly`, `EventuallySettled` |

A fault of the serving runs is a crash, or a failed save, installation or probe.

Four runs show a disagreement between the code and what its comments or
documents say; TLC must find the violation.

| Run | Property | What the trace shows |
| --- | --- | --- |
| `destination_release` | `FreedWhenWithdrawn` | two passes of one context: a claim found unrouted is freed after the other pass routed it |
| `record_contended` | `ClaimedNameIsServed` | two record sets claim an RRset, the last writer is deleted, the other is not programmed again |
| `record_prune` | `EventuallyPruned` | a failed delete of a dropped name is only logged |
| `serving_withdrawal` | `WithdrawnIsNotServed` | the approval of a configuration could not be saved; withdrawing it then fails and does not gate |

The conditions under which the other properties are stated come from what the
code does outside them:

- `destination_claims` and the theorems about it assume one pass at a time for
  each context and each owner. Two replicas that reserve for one owner share a
  regional claim, and one can undo the claim that the other's lease rests on.
- `DeletesOwnOnly` is checked where no two record sets list the same RRset. When
  they do, a delete decided on an earlier read of the zone can remove what the
  other has just written.
- `NoResurrection` speaks of acknowledgements that the checkpoint held: after
  two failed saves a heartbeat acknowledges a fence that is only in memory
  (`Verified` is set before its save).
- `WithdrawalGates` speaks of withdrawals from the approved configuration.
- `RestoredExpires` speaks of a configuration that was restored. A checkpoint
  without an approved configuration is gated at restart, but the next `Step`
  installs what it records, and the limit does not apply to it.

### Bounds

Each bound is a constant of its module and a guard of the actions it limits.

- Two of everything that competes (processes, exporters, passes, record sets)
  is the least with which one can be overtaken by another at each step. Workers
  are three, because two of one process share an identity.
- Two publications make an older and a newer one; pruning needs three, since
  it keeps the head and the one before.
- One failure or crash can fall at every step, so every recovery path is taken.
  Two faults are used where the code's answer to a failure can itself fail
  (`serving_safety`).
- Three changes are enough to create, edit and delete a record set, or to grant
  and withdraw access twice.
- A zone has one chunk in a region and a withdrawal none; an RRset is a (name, type) pair and
  its content is the stamp of its writer.
- Exporters are interchangeable and declared symmetric in the safety run only.

`CHECK_DEADLOCK FALSE` is set for `PublicationExport`, where a writer at its
bound and an empty outbox leave nothing to do, and for `RecordProgramming`,
where everything is settled in the end.

### Fairness

- *PublicationOwnership*: passes of a running process are requeued and finish
  (weak fairness of each worker's steps while its process runs), and an
  abandoned lease lapses. Nothing makes a stopped process come back.
- *PublicationExport*: some process leads the region and its ticker runs the
  loop; it need not be the same one. A reader that began goes on.
- *ServingAgent*: the agent's lock is a Go mutex, which starves nobody, so the
  ticker's `Step`, the transport and the holder each make progress (strong
  fairness where others can take the lock in between). The broker redelivers an
  event until it is acknowledged (only the last publication's events are needed);
  the transport is run again until a bootstrap completes. Faults are finitely
  many by their bound.
- *DestinationClaims*: periodic passes of every project, the planner, and the
  members' confirmation of a withdrawal.
- *RecordProgramming*: informers deliver, the work queue runs every key that is
  in it (an error requeues it), the garbage collector runs.

## Proofs

Proved for every value of the constants, from the named assumptions of the
modules (types of the constants, and that the model values for "none" are not
among the others). Bounds are arbitrary naturals there, so nothing rests on
their size.

**`PublicationOwnershipProofs`.** `IInv` adds to the types: a copy that is
still fresh equals the record, and no copy is ahead of it (`CopiesAreReads`);
every revision in use is below the record's next one and no two passes or
manifests have reserved the same (`RevisionsAreUnique`); what a pass carries
from compilation to commit belongs to its copy (`PassIsConsistent`); the pointer
names a staged manifest with the recorded hash, behind the next revision
(`PointerIsBehind`); and nothing exists before the record does. It is needed
because a deposed writer keeps working with its old copy: that its commit fails
follows only from what its copy can still be. Theorems: `TypeCorrect`,
`IdentitiesAreUnique`, `PointerIsStaged`, `CommitsAdvance`, and
`OwnershipImplementsLog`, the refinement of `PublicationLog`.

**`PublicationExportProofs`.** `IInv` is the conjunction of the properties
themselves with what each exporter's pass knows at the place it has reached
(`PassInv`: what it holds was committed, its dependencies were sent, what it is
about to drop has been passed) and what the store keeps for head and
predecessor (`StoreInv`). Theorems: `TypeCorrect`, `SentIsCommitted`,
`ManifestsFollowChunks`, `HeadsAreLoadable`, `DroppedIsNeverNeeded`,
`AckedIsSent`, `HeadsAdvance`, for any number of exporters that overlap.

**`DestinationClaimsProofs`.** Under the assumption that a context and an owner
have one pass each. `IInv` says that a lease, written or about to be, has its
regional claim, what a claiming pass knows of its claim at each step, that the
snapshot routes only what is live or being withdrawn, and that the address is
not granted to both sides: each side makes its check after its own claim
exists, so of two racing passes one sees the other's. Theorems:
`ClaimsExclude`, `RoutesAreClaimed`, `ClaimsOutliveRoutes`.

Only model-checked: liveness under fairness, `ServingAgent`, and
`RecordProgramming`. Liveness is out of the prover's reach; the invariants of
the other two modules are planned.

## Not modelled

Listed with reasons in `PROJECT.json`. In the modules above: the records'
encoding and the texts of conditions; `ALIAS` target checks; payload hashes and
envelope validation; serving snapshots in the outbox; resolver and
node-authoritative members; what a zone compiles to. `DNSRecordSetPowerDNSReconciler`, the
per-key ownership reconciler, is not started by `cmd/main.go` and is left out.

## Plan

In this order:

1. `ZoneReplication`: the zone replicator with ledger, Domain verification and
   shadow zone, two projects that claim one domain; record set replication.
   Properties: one owner per domain, a zone that loses is served once the winner
   is gone, nothing is left downstream, conditions are not stale.
2. `RegionLease` and its composition with `PublicationExport`: at most one
   leader under bounded drift, and what overlap remains.
3. `PublicationStore`: the index of several buckets refines the set of live
   objects after a resync; `Collect` never takes what a pending record needs,
   composed with `PublicationLog`.
4. `ServingPlan`: planner, acknowledgements, member leases; composition with
   `DestinationClaims` for bindings that are made again.
5. `PrivateReplication`: hub copies and mirrored status refine "the newest
   generation of the current origin".
6. `ContextReconcile`: naming policies, associations, zone limits and managed
   zones.
7. The file transaction and readiness of the agent, as a refinement of the
   atomic installation that `ServingAgent` uses; resolver and node modes.
8. Operators for the pure parts, checked against reference definitions: fence
   comparison and epoch choice, name mapping, chunking, compiler eligibility,
   owner-name qualification, zone-file and record-data parsing, the CoreDNS
   plugin's lookup.
9. Proofs: `ZoneGoneIsGone` and `NothingLeftBehind` of `RecordProgramming`,
   `NoResurrection` and `FencesAdvance` of `ServingAgent`, mutual exclusion of
   the lease, the refinement of the store.
