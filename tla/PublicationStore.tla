-------------------------- MODULE PublicationStore --------------------------
(***************************************************************************)
(* The publication store of one control plane (internal/internaldns/       *)
(* pubstore/store.go): records in JetStream key-value buckets, changed by  *)
(* compare-and-swap, and an index in memory that lists are served from.    *)
(* The index is fed by one watch per bucket and by the results of this     *)
(* process's own calls, each of which reaches it some time after the       *)
(* bucket answered.  Other replicas write to the same buckets.             *)
(*                                                                         *)
(* A record is a pair of a spec and a status, which two kinds of write     *)
(* change; what they hold is a bit.  Keys are the records that the index   *)
(* follows (WatchFilter); chunks are read by name only.  A call to a       *)
(* bucket that fails changes nothing, and its caller tries again later.    *)
(***************************************************************************)
EXTENDS Naturals, FiniteSets

CONSTANTS Buckets,   \* physical buckets
          Home,      \* the one of zone publications
          Keys,      \* names of records
          Region,    \* the bucket configured for the region label of a key, or None
          Clients,   \* goroutines of this process that call the store
          Planes,    \* control planes that may be pointed at the home bucket
          Self,      \* this one
          RegionsOf, \* the regions each is configured for
          MaxSeq,    \* changes of one bucket
          MaxBreaks, \* watches that end
          None

VARIABLES psKv,      \* bucket, key -> its last revision and value
          psSeq,     \* bucket -> its last revision
          psIndex,   \* key -> what the index holds
          psWatch,   \* bucket -> the watch that follows it
          psPending, \* buckets the index has not loaded yet
          psOp,      \* client -> the call it is in
          psClaim,   \* the value of the regions key
          psPlane,   \* control plane -> how far it is in starting
          psBreaks

psVars == <<psKv, psSeq, psIndex, psWatch, psPending, psOp, psClaim, psPlane, psBreaks>>
psCalls == <<psKv, psSeq, psIndex, psOp>>
psFeed == <<psWatch, psPending, psBreaks>>
psStart == <<psClaim, psPlane>>

Values == [spec : BOOLEAN, status : BOOLEAN]
NoEntry == [bucket |-> None, rev |-> 0, val |-> None]
Down == [on |-> FALSE, replay |-> FALSE, pos |-> 0, started |-> 0, seen |-> {}]
NoCall == [at |-> "idle", key |-> None, rev |-> 0, val |-> None, sub |-> "", cond |-> FALSE]

StoreInit ==
    /\ psKv = [b \in Buckets |-> [k \in Keys |-> [rev |-> 0, val |-> None]]]
    /\ psSeq = [b \in Buckets |-> 0]
    /\ psIndex = [k \in Keys |-> NoEntry]
    /\ psWatch = [b \in Buckets |-> Down]
    /\ psPending = Buckets
    /\ psOp = [c \in Clients |-> NoCall]
    /\ psClaim = None
    /\ psPlane = [p \in Planes |-> "stopped"]
    /\ psBreaks = 0

-----------------------------------------------------------------------------
\* The bucket

KvGet(b, k) == psKv[b][k]

KvPut(b, k, v) ==
    /\ psSeq[b] < MaxSeq
    /\ psSeq' = [psSeq EXCEPT ![b] = @ + 1]
    /\ psKv' = [psKv EXCEPT ![b][k] = [rev |-> psSeq[b] + 1, val |-> v]]

\* A deleted key can be created again.
KvCreate(b, k, v) == psKv[b][k].val = None /\ KvPut(b, k, v)

KvUpdate(b, k, v, rev) == psKv[b][k].rev = rev /\ KvPut(b, k, v)

KvDelete(b, k, rev) == psKv[b][k].rev = rev /\ KvPut(b, k, None)

\* The deletion markers that go are older than what a running watch still has
\* to deliver.
PurgeDeletes(b, k) ==
    /\ psKv[b][k].val = None /\ psKv[b][k].rev > 0
    /\ psWatch[b].on => psWatch[b].pos >= psKv[b][k].rev
    /\ psKv' = [psKv EXCEPT ![b][k].rev = 0]
    /\ UNCHANGED <<psSeq, psIndex, psOp, psFeed, psStart>>

-----------------------------------------------------------------------------
\* Starting: the bucket is claimed for a set of regions before anything else.

\* ClaimRegions reads, creates when there is nothing, and reads again when
\* another control plane created first.
ReadClaim(p) ==
    /\ psPlane[p] \in {"stopped", "lost"}
    /\ psPlane' = [psPlane EXCEPT ![p] =
            CASE psClaim = RegionsOf[p] -> "running"
              [] psClaim = None -> "creating"
              [] OTHER -> "refused"]
    /\ UNCHANGED <<psClaim, psCalls, psFeed>>

\* Fault: the key is put, not created.
PutClaim(p) ==
    /\ psPlane[p] = "creating"
    /\ psClaim' = RegionsOf[p]
    /\ psPlane' = [psPlane EXCEPT ![p] = "running"]
    /\ UNCHANGED <<psCalls, psFeed>>

CreateClaim(p) ==
    /\ psPlane[p] = "creating"
    /\ psClaim' = IF psClaim = None THEN RegionsOf[p] ELSE psClaim
    /\ psPlane' = [psPlane EXCEPT ![p] = IF psClaim = None THEN "running" ELSE "lost"]
    /\ UNCHANGED <<psCalls, psFeed>>

-----------------------------------------------------------------------------
\* The index

\* Fault: a record that is older than the one held replaces it.
ApplyAny(index, b, k, rev, v) ==
    [index EXCEPT ![k] = IF v = None THEN NoEntry ELSE [bucket |-> b, rev |-> rev, val |-> v]]

\* apply: an older revision from the same bucket is ignored, and so is the
\* deletion of a record that is held from another bucket.
Apply(index, b, k, rev, v) ==
    IF \/ index[k].bucket = b /\ index[k].rev >= rev
       \/ v = None /\ index[k].bucket \notin {b, None}
      THEN index
      ELSE [index EXCEPT ![k] = IF v = None THEN NoEntry
                                ELSE [bucket |-> b, rev |-> rev, val |-> v]]

\* Start, and follow after a watch ended: everything is replayed.
Watch(b) ==
    /\ psPlane[Self] = "running"
    /\ ~psWatch[b].on
    /\ psWatch' = [psWatch EXCEPT ![b] =
            [on |-> TRUE, replay |-> TRUE, pos |-> 0, started |-> psSeq[b], seen |-> {}]]
    /\ UNCHANGED <<psPending, psBreaks, psCalls, psStart>>

Undelivered(b) == {k \in Keys : psKv[b][k].rev > psWatch[b].pos}

\* Events come in the order of their revisions; a key has only its last one.
Deliver(b) ==
    /\ psWatch[b].on
    /\ \E k \in Undelivered(b) :
        /\ \A j \in Undelivered(b) : psKv[b][k].rev <= psKv[b][j].rev
        /\ psIndex' = Apply(psIndex, b, k, psKv[b][k].rev, psKv[b][k].val)
        /\ psWatch' = [psWatch EXCEPT
                ![b].pos = psKv[b][k].rev,
                ![b].seen = IF psWatch[b].replay THEN @ \cup {k} ELSE {}]
    /\ UNCHANGED <<psKv, psSeq, psOp, psPending, psBreaks, psStart>>

DropUnseen(b, highest) ==
    [k \in Keys |-> IF /\ psIndex[k].bucket = b /\ k \notin psWatch[b].seen
                       /\ psIndex[k].rev <= highest
                      THEN NoEntry ELSE psIndex[k]]

\* The marker that ends the replay carries the revision at which it began.
Synced(b) ==
    /\ psWatch[b].on /\ psWatch[b].replay
    /\ \A k \in Undelivered(b) : psKv[b][k].rev > psWatch[b].started
    /\ LET w == psWatch[b]
       IN  psIndex' = DropUnseen(b, IF w.pos > w.started THEN w.pos ELSE w.started)
    /\ psWatch' = [psWatch EXCEPT ![b].replay = FALSE, ![b].seen = {}, ![b].started = 0]
    /\ psPending' = psPending \ {b}
    /\ UNCHANGED <<psKv, psSeq, psOp, psBreaks, psStart>>

WatchEnds(b) ==
    /\ psWatch[b].on
    /\ psBreaks < MaxBreaks
    /\ psBreaks' = psBreaks + 1
    /\ psWatch' = [psWatch EXCEPT ![b] = Down]
    /\ UNCHANGED <<psPending, psCalls, psStart>>

-----------------------------------------------------------------------------
\* The calls of this process

BucketFor(k) == IF Region[k] \in Buckets THEN Region[k] ELSE Home

\* locate: where the index says, else the bucket that answers.
Locate(k) ==
    LET hint == psIndex[k].bucket
        found == {b \in Buckets : psKv[b][k].val # None}
    IN  IF hint \in found THEN hint
        ELSE IF found = {} THEN None ELSE CHOOSE b \in found : TRUE

Call(c, at, k, e, sub, cond) ==
    psOp' = [psOp EXCEPT ![c] = [at |-> at, key |-> k, rev |-> e.rev, val |-> e.val,
                                 sub |-> sub, cond |-> cond]]

Running == psPlane[Self] = "running"

\* Get reads the bucket.  Its copy of the record reaches the index in Return.
Get(c, k) ==
    /\ Running /\ psOp[c].at \in {"idle", "holds"}
    /\ Locate(k) # None
    /\ Call(c, "return", k, KvGet(Locate(k), k), "", FALSE)
    /\ UNCHANGED <<psKv, psSeq, psIndex, psFeed, psStart>>

\* Create is refused when the index holds the name in another bucket.
Create(c, k) ==
    /\ Running /\ psOp[c].at \in {"idle", "holds"}
    /\ psIndex[k].bucket \in {None, BucketFor(k)}
    /\ KvCreate(BucketFor(k), k, [spec |-> FALSE, status |-> FALSE])
    /\ Call(c, "return", k, psKv'[BucketFor(k)][k], "", FALSE)
    /\ UNCHANGED <<psIndex, psFeed, psStart>>

\* The value reaches the index, and the caller has a copy of the record.
Return(c) ==
    /\ psOp[c].at = "return"
    /\ psIndex' = Apply(psIndex, BucketFor(psOp[c].key), psOp[c].key, psOp[c].rev, psOp[c].val)
    /\ psOp' = [psOp EXCEPT ![c].at = "holds", ![c].sub = "", ![c].cond = FALSE]
    /\ UNCHANGED <<psKv, psSeq, psFeed, psStart>>

\* A caller changes its copy, of the spec or of the status, and writes it,
\* with or without the revision it has read.
Update(c, sub, cond) ==
    /\ psOp[c].at = "holds"
    /\ LET new == IF sub = "status"
                    THEN [psOp[c].val EXCEPT !.status = ~@]
                    ELSE [psOp[c].val EXCEPT !.spec = ~@]
       IN  Call(c, "write", psOp[c].key, [rev |-> psOp[c].rev, val |-> new], sub, cond)
    /\ UNCHANGED <<psKv, psSeq, psIndex, psFeed, psStart>>

\* Fault: the caller's copy is written as it is.
WholeCopy(sub, current, next) == next

\* compose: a status write takes nothing else from the caller's copy, and a
\* main write takes no status.
Compose(sub, current, next) ==
    IF sub = "status" THEN [current EXCEPT !.status = next.status]
    ELSE [next EXCEPT !.status = current.status]

\* write reads the stored record; a revision that moved is a conflict.
ReadForWrite(c) ==
    LET k == psOp[c].key
        b == Locate(k)
    IN  /\ psOp[c].at = "write"
        /\ psOp' = [psOp EXCEPT ![c] =
                IF b = None \/ (@.cond /\ KvGet(b, k).rev # @.rev) THEN NoCall
                ELSE [@ EXCEPT !.at = "swap", !.rev = KvGet(b, k).rev,
                               !.val = Compose(psOp[c].sub, KvGet(b, k).val, @)]]
        /\ UNCHANGED <<psKv, psSeq, psIndex, psFeed, psStart>>

\* The swap.  A write without a revision is composed again with what is
\* stored now; its own change is still in the copy.
Swap(c) ==
    LET k == psOp[c].key
        b == BucketFor(k)
    IN  /\ psOp[c].at = "swap"
        /\ \/ /\ KvUpdate(b, k, psOp[c].val, psOp[c].rev)
              /\ psOp' = [psOp EXCEPT ![c].at = "return", ![c].rev = psSeq[b] + 1]
           \/ /\ KvGet(b, k).rev # psOp[c].rev
              /\ psOp' = [psOp EXCEPT ![c] =
                    IF @.cond THEN NoCall ELSE [@ EXCEPT !.at = "write"]]
              /\ UNCHANGED <<psKv, psSeq>>
        /\ UNCHANGED <<psIndex, psFeed, psStart>>

\* Delete reads the record and deletes that revision.
ReadForDelete(c, k) ==
    /\ Running /\ psOp[c].at \in {"idle", "holds"}
    /\ Locate(k) # None
    /\ Call(c, "delete", k, KvGet(Locate(k), k), "", FALSE)
    /\ UNCHANGED <<psKv, psSeq, psIndex, psFeed, psStart>>

Delete(c) ==
    LET k == psOp[c].key
    IN  /\ psOp[c].at = "delete"
        /\ \/ /\ KvDelete(BucketFor(k), k, psOp[c].rev)
              /\ psOp' = [psOp EXCEPT ![c].at = "forget"]
           \/ /\ KvGet(BucketFor(k), k).rev # psOp[c].rev
              /\ psOp' = [psOp EXCEPT ![c] = NoCall]
              /\ UNCHANGED <<psKv, psSeq>>
        /\ UNCHANGED <<psIndex, psFeed, psStart>>

\* A record that was created again in between stays.
Forget(c) ==
    LET k == psOp[c].key
    IN  /\ psOp[c].at = "forget"
        /\ psIndex' = [psIndex EXCEPT ![k] =
                IF @.bucket = BucketFor(k) /\ @.rev <= psOp[c].rev THEN NoEntry ELSE @]
        /\ psOp' = [psOp EXCEPT ![c] = NoCall]
        /\ UNCHANGED <<psKv, psSeq, psFeed, psStart>>

-----------------------------------------------------------------------------
\* Another replica of the same control plane: only its swaps are seen here.
PeerWrites(k) ==
    LET b == BucketFor(k)
        v == psKv[b][k].val
    IN  /\ \/ KvCreate(b, k, [spec |-> FALSE, status |-> FALSE])
           \/ v # None /\ \/ KvUpdate(b, k, [v EXCEPT !.status = ~@], psKv[b][k].rev)
                          \/ KvDelete(b, k, psKv[b][k].rev)
        /\ UNCHANGED <<psIndex, psOp, psFeed, psStart>>

StoreNext ==
    \/ \E p \in Planes : ReadClaim(p) \/ CreateClaim(p)
    \/ \E b \in Buckets : Watch(b) \/ Deliver(b) \/ Synced(b) \/ WatchEnds(b)
    \/ \E b \in Buckets, k \in Keys : PurgeDeletes(b, k)
    \/ \E c \in Clients :
        \/ \E k \in Keys : Get(c, k) \/ Create(c, k) \/ ReadForDelete(c, k)
        \/ \E sub \in {"", "status"}, cond \in BOOLEAN : Update(c, sub, cond)
        \/ Return(c) \/ ReadForWrite(c) \/ Swap(c) \/ Delete(c) \/ Forget(c)
    \/ \E k \in Keys : PeerWrites(k)

-----------------------------------------------------------------------------
\* List serves the index, once the home bucket has been loaded.
Listed(k) == psIndex[k]

\* complete
Complete == psPending = {}

\* List misses nothing: once a bucket's watch has delivered every change and no
\* call of this process is on its way to the index, every record of the bucket
\* is listed at its current revision, whatever order watch events, replays
\* after a lost watch and the results of the process's own writes came in.
ListMissesNothing ==
    \A k \in Keys :
        LET b == BucketFor(k)
        IN  (/\ b \notin psPending
             /\ psWatch[b].on /\ ~psWatch[b].replay /\ Undelivered(b) = {}
             /\ \A c \in Clients : psOp[c].key = k => psOp[c].at \in {"idle", "holds"}
             /\ psKv[b][k].val # None)
            => Listed(k) = [bucket |-> b, rev |-> psKv[b][k].rev, val |-> psKv[b][k].val]

\* The status subresource contract of write and compose: no write, however old
\* the copy it was made from and however often it was retried, changes both the
\* spec and the status of a record.
WritesCompose ==
    \A b \in Buckets, k \in Keys :
      LET old == psKv[b][k].val
          new == psKv'[b][k].val
      IN  (old # None /\ new # None) => old.spec = new.spec \/ old.status = new.status

\* ClaimRegions: control planes for different regions never run on one bucket.
OneControlPlane ==
    \A p, q \in Planes : psPlane[p] = "running" /\ psPlane[q] = "running"
                            => RegionsOf[p] = RegionsOf[q]
=============================================================================
