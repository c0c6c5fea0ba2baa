--------------------------- MODULE AccessBindings ---------------------------
(***************************************************************************)
(* From access bindings to resolver bindings: the loop of                  *)
(* reconcileContextBindings over the accesses of a namespace, the choice   *)
(* of a shard (selectServingTargets) and the retirement of what is no      *)
(* longer desired (retireContextBindings, confirmAccessWithdrawal), run by *)
(* project passes that overlap.                                            *)
(*                                                                         *)
(* One resolver context in one region.  An access names a lifetime of the  *)
(* context and is immutable, so its generation never changes; every access *)
(* asks for a destination of its own (DestinationClaims has the            *)
(* competition for one).  A binding is named after the uid of its access.  *)
(* What a pass took from its own lists may be stale; binding patches carry *)
(* the version that was read (`held`).                                     *)
(***************************************************************************)
EXTENDS Naturals, FiniteSets

CONSTANTS
    Passes,      \* project passes that may overlap
    Accesses,    \* names of access bindings
    ShardOrder,  \* the shards of the region, best rendezvous score first
    MaxLife,     \* bound: lifetimes of a name
    MaxChanges   \* bound: changes from outside

VARIABLES
    abContext,   \* the resolver context and its Ready condition
    abAccess,    \* the access bindings
    abBinding,   \* the resolver bindings, by access name and uid
    abZones,     \* a number for the zones the associations attach
    abShards,    \* the shards configured
    abPass,      \* what a pass has listed and what it does next
    abJustified, \* history: withdrawals due since each pass has listed
    abChanges

abVars == <<abContext, abAccess, abBinding, abZones, abShards, abPass,
            abJustified, abChanges>>
abOutside == <<abContext, abAccess, abZones, abShards, abChanges>>

Uids == 1 .. MaxLife
Keys == Accesses \X Uids
Shards == {ShardOrder[i] : i \in DOMAIN ShardOrder}
NoAccess == [uid |-> 0, live |-> FALSE, context |-> 0]
NoBinding == [exists |-> FALSE, tombstone |-> FALSE, generation |-> 0,
              revision |-> 0, sequence |-> 0, zones |-> 0,
              shard |-> ShardOrder[1], context |-> 0, withdrawn |-> FALSE]
Idle == [at |-> "idle", zones |-> 0, shards |-> {},
         accesses |-> [a \in Accesses |-> NoAccess],
         existing |-> [k \in Keys |-> NoBinding],
         held |-> {}, desired |-> {}, todo |-> {}, target |-> {}]

BindingInit ==
    /\ abContext = [uid |-> 1, live |-> TRUE, ready |-> "True"]
    /\ abAccess = [a \in Accesses |-> NoAccess]
    /\ abBinding = [k \in Keys |-> NoBinding]
    /\ abZones = 0
    /\ abShards = {ShardOrder[Cardinality(DOMAIN ShardOrder)]}
    /\ abPass = [p \in Passes |-> Idle]
    /\ abJustified = [p \in Passes |-> {}]
    /\ abChanges = 0

----------------------------------------------------------------------------
(* When an access no longer supports its binding.                          *)

\* The refusals of a context: it is invalid, a duplicate, or its managed
\* domain is not permitted.  "Preparing" and a condition of an older
\* generation ("stale") are not refusals.
Ready == {"True", "Preparing", "Refused", "stale"}

\* What confirmAccessWithdrawal asks of the objects as they are.
AccessWithdrawn(k) ==
    LET a == abAccess[k[1]] IN
    \/ ~a.live \/ a.uid # k[2]
    \/ a.context # abBinding[k].context
    \/ ~abContext.live \/ abContext.uid # abBinding[k].context
    \/ abContext.ready = "Refused"

\* History: every withdrawal that is due now counts for the passes under way.
Justify(k) ==
    LET a == abAccess'[k[1]] IN
    \/ ~a.live \/ a.uid # k[2]
    \/ ~abContext'.live \/ abContext'.uid # abBinding[k].context
    \/ abContext'.ready = "Refused"
Observe == abJustified' = [p \in Passes |->
              abJustified[p] \cup {k \in Keys : abBinding[k].exists /\ Justify(k)}]

Edit == abChanges < MaxChanges /\ abChanges' = abChanges + 1

\* resolverAccess admits an access only for a context lifetime that is Ready.
CreateAccess(a) ==
    /\ Edit
    /\ ~abAccess[a].live /\ abAccess[a].uid < MaxLife
    /\ abContext.live /\ abContext.ready = "True"
    /\ abAccess' = [abAccess EXCEPT ![a] =
           [uid |-> @.uid + 1, live |-> TRUE, context |-> abContext.uid]]
    /\ UNCHANGED <<abContext, abBinding, abZones, abShards, abPass>>
    /\ Observe

DeleteAccess(a) ==
    /\ Edit
    /\ abAccess[a].live
    /\ abAccess' = [abAccess EXCEPT ![a].live = FALSE]
    /\ UNCHANGED <<abContext, abBinding, abZones, abShards, abPass>>
    /\ Observe

\* The contexts phase of this or another pass (ZoneAttachment), an edit of
\* the context, its deletion, its replacement.
ChangeContext ==
    /\ Edit
    /\ \/ \E r \in Ready : abContext' = [abContext EXCEPT !.ready = r]
       \/ abContext' = [abContext EXCEPT !.live = FALSE]
       \/ /\ ~abContext.live /\ abContext.uid < MaxLife
          /\ abContext' = [uid |-> abContext.uid + 1, live |-> TRUE,
                           ready |-> "stale"]
    /\ abContext' # abContext
    /\ UNCHANGED <<abAccess, abBinding, abZones, abShards, abPass>>
    /\ Observe

ChangeZones ==
    /\ Edit
    /\ abZones' = 1 - abZones
    /\ UNCHANGED <<abContext, abAccess, abBinding, abShards, abPass>>
    /\ Observe

Reconfigure ==
    /\ Edit
    /\ abShards' \in (SUBSET Shards \ {{}, abShards})
    /\ UNCHANGED <<abContext, abAccess, abBinding, abZones, abPass>>
    /\ Observe

\* AckSink reports a tombstone withdrawn and replicated at its revision.
ReportWithdrawn(k) ==
    /\ abBinding[k].exists /\ abBinding[k].tombstone /\ ~abBinding[k].withdrawn
    /\ abBinding' = [abBinding EXCEPT ![k].withdrawn = TRUE]
    /\ UNCHANGED <<abOutside, abPass, abJustified>>

----------------------------------------------------------------------------
(* The pass.                                                               *)

StartPass(p) ==
    /\ abPass[p].at = "idle"
    /\ abPass' = [abPass EXCEPT ![p] = [Idle EXCEPT
           !.at = "bindings", !.zones = abZones, !.shards = abShards,
           !.accesses = abAccess]]
    /\ abJustified' = [abJustified EXCEPT ![p] =
           {k \in Keys : abBinding[k].exists /\ AccessWithdrawn(k)}]
    /\ UNCHANGED <<abOutside, abBinding>>

ListBindings(p) ==
    /\ abPass[p].at = "bindings"
    /\ abPass' = [abPass EXCEPT
           ![p].at = "access", ![p].existing = abBinding, ![p].held = Keys,
           ![p].todo = {a \in Accesses : abPass[p].accesses[a].live}]
    /\ UNCHANGED <<abOutside, abBinding, abJustified>>

\* selectServingTargets: a live binding of the context keeps its shard while
\* that is configured; only otherwise is the best of the region chosen.
FirstOf(set) ==
    ShardOrder[CHOOSE i \in DOMAIN ShardOrder :
        /\ ShardOrder[i] \in set
        /\ \A j \in DOMAIN ShardOrder : ShardOrder[j] \in set => i <= j]
SelectShard(me, context) ==
    LET assigned == {me.existing[k].shard : k \in
            {x \in Keys : /\ me.existing[x].exists
                          /\ ~me.existing[x].tombstone
                          /\ me.existing[x].context = context}} IN
    IF assigned \cap me.shards # {} THEN FirstOf(assigned \cap me.shards)
    ELSE FirstOf(me.shards)

Outdate(k) == [p \in Passes |-> [abPass[p] EXCEPT !.held = @ \ {k}]]

\* A binding that is renewed: a tombstone is lifted with the next sequence,
\* other zones make the next generation, either the next revision.
Renewed(old, me, context) ==
    IF ~old.exists
    THEN [NoBinding EXCEPT !.exists = TRUE, !.generation = 1, !.revision = 1,
              !.sequence = 1, !.zones = me.zones, !.context = context,
              !.shard = SelectShard(me, context)]
    ELSE [old EXCEPT
              !.tombstone = FALSE, !.withdrawn = FALSE,
              !.sequence = IF old.tombstone THEN @ + 1 ELSE @,
              !.generation = IF old.zones # me.zones THEN @ + 1 ELSE @,
              !.revision = IF old.zones # me.zones \/ old.tombstone
                           THEN @ + 1 ELSE @,
              !.zones = me.zones, !.context = context,
              !.shard = SelectShard(me, context)]

\* One access of the list.  One that has changed since is skipped; one whose
\* context is not the live, Ready one it names is rejected.
ReconcileAccess(p, a) ==
    /\ abPass[p].at = "access" /\ a \in abPass[p].todo
    /\ LET me == abPass[p]
           listed == me.accesses[a]
           k == <<a, listed.uid>>
           done == [me EXCEPT !.todo = @ \ {a}]
           valid == /\ abContext.live /\ abContext.uid = listed.context
                    /\ abContext.ready = "True"
           new == Renewed(abBinding[k], me, listed.context)
       IN IF abAccess[a] # listed \/ ~valid
          THEN /\ abPass' = [abPass EXCEPT ![p] = done]
               /\ UNCHANGED abBinding
          ELSE /\ abBinding' = [abBinding EXCEPT ![k] = new]
               /\ abPass' = [(IF new # abBinding[k] THEN Outdate(k) ELSE abPass)
                      EXCEPT ![p] = [done EXCEPT
                        !.desired = @ \cup {k},
                        !.held = IF new # abBinding[k] THEN @ \ {k} ELSE @]]
    /\ UNCHANGED <<abOutside, abJustified>>

AccessesDone(p) ==
    /\ abPass[p].at = "access" /\ abPass[p].todo = {}
    /\ abPass' = [abPass EXCEPT ![p].at = "retire",
           ![p].todo = {k \in Keys : abPass[p].existing[k].exists}
                         \ abPass[p].desired,
           ![p].accesses = Idle.accesses, ![p].desired = {}, ![p].zones = 0,
           ![p].shards = {}]
    /\ UNCHANGED <<abOutside, abBinding, abJustified>>

\* confirmAccessWithdrawal: live reads before a binding is withdrawn.
TrustTheList(k) == TRUE

ConfirmAccessWithdrawal(k) == AccessWithdrawn(k)

\* A listed tombstone is deleted once every member has withdrawn it; any
\* other listed binding is confirmed first.
Retire(p, k) ==
    /\ abPass[p].at = "retire" /\ k \in abPass[p].todo
    /\ LET listed == abPass[p].existing[k] IN
       IF listed.tombstone
       THEN /\ abBinding' = IF listed.withdrawn
                            THEN [abBinding EXCEPT ![k] = NoBinding]
                            ELSE abBinding
            /\ abPass' = [(IF listed.withdrawn THEN Outdate(k) ELSE abPass)
                             EXCEPT ![p].todo = @ \ {k}]
       ELSE /\ abPass' = [abPass EXCEPT
                 ![p].todo = @ \ {k},
                 ![p].at = IF ConfirmAccessWithdrawal(k) THEN "patch" ELSE @,
                 ![p].target = IF ConfirmAccessWithdrawal(k) THEN {k} ELSE {}]
            /\ UNCHANGED abBinding
    /\ UNCHANGED <<abOutside, abJustified>>

\* The patch fails, and with it the pass, when the binding has changed.
Tombstone(p) ==
    /\ abPass[p].at = "patch"
    /\ \E k \in abPass[p].target :
       IF k \in abPass[p].held /\ abBinding[k].exists
       THEN /\ abBinding' = [abBinding EXCEPT
                 ![k].tombstone = TRUE, ![k].withdrawn = FALSE,
                 ![k].revision = @ + 1, ![k].sequence = @ + 1]
            /\ abPass' = [Outdate(k) EXCEPT ![p].at = "retire",
                                            ![p].target = {}]
       ELSE /\ abPass' = [abPass EXCEPT ![p] = Idle]
            /\ UNCHANGED abBinding
    /\ UNCHANGED <<abOutside, abJustified>>

PassDone(p) ==
    /\ abPass[p].at = "retire" /\ abPass[p].todo = {}
    /\ abPass' = [abPass EXCEPT ![p] = Idle]
    /\ abJustified' = [abJustified EXCEPT ![p] = {}]
    /\ UNCHANGED <<abOutside, abBinding>>

BindingNext ==
    \/ \E a \in Accesses : CreateAccess(a) \/ DeleteAccess(a)
    \/ ChangeContext \/ ChangeZones \/ Reconfigure
    \/ \E k \in Keys : ReportWithdrawn(k)
    \/ \E p \in Passes :
          \/ StartPass(p) \/ ListBindings(p) \/ AccessesDone(p)
          \/ \E a \in Accesses : ReconcileAccess(p, a)
          \/ \E k \in Keys : Retire(p, k)
          \/ Tombstone(p) \/ PassDone(p)

----------------------------------------------------------------------------
\* A stale list never withdraws a binding: when a pass turns a binding into
\* a tombstone, its access or its context had gone, been replaced or been
\* refused at some moment since that pass began (confirmAccessWithdrawal).
TombstoneIsJustified ==
    \A p \in Passes, k \in Keys :
       (/\ abPass[p].at = "patch" /\ abPass'[p].at = "retire"
        /\ abBinding'[k].tombstone /\ ~abBinding[k].tombstone)
       => k \in abJustified[p]
=============================================================================
