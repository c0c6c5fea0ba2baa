----------------------------- MODULE ZoneCompile -----------------------------
(***************************************************************************)
(* What a private zone publishes: the admission of registrations, their    *)
(* contributions and static record sets, the compiler, and a zone worker   *)
(* that compiles from informer caches (CachedZoneInputs with per-zone      *)
(* reconcile) or from live reads.                                          *)
(*                                                                         *)
(* A registration claims a name for some record types and may reserve      *)
(* whole subtrees of a managed zone; its contributions publish there, and  *)
(* static record sets publish elsewhere.  A plan carries, besides its      *)
(* records, a fence for every contribution ever published: the highest     *)
(* generation seen and whether it is retired, for good.                    *)
(*                                                                         *)
(* Admission checks before the object is stored, so two requests may pass  *)
(* that would not pass one after the other.  The cache catches up with one *)
(* object at a time.  The worker reads, snapshots the state that grants    *)
(* access, compiles, snapshots again and only then publishes; anything may *)
(* change in between.  Who holds the zone is PublicationOwnership's        *)
(* subject; which contexts it is attached to is ZoneAttachment's, and is   *)
(* one Boolean here.  Names are related by Below; what a record renders to *)
(* and its TTL are one Boolean, "valid".                                   *)
(***************************************************************************)
EXTENDS Naturals, FiniteSets, SequencesExt

CONSTANTS
    Regs,          \* names of registrations
    Contribs,      \* names of contributions
    Statics,       \* names of static record sets
    Below,         \* <<n, s>>: name n is strictly below name s
    RegSpecs,      \* spec choices: [at, scopes, types]
    ContribSpecs,  \* spec choices: [recs, eligible, valid]
    StaticSpecs,   \* spec choices: [recs, valid]
    MaxLife,       \* bound: lifetimes of a name
    MaxGen,        \* bound: generations of a lifetime
    MaxChanges     \* bound: requests from outside

VARIABLES
    zcManaged,     \* whether the zone is a resolver context's managed zone
    zcApi,         \* the stored objects
    zcAsked,       \* requests that admission has let through
    zcCache,       \* the objects as the informers hold them
    zcAttached,    \* whether an accepted association attaches the zone
    zcQueue,       \* queued keys: "zone", or the name of a registration
    zcState,       \* zoneInputState: what the worker remembers of the zone
    zcPass,        \* the pass in flight
    zcPlan,        \* the active publication
    zcGap,         \* history: an object came and went unseen by the informers
    zcLives,       \* lifetimes used up, by name
    zcChanges      \* requests made

zcVars == <<zcManaged, zcApi, zcAsked, zcCache, zcAttached, zcQueue, zcState,
            zcPass, zcPlan, zcGap, zcLives, zcChanges>>

Sources == Regs \cup Contribs \cup Statics

Uid(o) == <<o.name, o.life>>
Of(S, names) == {o \in S : o.name \in names}
Named(S, n) == {o \in S : o.name = n}
RegRef(r) == [name |-> r.name, life |-> r.life, gen |-> r.gen]

NoPlan == [claims |-> {}, recs |-> {}, fences |-> {}, regs |-> {},
           attached |-> FALSE, made |-> FALSE]
NoInputs == [regs |-> {}, contribs |-> {}, statics |-> {}]
NoState == [live |-> FALSE, ready |-> FALSE, baseline |-> NoInputs,
            accepted |-> {}]
Idle == [at |-> "idle", cached |-> FALSE, in |-> NoInputs,
         before |-> {}, attached |-> FALSE, moved |-> FALSE,
         plan |-> NoPlan, accepted |-> {}]

ZoneInit ==
    /\ zcManaged \in BOOLEAN
    /\ zcApi = {} /\ zcAsked = {} /\ zcCache = {} /\ zcQueue = {"zone"}
    /\ zcGap = FALSE
    /\ zcAttached \in BOOLEAN
    /\ zcState = NoState /\ zcPass = Idle /\ zcPlan = NoPlan
    /\ zcLives = [n \in Sources |-> 0]
    /\ zcChanges = 0

-----------------------------------------------------------------------------
(* Reserved scopes.                                                        *)

Within(n, s) == n = s \/ <<n, s>> \in Below

(* Every declared subtree, those of terminating registrations included. *)
RegistrationScopes(regs) ==
    IF zcManaged
    THEN UNION {{[at |-> s, uid |-> Uid(r)] : s \in r.spec.scopes} : r \in regs}
    ELSE {}

Match(scopes, n) == \E s \in scopes : Within(n, s.at)

Owner(scopes, r) ==
    \A s \in scopes :
        s.uid = Uid(r) \/ ~ \/ Within(r.spec.at, s.at)
                            \/ \E d \in r.spec.scopes :
                                 Within(d, s.at) \/ Within(s.at, d)

ReservationVersions(regs) ==
    {[uid |-> Uid(r), gen |-> r.gen, dying |-> r.dying] :
        r \in {q \in regs : q.spec.scopes # {}}}

-----------------------------------------------------------------------------
(* The compiler.                                                           *)

(* ValidatePrivateRecordOwner. *)
Supported(n, t) == t \notin {"SOA", "ALIAS"} /\ ~(t = "CNAME" /\ n = "@")

(* A CNAME excludes every other type at its name. *)
ConflictingClaim(claims, n, t, uid) ==
    \E c \in claims : /\ c.at = n /\ c.uid # uid
                      /\ c.type = t \/ "CNAME" \in {c.type, t}

Oldest(S) == SetToSortSeq(S, LAMBDA a, b : a.born < b.born)

(* Static record sets claim first, in the order of their creation. *)
CollectStaticClaims(statics, scopes, rejected) ==
    FoldLeft(LAMBDA acc, s :
        IF \/ s.dying \/ Uid(s) \in rejected \/ ~s.spec.valid
           \/ \E r \in s.spec.recs :
                \/ ~Supported(r.at, r.type) \/ Match(scopes, r.at)
                \/ ConflictingClaim(acc.claims, r.at, r.type, Uid(s))
        THEN acc
        ELSE [claims |-> acc.claims \cup
                {[at |-> r.at, type |-> r.type, uid |-> Uid(s),
                  static |-> TRUE] : r \in s.spec.recs},
              valid |-> acc.valid \cup {s}],
        [claims |-> {}, valid |-> {}], Oldest(statics))

(* Then registrations, in the order of theirs. *)
ClaimRegistrations(regs, scopes, claims) ==
    FoldLeft(LAMBDA acc, r :
        IF \/ r.dying \/ ~Owner(scopes, r)
           \/ \E t \in r.spec.types :
                \/ ~Supported(r.spec.at, t)
                \/ ConflictingClaim(acc.claims, r.spec.at, t, Uid(r))
        THEN acc
        ELSE [claims |-> acc.claims \cup
                {[at |-> r.spec.at, type |-> t, uid |-> Uid(r),
                  static |-> FALSE] : t \in r.spec.types},
              regs |-> acc.regs \cup {r}],
        [claims |-> claims, regs |-> {}], Oldest(regs))

FenceOf(fences, uid) == {f \in fences : f.uid = uid}

ValidateContribution(c, regs, fences) ==
    /\ c.spec.reg \in {RegRef(r) : r \in regs}
    /\ \A f \in FenceOf(fences, Uid(c)) : ~f.retired /\ c.gen >= f.gen

(* recordAllowed and registrationOwns. *)
RecordAllowed(rec, reg, claims) ==
    /\ rec.type \in reg.spec.types
    /\ Supported(rec.at, rec.type)
    /\ ~ConflictingClaim(claims, rec.at, rec.type, Uid(reg))
    /\ rec.at = reg.spec.at \/ \E s \in reg.spec.scopes : Within(rec.at, s)

(* A fence is the highest generation; whatever is absent is retired. *)
PublicationFences(contribs, valid, fences) ==
    {LET old == FenceOf(fences, u)
         new == {c \in valid : Uid(c) = u}
         now == {[uid |-> u, gen |-> c.gen, retired |-> c.dying] : c \in new}
     IN  IF new # {} /\ \A f \in old : \E n \in now : n.gen > f.gen \/ n.retired
         THEN CHOOSE n \in now : TRUE
         ELSE LET f == CHOOSE f \in old : TRUE
              IN  [f EXCEPT !.retired = @ \/ u \notin {Uid(c) : c \in contribs}] :
     u \in {f.uid : f \in fences} \cup {Uid(c) : c \in valid}}

CompileInputs(in, fences, rejected) ==
    LET scopes == RegistrationScopes(in.regs)
        static == CollectStaticClaims(in.statics, scopes, rejected)
        claim  == ClaimRegistrations(in.regs, scopes, static.claims)
        valid  == {c \in in.contribs :
                      ValidateContribution(c, claim.regs, fences)}
        RegOf(c) == CHOOSE r \in claim.regs : RegRef(r) = c.spec.reg
        used   == {c \in valid : /\ Uid(c) \notin rejected
                                 /\ ~c.dying /\ c.spec.eligible /\ c.spec.valid
                                 /\ \A rec \in c.spec.recs :
                                      RecordAllowed(rec, RegOf(c), claim.claims)}
        Recs(S) == UNION {{[at |-> rec.at, type |-> rec.type,
                            target |-> rec.target, uid |-> Uid(o),
                            gen |-> o.gen] : rec \in o.spec.recs} : o \in S}
    IN  [plan |-> [claims |-> claim.claims,
                   recs   |-> Recs(used) \cup Recs(static.valid),
                   fences |-> PublicationFences(in.contribs, valid, fences),
                   regs   |-> {[uid |-> Uid(r), gen |-> r.gen] :
                                  r \in claim.regs},
                   attached |-> FALSE, made |-> TRUE],
         accepted |-> {Uid(o) : o \in used \cup static.valid \cup claim.regs}]

(* An SRV record needs an address at its target in the zone.  A static    *)
(* one rejects every static claim at its name.                            *)
InvalidSRVSources(plan) ==
    LET addressed == {r.at : r \in {q \in plan.recs : q.type = "A"}}
        broken == {r \in plan.recs : r.type = "SRV" /\ r.target \notin addressed}
    IN  {r.uid : r \in {q \in broken : q.uid[1] \in Contribs}} \cup
        {c.uid : c \in {d \in plan.claims : d.static /\ \E r \in broken :
                           r.at = d.at /\ r.uid[1] \in Statics}}

(* Rejecting a source may leave another without its target: repeat until  *)
(* nothing is rejected.                                                   *)
Compile(in, fences) ==
    LET rejected[n \in 0 .. Cardinality(in.contribs \cup in.statics)] ==
            IF n = 0 THEN {}
            ELSE LET known == rejected[n - 1]
                 IN  known \cup InvalidSRVSources(
                                    CompileInputs(in, fences, known).plan)
    IN  CompileInputs(in, fences,
                      rejected[Cardinality(in.contribs \cup in.statics)])

-----------------------------------------------------------------------------
(* Requests and their admission.                                           *)

Stored(n) == Named(zcApi, n)
LiveRegs == Of(zcApi, Regs)

(* authorizeReservationMutation: a reservation of a managed zone is         *)
(* written by callers that may "reserve" (publish: contribute to it).      *)
Authorized(may, r) == zcManaged /\ r.spec.scopes # {} => may

RegistrationAdmitted(r, may) ==
    /\ \A t \in r.spec.types : Supported(r.spec.at, t)
    /\ Authorized(may, r)
    /\ \A old \in Stored(r.name) : Authorized(may, old)
    /\ Owner(RegistrationScopes({q \in LiveRegs : q.name # r.name}), r)

ContributionAdmitted(c, may) ==
    \E r \in LiveRegs :
        /\ c.spec.reg = RegRef(r) /\ ~r.dying
        /\ Owner(RegistrationScopes(LiveRegs), r)
        /\ Authorized(may, r)
        /\ \A rec \in c.spec.recs :
              /\ rec.type \in r.spec.types /\ Supported(rec.at, rec.type)
              /\ rec.at = r.spec.at \/ \E s \in r.spec.scopes : Within(rec.at, s)

RecordSetAdmitted(s) ==
    \A rec \in s.spec.recs : ~Match(RegistrationScopes(LiveRegs), rec.at)

Admitted(o, may) ==
    CASE o.name \in Regs     -> RegistrationAdmitted(o, may)
      [] o.name \in Contribs -> ContributionAdmitted(o, may)
      [] o.name \in Statics  -> RecordSetAdmitted(o)

Specs(n) ==
    CASE n \in Regs     -> RegSpecs
      [] n \in Contribs -> {[reg |-> RegRef(r), recs |-> s.recs, valid |-> s.valid,
                             eligible |-> s.eligible] :
                               r \in LiveRegs, s \in ContribSpecs}
      [] n \in Statics  -> StaticSpecs

Request ==
    /\ zcChanges < MaxChanges
    /\ zcChanges' = zcChanges + 1
    /\ UNCHANGED <<zcManaged, zcCache, zcPlan>>

(* A creation or an update passes admission ... *)
AskFor(n, o, may) ==
    /\ Request
    /\ Named(zcAsked, n) = {}
    /\ Admitted(o, may)
    /\ zcAsked' = zcAsked \cup {o}
    /\ UNCHANGED <<zcApi, zcAttached, zcQueue, zcState, zcPass, zcGap, zcLives>>

AskCreate(n) ==
    /\ Stored(n) = {} /\ zcLives[n] < MaxLife
    /\ \E spec \in Specs(n), may \in BOOLEAN :
          AskFor(n, [name |-> n, life |-> zcLives[n] + 1, gen |-> 1,
                     dying |-> FALSE, born |-> zcChanges, spec |-> spec], may)

(* The name of a registration, and the registration of a contribution, are *)
(* immutable.                                                              *)
AskUpdate(n) ==
    \E old \in Stored(n), spec \in Specs(n), may \in BOOLEAN :
        /\ old.gen < MaxGen /\ spec # old.spec
        /\ n \in Regs => spec.at = old.spec.at
        /\ n \in Contribs => /\ spec.reg.name = old.spec.reg.name
                             /\ spec.reg.life = old.spec.reg.life
        /\ AskFor(n, [old EXCEPT !.gen = @ + 1, !.spec = spec], may)

(* ... and is stored later, unless the object has changed meanwhile. *)
Store ==
    \E o \in zcAsked :
        /\ zcAsked' = zcAsked \ {o}
        /\ IF \/ o.gen = 1 /\ Stored(o.name) = {} /\ zcLives[o.name] = o.life - 1
              \/ \E old \in Stored(o.name) : /\ old.life = o.life /\ ~old.dying
                                             /\ old.gen = o.gen - 1
           THEN /\ zcApi' = (zcApi \ Stored(o.name)) \cup {o}
                /\ zcLives' = [zcLives EXCEPT ![o.name] = o.life]
           ELSE UNCHANGED <<zcApi, zcLives>>
        /\ UNCHANGED <<zcManaged, zcCache, zcAttached, zcQueue, zcState, zcPass,
                       zcPlan, zcGap, zcChanges>>

(* A deletion: at once, or, with a finalizer, in two steps. *)
Delete ==
    \E o \in zcApi, may \in BOOLEAN :
        /\ Request
        /\ o.name \in Regs => Authorized(may, o)
        /\ \/ /\ zcApi' = zcApi \ {o}
              /\ zcGap' = (zcGap \/ Uid(o) \notin {Uid(c) : c \in zcCache})
           \/ /\ ~o.dying /\ UNCHANGED zcGap
              /\ zcApi' = (zcApi \ {o}) \cup {[o EXCEPT !.dying = TRUE, !.gen = @ + 1]}
        /\ UNCHANGED <<zcAsked, zcAttached, zcQueue, zcState, zcPass, zcLives>>

(* The project pass attaches or detaches the zone, and queues it: its       *)
(* project-wide inputs changed (queueZoneIfChanged).                       *)
Attach ==
    /\ Request
    /\ zcAttached' = ~zcAttached
    /\ zcQueue' = zcQueue \cup {"zone"}
    /\ zcPass' = [zcPass EXCEPT !.moved = (zcPass.at # "idle")]
    /\ UNCHANGED <<zcApi, zcAsked, zcState, zcGap, zcLives>>

(* A fault: registrations queue nothing themselves. *)
KeysOfRecords(o) ==
    {IF n \in Contribs THEN o.spec.reg.name ELSE "zone" : n \in {o.name} \ Regs}

(* The keys an event queues: a contribution knows only its registration.   *)
Keys(o) == {IF o.name \in Contribs THEN o.spec.reg.name ELSE "zone"}

(* The informer catches up with one object and hands the event on. *)
Sync ==
    \E n \in Sources :
        /\ Named(zcCache, n) # Stored(n)
        /\ zcCache' = (zcCache \ Named(zcCache, n)) \cup Stored(n)
        /\ zcQueue' = zcQueue \cup UNION {Keys(o) : o \in Named(zcCache, n)
                                                       \cup Stored(n)}
        /\ UNCHANGED <<zcManaged, zcApi, zcAsked, zcAttached, zcState, zcPass,
                       zcPlan, zcGap, zcLives, zcChanges>>

(* queueZoneIfChanged: the project pass queues a zone that has not changed *)
(* once per zoneResync.                                                    *)
Resync ==
    /\ "zone" \notin zcQueue /\ zcPass.at = "idle"
    /\ zcQueue' = zcQueue \cup {"zone"}
    /\ UNCHANGED <<zcManaged, zcApi, zcAsked, zcCache, zcAttached, zcState, zcPass,
                   zcPlan, zcGap, zcLives, zcChanges>>

(* reconcileQueueKey: a registration's key only forwards to its zone's. *)
Forward ==
    \E r \in zcQueue \cap Regs, from \in {zcCache, zcApi} :
        /\ zcQueue' = (zcQueue \ {r}) \cup
                      (IF Named(from, r) # {} THEN {"zone"} ELSE {})
        /\ UNCHANGED <<zcManaged, zcApi, zcAsked, zcCache, zcAttached, zcState,
                       zcPass, zcPlan, zcGap, zcLives, zcChanges>>

-----------------------------------------------------------------------------
(* The zone worker.                                                        *)

ReadFrom(regs, rest) ==
    [regs |-> Of(regs, Regs), statics |-> Of(rest, Statics),
     contribs |-> {c \in Of(rest, Contribs) :
                      c.spec.reg.name \in {r.name : r \in Of(regs, Regs)}}]

(* Reservations are authority: a managed zone's registrations are read     *)
(* live even when the rest comes from the cache.                           *)
ReadZoneInputs(cached) ==
    IF cached THEN ReadFrom(IF zcManaged THEN zcApi ELSE zcCache, zcCache)
              ELSE ReadFrom(zcApi, zcApi)

Objects(in) == in.regs \cup in.contribs \cup in.statics

InputsCaughtUp(cached, live) ==
    /\ {o.name : o \in Objects(cached)} = {o.name : o \in Objects(live)}
    /\ \A l \in Objects(live) : \E c \in Objects(cached) :
          c.name = l.name /\ c.life = l.life /\ c.gen >= l.gen
          /\ c.dying = l.dying

Outside == <<zcManaged, zcApi, zcAsked, zcCache, zcAttached, zcGap, zcLives,
             zcChanges>>

SelectZoneInputs ==
    LET cached == ReadZoneInputs(TRUE)
        caught == zcState.live /\ (zcState.ready
                                   \/ InputsCaughtUp(cached, zcState.baseline))
        live   == ReadZoneInputs(FALSE)
    IN  /\ zcPass.at = "idle" /\ "zone" \in zcQueue
        /\ zcQueue' = zcQueue \ {"zone"}
        /\ zcPass' = [Idle EXCEPT !.at = "selected", !.cached = caught,
                                  !.in = IF caught THEN cached ELSE live]
        /\ zcState' = IF caught THEN [zcState EXCEPT !.ready = TRUE]
                                ELSE [zcState EXCEPT !.baseline = live]
        /\ UNCHANGED <<Outside, zcPlan>>

(* guardZoneAccess: the first snapshot. *)
GuardZoneAccess ==
    /\ zcPass.at = "selected"
    /\ zcPass' = [zcPass EXCEPT !.at = "guarding", !.moved = FALSE,
                                !.before = ReservationVersions(LiveRegs),
                                !.attached = zcAttached]
    /\ UNCHANGED <<Outside, zcQueue, zcState, zcPlan>>

(* confirmContributions: the listed ones and the fenced ones, read again. *)
ConfirmContributions(in, fences) ==
    [in EXCEPT !.contribs = {c \in Of(zcApi, Contribs) :
        c.name \in {d.name : d \in in.contribs}
                   \cup {f.uid[1] : f \in {g \in fences : ~g.retired}}}]

(* cachedFencesCurrent: no cached input is older than what is published... *)
CachedFencesCurrent(in) ==
    /\ \A f \in zcPlan.regs : \E r \in in.regs : Uid(r) = f.uid /\ r.gen >= f.gen
    /\ \A f \in zcPlan.fences : \A c \in in.contribs :
          ~f.retired /\ Uid(c) = f.uid => c.gen >= f.gen

(* A fault: what the cache lacks is taken to be gone. *)
WithoutMissing(in) == in

(* ... and a published contribution that the cache lacks is looked up. *)
WithMissing(in) ==
    LET missing == {f \in zcPlan.fences :
                       ~f.retired /\ f.uid \notin {Uid(c) : c \in in.contribs}}
        found   == UNION {Stored(f.uid[1]) : f \in missing}
    IN  [in EXCEPT !.contribs =
            {c \in @ : c.name \notin {o.name : o \in found}} \cup found]

LosesAccepted(result) == ~(zcState.accepted \subseteq result.accepted)

Compiled(in, result, state) ==
    /\ zcPass' = [zcPass EXCEPT !.at = "compiled", !.in = in,
                                !.accepted = result.accepted,
                                !.plan = [result.plan EXCEPT
                                             !.attached = zcPass.attached]]
    /\ zcState' = state
    /\ UNCHANGED <<Outside, zcQueue, zcPlan>>

(* The live fallback of compileCachedInputs. *)
CompileLive ==
    LET live == ReadZoneInputs(FALSE)
        in   == ConfirmContributions(live, zcPlan.fences)
    IN  Compiled(in, Compile(in, zcPlan.fences),
                 [zcState EXCEPT !.baseline = live, !.ready = FALSE])

CompileCachedInputs ==
    /\ zcPass.at = "guarding"
    /\ IF zcPass.cached
       THEN LET in == WithMissing(zcPass.in)
                result == Compile(in, zcPlan.fences)
            IN  \/ /\ CachedFencesCurrent(zcPass.in) /\ ~LosesAccepted(result)
                   /\ Compiled(in, result, zcState)
                \* older than published, fewer accepted, or the five-minute check
                \/ CompileLive
       ELSE LET in == ConfirmContributions(zcPass.in, zcPlan.fences)
            IN  Compiled(in, Compile(in, zcPlan.fences), zcState)

(* A conflict ends the pass, and the key is queued again. *)
Retry == zcPass' = Idle /\ zcQueue' = zcQueue \cup {"zone"}

(* patchInputStatuses: the verdict on a source that changed since it was   *)
(* read is not written.                                                    *)
Conflict ==
    /\ zcPass.at = "compiled"
    /\ ~(Objects(zcPass.in) \subseteq zcApi)
    /\ Retry
    /\ UNCHANGED <<Outside, zcState, zcPlan>>

(* A fault: the compiled reservations are not compared. *)
SnapshotsAgree ==
    /\ zcPass.before = ReservationVersions(LiveRegs)
    /\ ~zcPass.moved

(* The second snapshot: the same reservations as at first and as compiled, *)
(* the same associations.                                                  *)
AccessUnchanged ==
    /\ zcManaged => zcPass.before = ReservationVersions(zcPass.in.regs)
    /\ zcPass.before = ReservationVersions(LiveRegs)
    /\ ~zcPass.moved

Guard ==
    /\ zcPass.at = "compiled"
    /\ IF AccessUnchanged
       THEN zcPass' = [zcPass EXCEPT !.at = "guarded"] /\ UNCHANGED zcQueue
       ELSE Retry
    /\ UNCHANGED <<Outside, zcState, zcPlan>>

(* The rest of compileZone: an unchanged plan is not published again. *)
Publish ==
    /\ zcPass.at = "guarded"
    /\ zcPlan' = zcPass.plan
    /\ zcState' = [zcState EXCEPT !.live = TRUE, !.accepted = zcPass.accepted]
    /\ zcPass' = Idle
    /\ UNCHANGED <<Outside, zcQueue>>

(* A new writer epoch: the process forgets what it remembered, and the    *)
(* project pass queues the zone.                                           *)
NewEpoch ==
    /\ Request
    /\ zcPass.at = "idle" /\ zcState # NoState
    /\ zcState' = NoState
    /\ zcQueue' = zcQueue \cup {"zone"}
    /\ UNCHANGED <<zcApi, zcAsked, zcAttached, zcPass, zcGap, zcLives>>

ZoneNext ==
    \/ \E n \in Sources : AskCreate(n) \/ AskUpdate(n)
    \/ Store \/ Delete \/ Attach \/ Sync \/ Forward \/ Resync
    \/ SelectZoneInputs \/ GuardZoneAccess \/ CompileCachedInputs \/ Conflict
    \/ Guard \/ Publish \/ NewEpoch

-----------------------------------------------------------------------------
(* Properties.                                                             *)

(* A contribution that the publication has retired for good is really     *)
(* gone, or going: no lag of a cache and no order of reads makes the       *)
(* compiler take an existing contribution for an absent one (compileInputs *)
(* retires what is absent; cachedFencesCurrent and confirmContributions    *)
(* look again).                                                            *)
RetiredIsGone ==
    \A f \in zcPlan.fences : f.retired =>
        \A c \in zcApi : Uid(c) = f.uid => c.dying

(* When the worker has passed its guard, what it is about to publish       *)
(* respects every reservation stored at that moment, although admission    *)
(* lets conflicting declarations through when they race: inside a reserved *)
(* subtree only its one owner's contributions are published.  And the      *)
(* zone is attached as the plan says (Owner, guardZoneAccess).             *)
GuardedRespectsReservations ==
    (zcPass.at = "compiled" /\ zcPass'.at = "guarded") =>
      /\ zcPass'.plan.attached = zcAttached
      /\ zcManaged =>
           \A r \in LiveRegs, rec \in zcPass'.plan.recs : \A s \in r.spec.scopes :
              Within(rec.at, s) =>
                  \E c \in zcPass'.in.contribs :
                      /\ Uid(c) = rec.uid
                      /\ c.spec.reg = RegRef(r)

(* No event is lost: when every informer has caught up and no key is      *)
(* queued, the publication is what a live compile gives, although the      *)
(* event of a contribution knows only its registration, which may not be   *)
(* cached yet (reconcileQueueKey then drops the key), and although a pass  *)
(* may have read before the change.  Only an object that came and went     *)
(* unseen waits for the five-minute resync.                                *)
QuietIsCompiled ==
    (/\ zcPass.at = "idle" /\ zcQueue = {} /\ zcAsked = {} /\ zcCache = zcApi
     /\ ~zcGap) =>
        zcPlan.recs = Compile(ReadZoneInputs(FALSE), zcPlan.fences).plan.recs
=============================================================================
