------------------------ MODULE ZoneReplicationProofs ------------------------
(***************************************************************************)
(* One project serves a domain at a time, it has proven the domain, and    *)
(* nothing of a zone outlives it, for any number of projects, changes and  *)
(* faults.                                                                 *)
(*                                                                         *)
(* The argument: a zone has its finalizer from before the first downstream *)
(* write of its replicator until after the last, so what is downstream     *)
(* belongs to a zone with a finalizer (Kept).  A pass that provisions has  *)
(* the ledger from its claim on, and the anchor of the zone's present UID  *)
(* from before the shadow (Provisioned); a pass that deletes loses them in *)
(* the opposite order (Removed).  While no write of its own is missing     *)
(* from the cache, the cache errs on one side only: it may show a shadow   *)
(* that has gone, never miss one that is there (CacheTells).               *)
(***************************************************************************)
EXTENDS ZoneReplication, TLAPS

Provisioning == {"claim", "domain", "anchor", "create", "patch", "status", "SOA", "NS", "status2"}
Deleting == {"unanchor", "gone", "release", "finalize"}

Provisions(p) == pass.of = p /\ pass.at \in Provisioning
Deletes(p) == pass.of = p /\ pass.at \in Deleting
Reached(p, steps) == pass.of = p /\ pass.at \in steps

Claimed == Provisioning \ {"claim"}
Proven == Claimed \ {"domain"}
Anchored == Proven \ {"anchor"}
Served == {"status", "SOA", "NS", "status2"}
Unanchored == Deleting \ {"unanchor"}
Gone == {"release", "finalize"}

Present(p) == shadow[p].state # "absent"

\* The shape of the state, as TypeOK has it, and of the cache and the pass.
Zone == [state : {"absent", "live", "deleting"}, uid : Nat,
         fin : BOOLEAN, class : BOOLEAN, ns : BOOLEAN, ref : BOOLEAN,
         accepted : {"unset", "noclass", "inuse", "unverified", "nons", "yes"},
         programmed : {"unset", "inuse", "pending", "yes"}]
Shadow == [state : {"absent", "live", "deleting"}, owners : SUBSET Nat, ns : BOOLEAN]

Typed ==
    /\ zone \in [Projects -> Zone]
    /\ domain \in [Projects -> {"none", "unverified", "verified", "revoked"}]
    /\ sets \in [Projects -> SUBSET {"SOA", "NS"}]
    /\ ledger \in [of : Projects \cup {None}, slash : BOOLEAN]
    /\ anchors \in [Projects -> SUBSET Nat]
    /\ shadow \in [Projects -> Shadow]
    /\ cached.shadow \in [Projects -> Shadow]
    /\ lags \in Nat
    /\ \/ pass = Idle
       \/ pass \in [of : Projects, at : Provisioning \cup Deleting]

\* The finalizer covers every pass; deletion passes are of deleted zones.
Finalized(p) ==
    /\ zone[p].state = "deleting" => zone[p].fin
    /\ zone[p].state = "absent" => ~zone[p].fin
    /\ Provisions(p) => zone[p].fin
    /\ Deletes(p) => zone[p].state = "deleting"

\* No shadow without a proof, now or before.
Proof(p) ==
    Present(p) \/ Reached(p, Proven) => domain[p] \in {"verified", "revoked"}

CacheTells ==
    /\ cached.ledger = ledger
    /\ cached.anchors = anchors
    /\ \A p \in Projects : Present(p) => cached.shadow[p].state # "absent"

\* What is downstream belongs to a zone with a finalizer, under its UID.
Kept(p) ==
    /\ ~zone[p].fin => ~Present(p) /\ ledger.of # p
    /\ ~zone[p].fin => anchors[p] = {}
    /\ anchors[p] \subseteq {zone[p].uid}
    /\ Present(p) => ledger.of = p /\ zone[p].uid \in shadow[p].owners
    /\ Present(p) /\ zone[p].uid \in anchors[p] => shadow[p].state = "live"
    /\ Present(p) /\ (zone[p].state = "live" \/ Provisions(p)) => zone[p].uid \in anchors[p]
    /\ zone[p].state = "live" /\ zone[p].programmed = "yes" => Present(p)

Provisioned(p) ==
    /\ Reached(p, Claimed) => ledger.of = p
    /\ Reached(p, Anchored) => zone[p].uid \in anchors[p]
    /\ Reached(p, Served) => Present(p)

Removed(p) ==
    /\ Reached(p, Unanchored) => anchors[p] = {}
    /\ Reached(p, Gone) => ~Present(p)
    /\ Reached(p, {"finalize"}) => ledger.of # p

Accounted ==
    /\ CacheTells
    /\ \A p \in Projects : Kept(p) /\ Provisioned(p) /\ Removed(p)

IInv ==
    /\ Typed
    /\ \A p \in Projects : Finalized(p) /\ Proof(p)
    /\ lags = 0 => Accounted

-----------------------------------------------------------------------------
(* Facts about one state *)

\* Nothing, or one zone from before the upgrade: both are accounted for.
LEMMA Starts == Init => IInv
<1> SUFFICES ASSUME Init PROVE IInv BY Zenon
<1> PICK old \in Projects \cup {None} :
      /\ zone = [p \in Projects |-> IF p # old THEN NoZone ELSE
                   [NoZone EXCEPT !.state = "live", !.uid = 1, !.fin = TRUE, !.class = TRUE]]
      /\ domain = [p \in Projects |-> IF p = old THEN "verified" ELSE "none"]
      /\ sets = [p \in Projects |-> {}]
      /\ ledger = IF old = None THEN Nobody ELSE LegacyOwner(old)
      /\ anchors = [p \in Projects |-> IF p = old THEN {1} ELSE {}]
      /\ shadow = [p \in Projects |-> IF p # old THEN NoShadow ELSE
                     [state |-> "live", owners |-> {1}, ns |-> FALSE]]
      /\ cached = [ledger |-> ledger, anchors |-> anchors, shadow |-> shadow]
      /\ pass = Idle
      /\ lags = 0
  BY Zenon DEF Init
<1>1. Typed
  <2>1. zone \in [Projects -> Zone]
    BY Zenon DEF Zone, NoZone
  <2>2. shadow \in [Projects -> Shadow] /\ anchors \in [Projects -> SUBSET Nat]
    BY DEF Shadow, NoShadow
  <2>3. ledger \in [of : Projects \cup {None}, slash : BOOLEAN]
    BY Zenon DEF Nobody, LegacyOwner
  <2> QED BY <2>1, <2>2, <2>3, Zenon DEF Typed
<1>2. \A p \in Projects : Finalized(p) /\ Proof(p)
  BY ProjectsAssumption, Zenon DEF Finalized, Proof, Present, Reached, Provisions, Deletes, NoZone, NoShadow, Idle
<1>3. Accounted
  BY ProjectsAssumption, Zenon DEF Accounted, CacheTells, Kept, Provisioned, Removed, Present, Reached,
     Provisions, NoZone, NoShadow, Nobody, LegacyOwner, Idle
<1> QED BY <1>1, <1>2, <1>3, Zenon DEF IInv

\* The invariant is what the two properties need.
LEMMA Suffices == IInv => TypeOK /\ ShadowIsAccounted /\ ServedIsProven
<1> SUFFICES ASSUME IInv PROVE TypeOK /\ ShadowIsAccounted /\ ServedIsProven BY Zenon
<1>1. ShadowIsAccounted
  BY Zenon DEF IInv, ShadowIsAccounted, Accounted, Kept, Present, Finalized
<1>2. ServedIsProven
  BY Zenon DEF IInv, ServedIsProven, Accounted, Kept, Present, Finalized, Proof
<1>3. TypeOK
  BY Zenon DEF IInv, Typed, TypeOK, Zone, Shadow
<1> QED BY <1>1, <1>2, <1>3, Zenon

-----------------------------------------------------------------------------
(* A write of the replicator *)

\* While no write has been missed, none is missing from the cache.
LEMMA WritesAreCached ==
    ASSUME NEW l, NEW a, NEW s \in [Projects -> Shadow], Downstream(l, a, s), Typed
    PROVE  /\ ledger' = l /\ anchors' = a /\ shadow' = s
           /\ cached'.shadow \in [Projects -> Shadow]
           /\ lags' \in Nat
           /\ lags' = 0 => lags = 0 /\ (CacheTells => CacheTells')
<1> DEFINE unless(old, new, seen) == IF old = new THEN seen ELSE new
           now == [ledger |-> unless(ledger, l, cached.ledger),
                   anchors |-> unless(anchors, a, cached.anchors),
                   shadow |-> [p \in Projects |-> unless(shadow[p], s[p], cached.shadow[p])]]
<1>1. ledger' = l /\ anchors' = a /\ shadow' = s
  BY Zenon DEF Downstream
<1>2. \/ cached' = now /\ lags' = lags
      \/ lags' = lags + 1 /\ cached' = cached
  BY Zenon DEF Downstream
<1>3. now.shadow \in [Projects -> Shadow]
  BY Zenon DEF Typed
<1>4. CASE cached' = now /\ lags' = lags
  <2>1. CacheTells => CacheTells'
    BY <1>1, <1>4, Zenon DEF CacheTells, Present
  <2> QED BY <1>1, <1>3, <1>4, <2>1, Zenon DEF Typed
<1>5. CASE lags' = lags + 1 /\ cached' = cached
  BY <1>1, <1>5 DEF Typed
<1> QED BY <1>2, <1>4, <1>5, Zenon

-----------------------------------------------------------------------------
(* Steps that leave the downstream cluster alone *)

\* A patch that keeps the identity and the finalizer of a zone, and says
\* Programmed=True only of one that was so or has its shadow.
Mild(q) ==
    /\ zone'[q].uid = zone[q].uid
    /\ zone'[q].fin = zone[q].fin
    /\ \/ zone'[q].state = zone[q].state
       \/ zone[q].state = "live" /\ zone[q].fin /\ zone'[q].state = "deleting"
    /\ zone'[q].programmed = "yes" => zone[q].programmed = "yes" \/ Present(q) \/ lags # 0

\* What was proven stays proven, if only in the past.
StillProven(q) == domain[q] \in {"verified", "revoked"} => domain'[q] \in {"verified", "revoked"}

\* Such steps keep the invariant when the pass goes on where it was, or ends.
LEMMA MildStep ==
    ASSUME IInv,
           zone' \in [Projects -> Zone], \A q \in Projects : Mild(q),
           domain' \in [Projects -> {"none", "unverified", "verified", "revoked"}],
           \A q \in Projects : StillProven(q),
           sets' \in [Projects -> SUBSET {"SOA", "NS"}],
           pass' \in {pass, Idle},
           UNCHANGED <<downstream, cached, lags>>
    PROVE  IInv'
<1> USE DEF downstream
<1>1. Typed'
  BY Zenon DEF IInv, Typed
<1>2. \A q \in Projects : Finalized(q)' /\ Proof(q)'
  <2> TAKE q \in Projects
  <2>1. Provisions(q)' => Provisions(q)
    BY ProjectsAssumption DEF Idle, Provisions
  <2>2. Deletes(q)' => Deletes(q)
    BY ProjectsAssumption DEF Idle, Deletes
  <2>3. Reached(q, Proven)' => Reached(q, Proven)
    BY ProjectsAssumption DEF Idle, Reached
  <2>4. Finalized(q) /\ Proof(q) /\ Mild(q) /\ StillProven(q)
    BY Zenon DEF IInv
  <2>5. Finalized(q)'
    BY <2>1, <2>2, <2>4 DEF Finalized, Mild
  <2> QED BY <2>3, <2>4, <2>5, Zenon DEF Proof, Present, StillProven
<1>3. ASSUME lags' = 0 PROVE Accounted'
  <2>1. Accounted
    BY <1>3, Zenon DEF IInv
  <2>2. CacheTells'
    BY <2>1, Zenon DEF Accounted, CacheTells, Present
  <2>3. ASSUME NEW q \in Projects PROVE Kept(q)' /\ Provisioned(q)' /\ Removed(q)'
    <3>1. Provisions(q)' => Provisions(q)
      BY ProjectsAssumption DEF Idle, Provisions
    <3>2. Kept(q) /\ Provisioned(q) /\ Removed(q) /\ Mild(q)
      BY <2>1, Zenon DEF Accounted
    <3>3. Kept(q)'
      BY <3>1, <3>2, <1>3, Zenon DEF Kept, Mild, Present
    <3>4. Provisioned(q)' /\ Removed(q)'
      BY <3>2, ProjectsAssumption DEF Provisioned, Removed, Reached, Present, Idle, Mild
    <3> QED BY <3>3, <3>4, Zenon
  <2> QED BY <2>2, <2>3, Zenon DEF Accounted
<1> QED BY <1>1, <1>2, <1>3, Zenon DEF IInv

\* The status patches of a pass.
Same(a, b) == a \in Zone /\ a.uid = b.uid /\ a.fin = b.fin /\ a.state = b.state

LEMMA PatchesKeep ==
    ASSUME NEW z \in Zone
    PROVE  /\ Same(InUse(z), z) /\ InUse(z).programmed = "inuse"
           /\ Same(Referring(z), z) /\ Referring(z).programmed = z.programmed
           /\ Same(PendingVerification(z), z) /\ PendingVerification(z).programmed = z.programmed
           /\ LET n == [z EXCEPT !.accepted = "noclass"]
              IN  Same(n, z) /\ n.programmed = z.programmed
           /\ LET n == [z EXCEPT !.class = TRUE]
              IN  Same(n, z) /\ n.programmed = z.programmed
<1>1. Same(InUse(z), z) /\ InUse(z).programmed = "inuse"
  BY Zenon DEF InUse, Same, Zone
<1>2. Same(Referring(z), z) /\ Referring(z).programmed = z.programmed
  BY Zenon DEF Referring, Same, Zone
<1>3. Same(PendingVerification(z), z) /\ PendingVerification(z).programmed = z.programmed
  BY Zenon DEF PendingVerification, Same, Zone
<1>4. LET n == [z EXCEPT !.accepted = "noclass"]
      IN  Same(n, z) /\ n.programmed = z.programmed
  BY Zenon DEF Same, Zone
<1>5. LET n == [z EXCEPT !.class = TRUE]
      IN  Same(n, z) /\ n.programmed = z.programmed
  BY Zenon DEF Same, Zone
<1> QED BY <1>1, <1>2, <1>3, <1>4, <1>5, Zenon

\* updateStatus
LEMMA StatusKeeps ==
    ASSUME NEW p \in Projects, NEW z \in Zone, Typed
    PROVE  Same(SynthesizedStatus(p, z), z)
<1> DEFINE n == z.ns \/ cached.shadow[p].ns
<1>1. n \in BOOLEAN
  BY Zenon DEF Zone, Shadow, Typed
<1>2. SynthesizedStatus(p, z) =
        [z EXCEPT !.ns = n, !.ref = domain[p] # "none",
                  !.accepted = IF n THEN "yes" ELSE "nons",
                  !.programmed = IF n /\ HasApexSets(p) THEN "yes" ELSE "pending"]
  BY Zenon DEF SynthesizedStatus
<1> HIDE DEF n
<1> QED BY <1>1, <1>2, Zenon DEF Same, Zone

\* A zone object comes or goes while nothing of it is downstream.
LEMMA BareStep ==
    ASSUME IInv, NEW p \in Projects, NEW z \in Zone,
           zone' = [zone EXCEPT ![p] = z],
           ~z.fin, z.state # "deleting", z.programmed = "unset",
           ~Provisions(p)', ~Deletes(p)', pass' \in {pass, Idle},
           lags = 0 => ~Present(p) /\ anchors[p] = {} /\ ledger.of # p,
           UNCHANGED <<domain, sets, downstream, cached, lags>>
    PROVE  IInv'
<1> USE DEF downstream
<1>0. zone'[p] = z /\ \A q \in Projects \ {p} : zone'[q] = zone[q]
  BY Zenon DEF IInv, Typed
<1>a. \A q \in Projects : (Provisions(q)' => Provisions(q)) /\ (Deletes(q)' => Deletes(q))
  BY ProjectsAssumption DEF Idle, Provisions, Deletes
<1>b. ~Reached(p, Claimed)' /\ ~Reached(p, Anchored)' /\ ~Reached(p, Served)'
  BY Zenon DEF Provisions, Reached, Claimed, Anchored, Proven, Served, Provisioning
<1>c. ~Reached(p, Unanchored)' /\ ~Reached(p, Gone)' /\ ~Reached(p, {"finalize"})'
  BY Zenon DEF Deletes, Reached, Deleting, Unanchored, Gone
<1>1. Typed'
  BY Zenon DEF IInv, Typed
<1>2. \A q \in Projects : Finalized(q)'
  BY <1>0, <1>a, ZenonT(40) DEF Finalized, IInv
<1>3. \A q \in Projects : Proof(q)'
  BY ProjectsAssumption DEF Proof, IInv, Present, Reached, Idle
<1>4. ASSUME lags' = 0 PROVE Accounted'
  <2>1. Accounted
    BY <1>4, Zenon DEF IInv
  <2>2. CacheTells'
    BY <2>1, Zenon DEF Accounted, CacheTells, Present
  <2>3. Kept(p)' /\ Provisioned(p)' /\ Removed(p)'
    <3>1. ~Present(p)' /\ anchors'[p] = {} /\ ledger'.of # p /\ ~zone'[p].fin
      BY <1>0, <1>4, Zenon DEF Present
    <3>2. zone'[p].programmed = "unset"
      BY <1>0, Zenon
    <3>3. Kept(p)'
      BY <3>1, <3>2, Zenon DEF Kept
    <3> QED BY <1>b, <1>c, <3>3, Zenon DEF Provisioned, Removed
  <2>4. ASSUME NEW q \in Projects \ {p} PROVE Kept(q)' /\ Provisioned(q)' /\ Removed(q)'
    <3>1. Kept(q) /\ Provisioned(q) /\ Removed(q)
      BY <2>1, Zenon DEF Accounted
    <3>2. zone'[q] = zone[q] /\ Present(q)' = Present(q)
      BY <1>0, Zenon DEF Present
    <3>3. Kept(q)'
      BY <1>a, <3>1, <3>2, Zenon DEF Kept
    <3>4. Provisioned(q)' /\ Removed(q)'
      BY <3>1, <3>2, ProjectsAssumption DEF Provisioned, Removed, Reached, Idle
    <3> QED BY <3>3, <3>4, Zenon
  <2> QED BY <2>2, <2>3, <2>4, Zenon DEF Accounted
<1> QED BY <1>1, <1>2, <1>3, <1>4, Zenon DEF IInv

-----------------------------------------------------------------------------
(* What users and the Domain controller do *)

\* Users touch no zone that has a finalizer other than by marking it deleted.
LEMMA UpstreamStep ==
    ASSUME IInv, NEW p \in Projects,
           \/ CreateZone(p) \/ DeleteZone(p) \/ NameClass(p) \/ Verify(p)
           \/ \E t \in {"SOA", "NS"} : LoseSet(p, t)
    PROVE  IInv'
<1> USE DEF downstream
<1>0. UNCHANGED <<downstream, cached, pass, lags>>
  BY Zenon DEF CreateZone, DeleteZone, NameClass, Verify, LoseSet, Change
<1>z. zone \in [Projects -> Zone] /\ zone[p] \in Zone
  BY Zenon DEF IInv, Typed
<1>f. Finalized(p) /\ (lags = 0 => Kept(p))
  BY Zenon DEF IInv, Accounted
<1>t. /\ domain \in [Projects -> {"none", "unverified", "verified", "revoked"}]
      /\ sets \in [Projects -> SUBSET {"SOA", "NS"}]
  BY Zenon DEF IInv, Typed
<1>1. CASE CreateZone(p)
  <2>1. PICK named \in BOOLEAN :
          zone' = [zone EXCEPT ![p] = [NoZone EXCEPT !.state = "live", !.class = named,
                                                    !.uid = zone[p].uid + 1]]
    BY <1>1, Zenon DEF CreateZone
  <2> DEFINE z == [NoZone EXCEPT !.state = "live", !.class = named, !.uid = zone[p].uid + 1]
  <2>2. zone[p].uid + 1 \in Nat
    BY <1>z DEF Zone
  <2>3. z \in Zone /\ ~z.fin /\ z.state = "live" /\ z.programmed = "unset"
    BY <2>2, Zenon DEF NoZone, Zone
  <2>4. zone[p].state = "absent" /\ UNCHANGED <<domain, sets>>
    BY <1>1, Zenon DEF CreateZone
  <2>5. ~zone[p].fin /\ ~Provisions(p) /\ ~Deletes(p)
    BY <1>f, <2>4, Zenon DEF Finalized
  <2>6. ~Provisions(p)' /\ ~Deletes(p)'
    BY <1>0, <2>5, Zenon DEF Provisions, Deletes
  <2>7. lags = 0 => ~Present(p) /\ anchors[p] = {} /\ ledger.of # p
    BY <1>f, <2>5, Zenon DEF Kept
  <2> HIDE DEF z
  <2> QED BY <1>0, <2>1, <2>3, <2>4, <2>6, <2>7, BareStep, Zenon DEF z
<1>2. CASE DeleteZone(p)
  <2>1. /\ zone[p].state = "live"
        /\ zone' = [zone EXCEPT ![p] = IF @.fin THEN [@ EXCEPT !.state = "deleting"]
                                                ELSE [NoZone EXCEPT !.uid = zone[p].uid]]
        /\ UNCHANGED <<domain, sets>>
    BY <1>2, Zenon DEF DeleteZone
  <2>2. CASE zone[p].fin
    <3> DEFINE z == [zone[p] EXCEPT !.state = "deleting"]
    <3>1. z \in Zone /\ z.uid = zone[p].uid /\ z.fin = zone[p].fin
          /\ z.programmed = zone[p].programmed /\ z.state = "deleting"
      BY <1>z, Zenon DEF Zone
    <3>2. zone' = [zone EXCEPT ![p] = z]
      BY <2>1, <2>2, <1>z, Zenon
    <3> HIDE DEF z
    <3>3. zone' \in [Projects -> Zone] /\ \A q \in Projects : Mild(q)
      BY <1>z, <2>1, <2>2, <3>1, <3>2, Zenon DEF Mild
    <3> QED BY <1>0, <1>t, <2>1, <3>3, MildStep, Zenon DEF StillProven
  <2>3. CASE ~zone[p].fin
    <3> DEFINE z == [NoZone EXCEPT !.uid = zone[p].uid]
    <3>1. z \in Zone /\ ~z.fin /\ z.state = "absent" /\ z.programmed = "unset"
      BY <1>z, Zenon DEF Zone, NoZone
    <3>2. zone' = [zone EXCEPT ![p] = z]
      BY <2>1, <2>3, <1>z, Zenon
    <3>3. ~Provisions(p)' /\ ~Deletes(p)'
      BY <1>0, <1>f, <2>1, <2>3, Zenon DEF Provisions, Deletes, Finalized
    <3>4. lags = 0 => ~Present(p) /\ anchors[p] = {} /\ ledger.of # p
      BY <1>f, <2>3, Zenon DEF Kept
    <3> HIDE DEF z
    <3> QED BY <1>0, <2>1, <3>1, <3>2, <3>3, <3>4, BareStep, Zenon
  <2> QED BY <2>2, <2>3, Zenon
<1>3. CASE NameClass(p)
  <2> DEFINE z == [zone[p] EXCEPT !.class = TRUE]
  <2>1. zone' = [zone EXCEPT ![p] = z] /\ UNCHANGED <<domain, sets>>
    BY <1>3, Zenon DEF NameClass
  <2>2. Same(z, zone[p]) /\ z.programmed = zone[p].programmed
    BY <1>z, PatchesKeep, Zenon
  <2> HIDE DEF z
  <2>3. zone' \in [Projects -> Zone] /\ \A q \in Projects : Mild(q)
    BY <1>z, <2>1, <2>2, Zenon DEF Mild, Same
  <2> QED BY <1>0, <1>t, <2>1, <2>3, MildStep, Zenon DEF StillProven
<1>4. CASE Verify(p)
  <2>1. /\ domain' = [domain EXCEPT ![p] = IF @ = "verified" THEN "revoked" ELSE "verified"]
        /\ UNCHANGED <<zone, sets>>
    BY <1>4, Zenon DEF Verify
  <2>2. /\ domain' \in [Projects -> {"none", "unverified", "verified", "revoked"}]
        /\ \A q \in Projects : StillProven(q)
    BY <1>t, <2>1, Zenon DEF StillProven
  <2>3. \A q \in Projects : Mild(q)
    BY <2>1, Zenon DEF Mild
  <2> QED BY <1>0, <1>t, <1>z, <2>1, <2>2, <2>3, MildStep, Zenon
<1>5. ASSUME NEW t \in {"SOA", "NS"}, LoseSet(p, t) PROVE IInv'
  <2>1. sets' = [sets EXCEPT ![p] = @ \ {t}] /\ UNCHANGED <<zone, domain>>
    BY <1>5, Zenon DEF LoseSet
  <2>2. sets' \in [Projects -> SUBSET {"SOA", "NS"}]
    BY <1>t, <2>1, Zenon
  <2>3. \A q \in Projects : Mild(q) /\ StillProven(q)
    BY <2>1, Zenon DEF Mild, StillProven
  <2> QED BY <1>0, <1>t, <1>z, <2>1, <2>2, <2>3, MildStep, Zenon
<1> QED BY <1>1, <1>2, <1>3, <1>4, <1>5, Zenon

-----------------------------------------------------------------------------
(* What happens elsewhere *)

\* The garbage collector and the downstream operator.
LEMMA ClusterStep == ASSUME IInv, NEW p \in Projects, Cluster(p) PROVE IInv'
<1> USE DEF upstream, Elsewhere
<1>0. UNCHANGED <<upstream, ledger, anchors, cached, pass, lags>>
  BY Zenon DEF Cluster, CollectShadow, ReportNameservers, ReleaseShadow
<1>1. PICK s \in Shadow :
        /\ shadow' = [shadow EXCEPT ![p] = s]
        /\ shadow[p].state # "absent"
        /\ s.state # "absent" => s.owners = shadow[p].owners
        /\ \/ s.state = shadow[p].state
           \/ s.state = "absent" /\ shadow[p].state = "deleting"
           \/ s.state = "deleting" /\ shadow[p].owners \cap anchors[p] = {}
  <2>0. shadow[p] \in Shadow
    BY Zenon DEF IInv, Typed
  <2>1. CASE CollectShadow(p)
    <3> DEFINE s == [shadow[p] EXCEPT !.state = "deleting"]
    <3>1. s \in Shadow /\ s.owners = shadow[p].owners /\ s.state = "deleting"
      BY <2>0, Zenon DEF Shadow
    <3> QED BY <2>1, <3>1, Zenon DEF CollectShadow
  <2>2. CASE ReportNameservers(p)
    <3> DEFINE s == [shadow[p] EXCEPT !.ns = TRUE]
    <3>1. s \in Shadow /\ s.owners = shadow[p].owners /\ s.state = shadow[p].state
      BY <2>0, Zenon DEF Shadow
    <3> QED BY <2>2, <3>1, Zenon DEF ReportNameservers
  <2>3. CASE ReleaseShadow(p)
    <3>1. NoShadow \in Shadow /\ NoShadow.state = "absent"
      BY Zenon DEF Shadow, NoShadow
    <3> QED BY <2>3, <3>1, Zenon DEF ReleaseShadow
  <2> QED BY <2>1, <2>2, <2>3, Zenon DEF Cluster
<1>2. shadow \in [Projects -> Shadow]
  BY Zenon DEF IInv, Typed
<1>3. /\ shadow' \in [Projects -> Shadow] /\ shadow'[p] = s
      /\ \A q \in Projects \ {p} : shadow'[q] = shadow[q]
  BY <1>1, <1>2, Zenon
<1>4. Typed'
  BY <1>0, <1>3, Zenon DEF IInv, Typed
<1>5. \A q \in Projects : Present(q)' => Present(q)
  BY <1>1, <1>3, Zenon DEF Present
<1>6. \A q \in Projects : Finalized(q)' /\ Proof(q)'
  BY <1>0, <1>5, Zenon DEF IInv, Finalized, Proof, Reached, Provisions, Deletes
<1>7. ASSUME lags' = 0 PROVE Accounted'
  <2>1. Accounted
    BY <1>0, <1>7, Zenon DEF IInv
  <2>2. CacheTells'
    BY <1>0, <1>5, <2>1, Zenon DEF Accounted, CacheTells
  <2>3. Kept(p) /\ Provisioned(p) /\ Removed(p)
    BY <2>1, Zenon DEF Accounted
  <2>4. zone[p].uid \in anchors[p] => s.state = "live"
    BY <1>1, <2>3, Zenon DEF Kept, Present
  <2>5. Kept(p)'
    BY <1>0, <1>1, <1>3, <2>3, <2>4, Zenon DEF Kept, Present, Provisions
  <2>6. Provisioned(p)'
    BY <1>0, <1>3, <2>3, <2>4, Zenon DEF Provisioned, Present, Reached, Served, Anchored, Proven, Claimed, Provisioning
  <2>7. Removed(p)'
    BY <1>0, <1>5, <2>3, Zenon DEF Removed, Reached
  <2>8. ASSUME NEW q \in Projects \ {p} PROVE Kept(q)' /\ Provisioned(q)' /\ Removed(q)'
    <3>1. Kept(q) /\ Provisioned(q) /\ Removed(q) /\ shadow'[q] = shadow[q]
      BY <1>3, <2>1, Zenon DEF Accounted
    <3> QED BY <1>0, <3>1, Zenon DEF Kept, Provisioned, Removed, Present, Provisions, Reached
  <2> QED BY <2>2, <2>5, <2>6, <2>7, <2>8, Zenon DEF Accounted
<1> QED BY <1>4, <1>6, <1>7, Zenon DEF IInv

\* The watch of the downstream cluster delivers.
LEMMA CatchUpStep == ASSUME IInv, CatchUp PROVE IInv'
<1> USE DEF upstream, downstream, CatchUp
<1>1. Typed'
  BY Zenon DEF IInv, Typed
<1>2. \A q \in Projects : Finalized(q)' /\ Proof(q)'
  BY Zenon DEF IInv, Finalized, Proof, Present, Reached, Provisions, Deletes
<1>3. ASSUME lags' = 0 PROVE Accounted'
  <2>1. Accounted
    BY <1>3, Zenon DEF IInv
  <2>2. CacheTells'
    BY Zenon DEF CacheTells, Present
  <2> QED BY <2>1, <2>2, ZenonT(40) DEF Accounted, Kept, Provisioned, Removed, Present, Provisions, Reached
<1> QED BY <1>1, <1>2, <1>3, Zenon DEF IInv

\* What concerns no zone in particular, and a pass that is cut short.
LEMMA OtherStep == ASSUME IInv, CreateClass \/ Resync \/ Abort \/ UNCHANGED zrVars PROVE IInv'
<1> USE DEF upstream, downstream
<1>1. UNCHANGED <<zone, domain, sets, downstream, cached, lags>> /\ pass' \in {pass, Idle}
  BY Zenon DEF CreateClass, Change, Resync, Abort, Done, zrVars
<1>2. \A q \in Projects : Mild(q) /\ StillProven(q)
  BY <1>1, Zenon DEF Mild, StillProven
<1>3. /\ zone \in [Projects -> Zone]
      /\ domain \in [Projects -> {"none", "unverified", "verified", "revoked"}]
      /\ sets \in [Projects -> SUBSET {"SOA", "NS"}]
  BY Zenon DEF IInv, Typed
<1> QED BY <1>1, <1>2, <1>3, MildStep, Zenon

-----------------------------------------------------------------------------
(* The pass of a zone *)

\* A pass concerns its own zone: what it does to that zone's part of the
\* invariant is all there is to show.
LEMMA PassStep ==
    ASSUME IInv, NEW p \in Projects, NEW n \in Provisioning \cup Deleting,
           pass' = [of |-> p, at |-> n],
           Typed', Finalized(p)', Proof(p)',
           \A q \in Projects \ {p} :
              /\ zone'[q] = zone[q] /\ shadow'[q] = shadow[q] /\ anchors'[q] = anchors[q]
              /\ domain'[q] = domain[q]
              /\ lags' = 0 => (ledger'.of = q <=> ledger.of = q),
           lags' = 0 => lags = 0 /\ (Accounted => CacheTells' /\ Kept(p)' /\ Provisioned(p)' /\ Removed(p)')
    PROVE  IInv'
<1>1. ASSUME NEW q \in Projects \ {p}
      PROVE  /\ ~Provisions(q)' /\ ~Deletes(q)' /\ ~Reached(q, Claimed)' /\ ~Reached(q, Proven)'
             /\ ~Reached(q, Anchored)' /\ ~Reached(q, Served)' /\ ~Reached(q, Unanchored)'
             /\ ~Reached(q, Gone)' /\ ~Reached(q, {"finalize"})'
  BY Zenon DEF Provisions, Deletes, Reached
<1>2. \A q \in Projects : Finalized(q)' /\ Proof(q)'
  <2>1. ASSUME NEW q \in Projects \ {p} PROVE Finalized(q)' /\ Proof(q)'
    <3>1. Finalized(q) /\ Proof(q)
      BY Zenon DEF IInv
    <3> QED BY <1>1, <3>1, Zenon DEF Finalized, Proof, Present
  <2> QED BY <2>1, Zenon
<1>3. ASSUME lags' = 0 PROVE Accounted'
  <2>1. Accounted
    BY <1>3, Zenon DEF IInv
  <2>2. ASSUME NEW q \in Projects \ {p} PROVE Kept(q)' /\ Provisioned(q)' /\ Removed(q)'
    <3>1. Kept(q)
      BY <2>1, Zenon DEF Accounted
    <3> QED BY <1>1, <1>3, <3>1, Zenon DEF Kept, Provisioned, Removed, Present
  <2> QED BY <1>3, <2>1, <2>2, Zenon DEF Accounted
<1> QED BY <1>2, <1>3, Zenon DEF IInv

\* Facts every step of a pass uses.
LEMMA PassFacts ==
    ASSUME IInv, NEW p \in Projects
    PROVE  /\ Typed /\ zone[p] \in Zone /\ Finalized(p) /\ Proof(p)
           /\ Accounted => CacheTells /\ Kept(p) /\ Provisioned(p) /\ Removed(p)
BY Zenon DEF IInv, Typed, Accounted

\* A pass ends with at most a mild patch of its zone.
LEMMA PassEnds ==
    ASSUME IInv, NEW p \in Projects, NEW z \in Zone,
           zone' = [zone EXCEPT ![p] = z], Same(z, zone[p]),
           z.programmed = "yes" => zone[p].programmed = "yes" \/ Present(p) \/ lags # 0,
           domain' \in [Projects -> {"none", "unverified", "verified", "revoked"}],
           \A q \in Projects : StillProven(q),
           pass' = Idle,
           UNCHANGED <<sets, downstream, cached, lags>>
    PROVE  IInv'
<1>1. zone' \in [Projects -> Zone] /\ \A q \in Projects : Mild(q)
  BY Zenon DEF IInv, Typed, Mild, Same
<1>2. sets' \in [Projects -> SUBSET {"SOA", "NS"}]
  BY Zenon DEF IInv, Typed
<1> QED BY <1>1, <1>2, MildStep, Zenon

\* The finalizer, or on to the calls.
LEMMA StartStep == ASSUME IInv, NEW p \in Projects, Start(p) PROVE IInv'
<1> USE DEF downstream, Calls, PatchZone, Done
<1>0. pass = Idle /\ UNCHANGED <<sets, downstream, cached, lags, domain>>
  BY Zenon DEF Start
<1>i. \A q \in Projects : pass.of # q
  BY <1>0, ProjectsAssumption, Zenon DEF Idle
<1>f. /\ Typed /\ zone[p] \in Zone /\ Finalized(p) /\ Proof(p)
      /\ Accounted => CacheTells /\ Kept(p) /\ Provisioned(p) /\ Removed(p)
  BY PassFacts, Zenon
<1>z. zone \in [Projects -> Zone] /\ \A q \in Projects : StillProven(q)
  BY <1>0, <1>f, Zenon DEF Typed, StillProven
<1>d. domain' \in [Projects -> {"none", "unverified", "verified", "revoked"}]
  BY <1>0, <1>f, Zenon DEF Typed
<1>1. CASE zone' = [zone EXCEPT ![p] = zone[p]] /\ pass' = Idle
  <2>1. Same(zone[p], zone[p])
    BY <1>f, Zenon DEF Same
  <2> QED BY <1>0, <1>f, <1>z, <1>d, <1>1, <2>1, PassEnds, Zenon
<1>2. CASE /\ zone[p].state = "live" /\ ~zone[p].fin
           /\ zone' = [zone EXCEPT ![p] = [zone[p] EXCEPT !.fin = TRUE]]
           /\ pass' = Idle
  <2> DEFINE z == [zone[p] EXCEPT !.fin = TRUE]
  <2>1. z \in Zone /\ z.fin /\ z.uid = zone[p].uid /\ z.state = "live" /\ z.programmed = zone[p].programmed
    BY <1>2, <1>f, Zenon DEF Zone
  <2>2. zone' = [zone EXCEPT ![p] = z]
    BY <1>2, Zenon
  <2> HIDE DEF z
  <2>3. zone'[p] = z /\ \A q \in Projects \ {p} : zone'[q] = zone[q]
    BY <1>z, <2>2, Zenon
  <2>4. Typed'
    <3>1. zone' \in [Projects -> Zone]
      BY <1>z, <2>1, <2>2, Zenon
    <3> QED BY <1>0, <1>2, <1>f, <3>1, Zenon DEF Typed
  <2>5. \A q \in Projects : Finalized(q)' /\ Proof(q)'
    BY <1>0, <1>2, <1>i, <2>1, <2>3, ZenonT(40) DEF IInv, Finalized, Proof, Present, Provisions, Deletes, Reached
  <2>6. ASSUME lags' = 0 PROVE Accounted'
    <3>1. Accounted
      BY <1>0, <2>6, Zenon DEF IInv
    <3>2. CacheTells'
      BY <1>0, <3>1, Zenon DEF Accounted, CacheTells, Present
    <3>3. Kept(p)'
      BY <1>0, <1>2, <1>i, <1>f, <2>1, <2>3, <3>1, Zenon DEF Kept, Present, Provisions
    <3>4. \A q \in Projects \ {p} : Kept(q)'
      BY <1>0, <1>2, <1>i, <2>3, <3>1, ZenonT(40) DEF Accounted, Kept, Present, Provisions
    <3>5. \A q \in Projects : Provisioned(q)' /\ Removed(q)'
      BY <1>0, <1>2, <1>i, Zenon DEF Provisioned, Removed, Reached
    <3> QED BY <3>2, <3>3, <3>4, <3>5, Zenon DEF Accounted
  <2> QED BY <2>4, <2>5, <2>6, Zenon DEF IInv
<1>3. CASE zone' = [zone EXCEPT ![p] = [zone[p] EXCEPT !.accepted = "noclass"]] /\ pass' = Idle
  <2> DEFINE z == [zone[p] EXCEPT !.accepted = "noclass"]
  <2>1. Same(z, zone[p]) /\ z.programmed = zone[p].programmed
    BY <1>f, PatchesKeep, Zenon
  <2>2. zone' = [zone EXCEPT ![p] = z]
    BY <1>3, Zenon
  <2> HIDE DEF z
  <2>3. z \in Zone
    BY <2>1, Zenon DEF Same
  <2> QED BY <1>0, <1>z, <1>d, <1>3, <2>1, <2>2, <2>3, PassEnds, Zenon
<1>4. CASE /\ zone[p].state = "live" /\ zone[p].fin
           /\ zone' = [zone EXCEPT ![p] = zone[p]] /\ pass' = [of |-> p, at |-> "claim"]
  <2>1. zone' = zone
    BY <1>4, <1>z, Zenon
  <2>2. pass'.of = p /\ pass'.at = "claim" /\ "claim" \in Provisioning
    BY <1>4, Zenon DEF Provisioning
  <2>3. Typed'
    BY <1>0, <1>f, <1>4, <2>1, <2>2, Zenon DEF Typed
  <2>4. Finalized(p)' /\ Proof(p)'
    BY <1>0, <1>f, <1>4, <2>1, <2>2, Zenon DEF Finalized, Proof, Present, Provisions, Deletes, Deleting,
       Reached, Proven, Claimed
  <2>5. Accounted => CacheTells' /\ Kept(p)' /\ Provisioned(p)' /\ Removed(p)'
    BY <1>0, <1>f, <1>4, <2>1, <2>2, Zenon DEF CacheTells, Kept, Provisioned, Removed, Present, Reached,
       Claimed, Anchored, Proven, Served, Unanchored, Deleting, Gone
  <2> QED BY <1>0, <1>4, <2>1, <2>2, <2>3, <2>4, <2>5, PassStep, Zenon
<1>5. CASE /\ zone[p].state = "deleting"
           /\ zone' = [zone EXCEPT ![p] = zone[p]] /\ pass' = [of |-> p, at |-> "unanchor"]
  <2>1. zone' = zone
    BY <1>5, <1>z, Zenon
  <2>2. pass'.of = p /\ pass'.at = "unanchor" /\ "unanchor" \in Deleting
    BY <1>5, Zenon DEF Deleting
  <2>3. Typed'
    BY <1>0, <1>f, <1>5, <2>1, <2>2, Zenon DEF Typed
  <2>4. Finalized(p)' /\ Proof(p)'
    BY <1>0, <1>f, <1>5, <2>1, <2>2, Zenon DEF Finalized, Proof, Present, Provisions, Deletes, Provisioning,
       Reached, Proven, Claimed
  <2>5. Accounted => CacheTells' /\ Kept(p)' /\ Provisioned(p)' /\ Removed(p)'
    BY <1>0, <1>f, <1>5, <2>1, <2>2, Zenon DEF CacheTells, Kept, Provisioned, Removed, Present, Reached,
       Provisions, Provisioning, Claimed, Anchored, Proven, Served, Unanchored, Gone
  <2> QED BY <1>0, <1>5, <2>1, <2>2, <2>3, <2>4, <2>5, PassStep, Zenon
<1> QED BY <1>1, <1>2, <1>3, <1>4, <1>5, Zenon DEF Start

\* ensureZoneAccounting: the ledger is this project's before the pass goes on.
LEMMA ClaimStep == ASSUME IInv, NEW p \in Projects, Claim(p) PROVE IInv'
<1> USE DEF downstream, Calls, PatchZone, Done, Goto
<1>0. pass = [of |-> p, at |-> "claim"] /\ UNCHANGED <<sets, domain>>
  BY Zenon DEF Claim, At
<1>f. /\ Typed /\ zone[p] \in Zone /\ Finalized(p) /\ Proof(p)
      /\ Accounted => CacheTells /\ Kept(p) /\ Provisioned(p) /\ Removed(p)
  BY PassFacts, Zenon
<1>p. Provisions(p)
  BY <1>0, Zenon DEF Provisions, Provisioning
<1>z. /\ zone \in [Projects -> Zone] /\ shadow \in [Projects -> Shadow]
      /\ \A q \in Projects : StillProven(q)
  BY <1>0, <1>f, Zenon DEF Typed, StillProven
<1>d. domain' \in [Projects -> {"none", "unverified", "verified", "revoked"}]
  BY <1>0, <1>f, Zenon DEF Typed
<1>l. PICK l \in IF cached.ledger = Nobody /\ ledger # Nobody THEN {Nobody, ledger} ELSE {cached.ledger} :
          \/ /\ l = Nobody /\ ledger = Nobody
             /\ Downstream(Owner(p), anchors, shadow)
             /\ Goto("domain") /\ UNCHANGED <<zone, queue>>
          \/ /\ l = Nobody /\ ledger # Nobody
             /\ Done /\ queue' = queue \cup {p}
             /\ UNCHANGED <<zone, downstream, cached, lags>>
          \/ /\ l # Nobody /\ SameZoneOwner(l, Owner(p))
             /\ IF l # Owner(p) /\ ledger # Nobody
                  THEN Downstream(Owner(p), anchors, shadow)
                  ELSE UNCHANGED <<downstream, cached, lags>>
             /\ Goto("domain") /\ UNCHANGED <<zone, queue>>
          \/ /\ l # Nobody /\ ~SameZoneOwner(l, Owner(p))
             /\ PatchZone(p, InUse(zone[p]), queue)
             /\ Done /\ UNCHANGED <<downstream, cached, lags>>
  BY Zenon DEF Claim
<1>o. /\ Owner(p) \in [of : Projects \cup {None}, slash : BOOLEAN] /\ Owner(p).of = p
      /\ Nobody.of = None
  BY Zenon DEF Owner, Nobody
\* The pass goes on, and the ledger is this project's unless the cache misled it.
<1>g. ASSUME UNCHANGED zone, pass' = [of |-> p, at |-> "domain"],
             \/ Downstream(Owner(p), anchors, shadow)
             \/ UNCHANGED <<downstream, cached, lags>> /\ (lags = 0 => ledger.of = p),
             lags = 0 => ledger.of \in {p, None}
      PROVE  IInv'
  <2>1. /\ anchors' = anchors /\ shadow' = shadow
        /\ ledger' \in [of : Projects \cup {None}, slash : BOOLEAN]
        /\ ledger'.of = p \/ ledger' = ledger
        /\ cached'.shadow \in [Projects -> Shadow] /\ lags' \in Nat
        /\ lags' = 0 => lags = 0 /\ ledger'.of = p /\ (CacheTells => CacheTells')
    <3>1. CASE Downstream(Owner(p), anchors, shadow)
      BY <1>o, <1>f, <1>z, <3>1, WritesAreCached, Zenon
    <3>2. CASE UNCHANGED <<downstream, cached, lags>> /\ (lags = 0 => ledger.of = p)
      BY <1>f, <3>2, Zenon DEF Typed, CacheTells, Present
    <3> QED BY <1>g, <3>1, <3>2, Zenon
  <2>2. pass'.of = p /\ pass'.at = "domain" /\ "domain" \in Provisioning
    BY <1>g, Zenon DEF Provisioning
  <2>3. Typed'
    BY <1>0, <1>f, <1>g, <2>1, <2>2, Zenon DEF Typed
  <2>4. Finalized(p)' /\ Proof(p)'
    BY <1>0, <1>f, <1>g, <1>p, <2>1, <2>2, Zenon DEF Finalized, Proof, Present, Provisions, Deletes, Deleting,
       Reached, Proven, Claimed
  <2>5. lags' = 0 => lags = 0 /\ (Accounted => CacheTells' /\ Kept(p)' /\ Provisioned(p)' /\ Removed(p)')
    <3> SUFFICES ASSUME lags' = 0, Accounted PROVE CacheTells' /\ Kept(p)' /\ Provisioned(p)' /\ Removed(p)'
      BY <2>1, Zenon
    <3>1. CacheTells' /\ ledger'.of = p
      BY <1>f, <2>1, Zenon
    <3>2. Kept(p)'
      BY <1>f, <1>g, <1>p, <2>1, <3>1, Zenon DEF Kept, Present, Finalized
    <3> QED BY <2>2, <3>1, <3>2, Zenon DEF Provisioned, Removed, Reached,
       Claimed, Anchored, Proven, Served, Unanchored, Deleting, Gone
  <2>6. \A q \in Projects \ {p} : lags' = 0 => (ledger'.of = q <=> ledger.of = q)
    BY <1>g, <2>1, ProjectsAssumption, Zenon
  <2> QED BY <1>0, <1>g, <2>1, <2>2, <2>3, <2>4, <2>5, <2>6, PassStep, Zenon
<1>c. lags = 0 => cached.ledger = ledger
  BY Zenon DEF IInv, Accounted, CacheTells
<1>q. pass' = [of |-> p, at |-> "domain"] \/ ~Goto("domain")
  BY <1>0, Zenon
<1>1. CASE /\ l = Nobody /\ ledger = Nobody
           /\ Downstream(Owner(p), anchors, shadow)
           /\ Goto("domain") /\ UNCHANGED <<zone, queue>>
  BY <1>1, <1>g, <1>o, <1>q, Zenon
<1>2. CASE l = Nobody /\ Done /\ UNCHANGED <<zone, downstream, cached, lags>>
  <2>1. Same(zone[p], zone[p]) /\ zone' = [zone EXCEPT ![p] = zone[p]]
    BY <1>f, <1>z, <1>2, Zenon DEF Same
  <2> QED BY <1>0, <1>f, <1>z, <1>d, <1>2, <2>1, PassEnds, Zenon
<1>3. CASE /\ l # Nobody /\ SameZoneOwner(l, Owner(p))
           /\ IF l # Owner(p) /\ ledger # Nobody
                THEN Downstream(Owner(p), anchors, shadow)
                ELSE UNCHANGED <<downstream, cached, lags>>
           /\ Goto("domain") /\ UNCHANGED <<zone, queue>>
  <2>1. lags = 0 => ledger.of = p
    BY <1>c, <1>l, <1>3, <1>o, Zenon DEF SameZoneOwner
  <2> QED BY <1>3, <1>g, <1>q, <2>1, Zenon
<1>4. CASE /\ PatchZone(p, InUse(zone[p]), queue)
           /\ Done /\ UNCHANGED <<downstream, cached, lags>>
  <2>1. Same(InUse(zone[p]), zone[p]) /\ InUse(zone[p]).programmed = "inuse"
    BY <1>f, PatchesKeep, Zenon
  <2>2. InUse(zone[p]) \in Zone
    BY <2>1, Zenon DEF Same
  <2> QED BY <1>0, <1>z, <1>d, <1>4, <2>1, <2>2, PassEnds, Zenon
<1> QED BY <1>l, <1>1, <1>2, <1>3, <1>4, Zenon

\* ensureDomain and isDomainVerified: the gate before anything is provisioned.
LEMMA DomainStep == ASSUME IInv, NEW p \in Projects, EnsureDomain(p) PROVE IInv'
<1> USE DEF downstream, PatchZone, Done, Goto
<1>0. /\ pass = [of |-> p, at |-> "domain"]
      /\ UNCHANGED <<sets, downstream, cached, lags>>
      /\ domain' = DomainEnsured(p)
  BY Zenon DEF EnsureDomain, At
<1>f. /\ Typed /\ zone[p] \in Zone /\ Finalized(p) /\ Proof(p)
      /\ Accounted => CacheTells /\ Kept(p) /\ Provisioned(p) /\ Removed(p)
  BY PassFacts, Zenon
<1>p. pass.of = p /\ pass.at = "domain" /\ Provisions(p) /\ Reached(p, Claimed)
  BY <1>0, Zenon DEF Provisions, Provisioning, Reached, Claimed
<1>z. zone \in [Projects -> Zone]
  BY <1>f, Zenon DEF Typed
<1>d. /\ domain' \in [Projects -> {"none", "unverified", "verified", "revoked"}]
      /\ \A q \in Projects : StillProven(q)
      /\ \A q \in Projects \ {p} : domain'[q] = domain[q]
      /\ domain[p] = "verified" => domain'[p] = "verified"
  BY <1>0, <1>f, Zenon DEF DomainEnsured, Typed, StillProven
<1> DEFINE r == Referring(zone[p])
<1>r. Same(r, zone[p]) /\ r.programmed = zone[p].programmed /\ r \in Zone
  BY <1>f, PatchesKeep, Zenon DEF Same
<1>1. CASE DomainVerified(p)
  <2>1. zone' = [zone EXCEPT ![p] = r] /\ pass' = [of |-> p, at |-> "anchor"]
    BY <1>0, <1>1, Zenon DEF EnsureDomain
  <2> HIDE DEF r
  <2>2. zone'[p] = r /\ \A q \in Projects \ {p} : zone'[q] = zone[q]
    BY <1>z, <2>1, Zenon
  <2>3. pass'.of = p /\ pass'.at = "anchor" /\ "anchor" \in Provisioning
    BY <2>1, Zenon DEF Provisioning
  <2>4. Typed'
    <3>1. zone' \in [Projects -> Zone]
      BY <1>z, <1>r, <2>1, Zenon
    <3> QED BY <1>0, <1>d, <1>f, <2>1, <2>3, <3>1, Zenon DEF Typed
  <2>5. Finalized(p)' /\ Proof(p)'
    BY <1>0, <1>1, <1>d, <1>f, <1>p, <1>r, <2>2, <2>3, Zenon DEF Finalized, Proof, Provisions, Deletes,
       Deleting, Same, DomainVerified
  <2>6. Accounted => CacheTells' /\ Kept(p)' /\ Provisioned(p)' /\ Removed(p)'
    <3> SUFFICES ASSUME Accounted PROVE CacheTells' /\ Kept(p)' /\ Provisioned(p)' /\ Removed(p)'
      BY Zenon
    <3>1. CacheTells' /\ ledger'.of = p
      BY <1>0, <1>f, <1>p, Zenon DEF CacheTells, Present, Provisioned
    <3>2. Kept(p)'
      BY <1>0, <1>f, <1>p, <1>r, <2>2, <3>1, Zenon DEF Kept, Present, Same
    <3> QED BY <2>3, <3>1, <3>2, Zenon DEF Provisioned, Removed, Reached,
       Claimed, Anchored, Proven, Served, Unanchored, Deleting, Gone
  <2> QED BY <1>0, <1>d, <2>1, <2>2, <2>3, <2>4, <2>5, <2>6, PassStep, Zenon
<1>2. CASE ~DomainVerified(p)
  <2> DEFINE z == PendingVerification(r)
  <2>1. zone' = [zone EXCEPT ![p] = z] /\ pass' = Idle
    BY <1>2, Zenon DEF EnsureDomain
  <2> HIDE DEF r
  <2>2. Same(z, r) /\ z.programmed = r.programmed
    BY <1>r, PatchesKeep, Zenon
  <2> HIDE DEF z
  <2>3. Same(z, zone[p]) /\ z \in Zone
    BY <1>r, <2>2, Zenon DEF Same
  <2> QED BY <1>0, <1>d, <1>r, <2>1, <2>2, <2>3, PassEnds, Zenon
<1> QED BY <1>1, <1>2, Zenon

\* A pass that ends without any write.
LEMMA PassGivesUp ==
    ASSUME IInv, NEW p \in Projects, pass' = Idle,
           UNCHANGED <<zone, domain, sets, downstream, cached, lags>>
    PROVE  IInv'
<1>1. \A q \in Projects : Mild(q) /\ StillProven(q)
  BY Zenon DEF Mild, StillProven
<1>2. /\ zone \in [Projects -> Zone]
      /\ domain \in [Projects -> {"none", "unverified", "verified", "revoked"}]
      /\ sets \in [Projects -> SUBSET {"SOA", "NS"}]
  BY Zenon DEF IInv, Typed
<1> QED BY <1>1, <1>2, MildStep, Zenon

\* ensureDownstreamZone: the anchor comes before the shadow.
LEMMA AnchorStep == ASSUME IInv, NEW p \in Projects, EnsureAnchor(p) PROVE IInv'
<1> USE DEF downstream, Done, Goto, Calls
<1>0. pass = [of |-> p, at |-> "anchor"] /\ UNCHANGED <<zone, sets, domain>>
  BY Zenon DEF EnsureAnchor, At
<1>f. /\ Typed /\ zone[p] \in Zone /\ Finalized(p) /\ Proof(p)
      /\ Accounted => CacheTells /\ Kept(p) /\ Provisioned(p) /\ Removed(p)
  BY PassFacts, Zenon
<1>p. /\ pass.of = p /\ pass.at = "anchor"
      /\ Provisions(p) /\ Reached(p, Claimed) /\ Reached(p, Proven)
  BY <1>0, Zenon DEF Provisions, Provisioning, Reached, Claimed, Proven
<1>z. /\ shadow \in [Projects -> Shadow] /\ anchors \in [Projects -> SUBSET Nat]
      /\ zone[p].uid \in Nat
  BY <1>f, Zenon DEF Typed, Zone
<1> DEFINE more == [anchors EXCEPT ![p] = @ \cup {zone[p].uid}]
<1>m. /\ more \in [Projects -> SUBSET Nat] /\ more[p] = anchors[p] \cup {zone[p].uid}
      /\ \A q \in Projects \ {p} : more[q] = anchors[q]
  BY <1>z, Zenon
<1>1. CASE pass' = Idle /\ UNCHANGED <<downstream, cached, lags>>
  BY <1>0, <1>1, PassGivesUp, Zenon
<1>2. ASSUME NEW n \in {"create", "patch"}, pass' = [of |-> p, at |-> n],
             \/ zone[p].uid \in cached.anchors[p] /\ UNCHANGED <<downstream, cached, lags>>
             \/ Downstream(ledger, more, shadow)
      PROVE  IInv'
  <2>1. /\ ledger' = ledger /\ shadow' = shadow
        /\ anchors' \in [Projects -> SUBSET Nat]
        /\ \A q \in Projects \ {p} : anchors'[q] = anchors[q]
        /\ cached'.shadow \in [Projects -> Shadow] /\ lags' \in Nat
        /\ anchors'[p] = anchors[p] \/ anchors'[p] = anchors[p] \cup {zone[p].uid}
        /\ lags' = 0 => lags = 0 /\ (CacheTells => CacheTells' /\ zone[p].uid \in anchors'[p])
    <3>1. CASE zone[p].uid \in cached.anchors[p] /\ UNCHANGED <<downstream, cached, lags>>
      BY <1>f, <1>z, <3>1, Zenon DEF CacheTells, Present, Typed
    <3>2. CASE Downstream(ledger, more, shadow)
      <4> HIDE DEF more
      <4>1. /\ ledger' = ledger /\ anchors' = more /\ shadow' = shadow
            /\ cached'.shadow \in [Projects -> Shadow] /\ lags' \in Nat
            /\ lags' = 0 => lags = 0 /\ (CacheTells => CacheTells')
        BY <1>f, <1>z, <3>2, WritesAreCached, Zenon
      <4> QED BY <1>m, <4>1, Zenon
    <3> QED BY <1>2, <3>1, <3>2, Zenon
  <2> HIDE DEF more
  <2>2. pass'.of = p /\ pass'.at = n /\ n \in Provisioning
    BY <1>2, Zenon DEF Provisioning
  <2>3. Typed'
    BY <1>0, <1>f, <1>2, <2>1, <2>2, Zenon DEF Typed
  <2>4. Finalized(p)' /\ Proof(p)'
    BY <1>0, <1>f, <1>p, <2>1, <2>2, Zenon DEF Finalized, Proof, Present, Provisions, Deletes, Deleting
  <2>5. ASSUME lags' = 0, Accounted PROVE CacheTells' /\ Kept(p)' /\ Provisioned(p)' /\ Removed(p)'
    <3>1. CacheTells' /\ zone[p].uid \in anchors'[p] /\ ledger.of = p
      BY <1>f, <1>p, <2>1, <2>5, Zenon DEF Provisioned
    <3>2. Present(p) => zone[p].uid \in anchors[p]
      BY <1>f, <1>p, <2>5, Zenon DEF Kept
    <3>3. Kept(p)'
      BY <1>0, <1>f, <1>p, <2>1, <2>5, <3>1, <3>2, Zenon DEF Kept, Present, Finalized
    <3> QED BY <1>0, <1>2, <2>1, <2>2, <3>1, <3>3, Zenon DEF Provisioned, Removed, Reached,
       Served, Unanchored, Deleting, Gone
  <2> QED BY <1>0, <1>2, <2>1, <2>2, <2>3, <2>4, <2>5, PassStep, Zenon
<1>q. \A n : Goto(n) => pass' = [of |-> p, at |-> n]
  BY <1>0, Zenon
<1>3. \/ pass' = Idle /\ UNCHANGED <<downstream, cached, lags>>
      \/ /\ \E n \in {"create", "patch"} : pass' = [of |-> p, at |-> n]
         /\ \/ zone[p].uid \in cached.anchors[p] /\ UNCHANGED <<downstream, cached, lags>>
            \/ Downstream(ledger, more, shadow)
  BY <1>q, Zenon DEF EnsureAnchor
<1> QED BY <1>1, <1>2, <1>3, Zenon

\* The shadow, with the zone's anchor as owner.
LEMMA ShadowStep == ASSUME IInv, NEW p \in Projects, EnsureShadow(p) PROVE IInv'
<1> USE DEF downstream, Done, Goto, Calls
<1>0. /\ pass = [of |-> p, at |-> "create"] \/ pass = [of |-> p, at |-> "patch"]
      /\ UNCHANGED <<zone, sets, domain>>
  BY Zenon DEF EnsureShadow, At
<1>f. /\ Typed /\ zone[p] \in Zone /\ Finalized(p) /\ Proof(p)
      /\ Accounted => CacheTells /\ Kept(p) /\ Provisioned(p) /\ Removed(p)
  BY PassFacts, Zenon
<1>p. /\ pass.of = p /\ pass.at \in {"create", "patch"}
      /\ Provisions(p) /\ Reached(p, Claimed) /\ Reached(p, Proven) /\ Reached(p, Anchored)
  BY <1>0 DEF Provisions, Provisioning, Reached, Claimed, Proven, Anchored
<1>z. /\ shadow \in [Projects -> Shadow] /\ shadow[p] \in Shadow
      /\ zone[p].uid \in Nat
  BY <1>f, Zenon DEF Typed, Zone
<1> DEFINE s == IF Present(p) THEN [shadow[p] EXCEPT !.owners = shadow[p].owners \cup {zone[p].uid}]
                ELSE [state |-> "live", owners |-> {zone[p].uid}, ns |-> FALSE]
<1>s. /\ s \in Shadow /\ zone[p].uid \in s.owners
      /\ s.state = IF Present(p) THEN shadow[p].state ELSE "live"
  <2>1. shadow[p].owners \cup {zone[p].uid} \in SUBSET Nat
    BY <1>z, Zenon DEF Shadow
  <2> QED BY <1>z, <2>1, Zenon DEF Shadow, Present
<1>b. [pass EXCEPT !.at = "status"] = [of |-> p, at |-> "status"]
  BY <1>0
<1>1. \/ pass' = Idle /\ UNCHANGED <<downstream, cached, lags>>
      \/ pass' = [of |-> p, at |-> "status"] /\ Downstream(ledger, anchors, [shadow EXCEPT ![p] = s])
  <2> HIDE DEF s, downstream
  <2>1. CASE (pass.at = "create") = (shadow[p].state # "absent")
    BY <2>1, Zenon DEF EnsureShadow
  <2>2. CASE (pass.at = "create") # (shadow[p].state # "absent")
    BY <1>b, <2>2, Zenon DEF EnsureShadow, Present, s
  <2> QED BY <2>1, <2>2, Zenon
<1> HIDE DEF s
<1>2. CASE pass' = Idle /\ UNCHANGED <<downstream, cached, lags>>
  BY <1>0, <1>2, PassGivesUp, Zenon
<1>3. CASE pass' = [of |-> p, at |-> "status"] /\ Downstream(ledger, anchors, [shadow EXCEPT ![p] = s])
  <2>0. [shadow EXCEPT ![p] = s] \in [Projects -> Shadow]
    BY <1>z, <1>s, Zenon
  <2>1. /\ ledger' = ledger /\ anchors' = anchors
        /\ shadow' = [shadow EXCEPT ![p] = s]
        /\ cached'.shadow \in [Projects -> Shadow] /\ lags' \in Nat
        /\ lags' = 0 => lags = 0 /\ (CacheTells => CacheTells')
    BY <1>3, <1>f, <2>0, WritesAreCached, Zenon
  <2>2. /\ shadow' \in [Projects -> Shadow] /\ shadow'[p] = s
        /\ \A q \in Projects \ {p} : shadow'[q] = shadow[q]
    BY <1>z, <2>0, <2>1, Zenon
  <2>3. pass'.of = p /\ pass'.at = "status" /\ "status" \in Provisioning
    BY <1>3, Zenon DEF Provisioning
  <2>4. Typed'
    BY <1>0, <1>f, <1>3, <2>1, <2>2, <2>3, Zenon DEF Typed
  <2>5. Finalized(p)' /\ Proof(p)'
    BY <1>0, <1>f, <1>p, <2>3, Zenon DEF Finalized, Proof, Provisions, Deletes, Deleting
  <2>6. ASSUME lags' = 0, Accounted PROVE CacheTells' /\ Kept(p)' /\ Provisioned(p)' /\ Removed(p)'
    <3>1. CacheTells' /\ zone[p].uid \in anchors[p] /\ ledger.of = p
      BY <1>f, <1>p, <2>1, <2>6, Zenon DEF Provisioned
    <3>2. s.state = "live" /\ Present(p)'
      BY <1>f, <1>s, <2>2, <2>6, <3>1, Zenon DEF Kept, Present
    <3>3. Kept(p)'
      BY <1>0, <1>f, <1>p, <1>s, <2>1, <2>2, <2>6, <3>1, <3>2, Zenon DEF Kept, Finalized
    <3> QED BY <1>0, <2>1, <2>3, <3>1, <3>2, <3>3, Zenon DEF Provisioned, Removed, Reached,
       Unanchored, Deleting, Gone
  <2> QED BY <1>0, <1>3, <2>1, <2>2, <2>3, <2>4, <2>5, <2>6, PassStep, Zenon
<1> QED BY <1>1, <1>2, <1>3, Zenon

\* updateStatus, before and after the apex record sets: the shadow is there.
LEMMA StatusStep ==
    ASSUME IInv, NEW p \in Projects,
           \/ UpdateStatus(p, "status", "SOA") \/ UpdateStatus(p, "status2", "idle")
    PROVE  IInv'
<1> USE DEF downstream, Calls, PatchZone, Done, Goto
<1>0. /\ pass = [of |-> p, at |-> "status"] \/ pass = [of |-> p, at |-> "status2"]
      /\ UNCHANGED <<sets, downstream, cached, lags, domain>>
  BY Zenon DEF UpdateStatus, At
<1>f. /\ Typed /\ zone[p] \in Zone /\ Finalized(p) /\ Proof(p)
      /\ Accounted => CacheTells /\ Kept(p) /\ Provisioned(p) /\ Removed(p)
  BY PassFacts, Zenon
<1>p. /\ Provisions(p) /\ Reached(p, Claimed) /\ Reached(p, Proven)
      /\ Reached(p, Anchored) /\ Reached(p, Served)
  BY <1>0 DEF Provisions, Provisioning, Reached, Claimed, Proven, Anchored, Served
<1>z. zone \in [Projects -> Zone] /\ \A q \in Projects : StillProven(q)
  BY <1>0, <1>f, Zenon DEF Typed, StillProven
<1>d. domain' \in [Projects -> {"none", "unverified", "verified", "revoked"}]
  BY <1>0, <1>f, Zenon DEF Typed
<1>y. Accounted => Present(p)
  BY <1>f, <1>p, Zenon DEF Provisioned
<1> DEFINE z == SynthesizedStatus(p, zone[p])
<1>s. Same(z, zone[p])
  BY <1>f, StatusKeeps, Zenon
<1>b. [pass EXCEPT !.at = "SOA"] = [of |-> p, at |-> "SOA"]
  BY <1>0
<1>1. /\ zone' = [zone EXCEPT ![p] = z]
      /\ pass' = Idle \/ pass' = [of |-> p, at |-> "SOA"]
  BY <1>b, Zenon DEF UpdateStatus
<1> HIDE DEF z
<1>t. z \in Zone /\ z.uid = zone[p].uid /\ z.fin = zone[p].fin /\ z.state = zone[p].state
  BY <1>s, Zenon DEF Same
<1>2. CASE pass' = Idle
  <2>1. Present(p) \/ lags # 0
    BY <1>y, Zenon DEF IInv
  <2> QED BY <1>0, <1>1, <1>2, <1>d, <1>s, <1>t, <1>z, <2>1, PassEnds, Zenon
<1>3. CASE pass' = [of |-> p, at |-> "SOA"]
  <2>1. zone'[p] = z /\ \A q \in Projects \ {p} : zone'[q] = zone[q]
    BY <1>1, <1>z, Zenon
  <2>2. pass'.of = p /\ pass'.at = "SOA" /\ "SOA" \in Provisioning
    BY <1>3, Zenon DEF Provisioning
  <2>3. Typed'
    <3>1. zone' \in [Projects -> Zone]
      BY <1>1, <1>t, <1>z, Zenon
    <3> QED BY <1>0, <1>d, <1>f, <1>3, <2>2, <3>1, Zenon DEF Typed
  <2>4. Finalized(p)' /\ Proof(p)'
    BY <1>0, <1>f, <1>p, <1>t, <2>1, <2>2, Zenon DEF Finalized, Proof, Provisions, Deletes, Deleting
  <2>5. Accounted => CacheTells' /\ Kept(p)' /\ Provisioned(p)' /\ Removed(p)'
    <3> SUFFICES ASSUME Accounted PROVE CacheTells' /\ Kept(p)' /\ Provisioned(p)' /\ Removed(p)'
      BY Zenon
    <3>1. CacheTells' /\ Present(p)' /\ ledger'.of = p /\ zone'[p].uid \in anchors'[p]
      BY <1>0, <1>f, <1>p, <1>t, <1>y, <2>1, Zenon DEF CacheTells, Present, Provisioned
    <3>2. Kept(p)'
      BY <1>0, <1>f, <1>t, <2>1, <3>1, Zenon DEF Kept, Present
    <3> QED BY <2>2, <3>1, <3>2, Zenon DEF Provisioned, Removed, Reached, Unanchored, Deleting, Gone
  <2> QED BY <1>0, <1>3, <2>1, <2>2, <2>3, <2>4, <2>5, PassStep, Zenon
<1> QED BY <1>1, <1>2, <1>3, Zenon

\* createApexRecordSet: SOA, then NS.
LEMMA ApexStep == ASSUME IInv, NEW p \in Projects, EnsureSOA(p) \/ EnsureNS(p) PROVE IInv'
<1> USE DEF downstream, Calls, CreateApexSet, Goto
<1>0. /\ pass = [of |-> p, at |-> "SOA"] \/ pass = [of |-> p, at |-> "NS"]
      /\ UNCHANGED <<zone, downstream, cached, lags, domain>>
  BY Zenon DEF EnsureSOA, EnsureNS, At
<1>f. /\ Typed /\ zone[p] \in Zone /\ Finalized(p) /\ Proof(p)
      /\ Accounted => CacheTells /\ Kept(p) /\ Provisioned(p) /\ Removed(p)
  BY PassFacts, Zenon
<1>p. /\ Provisions(p) /\ Reached(p, Claimed) /\ Reached(p, Proven)
      /\ Reached(p, Anchored) /\ Reached(p, Served)
  BY <1>0 DEF Provisions, Provisioning, Reached, Claimed, Proven, Anchored, Served
<1>1. sets' \in [Projects -> SUBSET {"SOA", "NS"}]
  BY <1>f DEF Typed, EnsureSOA, EnsureNS
<1>2. PICK n \in {"NS", "status2"} : pass' = [of |-> p, at |-> n]
  BY <1>0 DEF EnsureSOA, EnsureNS
<1>3. pass'.of = p /\ pass'.at = n /\ n \in Provisioning /\ n \in Served
  BY <1>2, Zenon DEF Provisioning, Served
<1>4. Typed'
  BY <1>0, <1>f, <1>1, <1>2, <1>3, Zenon DEF Typed
<1>5. Finalized(p)' /\ Proof(p)'
  BY <1>0, <1>2, <1>3, <1>f, <1>p, Zenon DEF Finalized, Proof, Present, Provisions, Deletes, Deleting
<1>6. Accounted => CacheTells' /\ Kept(p)' /\ Provisioned(p)' /\ Removed(p)'
  <2> SUFFICES ASSUME Accounted PROVE CacheTells' /\ Kept(p)' /\ Provisioned(p)' /\ Removed(p)'
    BY Zenon
  <2>1. CacheTells' /\ Present(p)' /\ ledger'.of = p /\ zone'[p].uid \in anchors'[p]
    BY <1>0, <1>f, <1>p, Zenon DEF CacheTells, Present, Provisioned
  <2>2. Kept(p)'
    BY <1>0, <1>f, <2>1, Zenon DEF Kept, Present
  <2> QED BY <1>2, <1>3, <2>1, <2>2, Zenon DEF Provisioned, Removed, Reached, Unanchored, Deleting, Gone
<1> QED BY <1>0, <1>2, <1>3, <1>4, <1>5, <1>6, PassStep, Zenon

-----------------------------------------------------------------------------
(* Deletion *)

\* A deletion pass goes on once it has taken away what its next step needs gone.
LEMMA DeletionStep ==
    ASSUME IInv, NEW p \in Projects, NEW n \in Unanchored,
           Deletes(p), pass' = [of |-> p, at |-> n],
           UNCHANGED <<zone, sets, domain, shadow>>,
           ledger' \in [of : Projects \cup {None}, slash : BOOLEAN],
           anchors' \in [Projects -> SUBSET Nat],
           \A q \in Projects \ {p} : anchors'[q] = anchors[q],
           cached'.shadow \in [Projects -> Shadow], lags' \in Nat,
           lags' = 0 => /\ lags = 0
                        /\ CacheTells => CacheTells'
                        /\ anchors'[p] = {}
                        /\ n = "gone" => ledger' = ledger
                        /\ n # "gone" => ~Present(p)
                        /\ n = "finalize" => ledger'.of # p
                        /\ \A q \in Projects \ {p} : ledger'.of = q <=> ledger.of = q
    PROVE  IInv'
<1>f. /\ Typed /\ zone[p] \in Zone /\ Finalized(p) /\ Proof(p)
      /\ Accounted => CacheTells /\ Kept(p) /\ Provisioned(p) /\ Removed(p)
  BY PassFacts, Zenon
<1>1. /\ pass'.of = p /\ pass'.at = n /\ n \in Deleting
      /\ n \notin Provisioning /\ n \notin Claimed /\ n \notin Proven
      /\ n \notin Anchored /\ n \notin Served
  BY Zenon DEF Unanchored, Deleting, Provisioning, Claimed, Proven, Anchored, Served
<1>2. n \in Gone => n # "gone"
  BY Zenon DEF Gone
<1>3. Typed'
  BY <1>f, <1>1, Zenon DEF Typed
<1>4. zone[p].state = "deleting" /\ zone[p].fin
  BY <1>f, Zenon DEF Finalized
<1>5. Finalized(p)' /\ Proof(p)'
  BY <1>f, <1>1, <1>4, Zenon DEF Finalized, Proof, Present, Provisions, Reached
<1>6. ASSUME lags' = 0, Accounted PROVE CacheTells' /\ Kept(p)' /\ Provisioned(p)' /\ Removed(p)'
  <2>1. CacheTells' /\ anchors'[p] = {} /\ (Present(p)' => ledger'.of = p)
    BY <1>f, <1>6, Zenon DEF Kept, Present
  <2>2. Kept(p)'
    BY <1>f, <1>1, <1>4, <1>6, <2>1, Zenon DEF Kept, Present, Provisions
  <2>3. Provisioned(p)'
    BY <1>1, Zenon DEF Provisioned, Reached
  <2>4. Removed(p)'
    BY <1>1, <1>2, <1>6, <2>1, Zenon DEF Removed, Reached, Present
  <2> QED BY <2>1, <2>2, <2>3, <2>4, Zenon
<1> QED BY <1>1, <1>3, <1>5, <1>6, PassStep, Zenon

\* The anchor, the wait for the shadow, the ledger, the finalizer.
LEMMA RemovalStep ==
    ASSUME IInv, NEW p \in Projects,
           DeleteAnchor(p) \/ AwaitShadow(p) \/ CleanupAccounting(p) \/ RemoveFinalizer(p)
    PROVE  IInv'
<1> USE DEF downstream, Calls, Goto, Done
<1>f. /\ Typed /\ zone[p] \in Zone /\ Finalized(p) /\ Proof(p)
      /\ Accounted => CacheTells /\ Kept(p) /\ Provisioned(p) /\ Removed(p)
  BY PassFacts, Zenon
<1>z. /\ shadow \in [Projects -> Shadow] /\ anchors \in [Projects -> SUBSET Nat]
      /\ ledger \in [of : Projects \cup {None}, slash : BOOLEAN]
      /\ cached.shadow \in [Projects -> Shadow] /\ lags \in Nat
  BY <1>f, Zenon DEF Typed
<1>a. lags = 0 => Accounted
  BY Zenon DEF IInv
<1>u. {"gone", "release", "finalize"} \subseteq Unanchored
  BY Zenon DEF Unanchored, Deleting
\* The anchor goes, and the cache knew of it.
<1>1. CASE DeleteAnchor(p)
  <2>0. pass = [of |-> p, at |-> "unanchor"] /\ UNCHANGED <<zone, sets, domain>>
    BY <1>1, Zenon DEF DeleteAnchor, At
  <2>1. Deletes(p) /\ pass' = [of |-> p, at |-> "gone"]
    BY <1>1, <2>0, Zenon DEF DeleteAnchor, Deletes, Deleting
  <2> DEFINE less == [anchors EXCEPT ![p] = @ \ {zone[p].uid}]
  <2>m. /\ less \in [Projects -> SUBSET Nat] /\ less[p] = anchors[p] \ {zone[p].uid}
        /\ \A q \in Projects \ {p} : less[q] = anchors[q]
    BY <1>z, Zenon
  <2>2. \/ Downstream(ledger, less, shadow)
        \/ zone[p].uid \notin cached.anchors[p] /\ UNCHANGED <<downstream, cached, lags>>
    BY <1>1, Zenon DEF DeleteAnchor
  <2> HIDE DEF less
  <2>3. Accounted => anchors[p] \subseteq {zone[p].uid} /\ cached.anchors = anchors /\ CacheTells
    BY <1>f, Zenon DEF Kept, CacheTells
  <2>4. /\ UNCHANGED <<ledger, shadow>>
        /\ anchors' \in [Projects -> SUBSET Nat]
        /\ \A q \in Projects \ {p} : anchors'[q] = anchors[q]
        /\ cached'.shadow \in [Projects -> Shadow] /\ lags' \in Nat
        /\ lags' = 0 => lags = 0 /\ (CacheTells => CacheTells') /\ anchors'[p] = {}
    <3>1. CASE Downstream(ledger, less, shadow)
      <4>1. /\ ledger' = ledger /\ anchors' = less /\ shadow' = shadow
            /\ cached'.shadow \in [Projects -> Shadow] /\ lags' \in Nat
            /\ lags' = 0 => lags = 0 /\ (CacheTells => CacheTells')
        BY <1>f, <1>z, <3>1, WritesAreCached, Zenon
      <4> QED BY <1>a, <2>3, <2>m, <4>1, Zenon
    <3>2. CASE zone[p].uid \notin cached.anchors[p] /\ UNCHANGED <<downstream, cached, lags>>
      BY <1>a, <1>z, <2>3, <3>2, Zenon DEF CacheTells, Present
    <3> QED BY <2>2, <3>1, <3>2, Zenon
  <2> QED BY <1>u, <1>z, <2>0, <2>1, <2>4, DeletionStep, Zenon
\* The cache shows no shadow, so there is none.
<1>2. CASE AwaitShadow(p)
  <2>0. /\ pass = [of |-> p, at |-> "gone"]
        /\ UNCHANGED <<zone, sets, domain, downstream, cached, lags>>
    BY <1>2, Zenon DEF AwaitShadow, At
  <2>1. CASE cached.shadow[p].state = "absent"
    <3>1. Deletes(p) /\ pass' = [of |-> p, at |-> "release"] /\ Reached(p, Unanchored)
      BY <1>2, <2>0, <2>1, Zenon DEF AwaitShadow, Deletes, Deleting, Reached, Unanchored
    <3>2. Accounted => ~Present(p) /\ anchors[p] = {}
      BY <1>f, <2>1, <3>1, Zenon DEF CacheTells, Removed
    <3>3. CacheTells => CacheTells'
      BY <2>0, Zenon DEF CacheTells, Present
    <3> QED BY <1>a, <1>u, <1>z, <2>0, <3>1, <3>2, <3>3, DeletionStep, Zenon
  <2>2. CASE cached.shadow[p].state # "absent"
    BY <1>2, <2>0, <2>2, PassGivesUp, Zenon DEF AwaitShadow
  <2> QED BY <2>1, <2>2, Zenon
\* The ledger entry goes if it is this project's.
<1>3. CASE CleanupAccounting(p)
  <2>0. pass = [of |-> p, at |-> "release"] /\ UNCHANGED <<zone, sets, domain>>
    BY <1>3, Zenon DEF CleanupAccounting, At
  <2>1. /\ Deletes(p) /\ pass' = [of |-> p, at |-> "finalize"]
        /\ Reached(p, Unanchored) /\ Reached(p, Gone)
    BY <1>3, <2>0, Zenon DEF CleanupAccounting, Deletes, Deleting, Reached, Unanchored, Gone
  <2>2. \/ cached.ledger.of = p /\ Downstream(Nobody, anchors, shadow)
        \/ cached.ledger.of # p /\ UNCHANGED <<downstream, cached, lags>>
    BY <1>3, Zenon DEF CleanupAccounting, SameZoneOwner, Owner
  <2>3. Accounted => cached.ledger = ledger /\ ~Present(p) /\ anchors[p] = {}
    BY <1>f, <2>1, Zenon DEF CacheTells, Removed
  <2>4. Nobody \in [of : Projects \cup {None}, slash : BOOLEAN] /\ Nobody.of = None
    BY Zenon DEF Nobody
  <2>5. /\ UNCHANGED <<anchors, shadow>>
        /\ ledger' \in [of : Projects \cup {None}, slash : BOOLEAN]
        /\ cached'.shadow \in [Projects -> Shadow] /\ lags' \in Nat
        /\ lags' = 0 => /\ lags = 0 /\ (CacheTells => CacheTells')
                        /\ ledger'.of # p
                        /\ \A q \in Projects \ {p} : ledger'.of = q <=> ledger.of = q
    <3>1. CASE cached.ledger.of = p /\ Downstream(Nobody, anchors, shadow)
      <4>1. /\ ledger' = Nobody /\ anchors' = anchors /\ shadow' = shadow
            /\ cached'.shadow \in [Projects -> Shadow] /\ lags' \in Nat
            /\ lags' = 0 => lags = 0 /\ (CacheTells => CacheTells')
        BY <1>f, <1>z, <3>1, WritesAreCached, Zenon
      <4>2. lags' = 0 => ledger.of = p
        BY <1>a, <2>3, <3>1, <4>1, Zenon
      <4>3. ledger'.of = None /\ None \notin Projects
        BY <2>4, <4>1, ProjectsAssumption, Zenon
      <4> QED BY <2>4, <4>1, <4>2, <4>3, Zenon
    <3>2. CASE cached.ledger.of # p /\ UNCHANGED <<downstream, cached, lags>>
      BY <1>a, <1>z, <2>3, <3>2, Zenon DEF CacheTells, Present
    <3> QED BY <2>2, <3>1, <3>2, Zenon
  <2> QED BY <1>a, <1>u, <1>z, <2>0, <2>1, <2>3, <2>5, DeletionStep, Zenon
\* The finalizer goes last.
<1>4. CASE RemoveFinalizer(p)
  <2>0. /\ pass = [of |-> p, at |-> "finalize"] /\ pass' = Idle
        /\ UNCHANGED <<sets, domain, downstream, cached, lags>>
    BY <1>4, Zenon DEF RemoveFinalizer, At
  <2>1. Reached(p, Unanchored) /\ Reached(p, Gone) /\ Reached(p, {"finalize"})
    BY <2>0, Zenon DEF Reached, Unanchored, Deleting, Gone
  <2>2. lags = 0 => ~Present(p) /\ anchors[p] = {} /\ ledger.of # p
    BY <1>a, <1>f, <2>1, Zenon DEF Removed
  <2> DEFINE z == [NoZone EXCEPT !.uid = zone[p].uid]
  <2>3. z \in Zone /\ ~z.fin /\ z.state # "deleting" /\ z.programmed = "unset"
    BY <1>f, Zenon DEF Zone, NoZone
  <2>4. zone' = [zone EXCEPT ![p] = z]
    BY <1>4, Zenon DEF RemoveFinalizer
  <2>5. ~Provisions(p)' /\ ~Deletes(p)'
    BY <2>0, ProjectsAssumption, Zenon DEF Provisions, Deletes, Idle
  <2> HIDE DEF z
  <2> QED BY <2>0, <2>2, <2>3, <2>4, <2>5, BareStep, Zenon
<1> QED BY <1>1, <1>2, <1>3, <1>4, Zenon

-----------------------------------------------------------------------------
(* Results *)

\* Every step keeps the invariant.
LEMMA NextStep == IInv /\ [Next]_zrVars => IInv'
<1> SUFFICES ASSUME IInv, [Next]_zrVars PROVE IInv'
  BY Zenon
<1>1. ASSUME NEW p \in Projects, Step(p) PROVE IInv'
  BY <1>1, StartStep, ClaimStep, DomainStep, AnchorStep, ShadowStep, StatusStep, ApexStep,
     RemovalStep, Zenon DEF Step
<1>2. ASSUME NEW p \in Projects, Cluster(p) PROVE IInv'
  BY <1>2, ClusterStep, Zenon
<1>3. ASSUME NEW p \in Projects,
             \/ CreateZone(p) \/ DeleteZone(p) \/ NameClass(p) \/ Verify(p)
             \/ \E t \in {"SOA", "NS"} : LoseSet(p, t)
      PROVE  IInv'
  BY <1>3, UpstreamStep, Zenon
<1>4. CASE CatchUp
  BY <1>4, CatchUpStep, Zenon
<1>5. CASE CreateClass \/ Resync \/ Abort \/ UNCHANGED zrVars
  BY <1>5, OtherStep, Zenon
<1> QED BY <1>1, <1>2, <1>3, <1>4, <1>5, Zenon DEF Next

\* The finalizer, the ledger entry, the anchor and the shadow of every zone
\* come in this order and go in the opposite one (Reconcile of
\* DNSZoneReplicator).
THEOREM ReplicationInvariance == Spec => []IInv
<1> QED BY Starts, NextStep, PTL DEF Spec

\* Two projects never serve one domain, and no shadow outlives its zone, as
\* long as the cache has not missed a write of the replicator
\* (ensureZoneAccounting, cleanupZoneAccounting, ensureDownstreamZone).
THEOREM ShadowsAreAccounted == Spec => []ShadowIsAccounted
<1> QED BY ReplicationInvariance, Suffices, PTL

\* What is served, or reported as programmed, is of a project that has proven
\* the domain (isDomainVerified before ensureDownstreamZone).
THEOREM ServedDomainsAreProven == Spec => []ServedIsProven
<1> QED BY ReplicationInvariance, Suffices, PTL

\* Type correctness.
THEOREM ReplicationTypeCorrect == Spec => []TypeOK
<1> QED BY ReplicationInvariance, Suffices, PTL
=============================================================================
