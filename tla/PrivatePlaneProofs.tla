------------------------- MODULE PrivatePlaneProofs -------------------------
(***************************************************************************)
(* What the collector of publications and the regional publication of a    *)
(* zone never lose, for any number of publications, shards, regions and    *)
(* changes.  The components are those of MCPrivatePlane; each is proved    *)
(* with its own environment.                                               *)
(***************************************************************************)
EXTENDS PublicationCollect, RegionalPublication, TLAPS

-----------------------------------------------------------------------------
(* The collector.  What it deletes, or is about to, is old, older than the   *)
(* active manifest, and no pending outbox depends on it (Spent).  That stays *)
(* true although outboxes are created during a pass: they depend on what was *)
(* active when their planner looked, and that has not become old meanwhile.  *)

CollectBounds == MaxPublications \in Nat /\ MaxSnapshots \in Nat

CollectTyped ==
    /\ pcStaged \in 0 .. MaxPublications /\ pcActive \in 0 .. pcStaged
    /\ pcMan \subseteq Pubs /\ pcExport \subseteq 1 .. pcActive
    /\ pcAct \in [Pubs -> {"absent", "pending", "acked", "superseded"}]
    /\ pcServ \in [Snaps -> [state : {"absent", "pending", "acked", "superseded"}, dep : Nat]]
    /\ pcNext \in 1 .. MaxSnapshots + 1 /\ pcShard \in 0 .. pcNext - 1
    /\ pcOld \in [man : SUBSET Pubs, serv : SUBSET Snaps]
    /\ pcPlan \in 0 .. pcActive

ViewTyped == pcView = NoView \/ pcView \in [on : {TRUE}, man : SUBSET Pubs, serv : SUBSET Snaps]

\* m can be missed.
Spent(m) ==
    /\ m < pcActive /\ m \in pcOld.man
    /\ \A o \in Snaps : pcServ[o].state = "pending" => pcServ[o].dep # m

OldIsPassed == \A m \in pcOld.man : m < pcActive /\ m # pcPlan
ViewIsSpent == pcView.on => \A m \in pcView.man : Spent(m)
LostIsSpent == \A m \in 1 .. pcStaged : Spent(m) \/ (m \in pcMan /\ pcAct[m] # "absent")
DependsOnActive == \A o \in Snaps : pcServ[o].state = "pending" => pcServ[o].dep \in 1 .. pcActive
ShardHasOutbox == pcShard > 0 => pcServ[pcShard].state # "absent"

CollectInv ==
    /\ CollectTyped /\ ViewTyped
    /\ OldIsPassed /\ ViewIsSpent /\ LostIsSpent /\ DependsOnActive /\ ShardHasOutbox

LEMMA CollectStarts == ASSUME CollectBounds, CollectInit PROVE CollectInv
<1> USE DEF CollectBounds, CollectInit, Pubs, Snaps, NoView
<1>1. CollectTyped /\ ViewTyped BY DEF CollectTyped, ViewTyped
<1>2. OldIsPassed /\ ViewIsSpent /\ LostIsSpent /\ DependsOnActive /\ ShardHasOutbox
  BY DEF OldIsPassed, ViewIsSpent, LostIsSpent, DependsOnActive, ShardHasOutbox
<1> QED BY <1>1, <1>2, Zenon DEF CollectInv

\* Every step of planners, exporters and the collector keeps it.
LEMMA CollectKept == ASSUME CollectBounds, CollectInv, CollectNext PROVE CollectInv'
<1>0. /\ CollectTyped /\ ViewTyped
      /\ OldIsPassed /\ ViewIsSpent /\ LostIsSpent /\ DependsOnActive /\ ShardHasOutbox
  BY Zenon DEF CollectInv
<1> USE <1>0 DEF CollectBounds, CollectTyped, Pubs, Snaps
<1>1. CASE StagePublication
  <2> USE <1>1 DEF StagePublication, NoView
  <2>1. CollectTyped' OBVIOUS
  <2>7. ViewTyped' BY Zenon DEF ViewTyped
  <2>2. OldIsPassed' BY Zenon DEF OldIsPassed
  <2>3. ViewIsSpent' BY Zenon DEF OldIsPassed, ViewIsSpent, Spent
  <2>4. LostIsSpent' BY DEF OldIsPassed, ViewIsSpent, LostIsSpent, Spent
  <2>5. DependsOnActive' BY Zenon DEF DependsOnActive
  <2>6. ShardHasOutbox' BY Zenon DEF ShardHasOutbox
  <2> QED BY <2>1, <2>2, <2>3, <2>4, <2>5, <2>6, <2>7, Zenon DEF CollectInv
<1>2. CASE CommitPublication
  <2> USE <1>2 DEF CommitPublication, NoView
  <2>1. CollectTyped' OBVIOUS
  <2>7. ViewTyped' BY Zenon DEF ViewTyped
  <2>2. OldIsPassed' BY DEF OldIsPassed
  <2>3. ViewIsSpent' BY DEF OldIsPassed, ViewIsSpent, Spent
  <2>4. LostIsSpent' BY DEF OldIsPassed, ViewIsSpent, LostIsSpent, Spent
  <2>5. DependsOnActive' BY DEF DependsOnActive
  <2>6. ShardHasOutbox' BY Zenon DEF ShardHasOutbox
  <2> QED BY <2>1, <2>2, <2>3, <2>4, <2>5, <2>6, <2>7, Zenon DEF CollectInv
<1>3. CASE PlanReads
  <2> USE <1>3 DEF PlanReads, NoView
  <2>1. CollectTyped' OBVIOUS
  <2>7. ViewTyped' BY Zenon DEF ViewTyped
  <2>2. OldIsPassed' BY DEF OldIsPassed
  <2>3. ViewIsSpent' BY Zenon DEF OldIsPassed, ViewIsSpent, Spent
  <2>4. LostIsSpent' BY Zenon DEF OldIsPassed, ViewIsSpent, LostIsSpent, Spent
  <2>5. DependsOnActive' BY Zenon DEF DependsOnActive
  <2>6. ShardHasOutbox' BY Zenon DEF ShardHasOutbox
  <2> QED BY <2>1, <2>2, <2>3, <2>4, <2>5, <2>6, <2>7, Zenon DEF CollectInv
<1>4. CASE PlanCreates
  <2> USE <1>4 DEF PlanCreates, NoView
  <2>1. CollectTyped' OBVIOUS
  <2>7. ViewTyped' BY Zenon DEF ViewTyped
  <2>2. OldIsPassed' BY DEF OldIsPassed
  <2>3. ViewIsSpent' BY Zenon DEF OldIsPassed, ViewIsSpent, Spent
  <2>4. LostIsSpent' BY Zenon DEF OldIsPassed, ViewIsSpent, LostIsSpent, Spent
  <2>5. DependsOnActive' BY DEF DependsOnActive
  <2>6. ShardHasOutbox' BY DEF ShardHasOutbox
  <2> QED BY <2>1, <2>2, <2>3, <2>4, <2>5, <2>6, <2>7, Zenon DEF CollectInv
<1>5. ASSUME NEW m \in Pubs, DeliverActivation(m) PROVE CollectInv'
  <2> USE <1>5 DEF DeliverActivation, NoView
  <2>1. CollectTyped' OBVIOUS
  <2>7. ViewTyped' BY Zenon DEF ViewTyped
  <2>2. OldIsPassed' BY Zenon DEF OldIsPassed
  <2>3. ViewIsSpent' BY Zenon DEF OldIsPassed, ViewIsSpent, Spent
  <2>4. LostIsSpent' BY Zenon DEF OldIsPassed, ViewIsSpent, LostIsSpent, Spent
  <2>5. DependsOnActive' BY Zenon DEF DependsOnActive
  <2>6. ShardHasOutbox' BY Zenon DEF ShardHasOutbox
  <2> QED BY <2>1, <2>2, <2>3, <2>4, <2>5, <2>6, <2>7, Zenon DEF CollectInv
<1>6. ASSUME NEW m \in Pubs, SupersedeActivation(m) PROVE CollectInv'
  <2> USE <1>6 DEF SupersedeActivation, NoView
  <2>1. CollectTyped' BY Zenon
  <2>7. ViewTyped' BY Zenon DEF ViewTyped
  <2>2. OldIsPassed' BY Zenon DEF OldIsPassed
  <2>3. ViewIsSpent' BY Zenon DEF OldIsPassed, ViewIsSpent, Spent
  <2>4. LostIsSpent' BY Zenon DEF OldIsPassed, ViewIsSpent, LostIsSpent, Spent
  <2>5. DependsOnActive' BY Zenon DEF DependsOnActive
  <2>6. ShardHasOutbox' BY Zenon DEF ShardHasOutbox
  <2> QED BY <2>1, <2>2, <2>3, <2>4, <2>5, <2>6, <2>7, Zenon DEF CollectInv
<1>7. ASSUME NEW o \in Snaps, DeliverServing(o) PROVE CollectInv'
  <2>0. PICK st \in {"acked", "superseded"} : pcServ' = [pcServ EXCEPT ![o].state = st]
    BY <1>7, Zenon DEF DeliverServing
  <2>1. UNCHANGED <<pcMan, pcActive, pcStaged, pcExport, pcAct, pcShard, pcNext, pcOld, pcPlan, pcView>>
    BY <1>7, Zenon DEF DeliverServing
  <2>2. ASSUME NEW x \in Snaps
        PROVE  /\ pcServ'[x].dep = pcServ[x].dep
               /\ pcServ'[x].state = "pending" => pcServ[x].state = "pending"
               /\ pcServ[x].state # "absent" => pcServ'[x].state # "absent"
    <3>1. CASE x = o
      <4>1. pcServ'[x] = [pcServ[o] EXCEPT !.state = st] BY <2>0, <3>1, Zenon
      <4> QED BY <3>1, <4>1, Zenon
    <3>2. CASE x # o BY <2>0, <3>2, Zenon
    <3> QED BY <3>1, <3>2, Zenon
  <2>3. pcServ' \in [Snaps -> [state : {"absent", "pending", "acked", "superseded"}, dep : Nat]]
    BY <2>0, Zenon
  <2>4. CollectTyped' /\ ViewTyped' BY <2>1, <2>3, Zenon DEF ViewTyped, NoView
  <2>5. ASSUME NEW m, Spent(m) PROVE Spent(m)' BY <2>1, <2>2, <2>5, Zenon DEF Spent
  <2>6. OldIsPassed' /\ ViewIsSpent' /\ LostIsSpent'
    BY <2>1, <2>5, Zenon DEF OldIsPassed, ViewIsSpent, LostIsSpent
  <2>7. DependsOnActive' /\ ShardHasOutbox' BY <2>1, <2>2 DEF DependsOnActive, ShardHasOutbox
  <2> QED BY <2>4, <2>6, <2>7, Zenon DEF CollectInv
<1>8. ASSUME NEW o \in Snaps, CollectServing(o) PROVE CollectInv'
  <2> USE <1>8 DEF CollectServing, NoView, OlderThanActiveServing
  <2>1. CollectTyped' BY Zenon
  <2>7. ViewTyped' BY Zenon DEF ViewTyped
  <2>2. OldIsPassed' BY Zenon DEF OldIsPassed
  <2>3. ViewIsSpent' BY DEF OldIsPassed, ViewIsSpent, Spent
  <2>4. LostIsSpent' BY Zenon DEF OldIsPassed, ViewIsSpent, LostIsSpent, Spent
  <2>5. DependsOnActive' BY Zenon DEF DependsOnActive
  <2>6. ShardHasOutbox' BY DEF ShardHasOutbox
  <2> QED BY <2>1, <2>2, <2>3, <2>4, <2>5, <2>6, <2>7, Zenon DEF CollectInv
<1>9. CASE GrowOld
  <2>0. /\ pcView = NoView
        /\ UNCHANGED <<pcMan, pcActive, pcStaged, pcExport, pcAct, pcServ, pcShard, pcNext, pcPlan, pcView>>
    BY <1>9, Zenon DEF GrowOld
  <2>1. /\ pcOld' \in [man : SUBSET Pubs, serv : SUBSET Snaps]
        /\ pcOld.man \subseteq pcOld'.man
        /\ \A m \in pcOld'.man \ pcOld.man : m < pcActive /\ m # pcPlan
    <3>1. ASSUME NEW m \in pcMan \ pcOld.man, NEW n \in pcExport \cap pcMan, n > m, pcPlan # m,
                 pcOld' = [pcOld EXCEPT !.man = pcOld.man \cup {m}]
          PROVE  <2>1!1
      <4>1. m < pcActive BY <3>1
      <4> QED BY <3>1, <4>1, Zenon
    <3>2. ASSUME NEW o \in Snaps, pcOld' = [pcOld EXCEPT !.serv = pcOld.serv \cup {o}]
          PROVE  <2>1!1
      BY <3>2, Zenon
    <3> QED BY <1>9, <3>1, <3>2 DEF GrowOld
  <2>2. CollectTyped' /\ ViewTyped' BY <2>0, <2>1, Zenon DEF ViewTyped, NoView
  <2>3. ASSUME NEW m, Spent(m) PROVE Spent(m)' BY <2>0, <2>1, <2>3, Zenon DEF Spent
  <2>4. OldIsPassed' /\ ViewIsSpent' /\ LostIsSpent'
    BY <2>0, <2>1, <2>3, Zenon DEF OldIsPassed, ViewIsSpent, LostIsSpent, NoView
  <2>5. DependsOnActive' /\ ShardHasOutbox' BY <2>0, Zenon DEF DependsOnActive, ShardHasOutbox
  <2> QED BY <2>2, <2>4, <2>5, Zenon DEF CollectInv
<1>10. CASE StartCollect
  <2> USE <1>10 DEF StartCollect, NoView, Protected
  <2>1. CollectTyped' BY Zenon
  <2>7. ViewTyped' BY Zenon DEF ViewTyped
  <2>2. OldIsPassed' BY Zenon DEF OldIsPassed
  <2>3. ViewIsSpent' BY Zenon DEF OldIsPassed, ViewIsSpent, Spent
  <2>4. LostIsSpent' BY Zenon DEF OldIsPassed, ViewIsSpent, LostIsSpent, Spent
  <2>5. DependsOnActive' BY Zenon DEF DependsOnActive
  <2>6. ShardHasOutbox' BY Zenon DEF ShardHasOutbox
  <2> QED BY <2>1, <2>2, <2>3, <2>4, <2>5, <2>6, <2>7, Zenon DEF CollectInv
<1>11. CASE EndCollect
  <2> USE <1>11 DEF EndCollect, NoView
  <2>1. CollectTyped' BY Zenon
  <2>7. ViewTyped' BY Zenon DEF ViewTyped
  <2>2. OldIsPassed' BY Zenon DEF OldIsPassed
  <2>3. ViewIsSpent' BY Zenon DEF OldIsPassed, ViewIsSpent, Spent
  <2>4. LostIsSpent' BY Zenon DEF OldIsPassed, ViewIsSpent, LostIsSpent, Spent
  <2>5. DependsOnActive' BY Zenon DEF DependsOnActive
  <2>6. ShardHasOutbox' BY Zenon DEF ShardHasOutbox
  <2> QED BY <2>1, <2>2, <2>3, <2>4, <2>5, <2>6, <2>7, Zenon DEF CollectInv
<1>12. ASSUME NEW m \in Pubs, CollectManifest(m) PROVE CollectInv'
  <2> USE <1>12 DEF CollectManifest, NoView
  <2>1. CollectTyped' BY Zenon
  <2>7. ViewTyped' BY DEF ViewTyped
  <2>2. OldIsPassed' BY Zenon DEF OldIsPassed
  <2>3. ViewIsSpent'
    <3>1. pcView'.man \subseteq pcView.man BY Zenon DEF ViewTyped
    <3> QED BY <3>1, Zenon DEF ViewIsSpent, Spent
  <2>4. LostIsSpent' BY DEF OldIsPassed, ViewIsSpent, LostIsSpent, Spent
  <2>5. DependsOnActive' BY Zenon DEF DependsOnActive
  <2>6. ShardHasOutbox' BY Zenon DEF ShardHasOutbox
  <2> QED BY <2>1, <2>2, <2>3, <2>4, <2>5, <2>6, <2>7, Zenon DEF CollectInv
<1> QED
  BY <1>1, <1>2, <1>3, <1>4, <1>5, <1>6, <1>7, <1>8, <1>9, <1>10, <1>11, <1>12, Zenon
  DEF CollectNext

\* Collect deletes nothing that is needed: the active manifest has its
\* activation, a shard its serving outbox, and a pending one its dependency.
THEOREM CollectionIsSafe ==
    ASSUME CollectBounds PROVE CollectSpec => []CollectKeepsNeeded
<1>1. CollectInit => CollectInv BY CollectStarts, Zenon
<1>2. CollectInv /\ [CollectNext]_pcVars => CollectInv'
  <2>1. ASSUME CollectInv, UNCHANGED pcVars PROVE CollectInv'
    BY <2>1, Zenon DEF pcVars, CollectInv, CollectTyped, ViewTyped, OldIsPassed, ViewIsSpent, LostIsSpent,
                DependsOnActive, ShardHasOutbox, Spent
  <2> QED BY <2>1, CollectKept, Zenon
<1>3. CollectInv => CollectKeepsNeeded
  BY DEF CollectBounds, CollectInv, CollectTyped, CollectKeepsNeeded, LostIsSpent,
         DependsOnActive, ShardHasOutbox, Spent, Pubs, Snaps
<1> QED BY <1>1, <1>2, <1>3, PTL DEF CollectSpec
-----------------------------------------------------------------------------
(* The regions of a zone.  What a broker has been given is told by its       *)
(* revision (Tracks): it is behind the active manifest or it is what that    *)
(* says.  A pass has worked out the next manifest before others act, so it   *)
(* keeps in view what may still be given to a broker meanwhile (Foresees).   *)
(* A region that has something to withdraw has its finalizer on the zone     *)
(* (Holds).                                                                  *)

Manifest == [rev : Nat, gen : Nat, tombstone : BOOLEAN, serve : SUBSET Shards,
             withdraw : SUBSET Shards, expected : SUBSET Regions]
Copy == [rev : Nat, gen : Nat, serve : BOOLEAN]
Finalizers == SUBSET (Regions \cup {RetiredRegion})
PassState == [at : {"idle", "hold", "commit", "release"}, current : BOOLEAN,
              fins : Finalizers, man : Manifest]

RegionalTyped ==
    /\ rpZone \in [state : {"live", "deleting", "gone"}, fins : Finalizers, gen : Nat]
    /\ rpBound \subseteq Shards
    /\ rpMan \in [Regions -> Manifest]
    /\ rpDelivered \in [Regions -> SUBSET Shards]
    /\ rpVerified \in [Regions -> SUBSET Shards]
    /\ rpBroker \in [Shards -> Copy] /\ rpInst \in [Shards -> Copy]
    /\ rpPass \in [Regions -> PassState]
    /\ rpStatus \in [entry : [Regions -> [gen : Nat, rev : Nat, published : BOOLEAN]],
                      published : BOOLEAN, gen : Nat]

\* What the manifest m of its region says of shard s.
Says(m, s) == [rev |-> m.rev, gen |-> m.gen, serve |-> s \in m.serve /\ ~m.tombstone]

\* Broker and members of shard s, b and i, follow m.
Tracks(s, m, b, i, delivered, verified) ==
    /\ i.rev <= b.rev /\ i.gen <= b.gen /\ (i.rev = b.rev => i = b)
    /\ b.rev <= m.rev /\ b.gen <= m.gen /\ (b.rev = m.rev => b = Says(m, s))
    /\ delivered => b.rev = m.rev
    /\ verified => i.rev = m.rev
    /\ b.serve => s \in m.serve \cup m.withdraw
    /\ i.serve => i.rev > 0

\* The next manifest, n, covers what m serves and what the brokers, B, have.
Foresees(c, m, n, z, B) ==
    /\ n.rev = m.rev + 1 /\ m.gen <= n.gen /\ n.gen <= z.gen
    /\ n.serve \subseteq Local(c, Shards)
    /\ \A s \in Local(c, Shards) :
         s \in m.serve \/ B[s].serve => s \in n.serve \cup n.withdraw

Withdrawn(m, B, I) == \A s \in m.serve : ~B[s].serve /\ ~I[s].serve

\* The manifest m and the finalizer of region c on zone z.
Holds(c, m, z, B, I) ==
    /\ m.rev = 0 => m = NoMan
    /\ m.gen <= z.gen
    /\ m.serve \subseteq Local(c, Shards)
    /\ m.rev > 0 /\ c \notin z.fins => m.tombstone /\ Withdrawn(m, B, I)

\* The pass p of region c, whose manifest is m.
Works(c, m, p, z, B, I) ==
    /\ p.at \in {"hold", "commit"} => Foresees(c, m, p.man, z, B)
    /\ p.at = "hold" =>
         /\ c \in p.fins => c \in z.fins
         /\ p.current => z.state = "live"
    /\ p.at = "commit" => c \in z.fins
    /\ p.at = "release" =>
         /\ m.rev = 0 \/ (m.tombstone /\ Withdrawn(m, B, I))
         /\ p.current => p.fins = z.fins /\ z.state = "deleting"

ShardTracks(s) ==
    LET c == RegionOf[s]
    IN  Tracks(s, rpMan[c], rpBroker[s], rpInst[s], s \in rpDelivered[c], s \in rpVerified[c])
RegionHolds(c) == Holds(c, rpMan[c], rpZone, rpBroker, rpInst)
RegionWorks(c) == Works(c, rpMan[c], rpPass[c], rpZone, rpBroker, rpInst)

Reported ==
    \A d \in Regions : rpStatus.entry[d].published =>
        \E s \in Local(d, Shards) : rpInst[s].gen >= rpStatus.entry[d].gen

RegionalInv ==
    /\ RegionalTyped
    /\ rpZone.state = "gone" => rpZone.fins = {}
    /\ \A s \in Shards : ShardTracks(s)
    /\ \A c \in Regions : RegionHolds(c) /\ RegionWorks(c)
    /\ Reported
LEMMA RegionFacts ==
    /\ \A s \in Shards : RegionOf[s] \in Regions /\ s \in Local(RegionOf[s], Shards)
    /\ \A c \in Regions : Local(c, Shards) \subseteq Shards
    /\ \A c \in Regions : \A s \in Local(c, Shards) : s \in Shards /\ RegionOf[s] = c
    /\ \A S \in SUBSET Shards : RegionsOfShards(S) \subseteq Regions
BY Zenon DEF Regions, Local, RegionsOfShards

LEMMA NoManFacts == NoMan \in Manifest /\ Idle \in PassState /\ Idle.at = "idle"
<1>1. NoMan \in Manifest BY Zenon DEF NoMan, Manifest
<1> HIDE DEF NoMan
<1> QED BY <1>1, Zenon DEF Idle, PassState, Finalizers

\* What the invariant says of the manifest, the pass and the shards of a region.
LEMMA RegionalFacts ==
    ASSUME RegionalInv, NEW c \in Regions
    PROVE  /\ rpMan[c] \in Manifest /\ rpPass[c] \in PassState
           /\ RegionHolds(c)
           /\ RegionWorks(c)
           /\ \A s \in Local(c, Shards) :
                /\ rpBroker[s] \in Copy /\ rpInst[s] \in Copy
                /\ ShardTracks(s)
<1>1. rpMan[c] \in Manifest /\ rpPass[c] \in PassState BY Zenon DEF RegionalInv, RegionalTyped
<1>2. RegionHolds(c) /\ RegionWorks(c) BY Zenon DEF RegionalInv
<1>3. ASSUME NEW s \in Local(c, Shards)
      PROVE  /\ rpBroker[s] \in Copy /\ rpInst[s] \in Copy
             /\ ShardTracks(s)
  <2>1. s \in Shards /\ RegionOf[s] = c BY RegionFacts, Zenon
  <2> QED BY <2>1, Zenon DEF RegionalInv, RegionalTyped
<1> QED BY <1>1, <1>2, <1>3, Zenon

LEMMA RegionalStarts == ASSUME RegionalInit PROVE RegionalInv
<1>1. Nothing \in Copy BY Zenon DEF Nothing, Copy
<1>2. RegionalTyped
  <2>1. rpZone \in [state : {"live", "deleting", "gone"}, fins : Finalizers, gen : Nat]
    BY DEF RegionalInit, Finalizers
  <2>2. rpStatus \in [entry : [Regions -> [gen : Nat, rev : Nat, published : BOOLEAN]],
                      published : BOOLEAN, gen : Nat]
    BY Zenon DEF RegionalInit, NoEntryYet
  <2> QED BY <1>1, <2>1, <2>2, NoManFacts, Zenon DEF RegionalInit, RegionalTyped
<1>3. ASSUME NEW s \in Shards
      PROVE  ShardTracks(s)
  <2>1. /\ rpMan[RegionOf[s]] = NoMan /\ rpBroker[s] = Nothing /\ rpInst[s] = Nothing
        /\ rpDelivered[RegionOf[s]] = {} /\ rpVerified[RegionOf[s]] = {}
    BY RegionFacts, Zenon DEF RegionalInit
  <2>2. Says(NoMan, s) = Nothing BY Zenon DEF Says, NoMan, Nothing
  <2>3. /\ Nothing.rev = 0 /\ Nothing.gen = 0 /\ Nothing.serve = FALSE
        /\ NoMan.rev = 0 /\ NoMan.gen = 0
    BY Zenon DEF Nothing, NoMan
  <2> HIDE DEF Nothing, NoMan
  <2> QED BY <2>1, <2>2, <2>3 DEF ShardTracks, Tracks
<1>4. ASSUME NEW c \in Regions PROVE RegionHolds(c) /\ RegionWorks(c)
  <2>1. rpMan[c] = NoMan /\ rpPass[c] = Idle /\ rpZone.gen = 1 BY DEF RegionalInit
  <2>2. NoMan.rev = 0 /\ NoMan.gen = 0 /\ NoMan.serve = {} BY Zenon DEF NoMan
  <2> HIDE DEF NoMan, Idle
  <2> QED BY <2>1, <2>2, NoManFacts DEF RegionHolds, RegionWorks, Holds, Works
<1>5. Reported /\ rpZone.state = "live" BY DEF RegionalInit, Reported, NoEntryYet
<1> QED BY <1>2, <1>3, <1>4, <1>5, Zenon DEF RegionalInv

-----------------------------------------------------------------------------
(* Steps that touch the zone or a pass, and nothing that is published *)

published == <<rpMan, rpDelivered, rpVerified, rpBroker, rpInst>>

\* A pass that another region's write of the zone leaves alone, or outdates.
LEMMA WorksOn ==
    ASSUME NEW c, NEW m, NEW p, NEW q, NEW z, NEW y, NEW B, NEW I, Works(c, m, p, z, B, I),
           z.gen \in Nat, y.gen \in Nat, z.gen <= y.gen, p.man.gen \in Nat,
           c \in z.fins /\ p.at \in {"hold", "commit"} => c \in y.fins,
           q.at = p.at, q.fins = p.fins, q.man = p.man,
           q.current => p.current /\ y.fins = z.fins /\ y.state = z.state
    PROVE  Works(c, m, q, y, B, I)
<1>1. p.at \in {"hold", "commit"} => Foresees(c, m, q.man, y, B) BY DEF Works, Foresees
<1> QED BY <1>1, Zenon DEF Works

\* An idle pass knows nothing.
LEMMA IdleWorks ==
    ASSUME NEW c, NEW m, NEW z, NEW B, NEW I PROVE Works(c, m, Idle, z, B, I)
BY NoManFacts, Zenon DEF Works

LEMMA ZoneStep ==
    ASSUME RegionalInv, RegionalTyped', UNCHANGED <<published, rpStatus>>,
           rpZone.gen <= rpZone'.gen,
           rpZone'.state = "gone" => rpZone'.fins = {},
           \A c \in Regions :
             /\ c \in rpZone.fins /\ c \notin rpZone'.fins =>
                  rpMan[c].rev = 0 \/ (rpMan[c].tombstone /\ Withdrawn(rpMan[c], rpBroker, rpInst))
             /\ RegionWorks(c)'
    PROVE  RegionalInv'
<1>1. ASSUME NEW s \in Shards
      PROVE  ShardTracks(s)'
  BY Zenon DEF RegionalInv, published, ShardTracks, Tracks, Says
<1>2. ASSUME NEW c \in Regions PROVE RegionHolds(c)'
  <2>1. Withdrawn(rpMan[c], rpBroker, rpInst)' = Withdrawn(rpMan[c], rpBroker, rpInst) BY Zenon DEF Withdrawn, published
  <2>2. rpMan[c].gen \in Nat /\ rpZone.gen \in Nat /\ rpZone'.gen \in Nat /\ rpMan[c].rev \in Nat
    BY RegionalFacts, Zenon DEF RegionalInv, RegionalTyped, Manifest
  <2>3. RegionHolds(c) BY RegionalFacts, Zenon
  <2> HIDE DEF Withdrawn
  <2> QED BY <2>1, <2>2, <2>3 DEF RegionHolds, Holds, published
<1>3. Reported' BY Zenon DEF RegionalInv, Reported, published
<1> QED BY <1>1, <1>2, <1>3, Zenon DEF RegionalInv
LEMMA RebindKeeps == ASSUME RegionalInv, NEW S \in SUBSET Shards, Rebind(S) PROVE RegionalInv'
<1>1. rpBound' = S /\ UNCHANGED <<rpZone, published, rpPass, rpStatus>>
  BY Zenon DEF Rebind, published
<1>2. RegionalTyped' BY <1>1, Zenon DEF RegionalInv, RegionalTyped, published
<1>3. ASSUME NEW c \in Regions PROVE RegionWorks(c)'
  BY <1>1, Zenon DEF RegionalInv, RegionWorks, published
<1>4. rpZone.gen <= rpZone'.gen /\ (rpZone'.state = "gone" => rpZone'.fins = {})
  BY <1>1 DEF RegionalInv, RegionalTyped
<1> QED BY <1>1, <1>2, <1>3, <1>4, ZoneStep, Zenon

LEMMA EditKeeps == ASSUME RegionalInv, EditInput PROVE RegionalInv'
<1>1. /\ rpZone' = [rpZone EXCEPT !.gen = rpZone.gen + 1]
      /\ UNCHANGED <<rpBound, published, rpPass, rpStatus>>
  BY Zenon DEF EditInput, published
<1>2. rpZone \in [state : {"live", "deleting", "gone"}, fins : Finalizers, gen : Nat]
  BY Zenon DEF RegionalInv, RegionalTyped
<1>3. /\ rpZone' \in [state : {"live", "deleting", "gone"}, fins : Finalizers, gen : Nat]
      /\ rpZone'.state = rpZone.state /\ rpZone'.fins = rpZone.fins
      /\ rpZone.gen \in Nat /\ rpZone'.gen \in Nat /\ rpZone.gen <= rpZone'.gen
  BY <1>1, <1>2
<1>4. RegionalTyped' BY <1>1, <1>3, Zenon DEF RegionalInv, RegionalTyped, published
<1>5. ASSUME NEW c \in Regions PROVE RegionWorks(c)'
  <2>1. rpPass[c].man.gen \in Nat BY RegionalFacts, Zenon DEF PassState, Manifest
  <2> QED BY <1>1, <1>3, <2>1, RegionalFacts, WorksOn, Zenon DEF RegionWorks, published
<1>6. rpZone'.state = "gone" => rpZone'.fins = {} BY <1>3, Zenon DEF RegionalInv
<1> QED BY <1>1, <1>3, <1>4, <1>5, <1>6, ZoneStep, Zenon

\* The zone is deleted, and gone at once when nobody holds it.
LEMMA DeleteKeeps == ASSUME RegionalInv, DeleteZone PROVE RegionalInv'
<1>1. /\ rpZone.state = "live" /\ WriteZone([rpZone EXCEPT !.state = "deleting"])
      /\ rpPass' = [d \in Regions |-> [rpPass[d] EXCEPT !.current = FALSE]]
      /\ UNCHANGED <<rpBound, published, rpStatus>>
  BY Zenon DEF DeleteZone, published
<1>2. rpZone \in [state : {"live", "deleting", "gone"}, fins : Finalizers, gen : Nat]
  BY Zenon DEF RegionalInv, RegionalTyped
<1>3. /\ rpZone' \in [state : {"live", "deleting", "gone"}, fins : Finalizers, gen : Nat]
      /\ rpZone'.fins = rpZone.fins /\ rpZone'.gen = rpZone.gen /\ rpZone.gen \in Nat
      /\ rpZone'.state = "gone" => rpZone'.fins = {}
  BY <1>1, <1>2, Zenon DEF WriteZone
<1>4. ASSUME NEW d \in Regions
      PROVE  /\ rpPass'[d] \in PassState /\ rpPass'[d].current = FALSE
             /\ rpPass'[d].at = rpPass[d].at /\ rpPass'[d].fins = rpPass[d].fins
             /\ rpPass'[d].man = rpPass[d].man
  <2>1. rpPass'[d] = [rpPass[d] EXCEPT !.current = FALSE] BY <1>1, Zenon
  <2> QED BY <2>1, RegionalFacts, Zenon DEF PassState
<1>5. RegionalTyped' BY <1>1, <1>3, <1>4, Zenon DEF RegionalInv, RegionalTyped, published
<1>6. ASSUME NEW c \in Regions PROVE RegionWorks(c)'
  <2>1. rpPass[c].man.gen \in Nat BY RegionalFacts, Zenon DEF PassState, Manifest
  <2>2. Works(c, rpMan[c], rpPass[c], rpZone, rpBroker, rpInst)
    BY RegionalFacts, Zenon DEF RegionWorks
  <2>3. Works(c, rpMan[c], rpPass'[c], rpZone', rpBroker, rpInst)
    <3>1. /\ rpPass'[c].at = rpPass[c].at /\ rpPass'[c].fins = rpPass[c].fins
          /\ rpPass'[c].man = rpPass[c].man /\ ~rpPass'[c].current
      BY <1>4, Zenon
    <3>2. rpZone'.gen \in Nat /\ rpZone.gen \in Nat /\ rpZone.gen <= rpZone'.gen
      BY <1>3
    <3> QED BY <1>3, <2>1, <2>2, <3>1, <3>2, WorksOn, Zenon
  <2> QED BY <1>1, <2>3, Zenon DEF RegionWorks, published
<1> QED BY <1>1, <1>3, <1>5, <1>6, ZoneStep

\* A region's own pass goes on, and the zone is not written.
LEMMA PassStep ==
    ASSUME RegionalInv, NEW c \in Regions, NEW q \in PassState,
           rpPass' = [rpPass EXCEPT ![c] = q],
           UNCHANGED <<rpZone, rpBound, published, rpStatus>>,
           Works(c, rpMan[c], q, rpZone, rpBroker, rpInst)
    PROVE  RegionalInv'
<1>1. RegionalTyped' BY Zenon DEF RegionalInv, RegionalTyped, published
<1>2. ASSUME NEW d \in Regions PROVE RegionWorks(d)'
  <2>1. CASE d = c
    <3>1. rpPass'[d] = q BY <2>1, Zenon DEF RegionalInv, RegionalTyped
    <3> QED BY <2>1, <3>1, Zenon DEF RegionWorks, published
  <2>2. CASE d # c
    <3>1. rpPass'[d] = rpPass[d] BY <2>2, Zenon DEF RegionalInv, RegionalTyped
    <3> QED BY <3>1, RegionalFacts, Zenon DEF RegionWorks, published
  <2> QED BY <2>1, <2>2, Zenon
<1>3. rpZone.gen <= rpZone'.gen /\ (rpZone'.state = "gone" => rpZone'.fins = {})
  BY DEF RegionalInv, RegionalTyped
<1> QED BY <1>1, <1>2, <1>3, ZoneStep, Zenon

LEMMA FailKeeps == ASSUME RegionalInv, NEW c \in Regions, FailPass(c) PROVE RegionalInv'
<1>1. /\ rpPass' = [rpPass EXCEPT ![c] = Idle]
      /\ UNCHANGED <<rpZone, rpBound, published, rpStatus>>
  BY Zenon DEF FailPass, published
<1> HIDE DEF Idle
<1> QED BY <1>1, NoManFacts, IdleWorks, PassStep, Zenon

\* publicationTargets keeps in view whatever may be at a broker.
LEMMA NextFacts ==
    ASSUME RegionalInv, NEW c \in Regions, NEW tombstone \in BOOLEAN
    PROVE  LET n == NextManifest(c, tombstone)
           IN  /\ n \in Manifest /\ n.tombstone = tombstone
               /\ tombstone => n.serve = rpMan[c].serve
               /\ Foresees(c, rpMan[c], n, rpZone, rpBroker)
<1> DEFINE m == rpMan[c]
           serve == ServingTargets(c, tombstone)
           withdraw == WithdrawnTargets(c, serve)
           expected == ExpectedRegions(c, tombstone)
           n == NextManifest(c, tombstone)
<1>1. /\ m \in Manifest /\ Holds(c, m, rpZone, rpBroker, rpInst)
      /\ \A s \in Local(c, Shards) : ShardTracks(s)
  BY RegionalFacts, Zenon DEF RegionHolds
<1>2. rpBound \subseteq Shards /\ rpZone.gen \in Nat /\ m.rev \in Nat
  BY <1>1, Zenon DEF RegionalInv, RegionalTyped, Manifest
<1>3. serve \subseteq Local(c, Shards) /\ (tombstone => serve = m.serve)
  BY <1>1, <1>2, Zenon DEF ServingTargets, Wanted, Local, Holds
<1>4. serve \subseteq Shards /\ withdraw \subseteq Shards
  BY <1>1, <1>3, RegionFacts, Zenon DEF WithdrawnTargets, Manifest
<1>5. expected \subseteq Regions
  <2>1. Wanted \subseteq Shards BY <1>2, Zenon DEF Wanted
  <2> QED BY <1>1, <2>1, RegionFacts, Zenon DEF ExpectedRegions, Manifest
<1>6. n = [rev |-> m.rev + 1, gen |-> rpZone.gen, tombstone |-> tombstone, serve |-> serve,
           withdraw |-> withdraw, expected |-> expected]
  BY Zenon DEF NextManifest
<1>7. ASSUME NEW s \in Local(c, Shards), s \in m.serve \/ rpBroker[s].serve
      PROVE  s \in serve \cup withdraw
  <2>1. CASE s \in m.serve BY <2>1, Zenon DEF WithdrawnTargets
  <2>2. CASE s \notin m.serve
    <3>1. RegionOf[s] = c BY RegionFacts, Zenon
    <3>2. Tracks(s, m, rpBroker[s], rpInst[s], s \in rpDelivered[c], s \in rpVerified[c])
      BY <1>1, <3>1, Zenon DEF ShardTracks
    <3>3. s \in m.withdraw BY <1>7, <2>2, <3>2, Zenon DEF Tracks
    <3>4. s \notin rpDelivered[c]
      <4>1. ~Says(m, s).serve BY <2>2, Zenon DEF Says
      <4> QED BY <1>7, <2>2, <3>2, <4>1, Zenon DEF Tracks
    <3> QED BY <3>3, <3>4, Zenon DEF WithdrawnTargets
  <2> QED BY <2>1, <2>2, Zenon
<1> HIDE DEF serve, withdraw, expected, n
<1>8. /\ n \in Manifest /\ n.tombstone = tombstone /\ n.serve = serve /\ n.withdraw = withdraw
      /\ n.rev = m.rev + 1 /\ n.gen = rpZone.gen
  BY <1>2, <1>4, <1>5, <1>6 DEF Manifest
<1>9. m.gen <= n.gen /\ n.gen <= rpZone.gen BY <1>1, <1>2, <1>8 DEF Holds
<1>10. Foresees(c, m, n, rpZone, rpBroker) BY <1>3, <1>7, <1>8, <1>9, Zenon DEF Foresees
<1> QED BY <1>3, <1>8, <1>10, Zenon DEF n

LEMMA BeginKeeps == ASSUME RegionalInv, NEW c \in Regions, BeginPass(c) PROVE RegionalInv'
<1> DEFINE m == rpMan[c]
           tombstone == rpZone.state = "deleting"
           n == NextManifest(c, tombstone)
           nothing == n.serve = {} /\ m.rev = 0
           same == SameContent(m, n)
           release == tombstone /\ (nothing \/ (same /\ TombstoneAcknowledged(c)))
           step == IF release THEN "release" ELSE IF tombstone THEN "commit" ELSE "hold"
           q == [at |-> step, current |-> TRUE, fins |-> rpZone.fins, man |-> n]
<1>1. /\ rpZone.state # "gone" /\ (release \/ ~(nothing \/ same))
      /\ rpPass' = [rpPass EXCEPT ![c] = q]
      /\ UNCHANGED <<rpZone, rpBound, published, rpStatus>>
  BY Zenon DEF BeginPass, published
<1>2. /\ n \in Manifest /\ n.tombstone = tombstone /\ (tombstone => n.serve = m.serve)
      /\ Foresees(c, m, n, rpZone, rpBroker)
  BY NextFacts, Zenon
<1>3. /\ m \in Manifest /\ Holds(c, m, rpZone, rpBroker, rpInst)
      /\ rpZone.state \in {"live", "deleting", "gone"} /\ rpZone.fins \in Finalizers
  BY RegionalFacts, Zenon DEF RegionHolds, RegionalInv, RegionalTyped
<1>4. ASSUME release PROVE m.rev = 0 \/ (m.tombstone /\ Withdrawn(m, rpBroker, rpInst))
  <2>1. CASE m.rev = 0 BY <2>1, Zenon
  <2>2. CASE m.tombstone /\ (m.serve = {} \/ m.serve \subseteq rpVerified[c])
    <3>1. ASSUME NEW s \in m.serve PROVE ~rpBroker[s].serve /\ ~rpInst[s].serve
      <4>1. s \in Local(c, Shards) BY <1>3, Zenon DEF Holds
      <4>2. /\ ShardTracks(s) /\ RegionOf[s] = c /\ s \in rpVerified[c]
            /\ rpBroker[s] \in Copy /\ rpInst[s] \in Copy
        BY <2>2, <4>1, RegionalFacts, RegionFacts, Zenon
      <4>3. Tracks(s, m, rpBroker[s], rpInst[s], s \in rpDelivered[c], TRUE)
        BY <4>2, Zenon DEF ShardTracks
      <4>4. rpBroker[s].rev \in Nat /\ rpInst[s].rev \in Nat /\ m.rev \in Nat
        BY <1>3, <4>2, Zenon DEF Copy, Manifest
      <4>5. rpInst[s].rev = m.rev /\ rpBroker[s].rev = m.rev BY <4>3, <4>4 DEF Tracks
      <4>6. rpInst[s] = Says(m, s) /\ rpBroker[s] = Says(m, s) BY <4>3, <4>5, Zenon DEF Tracks
      <4>7. ~Says(m, s).serve BY <2>2, Zenon DEF Says
      <4> QED BY <4>6, <4>7, Zenon
    <3> QED BY <2>2, <3>1, Zenon DEF Withdrawn
  <2>3. m.rev = 0 \/ (m.tombstone /\ (m.serve = {} \/ m.serve \subseteq rpVerified[c]))
    BY <1>4, Zenon DEF TombstoneAcknowledged, Published
  <2> QED BY <2>1, <2>2, <2>3, Zenon
<1>5. ASSUME tombstone, ~release PROVE c \in rpZone.fins
  <2>1. ~nothing /\ ~same BY <1>1, <1>5, Zenon
  <2>2. m.rev # 0
    <3>1. m.rev = 0 => m.serve = {} BY <1>3 DEF Holds, NoMan
    <3> QED BY <1>2, <1>5, <2>1, <3>1, Zenon
  <2>3. m.rev > 0 BY <1>3, <2>2 DEF Manifest
  <2>4. ~m.tombstone
    <3>1. m.tombstone \in BOOLEAN BY <1>3, Zenon DEF Manifest
    <3> QED BY <1>2, <1>5, <2>1, <2>3, <3>1, Zenon DEF SameContent
  <2> QED BY <1>3, <2>3, <2>4, Zenon DEF Holds
<1> HIDE DEF n, release, nothing, same
<1>6. /\ q \in PassState /\ q.at = step /\ q.man = n /\ q.fins = rpZone.fins
  BY <1>2, <1>3, Zenon DEF PassState
<1> HIDE DEF q
<1>7. Works(c, m, q, rpZone, rpBroker, rpInst)
  <2>1. CASE release BY <1>4, <1>6, <2>1, Zenon DEF Works, release
  <2>2. CASE ~release /\ tombstone BY <1>2, <1>5, <1>6, <2>2, Zenon DEF Works
  <2>3. CASE ~release /\ ~tombstone BY <1>1, <1>2, <1>3, <1>6, <2>3, Zenon DEF Works
  <2> QED BY <2>1, <2>2, <2>3, Zenon
<1> QED BY <1>1, <1>6, <1>7, PassStep, Zenon

\* A pass writes the zone: the copies of the other regions' passes are outdated.
LEMMA WriteStep ==
    ASSUME RegionalInv, NEW c \in Regions, NEW q \in PassState,
           NEW z \in [state : {"live", "deleting", "gone"}, fins : Finalizers, gen : Nat],
           rpZone' = z, z.gen = rpZone.gen, z.state = "gone" => z.fins = {},
           rpPass' = [d \in Regions |-> IF d = c THEN q ELSE [rpPass[d] EXCEPT !.current = FALSE]],
           UNCHANGED <<rpBound, published, rpStatus>>,
           \A d \in Regions \ {c} : d \in rpZone.fins => d \in z.fins,
           \/ c \in rpZone.fins => c \in z.fins
           \/ rpMan[c].rev = 0
           \/ rpMan[c].tombstone /\ Withdrawn(rpMan[c], rpBroker, rpInst),
           Works(c, rpMan[c], q, z, rpBroker, rpInst)
    PROVE  RegionalInv'
<1>1. ASSUME NEW d \in Regions \ {c}
      PROVE  /\ rpPass'[d] \in PassState /\ ~rpPass'[d].current
             /\ rpPass'[d].at = rpPass[d].at /\ rpPass'[d].fins = rpPass[d].fins
             /\ rpPass'[d].man = rpPass[d].man
  <2>1. rpPass'[d] = [rpPass[d] EXCEPT !.current = FALSE] BY Zenon
  <2> QED BY <2>1, RegionalFacts, Zenon DEF PassState
<1>2. rpPass'[c] = q BY Zenon
<1>3. rpPass' \in [Regions -> PassState]
  <2>1. \A d \in Regions : rpPass'[d] \in PassState BY <1>1, <1>2, Zenon
  <2> QED BY <2>1, Zenon
<1>4. RegionalTyped' BY <1>3, Zenon DEF RegionalInv, RegionalTyped, published
<1>5. rpZone.gen \in Nat /\ rpZone'.gen \in Nat /\ rpZone.gen <= rpZone'.gen
  BY DEF RegionalInv, RegionalTyped
<1>6. ASSUME NEW d \in Regions PROVE RegionWorks(d)'
  <2>1. CASE d = c BY <1>2, <2>1, Zenon DEF RegionWorks, published
  <2>2. CASE d # c
    <3>1. /\ rpPass'[d].at = rpPass[d].at /\ rpPass'[d].fins = rpPass[d].fins
          /\ rpPass'[d].man = rpPass[d].man /\ ~rpPass'[d].current
      BY <1>1, <2>2, Zenon
    <3>2. /\ Works(d, rpMan[d], rpPass[d], rpZone, rpBroker, rpInst)
          /\ rpPass[d].man.gen \in Nat
      BY RegionalFacts, Zenon DEF RegionWorks, PassState, Manifest
    <3>3. d \in rpZone.fins => d \in z.fins BY <2>2, Zenon
    <3>4. Works(d, rpMan[d], rpPass'[d], rpZone', rpBroker, rpInst)
      BY <1>5, <3>1, <3>2, <3>3, WorksOn, Zenon
    <3> QED BY <3>4, Zenon DEF RegionWorks, published
  <2> QED BY <2>1, <2>2, Zenon
<1> QED BY <1>4, <1>5, <1>6, ZoneStep, Zenon

\* holdRegions: before a manifest is committed the region's finalizer is there.
LEMMA HoldKeeps == ASSUME RegionalInv, NEW c \in Regions, Hold(c) PROVE RegionalInv'
<1> DEFINE p == rpPass[c]
           q == [p EXCEPT !.at = "commit"]
           more == HoldRegions(c, p.fins, p.man.expected)
<1>1. /\ p.at = "hold" /\ p \in PassState
      /\ Works(c, rpMan[c], p, rpZone, rpBroker, rpInst)
      /\ UNCHANGED <<rpBound, published, rpStatus>>
  BY RegionalFacts, Zenon DEF Hold, RegionWorks, published
<1>2. /\ q \in PassState /\ q.at = "commit" /\ q.man = p.man
  BY <1>1, Zenon DEF PassState
<1>3. more \subseteq Regions /\ (more = {} => c \in p.fins) /\ (c \in p.fins \/ c \in more)
  <2>1. RegionsOfShards(rpBound) \subseteq Regions
    BY RegionFacts, Zenon DEF RegionalInv, RegionalTyped
  <2> QED BY <2>1, Zenon DEF HoldRegions
<1> HIDE DEF q, more
<1>4. CASE more = {} /\ rpPass' = [rpPass EXCEPT ![c] = q] /\ UNCHANGED rpZone
  <2>1. Works(c, rpMan[c], q, rpZone, rpBroker, rpInst)
    BY <1>1, <1>2, <1>3, <1>4, Zenon DEF Works
  <2> QED BY <1>1, <1>2, <1>4, <2>1, PassStep, Zenon
<1>5. CASE /\ more # {} /\ p.current
           /\ WriteZone([rpZone EXCEPT !.fins = rpZone.fins \cup more])
           /\ rpPass' = [Outdated(c) EXCEPT ![c] = q]
  <2> DEFINE z == [rpZone EXCEPT !.fins = rpZone.fins \cup more]
  <2>1. rpZone \in [state : {"live", "deleting", "gone"}, fins : Finalizers, gen : Nat]
    BY Zenon DEF RegionalInv, RegionalTyped
  <2>2. /\ z \in [state : {"live", "deleting", "gone"}, fins : Finalizers, gen : Nat]
        /\ z.state = "live" /\ z.fins = rpZone.fins \cup more /\ z.gen = rpZone.gen
    BY <1>1, <1>3, <1>5, <2>1, Zenon DEF Finalizers, Works
  <2>3. rpZone' = z BY <1>5, <2>2, Zenon DEF WriteZone
  <2>4. rpPass' = [d \in Regions |-> IF d = c THEN q ELSE [rpPass[d] EXCEPT !.current = FALSE]]
    BY <1>5, Zenon DEF Outdated
  <2> HIDE DEF z
  <2>5. Works(c, rpMan[c], q, z, rpBroker, rpInst)
    <3>1. c \in z.fins BY <1>1, <1>3, <2>2, Zenon DEF Works
    <3>2. Foresees(c, rpMan[c], q.man, z, rpBroker)
      BY <1>1, <1>2, <2>2, Zenon DEF Works, Foresees
    <3> QED BY <1>2, <3>1, <3>2, Zenon DEF Works
  <2> QED BY <1>1, <1>2, <2>2, <2>3, <2>4, <2>5, WriteStep, Zenon
<1>6. CASE rpPass' = [rpPass EXCEPT ![c] = Idle] /\ UNCHANGED rpZone
  <2> HIDE DEF Idle
  <2> QED BY <1>1, <1>6, NoManFacts, IdleWorks, PassStep, Zenon
<1> QED BY <1>4, <1>5, <1>6, Zenon DEF Hold, more, q

\* releaseZone: the region lets go of a zone that it has withdrawn.
LEMMA ReleaseKeeps == ASSUME RegionalInv, NEW c \in Regions, ReleaseZone(c) PROVE RegionalInv'
<1> DEFINE p == rpPass[c]
           fins == (p.fins \ {c}) \cap Regions
<1>1. /\ p.at = "release" /\ p \in PassState
      /\ Works(c, rpMan[c], p, rpZone, rpBroker, rpInst)
      /\ UNCHANGED <<rpBound, published, rpStatus>>
  BY RegionalFacts, Zenon DEF ReleaseZone, RegionWorks, published
<1>2. CASE p.current /\ WriteZone([rpZone EXCEPT !.fins = fins]) /\ rpPass' = Outdated(c)
  <2> DEFINE y == [rpZone EXCEPT !.fins = fins]
             z == IF fins = {} THEN [y EXCEPT !.state = "gone"] ELSE y
  <2>1. /\ rpZone \in [state : {"live", "deleting", "gone"}, fins : Finalizers, gen : Nat]
        /\ rpZone.state = "deleting" /\ p.fins = rpZone.fins
    BY <1>1, <1>2, Zenon DEF RegionalInv, RegionalTyped, Works
  <2>2. /\ y \in [state : {"live", "deleting", "gone"}, fins : Finalizers, gen : Nat]
        /\ y.state = "deleting" /\ y.fins = fins /\ y.gen = rpZone.gen
    BY <2>1, Zenon DEF Finalizers
  <2>3. rpZone' = z BY <1>2, <2>2, Zenon DEF WriteZone
  <2> HIDE DEF y
  <2>4. /\ z \in [state : {"live", "deleting", "gone"}, fins : Finalizers, gen : Nat]
        /\ z.fins = fins /\ z.gen = rpZone.gen /\ (z.state = "gone" => z.fins = {})
    BY <2>2, Zenon
  <2>5. rpPass' = [d \in Regions |-> IF d = c THEN Idle ELSE [rpPass[d] EXCEPT !.current = FALSE]]
    BY <1>2, Zenon DEF Outdated
  <2>6. \A d \in Regions \ {c} : d \in rpZone.fins => d \in z.fins BY <2>1, <2>4, Zenon
  <2>7. rpMan[c].rev = 0 \/ (rpMan[c].tombstone /\ Withdrawn(rpMan[c], rpBroker, rpInst))
    BY <1>1, Zenon DEF Works
  <2> HIDE DEF z, Idle
  <2> QED BY <1>1, <2>3, <2>4, <2>5, <2>6, <2>7, NoManFacts, IdleWorks, WriteStep, Zenon
<1>3. CASE rpPass' = [rpPass EXCEPT ![c] = Idle] /\ UNCHANGED rpZone
  <2> HIDE DEF Idle
  <2> QED BY <1>1, <1>3, NoManFacts, IdleWorks, PassStep, Zenon
<1> QED BY <1>2, <1>3, Zenon DEF ReleaseZone

-----------------------------------------------------------------------------
(* Steps that publish, deliver and report *)

\* Manifests and passes stay; brokers and members are given what manifests say.
LEMMA CopyStep ==
    ASSUME RegionalInv, RegionalTyped', UNCHANGED <<rpZone, rpMan, rpPass>>,
           \A s \in Shards : ShardTracks(s)', Reported',
           \A c \in Regions : \A s \in Local(c, Shards) :
             /\ rpBroker'[s].serve =>
                  rpBroker[s].serve \/ (s \in rpMan[c].serve /\ ~rpMan[c].tombstone)
             /\ rpInst'[s].serve => rpInst[s].serve \/ rpBroker[s].serve
    PROVE  RegionalInv'
<1>1. ASSUME NEW c \in Regions PROVE RegionHolds(c)' /\ RegionWorks(c)'
  <2> DEFINE m == rpMan[c]
             p == rpPass[c]
  <2>1. /\ Holds(c, m, rpZone, rpBroker, rpInst)
        /\ Works(c, m, p, rpZone, rpBroker, rpInst)
    BY RegionalFacts, Zenon DEF RegionHolds, RegionWorks
  <2>2. ASSUME m.tombstone, Withdrawn(m, rpBroker, rpInst)
        PROVE  Withdrawn(m, rpBroker', rpInst')
    <3>1. m.serve \subseteq Local(c, Shards) BY <2>1, Zenon DEF Holds
    <3> QED BY <2>2, <3>1, Zenon DEF Withdrawn
  <2>3. ASSUME NEW n, Foresees(c, m, n, rpZone, rpBroker)
        PROVE  Foresees(c, m, n, rpZone, rpBroker')
    BY <2>3, Zenon DEF Foresees
  <2>4. Holds(c, m, rpZone, rpBroker', rpInst') BY <2>1, <2>2, Zenon DEF Holds
  <2>5. Works(c, m, p, rpZone, rpBroker', rpInst') BY <2>1, <2>2, <2>3, Zenon DEF Works
  <2> QED BY <2>4, <2>5, Zenon DEF RegionHolds, RegionWorks
<1>2. rpZone'.state = "gone" => rpZone'.fins = {} BY Zenon DEF RegionalInv
<1> QED BY <1>1, <1>2, Zenon DEF RegionalInv

\* A member never goes back to an earlier generation.
LEMMA ReportsStay ==
    ASSUME RegionalInv, UNCHANGED rpStatus,
           \A s \in Shards : rpInst'[s].gen \in Nat /\ rpInst[s].gen <= rpInst'[s].gen
    PROVE  Reported'
<1> SUFFICES ASSUME NEW d \in Regions, rpStatus.entry[d].published
             PROVE  \E s \in Local(d, Shards) : rpInst'[s].gen >= rpStatus.entry[d].gen
  BY Zenon DEF Reported
<1>1. PICK s \in Local(d, Shards) : rpInst[s].gen >= rpStatus.entry[d].gen
  BY Zenon DEF RegionalInv, Reported
<1>2. /\ s \in Shards /\ rpInst[s].gen \in Nat /\ rpStatus.entry[d].gen \in Nat
  BY RegionFacts, Zenon DEF RegionalInv, RegionalTyped, Copy
<1>3. rpInst'[s].gen >= rpStatus.entry[d].gen BY <1>1, <1>2
<1> QED BY <1>3, Zenon

\* The next manifest is active: what its brokers have is behind it, and it
\* names every shard where that is served.
LEMMA CommitKeeps == ASSUME RegionalInv, NEW c \in Regions, Commit(c) PROVE RegionalInv'
<1> DEFINE m == rpMan[c]
           n == rpPass[c].man
<1>1. /\ rpPass[c].at = "commit" /\ rpMan' = [rpMan EXCEPT ![c] = n]
      /\ rpDelivered' = [rpDelivered EXCEPT ![c] = {}]
      /\ rpVerified' = [rpVerified EXCEPT ![c] = {}]
      /\ rpPass' = [rpPass EXCEPT ![c] = Idle]
      /\ UNCHANGED <<rpZone, rpBound, rpBroker, rpInst, rpStatus>>
  BY Zenon DEF Commit
<1>2. /\ m \in Manifest /\ n \in Manifest
      /\ Foresees(c, m, n, rpZone, rpBroker) /\ c \in rpZone.fins
  BY <1>1, RegionalFacts, Zenon DEF RegionWorks, Works, PassState
<1>3. RegionalTyped'
  <2> HIDE DEF Idle
  <2> QED BY <1>1, <1>2, NoManFacts, Zenon DEF RegionalInv, RegionalTyped
<1>4. /\ rpMan'[c] = n /\ rpPass'[c] = Idle /\ rpDelivered'[c] = {} /\ rpVerified'[c] = {}
      /\ \A d \in Regions \ {c} : /\ rpMan'[d] = rpMan[d] /\ rpPass'[d] = rpPass[d]
                                  /\ rpDelivered'[d] = rpDelivered[d]
                                  /\ rpVerified'[d] = rpVerified[d]
  BY <1>1, Zenon DEF RegionalInv, RegionalTyped
<1>5. m.rev \in Nat /\ m.gen \in Nat /\ n.rev \in Nat /\ n.gen \in Nat BY <1>2, Zenon DEF Manifest
<1>6. ASSUME NEW s \in Shards PROVE ShardTracks(s)'
  <2>0. RegionOf[s] \in Regions /\ s \in Local(RegionOf[s], Shards) BY RegionFacts, Zenon
  <2>1. CASE RegionOf[s] = c
    <3>1. /\ Tracks(s, m, rpBroker[s], rpInst[s], s \in rpDelivered[c], s \in rpVerified[c])
          /\ rpBroker[s] \in Copy /\ rpInst[s] \in Copy
      BY <2>0, <2>1, RegionalFacts, Zenon DEF ShardTracks
    <3>2. rpBroker[s].rev \in Nat /\ rpBroker[s].gen \in Nat BY <3>1, Zenon DEF Copy
    <3>3. rpBroker[s].serve => s \in n.serve \cup n.withdraw
      BY <1>2, <2>0, <2>1, Zenon DEF Foresees
    <3>4. n.rev = m.rev + 1 /\ m.gen <= n.gen BY <1>2, Zenon DEF Foresees
    <3>5. Tracks(s, n, rpBroker[s], rpInst[s], s \in {}, s \in {})
      BY <1>5, <3>1, <3>2, <3>3, <3>4 DEF Tracks
    <3>6. Tracks(s, rpMan'[c], rpBroker'[s], rpInst'[s],
                 s \in rpDelivered'[c], s \in rpVerified'[c])
      BY <1>1, <1>4, <3>5, Zenon
    <3> QED BY <2>1, <3>6, Zenon DEF ShardTracks
  <2>2. CASE RegionOf[s] # c
    BY <1>1, <1>4, <2>0, <2>2, Zenon DEF RegionalInv, ShardTracks
  <2> QED BY <2>1, <2>2, Zenon
<1>7. ASSUME NEW d \in Regions PROVE RegionHolds(d)' /\ RegionWorks(d)'
  <2>1. CASE d = c
    <3>1. Holds(c, n, rpZone, rpBroker, rpInst)
      BY <1>2, <1>5 DEF Holds, Foresees
    <3> QED BY <1>1, <1>4, <2>1, <3>1, IdleWorks DEF RegionHolds, RegionWorks
  <2>2. CASE d # c BY <1>1, <1>4, <2>2, Zenon DEF RegionalInv, RegionHolds, RegionWorks
  <2> QED BY <2>1, <2>2, Zenon
<1>8. Reported' /\ (rpZone'.state = "gone" => rpZone'.fins = {})
  BY <1>1, Zenon DEF RegionalInv, Reported
<1> QED BY <1>3, <1>6, <1>7, <1>8, Zenon DEF RegionalInv

\* The rows of a manifest are about what it says.
LEMMA VerifiedServes ==
    ASSUME RegionalInv, NEW c \in Regions, Published(c)
    PROVE  \E s \in Local(c, Shards) : rpInst[s].gen = rpMan[c].gen
<1>1. PICK s \in rpMan[c].serve : s \in rpVerified[c] BY Zenon DEF Published
<1>2. s \in Local(c, Shards) BY RegionalFacts, Zenon DEF RegionHolds, Holds
<1>3. /\ Tracks(s, rpMan[c], rpBroker[s], rpInst[s], s \in rpDelivered[c], s \in rpVerified[c])
      /\ rpBroker[s].rev \in Nat /\ rpInst[s].rev \in Nat /\ rpMan[c].rev \in Nat
  BY <1>2, RegionalFacts, RegionFacts, Zenon DEF ShardTracks, Copy, Manifest
<1>4. rpInst[s].gen = rpMan[c].gen BY <1>1, <1>3 DEF Tracks, Says
<1> QED BY <1>2, <1>4, Zenon

\* A control plane reports for its own region what its members have installed.
LEMMA AggregateKeeps ==
    ASSUME RegionalInv, NEW c \in Regions, AggregateStatus(c) PROVE RegionalInv'
<1> DEFINE entries == RecordRegions(c)
           said == IF rpMan[c].expected = {} THEN Published(c)
                   ELSE PendingRegions(entries, rpMan[c].expected, rpMan[c].gen) = {}
<1>1. /\ rpStatus' = [entry |-> entries, gen |-> rpMan[c].gen, published |-> said]
      /\ UNCHANGED <<rpZone, rpBound, rpMan, rpDelivered, rpVerified, rpBroker, rpInst, rpPass>>
  BY Zenon DEF AggregateStatus
<1>2. /\ rpMan[c].rev \in Nat /\ rpMan[c].gen \in Nat
      /\ rpStatus.entry \in [Regions -> [gen : Nat, rev : Nat, published : BOOLEAN]]
  BY RegionalFacts, Zenon DEF RegionalInv, RegionalTyped, Manifest
<1>3. Published(c) \in BOOLEAN /\ said \in BOOLEAN BY Zenon DEF Published
<1>4. entries \in [Regions -> [gen : Nat, rev : Nat, published : BOOLEAN]]
  BY <1>2, <1>3, Zenon DEF RecordRegions, NoEntryYet
<1>5. /\ \A d \in Regions \ {c} : entries[d] = rpStatus.entry[d]
      /\ entries[c].published => Published(c) /\ entries[c].gen = rpMan[c].gen
  BY <1>2, Zenon DEF RecordRegions, NoEntryYet
<1> HIDE DEF entries, said
<1>6. RegionalTyped' BY <1>1, <1>2, <1>3, <1>4, Zenon DEF RegionalInv, RegionalTyped
<1>7. Reported'
  <2> SUFFICES ASSUME NEW d \in Regions, entries[d].published
               PROVE  \E s \in Local(d, Shards) : rpInst[s].gen >= entries[d].gen
    BY <1>1, Zenon DEF Reported
  <2>1. CASE d = c
    <3>1. PICK s \in Local(c, Shards) : rpInst[s].gen = rpMan[c].gen
      BY <1>5, <2>1, VerifiedServes, Zenon
    <3>2. rpInst[s].gen >= entries[d].gen BY <1>2, <1>5, <2>1, <3>1
    <3> QED BY <2>1, <3>2, Zenon
  <2>2. CASE d # c BY <1>5, <2>2, Zenon DEF RegionalInv, Reported
  <2> QED BY <2>1, <2>2, Zenon
<1>8. \A s \in Shards : ShardTracks(s)' BY <1>1, Zenon DEF RegionalInv, ShardTracks
<1> QED BY <1>1, <1>6, <1>7, <1>8, CopyStep, Zenon

\* The exporter gives a broker what the active manifest says of its shard.
LEMMA ExportKeeps == ASSUME RegionalInv, NEW s \in Shards, Export(s) PROVE RegionalInv'
<1> DEFINE c == RegionOf[s]
           m == rpMan[c]
<1>0. c \in Regions /\ s \in Local(c, Shards) BY RegionFacts, Zenon
<1>1. /\ s \in m.serve \cup m.withdraw
      /\ rpBroker' = [rpBroker EXCEPT ![s] = Says(m, s)]
      /\ rpDelivered' = [rpDelivered EXCEPT ![c] = @ \cup {s}]
      /\ UNCHANGED <<rpZone, rpBound, rpMan, rpVerified, rpInst, rpPass, rpStatus>>
  BY Zenon DEF Export, Says
<1>2. m \in Manifest /\ m.rev \in Nat /\ m.gen \in Nat /\ Says(m, s) \in Copy
  BY <1>0, RegionalFacts, Zenon DEF Manifest, Says, Copy
<1>3. /\ rpBroker'[s] = Says(m, s) /\ \A t \in Shards \ {s} : rpBroker'[t] = rpBroker[t]
      /\ rpDelivered'[c] = rpDelivered[c] \cup {s}
      /\ \A d \in Regions \ {c} : rpDelivered'[d] = rpDelivered[d]
  BY <1>0, <1>1, Zenon DEF RegionalInv, RegionalTyped
<1>4. RegionalTyped' BY <1>0, <1>1, <1>2, Zenon DEF RegionalInv, RegionalTyped
<1>5. ASSUME NEW t \in Shards PROVE ShardTracks(t)'
  <2>1. CASE t = s
    <3>1. /\ Tracks(s, m, rpBroker[s], rpInst[s], s \in rpDelivered[c], s \in rpVerified[c])
          /\ rpBroker[s] \in Copy /\ rpInst[s] \in Copy
      BY <1>0, RegionalFacts, Zenon DEF ShardTracks
    <3>2. /\ rpBroker[s].rev \in Nat /\ rpBroker[s].gen \in Nat
          /\ rpInst[s].rev \in Nat /\ rpInst[s].gen \in Nat
      BY <3>1, Zenon DEF Copy
    <3>3. /\ Says(m, s).rev = m.rev /\ Says(m, s).gen = m.gen BY Zenon DEF Says
    <3>4. rpInst[s].rev = m.rev => rpInst[s] = Says(m, s)
      BY <1>2, <3>1, <3>2 DEF Tracks
    <3>5. ASSUME NEW given
          PROVE  Tracks(s, m, Says(m, s), rpInst[s], given, s \in rpVerified[c])
      BY <1>1, <1>2, <3>1, <3>2, <3>3, <3>4 DEF Tracks
    <3>6. Tracks(s, rpMan'[c], rpBroker'[s], rpInst'[s], s \in rpDelivered'[c], s \in rpVerified'[c])
      BY <1>1, <1>3, <3>5, Zenon
    <3> QED BY <2>1, <3>6, Zenon DEF ShardTracks
  <2>2. CASE t # s
    <3>1. t \in rpDelivered'[RegionOf[t]] <=> t \in rpDelivered[RegionOf[t]]
      BY <1>3, <2>2, RegionFacts, Zenon
    <3> QED BY <1>1, <1>3, <2>2, <3>1, Zenon DEF RegionalInv, ShardTracks, Tracks
  <2> QED BY <2>1, <2>2, Zenon
<1>6. Reported' BY <1>1, Zenon DEF RegionalInv, Reported
<1>7. ASSUME NEW d \in Regions, NEW t \in Local(d, Shards)
      PROVE  /\ rpBroker'[t].serve =>
                  rpBroker[t].serve \/ (t \in rpMan[d].serve /\ ~rpMan[d].tombstone)
             /\ rpInst'[t].serve => rpInst[t].serve \/ rpBroker[t].serve
  <2>1. t \in Shards /\ RegionOf[t] = d BY RegionFacts, Zenon
  <2>2. Says(m, s).serve => s \in m.serve /\ ~m.tombstone BY Zenon DEF Says
  <2> QED BY <1>1, <1>3, <2>1, <2>2, Zenon
<1> QED BY <1>1, <1>4, <1>5, <1>6, <1>7, CopyStep, Zenon

LEMMA InstallKeeps == ASSUME RegionalInv, NEW s \in Shards, Install(s) PROVE RegionalInv'
<1> DEFINE c == RegionOf[s]
<1>0. c \in Regions /\ s \in Local(c, Shards) BY RegionFacts, Zenon
<1>1. /\ rpInst' = [rpInst EXCEPT ![s] = rpBroker[s]]
      /\ UNCHANGED <<rpZone, rpBound, rpMan, rpDelivered, rpVerified, rpBroker, rpPass, rpStatus>>
  BY Zenon DEF Install
<1>2. /\ Tracks(s, rpMan[c], rpBroker[s], rpInst[s], s \in rpDelivered[c], s \in rpVerified[c])
      /\ rpBroker[s] \in Copy /\ rpInst[s] \in Copy /\ rpMan[c] \in Manifest
  BY <1>0, RegionalFacts, Zenon DEF ShardTracks
<1>3. rpInst'[s] = rpBroker[s] /\ \A t \in Shards \ {s} : rpInst'[t] = rpInst[t]
  BY <1>1, Zenon DEF RegionalInv, RegionalTyped
<1>4. RegionalTyped' BY <1>1, <1>2, Zenon DEF RegionalInv, RegionalTyped
<1>5. /\ rpMan[c].rev \in Nat /\ rpMan[c].gen \in Nat
      /\ rpBroker[s].rev \in Nat /\ rpBroker[s].gen \in Nat
      /\ rpInst[s].rev \in Nat /\ rpInst[s].gen \in Nat
  BY <1>2, Zenon DEF Copy, Manifest
<1>6. ASSUME NEW t \in Shards PROVE ShardTracks(t)'
  <2>1. CASE t = s
    <3>1. /\ rpBroker[s].serve => rpBroker[s].rev > 0
      <4>1. rpBroker[s].serve => rpMan[c] # NoMan /\ (rpBroker[s].rev = 0 => rpInst[s] = rpBroker[s])
        BY <1>2, <1>5 DEF Tracks, NoMan
      <4> QED BY <1>2, <1>5, <4>1 DEF Tracks
    <3>2. Tracks(s, rpMan[c], rpBroker[s], rpBroker[s], s \in rpDelivered[c], s \in rpVerified[c])
      BY <1>2, <1>5, <3>1 DEF Tracks
    <3>3. Tracks(s, rpMan'[c], rpBroker'[s], rpInst'[s],
                 s \in rpDelivered'[c], s \in rpVerified'[c])
      BY <1>1, <1>3, <3>2, Zenon
    <3> QED BY <2>1, <3>3, Zenon DEF ShardTracks
  <2>2. CASE t # s BY <1>1, <1>3, <2>2, Zenon DEF RegionalInv, ShardTracks
  <2> QED BY <2>1, <2>2, Zenon
<1>7. ASSUME NEW t \in Shards PROVE rpInst'[t].gen \in Nat /\ rpInst[t].gen <= rpInst'[t].gen
  <2>1. CASE t = s BY <1>2, <1>3, <1>5, <2>1, Zenon DEF Tracks
  <2>2. CASE t # s BY <1>3, <2>2 DEF RegionalInv, RegionalTyped, Copy
  <2> QED BY <2>1, <2>2, Zenon
<1>8. Reported' BY <1>1, <1>7, ReportsStay, Zenon
<1>9. ASSUME NEW d \in Regions, NEW t \in Local(d, Shards)
      PROVE  /\ rpBroker'[t].serve =>
                  rpBroker[t].serve \/ (t \in rpMan[d].serve /\ ~rpMan[d].tombstone)
             /\ rpInst'[t].serve => rpInst[t].serve \/ rpBroker[t].serve
  BY <1>1, <1>3, RegionFacts, Zenon
<1> QED BY <1>1, <1>4, <1>6, <1>8, <1>9, CopyStep, Zenon

\* Rows come, from members that have what the manifest says, and lapse.
LEMMA RowsKeep ==
    ASSUME RegionalInv, NEW s \in Shards, Acknowledge(s) \/ LapseRow(s) PROVE RegionalInv'
<1> DEFINE c == RegionOf[s]
<1>0. c \in Regions /\ s \in Local(c, Shards) BY RegionFacts, Zenon
<1>1. /\ UNCHANGED <<rpZone, rpBound, rpMan, rpDelivered, rpBroker, rpInst, rpPass, rpStatus>>
      /\ \/ /\ rpInst[s].rev = rpMan[c].rev
            /\ rpVerified' = [rpVerified EXCEPT ![c] = @ \cup {s}]
         \/ rpVerified' = [rpVerified EXCEPT ![c] = @ \ {s}]
  BY Zenon DEF Acknowledge, LapseRow
<1>2. RegionalTyped' BY <1>0, <1>1 DEF RegionalInv, RegionalTyped
<1>3. ASSUME NEW t \in Shards PROVE ShardTracks(t)'
  <2> DEFINE d == RegionOf[t]
  <2>1. Tracks(t, rpMan[d], rpBroker[t], rpInst[t], t \in rpDelivered[d], t \in rpVerified[d])
    BY Zenon DEF RegionalInv, ShardTracks
  <2>2. t \in rpVerified'[d] => t \in rpVerified[d] \/ rpInst[t].rev = rpMan[d].rev
    <3>1. /\ \A e \in Regions \ {c} : rpVerified'[e] = rpVerified[e]
          /\ \/ rpInst[s].rev = rpMan[c].rev /\ rpVerified'[c] = rpVerified[c] \cup {s}
             \/ rpVerified'[c] = rpVerified[c] \ {s}
      BY <1>0, <1>1, Zenon DEF RegionalInv, RegionalTyped
    <3>2. d \in Regions BY RegionFacts, Zenon
    <3> QED BY <3>1, <3>2, Zenon
  <2>3. Tracks(t, rpMan[d], rpBroker[t], rpInst[t], t \in rpDelivered[d], t \in rpVerified'[d])
    BY <2>1, <2>2, Zenon DEF Tracks
  <2> QED BY <1>1, <2>3, Zenon DEF ShardTracks
<1>4. Reported' BY <1>1, Zenon DEF RegionalInv, Reported
<1>5. UNCHANGED <<rpZone, rpMan, rpPass>> BY <1>1, Zenon
<1>6. \A d \in Regions : \A t \in Local(d, Shards) :
        /\ rpBroker'[t].serve =>
             rpBroker[t].serve \/ (t \in rpMan[d].serve /\ ~rpMan[d].tombstone)
        /\ rpInst'[t].serve => rpInst[t].serve \/ rpBroker[t].serve
  BY <1>1, Zenon
<1> QED BY <1>2, <1>3, <1>4, <1>5, <1>6, CopyStep, Zenon

LEMMA RegionalKept ==
    ASSUME RegionalInv, [RegionalNext]_rpVars PROVE RegionalInv'
<1>1. CASE UNCHANGED rpVars
  BY <1>1, Zenon DEF rpVars, RegionalInv, RegionalTyped, ShardTracks, RegionHolds, RegionWorks, Reported
<1>2. CASE RegionalNext
  BY <1>2, RebindKeeps, EditKeeps, DeleteKeeps, BeginKeeps, HoldKeeps, CommitKeeps, FailKeeps,
     ReleaseKeeps, AggregateKeeps, ExportKeeps, InstallKeeps, RowsKeep, Zenon
  DEF RegionalNext
<1> QED BY <1>1, <1>2, Zenon

\* The inductive invariant of a zone's regions: brokers and members follow the
\* manifest of their region, what a pass is about to write covers what others do
\* meanwhile, and a region has its finalizer on the zone while it has something
\* to withdraw (publicationTargets, holdRegions, releaseZone).
THEOREM RegionalInvariance == RegionalSpec => []RegionalInv
BY RegionalStarts, RegionalKept, PTL DEF RegionalSpec

\* A shard whose broker was given the zone stays a target until it was told to
\* withdraw, and a zone that is gone is served only where a withdrawal that
\* preceded its deletion is under way, for any shards, regions and changes.
THEOREM NothingIsForgotten == RegionalSpec => []NothingServedIsForgotten
<1>1. RegionalInv => NothingServedIsForgotten
  <2> SUFFICES ASSUME RegionalInv PROVE NothingServedIsForgotten BY Zenon
  <2>1. ASSUME NEW s \in Shards
        PROVE  /\ Tracks(s, rpMan[RegionOf[s]], rpBroker[s], rpInst[s],
                         s \in rpDelivered[RegionOf[s]], s \in rpVerified[RegionOf[s]])
               /\ rpMan[RegionOf[s]] \in Manifest
               /\ rpBroker[s].rev \in Nat /\ rpInst[s].rev \in Nat
               /\ Holds(RegionOf[s], rpMan[RegionOf[s]], rpZone, rpBroker, rpInst)
    BY RegionFacts, RegionalFacts, Zenon DEF ShardTracks, RegionHolds, Copy
  <2>2. NoShardForgotten BY <2>1, Zenon DEF NoShardForgotten, Tracks
  <2>3. ASSUME rpZone.state = "gone", NEW s \in Shards, rpBroker[s].serve \/ rpInst[s].serve
        PROVE  rpMan[RegionOf[s]].tombstone /\ s \notin rpMan[RegionOf[s]].serve
    <3>1. RegionOf[s] \notin rpZone.fins BY <2>3, Zenon DEF RegionalInv
    <3>2. rpMan[RegionOf[s]].rev > 0
      <4>1. rpMan[RegionOf[s]].rev \in Nat BY <2>1, Zenon DEF Manifest
      <4>2. CASE rpInst[s].serve BY <2>1, <4>1, <4>2 DEF Tracks
      <4>3. CASE rpBroker[s].serve
        <5>1. rpMan[RegionOf[s]] # NoMan BY <2>1, <4>3 DEF Tracks, NoMan
        <5> QED BY <2>1, <4>1, <5>1 DEF Holds
      <4> QED BY <2>3, <4>2, <4>3, Zenon
    <3> QED BY <2>1, <2>3, <3>1, <3>2, Zenon DEF Holds, Withdrawn
  <2>4. ASSUME rpZone.state = "gone", NEW c \in Regions PROVE rpPass[c].at # "commit"
    BY <2>4, Zenon DEF RegionalInv, RegionWorks, Works
  <2>5. RemovedZoneIsWithdrawn BY <2>2, <2>3, <2>4, Zenon DEF RemovedZoneIsWithdrawn, NoShardForgotten
  <2> QED BY <2>2, <2>5, Zenon DEF NothingServedIsForgotten
<1> QED BY <1>1, RegionalInvariance, PTL

\* An input is said to be published only when every expected region has members
\* with that generation or a later one: an entry that another control plane
\* wrote is still true when it is counted (RecordRegions, PublishedForRegions).
THEOREM PublishedMeansEverywhere == RegionalSpec => [][PublishedEverywhere]_rpVars
<1>1. ASSUME RegionalInv, [RegionalNext]_rpVars PROVE [PublishedEverywhere]_rpVars
  <2>1. RegionalInv' BY <1>1, RegionalKept, Zenon
  <2>2. CASE \E c \in Regions : AggregateStatus(c)
    <3>1. PICK c \in Regions : AggregateStatus(c) BY <2>2, Zenon
    <3> DEFINE m == rpMan[c]
               entries == RecordRegions(c)
    <3>2. /\ rpStatus'.gen = m.gen /\ rpStatus'.entry = entries /\ rpInst' = rpInst
          /\ rpStatus'.published /\ m.expected # {} => PendingRegions(entries, m.expected, m.gen) = {}
      BY <3>1, Zenon DEF AggregateStatus
    <3>3. ASSUME rpStatus'.published, NEW d \in m.expected
          PROVE  \E s \in Local(d, Shards) : rpInst[s].gen >= rpStatus'.gen
      <4>1. d \in Regions /\ entries[d].gen = m.gen /\ entries[d].published
        BY <3>2, <3>3, Zenon DEF PendingRegions
      <4> QED BY <2>1, <3>2, <4>1, Zenon DEF RegionalInv, Reported
    <3> QED BY <3>2, <3>3, Zenon DEF PublishedEverywhere
  <2>3. CASE rpStatus' = rpStatus BY <2>3, Zenon DEF PublishedEverywhere
  <2>4. (\E c \in Regions : AggregateStatus(c)) \/ rpStatus' = rpStatus
    BY <1>1, Zenon DEF RegionalNext, rpVars, Rebind, EditInput, DeleteZone, BeginPass, Hold, Commit, FailPass,
                ReleaseZone, Export, Install, Acknowledge, LapseRow
  <2> QED BY <2>2, <2>3, <2>4, Zenon
<1> QED BY <1>1, RegionalInvariance, PTL DEF RegionalSpec
=============================================================================
