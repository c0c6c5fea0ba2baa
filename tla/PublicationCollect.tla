------------------------- MODULE PublicationCollect -------------------------
(***************************************************************************)
(* The collector of the publication store (internal/internaldns/pubstore/  *)
(* collect.go): it deletes the manifests, activation outboxes and serving  *)
(* outboxes that nothing can use again, while control planes publish,      *)
(* planners create serving outboxes that depend on activations, and        *)
(* exporters deliver and supersede.  One zone, one shard.                  *)
(*                                                                         *)
(* The collector works on a view of the index that it takes at the start   *)
(* of a pass; everything moves on meanwhile.  Time shows as records that   *)
(* become old: no planner pass, and no view, lasts as long as the          *)
(* retention (publicationRetention, ten minutes), which is what the        *)
(* collector relies on.                                                    *)
(***************************************************************************)
EXTENDS Naturals, FiniteSets

CONSTANTS MaxPublications, MaxSnapshots

VARIABLES pcMan,     \* manifests that exist, by revision
          pcActive,  \* the committed one, or 0
          pcStaged,  \* the last revision that was staged
          pcExport,  \* revisions that were exported
          pcAct,     \* revision -> its activation outbox
          pcServ,    \* serving outbox -> state and the activation it depends on
          pcShard,   \* the committed serving outbox, or 0
          pcNext,    \* serving outboxes created so far
          pcOld,     \* manifests and serving outboxes older than the retention
          pcPlan,    \* activation that a planner pass has read, or 0
          pcView     \* what the collector works on

pcVars == <<pcMan, pcActive, pcStaged, pcExport, pcAct, pcServ, pcShard, pcNext, pcOld, pcPlan, pcView>>

Pubs == 1..MaxPublications
Snaps == 1..MaxSnapshots
NoView == [on |-> FALSE]
Settled(state) == state \in {"acked", "superseded"}

CollectInit ==
    /\ pcMan = {} /\ pcActive = 0 /\ pcStaged = 0 /\ pcExport = {}
    /\ pcAct = [m \in Pubs |-> "absent"]
    /\ pcServ = [o \in Snaps |-> [state |-> "absent", dep |-> 0]]
    /\ pcShard = 0 /\ pcNext = 1
    /\ pcOld = [man |-> {}, serv |-> {}]
    /\ pcPlan = 0
    /\ pcView = NoView

-----------------------------------------------------------------------------
StagePublication ==
    /\ pcStaged < MaxPublications
    /\ pcStaged' = pcStaged + 1
    /\ pcMan' = pcMan \cup {pcStaged + 1}
    /\ pcAct' = [pcAct EXCEPT ![pcStaged + 1] = "pending"]
    /\ UNCHANGED <<pcActive, pcExport, pcServ, pcShard, pcNext, pcOld, pcPlan, pcView>>

\* A revision that is not committed before the next one is staged never is.
CommitPublication ==
    /\ pcStaged > pcActive
    /\ pcActive' = pcStaged
    /\ UNCHANGED <<pcMan, pcStaged, pcExport, pcAct, pcServ, pcShard, pcNext, pcOld, pcPlan, pcView>>

\* publicationDependencies: a snapshot depends on the activation of the
\* manifest that was active when the planner looked.
PlanReads ==
    /\ pcPlan = 0 /\ pcActive > 0
    /\ pcPlan' = pcActive
    /\ UNCHANGED <<pcMan, pcActive, pcStaged, pcExport, pcAct, pcServ, pcShard, pcNext, pcOld, pcView>>

\* The serving outbox is created and, unless the planner fails, committed.
PlanCreates ==
    /\ pcPlan > 0
    /\ pcNext <= MaxSnapshots
    /\ pcServ' = [pcServ EXCEPT ![pcNext] = [state |-> "pending", dep |-> pcPlan]]
    /\ pcShard' \in {pcShard, pcNext}
    /\ pcNext' = pcNext + 1
    /\ pcPlan' = 0
    /\ UNCHANGED <<pcMan, pcActive, pcStaged, pcExport, pcAct, pcOld, pcView>>

\* The exporter, as in PublicationExport.
DeliverActivation(m) ==
    /\ pcAct[m] = "pending"
    /\ m = pcActive
    /\ pcAct' = [pcAct EXCEPT ![m] = "acked"]
    /\ pcExport' = pcExport \cup {m}
    /\ UNCHANGED <<pcMan, pcActive, pcStaged, pcServ, pcShard, pcNext, pcOld, pcPlan, pcView>>

SupersedeActivation(m) ==
    /\ pcAct[m] = "pending"
    /\ m < pcActive
    /\ pcAct' = [pcAct EXCEPT ![m] = "superseded"]
    /\ UNCHANGED <<pcMan, pcActive, pcStaged, pcExport, pcServ, pcShard, pcNext, pcOld, pcPlan, pcView>>

\* dependencyReady: the activation itself, or that of a newer active manifest
\* while the older one can still be looked up.
DependencyReady(dep) ==
    \/ pcAct[dep] = "acked"
    \/ pcAct[dep] # "absent" /\ dep \in pcMan /\ pcAct[pcActive] = "acked"

DeliverServing(o) ==
    /\ pcServ[o].state = "pending"
    /\ \/ o = pcShard /\ DependencyReady(pcServ[o].dep)
          /\ pcServ' = [pcServ EXCEPT ![o].state = "acked"]
       \/ o < pcShard /\ pcServ' = [pcServ EXCEPT ![o].state = "superseded"]
    /\ UNCHANGED <<pcMan, pcActive, pcStaged, pcExport, pcAct, pcShard, pcNext, pcOld, pcPlan, pcView>>

-----------------------------------------------------------------------------
\* Time passes.  supersededAt: the retention of a manifest runs from the first
\* export of a newer one, that of a serving outbox from its creation.
GrowOld ==
    /\ \/ \E m \in pcMan \ pcOld.man :
            /\ \E n \in pcExport \cap pcMan : n > m
            /\ pcPlan # m
            /\ pcOld' = [pcOld EXCEPT !.man = @ \cup {m}]
       \/ \E o \in Snaps \ pcOld.serv :
            /\ pcServ[o].state # "absent"
            /\ pcOld' = [pcOld EXCEPT !.serv = @ \cup {o}]
    /\ pcView = NoView
    /\ UNCHANGED <<pcMan, pcActive, pcStaged, pcExport, pcAct, pcServ, pcShard, pcNext, pcPlan, pcView>>

\* Fault: only settled outboxes protect what they depend on.
ProtectSettled(serv) == {serv[o].dep : o \in {x \in Snaps : Settled(serv[x].state)}}

\* What a pending outbox still depends on.
Protected(serv) == {serv[o].dep : o \in {x \in Snaps : serv[x].state = "pending"}}

\* Collect: the manifests to delete are older than the active one, were
\* superseded long ago, and no pending outbox depends on their activation.
StartCollect ==
    /\ pcView = NoView
    /\ pcView' = [on |-> TRUE,
                  man |-> {m \in pcMan : /\ m < pcActive /\ pcActive \in pcMan
                                         /\ m \in pcOld.man
                                         /\ m \notin Protected(pcServ)},
                  serv |-> {o \in Snaps : Settled(pcServ[o].state) /\ o \in pcOld.serv}]
    /\ UNCHANGED <<pcMan, pcActive, pcStaged, pcExport, pcAct, pcServ, pcShard, pcNext, pcOld, pcPlan>>

\* The outboxes and chunks of a manifest go before the manifest; what fails is
\* tried by the next pass.
CollectManifest(m) ==
    /\ pcView.on /\ m \in pcView.man
    /\ \/ pcAct[m] # "absent" /\ pcAct' = [pcAct EXCEPT ![m] = "absent"] /\ UNCHANGED <<pcMan, pcView>>
       \/ pcAct[m] = "absent" /\ pcMan' = pcMan \ {m}
          /\ pcView' = [pcView EXCEPT !.man = @ \ {m}] /\ UNCHANGED pcAct
    /\ UNCHANGED <<pcActive, pcStaged, pcExport, pcServ, pcShard, pcNext, pcOld, pcPlan>>

\* olderThanActiveServing, read from the bucket and not from the index.
OlderThanActiveServing(o) == o < pcShard /\ pcServ[pcShard].state # "absent"

CollectServing(o) ==
    /\ pcView.on /\ o \in pcView.serv
    /\ pcView' = [pcView EXCEPT !.serv = @ \ {o}]
    /\ pcServ' = IF OlderThanActiveServing(o)
                   THEN [pcServ EXCEPT ![o] = [state |-> "absent", dep |-> 0]] ELSE pcServ
    /\ UNCHANGED <<pcMan, pcActive, pcStaged, pcExport, pcAct, pcShard, pcNext, pcOld, pcPlan>>

EndCollect ==
    /\ pcView.on
    /\ pcView' = NoView
    /\ UNCHANGED <<pcMan, pcActive, pcStaged, pcExport, pcAct, pcServ, pcShard, pcNext, pcOld, pcPlan>>

CollectNext ==
    \/ StagePublication \/ CommitPublication \/ PlanReads \/ PlanCreates
    \/ \E m \in Pubs : DeliverActivation(m) \/ SupersedeActivation(m)
    \/ \E o \in Snaps : DeliverServing(o) \/ CollectServing(o)
    \/ GrowOld \/ StartCollect \/ EndCollect
    \/ \E m \in Pubs : CollectManifest(m)

CollectSpec == CollectInit /\ [][CollectNext]_pcVars

-----------------------------------------------------------------------------
\* Collect: the active manifest keeps its activation, the shard keeps its active
\* serving outbox, and while that waits to be exported, the activation that it
\* depends on can still be looked up, whatever was committed during the pass.
CollectKeepsNeeded ==
    /\ pcActive > 0 => pcActive \in pcMan /\ pcAct[pcActive] # "absent"
    /\ pcShard > 0 => /\ pcServ[pcShard].state # "absent"
                      /\ pcServ[pcShard].state = "pending" =>
                            pcServ[pcShard].dep \in pcMan /\ pcAct[pcServ[pcShard].dep] # "absent"
=============================================================================
