-------------------------- MODULE DaemonActivation --------------------------
(***************************************************************************)
(* How a serving member changes the configuration its DNS process loads    *)
(* (internal/internaldns/serving: transaction.go, activation.go,           *)
(* daemons.go, readiness.go, health.go, and the activation half of         *)
(* agent.go and continuity.go; internal/internaldns/coredns/server.go).    *)
(*                                                                         *)
(* Four parties share a directory and a lock file.                         *)
(*   - The agent installs a configuration version: it takes the lock       *)
(*     exclusively, writes an activation marker, renames the files one by  *)
(*     one, moves the marker to "verifying" and the lock to shared,        *)
(*     reloads, verifies, saves the approval and removes the marker.       *)
(*   - The supervisor owns the CoreDNS process and decides every 50 ms,    *)
(*     from the lock and the marker, whether it may start or keep running. *)
(*   - CoreDNS re-reads its file every 100 ms.                             *)
(*   - The health port asks, from the same files, whether the member is    *)
(*     ready.                                                              *)
(* The agent may crash at any step: the kernel drops its lock and the      *)
(* marker stays.  A version stands for the content of every file; 0 is     *)
(* "no file" in daFile and "no approval" in daCkpt.                        *)
(***************************************************************************)
EXTENDS Naturals, FiniteSets

CONSTANTS
    MaxVersion,   \* bound: configurations the agent is asked to install
    MaxFailures   \* bound: failed commands, agent crashes and daemon exits

VARIABLES
    daPc,        \* the agent: "idle", "dead" or the step it takes next
    daWant,      \* the version the agent renders from its desired state
    daDrops,     \* the desired state withdraws something the approval serves
    daPrev,      \* the file versions a failed install restores
    daNeeds,     \* Agent.needsActivation
    daMem,       \* the agent's [active, withdrawing, rendered] in memory
    daCkpt,      \* checkpoint.json: [active, withdrawing]
    daMarker,    \* the marker's phase, or "none"
    daLock,      \* the agent's lock on the lock file: "none", "SH", "EX"
    daFile,      \* version of each installed file
    daAllow,     \* allow-coredns exists
    daProc,      \* CoreDNS: [run, version it answers from]
    daSup,       \* the supervisor's [pc, lock, start, retain]
    daCheck,     \* the readiness check's [pc, installing, active]
    daPort,      \* the health port is open
    daApproved,  \* history: every version ever approved
    daFailures

agentVars == <<daPc, daWant, daDrops, daPrev, daNeeds, daMem, daCkpt>>
diskVars == <<daMarker, daLock, daFile, daAllow>>
daVars == <<agentVars, diskVars, daProc, daSup, daCheck, daPort, daApproved,
            daFailures>>

Files == {"coredns", "dnsdist"}
Versions == 0 .. MaxVersion
Down == [run |-> "down", version |-> 0]
Loading == [run |-> "loading", version |-> 0]
Answering == daProc.run = "up"
SupIdle == [pc |-> "idle", lock |-> "none", start |-> FALSE, retain |-> TRUE]
CheckIdle == [pc |-> "idle", installing |-> FALSE, active |-> 0]

(* A member that has never activated anything. *)
ActivationInit ==
    /\ daPc = "idle" /\ daWant = 0 /\ daDrops = FALSE /\ daNeeds = TRUE
    /\ daPrev = [f \in Files |-> 0]
    /\ daMem = [active |-> 0, withdrawing |-> 0, rendered |-> 0]
    /\ daCkpt = [active |-> 0, withdrawing |-> 0]
    /\ daMarker = "none" /\ daLock = "none" /\ daAllow = FALSE
    /\ daFile = [f \in Files |-> 0]
    /\ daProc = Down /\ daSup = SupIdle /\ daCheck = CheckIdle
    /\ daPort = FALSE /\ daApproved = {} /\ daFailures = 0

MayFail == daFailures < MaxFailures /\ daFailures' = daFailures + 1

----------------------------------------------------------------------------
(* Helpers shared by the parties *)

(* installedFilesMatch and approvedFilesInstalled: every file holds v. *)
InstalledFilesMatch(v) == v # 0 /\ \A f \in Files : daFile[f] = v

(* canRetainActive: the approval still serves only what is desired. *)
CanRetainActive == daMem.active # 0 /\ ~daDrops

(* Save writes the checkpoint; it carries the memory's approval. *)
Save(mem) == daCkpt' = [active |-> mem.active, withdrawing |-> mem.withdrawing]

(* beginActivation, beginGate: take the lock exclusively, which waits for
   the supervisor to let go of it, then write the marker. *)
BeginPhase(phase) ==
    /\ daSup.lock = "none"
    /\ daLock' = "EX"
    /\ daMarker' = phase

(* Fault operator for StopDaemon: the permission goes, the process stays. *)
LeaveDaemon == daAllow' = FALSE /\ daProc' = daProc

(* The gate command: no permission to start, and CoreDNS is killed. *)
StopDaemon == daAllow' = FALSE /\ daProc' = Down

----------------------------------------------------------------------------
(* The agent *)

agentRest == UNCHANGED <<daSup, daCheck, daPort>>

(* A new desired state arrives. *)
Desire ==
    /\ daPc = "idle" /\ daWant < MaxVersion
    /\ daWant' = daWant + 1
    /\ daDrops' \in {daDrops, daMem.active # 0}
    /\ UNCHANGED <<daPc, daPrev, daNeeds, daMem, daCkpt, diskVars, daProc,
                   daApproved, daFailures>>
    /\ agentRest

(* reconcileDesired, up to Apply: an approval that may not be retained is
   withdrawn under the lock, or without it when there is none to replace. *)
ReconcileDesired ==
    /\ daPc = "idle" /\ daWant # 0
    /\ \/ daWant # daMem.rendered \/ daNeeds \/ daMem.active # daWant
    /\ daPc' = CASE daWant = daMem.rendered /\ ~daNeeds ->
                       IF daMem.active # 0 /\ ~CanRetainActive
                       THEN "withdraw" ELSE "verify"
                 [] CanRetainActive -> "validate"
                 [] daMem.active # 0 -> "own"
                 [] OTHER -> "withdraw"
    /\ UNCHANGED <<daWant, daDrops, daPrev, daNeeds, daMem, daCkpt, diskVars,
                   daProc, daApproved, daFailures>>
    /\ agentRest

OwnActivation ==
    /\ daPc = "own" /\ daPc' = "withdraw"
    /\ BeginPhase("installing")
    /\ UNCHANGED <<daWant, daDrops, daPrev, daNeeds, daMem, daCkpt, daFile,
                   daAllow, daProc, daApproved, daFailures>>
    /\ agentRest

(* withdrawApproval and its Save. *)
WithdrawApproval ==
    /\ daPc = "withdraw"
    /\ daMem' = [daMem EXCEPT
                   !.withdrawing = IF daMem.active # 0 THEN daMem.active ELSE @,
                   !.active = 0]
    /\ Save(daMem')
    /\ daPc' = IF daWant = daMem.rendered /\ ~daNeeds
               THEN "verify" ELSE "validate"
    /\ UNCHANGED <<daWant, daDrops, daPrev, daNeeds, diskVars, daProc,
                   daApproved, daFailures>>
    /\ agentRest

(* The validate commands of apply; a rejected stage changes nothing. *)
ValidateStaged ==
    /\ daPc = "validate"
    /\ \/ daPc' = "begin" /\ UNCHANGED daFailures
       \/ MayFail /\ daPc' = IF CanRetainActive THEN "idle" ELSE "gate"
    /\ UNCHANGED <<daWant, daDrops, daPrev, daNeeds, daMem, daCkpt, diskVars,
                   daProc, daApproved>>
    /\ agentRest

(* beginActivation of apply, and FailClosed before a structural change. *)
BeginActivation ==
    /\ daPc = "begin"
    /\ BeginPhase("installing")
    /\ daPrev' = daFile
    /\ \E structural \in BOOLEAN :
          daPc' = IF daNeeds \/ structural THEN "stop" ELSE "rename"
    /\ UNCHANGED <<daWant, daDrops, daNeeds, daMem, daCkpt, daFile, daAllow,
                   daProc, daApproved, daFailures>>
    /\ agentRest

StopForStructural ==
    /\ daPc = "stop"
    /\ \/ StopDaemon /\ daPc' = "rename" /\ UNCHANGED daFailures
       \/ MayFail /\ daPc' = "gate" /\ UNCHANGED <<daAllow, daProc>>
    /\ UNCHANGED <<daWant, daDrops, daPrev, daNeeds, daMem, daCkpt, daMarker,
                   daLock, daFile, daApproved>>
    /\ agentRest

(* One rename of apply; a failed write restores every file. *)
RenameNext ==
    /\ daPc = "rename"
    /\ \/ \E f \in Files :
             /\ daFile[f] # daWant
             /\ daFile' = [daFile EXCEPT ![f] = daWant]
             /\ daPc' = IF \A g \in Files \ {f} : daFile[g] = daWant
                        THEN "installed" ELSE "rename"
             /\ UNCHANGED daFailures
       \/ /\ \A f \in Files : daFile[f] = daWant
          /\ daPc' = "installed" /\ UNCHANGED <<daFile, daFailures>>
       \/ MayFail /\ daFile' = daPrev /\ daPc' = "gate"
    /\ UNCHANGED <<daWant, daDrops, daPrev, daNeeds, daMem, daCkpt, daMarker,
                   daLock, daAllow, daProc, daApproved>>
    /\ agentRest

(* filesInstalled: the marker says verifying, the lock becomes shared. *)
FilesInstalled ==
    /\ daPc \in {"installed", "restored"}
    /\ daMarker' = "verifying"
    /\ daLock' = "SH"
    /\ daPc' = IF daPc = "installed" THEN "reload" ELSE "reloadOld"
    /\ UNCHANGED <<daWant, daDrops, daPrev, daNeeds, daMem, daCkpt, daFile,
                   daAllow, daProc, daApproved, daFailures>>
    /\ agentRest

(* The reload commands: CoreDNS may start again.  Success ends apply. *)
ReloadDaemons ==
    /\ daPc = "reload"
    /\ \/ /\ daAllow' = TRUE
          /\ daMem' = [daMem EXCEPT !.rendered = daWant]
          /\ daNeeds' = FALSE
          /\ daPc' = "verify"
          /\ UNCHANGED daFailures
       \/ /\ MayFail
          /\ daPc' = "rollback"
          /\ UNCHANGED <<daAllow, daMem, daNeeds>>
    /\ UNCHANGED <<daWant, daDrops, daPrev, daCkpt, daMarker, daLock, daFile,
                   daProc, daApproved>>
    /\ agentRest

(* A failed reload: own the lock again, stop CoreDNS, restore the files. *)
Rollback ==
    /\ daPc = "rollback"
    /\ BeginPhase("installing")
    /\ \/ StopDaemon /\ daFile' = daPrev /\ daPc' = "restored"
          /\ UNCHANGED daFailures
       \/ MayFail /\ daPc' = "gate" /\ UNCHANGED <<daAllow, daProc, daFile>>
    /\ UNCHANGED <<daWant, daDrops, daPrev, daNeeds, daMem, daCkpt, daApproved>>
    /\ agentRest

(* The restored files are reloaded; commitActivation removes the marker and
   the update is rejected with what was there before, or serving is gated. *)
ReloadOld ==
    /\ daPc = "reloadOld"
    /\ \/ /\ daAllow' = TRUE /\ daMarker' = "none" /\ daLock' = "none"
          /\ daPc' = IF CanRetainActive THEN "idle" ELSE "gate"
          /\ UNCHANGED daFailures
       \/ MayFail /\ daPc' = "gate" /\ UNCHANGED <<daAllow, daMarker, daLock>>
    /\ UNCHANGED <<daWant, daDrops, daPrev, daNeeds, daMem, daCkpt, daFile,
                   daProc, daApproved>>
    /\ agentRest

(* Query verification, then approveConfiguration saves the approval. *)
ApproveConfiguration ==
    /\ daPc = "verify"
    /\ \/ /\ daMem' = [daMem EXCEPT !.active = daWant, !.withdrawing = 0]
          /\ Save(daMem')
          /\ daDrops' = FALSE
          /\ daApproved' = daApproved \cup {daWant}
          /\ daPc' = "commit"
          /\ UNCHANGED daFailures
       \/ /\ MayFail
          /\ daPc' = "gate"
          /\ UNCHANGED <<daMem, daCkpt, daDrops, daApproved>>
    /\ UNCHANGED <<daWant, daPrev, daNeeds, diskVars, daProc>>
    /\ agentRest

(* commitActivation removes the marker, and only then closes the lock. *)
CommitActivation ==
    /\ daPc \in {"commit", "unlock"}
    /\ IF daPc = "commit"
       THEN daMarker' = "none" /\ daPc' = "unlock" /\ UNCHANGED daLock
       ELSE daLock' = "none" /\ daPc' = "idle" /\ UNCHANGED daMarker
    /\ UNCHANGED <<daWant, daDrops, daPrev, daNeeds, daMem, daCkpt, daFile,
                   daAllow, daProc, daApproved, daFailures>>
    /\ agentRest

(* failClosed: beginGate, FailClosed, then abandonActivation drops the lock
   and leaves the marker. *)
BeginGate ==
    /\ daPc = "gate" /\ daPc' = "gated"
    /\ BeginPhase("gating")
    /\ daNeeds' = TRUE
    /\ daMem' = [daMem EXCEPT !.withdrawing = 0]
    /\ UNCHANGED <<daWant, daDrops, daPrev, daCkpt, daFile, daAllow, daProc,
                   daApproved, daFailures>>
    /\ agentRest

FailClosed ==
    /\ daPc = "gated" /\ daPc' = "idle"
    /\ \/ StopDaemon /\ UNCHANGED daFailures
       \/ MayFail /\ UNCHANGED <<daAllow, daProc>>
    /\ daLock' = "none"
    /\ UNCHANGED <<daWant, daDrops, daPrev, daNeeds, daMem, daCkpt, daMarker,
                   daFile, daApproved>>
    /\ agentRest

(* The agent dies: its memory and its lock are gone, the rest stays. *)
AgentCrash ==
    /\ daPc # "dead" /\ MayFail
    /\ daPc' = "dead" /\ daLock' = "none" /\ daNeeds' = TRUE
    /\ daMem' = [active |-> 0, withdrawing |-> 0, rendered |-> 0]
    /\ UNCHANGED <<daWant, daDrops, daPrev, daCkpt, daMarker, daFile, daAllow,
                   daProc, daApproved>>
    /\ agentRest

(* restoreActive: keep a process that answers from the approved files with
   no activation pending, else reinstall the approval by force (then the
   desired version follows), else fail closed. *)
RestoreActive ==
    /\ daPc = "dead"
    /\ LET kept == /\ daMarker = "none" /\ InstalledFilesMatch(daCkpt.active)
                   /\ Answering
           retain == daCkpt.active # 0 /\ ~daDrops
       IN /\ daMem' = [active |-> daCkpt.active, withdrawing |-> daCkpt.withdrawing,
                       rendered |-> IF kept THEN daCkpt.active ELSE 0]
          /\ daNeeds' = ~(retain /\ kept)
          /\ daPc' = CASE ~retain -> "gate" [] kept -> "idle"
                       [] OTHER -> "begin"
          /\ daWant' = IF retain THEN daCkpt.active ELSE daWant
    /\ UNCHANGED <<daDrops, daPrev, daCkpt, diskVars, daProc, daApproved,
                   daFailures>>
    /\ agentRest

----------------------------------------------------------------------------
(* The supervisor *)

supRest == UNCHANGED <<agentVars, daMarker, daLock, daFile, daCheck, daPort,
                       daApproved>>

Decide(start, retain) ==
    daSup' = [daSup EXCEPT !.pc = "act", !.start = start, !.retain = retain]

(* daemonPermission, first lock: shared, without waiting. *)
TryShared ==
    /\ daSup.pc = "idle"
    /\ IF daLock = "EX" THEN Decide(FALSE, TRUE)
       ELSE daSup' = [daSup EXCEPT !.pc = "upgrade", !.lock = "SH"]
    /\ UNCHANGED <<daAllow, daProc, daFailures>> /\ supRest

(* The upgrade to exclusive; one that fails may drop the shared lock. *)
TryUpgrade ==
    /\ daSup.pc = "upgrade"
    /\ IF daLock = "none"
       THEN daSup' = [daSup EXCEPT !.pc = "first", !.lock = "EX"]
       ELSE \E kept \in {"SH", "none"} :
               daSup' = [daSup EXCEPT !.pc = "first", !.lock = kept]
    /\ UNCHANGED <<daAllow, daProc, daFailures>> /\ supRest

(* The first look at the marker: a pending one whose lock was free is
   abandoned. *)
ReadMarker ==
    /\ daSup.pc = "first"
    /\ CASE daMarker = "none" -> Decide(TRUE, TRUE)
         [] daMarker # "none" /\ daSup.lock = "EX" -> Decide(FALSE, FALSE)
         [] OTHER -> daSup' = [daSup EXCEPT !.pc = "again"]
    /\ UNCHANGED <<daAllow, daProc, daFailures>> /\ supRest

(* Reacquire the shared lock before reading the phase. *)
Reacquire ==
    /\ daSup.pc = "again"
    /\ IF daLock = "EX" THEN Decide(FALSE, TRUE)
       ELSE daSup' = [daSup EXCEPT !.pc = "phase", !.lock = "SH"]
    /\ UNCHANGED <<daAllow, daProc, daFailures>> /\ supRest

ReadPhase ==
    /\ daSup.pc = "phase"
    /\ Decide(daMarker \in {"none", "verifying"},
              daMarker \in {"none", "verifying"})
    /\ UNCHANGED <<daAllow, daProc, daFailures>> /\ supRest

(* The rest of the loop: stop, keep or start the process, and release. *)
SuperviseDaemon ==
    /\ daSup.pc = "act"
    /\ daSup' = SupIdle
    /\ daProc' = CASE ~daSup.retain -> Down
                   [] /\ daSup.retain /\ daProc.run = "down" /\ daSup.start
                      /\ daAllow
                      /\ daMarker # "none" \/ InstalledFilesMatch(daCkpt.active)
                      -> Loading
                   [] OTHER -> daProc
    /\ UNCHANGED <<daAllow, daFailures>> /\ supRest

(* The supervisor restarts with its children; restoreDaemonPermissions gives
   the start permission back to an approved, fully installed configuration. *)
RestartSupervisor ==
    /\ MayFail
    /\ daProc' = Down /\ daSup' = SupIdle
    /\ daAllow' = \/ daAllow
                  \/ /\ daLock # "EX" /\ daMarker = "none"
                     /\ InstalledFilesMatch(daCkpt.active)
    /\ supRest

----------------------------------------------------------------------------
(* CoreDNS: it loads its file after it starts and polls it from then on. *)

procRest == UNCHANGED <<agentVars, diskVars, daSup, daCheck, daPort, daApproved>>

LoadFile ==
    /\ daProc.run = "loading" /\ daFile["coredns"] # 0
    /\ daProc' = [run |-> "up", version |-> daFile["coredns"]]
    /\ UNCHANGED daFailures /\ procRest

PollFile ==
    /\ Answering /\ daProc.version # daFile["coredns"]
    /\ daProc' = [run |-> "up", version |-> daFile["coredns"]]
    /\ UNCHANGED daFailures /\ procRest

DaemonExits ==
    /\ daProc.run # "down" /\ MayFail
    /\ daProc' = Down
    /\ procRest

----------------------------------------------------------------------------
(* Readiness and the health port *)

checkRest == UNCHANGED <<agentVars, diskVars, daProc, daSup, daApproved,
                         daFailures>>

(* installationReadiness: TRUE while a live agent installs, FALSE with no
   marker, and a refusal of an abandoned, gating or over-age activation. *)
InstallationReadiness ==
    CASE daMarker = "none" -> {"clear"}
      [] daLock = "none" -> {"refused"}
      [] daMarker = "gating" -> {"refused"}
      [] OTHER -> {"installing", "refused"}

Refuse == daCheck' = CheckIdle /\ daPort' = FALSE

(* servedApproval's first look. *)
CheckInstallation ==
    /\ daCheck.pc = "idle"
    /\ \E r \in InstallationReadiness :
          IF r = "refused" THEN Refuse
          ELSE /\ daCheck' = [daCheck EXCEPT !.pc = "load",
                                             !.installing = r = "installing"]
               /\ UNCHANGED daPort
    /\ checkRest

(* The checkpoint; the replaced approval counts only under an installer. *)
CheckApproval ==
    /\ daCheck.pc = "load"
    /\ LET withdrawn == daCkpt.active = 0 /\ daCkpt.withdrawing # 0 IN
       \E r \in IF withdrawn /\ ~daCheck.installing THEN InstallationReadiness
                ELSE {IF daCheck.installing THEN "installing" ELSE "clear"} :
          LET served == IF daCkpt.active # 0 THEN daCkpt.active
                        ELSE IF r = "installing" THEN daCkpt.withdrawing ELSE 0
          IN IF r = "refused" \/ served = 0 THEN Refuse
             ELSE /\ daCheck' = [pc |-> "files", installing |-> r = "installing",
                                 active |-> served]
                  /\ UNCHANGED daPort
    /\ checkRest

(* Installed files must match the approval unless an install is under way. *)
CheckFiles ==
    /\ daCheck.pc = "files"
    /\ \E r \in IF daCheck.installing \/ InstalledFilesMatch(daCheck.active)
                THEN {"installing"} ELSE InstallationReadiness :
          IF r = "installing"
          THEN daCheck' = [daCheck EXCEPT !.pc = "probe"] /\ UNCHANGED daPort
          ELSE Refuse
    /\ checkRest

(* probeLocalReadiness asks the process; the port follows the answer. *)
CheckDaemons ==
    /\ daCheck.pc = "probe"
    /\ daCheck' = CheckIdle
    /\ daPort' = Answering
    /\ checkRest

----------------------------------------------------------------------------
AgentStep ==
    \/ OwnActivation \/ WithdrawApproval \/ ValidateStaged \/ BeginActivation
    \/ StopForStructural \/ RenameNext \/ FilesInstalled \/ ReloadDaemons
    \/ Rollback \/ ReloadOld \/ ApproveConfiguration \/ CommitActivation
    \/ BeginGate \/ FailClosed
SupervisorStep ==
    \/ TryShared \/ TryUpgrade \/ ReadMarker \/ Reacquire \/ ReadPhase
    \/ SuperviseDaemon
CheckStep ==
    CheckInstallation \/ CheckApproval \/ CheckFiles \/ CheckDaemons

ActivationNext ==
    \/ Desire \/ ReconcileDesired \/ AgentStep \/ AgentCrash \/ RestoreActive
    \/ SupervisorStep \/ RestartSupervisor
    \/ LoadFile \/ PollFile \/ DaemonExits
    \/ CheckStep

----------------------------------------------------------------------------
(* Properties *)

(* Once an activation is closed (no marker, and the agent neither installing
   nor about to gate), CoreDNS answers only from a version that was approved:
   what a failed, rolled back or interrupted install left behind is stopped
   before the marker goes.  apply, failClosed, restoreActive, runDaemons. *)
ClosedServesApproved ==
    (daMarker = "none" /\ daPc = "idle" /\ Answering) =>
        daProc.version \in daApproved

ActivationTypeOK ==
    /\ daPc \in {"idle", "dead", "own", "withdraw", "validate", "begin",
                 "stop", "rename", "installed", "restored", "reload",
                 "reloadOld", "rollback", "verify", "commit", "unlock",
                 "gate", "gated"}
    /\ daMarker \in {"none", "installing", "verifying", "gating"}
    /\ daLock \in {"none", "SH", "EX"}
    /\ daFile \in [Files -> Versions]
    /\ daProc \in [run : {"down", "loading", "up"}, version : Versions]
    /\ daCkpt \in [active : Versions, withdrawing : Versions]
=============================================================================
