---------------------------- MODULE CommandWaits ----------------------------
(* The commands that write and then wait for the operator to report:        *)
(* datumctl dns zone create and delete (internal/cmd/dns/zone/create.go,    *)
(* delete.go) and the --wait of record create and set                       *)
(* (internal/cmd/dns/record/wait.go), with the status words they read       *)
(* (internal/dns/util/conditions.go).                                       *)
(*                                                                          *)
(* The zones are the ones created for one domain.  The replicator's side is *)
(* its status synthesis only: what a pass writes to Accepted and to the     *)
(* nameservers of a zone.  ZoneReplication models the rest of it.  The      *)
(* record set holds one owner name, perhaps spelled in several ways.        *)
EXTENDS Naturals, FiniteSets

CONSTANTS
    Creates,     \* runs of zone create; each makes its own object
    Spellings,   \* the spellings of the owner name in the record set
    Reasons,     \* reasons of a Programmed=False condition
    MaxWrites,   \* bound on writes to the record set
    MaxReports   \* bound on status reports of the backend

VARIABLES
    cwZone,      \* per create: [there, accepted, served], the zone it made
    cwCreate,    \* per create: where the command is, and its failed reads
    cwHolder,    \* the create whose zone holds the domain, 0 when none
    cwClass,     \* the zone class exists
    cwVerified,  \* the domain's ownership is verified
    cwBackend,   \* the shadow zone reports its nameservers
    cwDelete,    \* zone delete: where it is and the zone it resolved
    cwSet,       \* the record set: [written, status, reports]
    cwLive,      \* the write the backend serves
    cwWait       \* record create/set --wait

zoneSide == <<cwZone, cwCreate, cwHolder, cwClass, cwVerified, cwBackend,
              cwDelete>>
recordSide == <<cwSet, cwLive, cwWait>>
cwVars == <<zoneSide, recordSide>>

NoZone == [there |-> FALSE, accepted |-> "unset", served |-> FALSE]
pollFailureTolerance == 3

WaitsInit ==
    /\ cwZone = [c \in Creates |-> NoZone]
    /\ cwCreate = [c \in Creates |-> [at |-> "start", misses |-> 0]]
    /\ cwHolder = 0
    /\ cwClass \in BOOLEAN
    /\ cwVerified \in BOOLEAN
    /\ cwBackend = FALSE
    /\ cwDelete = [at |-> "idle"]
    /\ cwSet = [written |-> 0, status |-> [s \in {} |-> "unset"], reports |-> 0]
    /\ cwLive = 0
    /\ cwWait = [at |-> "idle"]

----------------------------------------------------------------------------
(* zone create *)

Go(c, place) == cwCreate' = [cwCreate EXCEPT ![c].at = place, ![c].misses = 0]

checkDomainFree(c) ==
    /\ cwCreate[c].at = "start"
    /\ Go(c, IF \E o \in Creates : cwZone[o].there THEN "taken" ELSE "class")
    /\ UNCHANGED <<cwZone, cwHolder, cwClass, cwVerified, cwBackend, cwDelete,
                   recordSide>>

(* A list that fails, or that shows no class at all, does not stop it. *)
checkClassExists(c) ==
    /\ cwCreate[c].at = "class"
    /\ \/ Go(c, "create")
       \/ ~cwClass /\ Go(c, "noclass")
    /\ UNCHANGED <<cwZone, cwHolder, cwClass, cwVerified, cwBackend, cwDelete,
                   recordSide>>

(* The object's name is random, so the store accepts a second zone. *)
CreateObject(c) ==
    /\ cwCreate[c].at = "create"
    /\ cwZone' = [cwZone EXCEPT ![c] = [NoZone EXCEPT !.there = TRUE]]
    /\ Go(c, "wait")
    /\ UNCHANGED <<cwHolder, cwClass, cwVerified, cwBackend, cwDelete, recordSide>>

Rejected(zone) == zone.accepted = "false"

waitForNameservers(c) ==
    LET zone == cwZone[c] IN
    /\ cwCreate[c].at = "wait" /\ zone.there
    /\ Go(c, IF Rejected(zone) THEN "rejected"
             ELSE IF zone.served THEN "assigned" ELSE "wait")
    /\ UNCHANGED <<cwZone, cwHolder, cwClass, cwVerified, cwBackend, cwDelete,
                   recordSide>>

(* A read fails, or the zone is gone: three in a row end the wait. *)
PollMisses(c) ==
    /\ cwCreate[c].at = "wait"
    /\ cwCreate' = [cwCreate EXCEPT
          ![c] = [at |-> IF @.misses + 1 >= pollFailureTolerance
                         THEN "failed" ELSE "wait",
                  misses |-> @.misses + 1]]
    /\ UNCHANGED <<cwZone, cwHolder, cwClass, cwVerified, cwBackend, cwDelete,
                   recordSide>>

CreateTimesOut(c) ==
    /\ cwCreate[c].at = "wait"
    /\ Go(c, "timeout")
    /\ UNCHANGED <<cwZone, cwHolder, cwClass, cwVerified, cwBackend, cwDelete,
                   recordSide>>

----------------------------------------------------------------------------
(* zone delete *)

getZone ==
    /\ cwDelete.at = "idle"
    /\ \E c \in Creates : cwZone[c].there /\ cwDelete' = [at |-> "ask", zone |-> c]
    /\ UNCHANGED <<cwZone, cwCreate, cwHolder, cwClass, cwVerified, cwBackend,
                   recordSide>>

Decline ==
    /\ cwDelete.at = "ask"
    /\ cwDelete' = [at |-> "idle"]
    /\ UNCHANGED <<cwZone, cwCreate, cwHolder, cwClass, cwVerified, cwBackend,
                   recordSide>>

(* The zone goes with its record sets, and its claim is released. *)
Confirm ==
    LET c == cwDelete.zone IN
    /\ cwDelete.at = "ask"
    /\ cwDelete' = [at |-> "done"]
    /\ cwZone' = [cwZone EXCEPT ![c] = NoZone]
    /\ cwHolder' = IF cwHolder = c THEN 0 ELSE cwHolder
    /\ cwBackend' = (cwBackend /\ cwHolder # c)
    /\ UNCHANGED <<cwCreate, cwClass, cwVerified, recordSide>>

----------------------------------------------------------------------------
(* The replicator's status synthesis. *)

Reconcile(c) ==
    LET owned == cwHolder \in {0, c}
        served == cwZone[c].served
        status == IF ~cwClass THEN <<"false", served>>
                  ELSE IF ~owned THEN <<"false", served>>
                  ELSE IF ~cwVerified THEN <<"false", TRUE>>
                  ELSE IF served \/ cwBackend THEN <<"true", TRUE>>
                  ELSE <<"false", FALSE>>
    IN
    /\ cwZone[c].there
    /\ cwZone' = [cwZone EXCEPT ![c].accepted = status[1], ![c].served = status[2]]
    /\ cwHolder' = IF cwClass /\ owned THEN c ELSE cwHolder
    /\ UNCHANGED <<cwCreate, cwClass, cwVerified, cwBackend, cwDelete, recordSide>>

ClassAppears ==
    /\ ~cwClass /\ cwClass' = TRUE
    /\ UNCHANGED <<cwZone, cwCreate, cwHolder, cwVerified, cwBackend, cwDelete,
                   recordSide>>

DomainVerified ==
    /\ ~cwVerified /\ cwVerified' = TRUE
    /\ UNCHANGED <<cwZone, cwCreate, cwHolder, cwClass, cwBackend, cwDelete,
                   recordSide>>

ShadowReports ==
    /\ cwVerified /\ cwHolder # 0 /\ ~cwBackend
    /\ cwBackend' = TRUE
    /\ UNCHANGED <<cwZone, cwCreate, cwHolder, cwClass, cwVerified, cwDelete,
                   recordSide>>

----------------------------------------------------------------------------
(* The status word of an owner name. *)

(* Fault: a condition that is not there yet says nothing. *)
OnlyReported(cond) ==
    CASE cond = "rejected" -> 70 [] cond = "PDNSError" -> 60
      [] cond = "Conflict" -> 50 [] cond = "NotOwner" -> 40
      [] cond = "Pending" -> 20 [] cond = "true" -> 10
      [] cond = "unset" -> 5 [] OTHER -> 30

(* statusSeverity of classifyProgrammed: a name the backend has not         *)
(* reported on is pending, and an unknown reason outranks pending.          *)
statusSeverity(cond) ==
    CASE cond = "rejected" -> 70 [] cond = "PDNSError" -> 60
      [] cond = "Conflict" -> 50 [] cond = "NotOwner" -> 40
      [] cond \in {"Pending", "unset"} -> 20 [] cond = "true" -> 10
      [] OTHER -> 30

(* The worst of the conditions of every spelling, Pending when there is none. *)
recordStatus(status) ==
    IF DOMAIN status = {} THEN "Pending"
    ELSE LET worst == CHOOSE s \in DOMAIN status :
                        \A o \in DOMAIN status :
                           statusSeverity(status[o]) <= statusSeverity(status[s])
         IN  status[worst]

----------------------------------------------------------------------------
(* record create and set with --wait, and the backend. *)

WriteRecord ==
    /\ cwWait.at = "idle" /\ cwSet.written < MaxWrites
    /\ cwSet' = [cwSet EXCEPT !.written = @ + 1]
    /\ cwWait' = [at |-> "wait", wrote |-> cwSet.written + 1]
    /\ UNCHANGED <<cwLive, zoneSide>>

Serve ==
    /\ cwLive < cwSet.written
    /\ cwLive' = cwSet.written
    /\ UNCHANGED <<cwSet, cwWait, zoneSide>>

(* The operator reports on the write it served, name by name. *)
Report(status) ==
    /\ cwSet.written > 0 /\ cwSet.reports < MaxReports
    /\ \A s \in DOMAIN status : status[s] = "true" => cwLive = cwSet.written
    /\ cwSet' = [cwSet EXCEPT !.status = status, !.reports = @ + 1]
    /\ UNCHANGED <<cwLive, cwWait, zoneSide>>

Conclude(word) ==
    CASE word = "true" -> "programmed"
      [] word \in {"Conflict", "NotOwner", "PDNSError", "rejected"} -> "failed"
      [] OTHER -> "wait"

waitForProgrammed ==
    /\ cwWait.at = "wait"
    /\ cwWait' = [cwWait EXCEPT !.at = Conclude(recordStatus(cwSet.status))]
    /\ UNCHANGED <<cwSet, cwLive, zoneSide>>

WaitTimesOut ==
    /\ cwWait.at = "wait"
    /\ cwWait' = [cwWait EXCEPT !.at = "timeout"]
    /\ UNCHANGED <<cwSet, cwLive, zoneSide>>

NextCommand ==
    /\ cwWait.at \notin {"idle", "wait"}
    /\ cwWait' = [at |-> "idle"]
    /\ UNCHANGED <<cwSet, cwLive, zoneSide>>

----------------------------------------------------------------------------

Statuses == UNION {[names -> {"unset", "true", "Pending"} \cup Reasons] :
                      names \in SUBSET Spellings}

ZoneNext ==
    \/ \E c \in Creates : \/ checkDomainFree(c) \/ checkClassExists(c)
                          \/ CreateObject(c) \/ waitForNameservers(c)
                          \/ PollMisses(c) \/ CreateTimesOut(c) \/ Reconcile(c)
    \/ getZone \/ Decline \/ Confirm
    \/ ClassAppears \/ DomainVerified \/ ShadowReports

RecordNext ==
    \/ WriteRecord \/ Serve \/ waitForProgrammed \/ WaitTimesOut \/ NextCommand
    \/ \E status \in Statuses : Report(status)

----------------------------------------------------------------------------
(* Properties. *)

(* A wait that concludes the record is programmed did so on a status in     *)
(* which every spelling of the name is: whatever the order of the entries,  *)
(* a spelling that fails, waits or has no condition yet is what the command *)
(* reports (recordStatus and statusSeverity, read by waitForProgrammed).    *)
LiveMeansEverySpelling ==
    cwWait'.at = "programmed" /\ cwWait.at = "wait"
       => /\ DOMAIN cwSet.status # {}
          /\ \A s \in DOMAIN cwSet.status : cwSet.status[s] = "true"
=============================================================================
