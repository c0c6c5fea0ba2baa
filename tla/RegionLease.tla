----------------------------- MODULE RegionLease -----------------------------
(***************************************************************************)
(* The lease that elects the process which runs a region's outbox and      *)
(* acknowledgement refresh (internal/internaldns/platform/region_lease.go).*)
(* A step reads the clock, reads the lease and, some time later, writes it *)
(* with compare-and-swap; whether the process leads is then read off its   *)
(* own clock by loops that never look at the lease.  The clocks of the     *)
(* processes differ by at most MaxSkew.                                    *)
(***************************************************************************)
EXTENDS Integers

CONSTANTS Processes,
          Duration,   \* of a lease, in thirds
          Third,      \* a third of it
          MaxSkew,    \* how far a clock may be ahead of the true time
          None

ASSUME LeaseAssumption ==
    /\ Third \in Nat \ {0} /\ Duration = 3 * Third
    /\ MaxSkew \in Nat /\ MaxSkew <= Third
    /\ None \notin Processes

VARIABLES rlTime,     \* the true time
          rlSkew,     \* process -> how far its clock is ahead
          rlLease,    \* the lease: holder, end and resource version
          rlUntil,    \* process -> leadUntil, 0 when it does not lead
          rlStep,     \* process -> the step it is in: what it read, and when
          rlStopping  \* processes that hand their leases over

rlVars == <<rlTime, rlSkew, rlLease, rlUntil, rlStep, rlStopping>>

NoLease == [holder |-> None, until |-> 0, version |-> 0]
NoStep == [at |-> "idle", now |-> 0, lease |-> NoLease]

LeaseInit ==
    /\ rlTime = 1
    /\ rlSkew \in [Processes -> 0..MaxSkew]
    /\ rlLease = NoLease
    /\ rlUntil = [p \in Processes |-> 0]
    /\ rlStep = [p \in Processes |-> NoStep]
    /\ rlStopping = {}

Clock(p) == rlTime + rlSkew[p]

\* Fault: a holder leads until its lease ends.
LeadsToTheEnd(p) == Clock(p) < rlUntil[p]

\* A holder stops a third of a lease early.
Leads(p) == Clock(p) + Third < rlUntil[p]

Tick ==
    /\ rlTime' = rlTime + 1
    /\ UNCHANGED <<rlSkew, rlLease, rlUntil, rlStep, rlStopping>>

\* Step and Release hold the mutex: one of them at a time.
Begin(p, at) ==
    /\ rlStep[p].at = "idle"
    /\ rlStep' = [rlStep EXCEPT ![p] = [at |-> at, now |-> Clock(p), lease |-> rlLease]]

Stop(p) ==
    /\ rlStopping' = rlStopping \cup {p}
    /\ UNCHANGED <<rlTime, rlSkew, rlLease, rlUntil, rlStep>>

StopLeading(p) ==
    /\ p \in rlStopping
    /\ rlStep[p].at = "idle"
    /\ rlUntil' = [rlUntil EXCEPT ![p] = 0]
    /\ UNCHANGED <<rlTime, rlSkew, rlLease, rlStep, rlStopping>>

ReadLease(p) ==
    /\ p \notin rlStopping
    /\ Begin(p, "step")
    /\ UNCHANGED <<rlTime, rlSkew, rlLease, rlUntil, rlStopping>>

\* The writes of both operations: a version that moved is a conflict.
Swapped(p, holder, until) ==
    /\ rlLease.version = rlStep[p].lease.version
    /\ rlLease' = [holder |-> holder, until |-> until, version |-> rlLease.version + 1]

Finish(p, until) ==
    /\ rlStep' = [rlStep EXCEPT ![p] = NoStep]
    /\ rlUntil' = [rlUntil EXCEPT ![p] = until]
    /\ UNCHANGED <<rlTime, rlSkew, rlStopping>>

HeldByOther(p) ==
    LET s == rlStep[p] IN s.lease.holder # p /\ s.lease.until > s.now

\* More than two thirds of the process's own lease are left.
Fresh(p) ==
    LET s == rlStep[p] IN s.lease.holder = p /\ s.lease.until - s.now > 2 * Third

\* Create and Update: the lease is free, expired or due for renewal.
TakeLease(p) ==
    LET s == rlStep[p]
    IN  /\ s.at = "step"
        /\ ~HeldByOther(p) /\ ~Fresh(p)
        /\ \/ Swapped(p, p, s.now + Duration) /\ Finish(p, s.now + Duration)
           \/ /\ rlLease.version # s.lease.version
              /\ Finish(p, IF s.lease = NoLease THEN rlUntil[p] ELSE 0)
              /\ UNCHANGED rlLease

KeepLease(p) ==
    /\ rlStep[p].at = "step"
    /\ \/ HeldByOther(p) /\ Finish(p, 0)
       \/ Fresh(p) /\ Finish(p, rlStep[p].lease.until)
    /\ UNCHANGED rlLease

\* A request that failed leaves what the process believes; its write may have
\* been made all the same.
FailStep(p) ==
    LET s == rlStep[p]
    IN  /\ s.at = "step"
        /\ \/ UNCHANGED rlLease
           \/ ~HeldByOther(p) /\ ~Fresh(p) /\ Swapped(p, p, s.now + Duration)
        /\ Finish(p, rlUntil[p])

\* Release stops leading before it reads the lease.
BeginRelease(p) ==
    /\ p \in rlStopping
    /\ Begin(p, "release")
    /\ rlUntil' = [rlUntil EXCEPT ![p] = 0]
    /\ UNCHANGED <<rlTime, rlSkew, rlLease, rlStopping>>

Release(p) ==
    LET s == rlStep[p]
    IN  /\ s.at = "release"
        /\ \/ s.lease.holder = p /\ s.lease.until > s.now /\ Swapped(p, p, s.now)
           \/ UNCHANGED rlLease
        /\ Finish(p, 0)

LeaseStep(p) ==
    \/ Stop(p) \/ StopLeading(p) \/ ReadLease(p) \/ TakeLease(p) \/ KeepLease(p)
    \/ FailStep(p) \/ BeginRelease(p) \/ Release(p)

LeaseNext == Tick \/ \E p \in Processes : LeaseStep(p)

LeaseSpec == LeaseInit /\ [][LeaseNext]_rlVars

-----------------------------------------------------------------------------
LeaseTypeOK ==
    /\ rlTime \in Nat
    /\ rlSkew \in [Processes -> 0..MaxSkew]
    /\ rlLease \in [holder : Processes \cup {None}, until : Nat, version : Nat]
    /\ rlUntil \in [Processes -> Nat]
    /\ rlStep \in [Processes -> [at : {"idle", "step", "release"}, now : Nat,
                    lease : [holder : Processes \cup {None}, until : Nat, version : Nat]]]
    /\ rlStopping \subseteq Processes

\* One process at a time runs a region's outbox and refresh: "it is done before
\* a standby can take over", whatever happens between reading the lease and
\* writing it, as long as no two clocks are more than a third of a lease apart.
OneLeader == \A p, q \in Processes : Leads(p) /\ Leads(q) => p = q
=============================================================================
