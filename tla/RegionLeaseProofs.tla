-------------------------- MODULE RegionLeaseProofs --------------------------
(***************************************************************************)
(* At most one process leads a region, for any set of processes, any lease *)
(* duration and any clocks that are at most a third of a lease apart.      *)
(*                                                                         *)
(* The argument: what a process believes about its lease (rlUntil) can be  *)
(* later than any clock shows (Late) only while it is the holder.  A step  *)
(* in flight may still install such a belief, so the invariant also speaks *)
(* of what that step has read.                                             *)
(***************************************************************************)
EXTENDS RegionLease, TLAPS

\* An instant that every clock has passed, or will not be late by the margin.
Past(t) == t <= rlTime + MaxSkew

BeliefsHeld ==
    \A p \in Processes :
        \/ Past(rlUntil[p])
        \/ rlLease.holder = p /\ rlUntil[p] <= rlLease.until

\* What a step has read is the lease, or an older version of it; its own lease
\* has been replaced only after it ended.
ReadsHeld ==
    \A p \in Processes : rlStep[p].at # "idle" =>
        /\ Past(rlStep[p].now)
        /\ rlStep[p].lease.version <= rlLease.version
        /\ rlStep[p].lease.version = rlLease.version => rlStep[p].lease = rlLease
        /\ \/ rlStep[p].lease.version = rlLease.version
           \/ rlStep[p].lease.holder # p
           \/ Past(rlStep[p].lease.until)

LeaseInv == LeaseTypeOK /\ BeliefsHeld /\ ReadsHeld

\* The states a process starts from: nobody believes anything.
LEMMA LeaseStarts == LeaseInit => LeaseInv
<1>1. ASSUME LeaseInit PROVE LeaseTypeOK
  BY <1>1, LeaseAssumption DEF LeaseInit, LeaseTypeOK, NoLease, NoStep
<1>2. ASSUME LeaseInit PROVE BeliefsHeld /\ ReadsHeld
  BY <1>2, LeaseAssumption DEF LeaseInit, BeliefsHeld, ReadsHeld, Past, NoStep
<1> QED BY <1>1, <1>2 DEF LeaseInv

\* The values of every variable stay what region_lease.go declares.
LEMMA LeaseTyped == ASSUME LeaseInv, LeaseNext PROVE LeaseTypeOK'
<1> USE LeaseAssumption
<1>0. LeaseTypeOK BY DEF LeaseInv
<1>1. CASE Tick BY <1>0, <1>1 DEF Tick, LeaseTypeOK
<1>2. ASSUME NEW p \in Processes, LeaseStep(p) PROVE LeaseTypeOK'
  <2>0. /\ Clock(p) \in Nat
        /\ rlStep[p].now \in Nat /\ rlStep[p].now + Duration \in Nat
        /\ rlStep[p].lease.until \in Nat
        /\ rlLease.version + 1 \in Nat
        /\ rlUntil[p] \in Nat
    BY <1>0 DEF Clock, LeaseTypeOK
  <2>1. CASE Stop(p) BY <1>0, <2>1 DEF Stop, LeaseTypeOK
  <2>2. CASE StopLeading(p) BY <1>0, <2>2 DEF StopLeading, LeaseTypeOK
  <2>3. CASE ReadLease(p) BY <1>0, <2>0, <2>3 DEF ReadLease, Begin, LeaseTypeOK
  <2>4. CASE TakeLease(p)
    BY <1>0, <2>0, <2>4 DEF TakeLease, Swapped, Finish, NoStep, NoLease, LeaseTypeOK
  <2>5. CASE KeepLease(p)
    BY <1>0, <2>0, <2>5 DEF KeepLease, Finish, NoStep, NoLease, LeaseTypeOK
  <2>6. CASE FailStep(p)
    BY <1>0, <2>0, <2>6 DEF FailStep, Swapped, Finish, NoStep, NoLease, LeaseTypeOK
  <2>7. CASE BeginRelease(p) BY <1>0, <2>0, <2>7 DEF BeginRelease, Begin, LeaseTypeOK
  <2>8. CASE Release(p)
    BY <1>0, <2>0, <2>8 DEF Release, Swapped, Finish, NoStep, NoLease, LeaseTypeOK
  <2> QED BY <1>2, <2>1, <2>2, <2>3, <2>4, <2>5, <2>6, <2>7, <2>8 DEF LeaseStep
<1> QED BY <1>1, <1>2 DEF LeaseNext

\* A write that succeeds replaces the lease the step has read: the step's own,
\* or one that has ended.
LEMMA SwapReplaces ==
    ASSUME LeaseInv, NEW p \in Processes, rlStep[p].at # "idle",
           rlLease.version = rlStep[p].lease.version, ~HeldByOther(p)
    PROVE  rlLease = rlStep[p].lease /\ (rlLease.holder = p \/ Past(rlLease.until))
<1>1. rlLease = rlStep[p].lease /\ Past(rlStep[p].now)
  BY DEF LeaseInv, ReadsHeld
<1>2. ASSUME rlLease.holder # p PROVE Past(rlLease.until)
  BY <1>1, <1>2, LeaseAssumption DEF HeldByOther, Past, LeaseInv, LeaseTypeOK
<1> QED BY <1>1, <1>2

\* Beliefs survive a process taking the lease over: the one it is taken from is
\* past, because the lease had ended on the taker's clock.
LEMMA BeliefsAfterSwap ==
    ASSUME LeaseInv, NEW p \in Processes, rlStep[p].at = "step",
           ~HeldByOther(p), ~Fresh(p),
           Swapped(p, p, rlStep[p].now + Duration), rlTime' = rlTime,
           rlUntil' \in {[rlUntil EXCEPT ![p] = rlStep[p].now + Duration], rlUntil}
    PROVE  BeliefsHeld'
<1> USE LeaseAssumption
<1>1. /\ rlLease = rlStep[p].lease
      /\ rlLease.holder = p \/ Past(rlLease.until)
      /\ rlLease'.holder = p /\ rlLease'.until = rlStep[p].now + Duration
  BY SwapReplaces DEF Swapped
<1>2. LeaseTypeOK /\ BeliefsHeld BY DEF LeaseInv
<1>3. ASSUME NEW q \in Processes, q # p PROVE Past(rlUntil[q])
  <2>1. CASE rlLease.holder = p BY <1>2, <1>3, <2>1 DEF BeliefsHeld
  <2>2. CASE rlLease.holder # p
    BY <1>1, <1>2, <1>3, <2>2 DEF BeliefsHeld, Past, LeaseTypeOK
  <2> QED BY <2>1, <2>2
<1>4. Past(rlUntil[p]) \/ rlUntil[p] <= rlStep[p].now + Duration
  BY <1>1, <1>2 DEF BeliefsHeld, Past, LeaseTypeOK, Fresh
<1>5. ASSUME NEW q \in Processes
      PROVE  \/ rlUntil'[q] <= rlTime' + MaxSkew
             \/ rlLease'.holder = q /\ rlUntil'[q] <= rlLease'.until
  <2>1. CASE q = p
    <3>1. rlUntil'[p] = rlUntil[p] \/ rlUntil'[p] = rlStep[p].now + Duration
      BY <1>2 DEF LeaseTypeOK
    <3>2. rlStep[p].now + Duration <= rlStep[p].now + Duration
      BY <1>2 DEF LeaseTypeOK
    <3> QED BY <1>1, <1>4, <2>1, <3>1, <3>2 DEF Past
  <2>2. CASE q # p
    <3>1. rlUntil'[q] = rlUntil[q] BY <1>2, <2>2 DEF LeaseTypeOK
    <3> QED BY <1>3, <2>2, <3>1 DEF Past
  <2> QED BY <2>1, <2>2
<1> QED BY <1>5 DEF BeliefsHeld, Past

\* What the other processes have read stays true after a write that succeeds.
LEMMA ReadsAfterSwap ==
    ASSUME LeaseInv, NEW p \in Processes, rlStep[p].at # "idle",
           NEW until \in Nat, Swapped(p, p, until), rlTime' = rlTime,
           ~HeldByOther(p), rlStep' = [rlStep EXCEPT ![p] = NoStep]
    PROVE  ReadsHeld'
<1> USE LeaseAssumption
<1>1. rlLease = rlStep[p].lease /\ (rlLease.holder = p \/ Past(rlLease.until))
  BY SwapReplaces DEF Swapped
<1>2. LeaseTypeOK /\ ReadsHeld BY DEF LeaseInv
<1>3. rlLease'.version = rlLease.version + 1 BY DEF Swapped
<1>4. ASSUME NEW q \in Processes, q # p, rlStep[q].at # "idle"
      PROVE  /\ Past(rlStep[q].now)
             /\ rlStep[q].lease.version < rlLease'.version
             /\ rlStep[q].lease.holder # q \/ Past(rlStep[q].lease.until)
  <2>1. Past(rlStep[q].now) /\ rlStep[q].lease.version <= rlLease.version
    BY <1>2, <1>4 DEF ReadsHeld
  <2>2. rlStep[q].lease.version < rlLease'.version
    BY <1>2, <1>3, <2>1 DEF LeaseTypeOK
  <2>3. CASE rlStep[q].lease.version = rlLease.version
    <3>1. rlStep[q].lease = rlLease BY <1>2, <1>4, <2>3 DEF ReadsHeld
    <3> QED BY <1>1, <1>4, <2>1, <2>2, <3>1
  <2>4. CASE rlStep[q].lease.version # rlLease.version
    BY <1>2, <1>4, <2>1, <2>2, <2>4 DEF ReadsHeld
  <2> QED BY <2>3, <2>4
<1>5. rlStep'[p].at = "idle" BY <1>2 DEF LeaseTypeOK, NoStep
<1>6. \A q \in Processes : q # p => rlStep'[q] = rlStep[q] BY <1>2 DEF LeaseTypeOK
<1>7. ASSUME NEW q \in Processes, rlStep'[q].at # "idle"
      PROVE  /\ rlStep'[q].now <= rlTime' + MaxSkew
             /\ rlStep'[q].lease.version <= rlLease'.version
             /\ rlStep'[q].lease.version # rlLease'.version
             /\ \/ rlStep'[q].lease.holder # q
                \/ rlStep'[q].lease.until <= rlTime' + MaxSkew
  <2>1. q # p /\ rlStep'[q] = rlStep[q] BY <1>5, <1>6, <1>7
  <2>2. /\ Past(rlStep[q].now)
        /\ rlStep[q].lease.version < rlLease'.version
        /\ rlStep[q].lease.holder # q \/ Past(rlStep[q].lease.until)
    BY <1>4, <1>7, <2>1
  <2>3. rlStep[q].lease.version \in Nat /\ rlLease'.version \in Nat
    BY <1>2, <1>3 DEF LeaseTypeOK
  <2> QED BY <2>1, <2>2, <2>3 DEF Past
<1> QED BY <1>7 DEF ReadsHeld, Past

\* Ending a step without a write leaves what the other processes have read.
LEMMA ReadsAfterEnd ==
    ASSUME LeaseInv, NEW p \in Processes, rlTime' = rlTime, rlLease' = rlLease,
           rlStep' = [rlStep EXCEPT ![p] = NoStep]
    PROVE  ReadsHeld'
BY DEF LeaseInv, LeaseTypeOK, ReadsHeld, Past, NoStep

\* Giving up a belief keeps the others.
LEMMA BeliefsAfterEnd ==
    ASSUME LeaseInv, NEW p \in Processes, rlTime' = rlTime, rlLease' = rlLease,
           rlUntil' \in {[rlUntil EXCEPT ![p] = 0], rlUntil}
    PROVE  BeliefsHeld'
BY LeaseAssumption DEF LeaseInv, LeaseTypeOK, BeliefsHeld, Past

\* Every step of a process keeps beliefs and reads.
LEMMA LeaseKept ==
    ASSUME LeaseInv, NEW p \in Processes, LeaseStep(p)
    PROVE  BeliefsHeld' /\ ReadsHeld'
<1> USE LeaseAssumption
<1>0. LeaseTypeOK /\ BeliefsHeld /\ ReadsHeld BY DEF LeaseInv
<1>1. CASE Stop(p) BY <1>0, <1>1 DEF Stop, BeliefsHeld, ReadsHeld, Past
<1>2. CASE StopLeading(p)
  <2>1. BeliefsHeld' BY <1>2, BeliefsAfterEnd DEF StopLeading
  <2>2. ReadsHeld' BY <1>0, <1>2 DEF StopLeading, ReadsHeld, Past
  <2> QED BY <2>1, <2>2
<1>3. ASSUME NEW at, Begin(p, at), rlTime' = rlTime, rlLease' = rlLease PROVE ReadsHeld'
  <2>1. Past(Clock(p)) BY <1>0 DEF Past, Clock, LeaseTypeOK
  <2> QED BY <1>0, <1>3, <2>1 DEF Begin, ReadsHeld, Past, LeaseTypeOK
<1>4. CASE ReadLease(p)
  <2>1. BeliefsHeld' BY <1>4, BeliefsAfterEnd DEF ReadLease
  <2> QED BY <1>3, <1>4, <2>1 DEF ReadLease
<1>5. CASE BeginRelease(p)
  <2>1. BeliefsHeld' BY <1>5, BeliefsAfterEnd DEF BeginRelease
  <2> QED BY <1>3, <1>5, <2>1 DEF BeginRelease
<1>6. CASE TakeLease(p)
  <2>1. rlStep[p].at = "step" /\ ~HeldByOther(p) /\ ~Fresh(p)
    BY <1>6 DEF TakeLease
  <2>2. CASE Swapped(p, p, rlStep[p].now + Duration) /\ Finish(p, rlStep[p].now + Duration)
    <3>1. BeliefsHeld' BY <2>1, <2>2, BeliefsAfterSwap DEF Finish
    <3>2. rlStep[p].now + Duration \in Nat BY <1>0 DEF LeaseTypeOK
    <3>3. ReadsHeld' BY <2>1, <2>2, <3>2, ReadsAfterSwap DEF Finish
    <3> QED BY <3>1, <3>3
  <2>3. CASE rlLease' = rlLease /\ (Finish(p, rlUntil[p]) \/ Finish(p, 0))
    <3>1. rlUntil' \in {[rlUntil EXCEPT ![p] = 0], rlUntil}
      BY <1>0, <2>3 DEF Finish, LeaseTypeOK
    <3> QED BY <2>3, <3>1, BeliefsAfterEnd, ReadsAfterEnd DEF Finish
  <2> QED BY <1>6, <2>2, <2>3 DEF TakeLease
<1>7. CASE KeepLease(p)
  <2>1. ReadsHeld' BY <1>7, ReadsAfterEnd DEF KeepLease, Finish
  <2>2. CASE Finish(p, 0) BY <1>7, <2>1, <2>2, BeliefsAfterEnd DEF KeepLease, Finish
  <2>3. CASE rlStep[p].at = "step" /\ Fresh(p) /\ Finish(p, rlStep[p].lease.until)
    <3>1. \/ rlLease = rlStep[p].lease /\ rlLease.holder = p
          \/ Past(rlStep[p].lease.until)
      BY <1>0, <2>3 DEF ReadsHeld, Fresh
    <3>2. rlLease' = rlLease /\ rlTime' = rlTime
          /\ rlUntil' = [rlUntil EXCEPT ![p] = rlStep[p].lease.until]
      BY <1>7, <2>3 DEF KeepLease, Finish
    <3> QED BY <1>0, <2>1, <3>1, <3>2 DEF BeliefsHeld, Past, LeaseTypeOK
  <2> QED BY <1>7, <2>2, <2>3 DEF KeepLease
<1>8. CASE FailStep(p)
  <2>1. rlStep[p].at = "step" /\ rlTime' = rlTime /\ rlUntil' = rlUntil
        /\ rlStep' = [rlStep EXCEPT ![p] = NoStep]
    BY <1>0, <1>8 DEF FailStep, Finish, LeaseTypeOK
  <2>2. CASE rlLease' = rlLease BY <2>1, <2>2, BeliefsAfterEnd, ReadsAfterEnd
  <2>3. CASE ~HeldByOther(p) /\ ~Fresh(p) /\ Swapped(p, p, rlStep[p].now + Duration)
    <3>1. BeliefsHeld' BY <2>1, <2>3, BeliefsAfterSwap
    <3>2. rlStep[p].now + Duration \in Nat BY <1>0 DEF LeaseTypeOK
    <3>3. ReadsHeld' BY <2>1, <2>3, <3>2, ReadsAfterSwap
    <3> QED BY <3>1, <3>3
  <2> QED BY <1>8, <2>2, <2>3 DEF FailStep
<1>9. CASE Release(p)
  <2>1. rlStep[p].at # "idle" /\ rlTime' = rlTime
        /\ rlUntil' = [rlUntil EXCEPT ![p] = 0]
        /\ rlStep' = [rlStep EXCEPT ![p] = NoStep]
    BY <1>9 DEF Release, Finish
  <2>2. CASE rlLease' = rlLease BY <2>1, <2>2, BeliefsAfterEnd, ReadsAfterEnd
  <2>3. CASE rlStep[p].lease.holder = p /\ Swapped(p, p, rlStep[p].now)
    <3>1. ~HeldByOther(p) /\ rlStep[p].now \in Nat BY <1>0, <2>3 DEF HeldByOther, LeaseTypeOK
    <3>2. ReadsHeld' BY <2>1, <2>3, <3>1, ReadsAfterSwap
    <3>3. rlLease.holder = p BY <2>1, <2>3, <3>1, SwapReplaces DEF Swapped
    <3>4. BeliefsHeld' BY <1>0, <2>1, <3>3 DEF BeliefsHeld, Past, LeaseTypeOK
    <3> QED BY <3>2, <3>4
  <2> QED BY <1>9, <2>2, <2>3 DEF Release
<1> QED BY <1>1, <1>2, <1>4, <1>5, <1>6, <1>7, <1>8, <1>9 DEF LeaseStep

\* The invariant holds in every state of region_lease.go's processes.
THEOREM LeaseInvariance == LeaseSpec => []LeaseInv
<1>1. LeaseInit => LeaseInv BY LeaseStarts
<1>2. LeaseInv /\ [LeaseNext]_rlVars => LeaseInv'
  <2> SUFFICES ASSUME LeaseInv, [LeaseNext]_rlVars PROVE LeaseInv' OBVIOUS
  <2>1. CASE Tick
    <3>1. LeaseTypeOK' BY <2>1, LeaseTyped DEF LeaseNext
    <3>2. BeliefsHeld' /\ ReadsHeld'
      BY <2>1, LeaseAssumption
      DEF Tick, LeaseInv, LeaseTypeOK, BeliefsHeld, ReadsHeld, Past
    <3> QED BY <3>1, <3>2 DEF LeaseInv
  <2>2. ASSUME NEW p \in Processes, LeaseStep(p) PROVE LeaseInv'
    BY <2>2, LeaseTyped, LeaseKept DEF LeaseNext, LeaseInv
  <2>3. CASE UNCHANGED rlVars
    BY <2>3 DEF rlVars, LeaseInv, LeaseTypeOK, BeliefsHeld, ReadsHeld, Past
  <2> QED BY <2>1, <2>2, <2>3 DEF LeaseNext
<1> QED BY <1>1, <1>2, PTL DEF LeaseSpec

\* RegionLease.Leads is true of one process at a time: a process that leads has
\* a belief no clock has passed, so it is the holder.
THEOREM LeaderExclusion == LeaseSpec => []OneLeader
<1>1. LeaseInv => OneLeader
  <2> SUFFICES ASSUME LeaseInv, NEW p \in Processes, NEW q \in Processes,
                      Leads(p), Leads(q)
               PROVE  p = q
    BY DEF OneLeader
  <2>1. ASSUME NEW r \in Processes, Leads(r) PROVE rlLease.holder = r
    BY <2>1, LeaseAssumption DEF Leads, Clock, LeaseInv, LeaseTypeOK, BeliefsHeld, Past
  <2> QED BY <2>1
<1> QED BY <1>1, LeaseInvariance, PTL
=============================================================================
