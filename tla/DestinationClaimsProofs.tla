----------------------- MODULE DestinationClaimsProofs -----------------------
(***************************************************************************)
(* Proofs about DestinationClaims, for any number of contexts, owners and  *)
(* passes, as long as one pass at a time works for a context or an owner.  *)
(***************************************************************************)
EXTENDS DestinationClaims, TLAPS

\* The steps of reserve: the regional claim stays with a lease, and a lease is
\* only written when no destination claim exists.
LEMMA ReserveStep ==
    ASSUME OnePassEach, IInv, NEW w \in Reservers, Reserving(w)
    PROVE  IInv'
<1> USE ConstantsAssumption
    DEF IInv, TypeOK, StepsOfKind, LeasesAreClaimed, ClaimsAreHeld, SnapshotLags,
        RouteIsClaimed, Leased, Granted, Routed, At, OnePassEach, Workers,
        ClaimSteps, ReserveSteps, Bindings, Goto, regionalVars, claimVars, routes
<1>1. CASE StartReserve(w)
  BY <1>1 DEF StartReserve
<1>2. CASE ReserveClaim(w)
  BY <1>2 DEF ReserveClaim
<1>3. CASE DestinationClaimed(w)
  BY <1>3 DEF DestinationClaimed
<1>4. CASE GiveUpRegional(w)
  BY <1>4 DEF GiveUpRegional
<1>5. CASE CreateLease(w)
  BY <1>5 DEF CreateLease
<1>6. QED
  BY <1>1, <1>2, <1>3, <1>4, <1>5 DEF Reserving

\* The steps of ClaimDestination, up to the binding.
LEMMA ClaimStep ==
    ASSUME OnePassEach, IInv, NEW w \in Claimers,
           StartPass(w) \/ RegionalClaimed(w) \/ ReadClaim(w) \/ CreateClaim(w)
             \/ Recheck(w) \/ Undo(w) \/ Bind(w)
    PROVE  IInv'
<1> USE ConstantsAssumption
    DEF IInv, TypeOK, StepsOfKind, LeasesAreClaimed, ClaimsAreHeld, SnapshotLags,
        RouteIsClaimed, Leased, Granted, Routed, At, OnePassEach, Workers,
        ClaimSteps, ReserveSteps, Bindings, Goto, regionalVars, claimVars, routes
<1>1. CASE StartPass(w)
  BY <1>1 DEF StartPass
<1>2. CASE RegionalClaimed(w)
  BY <1>2 DEF RegionalClaimed
<1>3. CASE ReadClaim(w)
  BY <1>3 DEF ReadClaim, Existing
<1>4. CASE CreateClaim(w)
  BY <1>4 DEF CreateClaim, Existing
<1>5. CASE Recheck(w)
  BY <1>5 DEF Recheck
<1>6. CASE Undo(w)
  BY <1>6 DEF Undo, DeleteClaim
<1>7. CASE Bind(w)
  BY <1>7 DEF Bind
<1>8. QED
  BY <1>1, <1>2, <1>3, <1>4, <1>5, <1>6, <1>7

\* The steps of retireContextBindings and ReleaseDestinations: a claim is
\* deleted only when its context is not routed.
LEMMA ReleaseStep ==
    ASSUME OnePassEach, IInv, NEW w \in Claimers,
           Retire(w) \/ ListClaims(w) \/ BindingRouted(w) \/ SnapshotRouted(w)
             \/ Release(w)
    PROVE  IInv'
<1> USE ConstantsAssumption
    DEF IInv, TypeOK, StepsOfKind, LeasesAreClaimed, ClaimsAreHeld, SnapshotLags,
        RouteIsClaimed, Leased, Granted, Routed, At, OnePassEach, Workers,
        ClaimSteps, ReserveSteps, Bindings, Goto, regionalVars, claimVars, routes
<1>1. CASE Retire(w)
  BY <1>1 DEF Retire
<1>2. CASE ListClaims(w)
  BY <1>2 DEF ListClaims
<1>3. CASE BindingRouted(w)
  BY <1>3 DEF BindingRouted
<1>4. CASE SnapshotRouted(w)
  BY <1>4 DEF SnapshotRouted
<1>5. CASE Release(w)
  BY <1>5 DEF Release, DeleteClaim
<1>6. QED
  BY <1>1, <1>2, <1>3, <1>4, <1>5

\* Access changes, the planner, acknowledgements and failed passes.
LEMMA WorldStep ==
    ASSUME OnePassEach, IInv,
           \/ Plan
           \/ \E c \in Contexts : ChangeAccess(c) \/ Withdrawn(c)
           \/ \E w \in Workers : Crash(w)
           \/ UNCHANGED vars
    PROVE  IInv'
<1> USE ConstantsAssumption
    DEF IInv, TypeOK, StepsOfKind, LeasesAreClaimed, ClaimsAreHeld, SnapshotLags,
        RouteIsClaimed, Leased, Granted, Routed, At, OnePassEach, Workers,
        ClaimSteps, ReserveSteps, Bindings, Goto, regionalVars, claimVars, routes
<1>1. CASE Plan
  BY <1>1 DEF Plan
<1>2. ASSUME NEW c \in Contexts, ChangeAccess(c) PROVE IInv'
  BY <1>2 DEF ChangeAccess
<1>3. ASSUME NEW c \in Contexts, Withdrawn(c) PROVE IInv'
  BY <1>3 DEF Withdrawn
<1>4. ASSUME NEW w \in Workers, Crash(w) PROVE IInv'
  BY <1>4 DEF Crash
<1>5. CASE UNCHANGED vars
  BY <1>5 DEF vars
<1>6. QED
  BY <1>1, <1>2, <1>3, <1>4, <1>5

\* IInv is inductive.
LEMMA Inductive ==
    ASSUME OnePassEach, IInv, [Next]_vars
    PROVE  IInv'
<1>1. ASSUME NEW w \in Claimers, Claiming(w) PROVE IInv'
  BY <1>1, ClaimStep, ReleaseStep DEF Claiming
<1>2. QED
  BY <1>1, ReserveStep, WorldStep DEF Next

\* IInv holds in every reachable state.
THEOREM Invariance ==
    ASSUME OnePassEach
    PROVE  Spec => []IInv
<1>1. Init => IInv
  BY ConstantsAssumption
  DEF Init, IInv, TypeOK, StepsOfKind, LeasesAreClaimed, ClaimsAreHeld, SnapshotLags,
      RouteIsClaimed, Leased, Granted, Routed, At, Workers, Bindings
<1>2. IInv /\ [Next]_vars => IInv'
  BY Inductive
<1>3. QED
  BY <1>1, <1>2, PTL DEF Spec

\* With one pass at a time per context and per owner, an address is never a
\* regional lease and a routed destination at once: the check each claimant
\* makes after its own claim exists is enough.
THEOREM ClaimsExclude ==
    ASSUME OnePassEach
    PROVE  Spec => []Exclusion
<1>1. IInv => Exclusion
  BY DEF IInv, Exclusion, Leased, Granted
<1>2. QED
  BY <1>1, Invariance, PTL

\* A routed destination is claimed by the context it is routed to.
THEOREM RoutesAreClaimed ==
    ASSUME OnePassEach
    PROVE  Spec => []RouteIsClaimed
<1>1. IInv => RouteIsClaimed
  BY DEF IInv
<1>2. QED
  BY <1>1, Invariance, PTL

\* Both together: the promise of ClaimDestination and Allocate, for any number
\* of contexts, owners and passes.
THEOREM ClaimsAlwaysHold ==
    ASSUME OnePassEach
    PROVE  Spec => []ClaimsHold
<1>1. IInv => ClaimsHold
  BY DEF IInv, ClaimsHold, Exclusion, Leased, Granted
<1>2. QED
  BY <1>1, Invariance, PTL

\* No step frees a claim whose context is still routed.
THEOREM ClaimsOutliveRoutes ==
    ASSUME OnePassEach
    PROVE  Spec => FreedWhenWithdrawn
<1>1. IInv /\ [Next]_vars => [claim' # claim => claim \notin Routed]_vars
  <2> SUFFICES ASSUME IInv, Next, claim' # claim PROVE claim \notin Routed
    OBVIOUS
  <2>1. \E w \in Claimers : CreateClaim(w) \/ Undo(w) \/ Release(w)
    BY DEF Next, Claiming, Reserving, StartPass, RegionalClaimed, ReadClaim, Recheck,
           Bind, Retire, ListClaims, BindingRouted, SnapshotRouted, StartReserve,
           ReserveClaim, DestinationClaimed, GiveUpRegional, CreateLease, Plan,
           ChangeAccess, Withdrawn, Crash, claimVars
  <2>2. PICK w \in Claimers : CreateClaim(w) \/ Undo(w) \/ Release(w)
    BY <2>1
  <2>3. CASE CreateClaim(w)
    BY <2>3, ConstantsAssumption DEF CreateClaim, claimVars, Routed, IInv, TypeOK
  <2>4. CASE Undo(w)
    BY <2>4 DEF Undo, DeleteClaim, IInv, ClaimsAreHeld, At
  <2>5. CASE Release(w)
    BY <2>5 DEF Release, DeleteClaim, IInv, ClaimsAreHeld, SnapshotLags, At, Routed
  <2>6. QED
    BY <2>2, <2>3, <2>4, <2>5
<1>2. QED
  BY <1>1, Invariance, PTL DEF Spec, FreedWhenWithdrawn
=============================================================================
