-------------------------- MODULE DestinationClaims --------------------------
(***************************************************************************)
(* Who may use one service address: the claims of the platform allocator   *)
(* (internal/internaldns/platform/allocator.go) and the part of the        *)
(* project pass that uses them (reconcileContextBindings).                 *)
(*                                                                         *)
(* Two kinds of users compete for an address.  A resolver context routes   *)
(* it as its service destination, under the claim ClaimDestination makes.  *)
(* A regional resolver leases it out of a pool, under the claim reserve    *)
(* makes.  ClaimDestination refuses an address inside the pools its own    *)
(* process is configured with, so the two meet when processes differ: a    *)
(* pool was added and the roll-out is not complete.  Each address has its  *)
(* own claim objects, so one address is modelled; `elsewhere` is any other.*)
(*                                                                         *)
(* Claims are ConfigMaps.  Create is atomic; deleteClaim carries the UID   *)
(* and resourceVersion that were read, so it succeeds only for a worker    *)
(* that has seen the present object (regionalSeen, claimSeen).  There is   *)
(* no leader election: every replica, and every namespace of a project,    *)
(* runs its own passes over the same contexts.  A project is modelled     *)
(* with one context, and a pass by what it does about the one address.    *)
(***************************************************************************)
EXTENDS Naturals

CONSTANTS
    Claimers,    \* project passes that want the address as a destination
    Contexts,    \* resolver contexts (the owner of a destination claim)
    ContextOf,   \* the context a pass works for
    Reservers,   \* project passes that lease regional addresses
    Owners,      \* owners of regional leases
    OwnerOf,     \* the owner a pass leases for
    None,        \* no claim
    MaxCrashes,  \* bound: passes that fail or are cut off
    MaxChanges   \* bound: changes of access bindings

ASSUME ConstantsAssumption ==
    /\ ContextOf \in [Claimers -> Contexts]
    /\ OwnerOf \in [Reservers -> Owners]
    /\ Claimers \cap Reservers = {}
    /\ None \notin Contexts \cup Owners
    /\ MaxCrashes \in Nat
    /\ MaxChanges \in Nat

VARIABLES
    regional,      \* owner of the regional claim on the address
    regionalSeen,  \* passes that hold its current version
    lease,         \* per owner: where its regional lease is
    claim,         \* owner of the destination claim on the address
    claimSeen,     \* passes that hold its current version
    access,        \* contexts with a valid access binding for the address
    binding,       \* per context: its DNSResolverBinding for the address
    snapshot,      \* contexts the committed serving snapshot routes it to
    at,            \* per pass: the next step
    saw,           \* per claiming pass: the binding it listed
    crashes, changes

regionalVars == <<regional, regionalSeen, lease>>
claimVars == <<claim, claimSeen>>
routes == <<access, binding, snapshot>>
vars == <<regional, regionalSeen, lease, claim, claimSeen, access, binding,
          snapshot, at, saw, crashes, changes>>

Workers == Claimers \cup Reservers
Bindings == {"none", "live", "tombstone", "withdrawn"}
ClaimSteps == {"regional?", "claim?", "create", "recheck", "undo", "bind",
               "retire", "list", "routed?", "snapshot?", "release"}
ReserveSteps == {"reserve", "claimed?", "giveup", "lease"}

Init ==
    /\ regional = None /\ regionalSeen = {}
    /\ lease = [o \in Owners |-> "none"]
    /\ claim = None /\ claimSeen = {}
    /\ access = {}
    /\ binding = [c \in Contexts |-> "none"]
    /\ snapshot = {}
    /\ at = [w \in Workers |-> "idle"]
    /\ saw = [w \in Claimers |-> "none"]
    /\ crashes = 0 /\ changes = 0

Goto(w, step) == at' = [at EXCEPT ![w] = step]

-----------------------------------------------------------------------------
(* Allocate and reserve *)

\* An owner with a lease keeps it.
StartReserve(w) ==
    /\ at[w] = "idle"
    /\ lease[OwnerOf[w]] = "none"
    /\ Goto(w, "reserve")
    /\ UNCHANGED <<regionalVars, claimVars, routes, saw, crashes, changes>>

\* Create the regional claim.  When it exists and is our own, go on with it;
\* when it is somebody else's, the next salt leads elsewhere.
ReserveClaim(w) ==
    /\ at[w] = "reserve"
    /\ \/ /\ regional = None
          /\ regional' = OwnerOf[w]
          /\ regionalSeen' = {w}
          /\ Goto(w, "claimed?")
          /\ UNCHANGED lease
       \/ /\ regional = OwnerOf[w]
          /\ regionalSeen' = regionalSeen \cup {w}
          /\ Goto(w, "claimed?")
          /\ UNCHANGED <<regional, lease>>
       \/ /\ regional \notin {None, OwnerOf[w]}
          /\ lease' = [lease EXCEPT ![OwnerOf[w]] = IF @ = "none" THEN "elsewhere" ELSE @]
          /\ Goto(w, "idle")
          /\ UNCHANGED <<regional, regionalSeen>>
    /\ UNCHANGED <<claimVars, routes, saw, crashes, changes>>

\* Fault: the destination claims are not looked at.
DestinationIgnored(w) ==
    /\ at[w] = "claimed?"
    /\ Goto(w, "lease")
    /\ UNCHANGED <<regionalVars, claimVars, routes, saw, crashes, changes>>

\* destinationClaimed, after the regional claim exists.
DestinationClaimed(w) ==
    /\ at[w] = "claimed?"
    /\ Goto(w, IF claim # None THEN "giveup" ELSE "lease")
    /\ UNCHANGED <<regionalVars, claimVars, routes, saw, crashes, changes>>

\* deleteClaim and the next salt.  A claim that is gone is as good as deleted;
\* a newer version ends the pass with a conflict.
GiveUpRegional(w) ==
    /\ at[w] = "giveup"
    /\ IF w \in regionalSeen \/ regional = None
       THEN /\ regional' = None /\ regionalSeen' = {}
            /\ lease' = [lease EXCEPT ![OwnerOf[w]] = IF @ = "none" THEN "elsewhere" ELSE @]
       ELSE UNCHANGED regionalVars
    /\ Goto(w, "idle")
    /\ UNCHANGED <<claimVars, routes, saw, crashes, changes>>

\* Create the owner's lease, or use the one another pass created.
CreateLease(w) ==
    /\ at[w] = "lease"
    /\ lease' = [lease EXCEPT ![OwnerOf[w]] = IF @ = "none" THEN "here" ELSE @]
    /\ Goto(w, "idle")
    /\ UNCHANGED <<regional, regionalSeen, claimVars, routes, saw, crashes, changes>>

-----------------------------------------------------------------------------
(* reconcileContextBindings with ClaimDestination *)

\* List the bindings and the access bindings, and confirm access at the source.
StartPass(w) ==
    /\ at[w] = "idle"
    /\ saw' = [saw EXCEPT ![w] = binding[ContextOf[w]]]
    /\ Goto(w, IF ContextOf[w] \in access THEN "regional?" ELSE "retire")
    /\ UNCHANGED <<regionalVars, claimVars, routes, crashes, changes>>

\* "service destination is reserved for regional resolution"
RegionalClaimed(w) ==
    /\ at[w] = "regional?"
    /\ Goto(w, IF regional # None THEN "retire" ELSE "claim?")
    /\ UNCHANGED <<regionalVars, claimVars, routes, saw, crashes, changes>>

\* Where a claim that exists leads: ours is granted, another's is refused.
Existing(c) == IF claim = c THEN "bind" ELSE "retire"

ReadClaim(w) ==
    /\ at[w] = "claim?"
    /\ Goto(w, IF claim = None THEN "create" ELSE Existing(ContextOf[w]))
    /\ UNCHANGED <<regionalVars, claimVars, routes, saw, crashes, changes>>

CreateClaim(w) ==
    /\ at[w] = "create"
    /\ \/ /\ claim = None
          /\ claim' = ContextOf[w]
          /\ claimSeen' = {w}
          /\ Goto(w, "recheck")
       \/ /\ claim # None
          /\ Goto(w, Existing(ContextOf[w]))
          /\ UNCHANGED claimVars
    /\ UNCHANGED <<regionalVars, routes, saw, crashes, changes>>

\* The regional claim is checked again once our own exists.
Recheck(w) ==
    /\ at[w] = "recheck"
    /\ Goto(w, IF regional # None THEN "undo" ELSE "bind")
    /\ UNCHANGED <<regionalVars, claimVars, routes, saw, crashes, changes>>

\* deleteClaim
DeleteClaim(w) ==
    /\ claim' = IF w \in claimSeen THEN None ELSE claim
    /\ claimSeen' = IF w \in claimSeen THEN {} ELSE claimSeen

Undo(w) ==
    /\ at[w] = "undo"
    /\ DeleteClaim(w)
    /\ Goto(w, IF w \in claimSeen \/ claim = None THEN "retire" ELSE "idle")
    /\ UNCHANGED <<regionalVars, routes, saw, crashes, changes>>

\* Create or update the binding.  The destination is in held, so this pass
\* releases nothing.  A binding that was deleted since it was read conflicts.
Bind(w) ==
    /\ at[w] = "bind"
    /\ binding' = [binding EXCEPT ![ContextOf[w]] = "live"]
    /\ Goto(w, "idle")
    /\ UNCHANGED <<regionalVars, claimVars, access, snapshot, saw, crashes, changes>>

\* Fault: a binding whose access is gone is never given its tombstone.
RetireWithdrawnOnly(w) ==
    /\ at[w] = "retire"
    /\ binding' = IF saw[w] = "withdrawn"
                  THEN [binding EXCEPT ![ContextOf[w]] = "none"] ELSE binding
    /\ Goto(w, "list")
    /\ UNCHANGED <<regionalVars, claimVars, access, snapshot, saw, crashes, changes>>

\* retireContextBindings: a live binding whose access is confirmed gone gets a
\* tombstone, under the optimistic lock; a withdrawn one is deleted.
Retire(w) ==
    LET c == ContextOf[w] IN
    /\ at[w] = "retire"
    /\ binding' = CASE saw[w] = "live" /\ binding[c] = "live" /\ c \notin access
                         -> [binding EXCEPT ![c] = "tombstone"]
                    [] saw[w] = "withdrawn"
                         -> [binding EXCEPT ![c] = "none"]
                    [] OTHER -> binding
    /\ Goto(w, "list")
    /\ UNCHANGED <<regionalVars, claimVars, access, snapshot, saw, crashes, changes>>

\* ReleaseDestinations: list the project's claims...
ListClaims(w) ==
    /\ at[w] = "list"
    /\ \/ /\ claim = ContextOf[w]
          /\ claimSeen' = claimSeen \cup {w}
          /\ Goto(w, "routed?")
       \/ /\ claim # ContextOf[w]
          /\ Goto(w, "idle")
          /\ UNCHANGED claimSeen
    /\ UNCHANGED <<regionalVars, claim, routes, saw, crashes, changes>>

\* ...keep those a binding still routes...
BindingRouted(w) ==
    /\ at[w] = "routed?"
    /\ Goto(w, CASE \E c \in Contexts : binding[c] \in {"live", "tombstone"} -> "idle"
                 [] \A c \in Contexts : binding[c] = "none" -> "release"
                 [] OTHER -> "snapshot?")
    /\ UNCHANGED <<regionalVars, claimVars, routes, saw, crashes, changes>>

\* ...or the committed snapshot of a shard that still has bindings...
SnapshotRouted(w) ==
    /\ at[w] = "snapshot?"
    /\ Goto(w, IF snapshot # {} THEN "idle" ELSE "release")
    /\ UNCHANGED <<regionalVars, claimVars, routes, saw, crashes, changes>>

\* ...and delete the rest.
Release(w) ==
    /\ at[w] = "release"
    /\ DeleteClaim(w)
    /\ Goto(w, "idle")
    /\ UNCHANGED <<regionalVars, routes, saw, crashes, changes>>

-----------------------------------------------------------------------------
(* The world around the passes *)

\* An integration creates or removes an access binding for the address.
ChangeAccess(c) ==
    /\ changes < MaxChanges
    /\ changes' = changes + 1
    /\ access' = IF c \in access THEN access \ {c} ELSE access \cup {c}
    /\ UNCHANGED <<regionalVars, claimVars, binding, snapshot, at, saw, crashes>>

\* The planner commits a snapshot of the bindings.
Plan ==
    /\ snapshot' = {c \in Contexts : binding[c] = "live"}
    /\ snapshot' # snapshot
    /\ UNCHANGED <<regionalVars, claimVars, access, binding, at, saw, crashes, changes>>

\* The acknowledgement sink reports a tombstone fully replicated.
Withdrawn(c) ==
    /\ binding[c] = "tombstone"
    /\ c \notin snapshot
    /\ binding' = [binding EXCEPT ![c] = "withdrawn"]
    /\ UNCHANGED <<regionalVars, claimVars, access, snapshot, at, saw, crashes, changes>>

\* A call fails or the process dies: the pass ends where it is.
Crash(w) ==
    /\ at[w] # "idle"
    /\ crashes < MaxCrashes
    /\ crashes' = crashes + 1
    /\ Goto(w, "idle")
    /\ UNCHANGED <<regionalVars, claimVars, routes, saw, changes>>

Claiming(w) == \/ StartPass(w) \/ RegionalClaimed(w) \/ ReadClaim(w)
               \/ CreateClaim(w) \/ Recheck(w) \/ Undo(w) \/ Bind(w) \/ Retire(w)
               \/ ListClaims(w) \/ BindingRouted(w) \/ SnapshotRouted(w) \/ Release(w)

Reserving(w) == \/ StartReserve(w) \/ ReserveClaim(w) \/ DestinationClaimed(w)
                \/ GiveUpRegional(w) \/ CreateLease(w)

Next ==
    \/ \E w \in Claimers : Claiming(w)
    \/ \E w \in Reservers : Reserving(w)
    \/ \E c \in Contexts : ChangeAccess(c) \/ Withdrawn(c)
    \/ Plan
    \/ \E w \in Workers : Crash(w)

Spec == Init /\ [][Next]_vars

\* Project passes are requeued for ever, the planner and the agents run on.
Fairness ==
    /\ \A w \in Claimers : WF_vars(Claiming(w))
    /\ \A w \in Reservers : WF_vars(Reserving(w))
    /\ WF_vars(Plan)
    /\ \A c \in Contexts : WF_vars(Withdrawn(c))

FairSpec == Spec /\ Fairness

-----------------------------------------------------------------------------
\* Every variable has its type.
TypeOK ==
    /\ regional \in Owners \cup {None}
    /\ regionalSeen \subseteq Reservers
    /\ lease \in [Owners -> {"none", "here", "elsewhere"}]
    /\ claim \in Contexts \cup {None}
    /\ claimSeen \subseteq Claimers
    /\ access \subseteq Contexts
    /\ binding \in [Contexts -> Bindings]
    /\ snapshot \subseteq Contexts
    /\ at \in [Workers -> {"idle"} \cup ClaimSteps \cup ReserveSteps]
    /\ saw \in [Claimers -> Bindings]
    /\ crashes \in Nat
    /\ changes \in Nat

\* Contexts to which the address is routed, by a live binding or by the
\* snapshot the fleet serves.
Routed == {c \in Contexts : binding[c] = "live"} \cup snapshot

\* "Two racing claimants cannot both miss each other": the address is never a
\* regional resolver's lease and a routed service destination at once.
Exclusion == Routed # {} => \A o \in Owners : lease[o] # "here"

\* A routed destination is claimed by the context it is routed to, so the
\* address is routed to one context at most, also while bindings are being
\* withdrawn and replanned.
RouteIsClaimed == \A c \in Routed : claim = c

\* Both at once, as Allocate and ClaimDestination promise each other.
ClaimsHold == Exclusion /\ RouteIsClaimed

\* "A claim is never freed before its route is withdrawn."
FreedWhenWithdrawn ==
    [][claim' # claim => claim \notin Routed]_vars

\* A claim whose context lost its access for good is released: no crash or
\* race leaves the address blocked for the other projects.
EventuallyReleased ==
    \A c \in Contexts : <>[](c \notin access) => <>[](claim # c)
-----------------------------------------------------------------------------
(* The inductive invariant behind the safety properties.  It needs what the *)
(* claims were designed for: one pass at a time per context and per owner.  *)

OnePassEach ==
    /\ \A v, w \in Claimers : ContextOf[v] = ContextOf[w] => v = w
    /\ \A v, w \in Reservers : OwnerOf[v] = OwnerOf[w] => v = w

At(w, steps) == at[w] \in steps

\* Passes take the steps of their kind.
StepsOfKind ==
    /\ \A w \in Claimers : At(w, {"idle"} \cup ClaimSteps)
    /\ \A w \in Reservers : At(w, {"idle"} \cup ReserveSteps)

\* A lease on the address, present or about to be written, has its claim.
LeasesAreClaimed ==
    /\ \A w \in Reservers :
          /\ At(w, {"claimed?", "giveup", "lease"}) => regional = OwnerOf[w]
          /\ ~At(w, {"idle"}) => lease[OwnerOf[w]] = "none"
    /\ \A o \in Owners : lease[o] = "here" => regional = o

\* What a claiming pass knows about its claim.
ClaimsAreHeld ==
    /\ \A w \in claimSeen : claim = ContextOf[w]
    /\ \A w \in Claimers :
          /\ At(w, {"recheck", "undo", "bind"}) => claim = ContextOf[w]
          /\ At(w, {"create"}) => claim # ContextOf[w]
          /\ At(w, {"recheck", "undo"}) => ContextOf[w] \notin Routed
          /\ At(w, {"snapshot?", "release"}) =>
                binding[ContextOf[w]] \notin {"live", "tombstone"}
          /\ At(w, ClaimSteps \ {"list", "routed?", "snapshot?", "release"})
                /\ saw[w] = "withdrawn" => binding[ContextOf[w]] = "withdrawn"

\* The snapshot routes only what is live or still being withdrawn.
SnapshotLags == \A c \in snapshot : binding[c] \in {"live", "tombstone"}

\* The two checks, each made after the checker's own claim exists.
Leased == \/ \E o \in Owners : lease[o] = "here"
          \/ \E w \in Reservers : At(w, {"lease"})
Granted ==
    \/ Routed # {}
    \/ \E w \in Claimers : At(w, {"bind"})
    \/ \E w \in Claimers : At(w, {"claim?"}) /\ claim = ContextOf[w]

\* With one pass at a time per context and per owner this is preserved by
\* every step of reserve, ClaimDestination, ReleaseDestinations and the pass.
IInv ==
    /\ TypeOK
    /\ StepsOfKind
    /\ LeasesAreClaimed
    /\ ClaimsAreHeld
    /\ SnapshotLags
    /\ RouteIsClaimed
    /\ ~(Leased /\ Granted)
=============================================================================
