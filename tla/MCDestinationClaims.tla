------------------------ MODULE MCDestinationClaims ------------------------
(* Instances of DestinationClaims: how many passes work for one context or  *)
(* one owner at a time.                                                     *)
EXTENDS DestinationClaims, TLC

CONSTANTS p1, p2, c1, c2, r1, r2, o1, o2

\* One pass per context and per owner: a single replica, one namespace.
OneEach == (p1 :> c1) @@ (p2 :> c2)
OneReserverEach == (r1 :> o1) @@ (r2 :> o2)

\* Two replicas.
BothForC1 == (p1 :> c1) @@ (p2 :> c1)

TwoClaimers == {p1, p2}
NoReservers == {}
TwoReservers == {r1, r2}
OneContext == {c1}
TwoContexts == {c1, c2}
OneOwner == {o1}
TwoOwners == {o1, o2}
NobodyReserves == << >>
=============================================================================
