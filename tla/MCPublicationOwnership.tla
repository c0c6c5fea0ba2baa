----------------------- MODULE MCPublicationOwnership -----------------------
(* Two processes; in the first a project pass (w2) shares the zone's lease  *)
(* with the zone's key (w1).                                                *)
EXTENDS PublicationOwnership, TLC

CONSTANTS p1, p2, w1, w2, w3

MCWorkers == {w1, w2, w3}
MCCompilers == {w1, w3}
MCIdentities == {p1, p2}
MCIdentityOf == (w1 :> p1) @@ (w2 :> p1) @@ (w3 :> p2)
=============================================================================
