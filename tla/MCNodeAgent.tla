---------------------------- MODULE MCNodeAgent ----------------------------
(* A pod u1 that is given a second sandbox, and a pod u2 that takes over    *)
(* the address of the first one.                                           *)
EXTENDS NodeAgent, TLC

CONSTANTS s1, s2, s3, u1, u2, x, y, g1

MCUid == (s1 :> u1) @@ (s2 :> u2) @@ (s3 :> u1)
MCAddr == (s1 :> {x}) @@ (s2 :> {x}) @@ (s3 :> {y})
MCAnnotation == (s1 :> g1) @@ (s2 :> Unbound) @@ (s3 :> g1)

AllFaults == {"agent crash", "proxy crash", "refused", "reply lost", "netfilter"}
=============================================================================
