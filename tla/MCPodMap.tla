------------------------------ MODULE MCPodMap ------------------------------
(* Two pods that take turns on one address, the first with an address of   *)
(* its own besides, submitted with and without bindings.                   *)
EXTENDS PodMap, TLC

CONSTANTS u1, u2, a, x, g1, g2

MCUIDs == {u1, u2}
MCIPs == {a, x}
MCGrants == {g1, g2}

Pod(u, addresses, annotation, grant) ==
  [uid |-> u, ips |-> addresses, annotation |-> annotation, grant |-> grant]

MCSubmissions ==
  {Pod(u1, {a, x}, g1, Unbound), Pod(u1, {a}, Unbound, Unbound),
   Pod(u2, {x}, Unbound, Unbound), Pod(u2, {}, Unbound, g2)}

Symmetry == Permutations(Refs)
=============================================================================
