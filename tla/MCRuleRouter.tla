---------------------------- MODULE MCRuleRouter ----------------------------
(* One request at a time from one address that two pods take turns on,     *)
(* under bindings to a rule, to a host and to the fallback; h2 extends h1. *)
EXTENDS RuleRouter, TLC

CONSTANTS u1, u2, x, h1, h2, ga, gb

Pod(u, addresses, annotation) ==
  [uid |-> u, ips |-> addresses, annotation |-> annotation, grant |-> Unbound]

MCUIDs == {u1, u2}
MCIPs == {x}
MCGrants == {ga, gb}
MCSubmissions == {Pod(u1, {x}, ga), Pod(u2, {x}, Unbound)}
MCHosts == {h1, h2}
MCExtends == (h1 :> {}) @@ (h2 :> {h1})
MCTables == {(h1 :> [name |-> "r1", attribution |-> TRUE]) @@ (h2 :> NoRule),
             (h1 :> NoRule) @@ (h2 :> NoRule)}
MCPolicy == (ga :> {"r1"}) @@ (gb :> {"fallback", h1})
Symmetry == Permutations(Refs)
=============================================================================
