----------------------------- MODULE MCHTTPProxy -----------------------------
(* Two clients and one URL behind two caching rules and one without a TTL. *)
EXTENDS HTTPProxy

CONSTANTS slow, quick, plain

MCTTL == [r \in Rules |-> CASE r = slow -> 2 [] r = quick -> 1 [] OTHER -> 0]
=============================================================================
