---------------------------- MODULE MCRuleReload ----------------------------
(* Two files that may each route either of two hosts.                      *)
EXTENDS RuleReload, TLC

CONSTANTS h1, h2

MCContents == {(h1 :> "a") @@ (h2 :> NoRule), (h1 :> "b") @@ (h2 :> "b")}
=============================================================================
