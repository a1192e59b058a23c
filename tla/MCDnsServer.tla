----------------------------- MODULE MCDnsServer -----------------------------
(* Two queries at a time and two upstream servers.                         *)
EXTENDS DnsServer
=============================================================================
