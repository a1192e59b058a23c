------------------------------ MODULE MCNodeBoot ------------------------------
(* Two pods of a DaemonSet, or one after the other in a sidecar's place.    *)
EXTENDS NodeBoot
===============================================================================
