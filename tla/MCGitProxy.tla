------------------------------ MODULE MCGitProxy ------------------------------
(***************************************************************************)
(* A commit c2 on top of c1, whose tree has that of c1 as a subtree, and   *)
(* an annotated tag g of c1.                                               *)
(***************************************************************************)
EXTENDS GitProxy, TLC

CONSTANTS c1, c2, t1, t2, b1, b2, g

MCLinks == [o \in OIDs |->
  CASE o = c1 -> {t1}
    [] o = c2 -> {c1, t2}
    [] o = t1 -> {b1}
    [] o = t2 -> {t1, b2}
    [] o = g -> {c1}
    [] OTHER -> {}]

Symmetry == Permutations(Clients)
===============================================================================
