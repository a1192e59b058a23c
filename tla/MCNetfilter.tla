----------------------------- MODULE MCNetfilter -----------------------------
(* One pod: its interface on the host, of one family or of two, or its     *)
(* init container, with settings that overlap.                             *)
EXTENDS SidecarInit

At(f, a) == [fam |-> f, at |-> a]

MCSettings ==
  [intercept : {{"tcp80"}, {"tcp80", "tcp443"}, TCP},
   servers : {{At("v4", "cluster")}, {At("v4", "linklocal"), At("v6", "cluster")}},
   cidrs : {{}, {At("v4", "corp"), At("v6", "linklocal")}},
   ports : {{}, {"tcp22"}, {"tcp443"}},
   metadata : BOOLEAN, unfiltered : BOOLEAN]
=============================================================================
