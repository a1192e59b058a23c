------------------------------- MODULE MCGitWire -------------------------------
(***************************************************************************)
(* Requests of up to three lines besides the command.  Packs of one object *)
(* whose length is around one and two chunks; chains of deltas, forward,   *)
(* backward and in a circle; deltas with copies at the limits of their     *)
(* fields, and ones that do not fit.                                       *)
(***************************************************************************)
EXTENDS GitWire

Words == {Line("want", 1), Line("want", 2), Line("have", 3), Line("have", 4),
          Line("done", 0), Line("deepen", 0), [w |-> "want", oid |-> 1, ok |-> FALSE]}

MCRequests ==
  {c \o ls : c \in {<<>>, <<Line("fetch", 0)>>, <<Line("ls-refs", 0)>>},
             ls \in {<<a, b, d>> : a \in {Line("want", 1), Line("have", 3), Line("deepen", 0)}, b \in Words,
                                    d \in {Line("want", 1), Line("have", 4), Line("done", 0)}}}

MCKnown == <<4, 5>>

NoDelta == [src |-> 0, target |-> 0, cmds |-> <<>>]
Whole(n, data) == [kind |-> "whole", base |-> 0, size |-> n, data |-> data, delta |-> NoDelta]

\* A delta that puts four bytes of a base of n bytes and a new one together.
Edit(kind, base, n) ==
  [kind |-> kind, base |-> base, size |-> 9, data |-> 17,
   delta |-> [src |-> n, target |-> 5,
              cmds |-> <<[copy |-> TRUE, off |-> 1, len |-> 4], [copy |-> FALSE, off |-> 0, len |-> 1]>>]]

Copy(n, off, len) ==
  [kind |-> "ofs", base |-> 1, size |-> 9, data |-> 17,
   delta |-> [src |-> n, target |-> len, cmds |-> <<[copy |-> TRUE, off |-> off, len |-> len]>>]]

Framings == {<<Whole(n, d)>> : n \in {0, 15, 16, 2047, 2048, 300000},
                               d \in {8, 65480, 65481, 65482, 65483, 130997, 130998}}

\* Three deltas over one whole object, on it and on each other.
Chains == {<<Whole(5, 8), d, Edit("ref", b, n), Edit("ref", c, 5)>> :
             d \in {Edit("ofs", 1, 5), Edit("ofs", 2, 5), Edit("ref", 3, 5), Edit("ref", 4, 5)},
             b \in {0, 1, 2, 4, 9}, c \in {1, 2, 3}, n \in {4, 5}}

Offsets == {<<Whole(5, d), Whole(70000, 8), Edit("ofs", 1, 5)>> : d \in {90, 103, 104, 105, 16000, 16480, 16510}}

Copies == {<<Whole(n, 8), Copy(n, off, len)>> :
             n \in {65536, 70000, 16777300}, off \in {0, 255, 256, 4464, 16777216}, len \in {1, 84, 255, 256, 65535, 65536, 65537}}

Plain == {<<Line("want", 1), Line("done", 0)>>, <<Line("fetch", 0), Line("want", 1), Line("have", 3)>>}

MCCases ==
  [client : MCRequests, pack : {<<Whole(5, 8)>>}, lossy : {FALSE}]
    \cup [client : Plain, pack : Framings \cup Offsets, lossy : {TRUE}]
    \cup [client : {<<Line("want", 1), Line("deepen", 0)>>}, pack : Chains \cup Copies, lossy : {FALSE}]
================================================================================
