------------------------------ MODULE Netfilter ------------------------------
(***************************************************************************)
(* The host-side chains of one pod interface, cmd/portal-nri-plugin:       *)
(* configurePod installs them command by command for IPv4 and, for a dual- *)
(* stack pod, for IPv6; cleanupPod removes them for both families always.  *)
(* runNetfilter tolerates some errors, stops at the others, and takes a    *)
(* missing binary for success.  Handlers run one at a time; between two    *)
(* commands the plugin may crash, and it starts over on the chains it left *)
(* behind.                                                                 *)
(*                                                                         *)
(* A chain is the number of rules appended since it was flushed, or        *)
(* Absent: a prefix of its list of rules.  What iptables does to the       *)
(* kernel's tables, and the kernel to a packet, is external.               *)
(***************************************************************************)
EXTENDS Integers, Sequences, Functions

CONSTANTS
  MaxFaults   \* bound: commands that fail and crashes

ASSUME NetfilterAssumption == MaxFaults \in Nat

Families == {"v4", "v6"}
Tables == {"nat", "filter"}
Hooks == {"PREROUTING", "INPUT", "FORWARD"}
Absent == -1

VARIABLES
  dual,     \* whether the pod has an IPv6 address
  missing,  \* families whose iptables binary is not installed
  chain,    \* chain[f][t]: PORTAL_PR of "nat", PORTAL_EG of "filter"
  jump,     \* jump[f][h]: jumps from hook h to the chain
  job,      \* the handler in progress
  result,   \* what the last handler returned
  faults

conf == <<dual, missing>>
vars == <<conf, chain, jump, job, result, faults>>

NoJob == [op |-> "none", fam |-> "v4", left |-> <<>>]

-----------------------------------------------------------------------------
(* The rules.  A packet the pod sends is [class, proxied]: what it is, and  *)
(* whether it goes to a port of the proxy by now.                          *)

Redirected == <<"http", "https", "dnsUDP", "dnsTCP">>
icmpTypes == <<"1", "2", "3", "4", "133", "135", "136">>
Classes == Range(Redirected) \cup Range(icmpTypes) \cup {"established", "tcp", "udp", "other"}

Rule(classes, proxied, target) == [classes |-> classes, proxied |-> proxied, target |-> target]

Accepts == [i \in DOMAIN Redirected |-> Rule({Redirected[i]}, TRUE, "ACCEPT")]
Rejects ==
  <<Rule({"http", "https", "dnsTCP", "tcp"}, FALSE, "REJECT"),
    Rule({"dnsUDP", "udp"}, FALSE, "REJECT"), Rule(Classes, FALSE, "REJECT")>>

\* Mutant: rejects before it accepts.
EgressRulesRejectFirst(f) == <<Rule({"established"}, FALSE, "ACCEPT")>> \o Rejects \o Accepts

EgressRules(f) ==
  <<Rule({"established"}, FALSE, "ACCEPT")>>
  \o (IF f = "v4" THEN <<>>
      ELSE [i \in DOMAIN icmpTypes |-> Rule({icmpTypes[i]}, FALSE, "ACCEPT")])
  \o Accepts \o Rejects

NatRules == Len(Redirected)
EgRules(f) == Len(EgressRules(f))

-----------------------------------------------------------------------------
(* The command lists.                                                      *)

\* A command about a chain itself names no hook.
NoHook == "none"

Cmd(do, table, hook) == [do |-> do, table |-> table, hook |-> hook]

Times(n, cmd) == [i \in 1..n |-> cmd]

\* Mutant: links the egress chain without first taking an old link away.
buildHostNetfilterRulesRelink(f) ==
  <<Cmd("-N", "nat", NoHook), Cmd("-F", "nat", NoHook),
    Cmd("-D", "nat", "PREROUTING"), Cmd("-I", "nat", "PREROUTING")>>
  \o Times(NatRules, Cmd("-A", "nat", NoHook))
  \o <<Cmd("-N", "filter", NoHook), Cmd("-F", "filter", NoHook),
       Cmd("-I", "filter", "INPUT"), Cmd("-I", "filter", "FORWARD")>>
  \o Times(EgRules(f), Cmd("-A", "filter", NoHook))

buildHostNetfilterRules(f) ==
  <<Cmd("-N", "nat", NoHook), Cmd("-F", "nat", NoHook),
    Cmd("-D", "nat", "PREROUTING"), Cmd("-I", "nat", "PREROUTING")>>
  \o Times(NatRules, Cmd("-A", "nat", NoHook))
  \o <<Cmd("-N", "filter", NoHook), Cmd("-F", "filter", NoHook),
       Cmd("-D", "filter", "INPUT"), Cmd("-I", "filter", "INPUT"),
       Cmd("-D", "filter", "FORWARD"), Cmd("-I", "filter", "FORWARD")>>
  \o Times(EgRules(f), Cmd("-A", "filter", NoHook))

\* Mutant: deletes the egress chain before its last link.
buildHostCleanupRulesEarly ==
  <<Cmd("-D", "nat", "PREROUTING"), Cmd("-F", "nat", NoHook), Cmd("-X", "nat", NoHook),
    Cmd("-D", "filter", "INPUT"), Cmd("-F", "filter", NoHook),
    Cmd("-X", "filter", NoHook), Cmd("-D", "filter", "FORWARD")>>

buildHostCleanupRules ==
  <<Cmd("-D", "nat", "PREROUTING"), Cmd("-F", "nat", NoHook), Cmd("-X", "nat", NoHook),
    Cmd("-D", "filter", "INPUT"), Cmd("-D", "filter", "FORWARD"),
    Cmd("-F", "filter", NoHook), Cmd("-X", "filter", NoHook)>>

Commands(op, f) ==
  IF op = "configure" THEN buildHostNetfilterRules(f) ELSE buildHostCleanupRules

-----------------------------------------------------------------------------
(* One command.                                                            *)

Linked(f, t) ==
  IF t = "nat" THEN jump[f]["PREROUTING"] > 0
  ELSE jump[f]["INPUT"] > 0 \/ jump[f]["FORWARD"] > 0

\* External: whether iptables carries the command out.
Works(f, c) ==
  CASE c.do = "-N" -> chain[f][c.table] = Absent
    [] c.do = "-D" -> jump[f][c.hook] > 0
    [] c.do = "-X" -> chain[f][c.table] = 0 /\ ~Linked(f, c.table)
    [] OTHER -> chain[f][c.table] # Absent

\* External: what it does then.
Effect(f, c) ==
  /\ chain' = [chain EXCEPT ![f][c.table] =
                 CASE c.do \in {"-N", "-F"} -> 0
                   [] c.do = "-A" -> @ + 1
                   [] c.do = "-X" -> Absent
                   [] OTHER -> @]
  /\ jump' = IF c.hook = NoHook THEN jump
             ELSE [jump EXCEPT ![f][c.hook] = @ + (IF c.do = "-I" THEN 1 ELSE -1)]

\* Mutant: a chain that exists already is an error.
ToleratedNotNew(c) == c.do \in {"-D", "-X"}

\* The errors runNetfilter goes on after: the chain exists already, or what
\* is to be deleted is not there or still linked.
Tolerated(c) == c.do \in {"-N", "-D", "-X"}

-----------------------------------------------------------------------------

Init ==
  /\ chain = [f \in Families |-> [t \in Tables |-> Absent]]
  /\ jump = [f \in Families |-> [h \in Hooks |-> 0]]
  /\ job = NoJob /\ result = "none" /\ faults = 0
  /\ dual \in BOOLEAN /\ missing \in SUBSET Families

TypeOK ==
  /\ \A f \in Families, t \in Tables :
       chain[f][t] \in Absent..(IF t = "nat" THEN NatRules ELSE EgRules(f))
  /\ \A f \in Families, h \in Hooks : jump[f][h] \in Nat
  /\ job.op \in {"none", "configure", "cleanup"} /\ job.fam \in Families
  /\ result \in {"none", "configured", "cleaned", "error"}
  /\ dual \in BOOLEAN /\ missing \subseteq Families /\ faults \in 0..MaxFaults

Start(op) ==
  /\ job = NoJob
  /\ job' = [op |-> op, fam |-> "v4", left |-> Commands(op, "v4")]
  /\ result' = "none"
  /\ UNCHANGED <<conf, chain, jump, faults>>

Return(r) == job' = NoJob /\ result' = r

Current == Head(job.left)

Ready == job # NoJob /\ job.left # <<>> /\ job.fam \notin missing

GoOn == job' = [job EXCEPT !.left = Tail(@)] /\ UNCHANGED <<result, faults>>

runNetfilter ==
  /\ Ready
  /\ \/ Works(job.fam, Current) /\ Effect(job.fam, Current) /\ GoOn
     \/ /\ ~Works(job.fam, Current) /\ Tolerated(Current)
        /\ GoOn /\ UNCHANGED <<chain, jump>>
     \/ /\ ~Works(job.fam, Current) /\ ~Tolerated(Current)
        /\ Return("error") /\ UNCHANGED <<chain, jump, faults>>
  /\ UNCHANGED conf

\* The commands of a family are done, or skipped for want of the binary.
\* configurePod goes on to IPv6 for a dual-stack pod only, cleanupPod always.
NextFamily ==
  /\ job # NoJob
  /\ job.left = <<>> \/ job.fam \in missing
  /\ IF job.fam = "v4" /\ (job.op = "cleanup" \/ dual)
     THEN /\ job' = [job EXCEPT !.fam = "v6", !.left = Commands(job.op, "v6")]
          /\ UNCHANGED result
     ELSE Return(IF job.op = "configure" THEN "configured" ELSE "cleaned")
  /\ UNCHANGED <<conf, chain, jump, faults>>

\* A lookup or a command fails (the netns, the interface, the xtables lock, no
\* IPv6 proxy address), or the plugin crashes and nobody gets an answer.
Failure ==
  /\ job # NoJob /\ faults < MaxFaults /\ faults' = faults + 1
  /\ \/ Return("error")
     \/ job' = NoJob /\ result' = "none"
  /\ UNCHANGED <<conf, chain, jump>>

Next ==
  \/ Start("configure") \/ Start("cleanup")
  \/ runNetfilter \/ NextFamily \/ Failure

Spec == Init /\ [][Next]_vars

-----------------------------------------------------------------------------
(* Properties.                                                             *)

InUse == IF dual THEN Families ELSE {"v4"}

\* External: what the kernel does with a packet, "pass" if no rule of the pod's
\* chains is for it.
AfterNat(f, p) ==
  [p EXCEPT !.proxied = @ \/ (jump[f]["PREROUTING"] > 0
                               /\ \E i \in 1..chain[f]["nat"] : Redirected[i] = p.class)]

Verdict(f, p) ==
  LET q == AfterNat(f, p)
      hook == IF q.proxied THEN "INPUT" ELSE "FORWARD"
      matching == {i \in 1..chain[f]["filter"] :
                     LET r == EgressRules(f)[i]
                     IN  q.class \in r.classes /\ (r.proxied => q.proxied)}
  IN  IF jump[f][hook] = 0 \/ matching = {} THEN "pass"
      ELSE EgressRules(f)[CHOOSE i \in matching : \A j \in matching : i <= j].target

New(c) == [class |-> c, proxied |-> FALSE]
ToProxy(c) == [class |-> c, proxied |-> TRUE]

\* The traffic a pod may always send: answers, neighbour discovery, the proxy.
Allowed(f) ==
  {New("established")} \cup {ToProxy(c) : c \in Range(Redirected)}
    \cup (IF f = "v6" THEN {New(c) : c \in Range(icmpTypes)} ELSE {})

\* configurePod returns success only with chains in place, each linked exactly
\* once, that send web and DNS traffic to the proxy, accept what a pod may
\* always send, and reject all else, whatever partial installs, cleanups and
\* crashes came before.  Of a family without its binary nothing is said:
\* runNetfilter takes that for success.
ConfiguredCloses ==
  result = "configured" =>
    \A f \in InUse \ missing :
      /\ \A h \in Hooks : jump[f][h] = 1
      /\ \A c \in Range(Redirected) : AfterNat(f, New(c)).proxied
      /\ \A c \in Classes :
           Verdict(f, New(c)) =
             IF {New(c), ToProxy(c)} \cap Allowed(f) # {} THEN "ACCEPT" ELSE "REJECT"

\* Between any two commands, and after any crash or failure, no chain that is
\* half built, half flushed or left over rejects what a pod may always send:
\* the rules that reject come last.
AllowedNeverRejected ==
  \A f \in Families : \A p \in Allowed(f) : Verdict(f, p) # "REJECT"

\* cleanupPod returns success only when nothing of the pod is left behind.
CleanedRemoves ==
  result = "cleaned" =>
    \A f \in Families : /\ \A t \in Tables : chain[f][t] = Absent
                        /\ \A h \in Hooks : jump[f][h] = 0

\* Without a failing command or a crash a handler errs only over a chain that
\* is not there, which configurePod would have made: a flush of it in cleanupPod
\* is not among the errors runNetfilter tolerates.
ErrsOnlyOnMissing ==
  faults = 0 /\ result = "error" =>
    \E f \in Families \ missing, t \in Tables : chain[f][t] = Absent
=============================================================================
