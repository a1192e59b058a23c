---------------------------- MODULE SidecarInit ----------------------------
(***************************************************************************)
(* The other way to close a pod: not the plugin on the host but the init   *)
(* container of a sidecar deployment, images/init-service-portals.  The    *)
(* script entrypoint.sh writes one list of rules per family for            *)
(* ip(6)tables-restore, which replaces table by table; it exits at the     *)
(* first failure and is started again, on the rules that are left, and the *)
(* workload starts only after it has succeeded.  A pod is closed one way   *)
(* or the other (deployment); the plugin is that of module Netfilter.      *)
(*                                                                         *)
(* A packet is [dst, owner, kind, new]; dst is a class of addresses, with  *)
(* every metadata and link-local prefix of step 6 as "linklocal".          *)
(***************************************************************************)
EXTENDS Netfilter

CONSTANTS
  Settings   \* the environments of the container

VARIABLES
  deployment,  \* "plugin" or "sidecar"
  env,         \* the container's settings
  ipv6,        \* "absent" from the kernel, "disabled" or "enabled"
  binary6,     \* whether ip6tables-restore is installed
  tables,      \* tables[f]: the tables restored for family f
  pc           \* the step of the script; "done" once the workload runs

pod == <<deployment, env, ipv6, binary6>>
svars == <<pod, tables, pc>>

Local == {"localhost", "self"}
Packet ==
  [dst : Local \cup {"linklocal", "cluster", "corp", "internet"},
   owner : {"proxy", "workload"},
   kind : {"tcp80", "tcp443", "tcp53", "tcp22", "udp53", "udp", "icmpControl", "icmp", "other"},
   new : BOOLEAN]

TCP == {"tcp80", "tcp443", "tcp53", "tcp22"}
UDP == {"udp53", "udp"}

-----------------------------------------------------------------------------
(* generate_rules.                                                         *)

\* INTERCEPT_PORTS is a list of ports, or "*" for all: here the set of them.
Intercepts(p) ==
  /\ p.kind \in env.intercept /\ p.dst \notin Local
  /\ p.owner # "proxy" /\ p.new

On(S, target) == [match |-> S, target |-> target]
To(D) == {p \in Packet : p.dst \in D}
Of(K) == {p \in Packet : p.kind \in K}
By(owner) == {p \in Packet : p.owner = owner}
Established == {p \in Packet : ~p.new}

Resolvers(f) == {s.at : s \in {s \in env.servers : s.fam = f}}
Cidrs(f) == {s.at : s \in {s \in env.cidrs : s.fam = f}}

Always ==
  <<On(To(Local), "ACCEPT"),                             \* 1, 2
    On(Established, "ACCEPT"),                           \* 3
    On(By("proxy"), "ACCEPT"),                           \* 4
    On(Of({"icmpControl"}), "ACCEPT")>>                  \* 5
MetadataRules == <<On(To({"linklocal"}), IF env.metadata THEN "ACCEPT" ELSE "REFUSE")>>
AllowRules(f) ==
  <<On(To(Resolvers(f)) \cap Of({"udp53", "tcp53"}), "ACCEPT"),
    On(To(Cidrs(f)), "ACCEPT"), On(Of(env.ports), "ACCEPT")>>
RefuseRules ==
  <<On(Of({"icmp", "icmpControl"}), "REFUSE"),
    On(Of(TCP), "REFUSE"), On(Of(UDP), "REFUSE")>>

\* Mutant: what is allowed by address or port comes first.
generate_rulesAllowFirst(f) == Always \o AllowRules(f) \o MetadataRules \o RefuseRules

\* Mutant: the metadata addresses come before the proxy's own traffic.
generate_rulesMetadataFirst(f) == MetadataRules \o Always \o AllowRules(f) \o RefuseRules

generate_rules(f) == Always \o MetadataRules \o AllowRules(f) \o RefuseRules

-----------------------------------------------------------------------------
(* The script.                                                             *)

After == [ca |-> "v4", v4 |-> "v6", v6 |-> "save", save |-> "done"]

Succeed == pc' = After[pc] /\ UNCHANGED pod
Exit == pc' = "exited" /\ UNCHANGED pod

\* The CA is generated (module NodeBoot has its files), or the script exits.
GenerateCA == pc = "ca" /\ (Succeed \/ Exit) /\ UNCHANGED tables

\* External: iptables-restore commits nat, then filter, and stops at an error.
Restores(f) == tables' = [tables EXCEPT ![f] = Tables]
StopsShort(f) == \E t \in {{}, {"nat"}} : tables' = [tables EXCEPT ![f] = @ \cup t]

ApplyIPv4 ==
  /\ pc = "v4"
  /\ \/ Restores("v4") /\ Succeed
     \/ StopsShort("v4") /\ Exit

\* Mutant: a failure for IPv6 is never fatal.
TolerateAny == Succeed

Tolerate == IF env.unfiltered THEN Succeed ELSE Exit

apply_ipv6_rules ==
  /\ pc = "v6"
  /\ \/ ipv6 # "enabled" /\ Succeed /\ UNCHANGED tables
     \/ ipv6 = "enabled" /\ ~binary6 /\ Tolerate /\ UNCHANGED tables
     \/ ipv6 = "enabled" /\ binary6 /\ Restores("v6") /\ Succeed
     \/ ipv6 = "enabled" /\ binary6 /\ StopsShort("v6") /\ Tolerate

\* iptables-save, the last command that can make the script exit.
LogRuleset == pc = "save" /\ (Succeed \/ Exit) /\ UNCHANGED tables

\* External: the container is killed, or the sandbox lost with its network
\* namespace and all its processes; either way the script starts over.
Restart ==
  /\ \/ pc # "done" /\ UNCHANGED tables
     \/ tables' = [f \in Families |-> {}]
  /\ pc' = "ca" /\ UNCHANGED pod

Entrypoint == GenerateCA \/ ApplyIPv4 \/ apply_ipv6_rules \/ LogRuleset \/ Restart

-----------------------------------------------------------------------------
(* Either deployment.                                                      *)

NoSetting == [intercept |-> {}, servers |-> {}, cidrs |-> {}, ports |-> {},
              metadata |-> FALSE, unfiltered |-> FALSE]

PodInit ==
  /\ Init /\ tables = [f \in Families |-> {}] /\ pc = "ca"
  /\ \/ /\ deployment = "plugin"
        /\ env = NoSetting /\ ipv6 = "absent" /\ binary6 = FALSE
     \/ /\ deployment = "sidecar" /\ ~dual /\ missing = {}
        /\ env \in Settings /\ binary6 \in BOOLEAN
        /\ ipv6 \in {"absent", "disabled", "enabled"}

PodNext ==
  \/ deployment = "plugin" /\ Next /\ UNCHANGED svars
  \/ deployment = "sidecar" /\ Entrypoint /\ UNCHANGED vars

PodSpec == PodInit /\ [][PodNext]_<<vars, svars>>

-----------------------------------------------------------------------------
(* Properties.                                                             *)

\* External: the kernel.  A redirected packet goes on to the proxy's port here.
Routed(f, p) ==
  IF "nat" \in tables[f] /\ Intercepts(p) THEN [p EXCEPT !.dst = "localhost"] ELSE p

Fate(f, p) ==
  LET rules == generate_rules(f)
      hits == {i \in DOMAIN rules : Routed(f, p) \in rules[i].match}
  IN  IF "filter" \notin tables[f] \/ hits = {} THEN "ACCEPT"
      ELSE rules[CHOOSE i \in hits : \A j \in hits : i <= j].target

\* What the settings say of a workload's packet, in no order.
MayLeave(f, p) ==
  \/ p.kind = "icmpControl"
  \/ p.dst = "linklocal" /\ env.metadata
  \/ /\ p.dst # "linklocal"
     /\ \/ p.dst \in Resolvers(f) /\ p.kind \in {"udp53", "tcp53"}
        \/ p.dst \in Cidrs(f) \/ p.kind \in env.ports

\* Once the workload runs, each new connection of it goes where the settings
\* say and nowhere else: to the proxy if its port is intercepted, out if it is
\* permitted, and otherwise nowhere; no allowed range or port opens the
\* metadata addresses, and a resolver there is reached with ALLOW_METADATA
\* only.  The rules name TCP, UDP and ICMP, and so does this.
WorkloadConfined ==
  deployment = "sidecar" /\ pc = "done" =>
    \A f \in Families : tables[f] = Tables =>
      \A p \in Packet :
        p.owner = "workload" /\ p.new /\ p.kind # "other" /\ p.dst \notin Local =>
          IF Intercepts(p) THEN Routed(f, p).dst = "localhost" /\ Fate(f, p) = "ACCEPT"
          ELSE Fate(f, p) = "ACCEPT" <=> MayLeave(f, p)

\* However often the script failed, was killed or started over, the workload
\* does not start without both tables of IPv4, nor of IPv6 where that is
\* enabled ("Failing closed"), unless ALLOW_UNFILTERED_IPV6 says so.
StartsFiltered ==
  deployment = "sidecar" /\ pc = "done" =>
    /\ tables["v4"] = Tables
    /\ ipv6 = "enabled" /\ ~env.unfiltered => tables["v6"] = Tables

\* With tables of any age and in any part, the proxy's own connections are
\* neither refused nor sent back to the proxy.
ProxyUnhindered ==
  deployment = "sidecar" => \A f \in Families : \A p \in Packet :
    p.owner = "proxy" => Routed(f, p) = p /\ Fate(f, p) = "ACCEPT"
=============================================================================
