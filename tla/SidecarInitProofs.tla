-------------------------- MODULE SidecarInitProofs --------------------------
(***************************************************************************)
(* The init container of module SidecarInit closes the pod, with any       *)
(* settings and however often it fails or is killed.                       *)
(***************************************************************************)
EXTENDS SidecarInit, NetfilterProofs

-----------------------------------------------------------------------------
(* The script: StartsFiltered speaks of its end only; Applied says what    *)
(* holds at each step on the way, and that a restart on old tables does    *)
(* not undo it.                                                            *)

Applied ==
  /\ DOMAIN tables = Families
  /\ pc \in {"v6", "save", "done"} => tables["v4"] = Tables
  /\ pc \in {"save", "done"} /\ ipv6 = "enabled" /\ ~env.unfiltered => tables["v6"] = Tables

LEMMA AppliedInit == PodInit => Applied
BY DEF PodInit, Applied, Families

LEMMA AppliedStep == Applied /\ [PodNext]_<<vars, svars>> => Applied'
<1> SUFFICES ASSUME Applied, [PodNext]_<<vars, svars>> PROVE Applied'
  OBVIOUS
<1>1. CASE UNCHANGED svars
  BY <1>1 DEF Applied, svars, pod
<1>2. CASE GenerateCA
  BY <1>2 DEF Applied, GenerateCA, Succeed, Exit, After, pod
<1>3. CASE ApplyIPv4
  BY <1>3 DEF Applied, ApplyIPv4, Restores, StopsShort, Succeed, Exit, After, pod, Families
<1>4. CASE apply_ipv6_rules
  <2>1. pc' = "save" \/ pc' = "exited"
    BY <1>4 DEF apply_ipv6_rules, Tolerate, Succeed, Exit, After
  <2>2. UNCHANGED <<ipv6, env>> /\ tables["v4"] = Tables
    BY <1>4 DEF apply_ipv6_rules, Tolerate, Succeed, Exit, After, pod, Applied
  <2>3. DOMAIN tables' = Families /\ tables'["v4"] = Tables
    BY <1>4, <2>2 DEF apply_ipv6_rules, Restores, StopsShort, Applied, Families
  <2>4. ASSUME pc' = "save", ipv6 = "enabled", ~env.unfiltered PROVE Restores("v6")
    BY <1>4, <2>4 DEF apply_ipv6_rules, Tolerate, Exit
  <2>5. Restores("v6") => tables'["v6"] = Tables
    BY DEF Restores, Applied, Families
  <2> QED BY <2>1, <2>2, <2>3, <2>4, <2>5 DEF Applied
<1>5. CASE LogRuleset
  BY <1>5 DEF Applied, LogRuleset, Succeed, Exit, After, pod
<1>6. CASE Restart
  BY <1>6 DEF Applied, Restart
<1> QED BY <1>1, <1>2, <1>3, <1>4, <1>5, <1>6 DEF PodNext, Entrypoint

\* The workload of a sidecar deployment never starts without the rules of
\* entrypoint.sh for IPv4, nor, where IPv6 is enabled and ALLOW_UNFILTERED_IPV6
\* is not set, for IPv6.
THEOREM NeverUnfiltered == PodSpec => []StartsFiltered
<1>1. Applied => StartsFiltered
  BY DEF Applied, StartsFiltered
<1> QED BY AppliedInit, AppliedStep, <1>1, PTL DEF PodSpec

-----------------------------------------------------------------------------
(* The rules of the script.                                                *)

LEMMA Matches ==
  ASSUME NEW f
  PROVE  LET r == generate_rules(f)
         IN  /\ r[1].match = To(Local) /\ r[2].match = Established
             /\ r[3].match = By("proxy") /\ r[4].match = Of({"icmpControl"})
             /\ r[5].match = To({"linklocal"})
             /\ r[6].match = To(Resolvers(f)) \cap Of({"udp53", "tcp53"})
             /\ r[7].match = To(Cidrs(f)) /\ r[8].match = Of(env.ports)
             /\ r[9].match = Of({"icmp", "icmpControl"})
             /\ r[10].match = Of(TCP) /\ r[11].match = Of(UDP)
BY DEF generate_rules, Always, MetadataRules, AllowRules, RefuseRules, On

LEMMA Targets ==
  ASSUME NEW f
  PROVE  LET r == generate_rules(f)
         IN  /\ DOMAIN r = 1..11
             /\ \A i \in {1, 2, 3, 4, 6, 7, 8} : r[i].target = "ACCEPT"
             /\ r[5].target = IF env.metadata THEN "ACCEPT" ELSE "REFUSE"
             /\ \A i \in {9, 10, 11} : r[i].target = "REFUSE"
BY DEF generate_rules, Always, MetadataRules, AllowRules, RefuseRules, On

Hits(f, p) == {i \in 1..11 : Routed(f, p) \in generate_rules(f)[i].match}

\* The kernel goes by the first rule that matches.
LEMMA FirstDecides ==
  ASSUME NEW f, NEW p, "filter" \in tables[f], Hits(f, p) # {}
  PROVE  \E i \in Hits(f, p) : /\ \A j \in Hits(f, p) : i <= j
                              /\ Fate(f, p) = generate_rules(f)[i].target
<1>1. Hits(f, p) = {i \in DOMAIN generate_rules(f) : Routed(f, p) \in generate_rules(f)[i].match}
  BY Targets DEF Hits
<1>2. Hits(f, p) \subseteq Nat
  BY DEF Hits
<1>3. Fate(f, p) =
        generate_rules(f)[CHOOSE i \in Hits(f, p) : \A j \in Hits(f, p) : i <= j].target
  BY <1>1 DEF Fate
<1> QED BY <1>2, <1>3, Least

\* What each rule matches.
LEMMA HitsWhat ==
  ASSUME NEW f, NEW p, Routed(f, p) \in Packet
  PROVE  LET q == Routed(f, p)
         IN  /\ 1 \in Hits(f, p) <=> q.dst \in Local
             /\ 2 \in Hits(f, p) <=> ~q.new
             /\ 3 \in Hits(f, p) <=> q.owner = "proxy"
             /\ 4 \in Hits(f, p) <=> q.kind = "icmpControl"
             /\ 5 \in Hits(f, p) <=> q.dst = "linklocal"
             /\ 6 \in Hits(f, p) <=> q.dst \in Resolvers(f) /\ q.kind \in {"udp53", "tcp53"}
             /\ 7 \in Hits(f, p) <=> q.dst \in Cidrs(f)
             /\ 8 \in Hits(f, p) <=> q.kind \in env.ports
             /\ 9 \in Hits(f, p) <=> q.kind \in {"icmp", "icmpControl"}
             /\ 10 \in Hits(f, p) <=> q.kind \in TCP
             /\ 11 \in Hits(f, p) <=> q.kind \in UDP
<1> DEFINE q == Routed(f, p)
           r == generate_rules(f)
<1> HIDE DEF q, r
<1>3. \A i \in 1..11 : i \in Hits(f, p) <=> q \in r[i].match
  BY DEF Hits, q, r
<1>4. q \in Packet
  BY DEF q
<1>5. /\ 1 \in Hits(f, p) <=> q.dst \in Local
      /\ 2 \in Hits(f, p) <=> ~q.new
      /\ 3 \in Hits(f, p) <=> q.owner = "proxy"
      /\ 4 \in Hits(f, p) <=> q.kind = "icmpControl"
      /\ 5 \in Hits(f, p) <=> q.dst = "linklocal"
  BY <1>3, <1>4, Matches DEF To, Of, By, Established, r
<1>6. /\ 6 \in Hits(f, p) <=> q.dst \in Resolvers(f) /\ q.kind \in {"udp53", "tcp53"}
      /\ 7 \in Hits(f, p) <=> q.dst \in Cidrs(f)
  BY <1>3, <1>4, Matches DEF To, Of, By, Established, r
<1>7. /\ 8 \in Hits(f, p) <=> q.kind \in env.ports
      /\ 9 \in Hits(f, p) <=> q.kind \in {"icmp", "icmpControl"}
      /\ 10 \in Hits(f, p) <=> q.kind \in TCP
      /\ 11 \in Hits(f, p) <=> q.kind \in UDP
  BY <1>3, <1>4, Matches DEF To, Of, By, Established, r
<1> QED BY <1>5, <1>6, <1>7 DEF q

\* No rule of generate_rules gets in the way of the proxy, and none sends its
\* connections back to it: those that let it out are before all that refuse.
THEOREM ProxyGoesOut == PodSpec => []ProxyUnhindered
<1>1. ProxyUnhindered
  <2> SUFFICES ASSUME NEW f \in Families, NEW p \in Packet, p.owner = "proxy"
               PROVE  Routed(f, p) = p /\ Fate(f, p) = "ACCEPT"
    BY DEF ProxyUnhindered
  <2>1. Routed(f, p) = p
    BY DEF Routed, Intercepts
  <2>2. 3 \in Hits(f, p)
    BY <2>1, HitsWhat
  <2>3. CASE "filter" \in tables[f]
    <3>1. PICK i \in Hits(f, p) : (\A j \in Hits(f, p) : i <= j)
                                  /\ Fate(f, p) = generate_rules(f)[i].target
      BY <2>2, <2>3, FirstDecides
    <3>2. i \in 1..3
      BY <2>2, <3>1 DEF Hits
    <3>3. generate_rules(f)[i].target = "ACCEPT"
      BY <3>2, Targets
    <3> QED BY <2>1, <3>1, <3>3
  <2>4. CASE "filter" \notin tables[f]
    BY <2>1, <2>4 DEF Fate
  <2> QED BY <2>3, <2>4
<1> QED BY <1>1, PTL

LEMMA RoutedTyped == ASSUME NEW f, NEW p \in Packet PROVE Routed(f, p) \in Packet
<1>1. [p EXCEPT !.dst = "localhost"] \in Packet
  BY DEF Packet, Local
<1> QED BY <1>1 DEF Routed

\* Once entrypoint.sh has succeeded, the rules of a family let out of the
\* workload's new connections exactly what the settings say.
THEOREM ConfinesWorkload == PodSpec => []WorkloadConfined
<1>1. WorkloadConfined
  <2> SUFFICES ASSUME NEW f \in Families, tables[f] = Tables, NEW p \in Packet,
                      p.owner = "workload", p.new, p.kind # "other", p.dst \notin Local
               PROVE  IF Intercepts(p)
                      THEN Routed(f, p).dst = "localhost" /\ Fate(f, p) = "ACCEPT"
                      ELSE Fate(f, p) = "ACCEPT" <=> MayLeave(f, p)
    BY DEF WorkloadConfined
  <2>1. "filter" \in tables[f] /\ "nat" \in tables[f] /\ Routed(f, p) \in Packet
    BY RoutedTyped DEF Tables
  <2>2. CASE Intercepts(p)
    <3>1. Routed(f, p).dst = "localhost"
      BY <2>1, <2>2 DEF Routed, Packet
    <3>2. 1 \in Hits(f, p)
      BY <2>1, <3>1, HitsWhat DEF Local
    <3>3. PICK i \in Hits(f, p) : (\A j \in Hits(f, p) : i <= j)
                                  /\ Fate(f, p) = generate_rules(f)[i].target
      BY <2>1, <3>2, FirstDecides
    <3>4. i = 1
      BY <3>2, <3>3 DEF Hits
    <3> QED BY <2>2, <3>1, <3>3, <3>4, Targets
  <2>3. CASE ~Intercepts(p)
    <3>1. Routed(f, p) = p
      BY <2>3 DEF Routed
    <3>2. 1 \notin Hits(f, p) /\ 2 \notin Hits(f, p) /\ 3 \notin Hits(f, p)
      BY <3>1, HitsWhat
    <3>3. /\ 4 \in Hits(f, p) <=> p.kind = "icmpControl"
          /\ 5 \in Hits(f, p) <=> p.dst = "linklocal"
          /\ 6 \in Hits(f, p) <=> p.dst \in Resolvers(f) /\ p.kind \in {"udp53", "tcp53"}
          /\ 7 \in Hits(f, p) <=> p.dst \in Cidrs(f)
          /\ 8 \in Hits(f, p) <=> p.kind \in env.ports
      BY <3>1, HitsWhat
    <3>4. {9, 10, 11} \cap Hits(f, p) # {}
      <4>1. p.kind \in {"icmp", "icmpControl"} \cup TCP \cup UDP
        BY DEF Packet, TCP, UDP
      <4> QED BY <3>1, <4>1, HitsWhat
    <3>5. PICK i \in Hits(f, p) : (\A j \in Hits(f, p) : i <= j)
                                  /\ Fate(f, p) = generate_rules(f)[i].target
      BY <2>1, <3>4, FirstDecides
    <3>6. i \in 4..11 /\ \A j \in 4..(i - 1) : j \notin Hits(f, p)
      BY <3>2, <3>5 DEF Hits
    <3>7. CASE i = 4
      BY <2>3, <3>3, <3>5, <3>7, Targets DEF MayLeave
    <3>8. CASE i = 5
      <4>1. p.kind # "icmpControl" /\ p.dst = "linklocal"
        BY <3>3, <3>5, <3>6, <3>8
      <4>2. Fate(f, p) = IF env.metadata THEN "ACCEPT" ELSE "REFUSE"
        BY <3>5, <3>8, Targets
      <4> QED BY <2>3, <4>1, <4>2 DEF MayLeave
    <3>9. CASE i \in {6, 7, 8}
      <4>1. p.dst # "linklocal" /\ MayLeave(f, p)
        BY <3>3, <3>5, <3>6, <3>9 DEF MayLeave
      <4> QED BY <2>3, <3>5, <3>9, <4>1, Targets
    <3>10. CASE i \in {9, 10, 11}
      <4>1. ~MayLeave(f, p)
        BY <3>3, <3>6, <3>10 DEF MayLeave
      <4> QED BY <2>3, <3>5, <3>10, <4>1, Targets
    <3> QED BY <2>3, <3>6, <3>7, <3>8, <3>9, <3>10
  <2> QED BY <2>2, <2>3
<1> QED BY <1>1, PTL

-----------------------------------------------------------------------------
(* The other deployment.                                                   *)

LEMMA IsHost == PodSpec => Spec
<1>1. PodInit => Init
  BY DEF PodInit
<1>2. [PodNext]_<<vars, svars>> => [Next]_vars
  BY DEF PodNext
<1> QED BY <1>1, <1>2, PTL DEF PodSpec, Spec

\* What is proved of configurePod and cleanupPod holds of a pod of either
\* deployment.
THEOREM EitherDeployment ==
  PodSpec => []ConfiguredCloses /\ []AllowedNeverRejected /\ []CleanedRemoves /\ []ErrsOnlyOnMissing
BY IsHost, ConfigureCloses, NeverCutOff, CleanupLeavesNothing, ErrsOnlyThen, PTL
=============================================================================
