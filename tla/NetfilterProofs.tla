--------------------------- MODULE NetfilterProofs ---------------------------
(***************************************************************************)
(* The chains of module Netfilter close the pod once configurePod returns, *)
(* block nothing the pod may always send on the way, and are gone once     *)
(* cleanupPod returns, however often either fails or is killed.            *)
(***************************************************************************)
EXTENDS Netfilter, WellFoundedInduction, TLAPS

\* The first of some numbers: the rule that decides on a packet.
LEMMA Least ==
  ASSUME NEW S, S \subseteq Nat, S # {}
  PROVE  LET i == CHOOSE i \in S : \A j \in S : i <= j
         IN  i \in S /\ \A j \in S : i <= j
<1> DEFINE R == OpToRel(<, Nat)
<1>1. IsWellFoundedOn(R, Nat)
  BY NatLessThanWellFounded
<1>2. ASSUME NEW g \in Nat, NEW f \in Nat, <<g, f>> \notin R PROVE f <= g
  BY <1>2 DEF OpToRel
<1> HIDE DEF R
<1>3. \E f \in S : \A g \in S : ~(<<g, f>> \in R)
  BY <1>1, WFMin
<1>4. \E f \in S : \A g \in S : f <= g
  BY <1>2, <1>3
<1> QED BY <1>4

\* s is a sequence of length l.
Has(s, l) == s = [i \in 1..l |-> s[i]]

\* u is s, of length l, followed by t, of length m.
Glued(u, s, l, t, m) ==
  /\ Has(u, l + m) /\ Len(u) = l + m
  /\ \A i \in 1..l : u[i] = s[i]
  /\ \A i \in 1..m : u[l + i] = t[i]

Join(s, t) == s \o t

LEMMA JoinTwo ==
  ASSUME NEW s, NEW l \in Nat, Has(s, l), NEW t, NEW m \in Nat, Has(t, m)
  PROVE  Glued(Join(s, t), s, l, t, m)
<1> DEFINE S == {s[i] : i \in 1..l} \cup {t[i] : i \in 1..m}
<1>1. s \in [1..l -> S] /\ t \in [1..m -> S]
  BY DEF Has
<1> HIDE DEF S
<1>2. s \in Seq(S) /\ Len(s) = l
  BY <1>1
<1>3. t \in Seq(S) /\ Len(t) = m
  BY <1>1
<1>4. /\ s \o t \in Seq(S) /\ Len(s \o t) = l + m
      /\ \A i \in 1..(l + m) : (s \o t)[i] = IF i <= l THEN s[i] ELSE t[i - l]
  BY <1>2, <1>3
<1>5. \A q \in Seq(S) : q \in [1..Len(q) -> S]
  OBVIOUS
<1>6. Has(s \o t, l + m)
  BY <1>4, <1>5 DEF Has
<1>7. \A i \in 1..l : (s \o t)[i] = s[i]
  BY <1>4
<1>8. \A i \in 1..m : l + i \in 1..(l + m) /\ ~(l + i <= l) /\ (l + i) - l = i
  OBVIOUS
<1>9. \A i \in 1..m : (s \o t)[l + i] = t[i]
  BY <1>4, <1>8
<1> QED BY <1>4, <1>6, <1>7, <1>9 DEF Join, Glued

\* u is a, b, c and d, of lengths k, l, m and n, one after the other.
GluedFour(u, a, k, b, l, c, m, d, n) ==
  /\ Has(u, k + l + m + n) /\ Len(u) = k + l + m + n
  /\ \A i \in 1..k : u[i] = a[i]
  /\ \A i \in 1..l : u[k + i] = b[i]
  /\ \A i \in 1..m : u[k + l + i] = c[i]
  /\ \A i \in 1..n : u[k + l + m + i] = d[i]

LEMMA JoinFour ==
  ASSUME NEW a, NEW k \in Nat, Has(a, k), NEW b, NEW l \in Nat, Has(b, l),
         NEW c, NEW m \in Nat, Has(c, m), NEW d, NEW n \in Nat, Has(d, n)
  PROVE  GluedFour(Join(Join(Join(a, b), c), d), a, k, b, l, c, m, d, n)
<1> DEFINE u == Join(a, b)
           v == Join(u, c)
           w == Join(v, d)
<1>1. Glued(u, a, k, b, l)
  BY JoinTwo
<1> HIDE DEF u
<1>2. Has(u, k + l) /\ k + l \in Nat
  BY <1>1 DEF Glued
<1>3. Glued(v, u, k + l, c, m)
  BY <1>2, JoinTwo
<1> HIDE DEF v
<1>4. Has(v, k + l + m) /\ k + l + m \in Nat
  BY <1>3 DEF Glued
<1>5. Glued(w, v, k + l + m, d, n)
  BY <1>4, JoinTwo
<1> HIDE DEF w
<1>6. \A i \in 1..k : w[i] = a[i]
  BY <1>1, <1>3, <1>5 DEF Glued
<1>7. \A i \in 1..l : w[k + i] = b[i]
  BY <1>1, <1>3, <1>5 DEF Glued
<1>8. \A i \in 1..m : w[k + l + i] = c[i]
  BY <1>3, <1>5 DEF Glued
<1>9. Has(w, k + l + m + n) /\ Len(w) = k + l + m + n /\ \A i \in 1..n : w[k + l + m + i] = d[i]
  BY <1>5 DEF Glued
<1>10. GluedFour(w, a, k, b, l, c, m, d, n)
  BY <1>6, <1>7, <1>8, <1>9 DEF GluedFour
<1> QED BY <1>10 DEF u, v, w

-----------------------------------------------------------------------------
(* The rules of the plugin: those that accept, then the three that reject. *)

LEMMA EgressRulesAre ==
  ASSUME NEW f \in Families
  PROVE  LET r == EgressRules(f)
             n == EgRules(f)
         IN  /\ n = IF f = "v4" THEN 8 ELSE 15
             /\ r[1] = Rule({"established"}, FALSE, "ACCEPT")
             /\ \A k \in 1..4 : r[n - 7 + k] = Rule({Redirected[k]}, TRUE, "ACCEPT")
             /\ f = "v6" => \A k \in 1..7 : r[1 + k] = Rule({icmpTypes[k]}, FALSE, "ACCEPT")
             /\ r[n] = Rule(Classes, FALSE, "REJECT")
             /\ r[n - 1].target = "REJECT" /\ r[n - 2].target = "REJECT"
<1> DEFINE a == <<Rule({"established"}, FALSE, "ACCEPT")>>
           l == IF f = "v4" THEN 0 ELSE 7
           b == IF f = "v4" THEN <<>>
                ELSE [i \in DOMAIN icmpTypes |-> Rule({icmpTypes[i]}, FALSE, "ACCEPT")]
           r == EgressRules(f)
<1>1. Has(a, 1) /\ a[1] = Rule({"established"}, FALSE, "ACCEPT")
  BY DEF Has
<1>2. Has(b, l) /\ l \in Nat /\ (f = "v6" => \A k \in 1..7 : b[k] = Rule({icmpTypes[k]}, FALSE, "ACCEPT"))
  <2>1. CASE f = "v4"
    BY <2>1 DEF Has
  <2>2. CASE f = "v6"
    <3>1. DOMAIN icmpTypes = 1..7
      BY DEF icmpTypes
    <3> QED BY <2>2, <3>1 DEF Has
  <2> QED BY <2>1, <2>2 DEF Families
<1>3. Has(Accepts, 4) /\ \A k \in 1..4 : Accepts[k] = Rule({Redirected[k]}, TRUE, "ACCEPT")
  <2>1. DOMAIN Redirected = 1..4
    BY DEF Redirected
  <2> QED BY <2>1 DEF Has, Accepts
<1>4. /\ Has(Rejects, 3) /\ Rejects[3] = Rule(Classes, FALSE, "REJECT")
      /\ Rejects[2].target = "REJECT" /\ Rejects[1].target = "REJECT"
  BY DEF Has, Rejects, Rule
<1>5. r = Join(Join(Join(a, b), Accepts), Rejects)
  BY DEF EgressRules, Join
<1> HIDE DEF a, b, r
<1>6. /\ Len(r) = 1 + l + 4 + 3
      /\ \A i \in 1..1 : r[i] = a[i]
      /\ \A i \in 1..l : r[1 + i] = b[i]
      /\ \A i \in 1..4 : r[1 + l + i] = Accepts[i]
      /\ \A i \in 1..3 : r[1 + l + 4 + i] = Rejects[i]
  <2>1. GluedFour(r, a, 1, b, l, Accepts, 4, Rejects, 3)
    BY <1>1, <1>2, <1>3, <1>4, <1>5, JoinFour
  <2> QED BY <2>1 DEF GluedFour
<1>7. EgRules(f) = 8 + l /\ EgRules(f) = IF f = "v4" THEN 8 ELSE 15
  BY <1>6 DEF EgRules, r, Families
<1>8. r[1] = Rule({"established"}, FALSE, "ACCEPT")
  <2>1. 1 \in 1..1
    OBVIOUS
  <2>2. r[1] = a[1]
    BY <1>6, <2>1
  <2> QED BY <1>1, <2>2
<1>9. \A k \in 1..4 : r[EgRules(f) - 7 + k] = Rule({Redirected[k]}, TRUE, "ACCEPT")
  <2>1. \A k \in 1..4 : EgRules(f) - 7 + k = 1 + l + k
    BY <1>2, <1>7
  <2> QED BY <1>3, <1>6, <2>1
<1>10. f = "v6" => \A k \in 1..7 : r[1 + k] = Rule({icmpTypes[k]}, FALSE, "ACCEPT")
  BY <1>2, <1>6
<1>11. /\ r[EgRules(f)] = Rejects[3] /\ r[EgRules(f) - 1] = Rejects[2]
       /\ r[EgRules(f) - 2] = Rejects[1]
  <2>1. EgRules(f) = 1 + l + 4 + 3 /\ EgRules(f) - 1 = 1 + l + 4 + 2 /\ EgRules(f) - 2 = 1 + l + 4 + 1
    BY <1>2, <1>7
  <2> QED BY <1>6, <2>1
<1> QED BY <1>4, <1>7, <1>8, <1>9, <1>10, <1>11 DEF r

\* The classes of packets the pod may always send, to the proxy or anywhere.
MaySend(f) ==
  {"established"} \cup Range(Redirected) \cup (IF f = "v6" THEN Range(icmpTypes) ELSE {})

LEMMA Lists ==
  /\ Range(Redirected) = {Redirected[k] : k \in 1..4}
  /\ Range(icmpTypes) = {icmpTypes[k] : k \in 1..7}
  /\ NatRules = 4
<1>1. DOMAIN Redirected = 1..4 /\ Len(Redirected) = 4
  BY DEF Redirected
<1>2. DOMAIN icmpTypes = 1..7
  BY DEF icmpTypes
<1> QED BY <1>1, <1>2 DEF Range, NatRules

\* The last three rules reject, and none before them.
LEMMA RejectsLast ==
  ASSUME NEW f \in Families
  PROVE  /\ EgRules(f) \in Nat /\ EgRules(f) >= 8
         /\ \A i \in 1..EgRules(f) :
              EgressRules(f)[i].target = IF i <= EgRules(f) - 3 THEN "ACCEPT" ELSE "REJECT"
<1> DEFINE r == EgressRules(f)
           n == EgRules(f)
<1>1. /\ n = IF f = "v4" THEN 8 ELSE 15
      /\ r[1].target = "ACCEPT"
      /\ \A k \in 1..4 : r[n - 7 + k].target = "ACCEPT"
      /\ f = "v6" => \A k \in 1..7 : r[1 + k].target = "ACCEPT"
      /\ r[n].target = "REJECT" /\ r[n - 1].target = "REJECT" /\ r[n - 2].target = "REJECT"
  BY EgressRulesAre DEF Rule
<1> HIDE DEF r, n
<1>2. ASSUME NEW i \in 1..n, i <= n - 3 PROVE r[i].target = "ACCEPT"
  <2>1. CASE i = 1
    BY <1>1, <2>1
  <2>2. CASE i > n - 7
    <3>1. i - (n - 7) \in 1..4 /\ n - 7 + (i - (n - 7)) = i
      BY <1>1, <1>2, <2>2
    <3> QED BY <1>1, <3>1
  <2>3. CASE i # 1 /\ i <= n - 7
    <3>1. f = "v6" /\ i - 1 \in 1..7 /\ 1 + (i - 1) = i
      BY <1>1, <1>2, <2>3 DEF Families
    <3> QED BY <1>1, <3>1
  <2> QED BY <1>1, <2>1, <2>2, <2>3
<1>3. ASSUME NEW i \in 1..n, i > n - 3 PROVE r[i].target = "REJECT"
  <2>1. i = n \/ i = n - 1 \/ i = n - 2
    BY <1>1, <1>3
  <2> QED BY <1>1, <2>1
<1> QED BY <1>1, <1>2, <1>3 DEF r, n

\* A rule that accepts is for what the pod may send, and there is one for all
\* of that.
LEMMA AcceptsWhat ==
  ASSUME NEW f \in Families
  PROVE  /\ \A i \in 1..(EgRules(f) - 3) : EgressRules(f)[i].classes \subseteq MaySend(f)
         /\ \A c \in MaySend(f) : \E i \in 1..(EgRules(f) - 3) :
              /\ c \in EgressRules(f)[i].classes
              /\ EgressRules(f)[i].proxied => c \in Range(Redirected)
         /\ EgressRules(f)[EgRules(f)].classes = Classes
         /\ EgressRules(f)[EgRules(f)].proxied = FALSE
<1> DEFINE r == EgressRules(f)
           n == EgRules(f)
<1>1. /\ n = IF f = "v4" THEN 8 ELSE 15
      /\ r[1].classes = {"established"} /\ r[1].proxied = FALSE
      /\ \A k \in 1..4 : r[n - 7 + k].classes = {Redirected[k]}
      /\ f = "v6" => \A k \in 1..7 : r[1 + k].classes = {icmpTypes[k]} /\ r[1 + k].proxied = FALSE
      /\ r[n].classes = Classes /\ r[n].proxied = FALSE
  BY EgressRulesAre DEF Rule
<1> HIDE DEF r, n
<1>2. ASSUME NEW i \in 1..(n - 3) PROVE r[i].classes \subseteq MaySend(f)
  <2>1. CASE i = 1
    BY <1>1, <2>1 DEF MaySend
  <2>2. CASE i > n - 7
    <3>1. i - (n - 7) \in 1..4 /\ n - 7 + (i - (n - 7)) = i
      BY <1>1, <1>2, <2>2
    <3> QED BY <1>1, <3>1, Lists DEF MaySend
  <2>3. CASE i # 1 /\ i <= n - 7
    <3>1. f = "v6" /\ i - 1 \in 1..7 /\ 1 + (i - 1) = i
      BY <1>1, <1>2, <2>3 DEF Families
    <3> QED BY <1>1, <3>1, Lists DEF MaySend
  <2> QED BY <1>1, <2>1, <2>2, <2>3
<1>3. ASSUME NEW c \in MaySend(f)
      PROVE  \E i \in 1..(n - 3) : c \in r[i].classes /\ (r[i].proxied => c \in Range(Redirected))
  <2>1. CASE c = "established"
    <3>1. 1 \in 1..(n - 3)
      BY <1>1
    <3> QED BY <1>1, <2>1, <3>1
  <2>2. CASE c \in Range(Redirected)
    <3>1. PICK k \in 1..4 : c = Redirected[k]
      BY <2>2, Lists
    <3>2. n - 7 + k \in 1..(n - 3)
      BY <1>1
    <3> QED BY <1>1, <2>2, <3>1, <3>2
  <2>3. CASE f = "v6" /\ c \in Range(icmpTypes)
    <3>1. PICK k \in 1..7 : c = icmpTypes[k]
      BY <2>3, Lists
    <3>2. 1 + k \in 1..(n - 3)
      BY <1>1, <2>3
    <3> QED BY <1>1, <2>3, <3>1, <3>2
  <2> QED BY <1>3, <2>1, <2>2, <2>3 DEF MaySend
<1> QED BY <1>1, <1>2, <1>3 DEF r, n

\* The rules of the egress chain of f that are for q, and the first of them.
Matching(f, q) ==
  {i \in 1..chain[f]["filter"] :
     q.class \in EgressRules(f)[i].classes /\ (EgressRules(f)[i].proxied => q.proxied)}

First(S) == CHOOSE i \in S : \A j \in S : i <= j

LEMMA VerdictIs ==
  ASSUME NEW f, NEW p
  PROVE  LET q == AfterNat(f, p)
             hook == IF q.proxied THEN "INPUT" ELSE "FORWARD"
         IN  Verdict(f, p) = IF jump[f][hook] = 0 \/ Matching(f, q) = {} THEN "pass"
                             ELSE EgressRules(f)[First(Matching(f, q))].target
BY DEF Verdict, Matching, First

LEMMA FirstMatch ==
  ASSUME NEW f, NEW q, Matching(f, q) # {}
  PROVE  /\ First(Matching(f, q)) \in Matching(f, q)
         /\ \A j \in Matching(f, q) : First(Matching(f, q)) <= j
<1>1. Matching(f, q) \subseteq Nat
  BY DEF Matching
<1> QED BY <1>1, Least DEF First

\* Whether the nat chain of f takes a packet of class c to the proxy.
Taken(f, c) == jump[f]["PREROUTING"] > 0 /\ \E i \in 1..chain[f]["nat"] : Redirected[i] = c

LEMMA ClassOf ==
  ASSUME NEW f, NEW c
  PROVE  /\ New(c).class = c /\ ToProxy(c).class = c
         /\ AfterNat(f, New(c)).class = c /\ AfterNat(f, ToProxy(c)).class = c
BY DEF New, ToProxy, AfterNat

LEMMA ProxiedOf ==
  ASSUME NEW f, NEW c
  PROVE  /\ AfterNat(f, New(c)).proxied <=> Taken(f, c)
         /\ AfterNat(f, ToProxy(c)).proxied
BY DEF New, ToProxy, AfterNat, Taken

LEMMA AllowedAre ==
  ASSUME NEW f, NEW c
  PROVE  ({New(c), ToProxy(c)} \cap Allowed(f) # {}) <=> c \in MaySend(f)
<1>1. \A d : New(c) = New(d) <=> c = d
  BY DEF New
<1>2. \A d : ToProxy(c) = ToProxy(d) <=> c = d
  BY DEF ToProxy
<1>3. \A d : New(c) # ToProxy(d) /\ ToProxy(c) # New(d)
  BY DEF New, ToProxy
<1>4. New(c) \in Allowed(f) <=> c = "established" \/ (f = "v6" /\ c \in Range(icmpTypes))
  BY <1>1, <1>3 DEF Allowed
<1>5. ToProxy(c) \in Allowed(f) <=> c \in Range(Redirected)
  BY <1>2, <1>3 DEF Allowed
<1> QED BY <1>4, <1>5 DEF MaySend

\* A chain that is a prefix of its rules rejects nothing it may not.
LEMMA PrefixHarmless ==
  ASSUME NEW f \in Families, NEW p \in Allowed(f),
         chain[f]["filter"] \in Absent..EgRules(f)
  PROVE  Verdict(f, p) # "REJECT"
<1> DEFINE q == AfterNat(f, p)
           S == Matching(f, q)
           n == EgRules(f)
           r == EgressRules(f)
<1>1. /\ q.class = p.class /\ p.class \in MaySend(f)
      /\ p.class \in Range(Redirected) => q.proxied
  <2>1. p = New("established")
        \/ (\E c \in Range(Redirected) : p = ToProxy(c))
        \/ (f = "v6" /\ \E c \in Range(icmpTypes) : p = New(c))
    BY DEF Allowed
  <2>2. ASSUME NEW c \in Range(icmpTypes) \cup {"established"} PROVE c \notin Range(Redirected)
    BY <2>2, Lists DEF Redirected, icmpTypes
  <2>3. CASE p = New("established")
    <3>1. q.class = "established" /\ p.class = "established"
      BY <2>3, ClassOf
    <3> QED BY <2>2, <3>1 DEF MaySend
  <2>4. CASE \E c \in Range(Redirected) : p = ToProxy(c)
    <3>1. PICK c \in Range(Redirected) : p = ToProxy(c)
      BY <2>4
    <3>2. q.class = c /\ p.class = c
      BY <3>1, ClassOf
    <3>3. q.proxied
      BY <3>1, ProxiedOf
    <3> QED BY <3>2, <3>3 DEF MaySend
  <2>5. CASE f = "v6" /\ \E c \in Range(icmpTypes) : p = New(c)
    <3>1. PICK c \in Range(icmpTypes) : p = New(c)
      BY <2>5
    <3>2. q.class = c /\ p.class = c
      BY <3>1, ClassOf
    <3> QED BY <2>2, <2>5, <3>2 DEF MaySend
  <2> QED BY <2>1, <2>3, <2>4, <2>5
<1>2. PICK k \in 1..(n - 3) : p.class \in r[k].classes /\ (r[k].proxied => q.proxied)
  BY <1>1, AcceptsWhat
<1> HIDE DEF q
<1>3. ASSUME S # {} PROVE r[First(S)].target = "ACCEPT"
  <2>1. First(S) \in S /\ \A j \in S : First(S) <= j
    BY <1>3, FirstMatch
  <2>2. First(S) \in 1..chain[f]["filter"] /\ First(S) \in 1..n
    BY <2>1, RejectsLast DEF Matching, Absent
  <2>3. First(S) <= n - 3
    <3>1. SUFFICES ASSUME First(S) > n - 3 PROVE FALSE
      BY <2>2, RejectsLast
    <3>2. k \in 1..chain[f]["filter"]
      BY <2>2, <3>1, RejectsLast DEF Absent
    <3>3. k \in S
      BY <1>1, <1>2, <3>2 DEF Matching
    <3> QED BY <2>1, <2>2, <3>1, <3>3, RejectsLast
  <2> QED BY <2>2, <2>3, RejectsLast
<1>4. Verdict(f, p) = "pass" \/ (S # {} /\ Verdict(f, p) = r[First(S)].target)
  BY VerdictIs DEF q
<1> QED BY <1>3, <1>4

\* The full chains, linked, decide on every packet.
LEMMA FullCloses ==
  ASSUME NEW f \in Families, \A h \in Hooks : jump[f][h] = 1,
         chain[f]["nat"] = NatRules, chain[f]["filter"] = EgRules(f)
  PROVE  /\ \A c \in Range(Redirected) : AfterNat(f, New(c)).proxied
         /\ \A c \in Classes :
              Verdict(f, New(c)) =
                IF {New(c), ToProxy(c)} \cap Allowed(f) # {} THEN "ACCEPT" ELSE "REJECT"
<1> DEFINE n == EgRules(f)
           r == EgressRules(f)
<1>1. ASSUME NEW c
      PROVE  /\ AfterNat(f, New(c)).class = c
             /\ AfterNat(f, New(c)).proxied <=> c \in Range(Redirected)
  <2>1. jump[f]["PREROUTING"] > 0
    BY DEF Hooks
  <2>2. Taken(f, c) <=> c \in Range(Redirected)
    BY <2>1, Lists DEF Taken
  <2>3. AfterNat(f, New(c)).class = c
    BY ClassOf
  <2>4. AfterNat(f, New(c)).proxied <=> Taken(f, c)
    BY ProxiedOf
  <2> QED BY <2>2, <2>3, <2>4
<1>2. ASSUME NEW c \in Classes
      PROVE  Verdict(f, New(c)) = IF c \in MaySend(f) THEN "ACCEPT" ELSE "REJECT"
  <2> DEFINE q == AfterNat(f, New(c))
             S == Matching(f, q)
  <2>1. q.class = c /\ (q.proxied <=> c \in Range(Redirected))
    BY <1>1
  <2>2. (IF q.proxied THEN "INPUT" ELSE "FORWARD") \in Hooks
    BY DEF Hooks
  <2>3. Verdict(f, New(c)) = IF S = {} THEN "pass" ELSE r[First(S)].target
    BY <2>2, VerdictIs
  <2> HIDE DEF q
  <2>4. n \in S
    <3>1. n \in 1..n
      BY RejectsLast
    <3> QED BY <2>1, <3>1, AcceptsWhat DEF Matching
  <2>5. First(S) \in S /\ \A j \in S : First(S) <= j
    BY <2>4, FirstMatch
  <2>6. First(S) \in 1..n /\ c \in r[First(S)].classes
    BY <2>1, <2>5 DEF Matching
  <2>7. Verdict(f, New(c)) = r[First(S)].target
    BY <2>4, <2>3
  <2>8. CASE c \in MaySend(f)
    <3>1. PICK k \in 1..(n - 3) : c \in r[k].classes /\ (r[k].proxied => c \in Range(Redirected))
      BY <2>8, AcceptsWhat
    <3>2. k \in S /\ k \in Nat
      <4>1. k \in 1..n
        BY RejectsLast
      <4> QED BY <2>1, <3>1, <4>1 DEF Matching
    <3>3. First(S) <= n - 3
      BY <2>5, <2>6, <3>2, RejectsLast
    <3> QED BY <2>6, <2>7, <2>8, <3>3, RejectsLast
  <2>9. CASE c \notin MaySend(f)
    <3>1. First(S) \notin 1..(n - 3)
      BY <2>6, <2>9, AcceptsWhat
    <3>2. ~(First(S) <= n - 3)
      BY <2>6, <3>1, RejectsLast
    <3> QED BY <2>6, <2>7, <2>9, <3>2, RejectsLast
  <2> QED BY <2>8, <2>9
<1> QED BY <1>1, <1>2, AllowedAre

-----------------------------------------------------------------------------
(* The commands of a handler, by their place, and what holds of a family's *)
(* chains once k of them are done, whatever was there before.              *)

AnyCmd ==
  [do : {"-N", "-F", "-D", "-I", "-A", "-X"}, table : Tables, hook : Hooks \cup {NoHook}]

Configured(f, k) ==
  LET nat == chain[f]["nat"]
      filter == chain[f]["filter"]
  IN  /\ k >= 1 => nat # Absent
      /\ k >= 2 => nat = IF k <= 4 THEN 0 ELSE IF k <= 8 THEN k - 4 ELSE NatRules
      /\ k = 3 => jump[f]["PREROUTING"] = 0
      /\ k >= 4 => jump[f]["PREROUTING"] = 1
      /\ k >= 9 => filter # Absent
      /\ k >= 10 => filter = IF k <= 14 THEN 0 ELSE k - 14
      /\ k = 11 => jump[f]["INPUT"] = 0
      /\ k >= 12 => jump[f]["INPUT"] = 1
      /\ k = 13 => jump[f]["FORWARD"] = 0
      /\ k >= 14 => jump[f]["FORWARD"] = 1

Cleaned(f, k) ==
  /\ k >= 1 => jump[f]["PREROUTING"] = 0
  /\ k = 2 => chain[f]["nat"] = 0
  /\ k >= 3 => chain[f]["nat"] = Absent
  /\ k >= 4 => jump[f]["INPUT"] = 0
  /\ k >= 5 => jump[f]["FORWARD"] = 0
  /\ k = 6 => chain[f]["filter"] = 0
  /\ k >= 7 => chain[f]["filter"] = Absent

Progress(op, f, k) == IF op = "configure" THEN Configured(f, k) ELSE Cleaned(f, k)

All(op, f) == IF op = "configure" THEN 14 + EgRules(f) ELSE 7

Finished(op, f) == f \in missing \/ Progress(op, f, All(op, f))

\* left is what remains of the commands once k are done.
Rest(left, op, f, k) ==
  /\ left \in Seq(AnyCmd) /\ Len(left) = All(op, f) - k
  /\ \A i \in 1..Len(left) : left[i] = Commands(op, f)[k + i]

Working(op, f, left) ==
  /\ result = "none"
  /\ \E k \in 0..All(op, f) : Rest(left, op, f, k) /\ Progress(op, f, k)
  /\ f = "v6" => Finished(op, "v4")

Host ==
  /\ chain \in [Families -> [Tables -> Int]]
  /\ \A f \in Families :
       chain[f]["nat"] \in Absent..NatRules /\ chain[f]["filter"] \in Absent..EgRules(f)
  /\ jump \in [Families -> [Hooks -> {0, 1}]]
  /\ missing \subseteq Families
  /\ \A f \in missing : Cleaned(f, 7)

Handler ==
  \/ job = NoJob
  \/ \E op \in {"configure", "cleanup"}, f \in Families, left \in Seq(AnyCmd) :
       job = [op |-> op, fam |-> f, left |-> left] /\ Working(op, f, left)

Outcome ==
  /\ result = "configured" => \A f \in InUse : Finished("configure", f)
  /\ result = "cleaned" => \A f \in Families : Finished("cleanup", f)
  /\ faults \in Nat
  /\ ErrsOnlyOnMissing

NInv == Host /\ Handler /\ Outcome

LEMMA CmdTyped ==
  ASSUME NEW do \in {"-N", "-F", "-D", "-I", "-A", "-X"}, NEW t \in Tables,
         NEW h \in Hooks \cup {NoHook}
  PROVE  Cmd(do, t, h) \in AnyCmd
BY DEF Cmd, AnyCmd

LEMMA ConfigureAre ==
  ASSUME NEW f \in Families
  PROVE  LET c == Commands("configure", f)
         IN  /\ c \in Seq(AnyCmd) /\ Len(c) = All("configure", f)
             /\ c[1] = Cmd("-N", "nat", NoHook) /\ c[2] = Cmd("-F", "nat", NoHook)
             /\ c[3] = Cmd("-D", "nat", "PREROUTING") /\ c[4] = Cmd("-I", "nat", "PREROUTING")
             /\ \A i \in 5..8 : c[i] = Cmd("-A", "nat", NoHook)
             /\ c[9] = Cmd("-N", "filter", NoHook) /\ c[10] = Cmd("-F", "filter", NoHook)
             /\ c[11] = Cmd("-D", "filter", "INPUT") /\ c[12] = Cmd("-I", "filter", "INPUT")
             /\ c[13] = Cmd("-D", "filter", "FORWARD") /\ c[14] = Cmd("-I", "filter", "FORWARD")
             /\ \A i \in 15..All("configure", f) : c[i] = Cmd("-A", "filter", NoHook)
<1> DEFINE a == <<Cmd("-N", "nat", NoHook), Cmd("-F", "nat", NoHook),
                  Cmd("-D", "nat", "PREROUTING"), Cmd("-I", "nat", "PREROUTING")>>
           b == Times(NatRules, Cmd("-A", "nat", NoHook))
           d == <<Cmd("-N", "filter", NoHook), Cmd("-F", "filter", NoHook),
                  Cmd("-D", "filter", "INPUT"), Cmd("-I", "filter", "INPUT"),
                  Cmd("-D", "filter", "FORWARD"), Cmd("-I", "filter", "FORWARD")>>
           n == EgRules(f)
           e == Times(n, Cmd("-A", "filter", NoHook))
           c == Commands("configure", f)
<1>1. /\ Has(a, 4) /\ a[1] = Cmd("-N", "nat", NoHook) /\ a[2] = Cmd("-F", "nat", NoHook)
      /\ a[3] = Cmd("-D", "nat", "PREROUTING") /\ a[4] = Cmd("-I", "nat", "PREROUTING")
  BY DEF Has
<1>2. Has(b, 4) /\ \A i \in 1..4 : b[i] = Cmd("-A", "nat", NoHook)
  BY Lists DEF Has, Times
<1>3. /\ Has(d, 6) /\ d[1] = Cmd("-N", "filter", NoHook) /\ d[2] = Cmd("-F", "filter", NoHook)
      /\ d[3] = Cmd("-D", "filter", "INPUT") /\ d[4] = Cmd("-I", "filter", "INPUT")
      /\ d[5] = Cmd("-D", "filter", "FORWARD") /\ d[6] = Cmd("-I", "filter", "FORWARD")
  BY DEF Has
<1>4. n \in Nat
  BY RejectsLast
<1>5. Has(e, n) /\ \A i \in 1..n : e[i] = Cmd("-A", "filter", NoHook)
  BY <1>4 DEF Has, Times
<1>6. c = Join(Join(Join(a, b), d), e)
  BY DEF Commands, buildHostNetfilterRules, Join
<1> HIDE DEF a, b, d, e, c, n
<1>7. GluedFour(c, a, 4, b, 4, d, 6, e, n)
  BY <1>1, <1>2, <1>3, <1>4, <1>5, <1>6, JoinFour
<1>8. /\ Has(c, 14 + n) /\ Len(c) = 14 + n
      /\ \A i \in 1..4 : c[i] = a[i]
      /\ \A i \in 1..4 : c[4 + i] = b[i]
      /\ \A i \in 1..6 : c[8 + i] = d[i]
      /\ \A i \in 1..n : c[14 + i] = e[i]
  BY <1>4, <1>7 DEF GluedFour
<1>9. All("configure", f) = 14 + n
  BY DEF All, n
<1>10. c[1] = a[1] /\ c[2] = a[2] /\ c[3] = a[3] /\ c[4] = a[4]
  BY <1>8
<1>11. ASSUME NEW i \in 5..8 PROVE c[i] = Cmd("-A", "nat", NoHook)
  <2>1. i - 4 \in 1..4 /\ 4 + (i - 4) = i
    OBVIOUS
  <2> QED BY <1>2, <1>8, <2>1
<1>12. /\ c[9] = d[1] /\ c[10] = d[2] /\ c[11] = d[3] /\ c[12] = d[4] /\ c[13] = d[5]
       /\ c[14] = d[6]
  <2>1. /\ c[8 + 1] = d[1] /\ c[8 + 2] = d[2] /\ c[8 + 3] = d[3] /\ c[8 + 4] = d[4]
        /\ c[8 + 5] = d[5] /\ c[8 + 6] = d[6]
    BY <1>8
  <2> QED BY <2>1
<1>13. ASSUME NEW i \in 15..(14 + n) PROVE c[i] = Cmd("-A", "filter", NoHook)
  <2>1. i - 14 \in 1..n /\ 14 + (i - 14) = i
    BY <1>4
  <2> QED BY <1>5, <1>8, <2>1
<1>14. ASSUME NEW i \in 1..(14 + n) PROVE c[i] \in AnyCmd
  <2>1. CASE i \in 1..4
    <3>1. i = 1 \/ i = 2 \/ i = 3 \/ i = 4
      BY <2>1
    <3> QED BY <1>1, <1>10, <3>1, CmdTyped DEF Tables, Hooks
  <2>2. CASE i \in 5..8
    BY <1>11, <2>2, CmdTyped DEF Tables
  <2>3. CASE i \in 9..14
    <3>1. i = 9 \/ i = 10 \/ i = 11 \/ i = 12 \/ i = 13 \/ i = 14
      BY <2>3
    <3> QED BY <1>3, <1>12, <3>1, CmdTyped DEF Tables, Hooks
  <2>4. CASE i \in 15..(14 + n)
    BY <1>13, <2>4, CmdTyped DEF Tables
  <2> QED BY <1>4, <2>1, <2>2, <2>3, <2>4
<1>15. c \in [1..(14 + n) -> AnyCmd]
  BY <1>8, <1>14 DEF Has
<1>16. c \in Seq(AnyCmd)
  BY <1>4, <1>15
<1> QED BY <1>1, <1>3, <1>8, <1>9, <1>10, <1>11, <1>12, <1>13, <1>16 DEF c

LEMMA CleanupAre ==
  ASSUME NEW f
  PROVE  LET c == Commands("cleanup", f)
         IN  /\ c \in Seq(AnyCmd) /\ Len(c) = All("cleanup", f)
             /\ c[1] = Cmd("-D", "nat", "PREROUTING") /\ c[2] = Cmd("-F", "nat", NoHook)
             /\ c[3] = Cmd("-X", "nat", NoHook) /\ c[4] = Cmd("-D", "filter", "INPUT")
             /\ c[5] = Cmd("-D", "filter", "FORWARD") /\ c[6] = Cmd("-F", "filter", NoHook)
             /\ c[7] = Cmd("-X", "filter", NoHook)
<1> DEFINE c == Commands("cleanup", f)
<1>1. c = <<Cmd("-D", "nat", "PREROUTING"), Cmd("-F", "nat", NoHook), Cmd("-X", "nat", NoHook),
            Cmd("-D", "filter", "INPUT"), Cmd("-D", "filter", "FORWARD"),
            Cmd("-F", "filter", NoHook), Cmd("-X", "filter", NoHook)>>
  BY DEF Commands, buildHostCleanupRules
<1> HIDE DEF c
<1>2. /\ c[1] = Cmd("-D", "nat", "PREROUTING") /\ c[2] = Cmd("-F", "nat", NoHook)
      /\ c[3] = Cmd("-X", "nat", NoHook) /\ c[4] = Cmd("-D", "filter", "INPUT")
      /\ c[5] = Cmd("-D", "filter", "FORWARD") /\ c[6] = Cmd("-F", "filter", NoHook)
      /\ c[7] = Cmd("-X", "filter", NoHook) /\ Len(c) = 7
  BY <1>1
<1>3. /\ c[1] \in AnyCmd /\ c[2] \in AnyCmd /\ c[3] \in AnyCmd /\ c[4] \in AnyCmd
      /\ c[5] \in AnyCmd /\ c[6] \in AnyCmd /\ c[7] \in AnyCmd
  BY <1>2, CmdTyped DEF Tables, Hooks
<1>4. c \in Seq(AnyCmd)
  BY <1>1, <1>2, <1>3
<1> QED BY <1>2, <1>4 DEF All, c

\* runNetfilter goes on after c: it was carried out, or its error tolerated.
Ran(f, c) ==
  \/ Works(f, c) /\ Effect(f, c)
  \/ ~Works(f, c) /\ Tolerated(c) /\ UNCHANGED <<chain, jump>>

Others(f) == \A g \in Families \ {f} : chain'[g] = chain[g] /\ jump'[g] = jump[g]

\* A step that leaves v in chain t of f, and else everything as it was.
Writes(f, t, v) ==
  /\ Host' /\ Others(f) /\ jump'[f] = jump[f]
  /\ chain'[f]["nat"] = IF t = "nat" THEN v ELSE chain[f]["nat"]
  /\ chain'[f]["filter"] = IF t = "filter" THEN v ELSE chain[f]["filter"]

\* A step that leaves v jumps from h to a chain of f, and else everything.
Links(f, h, v) ==
  /\ Host' /\ Others(f) /\ chain'[f] = chain[f]
  /\ jump'[f]["PREROUTING"] = IF h = "PREROUTING" THEN v ELSE jump[f]["PREROUTING"]
  /\ jump'[f]["INPUT"] = IF h = "INPUT" THEN v ELSE jump[f]["INPUT"]
  /\ jump'[f]["FORWARD"] = IF h = "FORWARD" THEN v ELSE jump[f]["FORWARD"]

\* The most rules chain t of family f may have.
Bound(f, t) == IF t = "nat" THEN NatRules ELSE EgRules(f)

\* A family without its binary is as it was, empty.
LEMMA OthersKept ==
  ASSUME Host, NEW f \in Families \ missing, UNCHANGED missing, Others(f)
  PROVE  /\ \A g \in Families \ {f} : chain'[g]["nat"] \in Absent..NatRules
                                      /\ chain'[g]["filter"] \in Absent..EgRules(g)
         /\ \A g \in missing' : Cleaned(g, 7)'
<1>1. \A g \in missing : g \in Families \ {f} /\ Cleaned(g, 7)
  BY DEF Host
<1>2. \A g \in missing' : Cleaned(g, 7)'
  BY <1>1 DEF Cleaned, Others
<1> QED BY <1>2 DEF Host, Others

LEMMA WritesWhen ==
  ASSUME Host, NEW f \in Families \ missing, UNCHANGED missing,
         NEW t \in Tables, NEW v \in Absent..Bound(f, t), UNCHANGED jump,
         chain' = [chain EXCEPT ![f] = [chain[f] EXCEPT ![t] = v]]
  PROVE  Writes(f, t, v)
<1>1. v \in Int
  BY RejectsLast, Lists DEF Bound, Absent
<1>2. [chain[f] EXCEPT ![t] = v] \in [Tables -> Int]
  BY <1>1 DEF Host
<1>3. chain' \in [Families -> [Tables -> Int]]
  BY <1>2 DEF Host
<1>4. /\ chain'[f]["nat"] = IF t = "nat" THEN v ELSE chain[f]["nat"]
      /\ chain'[f]["filter"] = IF t = "filter" THEN v ELSE chain[f]["filter"]
  BY DEF Host, Tables
<1>5. Others(f)
  BY DEF Host, Others
<1>6. chain'[f]["nat"] \in Absent..NatRules /\ chain'[f]["filter"] \in Absent..EgRules(f)
  BY <1>4 DEF Host, Bound, Tables
<1>7. Host'
  BY <1>3, <1>5, <1>6, OthersKept DEF Host
<1> QED BY <1>4, <1>5, <1>7 DEF Writes

LEMMA LinksWhen ==
  ASSUME Host, NEW f \in Families \ missing, UNCHANGED missing,
         NEW h \in Hooks, NEW v \in {0, 1}, UNCHANGED chain,
         jump' = [jump EXCEPT ![f] = [jump[f] EXCEPT ![h] = v]]
  PROVE  Links(f, h, v)
<1>1. [jump[f] EXCEPT ![h] = v] \in [Hooks -> {0, 1}]
  BY DEF Host
<1>2. jump' \in [Families -> [Hooks -> {0, 1}]]
  BY <1>1 DEF Host
<1>3. /\ jump'[f]["PREROUTING"] = IF h = "PREROUTING" THEN v ELSE jump[f]["PREROUTING"]
      /\ jump'[f]["INPUT"] = IF h = "INPUT" THEN v ELSE jump[f]["INPUT"]
      /\ jump'[f]["FORWARD"] = IF h = "FORWARD" THEN v ELSE jump[f]["FORWARD"]
  BY DEF Host, Hooks
<1>4. Others(f)
  BY DEF Host, Others
<1>5. Host'
  BY <1>2, <1>4, OthersKept DEF Host
<1> QED BY <1>3, <1>4, <1>5 DEF Links

\* What each command does where runNetfilter goes on after it.
LEMMA RanChain ==
  ASSUME Host, NEW f \in Families \ missing, UNCHANGED missing, NEW t \in Tables
  PROVE  /\ Ran(f, Cmd("-N", t, NoHook)) =>
              Writes(f, t, IF chain[f][t] = Absent THEN 0 ELSE chain[f][t])
         /\ Ran(f, Cmd("-F", t, NoHook)) => Writes(f, t, 0)
         /\ Ran(f, Cmd("-A", t, NoHook)) /\ chain[f][t] < Bound(f, t) =>
              Writes(f, t, chain[f][t] + 1)
         /\ Ran(f, Cmd("-X", t, NoHook)) /\ chain[f][t] = 0 /\ ~Linked(f, t) =>
              Writes(f, t, Absent)
<1>1. chain = [chain EXCEPT ![f] = [chain[f] EXCEPT ![t] = chain[f][t]]]
  BY DEF Host
<1>2. chain[f][t] \in Absent..Bound(f, t) /\ Bound(f, t) \in Nat
  BY Lists, RejectsLast DEF Host, Bound, Tables
<1>3. ASSUME Ran(f, Cmd("-N", t, NoHook))
      PROVE  Writes(f, t, IF chain[f][t] = Absent THEN 0 ELSE chain[f][t])
  <2> DEFINE v == IF chain[f][t] = Absent THEN 0 ELSE chain[f][t]
  <2>1. chain' = [chain EXCEPT ![f] = [chain[f] EXCEPT ![t] = v]] /\ UNCHANGED jump
    BY <1>1, <1>3 DEF Ran, Works, Effect, Tolerated, Cmd
  <2>2. v \in Absent..Bound(f, t)
    BY <1>2 DEF Absent
  <2> QED BY <2>1, <2>2, WritesWhen
<1>4. ASSUME Ran(f, Cmd("-F", t, NoHook)) PROVE Writes(f, t, 0)
  <2>1. chain' = [chain EXCEPT ![f] = [chain[f] EXCEPT ![t] = 0]] /\ UNCHANGED jump
    BY <1>4 DEF Ran, Works, Effect, Tolerated, Cmd
  <2>2. 0 \in Absent..Bound(f, t)
    BY <1>2 DEF Absent
  <2> QED BY <2>1, <2>2, WritesWhen
<1>5. ASSUME Ran(f, Cmd("-A", t, NoHook)), chain[f][t] < Bound(f, t)
      PROVE  Writes(f, t, chain[f][t] + 1)
  <2>1. chain' = [chain EXCEPT ![f] = [chain[f] EXCEPT ![t] = chain[f][t] + 1]] /\ UNCHANGED jump
    BY <1>5 DEF Ran, Works, Effect, Tolerated, Cmd
  <2>2. chain[f][t] + 1 \in Absent..Bound(f, t)
    BY <1>2, <1>5 DEF Absent
  <2> QED BY <2>1, <2>2, WritesWhen
<1>6. ASSUME Ran(f, Cmd("-X", t, NoHook)), chain[f][t] = 0, ~Linked(f, t)
      PROVE  Writes(f, t, Absent)
  <2>1. chain' = [chain EXCEPT ![f] = [chain[f] EXCEPT ![t] = Absent]] /\ UNCHANGED jump
    BY <1>6 DEF Ran, Works, Effect, Tolerated, Cmd
  <2>2. Absent \in Absent..Bound(f, t)
    BY <1>2 DEF Absent
  <2> QED BY <2>1, <2>2, WritesWhen
<1> QED BY <1>3, <1>4, <1>5, <1>6

LEMMA RanJump ==
  ASSUME Host, NEW f \in Families \ missing, UNCHANGED missing, NEW t \in Tables, NEW h \in Hooks
  PROVE  /\ Ran(f, Cmd("-D", t, h)) => Links(f, h, 0)
         /\ Ran(f, Cmd("-I", t, h)) /\ jump[f][h] = 0 => Links(f, h, 1)
<1>1. chain = [chain EXCEPT ![f] = [chain[f] EXCEPT ![t] = chain[f][t]]]
  BY DEF Host
<1>2. jump = [jump EXCEPT ![f] = [jump[f] EXCEPT ![h] = jump[f][h]]]
  BY DEF Host
<1>3. jump[f][h] \in {0, 1} /\ h # NoHook
  BY DEF Host, Hooks, NoHook
<1>4. ASSUME Ran(f, Cmd("-D", t, h)) PROVE Links(f, h, 0)
  <2>1. jump' = [jump EXCEPT ![f] = [jump[f] EXCEPT ![h] = 0]] /\ UNCHANGED chain
    <3>1. CASE jump[f][h] = 1
      BY <1>1, <1>3, <1>4, <3>1 DEF Ran, Works, Effect, Tolerated, Cmd
    <3>2. CASE jump[f][h] = 0
      BY <1>2, <1>4, <3>2 DEF Ran, Works, Effect, Tolerated, Cmd
    <3> QED BY <1>3, <3>1, <3>2
  <2> QED BY <2>1, LinksWhen
<1>5. ASSUME Ran(f, Cmd("-I", t, h)), jump[f][h] = 0 PROVE Links(f, h, 1)
  <2>1. jump' = [jump EXCEPT ![f] = [jump[f] EXCEPT ![h] = 1]] /\ UNCHANGED chain
    BY <1>1, <1>3, <1>5 DEF Ran, Works, Effect, Tolerated, Cmd
  <2> QED BY <2>1, LinksWhen
<1> QED BY <1>4, <1>5

LEMMA ConfigureStep ==
  ASSUME Host, NEW f \in Families \ missing, UNCHANGED missing,
         NEW k \in 0..(All("configure", f) - 1), Configured(f, k), Ran(f, Commands("configure", f)[k + 1])
  PROVE  Host' /\ Others(f) /\ Configured(f, k + 1)'
<1> DEFINE c == Commands("configure", f)[k + 1]
<1>1. /\ NatRules = 4 /\ EgRules(f) \in Nat
      /\ chain[f]["nat"] \in Absent..4 /\ chain[f]["filter"] \in Absent..EgRules(f)
  BY Lists, RejectsLast DEF Host
<1>2. "nat" \in Tables /\ "filter" \in Tables /\ Hooks = {"PREROUTING", "INPUT", "FORWARD"}
  BY DEF Tables, Hooks
<1>3. CASE k = 0
  <2>1. c = Cmd("-N", "nat", NoHook)
    BY <1>3, ConfigureAre
  <2>2. Writes(f, "nat", IF chain[f]["nat"] = Absent THEN 0 ELSE chain[f]["nat"])
    BY <1>2, <2>1, RanChain
  <2> QED BY <1>1, <1>3, <2>2 DEF Writes, Configured, Absent
<1>4. CASE k = 1
  <2>1. c = Cmd("-F", "nat", NoHook)
    BY <1>4, ConfigureAre
  <2>2. Writes(f, "nat", 0)
    BY <1>2, <2>1, RanChain
  <2> QED BY <1>1, <1>4, <2>2 DEF Writes, Configured, Absent
<1>5. CASE k = 2
  <2>1. c = Cmd("-D", "nat", "PREROUTING")
    BY <1>5, ConfigureAre
  <2>2. Links(f, "PREROUTING", 0)
    BY <1>2, <2>1, RanJump
  <2> QED BY <1>1, <1>5, <2>2 DEF Links, Configured, Absent
<1>6. CASE k = 3
  <2>1. c = Cmd("-I", "nat", "PREROUTING")
    BY <1>6, ConfigureAre
  <2>2. jump[f]["PREROUTING"] = 0
    BY <1>6 DEF Configured
  <2>3. Links(f, "PREROUTING", 1)
    BY <1>2, <2>1, <2>2, RanJump
  <2> QED BY <1>1, <1>6, <2>3 DEF Links, Configured, Absent
<1>7. CASE k \in 4..7
  <2>1. c = Cmd("-A", "nat", NoHook)
    <3>1. k + 1 \in 5..8
      BY <1>7
    <3> QED BY <3>1, ConfigureAre
  <2>2. chain[f]["nat"] < Bound(f, "nat")
    BY <1>1, <1>7 DEF Configured, Bound, All
  <2>3. Writes(f, "nat", chain[f]["nat"] + 1)
    BY <1>2, <2>1, <2>2, RanChain
  <2> QED BY <1>1, <1>7, <2>3 DEF Writes, Configured, Absent
<1>8. CASE k = 8
  <2>1. c = Cmd("-N", "filter", NoHook)
    BY <1>8, ConfigureAre
  <2>2. Writes(f, "filter", IF chain[f]["filter"] = Absent THEN 0 ELSE chain[f]["filter"])
    BY <1>2, <2>1, RanChain
  <2> QED BY <1>1, <1>8, <2>2 DEF Writes, Configured, Absent
<1>9. CASE k = 9
  <2>1. c = Cmd("-F", "filter", NoHook)
    BY <1>9, ConfigureAre
  <2>2. Writes(f, "filter", 0)
    BY <1>2, <2>1, RanChain
  <2> QED BY <1>1, <1>9, <2>2 DEF Writes, Configured, Absent
<1>10. CASE k = 10
  <2>1. c = Cmd("-D", "filter", "INPUT")
    BY <1>10, ConfigureAre
  <2>2. Links(f, "INPUT", 0)
    BY <1>2, <2>1, RanJump
  <2> QED BY SMTT(20), <1>1, <1>10, <2>2 DEF Links, Configured, Absent
<1>11. CASE k = 11
  <2>1. c = Cmd("-I", "filter", "INPUT")
    BY <1>11, ConfigureAre
  <2>2. jump[f]["INPUT"] = 0
    BY <1>11 DEF Configured
  <2>3. Links(f, "INPUT", 1)
    BY <1>2, <2>1, <2>2, RanJump
  <2> QED BY <1>1, <1>11, <2>3 DEF Links, Configured, Absent
<1>12. CASE k = 12
  <2>1. c = Cmd("-D", "filter", "FORWARD")
    BY <1>12, ConfigureAre
  <2>2. Links(f, "FORWARD", 0)
    BY <1>2, <2>1, RanJump
  <2> QED BY <1>1, <1>12, <2>2 DEF Links, Configured, Absent
<1>13. CASE k = 13
  <2>1. c = Cmd("-I", "filter", "FORWARD")
    BY <1>13, ConfigureAre
  <2>2. jump[f]["FORWARD"] = 0
    BY <1>13 DEF Configured
  <2>3. Links(f, "FORWARD", 1)
    BY <1>2, <2>1, <2>2, RanJump
  <2> QED BY <1>1, <1>13, <2>3 DEF Links, Configured, Absent
<1>14. CASE k >= 14
  <2>1. c = Cmd("-A", "filter", NoHook)
    <3>1. k + 1 \in 15..All("configure", f)
      BY <1>14, <1>1 DEF All
    <3> QED BY <3>1, ConfigureAre
  <2>2. chain[f]["filter"] < Bound(f, "filter")
    BY <1>1, <1>14 DEF Configured, Bound, All
  <2>3. Writes(f, "filter", chain[f]["filter"] + 1)
    BY <1>2, <2>1, <2>2, RanChain
  <2> QED BY <1>1, <1>14, <2>3 DEF Writes, Configured, Absent
<1> QED BY <1>1, <1>3, <1>4, <1>5, <1>6, <1>7, <1>8, <1>9, <1>10, <1>11, <1>12, <1>13, <1>14 DEF All

LEMMA CleanupStep ==
  ASSUME Host, NEW f \in Families \ missing, UNCHANGED missing,
         NEW k \in 0..(All("cleanup", f) - 1), Cleaned(f, k), Ran(f, Commands("cleanup", f)[k + 1])
  PROVE  Host' /\ Others(f) /\ Cleaned(f, k + 1)'
<1> DEFINE c == Commands("cleanup", f)[k + 1]
<1>1. /\ NatRules = 4 /\ EgRules(f) \in Nat
      /\ chain[f]["nat"] \in Absent..4 /\ chain[f]["filter"] \in Absent..EgRules(f)
  BY Lists, RejectsLast DEF Host
<1>2. "nat" \in Tables /\ "filter" \in Tables /\ Hooks = {"PREROUTING", "INPUT", "FORWARD"}
  BY DEF Tables, Hooks
<1>3. CASE k = 0
  <2>1. c = Cmd("-D", "nat", "PREROUTING")
    BY <1>3, CleanupAre
  <2>2. Links(f, "PREROUTING", 0)
    BY <1>2, <2>1, RanJump
  <2> QED BY <1>1, <1>3, <2>2 DEF Links, Cleaned, Absent
<1>4. CASE k = 1
  <2>1. c = Cmd("-F", "nat", NoHook)
    BY <1>4, CleanupAre
  <2>2. Writes(f, "nat", 0)
    BY <1>2, <2>1, RanChain
  <2> QED BY <1>1, <1>4, <2>2 DEF Writes, Cleaned, Absent
<1>5. CASE k = 2
  <2>1. c = Cmd("-X", "nat", NoHook)
    BY <1>5, CleanupAre
  <2>2. chain[f]["nat"] = 0 /\ ~Linked(f, "nat")
    BY <1>5 DEF Cleaned, Linked
  <2>3. Writes(f, "nat", Absent)
    BY <1>2, <2>1, <2>2, RanChain
  <2> QED BY <1>1, <1>5, <2>3 DEF Writes, Cleaned, Absent
<1>6. CASE k = 3
  <2>1. c = Cmd("-D", "filter", "INPUT")
    BY <1>6, CleanupAre
  <2>2. Links(f, "INPUT", 0)
    BY <1>2, <2>1, RanJump
  <2> QED BY <1>1, <1>6, <2>2 DEF Links, Cleaned, Absent
<1>7. CASE k = 4
  <2>1. c = Cmd("-D", "filter", "FORWARD")
    BY <1>7, CleanupAre
  <2>2. Links(f, "FORWARD", 0)
    BY <1>2, <2>1, RanJump
  <2> QED BY <1>1, <1>7, <2>2 DEF Links, Cleaned, Absent
<1>8. CASE k = 5
  <2>1. c = Cmd("-F", "filter", NoHook)
    BY <1>8, CleanupAre
  <2>2. Writes(f, "filter", 0)
    BY <1>2, <2>1, RanChain
  <2> QED BY <1>1, <1>8, <2>2 DEF Writes, Cleaned, Absent
<1>9. CASE k = 6
  <2>1. c = Cmd("-X", "filter", NoHook)
    BY <1>9, CleanupAre
  <2>2. chain[f]["filter"] = 0 /\ ~Linked(f, "filter")
    BY <1>9 DEF Cleaned, Linked
  <2>3. Writes(f, "filter", Absent)
    BY <1>2, <2>1, <2>2, RanChain
  <2> QED BY <1>1, <1>9, <2>3 DEF Writes, Cleaned, Absent
<1> QED BY <1>1, <1>3, <1>4, <1>5, <1>6, <1>7, <1>8, <1>9 DEF All

LEMMA ProgressStep ==
  ASSUME Host, NEW op \in {"configure", "cleanup"}, NEW f \in Families \ missing,
         UNCHANGED missing, NEW k \in 0..(All(op, f) - 1), Progress(op, f, k),
         Ran(f, Commands(op, f)[k + 1])
  PROVE  Host' /\ Others(f) /\ Progress(op, f, k + 1)'
<1>1. CASE op = "configure"
  BY <1>1, ConfigureStep DEF Progress
<1>2. CASE op = "cleanup"
  BY <1>2, CleanupStep DEF Progress
<1> QED BY <1>1, <1>2

-----------------------------------------------------------------------------
(* The inductive invariant.                                                *)

LEMMA CommandsAre ==
  ASSUME NEW op \in {"configure", "cleanup"}, NEW f \in Families
  PROVE  /\ Rest(Commands(op, f), op, f, 0) /\ Commands(op, f) \in Seq(AnyCmd)
         /\ All(op, f) \in Nat /\ \A i \in 1..All(op, f) : Commands(op, f)[i] \in AnyCmd
<1>1. Commands(op, f) \in Seq(AnyCmd) /\ Len(Commands(op, f)) = All(op, f)
  BY ConfigureAre, CleanupAre
<1>2. All(op, f) \in Nat
  BY RejectsLast DEF All
<1>3. \A i \in 1..All(op, f) : Commands(op, f)[i] \in AnyCmd /\ 0 + i = i
  BY <1>1
<1> QED BY <1>1, <1>2, <1>3 DEF Rest

LEMMA Begins ==
  ASSUME NEW op \in {"configure", "cleanup"}, NEW f \in Families, result' = "none",
         f = "v6" => Finished(op, "v4")',
         job' = [op |-> op, fam |-> f, left |-> Commands(op, f)]
  PROVE  Handler'
<1>1. Progress(op, f, 0)'
  BY DEF Progress, Configured, Cleaned
<1>2. 0 \in 0..All(op, f)
  BY CommandsAre
<1>3. Working(op, f, Commands(op, f))'
  BY <1>1, <1>2, CommandsAre DEF Working
<1> QED BY <1>3, CommandsAre DEF Handler

LEMMA NInvInit == Init => NInv
<1> SUFFICES ASSUME Init PROVE NInv
  OBVIOUS
<1>1. \A f \in Families : Cleaned(f, 7)
  BY DEF Init, Cleaned, Tables, Hooks
<1>2. ASSUME NEW f \in Families
      PROVE  chain[f]["nat"] \in Absent..NatRules /\ chain[f]["filter"] \in Absent..EgRules(f)
  BY RejectsLast, Lists DEF Init, Tables, Absent
<1>3. Host
  BY <1>1, <1>2 DEF Init, Host, Absent
<1>4. Handler /\ Outcome
  BY DEF Init, Handler, Outcome, ErrsOnlyOnMissing
<1> QED BY <1>3, <1>4 DEF NInv

LEMMA Untouched ==
  ASSUME NEW f, chain'[f] = chain[f], jump'[f] = jump[f], NEW op, NEW k, Progress(op, f, k)
  PROVE  Progress(op, f, k)'
BY DEF Progress, Configured, Cleaned

LEMMA Unmoved ==
  ASSUME UNCHANGED <<missing, chain, jump>>
  PROVE  /\ Host => Host'
         /\ \A op, f : Finished(op, f) => Finished(op, f)'
<1>1. Host => Host'
  BY DEF Host, Cleaned
<1> QED BY <1>1, Untouched DEF Finished

LEMMA RunStep == NInv /\ runNetfilter => NInv'
<1> SUFFICES ASSUME NInv, runNetfilter PROVE NInv'
  OBVIOUS
<1> USE DEF NInv
<1>1. PICK op \in {"configure", "cleanup"}, f \in Families, left \in Seq(AnyCmd) :
        job = [op |-> op, fam |-> f, left |-> left] /\ Working(op, f, left)
  BY DEF runNetfilter, Ready, Handler
<1>2. PICK k \in 0..All(op, f) : Rest(left, op, f, k) /\ Progress(op, f, k)
  BY <1>1 DEF Working
<1>3. left # <<>> /\ f \in Families \ missing /\ result = "none" /\ UNCHANGED missing
  BY <1>1 DEF runNetfilter, Ready, Working, conf
<1>4. k \in 0..(All(op, f) - 1) /\ Head(left) = Commands(op, f)[k + 1]
  BY <1>2, <1>3, CommandsAre DEF Rest
<1>5. Current = Commands(op, f)[k + 1]
  BY <1>1, <1>4 DEF Current
<1>6. faults \in Nat /\ faults' = faults
  BY DEF Outcome, runNetfilter, GoOn
<1>7. CASE Ran(f, Current) /\ GoOn
  <2>1. Host' /\ Others(f) /\ Progress(op, f, k + 1)'
    BY <1>2, <1>3, <1>4, <1>5, <1>7, ProgressStep
  <2>2. job' = [op |-> op, fam |-> f, left |-> Tail(left)] /\ result' = "none"
    BY <1>1, <1>3, <1>7 DEF GoOn
  <2>3. Tail(left) \in Seq(AnyCmd) /\ Rest(Tail(left), op, f, k + 1) /\ k + 1 \in 0..All(op, f)
    <3>1. Tail(left) \in Seq(AnyCmd) /\ Len(Tail(left)) = Len(left) - 1
          /\ \A i \in 1..Len(Tail(left)) : Tail(left)[i] = left[i + 1]
      BY <1>3
    <3>2. \A i \in 1..Len(Tail(left)) : i + 1 \in 1..Len(left) /\ k + (i + 1) = (k + 1) + i
      BY <3>1
    <3>3. k + 1 \in 0..All(op, f) /\ Len(Tail(left)) = All(op, f) - (k + 1)
      BY <1>2, <1>4, <3>1, CommandsAre DEF Rest
    <3> QED BY <1>2, <3>1, <3>2, <3>3 DEF Rest
  <2>4. f = "v6" => Finished(op, "v4")'
    BY <1>1, <1>3, <2>1, Untouched DEF Working, Finished, Others, Families
  <2>5. Working(op, f, Tail(left))'
    BY <2>1, <2>2, <2>3, <2>4 DEF Working
  <2>6. Handler'
    BY <2>2, <2>3, <2>5 DEF Handler
  <2>7. Outcome'
    BY <1>6, <2>2 DEF Outcome, ErrsOnlyOnMissing
  <2> QED BY <2>1, <2>6, <2>7
<1>8. CASE /\ ~Works(f, Current) /\ ~Tolerated(Current)
           /\ Return("error") /\ UNCHANGED <<chain, jump, faults>>
  <2>1. Current \in AnyCmd
    BY <1>4, <1>5, CommandsAre
  <2>2. chain[f][Current.table] = Absent /\ Current.table \in Tables
    BY <1>8, <2>1 DEF Works, Tolerated, AnyCmd
  <2>3. Outcome'
    BY <1>3, <1>6, <1>8, <2>2 DEF Outcome, ErrsOnlyOnMissing, Return
  <2>4. Host' /\ Handler'
    BY <1>3, <1>8, Unmoved DEF Handler, Return
  <2> QED BY <2>3, <2>4
<1> QED BY <1>1, <1>7, <1>8 DEF runNetfilter, Ran, GoOn

LEMMA NextFamilyStep == NInv /\ NextFamily => NInv'
<1> SUFFICES ASSUME NInv, NextFamily PROVE NInv'
  OBVIOUS
<1> USE DEF NInv
<1>1. PICK op \in {"configure", "cleanup"}, f \in Families, left \in Seq(AnyCmd) :
        job = [op |-> op, fam |-> f, left |-> left] /\ Working(op, f, left)
  BY DEF NextFamily, Handler
<1>2. Finished(op, f)
  <2>1. PICK k \in 0..All(op, f) : Rest(left, op, f, k) /\ Progress(op, f, k)
    BY <1>1 DEF Working
  <2>2. left = <<>> => k = All(op, f)
    BY <2>1, CommandsAre DEF Rest
  <2> QED BY <1>1, <2>1, <2>2 DEF NextFamily, Finished
<1>3. /\ UNCHANGED <<missing, chain, jump, faults, dual>>
      /\ f = "v6" => Finished(op, "v4")
      /\ result = "none"
  BY <1>1 DEF NextFamily, conf, Working
<1>4. Host' /\ faults' \in Nat /\ \A o, g : Finished(o, g) => Finished(o, g)'
  BY <1>3, Unmoved DEF Outcome
<1>5. CASE f = "v4" /\ (op = "cleanup" \/ dual)
  <2>1. job' = [op |-> op, fam |-> "v6", left |-> Commands(op, "v6")] /\ result' = "none"
    BY <1>1, <1>3, <1>5 DEF NextFamily
  <2>2. Handler'
    BY <1>2, <1>4, <1>5, <2>1, Begins DEF Families
  <2> QED BY <1>4, <2>1, <2>2 DEF Outcome, ErrsOnlyOnMissing
<1>6. CASE ~(f = "v4" /\ (op = "cleanup" \/ dual))
  <2>1. job' = NoJob /\ result' = IF op = "configure" THEN "configured" ELSE "cleaned"
    BY <1>1, <1>6 DEF NextFamily, Return
  <2>2. op = "configure" => \A g \in InUse : Finished(op, g)
    BY <1>2, <1>3, <1>6 DEF InUse, Families
  <2>3. op = "cleanup" => \A g \in Families : Finished(op, g)
    BY <1>2, <1>3, <1>6 DEF Families
  <2>4. InUse' = InUse
    BY <1>3 DEF InUse
  <2>5. Outcome'
    BY <1>4, <2>1, <2>2, <2>3, <2>4 DEF Outcome, ErrsOnlyOnMissing
  <2> QED BY <1>4, <2>1, <2>5 DEF Handler
<1> QED BY <1>5, <1>6

LEMMA NInvStep == NInv /\ [Next]_vars => NInv'
<1> SUFFICES ASSUME NInv, [Next]_vars PROVE NInv'
  OBVIOUS
<1>1. ASSUME NEW op \in {"configure", "cleanup"}, Start(op) PROVE NInv'
  <2>1. Host'
    BY <1>1, Unmoved DEF NInv, Start, conf
  <2>2. Handler'
    BY <1>1, Begins DEF Start, Families
  <2> QED BY <1>1, <2>1, <2>2 DEF NInv, Outcome, ErrsOnlyOnMissing, Start
<1>2. CASE runNetfilter
  BY <1>2, RunStep
<1>3. CASE NextFamily
  BY <1>3, NextFamilyStep
<1>4. CASE Failure
  <2>1. Host'
    BY <1>4, Unmoved DEF NInv, Failure, conf
  <2> QED BY <1>4, <2>1 DEF NInv, Failure, Return, Handler, Outcome, ErrsOnlyOnMissing
<1>5. CASE UNCHANGED vars
  <2>1. Host' /\ \A o, g : Finished(o, g) => Finished(o, g)'
    BY <1>5, Unmoved DEF NInv, vars, conf
  <2>2. Handler'
    <3>1. ASSUME NEW op, NEW f, NEW left, Working(op, f, left) PROVE Working(op, f, left)'
      BY <1>5, <2>1, <3>1, Untouched DEF Working, vars, conf
    <3> QED BY <1>5, <3>1 DEF NInv, vars, Handler
  <2>3. Outcome'
    BY <1>5, <2>1 DEF NInv, vars, conf, Outcome, ErrsOnlyOnMissing, InUse
  <2> QED BY <2>1, <2>2, <2>3 DEF NInv
<1> QED BY <1>1, <1>2, <1>3, <1>4, <1>5 DEF Next

LEMMA NInvariance == Spec => []NInv
BY NInvInit, NInvStep, PTL DEF Spec

\* configurePod returns success only with the chains of every family in use,
\* whose binary is there, complete and linked exactly once, so that every
\* packet the pod sends is decided on, whatever earlier installs, cleanups,
\* failures and crashes left behind.
THEOREM ConfigureCloses == Spec => []ConfiguredCloses
<1>1. NInv => ConfiguredCloses
  <2> SUFFICES ASSUME NInv, result = "configured", NEW f \in InUse \ missing
               PROVE  /\ \A h \in Hooks : jump[f][h] = 1
                      /\ \A c \in Range(Redirected) : AfterNat(f, New(c)).proxied
                      /\ \A c \in Classes :
                           Verdict(f, New(c)) =
                             IF {New(c), ToProxy(c)} \cap Allowed(f) # {} THEN "ACCEPT" ELSE "REJECT"
    BY DEF ConfiguredCloses
  <2>1. f \in Families /\ Configured(f, 14 + EgRules(f))
    BY DEF NInv, Outcome, Finished, Progress, All, InUse, Families
  <2>2. EgRules(f) \in Nat /\ EgRules(f) >= 8
    BY <2>1, RejectsLast
  <2>3. chain[f]["nat"] = NatRules /\ chain[f]["filter"] = EgRules(f)
    BY <2>1, <2>2 DEF Configured
  <2>4. \A h \in Hooks : jump[f][h] = 1
    BY <2>1, <2>2 DEF Configured, Hooks
  <2> QED BY <2>1, <2>3, <2>4, FullCloses
<1> QED BY <1>1, NInvariance, PTL

\* At no moment between two commands, nor after any failure or crash of the
\* plugin, does a chain reject the answers, the neighbour discovery or the
\* traffic to the proxy that a pod may always send.
THEOREM NeverCutOff == Spec => []AllowedNeverRejected
<1>1. NInv => AllowedNeverRejected
  BY PrefixHarmless DEF NInv, Host, AllowedNeverRejected
<1> QED BY <1>1, NInvariance, PTL

\* cleanupPod returns success only when no chain and no jump of the pod is left.
THEOREM CleanupLeavesNothing == Spec => []CleanedRemoves
<1>1. NInv => CleanedRemoves
  <2> SUFFICES ASSUME NInv, result = "cleaned", NEW f \in Families
               PROVE  /\ \A t \in Tables : chain[f][t] = Absent
                      /\ \A h \in Hooks : jump[f][h] = 0
    BY DEF CleanedRemoves
  <2>1. Cleaned(f, 7)
    BY DEF NInv, Outcome, Host, Finished, Progress, All
  <2> QED BY <2>1 DEF Cleaned, Tables, Hooks
<1> QED BY <1>1, NInvariance, PTL

\* Without a failing command or a crash, configurePod and cleanupPod return an
\* error only over a chain that is not there.
THEOREM ErrsOnlyThen == Spec => []ErrsOnlyOnMissing
<1>1. NInv => ErrsOnlyOnMissing
  BY DEF NInv, Outcome
<1> QED BY <1>1, NInvariance, PTL
=============================================================================
