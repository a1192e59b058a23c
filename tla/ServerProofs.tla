---------------------------- MODULE ServerProofs ----------------------------
(***************************************************************************)
(* What the servers of a proxy promise: the caches it answers from, its    *)
(* DNS server, and the reloading of its rules.                             *)
(***************************************************************************)
EXTENDS HTTPProxy, DiskCache, DnsServer, RuleReload, WellFoundedInduction, TLAPS

-----------------------------------------------------------------------------
(* The response cache keeps to the TTLs and each host to one certificate,  *)
(* for any clients, rules, URLs and TTLs.  Aged is why the TTL holds: what *)
(* an item has lived and what is left to it always make up the TTL of the  *)
(* rule that stored it.  SignedOnce is why there is one certificate: what  *)
(* was signed for a host is what is in the map.                            *)

Handshake == [pc : {"sign", "shaken"}, rule : Rules, cert : Nat]
Request ==
  [pc : {"lookup", "upstream", "body", "store", "done"}, rule : Rules, url : URLs,
   caching : BOOLEAN, ver : 0..MaxVersion]
Calls == {NoCall} \cup Handshake \cup Request

Shape ==
  /\ version \in [URLs -> 0..MaxVersion] /\ items \in [URLs -> Item \cup {NoItem}]
  /\ call \in [Clients -> Calls]
  /\ certs \in [Rules -> 0..MaxSigned] /\ signed \in [Rules -> 0..MaxSigned]

Aged ==
  \A u \in URLs : items[u] # NoItem => items[u].age + items[u].left = TTL[items[u].by]

SignedOnce ==
  /\ \A r \in Rules : certs[r] \in {0, 1} /\ signed[r] = certs[r]
  /\ OneCertificate

IInv == Shape /\ Aged /\ SignedOnce

LEMMA InvInit == Init => IInv
BY ProxyAssumption DEF Init, IInv, Shape, Calls, NoCall, Aged, SignedOnce, OneCertificate, At

\* A client in a handshake, or in a request, is in a call of that shape.
LEMMA CallShape ==
  ASSUME Shape, NEW c \in Clients
  PROVE  /\ call[c] \in Calls
         /\ call[c].pc \in {"sign", "shaken"} => call[c] \in Handshake
         /\ call[c].pc \in {"lookup", "upstream", "body", "store", "done"} => call[c] \in Request
BY DEF Shape, Calls, Handshake, Request, NoCall

\* A step of one client that leaves cache and certificates alone.
LEMMA OnlyCall ==
  ASSUME IInv, NEW c \in Clients, NEW new \in Calls, new.pc = "shaken" => new.cert = 1,
         call' = [call EXCEPT ![c] = new], UNCHANGED <<version, items, certs, signed>>
  PROVE  IInv'
BY DEF IInv, Shape, Aged, SignedOnce, OneCertificate, At

LEMMA InvStep == IInv /\ [Next]_vars => IInv'
<1> SUFFICES ASSUME IInv, [Next]_vars PROVE IInv'
  OBVIOUS
<1> USE ProxyAssumption
<1>0. Shape
  BY DEF IInv
<1>1. CASE UNCHANGED vars
  BY <1>1 DEF vars, IInv, Shape, Aged, SignedOnce, OneCertificate, At
<1>2. ASSUME NEW c \in Clients, NEW r \in Rules, GetCertificate(c, r) PROVE IInv'
  <2> DEFINE new == [pc |-> IF certs[r] = 0 THEN "sign" ELSE "shaken", rule |-> r, cert |-> certs[r]]
  <2>1. new \in Handshake /\ (new.pc = "shaken" => new.cert = 1)
    BY DEF IInv, Shape, SignedOnce, Handshake
  <2> QED BY <1>2, <2>1, OnlyCall DEF GetCertificate, Calls
<1>3. ASSUME NEW c \in Clients, NEW r \in Rules, NEW u \in URLs, NEW m \in {"GET", "POST"},
             ServeHTTP(c, r, u, m)
      PROVE  IInv'
  <2> DEFINE caching == m = "GET" /\ TTL[r] > 0
             new == [pc |-> IF caching THEN "lookup" ELSE "upstream",
                     rule |-> r, url |-> u, caching |-> caching, ver |-> 0]
  <2>1. caching \in BOOLEAN
    OBVIOUS
  <2>2. new \in Request /\ new.pc # "shaken"
    BY <2>1 DEF Request
  <2> QED BY <1>3, <2>2, OnlyCall DEF ServeHTTP, Calls
<1>4. ASSUME NEW c \in Clients, getCert(c) PROVE IInv'
  <2>1. call[c] \in Handshake
    BY <1>0, <1>4, CallShape DEF getCert, At
  <2> DEFINE r == call[c].rule
             shaken == [call[c] EXCEPT !.pc = "shaken", !.cert = 1]
  <2>2. r \in Rules /\ certs[r] \in {0, 1} /\ signed[r] = certs[r]
    BY <2>1 DEF Handshake, IInv, SignedOnce
  <2>3. shaken \in Calls /\ shaken.cert = 1
    BY <2>1 DEF Calls, Handshake
  <2>4. CASE call' = [call EXCEPT ![c] = NoCall] /\ UNCHANGED <<certs, signed>>
    BY <1>4, <2>4, OnlyCall DEF getCert, Calls, NoCall
  <2>5. CASE certs[r] = 1 /\ call' = [call EXCEPT ![c] = shaken] /\ UNCHANGED <<certs, signed>>
    BY <1>4, <2>3, <2>5, OnlyCall DEF getCert
  <2>6. CASE /\ certs[r] = 0 /\ signed' = [signed EXCEPT ![r] = 1]
             /\ certs' = [certs EXCEPT ![r] = 1] /\ call' = [call EXCEPT ![c] = shaken]
    <3>1. Shape'
      BY <1>0, <1>4, <2>2, <2>3, <2>6 DEF Shape, getCert
    <3>2. SignedOnce'
      BY <1>0, <2>2, <2>3, <2>6 DEF IInv, Shape, SignedOnce, OneCertificate, At
    <3> QED BY <1>4, <3>1, <3>2 DEF getCert, IInv, Aged
  <2>7. [call EXCEPT ![c].pc = "shaken", ![c].cert = 1] = [call EXCEPT ![c] = shaken]
    BY <1>0, <2>1 DEF Shape, Handshake
  <2> QED BY <1>4, <2>2, <2>4, <2>5, <2>6, <2>7 DEF getCert
<1>5. ASSUME NEW c \in Clients, LookUp(c) \/ RoundTrip(c) \/ ReadBody(c) \/ Finish(c) PROVE IInv'
  <2>1. UNCHANGED <<version, items, certs, signed>>
    BY <1>5 DEF LookUp, RoundTrip, ReadBody, Finish
  <2>2. CASE Finish(c)
    BY <2>1, <2>2, OnlyCall DEF Finish, Calls, NoCall
  <2>3. ASSUME call[c] \in Request,
               NEW pc \in {"upstream", "body", "store", "done"}, NEW ver \in 0..MaxVersion,
               call' = [call EXCEPT ![c] = [call[c] EXCEPT !.pc = pc, !.ver = ver]]
        PROVE  IInv'
    <3>1. [call[c] EXCEPT !.pc = pc, !.ver = ver] \in Request
      BY <2>3 DEF Request
    <3>2. [call[c] EXCEPT !.pc = pc, !.ver = ver].pc # "shaken"
      BY <2>3 DEF Request
    <3> QED BY <2>1, <2>3, <3>1, <3>2, OnlyCall DEF Calls
  <2>4. CASE LookUp(c)
    <3>1. call[c] \in Request
      BY <1>0, <2>4, CallShape DEF LookUp, At
    <3>2. CASE Get(call[c].url)
      <4>1. items[call[c].url].ver \in 0..MaxVersion
        BY <1>0, <3>1, <3>2 DEF Get, Shape, Item, Request
      <4>2. call' = [call EXCEPT ![c] = [call[c] EXCEPT !.pc = "done", !.ver = items[call[c].url].ver]]
        BY <2>4, <3>1, <3>2, <1>0 DEF LookUp, Request, Shape
      <4> QED BY <3>1, <4>1, <4>2, <2>3
    <3>3. CASE ~Get(call[c].url)
      <4>1. call' = [call EXCEPT ![c] = [call[c] EXCEPT !.pc = "upstream", !.ver = call[c].ver]]
        BY <2>4, <3>1, <3>3, <1>0 DEF LookUp, Goto, Request, Shape
      <4> QED BY <3>1, <4>1, <2>3 DEF Request
    <3> QED BY <3>2, <3>3
  <2>5. CASE RoundTrip(c)
    <3>1. call[c] \in Request
      BY <1>0, <2>5, CallShape DEF RoundTrip, At
    <3>2. version[call[c].url] \in 0..MaxVersion
      BY <1>0, <3>1 DEF Shape, Request
    <3>3. CASE call' = [call EXCEPT ![c] = NoCall]
      BY <2>1, <3>3, OnlyCall DEF Calls, NoCall
    <3>4. CASE call' = [call EXCEPT ![c].pc = "body", ![c].ver = version[call[c].url]]
      <4>1. call' = [call EXCEPT ![c] = [call[c] EXCEPT !.pc = "body", !.ver = version[call[c].url]]]
        BY <1>0, <3>1, <3>4 DEF Shape, Request
      <4> QED BY <3>1, <3>2, <4>1, <2>3
    <3> QED BY <2>5, <3>3, <3>4 DEF RoundTrip
  <2>6. CASE ReadBody(c)
    <3>1. call[c] \in Request
      BY <1>0, <2>6, CallShape DEF ReadBody, At
    <3>2. CASE call' = [call EXCEPT ![c] = NoCall]
      BY <2>1, <3>2, OnlyCall DEF Calls, NoCall
    <3>3. ASSUME NEW pc \in {"store", "done"}, Goto(c, pc) PROVE IInv'
      <4>1. call' = [call EXCEPT ![c] = [call[c] EXCEPT !.pc = pc, !.ver = call[c].ver]]
        BY <1>0, <3>1, <3>3 DEF Goto, Shape, Request
      <4> QED BY <3>1, <4>1, <2>3 DEF Request
    <3> QED BY <2>6, <3>2, <3>3 DEF ReadBody
  <2> QED BY <1>5, <2>2, <2>4, <2>5, <2>6
<1>6. ASSUME NEW c \in Clients, Set(c) PROVE IInv'
  <2>1. call[c] \in Request
    BY <1>0, <1>6, CallShape DEF Set, At
  <2> DEFINE r == call[c].rule
             new == [ver |-> call[c].ver, by |-> r, left |-> TTL[r], age |-> 0]
  <2>2. new \in Item /\ r \in Rules /\ call[c].url \in URLs
    BY <2>1 DEF Request, Item
  <2>3. items' = [items EXCEPT ![call[c].url] = new]
    BY <1>6 DEF Set
  <2>4. [call[c] EXCEPT !.pc = "done"] \in Request
    BY <2>1 DEF Request
  <2>5. call' = [call EXCEPT ![c] = [call[c] EXCEPT !.pc = "done"]]
    BY <1>0, <1>6, <2>1 DEF Set, Goto, Shape
  <2>6. Shape'
    BY <1>0, <1>6, <2>2, <2>3, <2>4, <2>5 DEF Set, Shape, Calls
  <2>7. Aged'
    BY <1>0, <2>2, <2>3 DEF IInv, Shape, Aged, Item
  <2>8. call'[c].pc = "done" /\ \A d \in Clients \ {c} : call'[d] = call[d]
    BY <1>0, <2>1, <2>5 DEF Shape, Request
  <2>9. SignedOnce'
    BY <1>6, <2>8 DEF Set, IInv, SignedOnce, OneCertificate, At
  <2> QED BY <2>6, <2>7, <2>9 DEF IInv
<1>7. CASE janitor
  BY <1>7 DEF janitor, IInv, Shape, Aged, SignedOnce, OneCertificate, At
<1>8. CASE Tick
  <2>1. ASSUME NEW u \in URLs, items[u] # NoItem, ~Expired(u)
        PROVE  /\ items'[u] \in Item /\ items'[u].by = items[u].by
               /\ items'[u].age = items[u].age + 1 /\ items'[u].left = items[u].left - 1
    <3>1. items[u] \in Item /\ items[u].age + items[u].left = TTL[items[u].by]
      BY <2>1 DEF IInv, Shape, Aged
    <3>2. items[u].left >= 0 /\ items[u].age <= TTL[items[u].by] /\ items[u].by \in Rules
      BY <2>1, <3>1 DEF Expired, Item
    <3>3. ~(items[u].age > TTL[items[u].by]) /\ items[u].age \in Nat /\ items[u].left \in Int
      BY <3>1, <3>2 DEF Item
    <3>4. items'[u] = [items[u] EXCEPT !.left = items[u].left - 1, !.age = items[u].age + 1]
      BY <1>8, <2>1, <3>3 DEF Tick
    <3> DEFINE left == items[u].left - 1
               age == items[u].age + 1
    <3>5. left \in Int /\ age \in Nat
      BY <3>3
    <3>6. items'[u] = [items[u] EXCEPT !.left = left, !.age = age]
      BY <3>4
    <3> HIDE DEF left, age
    <3>7. items'[u] \in Item /\ items'[u].by = items[u].by /\ items'[u].age = age /\ items'[u].left = left
      BY <3>1, <3>5, <3>6 DEF Item
    <3> QED BY <3>7 DEF left, age
  <2>2. ASSUME NEW u \in URLs, items[u] = NoItem \/ Expired(u) PROVE items'[u] = items[u]
    BY <1>8, <2>2 DEF Tick
  <2>3. items' \in [URLs -> Item \cup {NoItem}]
    <3> DEFINE new(u) ==
          IF items[u] = NoItem \/ Expired(u) THEN items[u]
          ELSE [items[u] EXCEPT !.left = @ - 1,
                                !.age = IF @ > TTL[items[u].by] THEN @ ELSE @ + 1]
    <3>1. items' = [u \in URLs |-> new(u)]
      BY <1>8 DEF Tick
    <3>2. ASSUME NEW u \in URLs PROVE new(u) \in Item \cup {NoItem}
      <4>1. new(u) = items'[u]
        BY <3>1
      <4> HIDE DEF new
      <4> QED BY <1>0, <2>1, <2>2, <4>1 DEF Shape
    <3> HIDE DEF new
    <3> QED BY <3>1, <3>2
  <2>4. Aged'
    <3> SUFFICES ASSUME NEW u \in URLs, items'[u] # NoItem
                 PROVE  items'[u].age + items'[u].left = TTL[items'[u].by]
      BY DEF Aged
    <3>1. CASE items[u] = NoItem \/ Expired(u)
      BY <2>2, <3>1 DEF IInv, Aged
    <3>2. CASE items[u] # NoItem /\ ~Expired(u)
      <4>1. items[u].age \in Int /\ items[u].left \in Int
        BY <1>0, <3>2 DEF Shape, Item
      <4> QED BY <2>1, <3>2, <4>1 DEF IInv, Aged
    <3> QED BY <3>1, <3>2
  <2> QED BY <1>8, <2>3, <2>4 DEF Tick, IInv, Shape, SignedOnce, OneCertificate, At
<1>9. ASSUME NEW u \in URLs, Change(u) PROVE IInv'
  BY <1>9 DEF Change, IInv, Shape, Aged, SignedOnce, OneCertificate, At
<1> QED BY <1>1, <1>2, <1>3, <1>4, <1>5, <1>6, <1>7, <1>8, <1>9 DEF Next, Continue

LEMMA Invariance == Spec => []IInv
BY InvInit, InvStep, PTL DEF Spec

\* Every call, item and certificate has its type, for any rules and clients.
THEOREM TypeCorrect == Spec => []TypeOK
<1>1. IInv => TypeOK
  BY DEF IInv, Shape, Calls, Handshake, Request, NoCall, TypeOK, Steps
<1> QED BY Invariance, <1>1, PTL

\* CachingTransport never answers from an item older than the TTL of the rule
\* that stored it.
THEOREM NeverOutlivesTTL == Spec => []WithinTTL
<1>1. IInv => WithinTTL
  <2> SUFFICES ASSUME IInv, NEW u \in URLs, Get(u) PROVE items[u].age <= TTL[items[u].by]
    BY DEF WithinTTL
  <2>1. items[u] \in Item /\ items[u].left >= 0 /\ items[u].age + items[u].left = TTL[items[u].by]
    BY DEF Get, Expired, IInv, Shape, Aged, Item
  <2> QED BY <2>1 DEF Item
<1> QED BY Invariance, <1>1, PTL

\* getCert hands all handshakes of a host one and the same certificate.
THEOREM SameCertificate == Spec => []OneCertificate
<1>1. IInv => OneCertificate
  BY DEF IInv, SignedOnce
<1> QED BY Invariance, <1>1, PTL

-----------------------------------------------------------------------------
(* The disk cache never holds anything but the last value put, for any     *)
(* callers, keys, values, times and numbers of crashes.  The invariant     *)
(* adds to that what kind of operation each caller may be in (DiskOps) and *)
(* that the write lock is exclusive, with a temporary file behind it       *)
(* (WriteLocked): without it two renames could use up one temporary file.  *)

File == [val : Values, mtime : 0..now]

DiskOps ==
  {NoOp} \cup [pc : {"chtimes", "open"}, key : Keys]
    \cup [pc : {"rename"}, key : Keys, val : Values]

DiskShape ==
  /\ files \in [Keys -> File \cup {NoFile}] /\ op \in [Callers -> DiskOps]
  /\ temps \in Nat /\ removing \in [Keys -> 0..MaxRemovers]
  /\ last \in [Keys -> Values \cup {NoFile}]
  /\ now \in 0..MaxTime /\ crashes \in 0..MaxCrashes

WriteLocked ==
  \A c \in Callers : op[c].pc = "rename" =>
    temps > 0 /\ \A d \in Callers \ {c} : op[d] = NoOp

DiskInv == DiskShape /\ WriteLocked /\ HoldsLastPut

LEMMA DiskInvInit == DiskInit => DiskInv
BY DiskAssumption DEF DiskInit, DiskInv, DiskShape, WriteLocked, HoldsLastPut, NoOp, DiskOps

LEMMA DiskInvStep == DiskInv /\ [DiskNext]_diskVars => DiskInv'
<1> SUFFICES ASSUME DiskInv, [DiskNext]_diskVars PROVE DiskInv'
  OBVIOUS
<1> USE DiskAssumption
<1> USE DEF DiskInv, DiskShape, File, NoOp
<1>1. CASE UNCHANGED diskVars
  BY <1>1 DEF diskVars, WriteLocked, HoldsLastPut, DiskOps
<1>2. ASSUME NEW c \in Callers, NEW k \in Keys, GetStat(c, k) PROVE DiskInv'
  <2>1. DiskShape'
    BY <1>2 DEF GetStat, DiskOps
  <2>2. WriteLocked'
    BY <1>2 DEF GetStat, WriteLocked, NoWriter, DiskOps
  <2> QED BY <1>2, <2>1, <2>2 DEF GetStat, HoldsLastPut
<1>3. ASSUME NEW c \in Callers, NEW k \in Keys, NEW v \in Values, PutWrite(c, k, v) PROVE DiskInv'
  <2>1. DiskShape'
    BY <1>3 DEF PutWrite, DiskOps
  <2>2. WriteLocked'
    BY <1>3 DEF PutWrite, WriteLocked, Unlocked
  <2> QED BY <1>3, <2>1, <2>2 DEF PutWrite, HoldsLastPut
<1>4. ASSUME NEW c \in Callers, GetChtimes(c) PROVE DiskInv'
  <2>1. op[c] \in [pc : {"chtimes", "open"}, key : Keys]
    BY <1>4 DEF GetChtimes, DiskOps
  <2>2. op' \in [Callers -> DiskOps]
    BY <1>4, <2>1 DEF GetChtimes, DiskOps
  <2>3. DiskShape'
    BY <1>4, <2>1, <2>2 DEF GetChtimes
  <2>4. WriteLocked'
    BY <1>4, <2>1 DEF GetChtimes, WriteLocked
  <2>5. HoldsLastPut'
    BY <1>4, <2>1 DEF GetChtimes, HoldsLastPut
  <2> QED BY <2>3, <2>4, <2>5
<1>5. ASSUME NEW c \in Callers, GetOpen(c) PROVE DiskInv'
  BY <1>5 DEF GetOpen, DiskOps, WriteLocked, HoldsLastPut
<1>6. ASSUME NEW c \in Callers, PutRename(c) PROVE DiskInv'
  <2>1. op[c] \in [pc : {"rename"}, key : Keys, val : Values] /\ temps > 0
    BY <1>6 DEF PutRename, DiskOps, WriteLocked
  <2>2. DiskShape'
    BY <1>6, <2>1 DEF PutRename, DiskOps
  <2>3. WriteLocked'
    BY <1>6 DEF PutRename, WriteLocked
  <2>4. HoldsLastPut'
    BY <1>6, <2>1 DEF PutRename, HoldsLastPut
  <2> QED BY <2>2, <2>3, <2>4
<1>7. ASSUME NEW c \in Callers, PutFail(c) PROVE DiskInv'
  BY <1>7 DEF PutFail, DiskOps, WriteLocked, HoldsLastPut
<1>8. ASSUME NEW k \in Keys, Delete(k) PROVE DiskInv'
  BY <1>8 DEF Delete, WriteLocked, HoldsLastPut
<1>9. ASSUME NEW k \in Keys, RemoveExpired(k) PROVE DiskInv'
  BY <1>9 DEF RemoveExpired, WriteLocked, HoldsLastPut
<1>10. CASE Janitor
  BY <1>10 DEF Janitor, WriteLocked, HoldsLastPut
<1>11. CASE DiskTick
  BY <1>11 DEF DiskTick, WriteLocked, HoldsLastPut
<1>12. CASE Crash
  BY <1>12 DEF Crash, DiskOps, WriteLocked, HoldsLastPut
<1> QED BY <1>1, <1>2, <1>3, <1>4, <1>5, <1>6, <1>7, <1>8, <1>9, <1>10, <1>11, <1>12
        DEF DiskNext, DiskContinue

LEMMA DiskInvariance == DiskSpec => []DiskInv
BY DiskInvInit, DiskInvStep, PTL DEF DiskSpec

\* The state keeps its type: in particular a Put finds the temporary file it
\* made, since no two hold the lock of cache.go at once.
THEOREM DiskTypeCorrect == DiskSpec => []DiskTypeOK
<1>1. DiskInv => DiskTypeOK
  BY DEF DiskInv, DiskShape, File, DiskOps, NoOp, DiskTypeOK
<1> QED BY DiskInvariance, <1>1, PTL

\* A file of the disk cache holds the value last put under its key and not
\* deleted, whatever Open, Put, Delete, the janitor, the removing goroutines
\* and crashes do.
THEOREM NeverAnotherValue == DiskSpec => []HoldsLastPut
<1>1. DiskInv => HoldsLastPut
  BY DEF DiskInv
<1> QED BY DiskInvariance, <1>1, PTL

-----------------------------------------------------------------------------
(* Failover and truncation of the DNS server, for any queries and any      *)
(* number of upstream servers.  Progress ties what a query has been        *)
(* through to where forward stands: the servers before the current one     *)
(* have failed it, and no other has.                                       *)

Query ==
  [pc : {"handle", "dial", "udp", "tcp", "got", "done", "dropped"},
   tcp : BOOLEAN, edns : BOOLEAN, server : 1..NServers + 1, answer : Answers, size : Sizes]

DnsShape ==
  /\ action \in Actions /\ started \in {"no", "yes", "closed"}
  /\ failed \in [Queries -> SUBSET (1..NServers)]
  /\ query \in [Queries -> Query \cup {None}]

Asking == {"handle", "dial", "udp", "tcp"}

\* What a query in state q has been through, if f are the servers that failed.
Progress(q, f) ==
  /\ q.pc \in Asking => f = 1..(q.server - 1) /\ q.answer = "empty"
  /\ q.pc \in {"udp", "tcp"} => q.server <= NServers
  /\ q.answer = "servfail" => f = 1..NServers
  /\ q.pc = "done" /\ ~q.tcp /\ ~q.edns => q.size # "large"

DnsInv ==
  /\ DnsShape
  /\ \A x \in Queries : /\ query[x] # None => Progress(query[x], failed[x])
                        /\ query[x] = None => failed[x] = {}

LEMMA DnsInvInit == DnsInit => DnsInv
BY DEF DnsInit, DnsInv, DnsShape

\* A query that is under way is a record, and None is not.
LEMMA InQuery ==
  ASSUME DnsShape, NEW x \in Queries
  PROVE  /\ query[x].pc # "none" => query[x] \in Query
         /\ \A q \in Query : q # None
BY DEF DnsShape, Query, None

\* A step of one query that leaves the others alone.
LEMMA OnlyQuery ==
  ASSUME DnsInv, NEW x \in Queries, NEW q \in Query, NEW f \in SUBSET (1..NServers),
         Progress(q, f), query' = [query EXCEPT ![x] = q],
         failed' = [failed EXCEPT ![x] = f], UNCHANGED <<action, started>>
  PROVE  DnsInv'
<1>1. DnsShape'
  BY DEF DnsInv, DnsShape
<1>2. ASSUME NEW y \in Queries
      PROVE  /\ query'[y] # None => Progress(query'[y], failed'[y])
             /\ query'[y] = None => failed'[y] = {}
  <2>1. CASE y = x
    BY <2>1, InQuery DEF DnsInv, DnsShape
  <2>2. CASE y # x
    BY <2>2 DEF DnsInv, DnsShape
  <2> QED BY <2>1, <2>2
<1> QED BY <1>1, <1>2 DEF DnsInv

\* The same, when no server has failed the query in this step.
LEMMA OnlyQueryKeeps ==
  ASSUME DnsInv, NEW x \in Queries, NEW q \in Query, Progress(q, failed[x]),
         query' = [query EXCEPT ![x] = q], UNCHANGED <<action, started, failed>>
  PROVE  DnsInv'
<1>1. failed' = [failed EXCEPT ![x] = failed[x]] /\ failed[x] \in SUBSET (1..NServers)
  BY DEF DnsInv, DnsShape
<1> QED BY <1>1, OnlyQuery

\* A reply of this server, or of the one that was asked.
LEMMA ReplyStep ==
  ASSUME DnsInv, NEW x \in Queries, query[x].pc \in Asking,
         NEW answer \in Answers, answer = "servfail" => failed[x] = 1..NServers,
         NEW size \in Sizes, Reply(x, answer, size), UNCHANGED <<action, started, failed>>
  PROVE  DnsInv'
<1> DEFINE q == [query[x] EXCEPT !.pc = "got", !.answer = answer, !.size = size]
<1>1. query[x] \in Query
  BY InQuery DEF DnsInv, Asking
<1>2. q \in Query /\ Progress(q, failed[x])
  BY <1>1 DEF Query, Progress, Asking
<1>3. query' = [query EXCEPT ![x] = q]
  BY <1>1 DEF Reply, DnsInv, DnsShape, Query
<1> QED BY <1>2, <1>3, OnlyQueryKeeps

\* The query moves on to the next server.
LEMMA NextServerStep ==
  ASSUME DnsInv, NEW x \in Queries, query[x].pc \in Asking, query[x].server <= NServers,
         NextServer(x)
  PROVE  DnsInv'
<1> DEFINE s == query[x].server
           q == [query[x] EXCEPT !.pc = "dial", !.server = s + 1]
           f == failed[x] \cup {s}
<1>1. query[x] \in Query /\ query[x] # None
  BY InQuery DEF DnsInv, Asking
<1>2. s \in 1..NServers /\ failed[x] = 1..(s - 1) /\ query[x].answer = "empty"
  BY <1>1, DnsAssumption DEF DnsInv, Progress, Query
<1>3. f = 1..((s + 1) - 1) /\ f \in SUBSET (1..NServers) /\ s + 1 \in 1..NServers + 1
  BY <1>2, DnsAssumption
<1>4. q \in Query /\ q.pc = "dial" /\ q.server = s + 1 /\ q.answer = "empty"
  BY <1>1, <1>2, <1>3 DEF Query
<1>5. Progress(q, f)
  BY <1>3, <1>4 DEF Progress, Asking
<1>6. query' = [query EXCEPT ![x] = q] /\ failed' = [failed EXCEPT ![x] = f]
  BY <1>1 DEF NextServer, DnsInv, DnsShape, Query
<1>7. UNCHANGED <<action, started>>
  BY DEF NextServer
<1> HIDE DEF q, f
<1> QED BY <1>3, <1>4, <1>5, <1>6, <1>7, OnlyQuery

\* The query goes on with the server it is at.
LEMMA SameServerStep ==
  ASSUME DnsInv, NEW x \in Queries, query[x].pc \in Asking, NEW pc \in Asking \cup {"dropped"},
         pc \in {"udp", "tcp"} => query[x].server <= NServers,
         query' = [query EXCEPT ![x].pc = pc], UNCHANGED <<action, started, failed>>
  PROVE  DnsInv'
<1> DEFINE q == [query[x] EXCEPT !.pc = pc]
<1>1. query[x] \in Query /\ query[x] # None
  BY InQuery DEF DnsInv, Asking
<1>2. q \in Query /\ Progress(q, failed[x])
  BY <1>1 DEF DnsInv, Query, Progress, Asking
<1>3. query' = [query EXCEPT ![x] = q]
  BY <1>1 DEF DnsInv, DnsShape, Query
<1> QED BY <1>2, <1>3, OnlyQueryKeeps

LEMMA DnsInvStep == DnsInv /\ [DnsNext]_dnsVars => DnsInv'
<1> SUFFICES ASSUME DnsInv, [DnsNext]_dnsVars PROVE DnsInv'
  OBVIOUS
<1>1. CASE UNCHANGED dnsVars
  BY <1>1 DEF dnsVars, DnsInv, DnsShape
<1>2. CASE Start \/ Shutdown
  BY <1>2 DEF Start, Shutdown, DnsInv, DnsShape
<1>3. ASSUME NEW x \in Queries, NEW tcp \in BOOLEAN, NEW edns \in BOOLEAN, Receive(x, tcp, edns)
      PROVE  DnsInv'
  <2> DEFINE q == [pc |-> "handle", tcp |-> tcp, edns |-> edns, server |-> 1,
                   answer |-> "empty", size |-> "small"]
  <2>1. q \in Query /\ Progress(q, {})
    BY DnsAssumption DEF Query, Answers, Sizes, Progress, Asking
  <2>2. failed[x] = {} /\ query' = [query EXCEPT ![x] = q] /\ UNCHANGED <<action, started, failed>>
    BY <1>3 DEF Receive, DnsInv
  <2> HIDE DEF q
  <2> QED BY <2>1, <2>2, OnlyQueryKeeps
<1>4. ASSUME NEW x \in Queries, handleQuery(x) PROVE DnsInv'
  <2>1. query[x].pc \in Asking /\ UNCHANGED <<action, started, failed>>
    BY <1>4 DEF handleQuery, AtStage, Asking
  <2>2. CASE \E a \in {"empty", "proxy", "nodata", "nxdomain"} : Reply(x, a, "small")
    BY <2>1, <2>2, ReplyStep DEF Answers, Sizes
  <2>3. CASE \E pc \in {"dropped", "dial"} : query' = [query EXCEPT ![x].pc = pc]
    BY <2>1, <2>3, SameServerStep DEF Asking
  <2> QED BY <1>4, <2>2, <2>3 DEF handleQuery
<1>5. ASSUME NEW x \in Queries, Exhausted(x) PROVE DnsInv'
  <2>1. query[x].pc \in Asking /\ query[x].server > NServers
    BY <1>5 DEF Exhausted, AtStage, Asking
  <2>2. query[x] \in Query /\ query[x] # None
    BY <2>1, InQuery DEF DnsInv, Asking
  <2>3. failed[x] = 1..NServers
    <3>1. query[x].server \in 1..NServers + 1 /\ failed[x] = 1..(query[x].server - 1)
      BY <2>1, <2>2 DEF DnsInv, Progress, Query
    <3> QED BY <2>1, <3>1, DnsAssumption
  <2> QED BY <1>5, <2>1, <2>3, ReplyStep DEF Exhausted, Answers, Sizes
<1>6. ASSUME NEW x \in Queries, Dial(x) PROVE DnsInv'
  <2>1. query[x].pc \in Asking /\ query[x].server <= NServers
    BY <1>6 DEF Dial, AtStage, Asking
  <2>2. CASE NextServer(x)
    BY <2>1, <2>2, NextServerStep
  <2>3. CASE /\ query' = [query EXCEPT ![x].pc = IF query[x].tcp THEN "tcp" ELSE "udp"]
             /\ UNCHANGED <<action, started, failed>>
    BY <2>1, <2>3, SameServerStep DEF Asking
  <2> QED BY <1>6, <2>2, <2>3 DEF Dial
<1>7. ASSUME NEW x \in Queries, ReadUDP(x) \/ TimeoutUDP(x) \/ ReadTCP(x) PROVE DnsInv'
  <2>1. query[x].pc \in {"udp", "tcp"}
    BY <1>7 DEF ReadUDP, TimeoutUDP, ReadTCP, AtStage
  <2>2. query[x].pc \in Asking /\ query[x].server <= NServers
    <3>1. query[x] \in Query /\ query[x] # None
      BY <2>1, InQuery DEF DnsInv
    <3> QED BY <2>1, <3>1 DEF DnsInv, Progress, Asking
  <2>3. CASE NextServer(x)
    BY <2>2, <2>3, NextServerStep
  <2>4. CASE /\ \E size \in Sizes : Reply(x, "upstream", size)
             /\ UNCHANGED <<action, started, failed>>
    BY <2>2, <2>4, ReplyStep DEF Answers
  <2>5. CASE query' = [query EXCEPT ![x].pc = "tcp"] /\ UNCHANGED <<action, started, failed>>
    BY <2>2, <2>5, SameServerStep DEF Asking
  <2> QED BY <1>7, <2>3, <2>4, <2>5 DEF ReadUDP, TimeoutUDP, ReadTCP
<1>8. ASSUME NEW x \in Queries, Send(x) PROVE DnsInv'
  <2> DEFINE cut == query[x].size = "large" /\ ~query[x].tcp /\ ~query[x].edns
             pc == IF started = "yes" \/ query[x].tcp THEN "done" ELSE "dropped"
             answer == IF cut THEN "truncated" ELSE query[x].answer
             size == IF cut THEN "small" ELSE query[x].size
             q == [query[x] EXCEPT !.pc = pc, !.answer = answer, !.size = size]
  <2>1. query[x] \in Query /\ query[x] # None
    BY <1>8, InQuery DEF DnsInv, Send, AtStage
  <2>2. pc \in {"done", "dropped"} /\ answer \in Answers /\ size \in Sizes
    BY <2>1 DEF Query, Answers, Sizes
  <2>3. /\ answer = "servfail" => failed[x] = 1..NServers
        /\ ~query[x].tcp /\ ~query[x].edns => size # "large"
    BY <2>1 DEF DnsInv, Progress
  <2>4. query' = [query EXCEPT ![x] = q] /\ UNCHANGED <<action, started, failed>>
    BY <1>8, <2>1 DEF Send, DnsInv, DnsShape, Query
  <2> HIDE DEF pc, answer, size
  <2>5. /\ q \in Query /\ q.pc = pc /\ q.answer = answer /\ q.size = size
        /\ q.tcp = query[x].tcp /\ q.edns = query[x].edns
    BY <2>1, <2>2 DEF Query
  <2>6. Progress(q, failed[x])
    BY <2>2, <2>3, <2>5 DEF Progress, Asking
  <2> HIDE DEF q
  <2> QED BY <2>4, <2>5, <2>6, OnlyQueryKeeps
<1>9. ASSUME NEW x \in Queries, Forget(x) PROVE DnsInv'
  BY <1>9 DEF Forget, DnsInv, DnsShape
<1> QED BY <1>1, <1>2, <1>3, <1>4, <1>5, <1>6, <1>7, <1>8, <1>9 DEF DnsNext, Serve

LEMMA DnsInvariance == DnsSpec => []DnsInv
BY DnsInvInit, DnsInvStep, PTL DEF DnsSpec

\* Queries keep their type; forward never counts past the server after the last.
THEOREM DnsTypeCorrect == DnsSpec => []DnsTypeOK
<1>1. DnsInv => DnsTypeOK
  BY DEF DnsInv, DnsShape, Query, DnsTypeOK
<1> QED BY DnsInvariance, <1>1, PTL

\* forward reports a failure only when every upstream server has failed.
THEOREM EveryServerTried == DnsSpec => []FailsOver
<1>1. DnsInv => FailsOver
  BY DEF DnsInv, Progress, FailsOver
<1> QED BY DnsInvariance, <1>1, PTL

\* A UDP client without EDNS is never sent a large answer that unpacks.
THEOREM NeverTooLarge == DnsSpec => []FitsClient
<1>1. DnsInv => FitsClient
  BY DEF DnsInv, Progress, FitsClient
<1> QED BY DnsInvariance, <1>1, PTL

-----------------------------------------------------------------------------
(* Reloading is all or nothing, for any files, hosts and contents, and     *)
(* any edits and signals meanwhile.  AllOrNothing is about the one step    *)
(* that swaps the table in; Collected says of every step of the scan       *)
(* before it what the table under construction already has.                *)

Content == Contents \cup {Absent, Bad}

ReloadShape ==
  /\ dir \in [Files -> Content] /\ proc \in {"starting", "loaded", "running", "exited"}
  /\ pending \in BOOLEAN /\ told \in BOOLEAN /\ steady \subseteq Files
  /\ DOMAIN routes = Hosts /\ edits \in 0..MaxEdits
  /\ scan = [left |-> scan.left, new |-> scan.new, errs |-> scan.errs, on |-> scan.on]
  /\ DOMAIN scan.new = Hosts /\ scan.left \subseteq Files
  /\ scan.errs \in BOOLEAN /\ scan.on \in BOOLEAN

\* The content of file f is good and has its hosts in the table.
Covered(f, table) ==
  /\ dir[f] # Bad
  /\ dir[f] # Absent => \A h \in Hosts : dir[f][h] # NoRule => table[h] # NoRule

Collected ==
  scan.on /\ ~scan.errs => \A f \in steady \ scan.left : Covered(f, scan.new)

ReloadInv == ReloadShape /\ Collected

LEMMA ReloadInvInit == ReloadInit => ReloadInv
<1> SUFFICES ASSUME ReloadInit PROVE ReloadInv
  OBVIOUS
<1>1. /\ scan.left = {} /\ scan.new = Empty /\ scan.errs = FALSE /\ scan.on = FALSE
      /\ scan = [left |-> scan.left, new |-> scan.new, errs |-> scan.errs, on |-> scan.on]
  BY DEF ReloadInit, NoScan
<1>2. DOMAIN scan.new = Hosts /\ DOMAIN routes = Hosts
  BY <1>1 DEF ReloadInit, Empty
<1>3. edits \in 0..MaxEdits
  BY ReloadAssumption DEF ReloadInit
<1> QED BY <1>1, <1>2, <1>3 DEF ReloadInit, ReloadInv, ReloadShape, Content, Collected

\* loadRules finds a first file among those that are left.
LEMMA FirstOne ==
  ASSUME NEW S, S \subseteq Files, S # {}
  PROVE  First(S) \in S
<1>1. S \subseteq Nat
  BY ReloadAssumption DEF Files
<1> DEFINE R == OpToRel(<, Nat)
<1>2. IsWellFoundedOn(R, Nat)
  BY NatLessThanWellFounded
<1>3. ASSUME NEW g \in Nat, NEW f \in Nat, <<g, f>> \notin R PROVE f <= g
  BY <1>3 DEF OpToRel
<1> HIDE DEF R
<1>4. \E f \in S : \A g \in S : ~(<<g, f>> \in R)
  BY <1>1, <1>2, WFMin
<1>5. \E f \in S : \A g \in S : f <= g
  BY <1>1, <1>3, <1>4
<1> QED BY <1>5 DEF First

LEMMA ReloadInvStep == ReloadInv /\ [ReloadNext]_reloadVars => ReloadInv'
<1> SUFFICES ASSUME ReloadInv, [ReloadNext]_reloadVars PROVE ReloadInv'
  OBVIOUS
<1> USE ReloadAssumption
<1>1. CASE UNCHANGED reloadVars
  BY <1>1 DEF reloadVars, ReloadInv, ReloadShape, Collected, Covered
<1>2. ASSUME NEW f \in Files, NEW c \in Content, Edit(f, c) PROVE ReloadInv'
  <2>1. ReloadShape'
    <3>1. dir' \in [Files -> Content] /\ UNCHANGED <<proc, pending, scan, routes>>
      BY <1>2 DEF Edit, ReloadInv, ReloadShape
    <3>2. told' \in BOOLEAN /\ steady' \subseteq Files
      BY <1>2 DEF Edit, ReloadInv, ReloadShape
    <3>3. edits' \in 0..MaxEdits
      BY <1>2 DEF Edit, ReloadInv, ReloadShape
    <3> QED BY <3>1, <3>2, <3>3 DEF ReloadInv, ReloadShape
  <2>2. \A g \in steady' : g \in steady /\ dir'[g] = dir[g]
    BY <1>2 DEF Edit, ReloadInv, ReloadShape
  <2>3. Collected'
    BY <1>2, <2>2 DEF Edit, ReloadInv, Collected, Covered
  <2> QED BY <2>1, <2>3 DEF ReloadInv
<1>3. CASE Sighup
  BY <1>3 DEF Sighup, ReloadInv, ReloadShape, Collected, Covered
<1>4. CASE Begin
  <2>1. /\ scan'.left = {f \in Files : dir[f] # Absent} /\ scan'.new = Empty
        /\ scan'.errs = FALSE /\ scan'.on = TRUE
        /\ scan' = [left |-> scan'.left, new |-> scan'.new, errs |-> scan'.errs, on |-> scan'.on]
    BY <1>4 DEF Begin, NoScan
  <2>2. ReloadShape'
    BY <1>4, <2>1 DEF Begin, ReloadInv, ReloadShape, Empty
  <2>3. \A f \in steady' \ scan'.left : dir'[f] = Absent
    BY <1>4, <2>1 DEF Begin
  <2>4. Collected'
    BY <2>3 DEF Collected, Covered
  <2> QED BY <2>2, <2>4 DEF ReloadInv
<1>5. CASE ReadFile
  <2> DEFINE f == First(scan.left)
             bad == dir[f] \in {Absent, Bad}
             new == IF bad THEN scan.new ELSE Merge(scan.new, dir[f])
  <2>1. f \in scan.left /\ f \in Files
    BY <1>5, FirstOne DEF ReadFile, ReloadInv, ReloadShape
  <2>2. /\ scan'.left = scan.left \ {f} /\ scan'.new = new
        /\ scan'.errs = (scan.errs \/ bad) /\ scan'.on = scan.on
        /\ scan' = [left |-> scan'.left, new |-> scan'.new, errs |-> scan'.errs, on |-> scan'.on]
    BY <1>5 DEF ReadFile, ReloadInv, ReloadShape
  <2>3. DOMAIN new = Hosts
    BY DEF ReloadInv, ReloadShape, Merge
  <2>4. ReloadShape'
    BY <1>5, <2>1, <2>2, <2>3 DEF ReadFile, ReloadInv, ReloadShape
  <2>5. UNCHANGED <<dir, steady>>
    BY <1>5 DEF ReadFile
  <2>6. ASSUME scan'.on, ~scan'.errs, NEW g \in steady' \ scan'.left PROVE Covered(g, new)
    <3>1. ~bad /\ ~scan.errs /\ scan.on
      BY <2>2, <2>6
    <3>2. new = Merge(scan.new, dir[f])
      BY <3>1
    <3>3. CASE g = f
      BY <2>5, <3>1, <3>2, <3>3 DEF Covered, Merge
    <3>4. CASE g # f
      <4>1. Covered(g, scan.new)
        BY <2>2, <2>5, <2>6, <3>1, <3>4 DEF ReloadInv, Collected
      <4> QED BY <2>5, <3>2, <4>1 DEF Covered, Merge
    <3> QED BY <3>3, <3>4
  <2> HIDE DEF new, bad
  <2>7. Collected'
    BY <2>2, <2>5, <2>6 DEF Collected, Covered
  <2> QED BY <2>4, <2>7 DEF ReloadInv
<1>6. CASE FinishLoad
  <2>1. scan' = NoScan /\ UNCHANGED <<dir, pending, edits, told, steady>>
    BY <1>6 DEF FinishLoad
  <2>2. DOMAIN routes' = Hosts /\ proc' \in {"starting", "loaded", "running", "exited"}
    BY <1>6 DEF FinishLoad, ReloadInv, ReloadShape
  <2>3. ReloadShape'
    BY <2>1, <2>2 DEF ReloadInv, ReloadShape, NoScan, Empty
  <2> QED BY <2>1, <2>3 DEF ReloadInv, Collected, NoScan
<1>7. CASE Notify
  BY <1>7 DEF Notify, ReloadInv, ReloadShape, Collected, Covered
<1> QED BY <1>1, <1>2, <1>3, <1>4, <1>5, <1>6, <1>7 DEF ReloadNext, Load, Content

LEMMA ReloadInvariance == ReloadSpec => []ReloadInv
BY ReloadInvInit, ReloadInvStep, PTL DEF ReloadSpec

\* The state of loadRules and of the signal channel keeps its type.
THEOREM ReloadTypeCorrect == ReloadSpec => []ReloadTypeOK
<1>1. ReloadInv => ReloadTypeOK
  BY DEF ReloadInv, ReloadShape, Content, ReloadTypeOK
<1> QED BY ReloadInvariance, <1>1, PTL

\* loadRules swaps in a table only if no file was bad, and with the hosts of
\* every file that nobody edited during the scan.
THEOREM SwapsWhole == ReloadSpec => AllOrNothing
<1> DEFINE Swap ==
      routes' # routes =>
        \A f \in steady : /\ dir[f] # Bad
                          /\ dir[f] # Absent =>
                               \A h \in Hosts : dir[f][h] # NoRule => routes'[h] # NoRule
<1>1. ReloadInv /\ [ReloadNext]_reloadVars => [Swap]_reloadVars
  <2> SUFFICES ASSUME ReloadInv, ReloadNext, routes' # routes PROVE Swap
    BY DEF reloadVars
  <2>1. FinishLoad /\ ~scan.errs /\ routes' = scan.new
    BY DEF ReloadNext, Edit, Sighup, Load, Begin, ReadFile, FinishLoad, Notify
  <2>2. \A f \in steady : Covered(f, routes')
    BY <2>1 DEF ReloadInv, Collected, FinishLoad
  <2> QED BY <2>2 DEF Covered
<1> QED BY ReloadInvariance, <1>1, PTL DEF ReloadSpec, AllOrNothing
=============================================================================
