------------------------------ MODULE HTTPProxy ------------------------------
(***************************************************************************)
(* The HTTP proxies of the routing rules, pkg/proxy, and the in-memory     *)
(* response cache they share, pkg/cache.  Clients shake hands and send     *)
(* requests concurrently.  A rule with a cacheTTL answers GETs through a   *)
(* CachingTransport, keyed by the URL after rewriting: rules with the same *)
(* rewriteUrl share entries.                                               *)
(*                                                                         *)
(* What upstream has to say under a URL, the status included, is a         *)
(* version.  Time is relative: an item counts its ticks until expiration.  *)
(***************************************************************************)
EXTENDS Integers, FiniteSets

CONSTANTS
  Clients, Rules, URLs,
  TTL,         \* TTL[r]: the rule's cacheTTL in ticks, 0 for none
  NoItem,
  MaxVersion,  \* bound: changes upstream
  MaxSigned    \* bound: certificates a proxy signs for its host

ASSUME ProxyAssumption ==
  /\ TTL \in [Rules -> Nat]
  /\ MaxVersion \in Nat /\ MaxSigned \in Nat \ {0}

VARIABLES
  version,  \* version[u]: upstream's answer for u
  items,    \* InMemoryCache.items
  call,     \* call[c]: the handshake or request of client c
  certs,    \* certs[r]: the certificate cached for the host of r, 0 for none
  signed    \* signed[r]: how many were signed

vars == <<version, items, call, certs, signed>>

NoCall == [pc |-> "idle"]

Item == [ver : 0..MaxVersion, by : Rules, left : Int, age : Nat]
Steps == {"sign", "shaken", "lookup", "upstream", "body", "store", "done"}

TypeOK ==
  /\ version \in [URLs -> 0..MaxVersion]
  /\ \A u \in URLs : items[u] # NoItem => items[u] \in Item
  /\ \A c \in Clients : call[c] # NoCall => call[c].pc \in Steps /\ call[c].rule \in Rules
  /\ certs \in [Rules -> 0..MaxSigned] /\ signed \in [Rules -> 0..MaxSigned]

Init ==
  /\ version = [u \in URLs |-> 0]
  /\ items = [u \in URLs |-> NoItem]
  /\ call = [c \in Clients |-> NoCall]
  /\ certs = [r \in Rules |-> 0] /\ signed = [r \in Rules |-> 0]

At(c, pc) == call[c].pc = pc
Goto(c, pc) == call' = [call EXCEPT ![c].pc = pc]

-----------------------------------------------------------------------------
(* Handshakes.                                                             *)

\* The first look at the map, under the read lock.
GetCertificate(c, r) ==
  /\ call[c] = NoCall
  /\ call' = [call EXCEPT ![c] =
       [pc |-> IF certs[r] = 0 THEN "sign" ELSE "shaken", rule |-> r, cert |-> certs[r]]]
  /\ UNCHANGED <<version, items, certs, signed>>

\* Mutant: does not look again under the write lock.
getCertOnce(c) ==
  /\ At(c, "sign")
  /\ LET r == call[c].rule IN
       /\ signed[r] < MaxSigned
       /\ signed' = [signed EXCEPT ![r] = @ + 1]
       /\ certs' = [certs EXCEPT ![r] = signed[r] + 1]
       /\ call' = [call EXCEPT ![c].pc = "shaken", ![c].cert = signed[r] + 1]
  /\ UNCHANGED <<version, items>>

\* Under the write lock.  The signature may fail, and with it the handshake.
getCert(c) ==
  /\ At(c, "sign")
  /\ LET r == call[c].rule IN
       \/ /\ certs[r] # 0
          /\ call' = [call EXCEPT ![c].pc = "shaken", ![c].cert = certs[r]]
          /\ UNCHANGED <<certs, signed>>
       \/ /\ certs[r] = 0 /\ signed[r] < MaxSigned
          /\ signed' = [signed EXCEPT ![r] = @ + 1]
          /\ certs' = [certs EXCEPT ![r] = signed[r] + 1]
          /\ call' = [call EXCEPT ![c].pc = "shaken", ![c].cert = signed[r] + 1]
       \/ /\ certs[r] = 0
          /\ call' = [call EXCEPT ![c] = NoCall] /\ UNCHANGED <<certs, signed>>
  /\ UNCHANGED <<version, items>>

-----------------------------------------------------------------------------
(* Requests: ServeHTTP, and RoundTrip where it is a CachingTransport.      *)

\* CONNECT is refused at once and changes nothing; only a GET of a rule with a TTL looks into the
\* cache.
ServeHTTP(c, r, u, method) ==
  /\ call[c] = NoCall
  /\ LET caching == method = "GET" /\ TTL[r] > 0 IN
       call' = [call EXCEPT ![c] =
         [pc |-> IF caching THEN "lookup" ELSE "upstream",
          rule |-> r, url |-> u, caching |-> caching, ver |-> 0]]
  /\ UNCHANGED <<version, items, certs, signed>>

Expired(u) == items[u] # NoItem /\ items[u].left < 0

\* InMemoryCache.Get: a hit, up to and including the moment of expiration.
Get(u) == items[u] # NoItem /\ ~Expired(u)

\* Mutant: a hit renews the item.
LookUpRenews(c) ==
  /\ At(c, "lookup")
  /\ LET u == call[c].url IN
       IF Get(u) THEN /\ call' = [call EXCEPT ![c].pc = "done", ![c].ver = items[u].ver]
                      /\ items' = [items EXCEPT ![u].left = TTL[items[u].by]]
       ELSE Goto(c, "upstream") /\ UNCHANGED items
  /\ UNCHANGED <<version, certs, signed>>

LookUp(c) ==
  /\ At(c, "lookup")
  /\ LET u == call[c].url IN
       IF Get(u) THEN call' = [call EXCEPT ![c].pc = "done", ![c].ver = items[u].ver]
       ELSE Goto(c, "upstream")
  /\ UNCHANGED <<version, items, certs, signed>>

\* The round trip fails (502), or upstream answers.
RoundTrip(c) ==
  /\ At(c, "upstream")
  /\ \/ call' = [call EXCEPT ![c] = NoCall]
     \/ call' = [call EXCEPT ![c].pc = "body", ![c].ver = version[call[c].url]]
  /\ UNCHANGED <<version, items, certs, signed>>

\* The body is read whole for the cache, or copied to the client as it comes.
\* It may break off.
ReadBody(c) ==
  /\ At(c, "body")
  /\ \/ Goto(c, IF call[c].caching THEN "store" ELSE "done")
     \/ call' = [call EXCEPT ![c] = NoCall]
  /\ UNCHANGED <<version, items, certs, signed>>

\* Mutant: an item that is there lives on.
SetExtends(c) ==
  /\ At(c, "store")
  /\ LET u == call[c].url
         r == call[c].rule IN
       items' = IF Get(u) THEN [items EXCEPT ![u].left = TTL[r]]
                ELSE [items EXCEPT ![u] = [ver |-> call[c].ver, by |-> r,
                                           left |-> TTL[r], age |-> 0]]
  /\ Goto(c, "done")
  /\ UNCHANGED <<version, certs, signed>>

\* InMemoryCache.Set, over whatever another request stored meanwhile.
Set(c) ==
  /\ At(c, "store")
  /\ LET r == call[c].rule IN
       items' = [items EXCEPT ![call[c].url] =
         [ver |-> call[c].ver, by |-> r, left |-> TTL[r], age |-> 0]]
  /\ Goto(c, "done")
  /\ UNCHANGED <<version, certs, signed>>

\* The handshake or the response is over for the client.
Finish(c) ==
  /\ call[c].pc \in {"shaken", "done"}
  /\ call' = [call EXCEPT ![c] = NoCall]
  /\ UNCHANGED <<version, items, certs, signed>>

-----------------------------------------------------------------------------
(* The janitor, upstream and time.                                         *)

janitor ==
  /\ \E u \in URLs : Expired(u)
  /\ items' = [u \in URLs |-> IF Expired(u) THEN NoItem ELSE items[u]]
  /\ UNCHANGED <<version, call, certs, signed>>

Change(u) ==
  /\ version[u] < MaxVersion
  /\ version' = [version EXCEPT ![u] = @ + 1]
  /\ UNCHANGED <<items, call, certs, signed>>

\* Ages, a history, and what is left are not counted beyond expiration.
Tick ==
  /\ items' = [u \in URLs |->
       IF items[u] = NoItem \/ Expired(u) THEN items[u]
       ELSE [items[u] EXCEPT !.left = @ - 1,
                             !.age = IF @ > TTL[items[u].by] THEN @ ELSE @ + 1]]
  /\ UNCHANGED <<version, call, certs, signed>>

Continue(c) ==
  \/ getCert(c) \/ LookUp(c) \/ RoundTrip(c) \/ ReadBody(c) \/ Set(c) \/ Finish(c)

Next ==
  \/ \E c \in Clients, r \in Rules :
       GetCertificate(c, r) \/ \E u \in URLs, m \in {"GET", "POST"} : ServeHTTP(c, r, u, m)
  \/ \E c \in Clients : Continue(c)
  \/ janitor \/ Tick \/ \E u \in URLs : Change(u)

\* Time passes; handlers go on, upstream answers or its connection breaks; and
\* sync.RWMutex lets a waiting janitor in.
Spec ==
  /\ Init /\ [][Next]_vars
  /\ \A c \in Clients : WF_vars(Continue(c))
  /\ WF_vars(Tick) /\ WF_vars(janitor)

-----------------------------------------------------------------------------
(* Properties.                                                             *)

\* What the cache answers with was stored at most a TTL ago, the TTL of the rule
\* that stored it: reading an item, or storing another answer for the same URL
\* through any rule, does not prolong its life.
WithinTTL == \A u \in URLs : Get(u) => items[u].age <= TTL[items[u].by]

\* All handshakes of a host get one certificate, also those that found none
\* when they first looked (getCert looks again under the write lock).
OneCertificate == \A c \in Clients : At(c, "shaken") => call[c].cert = 1

\* Once upstream no longer changes, the clients end up with its last answer:
\* late responses that overwrite newer ones, and stored errors, all go.
Converges ==
  <>[](\A c \in Clients : At(c, "done") => call[c].ver = version[call[c].url])
=============================================================================
