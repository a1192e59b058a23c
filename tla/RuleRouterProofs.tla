--------------------------- MODULE RuleRouterProofs ---------------------------
(***************************************************************************)
(* The router's decisions, for any pods, hosts, tables, policies and       *)
(* number of requests.  A handler reads through a pointer that the map may *)
(* have dropped since: Points says that what it finds there is still a     *)
(* binding its caller had while the handler ran.  An object is written     *)
(* only while it is the registered one of its UID, which rests on the      *)
(* pod map's invariant, so every value the handler may meet was current.   *)
(***************************************************************************)
EXTENDS RuleRouter, PodMapProofs

\* What a step of the pod map does to the object a request holds.
LEMMA HeldKept ==
  ASSUME IInv, [Next]_vars, NEW q \in Requests, held[q] \in Refs, held'[q] = held[q],
         heap[held[q]] \in PodInfo
  PROVE  /\ heap'[held[q]] \in PodInfo
         /\ heap'[held[q]].uid = heap[held[q]].uid
         /\ \/ heap'[held[q]].grant = heap[held[q]].grant
            \/ /\ byUID'[heap[held[q]].uid] # Nil
               /\ heap'[byUID'[heap[held[q]].uid]].grant = heap'[held[q]].grant
<1> DEFINE r == held[q]
           Kept == heap'[r] = heap[r]
           Written == /\ heap'[r] \in PodInfo /\ heap'[r].uid = heap[r].uid
                      /\ byUID'[heap[r].uid] = r
<1>a. ASSUME Kept \/ Written
      PROVE  /\ heap'[held[q]] \in PodInfo
             /\ heap'[held[q]].uid = heap[held[q]].uid
             /\ \/ heap'[held[q]].grant = heap[held[q]].grant
                \/ /\ byUID'[heap[held[q]].uid] # Nil
                   /\ heap'[byUID'[heap[held[q]].uid]].grant = heap'[held[q]].grant
  BY <1>a, ConstantsAssumption
<1>b. r \in Refs /\ r \notin Fresh
  BY DEF Fresh, Reachable
<1>c. ASSUME NEW h, Store(h) PROVE heap'[r] = h[r]
  BY <1>b, <1>c DEF Store, Reachable
<1>d. /\ heap \in [Refs -> PodInfo \cup {Blank}] /\ MapOK
      /\ \A u \in Registered : byUID[u] \in Refs /\ heap[byUID[u]] \in PodInfo
                               /\ heap[byUID[u]].uid = u
  BY ObjectType, ConstantsAssumption DEF IInv, TypeOK, MapOK, IndexCoherent, Registered, Object
<1>0. ASSUME NEW f \in Fresh, NEW obj, Store([heap EXCEPT ![f] = obj]) PROVE Kept
  <2>1. heap'[r] = [heap EXCEPT ![f] = obj][r]
    BY <1>0, <1>c
  <2> QED BY <2>1, <1>b, <1>d
<1>1. ASSUME NEW info, addOrUpdateLocked(info) PROVE Kept
  <2>1. PICK f \in Fresh : Store([heap EXCEPT ![f] = [info EXCEPT !.grant = Binding(info)]])
    BY <1>1 DEF addOrUpdateLocked
  <2> QED BY <2>1, <1>0
<1>2. ASSUME NEW u, removeLocked(u) PROVE Kept
  BY <1>2, <1>c DEF removeLocked
<1>3. ASSUME NEW u \in Registered, NEW g \in Grant, byUID' = byUID,
             Store([heap EXCEPT ![byUID[u]] = [@ EXCEPT !.grant = g]])
      PROVE  Kept \/ Written
  <2>1. heap'[r] = [heap EXCEPT ![byUID[u]] = [@ EXCEPT !.grant = g]][r]
    BY <1>3, <1>c
  <2>2. CASE byUID[u] = r
    <3>1. heap'[r] = [heap[r] EXCEPT !.grant = g]
      BY <2>1, <2>2, <1>b, <1>d
    <3>2. heap'[r] \in PodInfo /\ heap'[r].uid = heap[r].uid
      BY <3>1 DEF PodInfo
    <3> QED BY <3>2, <2>2, <1>3, <1>d
  <2>3. CASE byUID[u] # r
    BY <2>1, <2>3, <1>b, <1>d
  <2> QED BY <2>2, <2>3
<1>4. ASSUME NEW u \in UIDs, NEW g \in Grants, Bind(u, g) PROVE Kept \/ Written
  <2>1. CASE u \in Registered
    BY <1>4, <2>1, <1>3 DEF Bind, Grant
  <2>2. CASE u \notin Registered
    <3>1. PICK f \in Fresh :
            Store([heap EXCEPT ![f] = [uid |-> u, ips |-> {}, annotation |-> Unbound, grant |-> g]])
      BY <1>4, <2>2 DEF Bind
    <3> QED BY <3>1, <1>0
  <2> QED BY <2>1, <2>2
<1>5. ASSUME NEW u \in UIDs, Unbind(u) PROVE Kept \/ Written
  BY <1>5, <1>3 DEF Unbind, Grant
<1>6. ASSUME NEW p \in Requests, Finish(p) PROVE Kept
  BY <1>6, <1>c DEF Finish
<1>7. CASE UNCHANGED heap
  BY <1>7
<1>8. Kept \/ Written
  <2>1. CASE Admin
    BY <2>1, <1>1, <1>2, <1>4, <1>5, <1>7
       DEF Admin, AddOrUpdatePod, RemovePod, SynchronizeBegin, SynchronizeAdd,
           SynchronizeAdded, SynchronizePrune, SynchronizeEnd
  <2>2. CASE UNCHANGED vars
    BY <2>2, <1>7 DEF vars
  <2>3. ASSUME NEW p \in Requests, NEW ip \in IPs, GetPodByIP(p, ip) PROVE Kept
    BY <2>3, <1>7 DEF GetPodByIP
  <2> QED BY <2>1, <2>2, <2>3, <1>6 DEF Next
<1> QED BY <1>8, <1>a

InFlight == {"bound", "policy", "tokens", "identity"}

Handling ==
  [pc : {"caller", "send"} \cup InFlight \cup Final, kind : {"http", "tls"}, host : Hosts,
   ip : IPs, rule : Rule \cup {NoRule}, uid : UIDs \cup {Nil}, by : Grant, as : Grant]

Shape ==
  /\ routes \in Tables /\ enforced \in BOOLEAN /\ fallback \in BOOLEAN
  /\ req \in [Requests -> Handling \cup {Free}]
  /\ seen \in [Requests -> SUBSET Grant]

\* What the pointer of an unfinished request leads to.
Points(q) ==
  (req[q] # Free /\ req[q].pc \in InFlight) =>
    /\ held[q] \in Refs /\ heap[held[q]] \in PodInfo
    /\ heap[held[q]].uid = req[q].uid
    /\ heap[held[q]].grant \in seen[q]

\* The decision was taken under a binding of the caller.
Settled(q) ==
  /\ req[q].uid \in UIDs
  /\ CheckedName(req[q]) # "" =>
       /\ req[q].by \in seen[q]
       /\ IsRuleAllowed(req[q].by, CheckedName(req[q]), req[q].host)
       /\ req[q].as \in seen[q] \cup {Unbound}

\* Sent without a decision: Send refuses these.
NoUpstream(q) == req[q].rule = NoRule /\ ~fallback

Decided(q) ==
  req[q] # Free =>
    /\ req[q].pc \in {"caller", "bound", "policy", "tokens"} => req[q].as = Unbound
    /\ req[q].pc = "identity" => Settled(q)
    /\ (enforced /\ req[q].pc = "send") => Settled(q) \/ NoUpstream(q)
    /\ (enforced /\ req[q].pc \in {"forwarded", "certified"}) => Settled(q)

RInv == IInv /\ Shape /\ \A q \in Requests : Points(q) /\ Decided(q)

LEMMA HandlingNotFree == Free \notin Handling
<1>1. Free.pc = "free"
  BY DEF Free
<1>2. \A h \in Handling : h.pc # "free"
  BY DEF Handling, InFlight, Final
<1> QED BY <1>1, <1>2

LEMMA RouterStart == RouterInit => RInv
<1> SUFFICES ASSUME RouterInit PROVE RInv
  OBVIOUS
<1>1. IInv
  BY Initial DEF RouterInit
<1>2. Shape
  BY DEF RouterInit, Shape
<1> QED BY <1>1, <1>2 DEF RouterInit, RInv, Points, Decided

\* Every binding the caller has before or after the step is noted, and none is
\* forgotten before the request is.
LEMMA Noted ==
  ASSUME RInv, RouterNext, NEW q \in Requests, req'[q] # Free, req'[q].uid \in UIDs
  PROVE  /\ seen[q] \subseteq seen'[q]
         /\ req'[q].pc \notin Final =>
              /\ (byUID[req'[q].uid] # Nil /\ heap[byUID[req'[q].uid]].grant \in Grant)
                   => heap[byUID[req'[q].uid]].grant \in seen'[q]
              /\ (byUID'[req'[q].uid] # Nil /\ heap'[byUID'[req'[q].uid]].grant \in Grant)
                   => heap'[byUID'[req'[q].uid]].grant \in seen'[q]
<1>1. req'[q].uid # Nil
  BY RouterAssumption
<1>2. seen'[q] = Witness(q)
  BY DEF RouterNext
<1> QED BY <1>1, <1>2 DEF Witness

\* The requests that a step does not touch.
LEMMA Bystander ==
  ASSUME RInv, RouterNext, [Next]_vars, NEW q \in Requests,
         req'[q] = req[q], held'[q] = held[q], UNCHANGED <<enforced, fallback>>
  PROVE  Points(q)' /\ Decided(q)'
<1>0. CASE req[q] = Free
  BY <1>0 DEF Points, Decided
<1>1. CASE req[q] # Free
  <2>1. Points(q) /\ Decided(q) /\ req[q] \in Handling
    BY <1>1 DEF RInv, Shape
  <2>2. CASE req[q].uid \in UIDs
    <3>1. seen[q] \subseteq seen'[q]
      BY <2>2, <1>1, Noted
    <3>2. Decided(q)'
      BY <3>1, <2>1, <1>1 DEF Decided, Settled, NoUpstream
    <3>3. ASSUME req[q].pc \in InFlight
          PROVE  /\ heap'[held[q]] \in PodInfo /\ heap'[held[q]].uid = req[q].uid
                 /\ heap'[held[q]].grant \in seen'[q]
      <4>1. held[q] \in Refs /\ heap[held[q]] \in PodInfo /\ heap[held[q]].uid = req[q].uid
            /\ heap[held[q]].grant \in seen[q]
        BY <3>3, <2>1, <1>1 DEF Points
      <4>2. /\ heap'[held[q]] \in PodInfo
            /\ heap'[held[q]].uid = heap[held[q]].uid
            /\ \/ heap'[held[q]].grant = heap[held[q]].grant
               \/ /\ byUID'[heap[held[q]].uid] # Nil
                  /\ heap'[byUID'[heap[held[q]].uid]].grant = heap'[held[q]].grant
        BY <4>1, HeldKept DEF RInv
      <4>3. heap'[held[q]].grant \in Grant
        BY <4>2 DEF PodInfo
      <4>4. req[q].pc \notin Final
        BY <3>3 DEF InFlight, Final
      <4> QED BY <4>1, <4>2, <4>3, <4>4, <3>1, <2>2, <1>1, Noted
    <3> QED BY <3>2, <3>3, <2>1, <1>1 DEF Points
  <2>3. CASE req[q].uid \notin UIDs
    <3>1. req[q].pc \notin InFlight
      BY <2>3, <2>1, <1>1 DEF Points, PodInfo
    <3> QED BY <3>1, <2>1, <2>3, <1>1 DEF Points, Decided, Settled, NoUpstream, InFlight
  <2> QED BY <2>2, <2>3
<1> QED BY <1>0, <1>1

\* A step changes one request at most.
LEMMA OneRequest ==
  ASSUME RInv, RouterNext, [Next]_vars, NEW q \in Requests, NEW n \in Handling \cup {Free},
         req' = [req EXCEPT ![q] = n], \A p \in Requests \ {q} : held'[p] = held[p],
         UNCHANGED <<routes, enforced, fallback>>, Points(q)', Decided(q)'
  PROVE  RInv'
<1>1. IInv'
  BY Inductive DEF RInv
<1>2. \A p \in Requests : Witness(p) \subseteq Grant
  BY DEF Witness, RInv, Shape
<1>3. Shape'
  BY <1>2 DEF RInv, Shape, RouterNext
<1>4. \A p \in Requests \ {q} : Points(p)' /\ Decided(p)'
  BY Bystander DEF RInv, Shape
<1> QED BY <1>1, <1>3, <1>4 DEF RInv

\* A request that is refused, or forgotten, claims nothing.
LEMMA Turned ==
  ASSUME RInv, RouterNext, [Next]_vars, NEW q \in Requests, NEW n \in Handling \cup {Free},
         req' = [req EXCEPT ![q] = n], \A p \in Requests \ {q} : held'[p] = held[p],
         UNCHANGED <<routes, enforced, fallback>>,
         n = Free \/ n.pc \in {"denied", "uncertified"}
  PROVE  RInv'
<1>1. req'[q] = n
  BY DEF RInv, Shape
<1>2. Points(q)' /\ Decided(q)'
  BY <1>1 DEF Points, Decided, InFlight
<1> QED BY <1>2, OneRequest

LEMMA Others ==
  ASSUME NEW q \in Requests, IInv, UNCHANGED vars \/ Finish(q)
  PROVE  [Next]_vars /\ \A p \in Requests \ {q} : held'[p] = held[p]
  BY DEF vars, Finish, Next, IInv, TypeOK

LEMMA RefusedType == \A r \in Handling : Refused(r) \in {"denied", "uncertified"}
  BY DEF Refused

LEMMA Arrives ==
  ASSUME RInv, RouterNext, NEW q \in Requests, NEW kind \in {"http", "tls"},
         NEW host \in Hosts, NEW ip \in IPs, Arrive(q, kind, host, ip)
  PROVE  RInv'
<1>1. \A h \in Hosts : routes[h] \in Rule \cup {NoRule}
  <2>1. routes \in Tables
    BY DEF RInv, Shape
  <2>2. Tables \subseteq [Hosts -> Rule \cup {NoRule}]
    BY RouterAssumption
  <2> QED BY <2>1, <2>2
<1>2. Lookup(host) \subseteq Rule \cup {NoRule}
  <2>1. Extends[host] \subseteq Hosts
    BY RouterAssumption
  <2> DEFINE prefixes == {h \in Extends[host] : routes[h] # NoRule}
  <2>2. {routes[h] : h \in prefixes} \subseteq Rule \cup {NoRule}
    BY <1>1, <2>1
  <2> QED BY <1>1, <2>2 DEF Lookup
<1>3. PICK rule \in Rule \cup {NoRule} :
        req' = [req EXCEPT ![q] =
                 [pc |-> IF enforced THEN "caller" ELSE "send", kind |-> kind, host |-> host,
                  ip |-> ip, rule |-> rule, uid |-> Nil, by |-> Unbound, as |-> Unbound]]
  BY <1>2 DEF Arrive
<1> DEFINE n == [pc |-> IF enforced THEN "caller" ELSE "send", kind |-> kind, host |-> host,
                 ip |-> ip, rule |-> rule, uid |-> Nil, by |-> Unbound, as |-> Unbound]
<1>4. UNCHANGED vars /\ UNCHANGED <<routes, enforced, fallback>>
  BY DEF Arrive
<1>5. n \in Handling /\ n.pc = (IF enforced THEN "caller" ELSE "send") /\ n.as = Unbound
  BY DEF Handling, Grant
<1>6. req'[q] = n
  BY <1>3 DEF RInv, Shape
<1> HIDE DEF n
<1>7. Points(q)' /\ Decided(q)'
  BY <1>4, <1>5, <1>6 DEF Points, Decided, InFlight
<1>8. req' = [req EXCEPT ![q] = n]
  BY <1>3 DEF n
<1> QED BY <1>4, <1>5, <1>7, <1>8, Others, OneRequest DEF RInv

LEMMA CallerUnknown == ASSUME RInv, RouterNext, NEW q \in Requests, UnknownCaller(q) PROVE RInv'
<1> DEFINE n == [req[q] EXCEPT !.pc = Refused(req[q])]
<1>1. req[q] \in Handling
  BY DEF UnknownCaller, At, RInv, Shape
<1>2. n \in Handling /\ n.pc \in {"denied", "uncertified"}
  BY <1>1, RefusedType DEF Handling, Final
<1>3. /\ req' = [req EXCEPT ![q] = n]
      /\ UNCHANGED vars /\ UNCHANGED <<routes, enforced, fallback>>
  BY DEF UnknownCaller, RInv, Shape
<1> QED BY <1>2, <1>3, Others, Turned DEF RInv

LEMMA CallerKnown == ASSUME RInv, RouterNext, NEW q \in Requests, KnownCaller(q) PROVE RInv'
<1> DEFINE o == byIP[req[q].ip]
           n == [req[q] EXCEPT !.pc = "bound", !.uid = heap[o].uid]
<1>1. req[q] \in Handling /\ req[q].pc = "caller" /\ req[q].ip \in IPs
  BY DEF KnownCaller, At, RInv, Shape, Handling
<1>2. /\ o \in Refs /\ heap[o] \in PodInfo /\ byUID[heap[o].uid] = o
  BY <1>1, ObjectType DEF KnownCaller, GetPodByIP, RInv, IInv, TypeOK, MapOK, IndexCoherent
<1>3. heap[o].uid \in UIDs /\ heap[o].grant \in Grant
  BY <1>2 DEF PodInfo
<1>4. /\ n \in Handling /\ n.pc = "bound" /\ n.uid = heap[o].uid /\ n.as = Unbound
  BY <1>1, <1>3 DEF Handling, InFlight, RInv, Decided, KnownCaller, At
<1>5. /\ req' = [req EXCEPT ![q] = n] /\ req'[q] = n
      /\ UNCHANGED <<routes, enforced, fallback>>
  BY DEF KnownCaller, RInv, Shape
<1>6. /\ held' = [held EXCEPT ![q] = o] /\ UNCHANGED <<heap, byUID, byIP, sync>>
      /\ [Next]_vars
  BY <1>1 DEF KnownCaller, GetPodByIP, Next
<1>7. held'[q] = o /\ \A p \in Requests \ {q} : held'[p] = held[p]
  BY <1>6 DEF RInv, IInv, TypeOK
<1> HIDE DEF n
<1>8. n # Free
  BY <1>4, HandlingNotFree
<1>9. heap[o].grant \in seen'[q]
  <2>1. byUID[n.uid] # Nil /\ n.pc \notin Final /\ n.uid \in UIDs
    BY <1>2, <1>3, <1>4, ConstantsAssumption DEF Final
  <2> QED BY <2>1, <1>2, <1>3, <1>4, <1>5, <1>8, Noted
<1>10. Points(q)' /\ Decided(q)'
  BY <1>2, <1>4, <1>5, <1>6, <1>7, <1>9 DEF Points, Decided
<1> QED BY <1>4, <1>5, <1>6, <1>7, <1>10, OneRequest

\* The handler goes on with the same pointer.
LEMMA GoesOn ==
  ASSUME RInv, RouterNext, NEW q \in Requests, req[q] # Free, req[q].pc \in InFlight,
         NEW n \in Handling, n.uid = req[q].uid, req' = [req EXCEPT ![q] = n],
         UNCHANGED vars, UNCHANGED <<routes, enforced, fallback>>
  PROVE  /\ req'[q] = n /\ n # Free /\ n.uid \in UIDs /\ seen[q] \subseteq seen'[q]
         /\ Points(q)' /\ Pointed(q) \in seen[q] /\ Pointed(q) \in Grant
<1>1. req'[q] = n /\ n # Free
  BY HandlingNotFree DEF RInv, Shape
<1>2. /\ held[q] \in Refs /\ heap[held[q]] \in PodInfo
      /\ heap[held[q]].uid = req[q].uid /\ heap[held[q]].grant \in seen[q]
  BY DEF RInv, Points
<1>3. n.uid \in UIDs /\ heap[held[q]].grant \in Grant
  BY <1>2 DEF PodInfo
<1>4. seen[q] \subseteq seen'[q]
  BY <1>1, <1>3, Noted
<1> QED BY <1>1, <1>2, <1>3, <1>4 DEF Points, Pointed, vars

LEMMA Bound == ASSUME RInv, RouterNext, NEW q \in Requests, ReadBound(q) PROVE RInv'
<1>1. req[q] \in Handling /\ req[q].pc = "bound" /\ req[q] # Free
      /\ UNCHANGED <<routes, enforced, fallback>>
  BY DEF ReadBound, At, RInv, Shape
<1>2. CASE Pointed(q) = Unbound
  <2> DEFINE n == [req[q] EXCEPT !.pc = Refused(req[q])]
  <2>1. n \in Handling /\ n.pc \in {"denied", "uncertified"}
    BY <1>1, RefusedType DEF Handling, Final
  <2>2. req' = [req EXCEPT ![q] = n] /\ Finish(q)
    BY <1>2 DEF ReadBound, RInv, Shape
  <2> QED BY <1>1, <2>1, <2>2, Others, Turned DEF RInv
<1>3. CASE Pointed(q) # Unbound
  <2> DEFINE n == [req[q] EXCEPT !.pc = "policy"]
  <2>1. n \in Handling /\ n.pc = "policy" /\ n.uid = req[q].uid /\ n.as = req[q].as
    BY <1>1 DEF Handling, InFlight
  <2>2. req' = [req EXCEPT ![q] = n] /\ UNCHANGED vars
    BY <1>3 DEF ReadBound, RInv, Shape
  <2>3. n.as = Unbound /\ req[q].pc \in InFlight
    BY <1>1, <2>1 DEF RInv, Decided, InFlight
  <2> HIDE DEF n
  <2>4. req'[q] = n /\ Points(q)'
    BY <1>1, <2>1, <2>2, <2>3, GoesOn
  <2>5. Decided(q)'
    BY <2>1, <2>3, <2>4 DEF Decided
  <2> QED BY <1>1, <2>1, <2>2, <2>4, <2>5, Others, OneRequest DEF RInv
<1> QED BY <1>2, <1>3

LEMMA PolicyRead == ASSUME RInv, RouterNext, NEW q \in Requests, ReadPolicy(q) PROVE RInv'
<1> DEFINE asks == req[q].kind = "tls" \/ req[q].rule # NoRule \/ fallback
<1>1. req[q] \in Handling /\ req[q].pc = "policy" /\ req[q] # Free
      /\ UNCHANGED <<routes, enforced, fallback>>
  BY DEF ReadPolicy, At, RInv, Shape
<1>2. CASE asks /\ Pointed(q) = Unbound
  <2> DEFINE n == [req[q] EXCEPT !.pc = Refused(req[q])]
  <2>1. n \in Handling /\ n.pc \in {"denied", "uncertified"}
    BY <1>1, RefusedType DEF Handling, Final
  <2>2. req' = [req EXCEPT ![q] = n] /\ Finish(q)
    BY <1>2 DEF ReadPolicy, RInv, Shape
  <2> QED BY <1>1, <2>1, <2>2, Others, Turned DEF RInv
<1>3. CASE ~(asks /\ Pointed(q) = Unbound)
  <2> DEFINE n == [req[q] EXCEPT !.pc = IF asks THEN "tokens" ELSE "send"]
  <2>1. /\ n \in Handling /\ n.pc = (IF asks THEN "tokens" ELSE "send")
        /\ n.uid = req[q].uid /\ n.as = req[q].as /\ n.rule = req[q].rule
    BY <1>1 DEF Handling, InFlight
  <2>2. req' = [req EXCEPT ![q] = n] /\ UNCHANGED vars
    BY <1>3 DEF ReadPolicy, RInv, Shape
  <2>3. n.as = Unbound /\ req[q].pc \in InFlight
    BY <1>1, <2>1 DEF RInv, Decided, InFlight
  <2> HIDE DEF n
  <2>4. req'[q] = n /\ Points(q)'
    BY <1>1, <2>1, <2>2, <2>3, GoesOn
  <2>5. Decided(q)'
    BY <1>1, <2>1, <2>3, <2>4 DEF Decided, NoUpstream
  <2> QED BY <1>1, <2>1, <2>2, <2>4, <2>5, Others, OneRequest DEF RInv
<1> QED BY <1>2, <1>3

\* What Unbind leaves, the token "", matches no name and no host.
LEMMA MatchIsAllowed ==
  ASSUME NEW g, NEW name, NEW host \in Hosts, name # "", Matches(g, name, host)
  PROVE  IsRuleAllowed(g, name, host)
<1>1. "" \notin {"*", name, host}
  BY RouterAssumption
<1>2. g # Unbound
  BY <1>1 DEF Matches, Tokens
<1> QED BY <1>2 DEF IsRuleAllowed

LEMMA TokensRead == ASSUME RInv, RouterNext, NEW q \in Requests, ReadTokens(q) PROVE RInv'
<1> DEFINE name == CheckedName(req[q])
<1>1. req[q] \in Handling /\ req[q].pc = "tokens" /\ req[q] # Free
      /\ UNCHANGED <<routes, enforced, fallback>>
  BY DEF ReadTokens, At, RInv, Shape
<1>2. Pointed(q) \in Grant /\ req[q].as = Unbound /\ req[q].pc \in InFlight
  BY <1>1 DEF RInv, Points, Decided, Pointed, PodInfo, InFlight
<1>3. CASE ~Matches(Pointed(q), name, req[q].host)
  <2> DEFINE n == [req[q] EXCEPT !.pc = Refused(req[q]), !.by = Pointed(q)]
  <2>1. n \in Handling /\ n.pc \in {"denied", "uncertified"}
    BY <1>1, <1>2, RefusedType DEF Handling, Final
  <2>2. req' = [req EXCEPT ![q] = n] /\ Finish(q)
    BY <1>3 DEF ReadTokens, RInv, Shape
  <2> QED BY <1>1, <2>1, <2>2, Others, Turned DEF RInv
<1>4. CASE Matches(Pointed(q), name, req[q].host)
  <2> DEFINE next == IF req[q].rule # NoRule /\ req[q].kind = "http" THEN "identity" ELSE "send"
             n == [req[q] EXCEPT !.by = Pointed(q), !.pc = next]
  <2>1. /\ n \in Handling /\ n.pc \in {"identity", "send"} /\ n.by = Pointed(q)
        /\ n.uid = req[q].uid /\ n.as = req[q].as /\ n.rule = req[q].rule
        /\ n.kind = req[q].kind /\ n.host = req[q].host
    BY <1>1, <1>2 DEF Handling, InFlight
  <2>2. req' = [req EXCEPT ![q] = n] /\ UNCHANGED vars
    BY <1>4 DEF ReadTokens, RInv, Shape
  <2> HIDE DEF n
  <2>3. /\ req'[q] = n /\ Points(q)' /\ n.uid \in UIDs
        /\ seen[q] \subseteq seen'[q] /\ Pointed(q) \in seen[q]
    BY <1>1, <1>2, <2>1, <2>2, GoesOn
  <2>4. CheckedName(n) = name /\ n.host \in Hosts
    BY <1>1, <2>1 DEF CheckedName, Handling
  <2>5. Settled(q)'
    <3>1. name # "" => IsRuleAllowed(n.by, name, n.host)
      BY <1>4, <2>1, <2>4, MatchIsAllowed
    <3> QED BY <1>2, <2>1, <2>3, <2>4, <3>1 DEF Settled
  <2>6. Decided(q)'
    BY <2>1, <2>3, <2>5 DEF Decided
  <2> QED BY <1>1, <2>1, <2>2, <2>3, <2>6, Others, OneRequest DEF RInv
<1> QED BY <1>3, <1>4

LEMMA IdentityRead == ASSUME RInv, RouterNext, NEW q \in Requests, ReadIdentity(q) PROVE RInv'
<1> DEFINE as == IF req[q].rule.attribution THEN Pointed(q) ELSE Unbound
           n == [req[q] EXCEPT !.as = as, !.pc = "send"]
<1>1. req[q] \in Handling /\ req[q].pc = "identity" /\ req[q] # Free
      /\ UNCHANGED <<routes, enforced, fallback>>
  BY DEF ReadIdentity, At, RInv, Shape
<1>2. Pointed(q) \in Grant /\ Settled(q) /\ req[q].pc \in InFlight
  BY <1>1 DEF RInv, Points, Decided, Pointed, PodInfo, InFlight
<1>3. as \in Grant /\ as \in {Pointed(q), Unbound}
  BY <1>2 DEF Grant
<1> HIDE DEF as
<1>4. /\ n \in Handling /\ n.pc = "send" /\ n.by = req[q].by /\ n.uid = req[q].uid /\ n.as = as
      /\ n.rule = req[q].rule /\ n.kind = req[q].kind /\ n.host = req[q].host
  BY <1>1, <1>3 DEF Handling
<1>5. req' = [req EXCEPT ![q] = n] /\ UNCHANGED vars
  BY DEF ReadIdentity, RInv, Shape, as
<1> HIDE DEF n
<1>6. /\ req'[q] = n /\ Points(q)' /\ n.uid \in UIDs
      /\ seen[q] \subseteq seen'[q] /\ Pointed(q) \in seen[q]
  BY <1>1, <1>2, <1>4, <1>5, GoesOn
<1>7. CheckedName(n) = CheckedName(req[q])
  BY <1>4 DEF CheckedName
<1>8. Settled(q)'
  BY <1>2, <1>3, <1>4, <1>6, <1>7 DEF Settled
<1>9. Decided(q)'
  BY <1>4, <1>6, <1>8 DEF Decided
<1> QED BY <1>1, <1>4, <1>5, <1>6, <1>9, Others, OneRequest DEF RInv

LEMMA Sent == ASSUME RInv, RouterNext, NEW q \in Requests, Send(q) PROVE RInv'
<1> DEFINE answer == IF NoUpstream(q) THEN Refused(req[q])
                     ELSE IF req[q].kind = "http" THEN "forwarded" ELSE "certified"
           n == [req[q] EXCEPT !.pc = answer]
<1>1. req[q] \in Handling /\ req[q].pc = "send" /\ req[q] # Free
      /\ UNCHANGED <<routes, enforced, fallback>>
  BY DEF Send, At, RInv, Shape
<1>2. req' = [req EXCEPT ![q] = n] /\ (UNCHANGED vars \/ Finish(q))
  BY DEF Send, RInv, Shape, NoUpstream
<1>3. /\ [Next]_vars /\ \A p \in Requests \ {q} : held'[p] = held[p]
  BY <1>2, Others DEF RInv
<1>4. answer \in Final /\ (NoUpstream(q) => answer \in {"denied", "uncertified"})
  BY <1>1, RefusedType DEF Final
<1> HIDE DEF answer
<1>5. /\ n \in Handling /\ n.pc = answer /\ n.by = req[q].by /\ n.uid = req[q].uid
      /\ n.as = req[q].as /\ n.rule = req[q].rule /\ n.kind = req[q].kind /\ n.host = req[q].host
  BY <1>1, <1>4 DEF Handling
<1> HIDE DEF n
<1>6. CASE NoUpstream(q)
  BY <1>1, <1>2, <1>3, <1>4, <1>5, <1>6, Turned
<1>7. CASE ~NoUpstream(q)
  <2>1. req'[q] = n /\ n # Free
    BY <1>2, <1>5, HandlingNotFree DEF RInv, Shape
  <2>2. Points(q)'
    BY <1>4, <1>5, <2>1 DEF Points, InFlight, Final
  <2>3. enforced => Settled(q)
    BY <1>1, <1>7 DEF RInv, Decided
  <2>4. CheckedName(n) = CheckedName(req[q])
    BY <1>5 DEF CheckedName
  <2>5. ASSUME enforced PROVE Settled(q)'
    <3>1. n.uid \in UIDs
      BY <2>3, <2>5, <1>5 DEF Settled
    <3>2. seen[q] \subseteq seen'[q]
      BY <3>1, <2>1, Noted
    <3> QED BY <3>1, <3>2, <2>1, <2>3, <2>4, <2>5, <1>5 DEF Settled
  <2>6. Decided(q)'
    BY <1>1, <1>4, <1>5, <2>1, <2>5 DEF Decided, Final
  <2> QED BY <1>1, <1>2, <1>3, <1>5, <2>2, <2>6, OneRequest
<1> QED BY <1>6, <1>7

LEMMA Released == ASSUME RInv, RouterNext, NEW q \in Requests, Release(q) PROVE RInv'
<1>1. /\ req' = [req EXCEPT ![q] = Free] /\ UNCHANGED vars
      /\ UNCHANGED <<routes, enforced, fallback>>
  BY DEF Release
<1> QED BY <1>1, Others, Turned DEF RInv

\* A step of the pod map, or a new table: no request moves.
LEMMA Aside ==
  ASSUME RInv, RouterNext, [Next]_vars, UNCHANGED <<req, held, enforced, fallback>>,
         routes' \in Tables
  PROVE  RInv'
<1>1. IInv'
  BY Inductive DEF RInv
<1>2. \A p \in Requests : Witness(p) \subseteq Grant
  BY DEF Witness, RInv, Shape
<1>3. Shape'
  BY <1>2 DEF RInv, Shape, RouterNext
<1>4. \A p \in Requests : Points(p)' /\ Decided(p)'
  BY Bystander
<1> QED BY <1>1, <1>3, <1>4 DEF RInv

LEMMA AdminHolds == Admin => UNCHANGED held
  BY DEF Admin, AddOrUpdatePod, RemovePod, SynchronizeBegin, SynchronizeAdd, SynchronizeAdded,
         SynchronizePrune, SynchronizeEnd, Bind, Unbind, addOrUpdateLocked, removeLocked

LEMMA RouterInductive == RInv /\ [RouterNext]_<<vars, routerVars, seen>> => RInv'
<1> SUFFICES ASSUME RInv, [RouterNext]_<<vars, routerVars, seen>> PROVE RInv'
  OBVIOUS
<1>1. CASE RouterNext
  <2>1. CASE Admin /\ enforced /\ UNCHANGED routerVars
    BY <1>1, <2>1, AdminHolds, Aside DEF Next, routerVars, RInv, Shape
  <2>2. ASSUME NEW q \in Requests, NEW kind \in {"http", "tls"}, NEW host \in Hosts,
               NEW ip \in IPs, Arrive(q, kind, host, ip)
        PROVE  RInv'
    BY <1>1, <2>2, Arrives
  <2>3. ASSUME NEW q \in Requests, Serve(q) PROVE RInv'
    BY <1>1, <2>3, CallerUnknown, CallerKnown, Bound, PolicyRead, TokensRead, IdentityRead,
       Sent, Released DEF Serve
  <2>4. ASSUME NEW table \in Tables, Reload(table) PROVE RInv'
    BY <1>1, <2>4, Aside DEF Reload, vars
  <2> QED BY <1>1, <2>1, <2>2, <2>3, <2>4 DEF RouterNext
<1>2. CASE UNCHANGED <<vars, routerVars, seen>>
  <2>1. IInv'
    BY <1>2, Inductive DEF RInv, vars
  <2>2. UNCHANGED <<heap, held, routes, enforced, fallback, req, seen>>
    BY <1>2 DEF vars, routerVars
  <2>3. Shape'
    BY <2>2 DEF RInv, Shape
  <2>4. ASSUME NEW q \in Requests PROVE Points(q)'
    BY <2>2 DEF RInv, Points
  <2>5. ASSUME NEW q \in Requests PROVE Decided(q)'
    BY <2>2 DEF RInv, Decided, Settled, NoUpstream
  <2> QED BY <2>1, <2>3, <2>4, <2>5 DEF RInv
<1> QED BY <1>1, <1>2

LEMMA RouterInvariance == RouterSpec => []RInv
BY RouterStart, RouterInductive, PTL DEF RouterSpec

\* The state of the router has its type, through every step of the handlers.
THEOREM RouterTypeCorrect == RouterSpec => []RouterTypeOK
<1>1. RInv => RouterTypeOK
  BY DEF RInv, IInv, Shape, Handling, InFlight, Final, RouterTypeOK
<1> QED BY <1>1, RouterInvariance, PTL

\* A request is forwarded, and a certificate given, only under a binding that
\* was the caller's while the handler ran, whatever the admin operations do
\* between its lookup and its unlocked reads (ServeHTTP, GetCertificate).
THEOREM DecidesByCurrentBinding == RouterSpec => []DecisionLinearizes
<1>1. RInv => DecisionLinearizes
  BY DEF RInv, Decided, Settled, DecisionLinearizes, Final
<1> QED BY <1>1, RouterInvariance, PTL
===============================================================================
