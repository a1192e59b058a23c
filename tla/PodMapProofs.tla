---------------------------- MODULE PodMapProofs ----------------------------
(***************************************************************************)
(* Proofs about the pod map for any sets of pods, addresses, bindings,     *)
(* requests, payloads and heap addresses.                                  *)
(*                                                                         *)
(* The core of the inductive invariant is TypeOK with IndexCoherent: an    *)
(* operation only ever replaces, writes or drops the object registered     *)
(* under one UID, and IndexCoherent says that no address reaches another   *)
(* object of that UID.  Listed is needed for ExclusiveIPIndexed (a pod may *)
(* only drop addresses it was submitted with) and SyncProgress for         *)
(* SyncPrunes (every listed pod is registered or still to be added).       *)
(***************************************************************************)
EXTENDS PodMap, TLAPS

\* Every address of a registered pod was submitted for that pod.
Listed ==
  \A u \in Registered : \A ip \in Object(u).ips :
    \E i \in Submissions : i.uid = u /\ ip \in i.ips

\* How far SynchronizePods has come.
SyncProgress ==
  /\ sync.phase = "add" =>
       \A u \in sync.active : u \in Registered \/ \E i \in sync.todo : i.uid = u
  /\ sync.phase = "prune" => sync.active \subseteq Registered

IInv == TypeOK /\ IndexCoherent /\ Listed /\ ExclusiveIPIndexed /\ SyncProgress

\* The part of the invariant that the helpers running under pm.mu maintain.
MapOK ==
  /\ heap \in [Refs -> PodInfo \cup {Blank}]
  /\ byUID \in [UIDs -> Refs \cup {Nil}]
  /\ byIP \in [IPs -> Refs \cup {Nil}]
  /\ held \in [Requests -> Refs \cup {Nil}]
  /\ IndexCoherent

\* What Store leaves on the heap: typed, and h at every address in use.
LEMMA StoreHeap ==
  ASSUME NEW h \in [Refs -> PodInfo \cup {Blank}], Store(h)
  PROVE  /\ heap' \in [Refs -> PodInfo \cup {Blank}]
         /\ \A u \in UIDs : byUID'[u] \in Refs => heap'[byUID'[u]] = h[byUID'[u]]
         /\ \A ip \in IPs : byIP'[ip] \in Refs => heap'[byIP'[ip]] = h[byIP'[ip]]
  BY DEF Store, Reachable

\* A registered pod's object has the type of a PodInfo.
LEMMA ObjectType ==
  ASSUME MapOK
  PROVE  /\ \A u \in Registered : byUID[u] \in Refs /\ Object(u) \in PodInfo
         /\ \A ip \in IPs : byIP[ip] # Nil =>
              byIP[ip] \in Refs /\ heap[byIP[ip]] \in PodInfo
  BY ConstantsAssumption DEF MapOK, IndexCoherent, Registered, Object

\* Registering a pod keeps the maps coherent: the fresh object takes over the
\* UID and every listed address, and the superseded object loses the rest.
LEMMA AddKeeps ==
  ASSUME MapOK, NEW info \in PodInfo, addOrUpdateLocked(info)
  PROVE  /\ MapOK'
         /\ Binding(info) \in Grant
         /\ Registered' = Registered \cup {info.uid}
         /\ Object(info.uid)' = [info EXCEPT !.grant = Binding(info)]
         /\ \A v \in Registered \ {info.uid} :
              byUID'[v] = byUID[v] /\ Object(v)' = Object(v)
         /\ \A ip \in info.ips : byIP'[ip] = byUID'[info.uid]
         /\ \A ip \in IPs \ info.ips :
              /\ byIP'[ip] = IF ip \in Dropped(info) THEN Nil ELSE byIP[ip]
              /\ byIP'[ip] # Nil => heap'[byIP'[ip]] = heap[byIP[ip]]
<1>1. PICK r \in Fresh :
        /\ byUID' = [byUID EXCEPT ![info.uid] = r]
        /\ byIP' = [ip \in IPs |-> IF ip \in info.ips THEN r
                                   ELSE IF ip \in Dropped(info) THEN Nil
                                   ELSE byIP[ip]]
        /\ held' = held
        /\ Store([heap EXCEPT ![r] = [info EXCEPT !.grant = Binding(info)]])
  BY DEF addOrUpdateLocked
<1> DEFINE obj == [info EXCEPT !.grant = Binding(info)]
           h == [heap EXCEPT ![r] = obj]
<1>2. /\ r \in Refs
      /\ r # Nil
      /\ \A u \in UIDs : byUID[u] # r
      /\ \A ip \in IPs : byIP[ip] # r
  BY <1>1, ConstantsAssumption DEF Fresh, Reachable
<1>3. Binding(info) \in Grant
  BY ObjectType DEF Binding, Registered, Object, PodInfo
<1>4. obj \in PodInfo /\ obj.uid = info.uid /\ obj.ips = info.ips
  BY <1>3 DEF PodInfo
<1>5. h \in [Refs -> PodInfo \cup {Blank}]
  BY <1>2, <1>4 DEF MapOK
<1>6. /\ byUID' \in [UIDs -> Refs \cup {Nil}]
      /\ byIP' \in [IPs -> Refs \cup {Nil}]
      /\ held' \in [Requests -> Refs \cup {Nil}]
  BY <1>1, <1>2 DEF MapOK, PodInfo
<1>7. /\ heap' \in [Refs -> PodInfo \cup {Blank}]
      /\ \A u \in UIDs : byUID'[u] # Nil => heap'[byUID'[u]] = h[byUID'[u]]
      /\ \A ip \in IPs : byIP'[ip] # Nil => heap'[byIP'[ip]] = h[byIP'[ip]]
  <2>1. Store(h)
    BY <1>1
  <2> HIDE DEF h
  <2> QED BY <2>1, <1>5, <1>6, StoreHeap
<1>8. \A u \in UIDs : byUID'[u] # Nil => heap'[byUID'[u]] # Blank /\ heap'[byUID'[u]].uid = u
  <2> TAKE u \in UIDs
  <2>1. CASE u = info.uid
    BY <2>1, <1>1, <1>2, <1>4, <1>7, ConstantsAssumption DEF MapOK, PodInfo
  <2>2. CASE u # info.uid
    BY <2>2, <1>1, <1>2, <1>7 DEF MapOK, IndexCoherent, Registered, Object
  <2> QED BY <2>1, <2>2
<1>9. \A ip \in IPs : byIP'[ip] # Nil =>
        /\ heap'[byIP'[ip]] # Blank
        /\ byUID'[heap'[byIP'[ip]].uid] = byIP'[ip]
        /\ ip \in heap'[byIP'[ip]].ips
  <2> SUFFICES ASSUME NEW ip \in IPs, byIP'[ip] # Nil
               PROVE  /\ heap'[byIP'[ip]] # Blank
                      /\ byUID'[heap'[byIP'[ip]].uid] = byIP'[ip]
                      /\ ip \in heap'[byIP'[ip]].ips
    OBVIOUS
  <2>1. CASE ip \in info.ips
    <3>1. byIP'[ip] = r
      BY <2>1, <1>1
    <3>2. heap'[r] = obj
      BY <3>1, <1>7, <1>2, <1>5 DEF MapOK
    <3>3. byUID'[info.uid] = r
      BY <1>1 DEF MapOK, PodInfo
    <3> QED BY <3>1, <3>2, <3>3, <1>4, <2>1, ConstantsAssumption
  <2>2. CASE ip \notin info.ips
    <3>1. byIP'[ip] = byIP[ip] /\ ip \notin Dropped(info) /\ byIP[ip] # Nil
      BY <2>2, <1>1
    <3>2. heap'[byIP'[ip]] = heap[byIP[ip]]
      BY <3>1, <1>7, <1>2 DEF MapOK
    <3>3. heap[byIP[ip]] \in PodInfo /\ byUID[heap[byIP[ip]].uid] = byIP[ip] /\ ip \in heap[byIP[ip]].ips
      BY <3>1, ObjectType DEF MapOK, IndexCoherent
    <3>4. heap[byIP[ip]].uid # info.uid
      BY <3>1, <3>3, <2>2 DEF Dropped
    <3>5. byUID'[heap[byIP[ip]].uid] = byUID[heap[byIP[ip]].uid]
      BY <3>3, <3>4, <1>1 DEF MapOK, PodInfo
    <3> QED BY <3>1, <3>2, <3>3, <3>5, ConstantsAssumption
  <2> QED BY <2>1, <2>2
<1>10. MapOK'
  BY <1>6, <1>7, <1>8, <1>9 DEF MapOK, IndexCoherent, Registered, Object
<1>11. Registered' = Registered \cup {info.uid}
  BY <1>1, <1>2 DEF Registered, MapOK, PodInfo
<1>12. Object(info.uid)' = obj
  BY <1>1, <1>2, <1>7 DEF MapOK, PodInfo, Object
<1>13. \A v \in Registered \ {info.uid} :
         byUID'[v] = byUID[v] /\ Object(v)' = Object(v)
  BY <1>1, <1>2, <1>7 DEF MapOK, PodInfo, Object, Registered
<1>14. \A ip \in info.ips : byIP'[ip] = byUID'[info.uid]
  BY <1>1 DEF MapOK, PodInfo
<1>15. \A ip \in IPs \ info.ips :
         /\ byIP'[ip] = IF ip \in Dropped(info) THEN Nil ELSE byIP[ip]
         /\ byIP'[ip] # Nil => heap'[byIP'[ip]] = heap[byIP[ip]]
  BY <1>1, <1>2, <1>7 DEF MapOK
<1> HIDE DEF obj
<1> QED BY <1>3, <1>10, <1>11, <1>12, <1>13, <1>14, <1>15 DEF obj

\* Removing a pod drops its object and exactly the addresses that could
\* still reach it.
LEMMA RemoveKeeps ==
  ASSUME MapOK, NEW u \in Registered, removeLocked(u)
  PROVE  /\ MapOK'
         /\ Registered' = Registered \ {u}
         /\ \A v \in Registered \ {u} : byUID'[v] = byUID[v] /\ Object(v)' = Object(v)
         /\ \A ip \in IPs : byIP'[ip] = IF ip \in Object(u).ips THEN Nil ELSE byIP[ip]
         /\ \A ip \in IPs : byIP'[ip] # Nil => heap'[byIP'[ip]] = heap[byIP[ip]]
<1>1. u \in UIDs /\ Object(u) \in PodInfo
  BY ObjectType DEF Registered
<1>2. /\ byUID' \in [UIDs -> Refs \cup {Nil}]
      /\ byIP' \in [IPs -> Refs \cup {Nil}]
      /\ held' \in [Requests -> Refs \cup {Nil}]
  BY <1>1 DEF removeLocked, MapOK
<1>3. /\ heap' \in [Refs -> PodInfo \cup {Blank}]
      /\ \A v \in UIDs : byUID'[v] # Nil => heap'[byUID'[v]] = heap[byUID'[v]]
      /\ \A ip \in IPs : byIP'[ip] # Nil => heap'[byIP'[ip]] = heap[byIP'[ip]]
  BY <1>2, StoreHeap DEF removeLocked, MapOK
<1>4. \A v \in UIDs : byUID'[v] # Nil => byUID'[v] = byUID[v] /\ v # u
  BY <1>1 DEF removeLocked, MapOK
<1>5. \A ip \in IPs : byIP'[ip] # Nil => byIP'[ip] = byIP[ip] /\ ip \notin Object(u).ips
  BY DEF removeLocked, Object
<1>6. \A ip \in IPs : byIP'[ip] # Nil =>
        /\ heap[byIP[ip]] \in PodInfo
        /\ heap[byIP[ip]].uid # u
        /\ byUID'[heap[byIP[ip]].uid] = byIP[ip]
        /\ ip \in heap[byIP[ip]].ips
  <2> SUFFICES ASSUME NEW ip \in IPs, byIP'[ip] # Nil
               PROVE  /\ heap[byIP[ip]] \in PodInfo
                      /\ heap[byIP[ip]].uid # u
                      /\ byUID'[heap[byIP[ip]].uid] = byIP[ip]
                      /\ ip \in heap[byIP[ip]].ips
    OBVIOUS
  <2>1. /\ heap[byIP[ip]] \in PodInfo
        /\ byUID[heap[byIP[ip]].uid] = byIP[ip]
        /\ ip \in heap[byIP[ip]].ips
    BY <1>5, ObjectType DEF MapOK, IndexCoherent
  <2>2. heap[byIP[ip]].uid # u
    BY <2>1, <1>5 DEF Object
  <2>3. byUID'[heap[byIP[ip]].uid] = byUID[heap[byIP[ip]].uid]
    BY <2>1, <2>2, <1>1 DEF removeLocked, MapOK, PodInfo
  <2> QED BY <2>1, <2>2, <2>3
<1>7. \A v \in UIDs : byUID'[v] # Nil => heap'[byUID'[v]] # Blank /\ heap'[byUID'[v]].uid = v
  BY <1>3, <1>4 DEF MapOK, IndexCoherent, Registered, Object
<1>8. \A ip \in IPs : byIP'[ip] # Nil =>
        /\ heap'[byIP'[ip]] # Blank
        /\ byUID'[heap'[byIP'[ip]].uid] = byIP'[ip]
        /\ ip \in heap'[byIP'[ip]].ips
  BY <1>3, <1>5, <1>6, ConstantsAssumption
<1>9. MapOK'
  BY <1>2, <1>3, <1>7, <1>8 DEF MapOK, IndexCoherent, Registered, Object
<1>10. Registered' = Registered \ {u}
  BY <1>1, <1>4 DEF Registered, removeLocked, MapOK
<1>11. \A v \in Registered \ {u} : byUID'[v] = byUID[v] /\ Object(v)' = Object(v)
  BY <1>1, <1>3 DEF Registered, Object, removeLocked, MapOK
<1>12. \A ip \in IPs : byIP'[ip] = IF ip \in Object(u).ips THEN Nil ELSE byIP[ip]
  BY DEF removeLocked, Object
<1>13. \A ip \in IPs : byIP'[ip] # Nil => heap'[byIP'[ip]] = heap[byIP[ip]]
  BY <1>3, <1>5
<1> QED BY <1>9, <1>10, <1>11, <1>12, <1>13

\* Writing a binding through byUID keeps the maps coherent.
LEMMA WriteKeeps ==
  ASSUME MapOK, NEW u \in Registered, NEW g \in Grant,
         UNCHANGED <<byUID, byIP, held>>,
         Store([heap EXCEPT ![byUID[u]] = [@ EXCEPT !.grant = g]])
  PROVE  /\ MapOK'
         /\ Object(u)' = [Object(u) EXCEPT !.grant = g]
         /\ \A v \in Registered \ {u} : Object(v)' = Object(v)
         /\ \A ip \in IPs : byIP[ip] # Nil =>
              heap'[byIP[ip]] = IF heap[byIP[ip]].uid = u
                                THEN [heap[byIP[ip]] EXCEPT !.grant = g]
                                ELSE heap[byIP[ip]]
<1> DEFINE obj == [Object(u) EXCEPT !.grant = g]
           h == [heap EXCEPT ![byUID[u]] = obj]
<1>1. byUID[u] \in Refs /\ Object(u) \in PodInfo /\ Object(u).uid = u /\ u \in UIDs
  BY ObjectType DEF Registered, MapOK, IndexCoherent
<1>2. obj \in PodInfo /\ obj.uid = u /\ obj.ips = Object(u).ips
  BY <1>1 DEF PodInfo
<1>3. h \in [Refs -> PodInfo \cup {Blank}]
  BY <1>1, <1>2 DEF MapOK
<1>4. Store(h)
  BY <1>1 DEF MapOK, Object
<1>5. /\ heap' \in [Refs -> PodInfo \cup {Blank}]
      /\ \A v \in UIDs : byUID[v] # Nil => heap'[byUID[v]] = h[byUID[v]]
      /\ \A ip \in IPs : byIP[ip] # Nil => heap'[byIP[ip]] = h[byIP[ip]]
  <2> HIDE DEF h
  <2> QED BY <1>3, <1>4, StoreHeap DEF MapOK
<1>6. heap'[byUID[u]] = obj
  BY <1>1, <1>5, ConstantsAssumption DEF MapOK
<1>7. \A v \in Registered \ {u} : heap'[byUID[v]] = heap[byUID[v]]
  BY <1>1, <1>5 DEF MapOK, IndexCoherent, Registered, Object
<1>8. \A ip \in IPs : byIP[ip] # Nil =>
        /\ (heap[byIP[ip]].uid = u => byIP[ip] = byUID[u] /\ heap'[byIP[ip]] = obj)
        /\ (heap[byIP[ip]].uid # u => heap'[byIP[ip]] = heap[byIP[ip]])
  <2> SUFFICES ASSUME NEW ip \in IPs, byIP[ip] # Nil
               PROVE  /\ (heap[byIP[ip]].uid = u => byIP[ip] = byUID[u] /\ heap'[byIP[ip]] = obj)
                      /\ (heap[byIP[ip]].uid # u => heap'[byIP[ip]] = heap[byIP[ip]])
    OBVIOUS
  <2>1. byUID[heap[byIP[ip]].uid] = byIP[ip]
    BY DEF MapOK, IndexCoherent
  <2>2. CASE heap[byIP[ip]].uid = u
    BY <2>1, <2>2, <1>6
  <2>3. CASE heap[byIP[ip]].uid # u
    BY <2>1, <2>3, <1>1, <1>5 DEF MapOK, Object
  <2> QED BY <2>2, <2>3
<1>9. IndexCoherent'
  <2>1. \A v \in Registered : heap'[byUID[v]] # Blank /\ heap'[byUID[v]].uid = v
    BY <1>2, <1>6, <1>7, ConstantsAssumption DEF MapOK, IndexCoherent, Object
  <2>2. \A ip \in IPs : byIP[ip] # Nil =>
          /\ heap'[byIP[ip]] # Blank
          /\ byUID[heap'[byIP[ip]].uid] = byIP[ip]
          /\ ip \in heap'[byIP[ip]].ips
    <3> SUFFICES ASSUME NEW ip \in IPs, byIP[ip] # Nil
                 PROVE  /\ heap'[byIP[ip]] # Blank
                        /\ byUID[heap'[byIP[ip]].uid] = byIP[ip]
                        /\ ip \in heap'[byIP[ip]].ips
      OBVIOUS
    <3>1. /\ heap[byIP[ip]] # Blank
          /\ byUID[heap[byIP[ip]].uid] = byIP[ip]
          /\ ip \in heap[byIP[ip]].ips
      BY DEF MapOK, IndexCoherent
    <3> HIDE DEF obj
    <3>2. CASE heap[byIP[ip]].uid = u
      BY <3>1, <3>2, <1>2, <1>8, ConstantsAssumption DEF Object
    <3>3. CASE heap[byIP[ip]].uid # u
      BY <3>1, <3>3, <1>8
    <3> QED BY <3>2, <3>3
  <2> QED BY <2>1, <2>2 DEF IndexCoherent, Registered, Object
<1>10. MapOK'
  BY <1>5, <1>9 DEF MapOK
<1>11. \A ip \in IPs : byIP[ip] # Nil =>
        heap'[byIP[ip]] = IF heap[byIP[ip]].uid = u
                          THEN [heap[byIP[ip]] EXCEPT !.grant = g]
                          ELSE heap[byIP[ip]]
  BY <1>8 DEF Object
<1> QED BY <1>6, <1>7, <1>10, <1>11 DEF Object

\* Binding an unknown UID registers an object no address leads to.
LEMMA PlaceholderKeeps ==
  ASSUME MapOK, NEW u \in UIDs \ Registered, NEW g \in Grant, NEW r \in Fresh,
         UNCHANGED <<byIP, held>>,
         byUID' = [byUID EXCEPT ![u] = r],
         Store([heap EXCEPT ![r] = [uid |-> u, ips |-> {}, annotation |-> Unbound, grant |-> g]])
  PROVE  /\ MapOK'
         /\ Registered' = Registered \cup {u}
         /\ Object(u)' = [uid |-> u, ips |-> {}, annotation |-> Unbound, grant |-> g]
         /\ \A v \in Registered : byUID'[v] = byUID[v] /\ Object(v)' = Object(v)
         /\ \A ip \in IPs : byIP[ip] # Nil => heap'[byIP[ip]] = heap[byIP[ip]]
<1> DEFINE obj == [uid |-> u, ips |-> {}, annotation |-> Unbound, grant |-> g]
           h == [heap EXCEPT ![r] = obj]
<1>1. obj \in PodInfo /\ obj.uid = u
  BY DEF PodInfo, Grant
<1>2. /\ r \in Refs /\ r # Nil
      /\ \A v \in UIDs : byUID[v] # r
      /\ \A ip \in IPs : byIP[ip] # r
  BY ConstantsAssumption DEF Fresh, Reachable
<1>3. h \in [Refs -> PodInfo \cup {Blank}]
  BY <1>1, <1>2 DEF MapOK
<1>4. byUID' \in [UIDs -> Refs \cup {Nil}]
  BY <1>2 DEF MapOK
<1>5. /\ heap' \in [Refs -> PodInfo \cup {Blank}]
      /\ \A v \in UIDs : byUID'[v] # Nil => heap'[byUID'[v]] = h[byUID'[v]]
      /\ \A ip \in IPs : byIP[ip] # Nil => heap'[byIP[ip]] = h[byIP[ip]]
  <2>1. Store(h)
    OBVIOUS
  <2> HIDE DEF h
  <2> QED BY <2>1, <1>3, <1>4, StoreHeap DEF MapOK
<1>6. \A v \in Registered : byUID'[v] = byUID[v] /\ heap'[byUID'[v]] = heap[byUID[v]]
  BY <1>2, <1>5 DEF MapOK, Registered
<1>7. byUID'[u] = r /\ heap'[byUID'[u]] = obj
  BY <1>2, <1>5 DEF MapOK
<1>8. \A ip \in IPs : byIP[ip] # Nil => heap'[byIP[ip]] = heap[byIP[ip]]
  BY <1>2, <1>5 DEF MapOK
<1>9. Registered' = Registered \cup {u}
  BY <1>2 DEF Registered, MapOK
<1>10. \A v \in Registered' : heap'[byUID'[v]] # Blank /\ heap'[byUID'[v]].uid = v
  <2> HIDE DEF obj
  <2> QED BY <1>1, <1>6, <1>7, <1>9, ConstantsAssumption DEF MapOK, IndexCoherent, Object
<1>11. \A ip \in IPs : byIP[ip] # Nil =>
         /\ heap'[byIP[ip]] # Blank
         /\ byUID'[heap'[byIP[ip]].uid] = byIP[ip]
         /\ ip \in heap'[byIP[ip]].ips
  <2> SUFFICES ASSUME NEW ip \in IPs, byIP[ip] # Nil
               PROVE  /\ heap'[byIP[ip]] # Blank
                      /\ byUID'[heap'[byIP[ip]].uid] = byIP[ip]
                      /\ ip \in heap'[byIP[ip]].ips
    OBVIOUS
  <2>1. /\ heap[byIP[ip]] \in PodInfo
        /\ byUID[heap[byIP[ip]].uid] = byIP[ip]
        /\ ip \in heap[byIP[ip]].ips
    BY ObjectType DEF MapOK, IndexCoherent
  <2>2. heap[byIP[ip]].uid \in Registered
    BY <2>1 DEF Registered, PodInfo
  <2> QED BY <2>1, <2>2, <1>6, <1>8, ConstantsAssumption
<1>12. MapOK'
  BY <1>4, <1>5, <1>10, <1>11 DEF MapOK, IndexCoherent, Object
<1> QED BY <1>6, <1>7, <1>8, <1>9, <1>12 DEF Object

\* Letting go of a request's pointer changes neither map.
LEMMA FinishKeeps ==
  ASSUME MapOK, NEW q \in Requests, Finish(q)
  PROVE  /\ MapOK'
         /\ \A v \in Registered : Object(v)' = Object(v)
         /\ \A ip \in IPs : byIP[ip] # Nil => heap'[byIP[ip]] = heap[byIP[ip]]
<1>1. UNCHANGED <<byUID, byIP, sync>> /\ held' \in [Requests -> Refs \cup {Nil}]
  BY DEF Finish, MapOK
<1>2. /\ heap' \in [Refs -> PodInfo \cup {Blank}]
      /\ \A v \in UIDs : byUID[v] # Nil => heap'[byUID[v]] = heap[byUID[v]]
      /\ \A ip \in IPs : byIP[ip] # Nil => heap'[byIP[ip]] = heap[byIP[ip]]
  BY <1>1, StoreHeap DEF Finish, MapOK
<1>3. IndexCoherent'
  BY <1>1, <1>2 DEF MapOK, IndexCoherent, Registered, Object
<1> QED BY <1>1, <1>2, <1>3 DEF MapOK, Registered, Object

\* Registering a submitted pod keeps Listed and ExclusiveIPIndexed.
LEMMA AddKeepsOwners ==
  ASSUME MapOK, Listed, ExclusiveIPIndexed, NEW info \in Submissions,
         addOrUpdateLocked(info)
  PROVE  Listed' /\ ExclusiveIPIndexed'
<1>1. info \in PodInfo /\ info.uid \in UIDs /\ info.ips \subseteq IPs
  BY ConstantsAssumption DEF PodInfo
<1> DEFINE obj == [info EXCEPT !.grant = Binding(info)]
<1>2. /\ Registered' = Registered \cup {info.uid}
      /\ Object(info.uid)' = obj
      /\ \A v \in Registered \ {info.uid} :
           byUID'[v] = byUID[v] /\ Object(v)' = Object(v)
      /\ \A ip \in info.ips : byIP'[ip] = byUID'[info.uid]
      /\ \A ip \in IPs \ info.ips :
           byIP'[ip] = IF ip \in Dropped(info) THEN Nil ELSE byIP[ip]
  BY <1>1, AddKeeps
<1>3. obj.ips = info.ips
  BY <1>1 DEF PodInfo
<1> HIDE DEF obj
<1>4. Listed'
  BY <1>1, <1>2, <1>3 DEF Listed
<1>5. ASSUME NEW u \in Registered', NEW ip \in Object(u)'.ips, Exclusive(u, ip)
      PROVE  byIP'[ip] = byUID'[u]
  <2>1. CASE u = info.uid
    BY <2>1, <1>2, <1>3
  <2>2. CASE u # info.uid
    <3>1. u \in Registered /\ ip \in Object(u).ips /\ byUID'[u] = byUID[u]
      BY <2>2, <1>2, <1>5
    <3>2. ip \in IPs /\ byIP[ip] = byUID[u]
      BY <3>1, <1>5, ObjectType DEF ExclusiveIPIndexed, PodInfo
    <3>3. ip \notin info.ips
      BY <2>2, <1>5 DEF Exclusive
    <3>4. ip \notin Dropped(info)
      BY <1>1, <1>5, <2>2 DEF Dropped, Listed, Exclusive, Registered, Object
    <3> QED BY <3>1, <3>2, <3>3, <3>4, <1>2
  <2> QED BY <2>1, <2>2
<1> QED BY <1>4, <1>5 DEF ExclusiveIPIndexed, Exclusive

\* So does removing a pod: it takes only addresses that were listed for it.
LEMMA RemoveKeepsOwners ==
  ASSUME MapOK, Listed, ExclusiveIPIndexed, NEW u \in Registered, removeLocked(u)
  PROVE  Listed' /\ ExclusiveIPIndexed'
<1>1. /\ Registered' = Registered \ {u}
      /\ \A v \in Registered \ {u} : byUID'[v] = byUID[v] /\ Object(v)' = Object(v)
      /\ \A ip \in IPs : byIP'[ip] = IF ip \in Object(u).ips THEN Nil ELSE byIP[ip]
  BY RemoveKeeps
<1>2. Listed'
  BY <1>1 DEF Listed
<1>3. ASSUME NEW v \in Registered', NEW ip \in Object(v)'.ips, Exclusive(v, ip)
      PROVE  byIP'[ip] = byUID'[v]
  <2>1. v \in Registered /\ v # u /\ ip \in Object(v).ips
    BY <1>1
  <2>2. ip \in IPs
    BY <2>1, ObjectType DEF PodInfo
  <2>3. ip \notin Object(u).ips
    BY <2>1, <1>3 DEF Listed, Exclusive
  <2> QED BY <2>1, <2>2, <2>3, <1>1, <1>3 DEF ExclusiveIPIndexed
<1> QED BY <1>2, <1>3 DEF ExclusiveIPIndexed, Exclusive

\* A step that leaves byIP and every pod's addresses alone keeps them too.
LEMMA QuietKeepsOwners ==
  ASSUME MapOK, Listed, ExclusiveIPIndexed, UNCHANGED byIP,
         Registered \subseteq Registered',
         \A v \in Registered : byUID'[v] = byUID[v] /\ Object(v)'.ips = Object(v).ips,
         \A v \in Registered' \ Registered : Object(v)'.ips = {}
  PROVE  Listed' /\ ExclusiveIPIndexed'
<1>1. \A v \in Registered' : \A ip \in Object(v)'.ips :
        v \in Registered /\ ip \in Object(v).ips /\ byUID'[v] = byUID[v]
  OBVIOUS
<1>2. Listed'
  BY <1>1 DEF Listed
<1>3. ExclusiveIPIndexed'
  BY <1>1 DEF ExclusiveIPIndexed, Exclusive
<1> QED BY <1>2, <1>3

LEMMA Initial == Init => IInv
<1> SUFFICES ASSUME Init PROVE IInv
  OBVIOUS
<1>1. Registered = {}
  BY DEF Init, Registered
<1> QED BY <1>1 DEF Init, NoSync, IInv, TypeOK, IndexCoherent, Listed,
                    ExclusiveIPIndexed, SyncProgress

\* Every step of the pod map keeps the invariant.
LEMMA Inductive == IInv /\ [Next]_vars => IInv'
<1> SUFFICES ASSUME IInv, [Next]_vars PROVE IInv'
  OBVIOUS
<1> USE DEF IInv
<1>0. MapOK
  BY DEF MapOK, TypeOK
<1> DEFINE SyncType == sync \in [phase : {"idle", "add", "prune"},
                                 todo : SUBSET Submissions, active : SUBSET UIDs]
<1>t. SyncType
  BY DEF TypeOK
<1>a. ASSUME MapOK', Listed', ExclusiveIPIndexed', SyncType', SyncProgress'
      PROVE  IInv'
  BY <1>a DEF MapOK, TypeOK
<1>1. ASSUME NEW info \in Submissions, AddOrUpdatePod(info) PROVE IInv'
  <2>1. addOrUpdateLocked(info) /\ sync' = sync /\ sync.phase = "idle" /\ info \in PodInfo
    BY <1>1, ConstantsAssumption DEF AddOrUpdatePod, Unlocked
  <2>2. MapOK' /\ Listed' /\ ExclusiveIPIndexed'
    BY <2>1, <1>0, AddKeeps, AddKeepsOwners
  <2> QED BY <2>1, <2>2, <1>t, <1>a DEF SyncProgress
<1>2. ASSUME NEW u \in UIDs, RemovePod(u) PROVE IInv'
  <2>1. removeLocked(u) /\ u \in Registered /\ sync' = sync /\ sync.phase = "idle"
    BY <1>2 DEF RemovePod, Unlocked
  <2>2. MapOK' /\ Listed' /\ ExclusiveIPIndexed'
    BY <2>1, <1>0, RemoveKeeps, RemoveKeepsOwners
  <2> QED BY <2>1, <2>2, <1>t, <1>a DEF SyncProgress
<1>3. ASSUME UNCHANGED <<heap, byUID, byIP>>, held' \in [Requests -> Refs \cup {Nil}]
      PROVE  MapOK' /\ Listed' /\ ExclusiveIPIndexed' /\ Registered' = Registered
  BY <1>0, <1>3 DEF MapOK, IndexCoherent, Listed, ExclusiveIPIndexed, Exclusive,
                    Registered, Object
<1>4. ASSUME NEW pods \in Lists, SynchronizeBegin(pods) PROVE IInv'
  <2>1. \A i \in Submissions : i.uid \in UIDs
    BY ConstantsAssumption DEF PodInfo
  <2>2. SyncType' /\ SyncProgress'
    BY <2>1, <1>4 DEF SynchronizeBegin, SyncProgress, Lists
  <2> QED BY <2>2, <1>0, <1>3, <1>4, <1>a DEF SynchronizeBegin, MapOK
<1>5. ASSUME SynchronizeAdd PROVE IInv'
  <2>1. PICK info \in sync.todo :
          addOrUpdateLocked(info) /\ sync' = [sync EXCEPT !.todo = @ \ {info}]
    BY <1>5 DEF SynchronizeAdd
  <2>2. info \in Submissions /\ info \in PodInfo /\ sync.phase = "add"
    BY <1>5, <1>t, ConstantsAssumption DEF SynchronizeAdd
  <2>3. MapOK' /\ Listed' /\ ExclusiveIPIndexed' /\ Registered' = Registered \cup {info.uid}
    BY <2>1, <2>2, <1>0, AddKeeps, AddKeepsOwners
  <2>4. SyncType' /\ SyncProgress'
    BY <2>1, <2>2, <2>3, <1>t DEF SyncProgress
  <2> QED BY <2>3, <2>4, <1>a
<1>6. ASSUME SynchronizeAdded PROVE IInv'
  <2>1. SyncType' /\ SyncProgress'
    BY <1>6, <1>t DEF SynchronizeAdded, SyncProgress, Registered
  <2> QED BY <2>1, <1>0, <1>3, <1>6, <1>a DEF SynchronizeAdded, MapOK
<1>7. ASSUME SynchronizePrune PROVE IInv'
  <2>1. PICK u \in Registered \ sync.active : removeLocked(u)
    BY <1>7 DEF SynchronizePrune
  <2>2. MapOK' /\ Listed' /\ ExclusiveIPIndexed' /\ Registered' = Registered \ {u}
    BY <2>1, <1>0, RemoveKeeps, RemoveKeepsOwners
  <2> QED BY <2>1, <2>2, <1>7, <1>t, <1>a DEF SynchronizePrune, SyncProgress
<1>8. ASSUME SynchronizeEnd PROVE IInv'
  <2>1. SyncType' /\ SyncProgress'
    BY <1>8 DEF SynchronizeEnd, SyncProgress, NoSync
  <2> QED BY <2>1, <1>0, <1>3, <1>8, <1>a DEF SynchronizeEnd, MapOK
<1>9. ASSUME NEW q \in Requests, NEW ip \in IPs, GetPodByIP(q, ip) PROVE IInv'
  <2>1. held' \in [Requests -> Refs \cup {Nil}]
    BY <1>0, <1>9 DEF GetPodByIP, MapOK
  <2> QED BY <2>1, <1>t, <1>3, <1>9, <1>a DEF GetPodByIP, SyncProgress
<1>10. ASSUME NEW q \in Requests, Finish(q) PROVE IInv'
  <2>1. /\ MapOK' /\ UNCHANGED <<byUID, byIP, sync>> /\ Registered' = Registered
        /\ \A v \in Registered : Object(v)' = Object(v)
    BY <1>0, <1>10, FinishKeeps DEF Finish, Registered
  <2>2. Listed' /\ ExclusiveIPIndexed'
    BY <2>1, <1>0, QuietKeepsOwners
  <2> QED BY <2>1, <2>2, <1>t, <1>a DEF SyncProgress
<1>11. ASSUME NEW u \in UIDs, NEW g \in Grants, Bind(u, g) PROVE IInv'
  <2>1. UNCHANGED <<byIP, held, sync>> /\ sync.phase = "idle" /\ g \in Grant
    BY <1>11 DEF Bind, Unlocked, Grant
  <2>2. MapOK' /\ Listed' /\ ExclusiveIPIndexed'
    <3>1. CASE u \in Registered
      <4>1. UNCHANGED byUID /\ Store([heap EXCEPT ![byUID[u]] = [@ EXCEPT !.grant = g]])
        BY <3>1, <1>11 DEF Bind
      <4>2. /\ MapOK'
            /\ Object(u)' = [Object(u) EXCEPT !.grant = g]
            /\ \A v \in Registered \ {u} : Object(v)' = Object(v)
        BY <3>1, <4>1, <2>1, <1>0, WriteKeeps
      <4>3. Object(u)'.ips = Object(u).ips
        BY <3>1, <4>2, <1>0, ObjectType DEF PodInfo
      <4> QED BY <4>1, <4>2, <4>3, <2>1, <1>0, QuietKeepsOwners DEF Registered
    <3>2. CASE u \notin Registered
      <4>1. PICK r \in Fresh :
              /\ byUID' = [byUID EXCEPT ![u] = r]
              /\ Store([heap EXCEPT ![r] = [uid |-> u, ips |-> {},
                                            annotation |-> Unbound, grant |-> g]])
        BY <3>2, <1>11 DEF Bind
      <4>2. /\ MapOK'
            /\ Registered' = Registered \cup {u}
            /\ Object(u)' = [uid |-> u, ips |-> {}, annotation |-> Unbound, grant |-> g]
            /\ \A v \in Registered : byUID'[v] = byUID[v] /\ Object(v)' = Object(v)
        BY <3>2, <4>1, <2>1, <1>0, PlaceholderKeeps
      <4> QED BY <4>2, <2>1, <1>0, QuietKeepsOwners
    <3> QED BY <3>1, <3>2
  <2> QED BY <2>1, <2>2, <1>t, <1>a DEF SyncProgress
<1>12. ASSUME NEW u \in UIDs, Unbind(u) PROVE IInv'
  <2>1. /\ UNCHANGED <<byUID, byIP, held, sync>> /\ u \in Registered /\ Unbound \in Grant
        /\ Store([heap EXCEPT ![byUID[u]] = [@ EXCEPT !.grant = Unbound]])
        /\ sync.phase = "idle"
    BY <1>12 DEF Unbind, Grant, Unlocked
  <2>2. /\ MapOK'
        /\ Object(u)' = [Object(u) EXCEPT !.grant = Unbound]
        /\ \A v \in Registered \ {u} : Object(v)' = Object(v)
    BY <2>1, <1>0, WriteKeeps
  <2>3. Object(u)'.ips = Object(u).ips
    BY <2>1, <2>2, <1>0, ObjectType DEF PodInfo
  <2>4. Listed' /\ ExclusiveIPIndexed'
    BY <2>1, <2>2, <2>3, <1>0, QuietKeepsOwners DEF Registered
  <2> QED BY <2>1, <2>2, <2>4, <1>t, <1>a DEF SyncProgress
<1>13. CASE UNCHANGED vars
  BY <1>13, <1>0, <1>t, <1>3, <1>a DEF vars, MapOK, SyncProgress
<1> QED BY <1>1, <1>2, <1>4, <1>5, <1>6, <1>7, <1>8, <1>9, <1>10, <1>11, <1>12, <1>13
        DEF Next, Admin

LEMMA Invariance == Spec => []IInv
  BY Initial, Inductive, PTL DEF Spec

\* The variables keep their types.
THEOREM TypeCorrect == Spec => []TypeOK
<1>1. IInv => TypeOK
  BY DEF IInv
<1> QED BY <1>1, Invariance, PTL

\* Whatever an address resolves to is the object registered under its UID:
\* requests read the objects Bind and Unbind write.
THEOREM Coherence == Spec => []IndexCoherent
<1>1. IInv => IndexCoherent
  BY DEF IInv
<1> QED BY <1>1, Invariance, PTL

\* An address only one pod ever lists resolves as long as that pod is there.
THEOREM ExclusiveAddresses == Spec => []ExclusiveIPIndexed
<1>1. IInv => ExclusiveIPIndexed
  BY DEF IInv
<1> QED BY <1>1, Invariance, PTL

\* Once Unbind has run, no address leads to a binding of that pod
\* (docs/design/spikes/nri.md, "Unbind Reversion").
THEOREM UnbindTakesEffect == Spec => UnbindReverts
<1> DEFINE A == \A u \in UIDs : Unbind(u) =>
                  \A ip \in IPs : (byIP'[ip] # Nil /\ heap'[byIP'[ip]].uid = u)
                                   => heap'[byIP'[ip]].grant = Unbound
<1>1. IInv /\ [Next]_vars => [A]_vars
  <2> SUFFICES ASSUME IInv, NEW u \in UIDs, Unbind(u), NEW ip \in IPs,
                      byIP'[ip] # Nil, heap'[byIP'[ip]].uid = u
               PROVE  heap'[byIP'[ip]].grant = Unbound
    OBVIOUS
  <2>1. /\ MapOK /\ UNCHANGED <<byUID, byIP, held>> /\ u \in Registered /\ Unbound \in Grant
        /\ Store([heap EXCEPT ![byUID[u]] = [@ EXCEPT !.grant = Unbound]])
    BY DEF IInv, TypeOK, MapOK, Unbind, Grant
  <2>2. heap'[byIP[ip]] = IF heap[byIP[ip]].uid = u
                          THEN [heap[byIP[ip]] EXCEPT !.grant = Unbound]
                          ELSE heap[byIP[ip]]
    BY <2>1, WriteKeeps
  <2>3. heap[byIP[ip]] \in PodInfo
    BY <2>1, ObjectType
  <2> QED BY <2>1, <2>2, <2>3 DEF PodInfo
<1> QED BY <1>1, Invariance, PTL DEF Spec, UnbindReverts

\* SynchronizePods returns with exactly the listed pods registered, and no
\* address leading to any other.
THEOREM SyncIsExact == Spec => SyncPrunes
<1> DEFINE A == SynchronizeEnd =>
                  /\ Registered' = sync.active
                  /\ \A ip \in IPs : byIP'[ip] # Nil => heap'[byIP'[ip]].uid \in sync.active
<1>1. IInv /\ [Next]_vars => [A]_vars
  <2> SUFFICES ASSUME IInv, SynchronizeEnd
               PROVE  /\ Registered' = sync.active
                      /\ \A ip \in IPs : byIP'[ip] # Nil => heap'[byIP'[ip]].uid \in sync.active
    OBVIOUS
  <2>1. MapOK /\ UNCHANGED <<heap, byUID, byIP>> /\ Registered = sync.active
    BY DEF IInv, TypeOK, MapOK, SynchronizeEnd, SyncProgress
  <2>2. \A ip \in IPs : byIP[ip] # Nil => heap[byIP[ip]].uid \in Registered
    BY <2>1, ObjectType DEF MapOK, IndexCoherent, Registered, PodInfo
  <2> QED BY <2>1, <2>2 DEF Registered
<1> QED BY <1>1, Invariance, PTL DEF Spec, SyncPrunes

\* Only Bind and Unbind change the binding of a pod that stays registered:
\* re-registration and synchronisation carry it over.
THEOREM BindingsSurvive == Spec => GrantStable
<1> DEFINE A == \A u \in Registered \cap Registered' :
                  \/ Object(u)'.grant = Object(u).grant
                  \/ Unbind(u)
                  \/ \E g \in Grants : Bind(u, g)
<1>1. IInv /\ [Next]_vars => [A]_vars
  <2> SUFFICES ASSUME IInv, Next, NEW u \in Registered, u \in Registered'
               PROVE  \/ Object(u)'.grant = Object(u).grant
                      \/ Unbind(u)
                      \/ \E g \in Grants : Bind(u, g)
    OBVIOUS
  <2>0. MapOK /\ u \in UIDs /\ sync.todo \subseteq PodInfo /\ Submissions \subseteq PodInfo
    BY ConstantsAssumption DEF IInv, TypeOK, MapOK, Registered
  <2>1. ASSUME NEW info \in PodInfo, addOrUpdateLocked(info)
        PROVE  Object(u)'.grant = Object(u).grant
    <3>1. CASE info.uid = u
      <4>1. Object(u)' = [info EXCEPT !.grant = Binding(info)]
        BY <2>0, <2>1, <3>1, AddKeeps
      <4>2. Binding(info) = Object(u).grant
        BY <3>1 DEF Binding, Object, Registered
      <4> QED BY <4>1, <4>2 DEF PodInfo
    <3>2. CASE info.uid # u
      BY <2>0, <2>1, <3>2, AddKeeps
    <3> QED BY <3>1, <3>2
  <2>2. ASSUME NEW v \in Registered, removeLocked(v)
        PROVE  Object(u)'.grant = Object(u).grant
    BY <2>0, <2>2, RemoveKeeps
  <2>3. ASSUME NEW v \in UIDs, NEW g \in Grant, v # u, Bind(v, g)
        PROVE  Object(u)'.grant = Object(u).grant
    <3>1. CASE v \in Registered
      BY <2>0, <2>3, <3>1, WriteKeeps DEF Bind
    <3>2. CASE v \notin Registered
      <4>1. PICK r \in Fresh :
              /\ byUID' = [byUID EXCEPT ![v] = r]
              /\ Store([heap EXCEPT ![r] = [uid |-> v, ips |-> {},
                                            annotation |-> Unbound, grant |-> g]])
        BY <2>3, <3>2 DEF Bind
      <4> QED BY <4>1, <2>0, <2>3, <3>2, PlaceholderKeeps DEF Bind
    <3> QED BY <3>1, <3>2
  <2>4. ASSUME NEW v \in UIDs, v # u, Unbind(v)
        PROVE  Object(u)'.grant = Object(u).grant
    BY <2>0, <2>4, WriteKeeps DEF Unbind, Grant
  <2>5. ASSUME UNCHANGED <<heap, byUID>>
        PROVE  Object(u)'.grant = Object(u).grant
    BY <2>5 DEF Object
  <2>6. ASSUME NEW q \in Requests, Finish(q)
        PROVE  Object(u)'.grant = Object(u).grant
    BY <2>0, <2>6, FinishKeeps
  <2> QED BY <2>0, <2>1, <2>2, <2>3, <2>4, <2>5, <2>6
          DEF Next, Admin, AddOrUpdatePod, RemovePod, SynchronizeBegin, SynchronizeAdd,
              SynchronizeAdded, SynchronizePrune, SynchronizeEnd, GetPodByIP, Grant
<1> QED BY <1>1, Invariance, PTL DEF Spec, GrantStable

-----------------------------------------------------------------------------
(* The pod map implements the registry of module PodRegistry.              *)

PodRow(u) ==
  IF byUID[u] = Nil THEN Nil ELSE [ips |-> Object(u).ips, grant |-> Object(u).grant]

AnswerRow(ip) ==
  IF byIP[ip] = Nil THEN Nil
  ELSE [uid |-> heap[byIP[ip]].uid, grant |-> heap[byIP[ip]].grant]

LEMMA ViewRows ==
  /\ View = [pods |-> [u \in UIDs |-> PodRow(u)], answers |-> [ip \in IPs |-> AnswerRow(ip)]]
  /\ View.pods = [u \in UIDs |-> PodRow(u)]
  /\ \A u \in UIDs : View.pods[u] = PodRow(u)
  /\ \A ip \in IPs : View.answers[ip] = AnswerRow(ip)
  BY DEF View, PodRow, AnswerRow

LEMMA RowsPresent ==
  ASSUME MapOK
  PROVE  /\ \A u \in Registered : /\ PodRow(u) # Nil
                                   /\ PodRow(u).ips = Object(u).ips
                                   /\ PodRow(u).grant = Object(u).grant
         /\ \A u \in UIDs \ Registered : PodRow(u) = Nil
         /\ \A ip \in IPs : byIP[ip] # Nil =>
              /\ AnswerRow(ip) # Nil
              /\ AnswerRow(ip).uid = heap[byIP[ip]].uid
<1>1. \A u \in Registered : Object(u).ips \in SUBSET IPs /\ Object(u).grant \in Grant
  BY ObjectType DEF PodInfo
<1>2. \A ip \in IPs : byIP[ip] # Nil =>
        heap[byIP[ip]].uid \in UIDs /\ heap[byIP[ip]].grant \in Grant
  BY ObjectType DEF PodInfo
<1>3. \A s \in SUBSET IPs, g \in Grant : [ips |-> s, grant |-> g] # Nil
  BY ConstantsAssumption
<1>4. \A u \in UIDs, g \in Grant : [uid |-> u, grant |-> g] # Nil
  BY ConstantsAssumption
<1>5. \A u \in Registered : PodRow(u) = [ips |-> Object(u).ips, grant |-> Object(u).grant]
  BY DEF PodRow, Registered
<1>6. \A u \in UIDs \ Registered : PodRow(u) = Nil
  BY DEF PodRow, Registered
<1>7. \A ip \in IPs : byIP[ip] # Nil =>
        AnswerRow(ip) = [uid |-> heap[byIP[ip]].uid, grant |-> heap[byIP[ip]].grant]
  BY DEF AnswerRow
<1> QED BY <1>1, <1>2, <1>3, <1>4, <1>5, <1>6, <1>7

\* Registering a pod is the registry's Put.
LEMMA AddRefines ==
  ASSUME MapOK, NEW info \in PodInfo, addOrUpdateLocked(info)
  PROVE  View' = Registry!Put(View, info)
<1> DEFINE g == Registry!PutGrant(View, info)
           drops == Registry!PutDrops(View, info)
<1>1. info.uid \in UIDs /\ info.ips \subseteq IPs
  BY DEF PodInfo
<1>2. g = Binding(info)
  BY <1>1, ViewRows, RowsPresent DEF Registry!PutGrant, Binding, Registered, Object
<1>3. drops = Dropped(info)
  BY <1>1, ViewRows, RowsPresent DEF Registry!PutDrops, Dropped, Registered, Object
<1> HIDE DEF g, drops
<1>4. /\ Registered' = Registered \cup {info.uid}
      /\ Object(info.uid)' = [info EXCEPT !.grant = g]
      /\ \A v \in Registered \ {info.uid} :
           byUID'[v] = byUID[v] /\ Object(v)' = Object(v)
      /\ \A ip \in info.ips : byIP'[ip] = byUID'[info.uid]
      /\ \A ip \in IPs \ info.ips :
           /\ byIP'[ip] = IF ip \in drops THEN Nil ELSE byIP[ip]
           /\ byIP'[ip] # Nil => heap'[byIP'[ip]] = heap[byIP[ip]]
  BY <1>2, <1>3, AddKeeps
<1>5. /\ Object(info.uid)'.ips = info.ips
      /\ Object(info.uid)'.grant = g
      /\ Object(info.uid)'.uid = info.uid
  BY <1>4 DEF PodInfo
<1>6. \A u \in UIDs : PodRow(u)' = IF u = info.uid THEN [ips |-> info.ips, grant |-> g]
                                   ELSE PodRow(u)
  <2> TAKE u \in UIDs
  <2>1. CASE u = info.uid
    <3>1. byUID'[info.uid] # Nil
      BY <1>1, <1>4 DEF Registered
    <3> QED BY <2>1, <3>1, <1>5 DEF PodRow
  <2>2. CASE u # info.uid /\ u \in Registered
    <3>1. byUID'[u] = byUID[u] /\ Object(u)' = Object(u)
      BY <1>4, <2>2
    <3> QED BY <2>2, <3>1 DEF PodRow
  <2>3. CASE u # info.uid /\ u \notin Registered
    <3>1. byUID[u] = Nil /\ byUID'[u] = Nil
      BY <1>4, <2>3 DEF Registered
    <3> QED BY <2>3, <3>1 DEF PodRow
  <2> QED BY <2>1, <2>2, <2>3
<1>7. \A ip \in IPs : AnswerRow(ip)' = IF ip \in info.ips THEN [uid |-> info.uid, grant |-> g]
                                       ELSE IF ip \in drops THEN Nil
                                       ELSE AnswerRow(ip)
  <2> TAKE ip \in IPs
  <2>1. CASE ip \in info.ips
    <3>1. byIP'[ip] # Nil
      BY <1>1, <1>4, <2>1 DEF Registered
    <3>2. heap'[byIP'[ip]] = Object(info.uid)'
      BY <1>4, <2>1 DEF Object
    <3> QED BY <2>1, <3>1, <3>2, <1>5 DEF AnswerRow
  <2>2. CASE ip \notin info.ips
    BY <1>4, <2>2 DEF AnswerRow
  <2> QED BY <2>1, <2>2
<1>8. View' = [pods |-> [u \in UIDs |-> PodRow(u)'], answers |-> [ip \in IPs |-> AnswerRow(ip)']]
  BY DEF View, PodRow, AnswerRow
<1>9. Registry!Put(View, info) =
        [pods |-> [u \in UIDs |-> IF u = info.uid THEN [ips |-> info.ips, grant |-> g]
                                  ELSE PodRow(u)],
         answers |-> [ip \in IPs |-> IF ip \in info.ips THEN [uid |-> info.uid, grant |-> g]
                                     ELSE IF ip \in drops THEN Nil
                                     ELSE AnswerRow(ip)]]
  BY <1>1, ViewRows DEF Registry!Put, g, drops
<1> QED BY <1>6, <1>7, <1>8, <1>9

\* Removing a pod is the registry's Delete.
LEMMA RemoveRefines ==
  ASSUME MapOK, NEW u \in Registered, removeLocked(u)
  PROVE  View' = Registry!Delete(View, {u})
<1>1. /\ Registered' = Registered \ {u}
      /\ \A v \in Registered \ {u} : byUID'[v] = byUID[v] /\ Object(v)' = Object(v)
      /\ \A ip \in IPs : byIP'[ip] = IF ip \in Object(u).ips THEN Nil ELSE byIP[ip]
      /\ \A ip \in IPs : byIP'[ip] # Nil => heap'[byIP'[ip]] = heap[byIP[ip]]
  BY RemoveKeeps
<1>2. u \in UIDs /\ View.pods[u] # Nil /\ View.pods[u].ips = Object(u).ips
  BY ViewRows, RowsPresent DEF Registered
<1>3. \A v \in UIDs : PodRow(v)' = IF v \in {u} THEN Nil ELSE PodRow(v)
  BY <1>1 DEF PodRow, Registered
<1>4. \A ip \in IPs : AnswerRow(ip)' = IF ip \in Object(u).ips THEN Nil ELSE AnswerRow(ip)
  BY <1>1 DEF AnswerRow
<1>5. View' = [pods |-> [v \in UIDs |-> PodRow(v)'], answers |-> [ip \in IPs |-> AnswerRow(ip)']]
  BY DEF View, PodRow, AnswerRow
<1>6. Registry!Delete(View, {u}) =
        [pods |-> [v \in UIDs |-> IF v \in {u} THEN Nil ELSE PodRow(v)],
         answers |-> [ip \in IPs |-> IF ip \in Object(u).ips THEN Nil ELSE AnswerRow(ip)]]
  BY <1>2, ViewRows DEF Registry!Delete, Registry!Known
<1> QED BY <1>3, <1>4, <1>5, <1>6

\* Writing a binding is the registry's Assign.
LEMMA WriteRefines ==
  ASSUME MapOK, NEW u \in Registered, NEW g \in Grant,
         UNCHANGED <<byUID, byIP, held>>,
         Store([heap EXCEPT ![byUID[u]] = [@ EXCEPT !.grant = g]])
  PROVE  View' = Registry!Assign(View, u, g)
<1>1. /\ Object(u)' = [Object(u) EXCEPT !.grant = g]
      /\ \A v \in Registered \ {u} : Object(v)' = Object(v)
      /\ \A ip \in IPs : byIP[ip] # Nil =>
           heap'[byIP[ip]] = IF heap[byIP[ip]].uid = u
                             THEN [heap[byIP[ip]] EXCEPT !.grant = g]
                             ELSE heap[byIP[ip]]
  BY WriteKeeps
<1>2. u \in UIDs /\ View.pods[u] # Nil /\ View.pods[u].ips = Object(u).ips
  BY ViewRows, RowsPresent DEF Registered
<1>3. Object(u)'.ips = Object(u).ips /\ Object(u)'.grant = g
  BY <1>1, ObjectType DEF PodInfo
<1>4. \A v \in UIDs : PodRow(v)' = IF v = u THEN [ips |-> Object(u).ips, grant |-> g]
                                   ELSE PodRow(v)
  BY <1>1, <1>3 DEF PodRow, Registered
<1>5. \A ip \in IPs : byIP[ip] # Nil /\ heap[byIP[ip]].uid = u =>
        heap'[byIP[ip]].uid = u /\ heap'[byIP[ip]].grant = g
  BY <1>1, ObjectType DEF PodInfo
<1>6. \A ip \in IPs :
        AnswerRow(ip)' = IF AnswerRow(ip) # Nil /\ AnswerRow(ip).uid = u
                         THEN [uid |-> u, grant |-> g] ELSE AnswerRow(ip)
  <2> TAKE ip \in IPs
  <2>1. CASE byIP[ip] = Nil
    BY <2>1 DEF AnswerRow
  <2>2. CASE byIP[ip] # Nil
    <3>1. AnswerRow(ip) # Nil /\ AnswerRow(ip).uid = heap[byIP[ip]].uid
      BY <2>2, RowsPresent
    <3>2. CASE heap[byIP[ip]].uid = u
      BY <2>2, <3>1, <3>2, <1>5 DEF AnswerRow
    <3>3. CASE heap[byIP[ip]].uid # u
      <4>1. heap'[byIP[ip]] = heap[byIP[ip]]
        BY <2>2, <3>3, <1>1
      <4>2. AnswerRow(ip)' = AnswerRow(ip)
        BY <4>1 DEF AnswerRow
      <4> QED BY <4>2, <3>1, <3>3
    <3> QED BY <3>2, <3>3
  <2> QED BY <2>1, <2>2
<1>7. View' = [pods |-> [v \in UIDs |-> PodRow(v)'], answers |-> [ip \in IPs |-> AnswerRow(ip)']]
  BY DEF View, PodRow, AnswerRow
<1>8. Registry!Assign(View, u, g) =
        [pods |-> [v \in UIDs |-> IF v = u THEN [ips |-> Object(u).ips, grant |-> g]
                                  ELSE PodRow(v)],
         answers |-> [ip \in IPs |-> IF AnswerRow(ip) # Nil /\ AnswerRow(ip).uid = u
                                     THEN [uid |-> u, grant |-> g] ELSE AnswerRow(ip)]]
  BY <1>2, ViewRows DEF Registry!Assign
<1> QED BY <1>4, <1>6, <1>7, <1>8

\* So is registering a placeholder: no answer is about an unknown pod yet.
LEMMA PlaceholderRefines ==
  ASSUME MapOK, NEW u \in UIDs \ Registered, NEW g \in Grant, NEW r \in Fresh,
         UNCHANGED <<byIP, held>>,
         byUID' = [byUID EXCEPT ![u] = r],
         Store([heap EXCEPT ![r] = [uid |-> u, ips |-> {}, annotation |-> Unbound, grant |-> g]])
  PROVE  View' = Registry!Assign(View, u, g)
<1>1. /\ Registered' = Registered \cup {u}
      /\ Object(u)' = [uid |-> u, ips |-> {}, annotation |-> Unbound, grant |-> g]
      /\ \A v \in Registered : byUID'[v] = byUID[v] /\ Object(v)' = Object(v)
      /\ \A ip \in IPs : byIP[ip] # Nil => heap'[byIP[ip]] = heap[byIP[ip]]
  BY PlaceholderKeeps
<1>2. View.pods[u] = Nil
  BY ViewRows, RowsPresent
<1>3. \A v \in UIDs : PodRow(v)' = IF v = u THEN [ips |-> {}, grant |-> g] ELSE PodRow(v)
  <2> TAKE v \in UIDs
  <2>1. CASE v = u
    <3>1. byUID'[u] # Nil
      BY <1>1 DEF Registered
    <3>2. Object(u)'.ips = {} /\ Object(u)'.grant = g
      BY <1>1
    <3> QED BY <2>1, <3>1, <3>2 DEF PodRow
  <2>2. CASE v # u /\ v \in Registered
    <3>1. byUID'[v] = byUID[v] /\ Object(v)' = Object(v)
      BY <1>1, <2>2
    <3> QED BY <2>2, <3>1 DEF PodRow
  <2>3. CASE v # u /\ v \notin Registered
    <3>1. byUID[v] = Nil /\ byUID'[v] = Nil
      BY <1>1, <2>3 DEF Registered
    <3> QED BY <2>3, <3>1 DEF PodRow
  <2> QED BY <2>1, <2>2, <2>3
<1>4. \A ip \in IPs : AnswerRow(ip)' = AnswerRow(ip)
  BY <1>1 DEF AnswerRow
<1>5. \A ip \in IPs : ~(AnswerRow(ip) # Nil /\ AnswerRow(ip).uid = u)
  <2> TAKE ip \in IPs
  <2>1. CASE byIP[ip] = Nil
    BY <2>1 DEF AnswerRow
  <2>2. CASE byIP[ip] # Nil
    <3>1. AnswerRow(ip).uid = heap[byIP[ip]].uid /\ heap[byIP[ip]].uid \in UIDs
      BY <2>2, RowsPresent, ObjectType DEF PodInfo
    <3>2. heap[byIP[ip]].uid \in Registered
      BY <2>2, <3>1 DEF MapOK, IndexCoherent, Registered
    <3> QED BY <3>1, <3>2
  <2> QED BY <2>1, <2>2
<1>6. View' = [pods |-> [v \in UIDs |-> PodRow(v)'], answers |-> [ip \in IPs |-> AnswerRow(ip)']]
  BY DEF View, PodRow, AnswerRow
<1>7. Registry!Assign(View, u, g) =
        [pods |-> [v \in UIDs |-> IF v = u THEN [ips |-> {}, grant |-> g] ELSE PodRow(v)],
         answers |-> [ip \in IPs |-> IF AnswerRow(ip) # Nil /\ AnswerRow(ip).uid = u
                                     THEN [uid |-> u, grant |-> g] ELSE AnswerRow(ip)]]
  BY <1>2, ViewRows DEF Registry!Assign
<1> QED BY <1>3, <1>4, <1>5, <1>6, <1>7

\* The pointer maps implement the pointer-free registry: every step of the
\* pod map is a registry step or leaves the registry alone.
THEOREM Implements == Spec => RegistrySpec
<1>1. Init => Registry!Init
  <2> SUFFICES ASSUME Init PROVE View = Registry!Empty
    BY DEF Registry!Init
  <2>1. (\A u \in UIDs : PodRow(u) = Nil) /\ (\A ip \in IPs : AnswerRow(ip) = Nil)
    BY DEF Init, PodRow, AnswerRow
  <2> QED BY <2>1, ViewRows DEF Registry!Empty
<1>2. IInv /\ [Next]_vars => [Registry!Next]_View
  <2> SUFFICES ASSUME IInv, [Next]_vars PROVE Registry!Next \/ View' = View
    OBVIOUS
  <2>0. MapOK /\ sync.todo \subseteq Submissions /\ Submissions \subseteq PodInfo
    BY ConstantsAssumption DEF IInv, TypeOK, MapOK
  <2>1. ASSUME NEW info \in Submissions, addOrUpdateLocked(info) PROVE Registry!Next
    BY <2>0, <2>1, AddRefines DEF Registry!Next
  <2>2. ASSUME NEW u \in Registered, removeLocked(u) PROVE Registry!Next
    <3>1. u \in Registry!Known(View)
      BY <2>0, ViewRows, RowsPresent DEF Registry!Known, Registered
    <3> QED BY <3>1, <2>0, <2>2, RemoveRefines DEF Registry!Next
  <2>3. ASSUME UNCHANGED <<heap, byUID, byIP>> PROVE View' = View
    BY <2>3 DEF View, Object
  <2>4. ASSUME NEW q \in Requests, Finish(q) PROVE View' = View
    <3>1. /\ UNCHANGED <<byUID, byIP>>
          /\ \A v \in Registered : Object(v)' = Object(v)
          /\ \A ip \in IPs : byIP[ip] # Nil => heap'[byIP[ip]] = heap[byIP[ip]]
      BY <2>0, <2>4, FinishKeeps DEF Finish
    <3>2. /\ \A u \in UIDs : PodRow(u)' = PodRow(u)
          /\ \A ip \in IPs : AnswerRow(ip)' = AnswerRow(ip)
      BY <3>1 DEF PodRow, AnswerRow, Registered
    <3>3. View' = [pods |-> [u \in UIDs |-> PodRow(u)'],
                   answers |-> [ip \in IPs |-> AnswerRow(ip)']]
      BY DEF View, PodRow, AnswerRow
    <3> QED BY <3>2, <3>3, ViewRows
  <2>5. ASSUME NEW u \in UIDs, NEW g \in Grants, Bind(u, g) PROVE Registry!Next
    <3>1. CASE u \in Registered
      BY <2>0, <2>5, <3>1, WriteRefines DEF Bind, Grant, Registry!Next
    <3>2. CASE u \notin Registered
      <4>1. PICK r \in Fresh :
              /\ byUID' = [byUID EXCEPT ![u] = r]
              /\ Store([heap EXCEPT ![r] = [uid |-> u, ips |-> {},
                                            annotation |-> Unbound, grant |-> g]])
        BY <2>5, <3>2 DEF Bind
      <4> QED BY <2>0, <2>5, <3>2, <4>1, PlaceholderRefines DEF Bind, Grant, Registry!Next
    <3> QED BY <3>1, <3>2
  <2>6. ASSUME NEW u \in UIDs, Unbind(u) PROVE Registry!Next
    <3>1. u \in Registry!Known(View)
      BY <2>0, <2>6, ViewRows, RowsPresent DEF Registry!Known, Registered, Unbind
    <3> QED BY <2>0, <2>6, <3>1, WriteRefines DEF Unbind, Grant, Registry!Next
  <2>7. CASE Next
    BY <2>7, <2>0, <2>1, <2>2, <2>3, <2>4, <2>5, <2>6
       DEF Next, Admin, AddOrUpdatePod, RemovePod, SynchronizeBegin, SynchronizeAdd,
           SynchronizeAdded, SynchronizePrune, SynchronizeEnd, GetPodByIP
  <2>8. CASE UNCHANGED vars
    BY <2>8, <2>3 DEF vars
  <2> QED BY <2>7, <2>8
<1> QED BY <1>1, <1>2, Invariance, PTL DEF Spec, RegistrySpec, Registry!Spec
=============================================================================
