------------------------------- MODULE PodMap -------------------------------
(***************************************************************************)
(* The node proxy's pod map, pkg/portals/podmap.go: PodInfo objects on the *)
(* Go heap, reached through two maps of POINTERS, byUID and byIP, and      *)
(* through the pointers GetPodByIP has handed to requests in flight.  The  *)
(* binding (Identity, Policy, Bound) is written through byUID and read     *)
(* through byIP, so the map is only right while both reach one object.     *)
(*                                                                         *)
(* Every operation runs under pm.mu and is one action, except              *)
(* SynchronizePods, whose loops are taken one iteration at a time with the *)
(* lock held: Go's map iteration order is unspecified, and the order in    *)
(* which entries are added and pruned decides who ends up owning an IP.    *)
(*                                                                         *)
(* Abstracted: namespace, name and labels (never read by the map), the     *)
(* empty UID and the empty IP (both are skipped by the code), and the      *)
(* triple Identity/Policy/Bound, which the code always assigns together,   *)
(* as one value, a member of Grants or Unbound.                            *)
(***************************************************************************)
EXTENDS FiniteSets, Naturals

CONSTANTS
  UIDs,         \* pod UIDs (non-empty strings)
  IPs,          \* pod IP addresses (non-empty strings)
  Grants,       \* bindings: an identity and a policy
  Unbound,      \* the binding of a pod that has none
  Refs,         \* heap addresses of PodInfo objects
  Nil,          \* the nil pointer
  Blank,        \* the content of an address that holds no object
  Requests,     \* requests in flight that have looked up their caller
  Submissions,  \* the PodInfo payloads callers submit
  MaxList       \* bound: entries of one SynchronizePods list

Grant == Grants \cup {Unbound}

PodInfo == [uid : UIDs, ips : SUBSET IPs, annotation : Grant, grant : Grant]

ASSUME ConstantsAssumption ==
  /\ Unbound \notin Grants
  /\ Nil \notin Refs
  /\ Nil \notin [ips : SUBSET IPs, grant : Grant] \cup [uid : UIDs, grant : Grant]
  /\ Blank \notin PodInfo
  /\ Submissions \subseteq PodInfo
  /\ MaxList \in Nat

VARIABLES
  heap,   \* heap[r]: the PodInfo at address r, Blank once collected
  byUID,  \* byUID[u]: the registered object of u, or Nil
  byIP,   \* byIP[ip]: the object an address resolves to, or Nil
  held,   \* held[q]: the pointer request q got from GetPodByIP, or Nil
  sync    \* SynchronizePods while it holds pm.mu

vars == <<heap, byUID, byIP, held, sync>>

NoSync == [phase |-> "idle", todo |-> {}, active |-> {}]

TypeOK ==
  /\ heap \in [Refs -> PodInfo \cup {Blank}]
  /\ byUID \in [UIDs -> Refs \cup {Nil}]
  /\ byIP \in [IPs -> Refs \cup {Nil}]
  /\ held \in [Requests -> Refs \cup {Nil}]
  /\ sync \in [phase : {"idle", "add", "prune"}, todo : SUBSET Submissions,
               active : SUBSET UIDs]

Init ==
  /\ heap = [r \in Refs |-> Blank]
  /\ byUID = [u \in UIDs |-> Nil]
  /\ byIP = [ip \in IPs |-> Nil]
  /\ held = [q \in Requests |-> Nil]
  /\ sync = NoSync

-----------------------------------------------------------------------------
(* The Go heap (external: the allocator and the garbage collector).        *)

Reachable(uidMap, ipMap, pointers) ==
  {r \in Refs : \/ \E u \in UIDs : uidMap[u] = r
                \/ \E ip \in IPs : ipMap[ip] = r
                \/ \E q \in Requests : pointers[q] = r}

Fresh == Refs \ Reachable(byUID, byIP, held)

\* The step leaves h on the heap, less what nothing points to any more.
Store(h) ==
  heap' = [r \in Refs |->
             IF r \in Reachable(byUID', byIP', held') THEN h[r] ELSE Blank]

-----------------------------------------------------------------------------
(* Helpers that run with pm.mu held.                                       *)

Unlocked == sync.phase = "idle"

Registered == {u \in UIDs : byUID[u] # Nil}

\* Mutant: the binding of a registered pod is not carried over.
BindingForgets(info) ==
  IF info.annotation # Unbound THEN info.annotation ELSE info.grant

\* The binding a submitted pod ends up with: the one it already has, else
\* the policy annotation's, else whatever the payload carried.
Binding(info) ==
  IF byUID[info.uid] # Nil THEN heap[byUID[info.uid]].grant
  ELSE IF info.annotation # Unbound THEN info.annotation
  ELSE info.grant

\* Old addresses the new payload no longer lists: their entries are deleted
\* without a look at whom they point to.
Dropped(info) ==
  IF byUID[info.uid] # Nil THEN heap[byUID[info.uid]].ips \ info.ips ELSE {}

\* Mutant: the old addresses are deleted after the new ones are inserted.
addOrUpdateLockedSwapped(info) ==
  \E r \in Fresh :
    /\ byUID' = [byUID EXCEPT ![info.uid] = r]
    /\ byIP' = [ip \in IPs |->
                 IF byUID[info.uid] # Nil /\ ip \in heap[byUID[info.uid]].ips THEN Nil
                 ELSE IF ip \in info.ips THEN r
                 ELSE byIP[ip]]
    /\ held' = held
    /\ Store([heap EXCEPT ![r] = [info EXCEPT !.grant = Binding(info)]])

\* Mutant: only addresses the map does not know yet are indexed.
addOrUpdateLockedNewOnly(info) ==
  \E r \in Fresh :
    /\ byUID' = [byUID EXCEPT ![info.uid] = r]
    /\ byIP' = [ip \in IPs |-> IF ip \in info.ips /\ byIP[ip] = Nil THEN r
                               ELSE IF ip \in Dropped(info) THEN Nil
                               ELSE byIP[ip]]
    /\ held' = held
    /\ Store([heap EXCEPT ![r] = [info EXCEPT !.grant = Binding(info)]])

addOrUpdateLocked(info) ==
  \E r \in Fresh :
    /\ byUID' = [byUID EXCEPT ![info.uid] = r]
    /\ byIP' = [ip \in IPs |-> IF ip \in info.ips THEN r
                               ELSE IF ip \in Dropped(info) THEN Nil
                               ELSE byIP[ip]]
    /\ held' = held
    /\ Store([heap EXCEPT ![r] = [info EXCEPT !.grant = Binding(info)]])

\* Mutant: the addresses of a removed pod stay indexed.
removeLockedKeepsIPs(u) ==
  /\ byIP' = byIP
  /\ byUID' = [byUID EXCEPT ![u] = Nil]
  /\ held' = held
  /\ Store(heap)

\* Deleting a registered pod: every address it lists goes with it, again
\* without a look at whom the entry points to.
removeLocked(u) ==
  /\ byIP' = [ip \in IPs |-> IF ip \in heap[byUID[u]].ips THEN Nil ELSE byIP[ip]]
  /\ byUID' = [byUID EXCEPT ![u] = Nil]
  /\ held' = held
  /\ Store(heap)

-----------------------------------------------------------------------------
(* Operations.                                                             *)

AddOrUpdatePod(info) ==
  /\ Unlocked
  /\ addOrUpdateLocked(info)
  /\ UNCHANGED sync

\* An unknown UID is left alone.
RemovePod(u) ==
  /\ Unlocked
  /\ u \in Registered
  /\ removeLocked(u)
  /\ UNCHANGED sync

SynchronizeBegin(pods) ==
  /\ Unlocked
  /\ sync' = [phase |-> "add", todo |-> pods, active |-> {i.uid : i \in pods}]
  /\ UNCHANGED <<heap, byUID, byIP, held>>

SynchronizeAdd ==
  /\ sync.phase = "add"
  /\ \E info \in sync.todo :
       /\ addOrUpdateLocked(info)
       /\ sync' = [sync EXCEPT !.todo = @ \ {info}]

SynchronizeAdded ==
  /\ sync.phase = "add"
  /\ sync.todo = {}
  /\ sync' = [sync EXCEPT !.phase = "prune"]
  /\ UNCHANGED <<heap, byUID, byIP, held>>

SynchronizePrune ==
  /\ sync.phase = "prune"
  /\ \E u \in Registered \ sync.active : removeLocked(u)
  /\ UNCHANGED sync

\* Mutant: the prune loop may stop early.
SynchronizeEndEarly ==
  /\ sync.phase = "prune"
  /\ sync' = NoSync
  /\ UNCHANGED <<heap, byUID, byIP, held>>

SynchronizeEnd ==
  /\ sync.phase = "prune"
  /\ Registered \subseteq sync.active
  /\ sync' = NoSync
  /\ UNCHANGED <<heap, byUID, byIP, held>>

\* The pointer outlives the read lock: the request reads through it later.
GetPodByIP(q, ip) ==
  /\ Unlocked
  /\ held[q] = Nil
  /\ byIP[ip] # Nil
  /\ held' = [held EXCEPT ![q] = byIP[ip]]
  /\ UNCHANGED <<heap, byUID, byIP, sync>>

\* The request is answered and its pointer dies.
Finish(q) ==
  /\ held[q] # Nil
  /\ held' = [held EXCEPT ![q] = Nil]
  /\ UNCHANGED <<byUID, byIP, sync>>
  /\ Store(heap)

\* Binding an unknown UID registers a placeholder without addresses.
Bind(u, g) ==
  /\ Unlocked
  /\ UNCHANGED <<byIP, held, sync>>
  /\ \/ /\ u \in Registered
        /\ byUID' = byUID
        /\ Store([heap EXCEPT ![byUID[u]] = [@ EXCEPT !.grant = g]])
     \/ /\ u \notin Registered
        /\ \E r \in Fresh :
             /\ byUID' = [byUID EXCEPT ![u] = r]
             /\ Store([heap EXCEPT ![r] = [uid |-> u, ips |-> {},
                                           annotation |-> Unbound, grant |-> g]])

\* Mutant: Unbind stores an unbound copy under the UID instead of writing
\* through the pointer.
UnbindCopy(u) ==
  /\ Unlocked
  /\ u \in Registered
  /\ UNCHANGED <<byIP, held, sync>>
  /\ \E r \in Fresh :
       /\ byUID' = [byUID EXCEPT ![u] = r]
       /\ Store([heap EXCEPT ![r] = [heap[byUID[u]] EXCEPT !.grant = Unbound]])

\* An unknown UID is answered with an error and nothing changes.
Unbind(u) ==
  /\ Unlocked
  /\ u \in Registered
  /\ UNCHANGED <<byUID, byIP, held, sync>>
  /\ Store([heap EXCEPT ![byUID[u]] = [@ EXCEPT !.grant = Unbound]])

Lists == {pods \in SUBSET Submissions : Cardinality(pods) <= MaxList}

\* The operations behind the admin handler.
Admin ==
  \/ \E info \in Submissions : AddOrUpdatePod(info)
  \/ \E u \in UIDs : RemovePod(u)
  \/ \E pods \in Lists : SynchronizeBegin(pods)
  \/ SynchronizeAdd
  \/ SynchronizeAdded
  \/ SynchronizePrune
  \/ SynchronizeEnd
  \/ \E u \in UIDs, g \in Grants : Bind(u, g)
  \/ \E u \in UIDs : Unbind(u)

Next ==
  \/ Admin
  \/ \E q \in Requests, ip \in IPs : GetPodByIP(q, ip)
  \/ \E q \in Requests : Finish(q)

Spec == Init /\ [][Next]_vars

-----------------------------------------------------------------------------
(* Properties.                                                             *)

Object(u) == heap[byUID[u]]

\* Both maps agree on the object: whatever an address resolves to
\* (GetPodByIP) is the object currently registered under that object's UID,
\* and it lists the address.  Otherwise Bind and Unbind, which write through
\* byUID, would not reach the requests, which read through byIP.
IndexCoherent ==
  /\ \A u \in Registered : Object(u) # Blank /\ Object(u).uid = u
  /\ \A ip \in IPs : byIP[ip] # Nil =>
       /\ heap[byIP[ip]] # Blank
       /\ byUID[heap[byIP[ip]].uid] = byIP[ip]
       /\ ip \in heap[byIP[ip]].ips

\* Only u's pods ever list the address.
Exclusive(u, ip) == \A i \in Submissions : ip \in i.ips => i.uid = u

\* An address that no other pod ever lists always resolves to the registered
\* pod that lists it, whatever adds, syncs, removals and rebinds happen.
ExclusiveIPIndexed ==
  \A u \in Registered : \A ip \in Object(u).ips :
    Exclusive(u, ip) => byIP[ip] = byUID[u]

\* Re-registration and synchronisation keep a registered pod's binding
\* (addOrUpdateLocked copies it): only Bind and Unbind of that UID change it.
GrantStable ==
  [][\A u \in Registered \cap Registered' :
       \/ Object(u)'.grant = Object(u).grant
       \/ Unbind(u)
       \/ \E g \in Grants : Bind(u, g)]_vars

\* After Unbind(u) no address resolves to an object of u that is still bound
\* (docs/design/spikes/nri.md: "immediately reverts subsequent requests").
UnbindReverts ==
  [][\A u \in UIDs : Unbind(u) =>
       \A ip \in IPs : (byIP'[ip] # Nil /\ heap'[byIP'[ip]].uid = u)
                        => heap'[byIP'[ip]].grant = Unbound]_vars

\* When SynchronizePods returns, the pods registered are the pods listed and
\* no address resolves to a pod that has disappeared.
SyncPrunes ==
  [][SynchronizeEnd =>
       /\ Registered' = sync.active
       /\ \A ip \in IPs : byIP'[ip] # Nil => heap'[byIP'[ip]].uid \in sync.active]_vars

\* The map seen from outside: registered pods, and per address the UID and
\* binding that a reader of the pointer finds.
View ==
  [pods |-> [u \in UIDs |-> IF byUID[u] = Nil THEN Nil
                            ELSE [ips |-> Object(u).ips, grant |-> Object(u).grant]],
   answers |-> [ip \in IPs |-> IF byIP[ip] = Nil THEN Nil
                               ELSE [uid |-> heap[byIP[ip]].uid,
                                     grant |-> heap[byIP[ip]].grant]]]

Registry == INSTANCE PodRegistry WITH reg <- View

\* The two pointer maps implement the pointer-free registry: no interleaving
\* of operations and of SynchronizePods' loops lets a lookup answer with
\* anything but the pod's current binding.
RegistrySpec == Registry!Spec
=============================================================================
