----------------------------- MODULE PodRegistry -----------------------------
(***************************************************************************)
(* What the pod map promises its callers, without pointers: a table of     *)
(* registered pods, and for every address the answer a lookup gives, a UID *)
(* and a binding.  An answer about u always carries u's current binding.   *)
(* PodMap implements this specification, and NodeAgent composes the plugin *)
(* with it.  The operators take and return a registry value.               *)
(***************************************************************************)
CONSTANTS
  UIDs, IPs, Grants,
  Unbound,      \* the binding of a pod that has none
  Nil,          \* no entry
  Submissions   \* the payloads callers submit

VARIABLE reg

Empty == [pods |-> [u \in UIDs |-> Nil], answers |-> [ip \in IPs |-> Nil]]

Known(s) == {u \in UIDs : s.pods[u] # Nil}

PutGrant(s, info) ==
  IF s.pods[info.uid] # Nil THEN s.pods[info.uid].grant
  ELSE IF info.annotation # Unbound THEN info.annotation
  ELSE info.grant

PutDrops(s, info) ==
  IF s.pods[info.uid] # Nil THEN s.pods[info.uid].ips \ info.ips ELSE {}

\* addOrUpdateLocked
Put(s, info) ==
  [pods |-> [s.pods EXCEPT ![info.uid] = [ips |-> info.ips, grant |-> PutGrant(s, info)]],
   answers |-> [ip \in IPs |->
      IF ip \in info.ips THEN [uid |-> info.uid, grant |-> PutGrant(s, info)]
      ELSE IF ip \in PutDrops(s, info) THEN Nil
      ELSE s.answers[ip]]]

\* RemovePod and the prune loop: the pods in gone leave with their addresses.
Delete(s, gone) ==
  [pods |-> [u \in UIDs |-> IF u \in gone THEN Nil ELSE s.pods[u]],
   answers |-> [ip \in IPs |->
      IF \E u \in gone \cap Known(s) : ip \in s.pods[u].ips THEN Nil
      ELSE s.answers[ip]]]

\* Bind and Unbind: the table and every answer about u change together.
Assign(s, u, g) ==
  [pods |-> [s.pods EXCEPT ![u] = [ips |-> IF s.pods[u] = Nil THEN {} ELSE s.pods[u].ips,
                                   grant |-> g]],
   answers |-> [ip \in IPs |->
      IF s.answers[ip] # Nil /\ s.answers[ip].uid = u
      THEN [uid |-> u, grant |-> g] ELSE s.answers[ip]]]

-----------------------------------------------------------------------------

Init == reg = Empty

Next ==
  \/ \E info \in Submissions : reg' = Put(reg, info)
  \/ \E u \in Known(reg) : reg' = Delete(reg, {u})
  \/ \E u \in UIDs, g \in Grants : reg' = Assign(reg, u, g)
  \/ \E u \in Known(reg) : reg' = Assign(reg, u, Unbound)

Spec == Init /\ [][Next]_reg
=============================================================================
