----------------------------- MODULE RuleRouter -----------------------------
(***************************************************************************)
(* Requests and TLS handshakes through the rule router (pkg/portals/       *)
(* rules.go: ServeHTTP and GetCertificate), interleaved with the admin     *)
(* operations of the pod map (module PodMap) and with reloads of the       *)
(* routing table.  A handler takes rr.mu and pm.mu for its two lookups and *)
(* then reads Bound, Policy and Identity through the pointer it was given, *)
(* WITHOUT a lock, one after the other: each read is a step of its own.    *)
(* A read of a string while Bind writes it is a data race; the model gives *)
(* it the old or the new value.                                            *)
(*                                                                         *)
(* Hosts are model values; Extends says which host names are dotted        *)
(* extensions of which.  A policy is the set of its tokens.                *)
(***************************************************************************)
EXTENDS PodMap

CONSTANTS
  Hosts,
  Extends,      \* Extends[h]: the hosts r such that h starts with "r."
  RuleNames,
  Tables,       \* routing tables: each maps hosts to rules, or to NoRule
  NoRule,
  Policy        \* Policy[g]: the tokens of binding g's policy

Rule == [name : RuleNames, attribution : BOOLEAN]

ASSUME RouterAssumption ==
  /\ Extends \in [Hosts -> SUBSET Hosts]
  /\ Tables \subseteq [Hosts -> Rule \cup {NoRule}] /\ Tables # {}
  /\ NoRule \notin Rule
  /\ \A g \in Grants : Policy[g] \subseteq RuleNames \cup Hosts \cup {"*", "fallback", ""}
  /\ "" \notin RuleNames \cup Hosts
  /\ Nil \notin UIDs

VARIABLES
  routes,    \* rr.routes
  enforced,  \* whether SetPodMap was called (node mode)
  fallback,  \* whether there is a fallback proxy
  req,       \* req[q]: handler q
  seen       \* history: the caller's current bindings while q was running

routerVars == <<routes, enforced, fallback, req>>

Free == [pc |-> "free"]

\* What the request was answered with, once its pc is one of these.
Final == {"denied", "forwarded", "certified", "uncertified"}

RouterTypeOK ==
  /\ TypeOK
  /\ routes \in Tables /\ enforced \in BOOLEAN /\ fallback \in BOOLEAN
  /\ \A q \in Requests : req[q] # Free =>
       req[q] \in [pc : {"caller", "bound", "policy", "tokens", "identity", "send"} \cup Final,
                   kind : {"http", "tls"}, host : Hosts, ip : IPs,
                   rule : Rule \cup {NoRule}, uid : UIDs \cup {Nil},
                   by : Grant, as : Grant]

RouterInit ==
  /\ Init
  /\ routes \in Tables
  /\ enforced \in BOOLEAN /\ fallback \in BOOLEAN
  /\ req = [q \in Requests |-> Free]
  /\ seen = [q \in Requests |-> {}]

-----------------------------------------------------------------------------

\* The rules a lookup may return: the host's own, else any rule whose host
\* it extends (the loop over the Go map takes the first it meets).
Lookup(host) ==
  LET prefixes == {h \in Extends[host] : routes[h] # NoRule}
  IN  IF routes[host] # NoRule THEN {routes[host]}
      ELSE IF prefixes # {} THEN {routes[h] : h \in prefixes}
      ELSE {NoRule}

\* The policy of Unbind splits into the one token "".
Tokens(g) == IF g = Unbound THEN {""} ELSE Policy[g]

\* Policy tokens are compared with the rule's name and with the host.
Matches(g, ruleName, host) == Tokens(g) \cap {"*", ruleName, host} # {}

\* IsRuleAllowed undisturbed; in a handler its two reads are two steps.
IsRuleAllowed(g, ruleName, host) == g # Unbound /\ Matches(g, ruleName, host)

\* The name an unmatched host is checked under: ServeHTTP and GetCertificate
\* do not use the same.
CheckedName(r) ==
  IF r.rule # NoRule THEN r.rule.name
  ELSE IF r.kind = "http" THEN "fallback" ELSE ""

\* The lookups of the table and of the caller are under different locks.
Arrive(q, kind, host, ip) ==
  /\ req[q] = Free
  /\ \E rule \in Lookup(host) :
       req' = [req EXCEPT ![q] =
                 [pc |-> IF enforced THEN "caller" ELSE "send", kind |-> kind, host |-> host,
                  ip |-> ip, rule |-> rule, uid |-> Nil, by |-> Unbound, as |-> Unbound]]
  /\ UNCHANGED <<vars, routes, enforced, fallback>>

At(q, pc) == req[q] # Free /\ req[q].pc = pc

Refused(r) == IF r.kind = "http" THEN "denied" ELSE "uncertified"

UnknownCaller(q) ==
  /\ At(q, "caller") /\ Unlocked
  /\ byIP[req[q].ip] = Nil
  /\ req' = [req EXCEPT ![q].pc = Refused(req[q])]
  /\ UNCHANGED <<vars, routes, enforced, fallback>>

KnownCaller(q) ==
  /\ At(q, "caller")
  /\ GetPodByIP(q, req[q].ip)
  /\ req' = [req EXCEPT ![q].pc = "bound", ![q].uid = heap[byIP[req[q].ip]].uid]
  /\ UNCHANGED <<routes, enforced, fallback>>

\* The binding the handler finds behind its pointer now.
Pointed(q) == heap[held[q]].grant

ReadBound(q) ==
  /\ At(q, "bound")
  /\ IF Pointed(q) = Unbound
     THEN Finish(q) /\ req' = [req EXCEPT ![q].pc = Refused(req[q])]
     ELSE UNCHANGED vars /\ req' = [req EXCEPT ![q].pc = "policy"]
  /\ UNCHANGED <<routes, enforced, fallback>>

\* IsRuleAllowed sees that there is a policy.  Without a rule and without a
\* fallback ServeHTTP does not ask.
ReadPolicy(q) ==
  /\ At(q, "policy")
  /\ LET asks == req[q].kind = "tls" \/ req[q].rule # NoRule \/ fallback IN
       IF asks /\ Pointed(q) = Unbound
       THEN Finish(q) /\ req' = [req EXCEPT ![q].pc = Refused(req[q])]
       ELSE /\ UNCHANGED vars
            /\ req' = [req EXCEPT ![q].pc = IF asks THEN "tokens" ELSE "send"]
  /\ UNCHANGED <<routes, enforced, fallback>>

\* It reads the policy again to split it.
ReadTokens(q) ==
  /\ At(q, "tokens")
  /\ IF Matches(Pointed(q), CheckedName(req[q]), req[q].host)
     THEN /\ UNCHANGED vars
          /\ req' = [req EXCEPT ![q].by = Pointed(q),
                                ![q].pc = IF req[q].rule # NoRule /\ req[q].kind = "http"
                                          THEN "identity" ELSE "send"]
     ELSE Finish(q) /\ req' = [req EXCEPT ![q].pc = Refused(req[q]), ![q].by = Pointed(q)]
  /\ UNCHANGED <<routes, enforced, fallback>>

\* The identity goes upstream only if the rule asks for attribution.
ReadIdentity(q) ==
  /\ At(q, "identity")
  /\ req' = [req EXCEPT ![q].as = IF req[q].rule.attribution THEN Pointed(q) ELSE Unbound,
                        ![q].pc = "send"]
  /\ UNCHANGED <<vars, routes, enforced, fallback>>

Send(q) ==
  /\ At(q, "send")
  /\ req' = [req EXCEPT ![q].pc =
               IF req[q].rule = NoRule /\ ~fallback THEN Refused(req[q])
               ELSE IF req[q].kind = "http" THEN "forwarded" ELSE "certified"]
  /\ IF held[q] # Nil THEN Finish(q) ELSE UNCHANGED vars
  /\ UNCHANGED <<routes, enforced, fallback>>

Release(q) ==
  /\ req[q] # Free /\ req[q].pc \in Final
  /\ req' = [req EXCEPT ![q] = Free]
  /\ UNCHANGED <<vars, routes, enforced, fallback>>

\* loadRules swaps in a table it has built (module RuleReload).
Reload(table) ==
  /\ routes' = table
  /\ UNCHANGED <<vars, enforced, fallback, req>>

Serve(q) ==
  \/ UnknownCaller(q) \/ KnownCaller(q) \/ ReadBound(q) \/ ReadPolicy(q)
  \/ ReadTokens(q) \/ ReadIdentity(q) \/ Send(q) \/ Release(q)

\* The bindings of q's caller that were current since q looked it up, until
\* q has its answer.
Witness(q) ==
  IF req'[q] = Free \/ req'[q].uid = Nil THEN {}
  ELSE IF req'[q].pc \in Final THEN seen[q]
  ELSE seen[q] \cup {g \in Grant : \/ /\ byUID[req'[q].uid] # Nil
                                      /\ heap[byUID[req'[q].uid]].grant = g
                                   \/ /\ byUID'[req'[q].uid] # Nil
                                      /\ heap'[byUID'[req'[q].uid]].grant = g}

RouterNext ==
  /\ \/ Admin /\ enforced /\ UNCHANGED routerVars
     \/ \E q \in Requests, kind \in {"http", "tls"}, host \in Hosts, ip \in IPs :
          Arrive(q, kind, host, ip)
     \/ \E q \in Requests : Serve(q)
     \/ \E table \in Tables : Reload(table)
  /\ seen' = [q \in Requests |-> Witness(q)]

RouterSpec == RouterInit /\ [][RouterNext]_<<vars, routerVars, seen>>

-----------------------------------------------------------------------------
(* Properties.                                                             *)

\* A decision is the decision of some moment of the request: the binding
\* whose policy let it through was the caller's registered binding while the
\* handler ran.  So a request that arrives after Unbind has returned is
\* denied, whatever re-registrations and synchronisations came before.  An
\* identity sent upstream was the caller's too while the handler ran, though a
\* rebind between the two reads may make it another binding's.  (Not so a
\* handshake checked under the empty name: that is what "" splits into.)
DecisionLinearizes ==
  \A q \in Requests :
    (req[q] # Free /\ enforced /\ req[q].pc \in {"forwarded", "certified"}
       /\ CheckedName(req[q]) # "")
      => /\ req[q].by \in seen[q]
         /\ IsRuleAllowed(req[q].by, CheckedName(req[q]), req[q].host)
         /\ req[q].as \in seen[q] \cup {Unbound}
=============================================================================
