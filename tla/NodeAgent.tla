------------------------------ MODULE NodeAgent ------------------------------
(***************************************************************************)
(* The NRI plugin of a node (cmd/portal-nri-plugin/main.go) composed with  *)
(* the proxy's pod map (module PodRegistry) behind the admin socket.       *)
(*                                                                         *)
(* Two threads of the plugin interleave: the NRI handler in progress       *)
(* (containerd delivers one event at a time: external) and the sync loop   *)
(* of startProxySyncLoop.  They share activePods under p.mu, and call the  *)
(* proxy without it.  A call to the proxy is tried up to Attempts times;   *)
(* a try may be refused, or be carried out and its reply be lost.  Plugin  *)
(* and proxy may crash and are restarted; the proxy's map is in memory.    *)
(*                                                                         *)
(* Every sandbox here is opted in.  A sandbox s stands for the PodInfo     *)
(* built from it: UID, addresses, annotation, and no binding.  The host's  *)
(* netfilter chains are a set here; module Netfilter has their commands.   *)
(***************************************************************************)
EXTENDS FiniteSets, Naturals

CONSTANTS
  Sandboxes,    \* opted-in pod sandboxes
  UIDs, IPs,
  Uid,          \* Uid[s]: the pod s belongs to (a pod may be given a new sandbox)
  Addr,         \* Addr[s]: its addresses (may be reused once s is stopped)
  Annotation,   \* Annotation[s]: the binding its policy annotation asks for
  Grants, Unbound, Nil,
  Single,       \* single-stack sandboxes on a node that has ip6tables
  Stoppable,    \* sandboxes that may stop
  Bindable,     \* UIDs the operator binds and unbinds
  Attempts,     \* tries of one call (3 in the code)
  Faults,       \* the kinds of fault that happen
  MaxFaults     \* bound: faults in a behaviour

ASSUME AgentAssumption ==
  /\ Uid \in [Sandboxes -> UIDs]
  /\ Addr \in [Sandboxes -> SUBSET IPs]
  /\ Annotation \in [Sandboxes -> Grants \cup {Unbound}]
  /\ Nil \notin Sandboxes
  /\ Attempts \in Nat \ {0}
  /\ Faults \subseteq {"agent crash", "proxy crash", "refused", "reply lost", "netfilter"}
  /\ MaxFaults \in Nat

VARIABLES
  phase,     \* phase[s]: where containerd is with s
  agent,     \* the plugin process: "up" or "down"
  pods,      \* p.pods: sandboxes with recorded network state
  active,    \* p.activePods: per UID the sandbox it is active with, or Nil
  rules,     \* sandboxes whose interface has the host chains
  admitted,  \* history: sandboxes let run, or synchronised, since Synchronize began
  nri,       \* the NRI handler in progress
  loop,      \* the sync loop
  proxy,     \* the proxy process: "up" or "down"
  reg,       \* its pod map
  faults     \* faults so far

vars == <<phase, agent, pods, active, rules, admitted, nri, loop, proxy, reg, faults>>
agentVars == <<pods, active, rules>>
proxyVars == <<proxy, reg>>

Info(s) ==
  [uid |-> Uid[s], ips |-> Addr[s], annotation |-> Annotation[s], grant |-> Unbound]

Map == INSTANCE PodRegistry WITH Submissions <- {Info(s) : s \in Sandboxes}

Known == Map!Known(reg)

Idle == [op |-> "idle", pc |-> "none", sb |-> Nil, todo |-> {}, list |-> {}, try |-> 1]
LoopIdle == [pc |-> "tick", list |-> {}, try |-> 1]

TypeOK ==
  /\ phase \in [Sandboxes -> {"new", "creating", "up", "stopping", "down", "removing", "gone"}]
  /\ agent \in {"up", "down"} /\ proxy \in {"up", "down"}
  /\ pods \subseteq Sandboxes /\ rules \subseteq Sandboxes /\ admitted \subseteq Sandboxes
  /\ \A u \in UIDs : active[u] = Nil \/ Uid[active[u]] = u
  /\ nri \in [op : {"idle", "run", "undo", "stop", "remove", "sync"},
              pc : {"none", "configure", "post", "activate", "forget", "unrule",
                    "delete", "reset"},
              sb : Sandboxes \cup {Nil}, todo : SUBSET Sandboxes,
              list : SUBSET Sandboxes, try : 1..Attempts]
  /\ loop \in [pc : {"tick", "get", "put"}, list : SUBSET Sandboxes, try : 1..Attempts]
  /\ \A u \in UIDs : reg.pods[u] = Nil \/ reg.pods[u].ips \subseteq IPs
  /\ \A ip \in IPs : reg.answers[ip] = Nil \/ reg.answers[ip].uid \in UIDs
  /\ faults \in 0..MaxFaults

Init ==
  /\ phase = [s \in Sandboxes |-> "new"]
  /\ agent = "down" /\ pods = {} /\ active = [u \in UIDs |-> Nil]
  /\ rules = {} /\ admitted = {}
  /\ nri = Idle /\ loop = LoopIdle
  /\ proxy = "up" /\ reg = Map!Empty
  /\ faults = 0

-----------------------------------------------------------------------------
(* Faults, and calls to the admin socket.                                  *)

Fault(kind) == kind \in Faults /\ faults < MaxFaults /\ faults' = faults + 1

NoFault == UNCHANGED faults

\* One try of notifyPodUpdate: after is the map the request leads to.
Done(after) == proxy = "up" /\ reg' = after /\ NoFault

Failed(after) ==
  \/ proxy = "down" /\ UNCHANGED reg /\ NoFault
  \/ proxy = "up" /\ UNCHANGED reg /\ Fault("refused")
  \/ proxy = "up" /\ reg' = after /\ Fault("reply lost")

\* The handler's next try.
Retry == nri.try < Attempts /\ nri' = [nri EXCEPT !.try = @ + 1]

\* SynchronizePods: the list is added in some order, then the unlisted are
\* pruned.  The maps it may lead to.
SynchronizePods(list) ==
  LET added[T \in SUBSET list] ==
        IF T = {} THEN {reg}
        ELSE UNION {{Map!Put(m, Info(s)) : m \in added[T \ {s}]} : s \in T}
  IN  {Map!Delete(m, Map!Known(m) \ {Uid[s] : s \in list}) : m \in added[list]}

-----------------------------------------------------------------------------
(* RunPodSandbox.                                                          *)

Holding(s) == phase[s] \in {"creating", "up", "stopping"}

\* External: containerd and the CNI give s an address nobody else has, and a
\* pod a new sandbox only when the previous one is stopped.
Startable(s) ==
  /\ phase[s] = "new"
  /\ \A t \in Sandboxes \ {s} :
       Holding(t) => Uid[t] # Uid[s] /\ Addr[t] \cap Addr[s] = {}

Begin(op, pc, s) ==
  /\ agent = "up"
  /\ nri = Idle
  /\ nri' = [Idle EXCEPT !.op = op, !.pc = pc, !.sb = s]
  /\ UNCHANGED <<agent, agentVars, admitted, loop, proxyVars, faults>>

RunPodSandbox(s) ==
  /\ Startable(s)
  /\ Begin("run", "configure", s)
  /\ phase' = [phase EXCEPT ![s] = "creating"]

\* configurePod: the chains go in before the state is recorded.  A failure may
\* leave new chains half built, or old ones flushed (module Netfilter).
configured(s) ==
  /\ rules' = rules \cup {s}
  /\ pods' = pods \cup {s}
  /\ NoFault

notConfigured(s) ==
  /\ rules' \in {rules, rules \cup {s}, rules \ {s}}
  /\ UNCHANGED pods
  /\ Fault("netfilter")

\* Mutant: an error of configurePod is logged and the sandbox runs.
RunConfigureLogged ==
  /\ nri.op = "run" /\ nri.pc = "configure"
  /\ configured(nri.sb) \/ notConfigured(nri.sb)
  /\ nri' = [nri EXCEPT !.pc = "post"]
  /\ UNCHANGED <<phase, agent, active, admitted, loop, proxyVars>>

RunConfigure ==
  /\ nri.op = "run" /\ nri.pc = "configure"
  /\ \/ configured(nri.sb) /\ nri' = [nri EXCEPT !.pc = "post"] /\ UNCHANGED phase
     \/ /\ notConfigured(nri.sb)
        /\ nri' = Idle
        /\ phase' = [phase EXCEPT ![nri.sb] = "down"]
  /\ UNCHANGED <<agent, active, admitted, loop, proxyVars>>

RunPost ==
  /\ nri.op = "run" /\ nri.pc = "post"
  /\ LET after == Map!Put(reg, Info(nri.sb)) IN
       \/ Done(after) /\ nri' = [nri EXCEPT !.pc = "activate"]
       \/ Failed(after) /\ Retry
       \/ Failed(after) /\ nri' = [nri EXCEPT !.op = "undo", !.pc = "forget", !.try = 1]
  /\ UNCHANGED <<phase, agent, agentVars, admitted, loop, proxy>>

RunActivate ==
  /\ nri.op = "run" /\ nri.pc = "activate"
  /\ active' = [active EXCEPT ![Uid[nri.sb]] = nri.sb]
  /\ phase' = [phase EXCEPT ![nri.sb] = "up"]
  /\ admitted' = admitted \cup {nri.sb}
  /\ nri' = Idle
  /\ UNCHANGED <<agent, pods, rules, loop, proxyVars, faults>>

-----------------------------------------------------------------------------
(* cleanupPod, run by StopPodSandbox, RemovePodSandbox and a failed run.   *)

StopPodSandbox(s) ==
  /\ s \in Stoppable /\ phase[s] = "up"
  /\ Begin("stop", "forget", s)
  /\ phase' = [phase EXCEPT ![s] = "stopping"]

RemovePodSandbox(s) ==
  /\ phase[s] = "down"
  /\ Begin("remove", "forget", s)
  /\ phase' = [phase EXCEPT ![s] = "removing"]

\* Mutant: the pod stays in activePods.
CleanupForgetKeeps ==
  /\ nri.pc = "forget"
  /\ pods' = pods \ {nri.sb}
  /\ nri' = [nri EXCEPT !.pc = "delete"]
  /\ UNCHANGED <<phase, agent, active, rules, admitted, loop, proxyVars, faults>>

\* The sandbox leaves p.pods, and its UID leaves activePods.  Without state
\* the interface is looked up through the netns, which a stopped sandbox no
\* longer has; without an interface the chains are left alone.
CleanupForget ==
  /\ nri.pc = "forget"
  /\ pods' = pods \ {nri.sb}
  /\ active' = [active EXCEPT ![Uid[nri.sb]] = Nil]
  /\ \/ nri' = [nri EXCEPT !.pc = "unrule"] /\ (nri.sb \in pods \/ Holding(nri.sb)) /\ NoFault
     \/ nri' = [nri EXCEPT !.pc = "delete"] /\ nri.sb \notin pods /\ ~Holding(nri.sb) /\ NoFault
     \/ nri' = [nri EXCEPT !.pc = "delete"] /\ nri.sb \notin pods /\ Fault("netfilter")
  /\ UNCHANGED <<phase, agent, rules, admitted, loop, proxyVars>>

\* containerd goes on whether or not the handler returned an error.
Cleaned == [phase EXCEPT ![nri.sb] = IF nri.op = "remove" THEN "gone" ELSE "down"]

\* A failure returns before the proxy is told.  The chains of IPv6 are removed
\* too, which fails for a pod that never had them (module Netfilter).
CleanupUnrule ==
  /\ nri.pc = "unrule"
  /\ \/ /\ rules' = rules \ {nri.sb} /\ nri.sb \notin Single /\ NoFault
        /\ nri' = [nri EXCEPT !.pc = "delete"] /\ UNCHANGED phase
     \/ /\ \/ rules' \in {rules, rules \ {nri.sb}} /\ Fault("netfilter")
           \/ rules' = rules \ {nri.sb} /\ nri.sb \in Single /\ NoFault
        /\ nri' = Idle /\ phase' = Cleaned
  /\ UNCHANGED <<agent, pods, active, admitted, loop, proxyVars>>

CleanupDelete ==
  /\ nri.pc = "delete"
  /\ LET after == Map!Delete(reg, {Uid[nri.sb]}) IN
       \/ Done(after) /\ nri' = Idle /\ phase' = Cleaned
       \/ Failed(after) /\ Retry
                        /\ UNCHANGED phase
       \/ Failed(after) /\ nri' = Idle /\ phase' = Cleaned
  /\ UNCHANGED <<agent, agentVars, admitted, loop, proxy>>

-----------------------------------------------------------------------------
(* Synchronize, called when the plugin connects.                           *)

AgentStart ==
  /\ agent = "down" /\ agent' = "up"
  /\ nri' = [Idle EXCEPT !.op = "sync", !.pc = "reset", !.todo = {s \in Sandboxes : phase[s] = "up"}]
  /\ admitted' = {}
  /\ UNCHANGED <<phase, agentVars, loop, proxyVars, faults>>

SyncReset ==
  /\ nri.pc = "reset"
  /\ active' = [u \in UIDs |-> Nil]
  /\ nri' = [nri EXCEPT !.pc = "configure"]
  /\ UNCHANGED <<phase, agent, pods, rules, admitted, loop, proxyVars, faults>>

SyncConfigure(s) ==
  /\ nri.op = "sync" /\ nri.pc = "configure" /\ s \in nri.todo
  /\ \/ /\ configured(s)
        /\ active' = [active EXCEPT ![Uid[s]] = s]
        /\ admitted' = admitted \cup {s}
        /\ nri' = [nri EXCEPT !.todo = @ \ {s}, !.list = @ \cup {s}]
     \/ /\ notConfigured(s)
        /\ nri' = [nri EXCEPT !.todo = @ \ {s}]
        /\ UNCHANGED <<active, admitted>>
  /\ UNCHANGED <<phase, agent, loop, proxyVars>>

\* Nothing synchronised: the proxy is not called at all.
SyncNone ==
  /\ nri.op = "sync" /\ nri.pc = "configure" /\ nri.todo = {} /\ nri.list = {}
  /\ nri' = Idle
  /\ UNCHANGED <<phase, agent, agentVars, admitted, loop, proxyVars, faults>>

SyncPut ==
  /\ nri.op = "sync" /\ nri.pc = "configure" /\ nri.todo = {} /\ nri.list # {}
  /\ \E after \in SynchronizePods(nri.list) :
       \/ Done(after) /\ nri' = Idle
       \/ Failed(after) /\ Retry
       \/ Failed(after) /\ nri' = Idle
  /\ UNCHANGED <<phase, agent, agentVars, admitted, loop, proxy>>

-----------------------------------------------------------------------------
(* The sync loop, syncActivePodsWithProxy every two seconds.               *)

ActiveSandboxes == {active[u] : u \in {v \in UIDs : active[v] # Nil}}

\* No active pods: the tick does nothing.
LoopTick ==
  /\ agent = "up" /\ loop.pc = "tick" /\ ActiveSandboxes # {}
  /\ loop' = [LoopIdle EXCEPT !.pc = "get", !.list = ActiveSandboxes]
  /\ UNCHANGED <<phase, agent, agentVars, admitted, nri, proxyVars, faults>>

\* Mutant: off by one, a single missing pod is not noticed.
LoopGetOffByOne ==
  /\ loop.pc = "get"
  /\ \/ /\ proxy = "up" /\ NoFault
        /\ loop' = IF Cardinality(Known) + 1 < Cardinality(loop.list)
                   THEN [loop EXCEPT !.pc = "put"] ELSE LoopIdle
     \/ Failed(reg) /\ loop' = LoopIdle
  /\ UNCHANGED <<phase, agent, agentVars, admitted, nri, proxyVars>>

\* Only the NUMBER of pods the proxy knows is looked at.
LoopGet ==
  /\ loop.pc = "get"
  /\ \/ /\ proxy = "up" /\ NoFault
        /\ loop' = IF Cardinality(Known) < Cardinality(loop.list)
                   THEN [loop EXCEPT !.pc = "put"] ELSE LoopIdle
     \/ Failed(reg) /\ loop' = LoopIdle
  /\ UNCHANGED <<phase, agent, agentVars, admitted, nri, proxyVars>>

LoopPut ==
  /\ loop.pc = "put"
  /\ \E after \in SynchronizePods(loop.list) :
       \/ Done(after) /\ loop' = LoopIdle
       \/ Failed(after) /\ loop.try < Attempts /\ loop' = [loop EXCEPT !.try = @ + 1]
       \/ Failed(after) /\ loop' = LoopIdle
  /\ UNCHANGED <<phase, agent, agentVars, admitted, nri, proxy>>

-----------------------------------------------------------------------------
(* The operator's bind and unbind commands.                                *)

runBind(u, g) ==
  /\ proxy = "up" /\ u \in Bindable
  /\ reg' = Map!Assign(reg, u, g)
  /\ UNCHANGED <<phase, agent, agentVars, admitted, nri, loop, proxy, faults>>

runUnbind(u) ==
  /\ proxy = "up" /\ u \in Bindable \cap Known
  /\ reg' = Map!Assign(reg, u, Unbound)
  /\ UNCHANGED <<phase, agent, agentVars, admitted, nri, loop, proxy, faults>>

-----------------------------------------------------------------------------
(* Crashes (external).  While the plugin is away containerd runs, stops    *)
(* and removes sandboxes without it, the one in progress included.         *)

Unhooked ==
  [s \in Sandboxes |-> CASE phase[s] = "creating" -> "up"
                         [] phase[s] = "stopping" -> "down"
                         [] phase[s] = "removing" -> "gone"
                         [] OTHER -> phase[s]]

\* The sandboxes whose chains the handler in progress may be changing.
Touched ==
  CASE nri.op = "sync" /\ nri.pc = "configure" -> nri.todo
    [] nri.op = "run" /\ nri.pc = "configure" -> {nri.sb}
    [] nri.pc = "unrule" -> {nri.sb}
    [] OTHER -> {}

AgentCrash ==
  /\ agent = "up" /\ agent' = "down" /\ Fault("agent crash")
  /\ pods' = {} /\ active' = [u \in UIDs |-> Nil]
  /\ nri' = Idle /\ loop' = LoopIdle
  /\ phase' = Unhooked
  /\ rules' \in {rules} \cup {rules \cup {s} : s \in Touched} \cup {rules \ {s} : s \in Touched}
  /\ UNCHANGED <<admitted, proxyVars>>

WithoutAgent(s) ==
  /\ agent = "down"
  /\ \/ Startable(s) /\ phase' = [phase EXCEPT ![s] = "up"]
     \/ s \in Stoppable /\ phase[s] = "up" /\ phase' = [phase EXCEPT ![s] = "down"]
     \/ phase[s] = "down" /\ phase' = [phase EXCEPT ![s] = "gone"]
  /\ UNCHANGED <<agent, agentVars, admitted, nri, loop, proxyVars, faults>>

ProxyCrash ==
  /\ proxy = "up" /\ proxy' = "down" /\ Fault("proxy crash")
  /\ reg' = Map!Empty
  /\ UNCHANGED <<phase, agent, agentVars, admitted, nri, loop>>

ProxyStart ==
  /\ proxy = "down" /\ proxy' = "up"
  /\ UNCHANGED <<phase, agent, agentVars, admitted, nri, loop, reg, faults>>

-----------------------------------------------------------------------------

Handler ==
  \/ RunConfigure \/ RunPost \/ RunActivate
  \/ CleanupForget \/ CleanupUnrule \/ CleanupDelete
  \/ SyncReset \/ SyncNone \/ SyncPut
  \/ \E s \in Sandboxes : SyncConfigure(s)

Loop == LoopTick \/ LoopGet \/ LoopPut

Next ==
  \/ \E s \in Sandboxes : RunPodSandbox(s) \/ StopPodSandbox(s) \/ RemovePodSandbox(s)
                          \/ WithoutAgent(s)
  \/ Handler
  \/ Loop
  \/ \E u \in UIDs, g \in Grants : runBind(u, g)
  \/ \E u \in UIDs : runUnbind(u)
  \/ AgentStart \/ AgentCrash
  \/ ProxyStart \/ ProxyCrash

\* The kubelet restarts both processes, the ticker keeps ticking, and a
\* handler in progress goes on.  containerd and the operator owe nothing.
Spec ==
  /\ Init
  /\ [][Next]_vars
  /\ WF_vars(Handler) /\ WF_vars(Loop) /\ WF_vars(AgentStart) /\ WF_vars(ProxyStart)

-----------------------------------------------------------------------------
(* Properties.                                                             *)

\* A sandbox the plugin let run, or has synchronised, keeps its host chains
\* while it is up (docs/design/daemonset-mode.md, "Strictly Fail-Closed"): no
\* crash of plugin or proxy, failed handler or event of another sandbox of
\* the pod opens it, up to the next Synchronize that configures it again.
FailClosed == \A s \in admitted : phase[s] = "up" => s \in rules

\* activePods lists only sandboxes that are up or being stopped: what the
\* sync loop reads under p.mu was never removed (what it later PUTs may be).
ActiveLive ==
  \A u \in UIDs : active[u] # Nil =>
    active[u] \in pods /\ phase[active[u]] \in {"up", "stopping"}

\* The proxy resolves every address of s to its pod.
Answered(s) ==
  \A ip \in Addr[s] : reg.answers[ip] # Nil /\ reg.answers[ip].uid = Uid[s]

\* Nothing has stopped, and the proxy knows no pod that has not been started
\* and no binding but the annotated ones: nobody has bound or unbound a pod.
Undisturbed ==
  /\ \A s \in Sandboxes : phase[s] \in {"new", "creating", "up"}
  /\ \A u \in Known : \E s \in Sandboxes :
       /\ Uid[s] = u /\ phase[s] # "new"
       /\ reg.pods[u].grant = Annotation[s]

\* Synchronize and the sync loop "recover state after agent restarts"
\* (docs/design/spikes/nri.md): as long as no sandbox stops and no pod is bound
\* by hand, the proxy ends up resolving every sandbox that was let run or
\* synchronised, whatever crashes, refused calls and lost replies there were.
Recovers ==
  []Undisturbed =>
    \A s \in Sandboxes : <>[](s \in admitted /\ phase[s] = "up" => Answered(s))

\* Background reconciliation prunes "disappeared pods" (docs/design/spikes/
\* nri.md) from the proxy in the end.
Pruned == <>[](\A u \in Known : \E s \in Sandboxes : phase[s] = "up" /\ Uid[s] = u)
=============================================================================
