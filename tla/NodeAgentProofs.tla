--------------------------- MODULE NodeAgentProofs ---------------------------
(***************************************************************************)
(* The plugin fails closed, for any sandboxes, pods, addresses and faults. *)
(* FailClosed and ActiveLive are not inductive by themselves: a crash may  *)
(* hit any handler half way.  InHandler says what holds of the sandbox a   *)
(* handler is at, at each of its steps.  Nothing is needed of the proxy:   *)
(* what it answers, loses or forgets does not open a sandbox.              *)
(***************************************************************************)
EXTENDS NodeAgent, TLAPS

Ops == {"idle", "run", "undo", "stop", "remove", "sync"}
PCs == {"none", "configure", "post", "activate", "forget", "unrule", "delete", "reset"}

Shape ==
  /\ phase \in [Sandboxes -> {"new", "creating", "up", "stopping", "down", "removing", "gone"}]
  /\ pods \subseteq Sandboxes /\ rules \subseteq Sandboxes /\ admitted \subseteq Sandboxes
  /\ active \in [UIDs -> Sandboxes \cup {Nil}]
  /\ \A u \in UIDs : active[u] # Nil => Uid[active[u]] = u
  /\ nri \in [op : Ops, pc : PCs, sb : Sandboxes \cup {Nil}, todo : SUBSET Sandboxes,
              list : SUBSET Sandboxes, try : Nat]

InHandler ==
  /\ nri.op = "idle" => nri.pc = "none"
  /\ nri.pc = "none" => nri.op = "idle"
  /\ nri.op = "run" =>
       /\ nri.sb \in Sandboxes /\ phase[nri.sb] = "creating"
       /\ nri.pc \in {"configure", "post", "activate"}
       /\ nri.pc \in {"post", "activate"} => nri.sb \in rules /\ nri.sb \in pods
  /\ nri.op \in {"undo", "stop", "remove"} =>
       /\ nri.sb \in Sandboxes
       /\ phase[nri.sb] = CASE nri.op = "undo" -> "creating"
                            [] nri.op = "stop" -> "stopping"
                            [] nri.op = "remove" -> "removing"
       /\ nri.pc \in {"forget", "unrule", "delete"}
       /\ nri.pc \in {"unrule", "delete"} => \A u \in UIDs : active[u] # nri.sb
  /\ nri.op = "sync" =>
       /\ nri.pc \in {"reset", "configure"}
       /\ \A s \in nri.todo : s \notin admitted /\ phase[s] = "up"

\* Nothing of the plugin's state outlives it.
Away == agent = "down" => nri = Idle /\ \A u \in UIDs : active[u] = Nil

\* A sandbox is admitted when it has been created, once.
AdmittedUp == \A s \in admitted : phase[s] \notin {"new", "creating"}

IInv == Shape /\ InHandler /\ Away /\ AdmittedUp /\ FailClosed /\ ActiveLive

LEMMA InvInit == Init => IInv
<1> SUFFICES ASSUME Init PROVE IInv
  OBVIOUS
<1>1. Shape
  BY DEF Init, Shape, Idle, Ops, PCs
<1>2. InHandler /\ Away
  BY DEF Init, InHandler, Away, Idle
<1> QED BY <1>1, <1>2 DEF Init, IInv, AdmittedUp, FailClosed, ActiveLive

\* A step that only changes how often the handler has tried, the sync loop or
\* the proxy.
LEMMA Outside ==
  ASSUME IInv, UNCHANGED <<phase, pods, active, rules, admitted, agent>>,
         nri' = nri \/ \E n \in Nat : nri' = [nri EXCEPT !.try = n] /\ agent # "down"
  PROVE  IInv'
<1>1. /\ nri'.op = nri.op /\ nri'.pc = nri.pc /\ nri'.sb = nri.sb /\ nri'.todo = nri.todo
      /\ Shape' /\ Away'
  BY DEF IInv, Shape, Away
<1> QED BY <1>1 DEF IInv, InHandler, AdmittedUp, FailClosed, ActiveLive

\* The handler returns.
LEMMA Returns ==
  ASSUME IInv, nri' = Idle, UNCHANGED <<phase, pods, active, rules, admitted, agent>>
  PROVE  IInv'
<1>1. Shape' /\ InHandler' /\ Away'
  BY DEF IInv, Shape, InHandler, Away, Idle, Ops, PCs
<1> QED BY <1>1 DEF IInv, AdmittedUp, FailClosed, ActiveLive

\* cleanupPod returns: the sandbox is down or gone, and no longer active.
LEMMA ReturnsCleaned ==
  ASSUME IInv, nri.op \in {"undo", "stop", "remove"}, nri.pc \in {"unrule", "delete"},
         nri' = Idle, phase' = Cleaned, rules' \in {rules, rules \ {nri.sb}},
         UNCHANGED <<pods, active, admitted, agent>>
  PROVE  IInv'
<1>1. /\ nri.sb \in Sandboxes /\ phase'[nri.sb] \in {"down", "gone"}
      /\ \A s \in Sandboxes \ {nri.sb} : phase'[s] = phase[s]
      /\ \A u \in UIDs : active[u] # nri.sb
  BY DEF IInv, Shape, InHandler, Cleaned
<1>2. Shape'
  BY <1>1 DEF IInv, Shape, Cleaned, Idle, Ops, PCs
<1>3. InHandler' /\ Away'
  BY DEF IInv, InHandler, Away, Idle
<1>4. AdmittedUp' /\ FailClosed'
  BY <1>1 DEF IInv, Shape, AdmittedUp, FailClosed
<1>5. ActiveLive'
  BY <1>1 DEF IInv, Shape, ActiveLive
<1> QED BY <1>2, <1>3, <1>4, <1>5 DEF IInv

LEMMA Starting ==
  ASSUME IInv, NEW s \in Sandboxes, RunPodSandbox(s) \/ StopPodSandbox(s) \/ RemovePodSandbox(s)
  PROVE  IInv'
<1>1. PICK op \in {"run", "stop", "remove"}, pc \in {"configure", "forget"} :
        /\ nri' = [Idle EXCEPT !.op = op, !.pc = pc, !.sb = s]
        /\ op = "run" => pc = "configure" /\ phase[s] = "new" /\ phase' = [phase EXCEPT ![s] = "creating"]
        /\ op = "stop" => pc = "forget" /\ phase[s] = "up" /\ phase' = [phase EXCEPT ![s] = "stopping"]
        /\ op = "remove" => pc = "forget" /\ phase[s] = "down" /\ phase' = [phase EXCEPT ![s] = "removing"]
  BY DEF RunPodSandbox, StopPodSandbox, RemovePodSandbox, Begin, Startable
<1>2. UNCHANGED <<pods, active, rules, admitted, agent>> /\ agent = "up"
  BY DEF RunPodSandbox, StopPodSandbox, RemovePodSandbox, Begin, agentVars
<1>3. nri'.op = op /\ nri'.pc = pc /\ nri'.sb = s /\ nri'.todo = {} /\ nri'.list = {} /\ nri'.try = 1
  BY <1>1 DEF Idle
<1>4. \A t \in Sandboxes \ {s} : phase'[t] = phase[t]
  BY <1>1 DEF IInv, Shape
<1>5. Shape'
  BY <1>1, <1>2 DEF IInv, Shape, Idle, Ops, PCs
<1>6. InHandler'
  BY <1>1, <1>3 DEF IInv, Shape, InHandler
<1>7. Away'
  BY <1>2 DEF Away
<1>8. AdmittedUp' /\ FailClosed'
  BY <1>1, <1>2, <1>4 DEF IInv, Shape, AdmittedUp, FailClosed
<1>9. ActiveLive'
  BY <1>1, <1>2, <1>4 DEF IInv, Shape, ActiveLive
<1> QED BY <1>5, <1>6, <1>7, <1>8, <1>9 DEF IInv

LEMMA Configured ==
  ASSUME IInv, RunConfigure, configured(nri.sb), nri' = [nri EXCEPT !.pc = "post"],
         UNCHANGED phase
  PROVE  IInv'
<1>1. /\ nri.op = "run" /\ nri.sb \in Sandboxes /\ phase[nri.sb] = "creating"
      /\ rules' = rules \cup {nri.sb} /\ pods' = pods \cup {nri.sb}
      /\ UNCHANGED <<active, admitted, agent>>
  BY DEF RunConfigure, configured, IInv, InHandler
<1>2. nri'.op = "run" /\ nri'.pc = "post" /\ nri'.sb = nri.sb
  BY <1>1 DEF IInv, Shape
<1>3. Shape'
  BY <1>1 DEF IInv, Shape, PCs
<1>4. InHandler'
  BY <1>1, <1>2 DEF InHandler
<1>5. Away'
  BY <1>1 DEF IInv, Away, Idle
<1> QED BY <1>1, <1>3, <1>4, <1>5 DEF IInv, AdmittedUp, FailClosed, ActiveLive

LEMMA NotConfigured ==
  ASSUME IInv, RunConfigure, notConfigured(nri.sb), nri' = Idle,
         phase' = [phase EXCEPT ![nri.sb] = "down"]
  PROVE  IInv'
<1>1. /\ nri.op = "run" /\ nri.sb \in Sandboxes /\ phase[nri.sb] = "creating"
      /\ rules' \in {rules, rules \cup {nri.sb}, rules \ {nri.sb}}
      /\ UNCHANGED <<pods, active, admitted, agent>>
  BY DEF RunConfigure, notConfigured, IInv, InHandler
<1>2. phase'[nri.sb] = "down" /\ \A s \in Sandboxes \ {nri.sb} : phase'[s] = phase[s]
  BY <1>1 DEF IInv, Shape
<1>3. Shape'
  BY <1>1 DEF IInv, Shape, Idle, Ops, PCs
<1>4. InHandler' /\ Away'
  BY <1>1 DEF IInv, InHandler, Away, Idle
<1>5. AdmittedUp' /\ FailClosed'
  BY <1>1, <1>2 DEF IInv, Shape, AdmittedUp, FailClosed
<1>6. ActiveLive'
  BY <1>1, <1>2 DEF IInv, Shape, ActiveLive
<1> QED BY <1>3, <1>4, <1>5, <1>6 DEF IInv

\* The handler goes on to activate, or to undo what it did.
LEMMA Posted ==
  ASSUME IInv, RunPost,
         \/ nri' = [nri EXCEPT !.pc = "activate"]
         \/ nri' = [nri EXCEPT !.op = "undo", !.pc = "forget", !.try = 1]
  PROVE  IInv'
<1>1. /\ nri.op = "run" /\ nri.pc = "post" /\ nri.sb \in Sandboxes
      /\ phase[nri.sb] = "creating" /\ nri.sb \in rules /\ nri.sb \in pods
      /\ UNCHANGED <<phase, pods, active, rules, admitted, agent>>
  BY DEF RunPost, IInv, InHandler, agentVars
<1>2. /\ nri'.sb = nri.sb
      /\ \/ nri'.op = "run" /\ nri'.pc = "activate"
         \/ nri'.op = "undo" /\ nri'.pc = "forget"
  BY <1>1 DEF IInv, Shape
<1>3. Shape'
  <2>1. CASE nri' = [nri EXCEPT !.pc = "activate"]
    BY <1>1, <2>1 DEF IInv, Shape, PCs
  <2>2. CASE nri' = [nri EXCEPT !.op = "undo", !.pc = "forget", !.try = 1]
    BY <1>1, <2>2 DEF IInv, Shape, Ops, PCs
  <2> QED BY <2>1, <2>2
<1>4. InHandler'
  BY <1>1, <1>2 DEF InHandler
<1>5. Away'
  BY <1>1 DEF IInv, Away, Idle
<1> QED BY <1>1, <1>3, <1>4, <1>5 DEF IInv, AdmittedUp, FailClosed, ActiveLive

LEMMA Activated == ASSUME IInv, RunActivate PROVE IInv'
<1>1. /\ nri.sb \in Sandboxes /\ phase[nri.sb] = "creating"
      /\ nri.sb \in rules /\ nri.sb \in pods /\ Uid[nri.sb] \in UIDs
  BY AgentAssumption DEF RunActivate, IInv, InHandler
<1>2. /\ active' = [active EXCEPT ![Uid[nri.sb]] = nri.sb]
      /\ phase' = [phase EXCEPT ![nri.sb] = "up"]
      /\ admitted' = admitted \cup {nri.sb}
      /\ nri' = Idle
      /\ UNCHANGED <<agent, pods, rules>>
  BY DEF RunActivate
<1>3. /\ phase'[nri.sb] = "up" /\ \A s \in Sandboxes \ {nri.sb} : phase'[s] = phase[s]
      /\ \A u \in UIDs : active'[u] = IF u = Uid[nri.sb] THEN nri.sb ELSE active[u]
  BY <1>1, <1>2 DEF IInv, Shape
<1>4. Shape'
  BY <1>1, <1>2, <1>3 DEF IInv, Shape, Idle, Ops, PCs
<1>5. InHandler' /\ Away'
  BY <1>2 DEF IInv, InHandler, Away, Idle, RunActivate
<1>6. AdmittedUp' /\ FailClosed'
  BY <1>1, <1>2, <1>3 DEF IInv, Shape, AdmittedUp, FailClosed
<1>7. ActiveLive'
  BY <1>1, <1>2, <1>3 DEF IInv, Shape, ActiveLive
<1> QED BY <1>4, <1>5, <1>6, <1>7 DEF IInv

\* The handler tries once more.
LEMMA Retries ==
  ASSUME IInv, Retry, nri.op # "idle", UNCHANGED <<phase, pods, active, rules, admitted, agent>>
  PROVE  IInv'
<1>1. nri.try + 1 \in Nat /\ nri' = [nri EXCEPT !.try = nri.try + 1]
  BY DEF Retry, IInv, Shape
<1>2. agent # "down"
  BY DEF IInv, Away, Idle
<1> QED BY <1>1, <1>2, Outside

LEMMA Forgotten == ASSUME IInv, CleanupForget PROVE IInv'
<1>1. /\ nri.op \in {"undo", "stop", "remove"} /\ nri.pc = "forget"
      /\ nri.sb \in Sandboxes /\ Uid[nri.sb] \in UIDs
  BY AgentAssumption DEF CleanupForget, IInv, Shape, InHandler, Ops
<1>2. /\ pods' = pods \ {nri.sb}
      /\ active' = [active EXCEPT ![Uid[nri.sb]] = Nil]
      /\ UNCHANGED <<phase, agent, rules, admitted>>
  BY DEF CleanupForget
<1>3. PICK pc \in {"unrule", "delete"} : nri' = [nri EXCEPT !.pc = pc]
  BY DEF CleanupForget
<1>4. nri'.op = nri.op /\ nri'.pc = pc /\ nri'.sb = nri.sb /\ nri'.todo = nri.todo
  BY <1>3 DEF IInv, Shape
<1>5. \A u \in UIDs : active'[u] = IF u = Uid[nri.sb] THEN Nil ELSE active[u]
  BY <1>1, <1>2 DEF IInv, Shape
<1>6. \A u \in UIDs : active'[u] # nri.sb
  <2>1. Nil \notin Sandboxes
    BY AgentAssumption
  <2>2. \A u \in UIDs : active[u] = nri.sb => u = Uid[nri.sb]
    BY <1>1, <2>1 DEF IInv, Shape
  <2> QED BY <1>1, <1>5, <2>1, <2>2
<1>7. Shape'
  <2>1. pc \in PCs
    BY DEF PCs
  <2>2. nri' \in [op : Ops, pc : PCs, sb : Sandboxes \cup {Nil}, todo : SUBSET Sandboxes,
                  list : SUBSET Sandboxes, try : Nat]
    BY <1>3, <2>1 DEF IInv, Shape
  <2>3. active' \in [UIDs -> Sandboxes \cup {Nil}]
    BY <1>2 DEF IInv, Shape
  <2> QED BY <1>2, <1>5, <2>2, <2>3 DEF IInv, Shape
<1>8. InHandler'
  BY <1>1, <1>2, <1>4, <1>6 DEF IInv, InHandler
<1>9. Away'
  BY <1>1, <1>2 DEF IInv, Away, Idle
<1>10. AdmittedUp' /\ FailClosed'
  BY <1>2 DEF IInv, AdmittedUp, FailClosed
<1>11. ActiveLive'
  BY <1>1, <1>2, <1>5, <1>6 DEF IInv, Shape, ActiveLive
<1> QED BY <1>7, <1>8, <1>9, <1>10, <1>11 DEF IInv

\* The chains are gone; the sandbox is not running, or was never let run.
LEMMA Unruled ==
  ASSUME IInv, nri.pc = "unrule", nri' = [nri EXCEPT !.pc = "delete"],
         rules' = rules \ {nri.sb}, UNCHANGED <<phase, pods, active, admitted, agent>>
  PROVE  IInv'
<1>1. /\ nri.op \in {"undo", "stop", "remove"} /\ nri.sb \in Sandboxes
      /\ phase[nri.sb] \in {"creating", "stopping", "removing"}
  BY DEF IInv, Shape, InHandler, Ops
<1>2. nri'.op = nri.op /\ nri'.pc = "delete" /\ nri'.sb = nri.sb /\ nri'.todo = nri.todo
  BY DEF IInv, Shape
<1>3. Shape'
  BY <1>1 DEF IInv, Shape, PCs
<1>4. InHandler'
  BY <1>1, <1>2 DEF IInv, InHandler
<1>5. Away'
  BY <1>1 DEF IInv, Away, Idle
<1>6. AdmittedUp' /\ FailClosed'
  BY <1>1 DEF IInv, AdmittedUp, FailClosed
<1> QED BY <1>3, <1>4, <1>5, <1>6 DEF IInv, ActiveLive

LEMMA Reset == ASSUME IInv, SyncReset PROVE IInv'
<1>1. nri.op = "sync" /\ nri.pc = "reset"
  BY DEF SyncReset, IInv, Shape, InHandler, Ops
<1>2. /\ active' = [u \in UIDs |-> Nil] /\ nri' = [nri EXCEPT !.pc = "configure"]
      /\ UNCHANGED <<phase, agent, pods, rules, admitted>>
  BY DEF SyncReset
<1>3. nri'.op = "sync" /\ nri'.pc = "configure" /\ nri'.todo = nri.todo
  BY <1>1, <1>2 DEF IInv, Shape
<1>4. Shape'
  BY <1>2 DEF IInv, Shape, PCs
<1>5. InHandler'
  BY <1>1, <1>2, <1>3 DEF IInv, InHandler
<1>6. Away' /\ ActiveLive'
  BY <1>1, <1>2 DEF IInv, Away, Idle, ActiveLive
<1> QED BY <1>2, <1>4, <1>5, <1>6 DEF IInv, AdmittedUp, FailClosed

LEMMA Synchronised == ASSUME IInv, NEW s \in Sandboxes, SyncConfigure(s) PROVE IInv'
<1>1. /\ nri.op = "sync" /\ nri.pc = "configure" /\ s \in nri.todo
      /\ s \notin admitted /\ phase[s] = "up" /\ Uid[s] \in UIDs
      /\ UNCHANGED <<phase, agent>>
  BY AgentAssumption DEF SyncConfigure, IInv, InHandler
<1>2. /\ nri'.op = "sync" /\ nri'.pc = "configure" /\ nri'.todo = nri.todo \ {s}
      /\ nri' \in [op : Ops, pc : PCs, sb : Sandboxes \cup {Nil}, todo : SUBSET Sandboxes,
                   list : SUBSET Sandboxes, try : Nat]
  <2>1. CASE nri' = [nri EXCEPT !.todo = @ \ {s}, !.list = @ \cup {s}]
    BY <1>1, <2>1 DEF IInv, Shape
  <2>2. CASE nri' = [nri EXCEPT !.todo = @ \ {s}]
    BY <1>1, <2>2 DEF IInv, Shape
  <2> QED BY <2>1, <2>2 DEF SyncConfigure
<1>3. Away'
  BY <1>1 DEF IInv, Away, Idle
<1>4. CASE /\ configured(s) /\ active' = [active EXCEPT ![Uid[s]] = s]
           /\ admitted' = admitted \cup {s}
  <2>1. \A u \in UIDs : active'[u] = IF u = Uid[s] THEN s ELSE active[u]
    BY <1>1, <1>4 DEF IInv, Shape
  <2>2. rules' = rules \cup {s} /\ pods' = pods \cup {s}
    BY <1>4 DEF configured
  <2>3. Shape'
    BY <1>1, <1>2, <1>4, <2>1, <2>2 DEF IInv, Shape
  <2>4. InHandler'
    BY <1>1, <1>2, <1>4 DEF IInv, InHandler
  <2>5. AdmittedUp' /\ FailClosed' /\ ActiveLive'
    BY <1>1, <1>4, <2>1, <2>2 DEF IInv, AdmittedUp, FailClosed, ActiveLive
  <2> QED BY <1>3, <2>3, <2>4, <2>5 DEF IInv
<1>5. CASE notConfigured(s) /\ UNCHANGED <<active, admitted>>
  <2>1. rules' \in {rules, rules \cup {s}, rules \ {s}} /\ pods' = pods
    BY <1>5 DEF notConfigured
  <2>2. Shape'
    BY <1>1, <1>2, <1>5, <2>1 DEF IInv, Shape
  <2>3. InHandler'
    BY <1>1, <1>2, <1>5 DEF IInv, InHandler
  <2>4. AdmittedUp' /\ FailClosed' /\ ActiveLive'
    BY <1>1, <1>5, <2>1 DEF IInv, AdmittedUp, FailClosed, ActiveLive
  <2> QED BY <1>3, <2>2, <2>3, <2>4 DEF IInv
<1> QED BY <1>4, <1>5 DEF SyncConfigure

LEMMA Start == ASSUME IInv, AgentStart PROVE IInv'
<1> DEFINE up == {s \in Sandboxes : phase[s] = "up"}
<1>1. /\ nri' = [Idle EXCEPT !.op = "sync", !.pc = "reset", !.todo = up]
      /\ admitted' = {} /\ agent' = "up" /\ UNCHANGED <<phase, pods, active, rules>>
  BY DEF AgentStart, agentVars
<1>2. nri'.op = "sync" /\ nri'.pc = "reset" /\ nri'.todo = up
  BY <1>1 DEF Idle
<1>3. Shape'
  BY <1>1 DEF IInv, Shape, Idle, Ops, PCs
<1>4. InHandler'
  BY <1>1, <1>2 DEF InHandler
<1> QED BY <1>1, <1>3, <1>4 DEF IInv, Away, AdmittedUp, FailClosed, ActiveLive

\* What the crash may leave half done belongs to a sandbox that was not
\* admitted, or is not running any more.
LEMMA Crash == ASSUME IInv, AgentCrash PROVE IInv'
<1>1. /\ agent' = "down" /\ pods' = {} /\ active' = [u \in UIDs |-> Nil] /\ nri' = Idle
      /\ phase' = Unhooked /\ UNCHANGED admitted
      /\ \/ rules' = rules
         \/ \E s \in Touched : rules' = rules \cup {s} \/ rules' = rules \ {s}
  BY DEF AgentCrash
<1>2. /\ phase' \in [Sandboxes -> {"new", "creating", "up", "stopping", "down", "removing", "gone"}]
      /\ \A s \in Sandboxes : /\ phase'[s] = "up" <=> phase[s] \in {"creating", "up"}
                              /\ phase'[s] = "new" <=> phase[s] = "new"
                              /\ phase'[s] # "creating"
  BY <1>1 DEF Unhooked, IInv, Shape
<1>3. \A s \in Touched : s \in Sandboxes /\ (s \in admitted => phase[s] \notin {"creating", "up"})
  <2> SUFFICES ASSUME NEW s \in Touched
               PROVE  s \in Sandboxes /\ (s \in admitted => phase[s] \notin {"creating", "up"})
    OBVIOUS
  <2>1. CASE nri.op = "sync"
    BY <2>1 DEF Touched, IInv, Shape, InHandler
  <2>2. CASE nri.op = "run"
    BY <2>2 DEF Touched, IInv, InHandler, AdmittedUp
  <2>3. CASE nri.op \in {"undo", "stop", "remove"}
    BY <2>3 DEF Touched, IInv, InHandler, AdmittedUp
  <2>4. CASE nri.op = "idle"
    BY <2>4 DEF Touched, IInv, InHandler
  <2> QED BY <2>1, <2>2, <2>3, <2>4 DEF IInv, Shape, Ops
<1>4. Shape'
  BY <1>1, <1>2, <1>3 DEF IInv, Shape, Idle, Ops, PCs
<1>5. InHandler' /\ Away' /\ ActiveLive'
  BY <1>1 DEF InHandler, Away, ActiveLive, Idle
<1>6. AdmittedUp' /\ FailClosed'
  BY <1>1, <1>2, <1>3 DEF IInv, Shape, AdmittedUp, FailClosed
<1> QED BY <1>4, <1>5, <1>6 DEF IInv

LEMMA Alone == ASSUME IInv, NEW s \in Sandboxes, WithoutAgent(s) PROVE IInv'
<1>1. PICK p \in {"up", "down", "gone"} :
        /\ phase' = [phase EXCEPT ![s] = p]
        /\ p = "up" => phase[s] = "new"
        /\ phase[s] \in {"new", "up", "down"}
  BY DEF WithoutAgent, Startable
<1>2. /\ agent = "down" /\ UNCHANGED <<agent, pods, active, rules, admitted, nri>>
      /\ nri = Idle /\ \A u \in UIDs : active[u] = Nil
  BY DEF WithoutAgent, agentVars, IInv, Away
<1>3. phase'[s] = p /\ \A t \in Sandboxes \ {s} : phase'[t] = phase[t]
  BY <1>1 DEF IInv, Shape
<1>4. Shape'
  BY <1>1, <1>2 DEF IInv, Shape
<1>5. InHandler' /\ Away' /\ ActiveLive'
  BY <1>2 DEF InHandler, Away, ActiveLive, Idle
<1>6. AdmittedUp' /\ FailClosed'
  BY <1>1, <1>2, <1>3 DEF IInv, Shape, AdmittedUp, FailClosed
<1> QED BY <1>4, <1>5, <1>6 DEF IInv

LEMMA Handled == ASSUME IInv, Handler PROVE IInv'
<1>1. CASE RunConfigure
  BY <1>1, Configured, NotConfigured DEF RunConfigure
<1>2. CASE RunPost
  <2>1. CASE Retry
    BY <1>2, <2>1, Retries DEF RunPost, agentVars
  <2> QED BY <1>2, <2>1, Posted DEF RunPost
<1>3. CASE RunActivate
  BY <1>3, Activated
<1>4. CASE CleanupForget
  BY <1>4, Forgotten
<1>5. CASE CleanupUnrule
  <2>1. nri.op \in {"undo", "stop", "remove"}
    BY <1>5 DEF CleanupUnrule, IInv, Shape, InHandler, Ops
  <2> QED BY <1>5, <2>1, Unruled, ReturnsCleaned DEF CleanupUnrule
<1>6. CASE CleanupDelete
  <2>1. nri.op \in {"undo", "stop", "remove"} /\ UNCHANGED <<pods, active, rules, admitted, agent>>
    BY <1>6 DEF CleanupDelete, agentVars, IInv, Shape, InHandler, Ops
  <2>2. CASE nri' = Idle /\ phase' = Cleaned
    BY <1>6, <2>1, <2>2, ReturnsCleaned DEF CleanupDelete
  <2>3. CASE Retry /\ UNCHANGED phase
    BY <2>1, <2>3, Retries
  <2> QED BY <1>6, <2>2, <2>3 DEF CleanupDelete
<1>7. CASE SyncReset
  BY <1>7, Reset
<1>8. CASE SyncNone
  BY <1>8, Returns DEF SyncNone, agentVars
<1>9. CASE SyncPut
  BY <1>9, Returns, Retries DEF SyncPut, agentVars
<1>10. CASE \E s \in Sandboxes : SyncConfigure(s)
  BY <1>10, Synchronised
<1> QED BY <1>1, <1>2, <1>3, <1>4, <1>5, <1>6, <1>7, <1>8, <1>9, <1>10 DEF Handler

LEMMA Inductive == IInv /\ [Next]_vars => IInv'
<1> SUFFICES ASSUME IInv, [Next]_vars PROVE IInv'
  OBVIOUS
<1>1. ASSUME NEW s \in Sandboxes, RunPodSandbox(s) \/ StopPodSandbox(s) \/ RemovePodSandbox(s)
      PROVE  IInv'
  BY <1>1, Starting
<1>2. ASSUME NEW s \in Sandboxes, WithoutAgent(s) PROVE IInv'
  BY <1>2, Alone
<1>3. CASE Handler
  BY <1>3, Handled
<1>4. CASE AgentStart
  BY <1>4, Start
<1>5. CASE AgentCrash
  BY <1>5, Crash
<1>6. CASE Loop
  BY <1>6, Outside DEF Loop, LoopTick, LoopGet, LoopPut, agentVars
<1>7. CASE ProxyStart \/ ProxyCrash
  BY <1>7, Outside DEF ProxyStart, ProxyCrash, agentVars
<1>8. ASSUME NEW u \in UIDs, runUnbind(u) \/ \E g \in Grants : runBind(u, g) PROVE IInv'
  BY <1>8, Outside DEF runBind, runUnbind, agentVars
<1>9. CASE UNCHANGED vars
  BY <1>9, Outside DEF vars
<1> QED BY <1>1, <1>2, <1>3, <1>4, <1>5, <1>6, <1>7, <1>8, <1>9 DEF Next

LEMMA Invariance == Spec => []IInv
BY InvInit, Inductive, PTL DEF Spec

\* Strictly fail-closed: whatever fails, crashes or is retried, a sandbox that
\* RunPodSandbox let run, or Synchronize configured, has its chains while up.
THEOREM NeverOpen == Spec => []FailClosed
<1>1. IInv => FailClosed
  BY DEF IInv
<1> QED BY <1>1, Invariance, PTL

\* activePods, which the sync loop reads under p.mu, never lists a sandbox that
\* cleanupPod has dealt with, or that containerd removed without the plugin.
THEOREM ListsOnlyLive == Spec => []ActiveLive
<1>1. IInv => ActiveLive
  BY DEF IInv
<1> QED BY <1>1, Invariance, PTL
=============================================================================
