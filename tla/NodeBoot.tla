------------------------------- MODULE NodeBoot -------------------------------
(***************************************************************************)
(* How a proxy comes up and goes down: the init container writes the files *)
(* of the CA (initNode of cmd/portal-nri-plugin on a node, generateCA of   *)
(* cmd/init-service-portals in a sidecar pod), then Run of pkg/portals     *)
(* loads them, takes over the admin socket, binds its ports and serves     *)
(* until it is told to stop.  Kubernetes restarts a container that exits,  *)
(* and replaces pods one after the other or, when they overlap, the new    *)
(* one beside the old one.                                                 *)
(*                                                                         *)
(* A file is Missing, Torn (opened for writing, and not written), or the   *)
(* number of the CA it belongs to.  A socket file belongs to the process   *)
(* that listens on it, or to none that lives any more.                     *)
(***************************************************************************)
EXTENDS Integers, Sequences

CONSTANTS
  Pods,
  Nobody, Dead,  \* no socket file, or holder; a socket file nobody listens on
  MaxCA,         \* bound: CAs generated
  MaxFaults,     \* bound: failing writes, crashes, kills
  MaxRollouts    \* bound: pods replaced

ASSUME BootAssumption ==
  /\ MaxCA \in Nat \ {0} /\ MaxFaults \in Nat /\ MaxRollouts \in Nat
  /\ Nobody \notin Pods /\ Dead \notin Pods /\ Nobody # Dead

Missing == 0
Torn == -1

VARIABLES
  mode,     \* "node" or "sidecar"
  early,    \* TARGET_URL is set: the fallback loads the CA before all else
  overlap,  \* a pod may start before the one it replaces is gone
  file,     \* the files: "pub" for the workloads of a sidecar, "cert" and "key"
  made,     \* how many CAs were generated
  proc,     \* proc[p]: the init container or proxy of pod p
  sock,     \* the admin socket file
  port,     \* who has the ports of DNS and of HTTP
  faults, rollouts

conf == <<mode, early, overlap>>
world == <<file, made, sock, port>>
bounds == <<faults, rollouts>>
vars == <<conf, world, proc, bounds>>

Names == {"pub", "cert", "key"}
Ports == {"dns", "http"}

\* A pod's containers.  left: the files still to write, or the steps to take.
Gone == [pc |-> "gone", term |-> FALSE, left |-> <<>>, open |-> FALSE,
         ca |-> Missing, loaded |-> {}, bind |-> FALSE]

TypeOK ==
  /\ mode \in {"node", "sidecar"} /\ early \in BOOLEAN /\ overlap \in BOOLEAN
  /\ file \in [Names -> Torn..MaxCA] /\ made \in 0..MaxCA
  /\ \A p \in Pods :
       /\ proc[p].pc \in {"gone", "init", "write", "boot", "run", "stop"}
       /\ {proc[p].term, proc[p].open, proc[p].bind} \subseteq BOOLEAN
       /\ proc[p].ca \in Torn..MaxCA /\ proc[p].loaded \subseteq 1..MaxCA
  /\ sock \in Pods \cup {Nobody, Dead}
  /\ port \in [Ports -> Pods \cup {Nobody}]
  /\ faults \in 0..MaxFaults /\ rollouts \in 0..MaxRollouts

\* A node may have a CA from before, or be left with one of its files.
Init ==
  /\ mode \in {"node", "sidecar"} /\ early \in BOOLEAN
  /\ overlap \in (IF mode = "node" THEN BOOLEAN ELSE {FALSE})
  /\ file \in {f \in [Names -> {Missing, 1}] :
                 f["pub"] = Missing /\ (mode = "sidecar" => f["cert"] = Missing /\ f["key"] = Missing)}
  /\ made = 1
  /\ proc = [p \in Pods |-> Gone] /\ sock = Nobody
  /\ port = [s \in Ports |-> Nobody]
  /\ faults = 0 /\ rollouts = 0

-----------------------------------------------------------------------------
(* The init container.                                                     *)

\* generateCA writes a new CA whenever it runs, the workloads' copy first.
generateCA(p) ==
  /\ mode = "sidecar" /\ proc[p].pc = "init"
  /\ made < MaxCA /\ made' = made + 1
  /\ proc' = [proc EXCEPT ![p].pc = "write", ![p].ca = made + 1,
                          ![p].left = <<"pub", "cert", "key">>]
  /\ UNCHANGED <<conf, file, sock, port, bounds>>

\* Mutants: generates a CA whenever it runs; looks for the certificate alone.
NeedsCAAlways == TRUE
NeedsCACert == file["cert"] = Missing

NeedsCA == file["cert"] = Missing \/ file["key"] = Missing

\* Mutant: writes the key first.
NodeWritesKeyFirst == <<"key", "cert">>

NodeWrites == <<"cert", "key">>

\* initNode keeps the files when both are there.
initNode(p) ==
  /\ mode = "node" /\ proc[p].pc = "init"
  /\ IF NeedsCA
     THEN /\ made < MaxCA /\ made' = made + 1
          /\ proc' = [proc EXCEPT ![p].pc = "write", ![p].ca = made + 1, ![p].left = NodeWrites]
     ELSE proc' = [proc EXCEPT ![p].pc = "boot"] /\ UNCHANGED made
  /\ UNCHANGED <<conf, file, sock, port, bounds>>

\* os.WriteFile opens and truncates the file, then writes it.
OpenFile(p) ==
  /\ proc[p].pc = "write" /\ proc[p].left # <<>> /\ ~proc[p].open
  /\ file' = [file EXCEPT ![Head(proc[p].left)] = Torn]
  /\ proc' = [proc EXCEPT ![p].open = TRUE]
  /\ UNCHANGED <<conf, made, sock, port, bounds>>

WriteFile(p) ==
  /\ proc[p].pc = "write" /\ proc[p].open
  /\ file' = [file EXCEPT ![Head(proc[p].left)] = proc[p].ca]
  /\ proc' = [proc EXCEPT ![p].open = FALSE, ![p].left = Tail(@)]
  /\ UNCHANGED <<conf, made, sock, port, bounds>>

InitDone(p) ==
  /\ proc[p].pc = "write" /\ proc[p].left = <<>>
  /\ proc' = [proc EXCEPT ![p].pc = "boot", ![p].ca = Missing]
  /\ UNCHANGED <<conf, world, bounds>>

\* A write or a chown fails, or the container is killed: it runs again, unless
\* its pod goes away.
InitFails(p) ==
  /\ proc[p].pc = "write" /\ faults < MaxFaults /\ faults' = faults + 1
  /\ proc' = [proc EXCEPT ![p] = IF @.term THEN Gone ELSE [Gone EXCEPT !.pc = "init"]]
  /\ UNCHANGED <<conf, world, rollouts>>

-----------------------------------------------------------------------------
(* Run.                                                                    *)

LoadCA == <<"readCert", "readKey">>

\* Mutant: clears the path after it has listened on it.
AdminSocketClears == IF mode = "node" THEN <<"listen", "chmod", "unlink">> ELSE <<>>

AdminSocket == IF mode = "node" THEN <<"unlink", "listen", "chmod">> ELSE <<>>

\* The fallback, the admin server, the rules, and the servers.
Run(p) ==
  /\ proc[p].pc = "boot"
  /\ proc' = [proc EXCEPT ![p].pc = "run",
       ![p].left = (IF early THEN LoadCA ELSE <<>>) \o AdminSocket \o LoadCA \o <<"dns", "serve">>]
  /\ UNCHANGED <<conf, world, bounds>>

At(p, step) == proc[p].left # <<>> /\ Head(proc[p].left) = step /\ proc[p].pc \in {"run", "stop"}
Advance(p) == proc' = [proc EXCEPT ![p].left = Tail(@)]

\* The process ends; its container starts again, or its pod is gone.  A socket
\* file it has not removed stays.
Exits(p) ==
  /\ proc' = [proc EXCEPT ![p] = IF @.term THEN Gone ELSE [Gone EXCEPT !.pc = "boot"]]
  /\ sock' = IF sock = p THEN Dead ELSE sock
  /\ port' = [s \in Ports |-> IF port[s] = p THEN Nobody ELSE port[s]]

\* NewHTTPProxy, of the fallback or of the rules.
ReadCert(p) ==
  /\ At(p, "readCert")
  /\ IF file["cert"] = Missing THEN Exits(p) /\ UNCHANGED <<file, made>>
     ELSE /\ proc' = [proc EXCEPT ![p].ca = file["cert"], ![p].left = Tail(@)]
          /\ UNCHANGED world
  /\ UNCHANGED <<conf, bounds>>

\* tls.X509KeyPair
IsPair(cert, key) == cert > 0 /\ key = cert

ReadKey(p) ==
  /\ At(p, "readKey")
  /\ IF IsPair(proc[p].ca, file["key"])
     THEN /\ proc' = [proc EXCEPT ![p].loaded = @ \cup {proc[p].ca}, ![p].left = Tail(@)]
          /\ UNCHANGED world
     ELSE Exits(p) /\ UNCHANGED <<file, made>>
  /\ UNCHANGED <<conf, bounds>>

\* os.Remove of the path, whoever listens on it.
Unlink(p) ==
  /\ At(p, "unlink") /\ Advance(p) /\ sock' = Nobody
  /\ UNCHANGED <<conf, file, made, port, bounds>>

Listen(p) ==
  /\ At(p, "listen")
  /\ IF sock = Nobody THEN sock' = p /\ Advance(p) /\ UNCHANGED port ELSE Exits(p)
  /\ UNCHANGED <<conf, file, made, bounds>>

\* By path: fails when the file is gone again, and then Run gives up.
Chmod(p) ==
  /\ At(p, "chmod")
  /\ IF sock = Nobody THEN Exits(p) ELSE Advance(p) /\ UNCHANGED <<sock, port>>
  /\ UNCHANGED <<conf, file, made, bounds>>

\* s.Start: a port in use ends Run, without a shutdown.  The goroutines of the
\* HTTP servers start next.
StartDNS(p) ==
  /\ At(p, "dns")
  /\ IF port["dns"] = Nobody
     THEN /\ port' = [port EXCEPT !["dns"] = p] /\ UNCHANGED sock
          /\ proc' = [proc EXCEPT ![p].left = Tail(@), ![p].bind = TRUE]
     ELSE Exits(p)
  /\ UNCHANGED <<conf, file, made, bounds>>

\* Its error is received by the select, which returns it; or by nobody, once
\* the shutdown has begun.
ListenAndServe(p) ==
  /\ proc[p].bind
  /\ IF port["http"] = Nobody \/ proc[p].pc = "stop"
     THEN /\ proc' = [proc EXCEPT ![p].bind = FALSE] /\ UNCHANGED sock
          /\ port' = [port EXCEPT !["http"] = IF @ = Nobody THEN p ELSE @]
     ELSE Exits(p)
  /\ UNCHANGED <<conf, file, made, bounds>>

\* ctx.Done: adminSrv.Shutdown closes the listener, which unlinks the path.
Shutdown(p) ==
  /\ proc[p].pc = "run" /\ At(p, "serve") /\ proc[p].term
  /\ proc' = [proc EXCEPT ![p].pc = "stop",
       ![p].left = (IF mode = "node" THEN <<"unlink">> ELSE <<>>) \o <<"stopDNS", "stopHTTP">>]
  /\ sock' = Nobody
  /\ UNCHANGED <<conf, file, made, port, bounds>>

StopDNS(p) ==
  /\ At(p, "stopDNS") /\ Advance(p)
  /\ port' = [port EXCEPT !["dns"] = Nobody]
  /\ UNCHANGED <<conf, file, made, sock, bounds>>

StopHTTP(p) ==
  /\ At(p, "stopHTTP") /\ Exits(p)
  /\ UNCHANGED <<conf, file, made, bounds>>

\* The process crashes or is killed.
Crash(p) ==
  /\ proc[p].pc \in {"boot", "run", "stop"} /\ faults < MaxFaults /\ faults' = faults + 1
  /\ Exits(p)
  /\ UNCHANGED <<conf, file, made, rollouts>>

-----------------------------------------------------------------------------
(* Kubernetes.                                                             *)

Present == {p \in Pods : proc[p].pc # "gone"}

\* A pod that overlaps another comes after that one's init container.
Create(p) ==
  /\ p \notin Present
  /\ \/ Present = {} /\ UNCHANGED rollouts
     \/ /\ overlap /\ \E q \in Present : ~proc[q].term /\ proc[q].pc \notin {"init", "write"}
        /\ rollouts < MaxRollouts /\ rollouts' = rollouts + 1
  /\ proc' = [proc EXCEPT ![p].pc = "init"]
  /\ UNCHANGED <<conf, world, faults>>

\* The process is told to stop; where pods overlap, once another is there.
Delete(p) ==
  /\ p \in Present /\ ~proc[p].term
  /\ IF overlap THEN (\E q \in Present \ {p} : ~proc[q].term) /\ UNCHANGED rollouts
     ELSE rollouts < MaxRollouts /\ rollouts' = rollouts + 1
  /\ proc' = [proc EXCEPT ![p].term = TRUE]
  /\ UNCHANGED <<conf, world, faults>>

Step(p) ==
  \/ generateCA(p) \/ initNode(p) \/ OpenFile(p) \/ WriteFile(p) \/ InitDone(p)
  \/ Run(p) \/ ReadCert(p) \/ ReadKey(p) \/ Unlink(p) \/ Listen(p) \/ Chmod(p)
  \/ StartDNS(p) \/ ListenAndServe(p) \/ Shutdown(p) \/ StopDNS(p) \/ StopHTTP(p)

Next ==
  \E p \in Pods : Step(p) \/ InitFails(p) \/ Crash(p) \/ Create(p) \/ Delete(p)

\* Containers run; kubelet and the DaemonSet controller bring a pod back.
Fairness ==
  /\ \A p \in Pods : WF_vars(Step(p))
  /\ WF_vars(\E p \in Pods : Present = {} /\ Create(p))

Spec == Init /\ [][Next]_vars /\ Fairness

-----------------------------------------------------------------------------
(* Properties.                                                             *)

Serves(p) == proc[p].pc = "run" /\ At(p, "serve")

\* What the workloads trust.
Trusted == file[IF mode = "sidecar" THEN "pub" ELSE "cert"]

\* A proxy that serves signs with the CA whose certificate the workloads have,
\* for its fallback and for its rules, through restarts of either container,
\* failed writes, and rollouts that start the new pod's init container beside
\* the old proxy.
SignsWithTrusted ==
  \A p \in Pods : Serves(p) => proc[p].loaded = {Trusted}

\* Where pods do not overlap, a proxy that serves is the one that listens on
\* the admin socket, whatever file a killed or failed one has left there.
SocketOwned ==
  mode = "node" /\ ~overlap => \A p \in Pods : Serves(p) => sock = p

\* Files that are there and are not a pair: initNode keeps them.
Stuck ==
  /\ mode = "node" /\ Missing \notin {file["cert"], file["key"]}
  /\ ~IsPair(file["cert"], file["key"])

\* initNode recovers from every failure but one while the key is written, or
\* one that leaves a new certificate beside a key from before.
RecoversBeforeKey ==
  Stuck /\ (\A p \in Pods : proc[p].pc # "write") => file["key"] \in {Torn, 1}

\* In the end some proxy has the ports and serves for good, unless the files of
\* the CA are stuck, or two pods are left side by side (they could restart in
\* step and refuse each other the socket).  No order of crashes, restarts and
\* rollouts, and no socket file or port left behind, keeps the last pod from
\* coming up.
ComesUp ==
  \/ <>[](\E p \in Pods : Serves(p) /\ port["http"] = p)
  \/ <>[]Stuck
  \/ <>[](\E p, q \in Present : p # q /\ ~proc[p].term /\ ~proc[q].term)
===============================================================================
