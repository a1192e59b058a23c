------------------------------ MODULE DnsServer ------------------------------
(***************************************************************************)
(* The DNS server, pkg/dns: concurrent queries over UDP and TCP, answered  *)
(* with the proxy's address, refused, or forwarded to the upstream servers *)
(* in turn.  A UDP exchange has a deadline and is retried over TCP when    *)
(* truncated; a TCP exchange has a deadline for connecting only.           *)
(*                                                                         *)
(* An answer is what it tells and whether it fits in 512 bytes.  What an   *)
(* upstream server does with an exchange is external.                      *)
(***************************************************************************)
EXTENDS Naturals

CONSTANTS
  Queries,
  Actions,    \* DefaultAction: "Allow", "Deny"
  NServers    \* upstream servers

ASSUME DnsAssumption ==
  /\ Actions \subseteq {"Allow", "Deny"}
  /\ NServers \in Nat

VARIABLES
  action,   \* the configured DefaultAction
  started,  \* the listeners: "no", "yes", or "closed" for good (Run starts them once)
  query,    \* query[x]
  failed    \* history: the servers that failed query x

dnsVars == <<action, started, query, failed>>

None == [pc |-> "none"]

Answers == {"proxy", "nodata", "empty", "nxdomain", "servfail", "upstream", "truncated"}

\* Within 512 bytes, over it, or over it and not to be unpacked.
Sizes == {"small", "large", "garbled"}

DnsTypeOK ==
  /\ action \in Actions /\ started \in {"no", "yes", "closed"}
  /\ failed \in [Queries -> SUBSET (1..NServers)]
  /\ \A x \in Queries : query[x] # None =>
       query[x] \in [pc : {"handle", "dial", "udp", "tcp", "got", "done", "dropped"},
                     tcp : BOOLEAN, edns : BOOLEAN, server : 1..NServers + 1,
                     answer : Answers, size : Sizes]

DnsInit ==
  /\ action \in Actions /\ started = "no"
  /\ query = [x \in Queries |-> None]
  /\ failed = [x \in Queries |-> {}]

-----------------------------------------------------------------------------

AtStage(x, pc) == query[x].pc = pc

Start ==
  /\ started = "no" /\ started' = "yes"
  /\ UNCHANGED <<action, query, failed>>

\* Called at the end of Run, and when its context is cancelled.
Shutdown ==
  /\ started = "yes" /\ started' = "closed"
  /\ UNCHANGED <<action, query, failed>>

\* A connection accepted before Shutdown goes on to deliver queries.
Receive(x, tcp, edns) ==
  /\ started = "yes" \/ (started = "closed" /\ tcp)
  /\ query[x] = None
  /\ query' = [query EXCEPT ![x] =
       [pc |-> "handle", tcp |-> tcp, edns |-> edns, server |-> 1,
        answer |-> "empty", size |-> "small"]]
  /\ UNCHANGED <<action, started, failed>>

Reply(x, answer, size) ==
  query' = [query EXCEPT ![x].pc = "got", ![x].answer = answer, ![x].size = size]

\* The message does not unpack, has no question, asks for a host of the rules
\* (an address the proxy has, or anything else), or for another one.
handleQuery(x) ==
  /\ AtStage(x, "handle")
  /\ \/ query' = [query EXCEPT ![x].pc = "dropped"]
     \/ \E a \in {"empty", "proxy", "nodata"} : Reply(x, a, "small")
     \/ action = "Deny" /\ Reply(x, "nxdomain", "small")
     \/ action = "Allow" /\ query' = [query EXCEPT ![x].pc = "dial"]
  /\ UNCHANGED <<action, started, failed>>

-----------------------------------------------------------------------------
(* forward: one server after the other.                                    *)

NextServer(x) ==
  /\ query' = [query EXCEPT ![x].pc = "dial", ![x].server = @ + 1]
  /\ failed' = [failed EXCEPT ![x] = @ \cup {query[x].server}]
  /\ UNCHANGED <<action, started>>

\* Mutant: gives up at the first server that fails.
ExhaustedEarly(x) ==
  /\ AtStage(x, "dial") /\ (query[x].server > NServers \/ failed[x] # {})
  /\ Reply(x, "servfail", "small")
  /\ UNCHANGED <<action, started, failed>>

Exhausted(x) ==
  /\ AtStage(x, "dial") /\ query[x].server > NServers
  /\ Reply(x, "servfail", "small")
  /\ UNCHANGED <<action, started, failed>>

\* The connection is made and the query written, or not.
Dial(x) ==
  /\ AtStage(x, "dial") /\ query[x].server <= NServers
  /\ \/ /\ query' = [query EXCEPT ![x].pc = IF query[x].tcp THEN "tcp" ELSE "udp"]
        /\ UNCHANGED <<action, started, failed>>
     \/ NextServer(x)

\* An answer that has come; a truncated one over UDP is asked for again, from
\* the same server, over TCP, whose connection may fail.
ReadUDP(x) ==
  /\ AtStage(x, "udp")
  /\ \/ /\ \E size \in Sizes : Reply(x, "upstream", size)
        /\ UNCHANGED <<action, started, failed>>
     \/ /\ query' = [query EXCEPT ![x].pc = "tcp"]
        /\ UNCHANGED <<action, started, failed>>
     \/ NextServer(x)

\* Mutant: a lost reply is waited for.
TimeoutUDPWaits(x) == FALSE /\ NextServer(x)

\* ForwardTimeout is over.
TimeoutUDP(x) == AtStage(x, "udp") /\ NextServer(x)

\* The reply, or an error reading it.
ReadTCP(x) ==
  /\ AtStage(x, "tcp")
  /\ \/ /\ \E size \in Sizes : Reply(x, "upstream", size)
        /\ UNCHANGED <<action, started, failed>>
     \/ NextServer(x)

-----------------------------------------------------------------------------

\* Mutant: sends what upstream sent.
SendWhole(x) ==
  /\ AtStage(x, "got")
  /\ query' = [query EXCEPT ![x].pc = IF started = "yes" \/ query[x].tcp THEN "done" ELSE "dropped"]
  /\ UNCHANGED <<action, started, failed>>

\* Without EDNS a large answer over UDP is replaced by a truncated one, unless
\* it cannot be unpacked.  On a closed socket the write fails; an accepted TCP
\* connection stays open.
Send(x) ==
  /\ AtStage(x, "got")
  /\ LET cut == query[x].size = "large" /\ ~query[x].tcp /\ ~query[x].edns IN
       query' = [query EXCEPT ![x].pc = IF started = "yes" \/ query[x].tcp THEN "done" ELSE "dropped",
                              ![x].answer = IF cut THEN "truncated" ELSE @,
                              ![x].size = IF cut THEN "small" ELSE @]
  /\ UNCHANGED <<action, started, failed>>

Forget(x) ==
  /\ query[x].pc \in {"done", "dropped"}
  /\ query' = [query EXCEPT ![x] = None] /\ failed' = [failed EXCEPT ![x] = {}]
  /\ UNCHANGED <<action, started>>

Serve(x) ==
  \/ handleQuery(x) \/ Exhausted(x) \/ Dial(x) \/ TimeoutUDP(x) \/ Send(x)

DnsNext ==
  \/ Start \/ Shutdown
  \/ \E x \in Queries :
       \/ \E tcp, edns \in BOOLEAN : Receive(x, tcp, edns)
       \/ Serve(x) \/ ReadUDP(x) \/ ReadTCP(x) \/ Forget(x)

\* The server's own steps happen, its deadline included.  What comes from an
\* upstream server over UDP need not.  Over TCP, where reads have no deadline,
\* the server is taken to answer or to close the connection.
DnsSpec ==
  /\ DnsInit /\ [][DnsNext]_dnsVars
  /\ \A x \in Queries : WF_dnsVars(Serve(x)) /\ WF_dnsVars(ReadTCP(x))

-----------------------------------------------------------------------------
(* Properties.                                                             *)

\* A client is told of a failure only when every upstream server has failed
\* its query.
FailsOver ==
  \A x \in Queries :
    (query[x] # None /\ query[x].pc = "done" /\ query[x].answer = "servfail")
      => failed[x] = 1..NServers

\* A UDP client without EDNS gets no more than it can take of an answer that
\* unpacks, also when it came over TCP in the end.
FitsClient ==
  \A x \in Queries :
    (query[x] # None /\ query[x].pc = "done" /\ ~query[x].tcp /\ ~query[x].edns)
      => query[x].size # "large"

\* Every query is done with in the end, after at most one exchange, or a UDP and
\* a TCP one, with each server (forward), as long as no upstream server holds
\* a TCP connection open in silence.
QueryAnswered ==
  \A x \in Queries : (query[x] # None) ~> (query[x].pc \in {"done", "dropped"})
=============================================================================
