------------------------------- MODULE GitProxy -------------------------------
(***************************************************************************)
(* The git caching proxy, pkg/gitproxy: upload-pack fetches of one         *)
(* repository, answered from its RepoStore, from the response cache, or    *)
(* from upstream, and every upstream answer ingested into the store.  The  *)
(* handler reads and writes the store under several separate locks, so     *)
(* concurrent fetches interleave between them.                             *)
(*                                                                         *)
(* The object graph is a constant (an OID names its content), and upstream *)
(* publishes all of it.  A pack is the set of objects it resolves to.      *)
(***************************************************************************)
EXTENDS Naturals, FiniteSets

CONSTANTS
  Clients,
  Commits, Tags, Files,  \* OIDs of commits, of annotated tags, of trees and blobs
  Links,                 \* what an object refers to
  Kinds,                 \* "full" fetches, and "shallow" ones (deepen 1)
  MaxCached,             \* bound: entries of the response cache
  MaxRestarts            \* bound: restarts of the proxy

OIDs == Commits \cup Tags \cup Files

ASSUME GitAssumption ==
  /\ Commits \cap Tags = {} /\ Commits \cap Files = {} /\ Tags \cap Files = {}
  /\ Links \in [OIDs -> SUBSET OIDs]
  /\ \A c \in Commits : Links[c] \subseteq Commits \cup Files
  /\ \A o \in Files : Links[o] \subseteq Files
  /\ Kinds \subseteq {"full", "shallow"}
  /\ {MaxCached, MaxRestarts} \subseteq Nat

VARIABLES
  objects,    \* RepoStore.objects; the commits among them are RepoStore.commits
  cached,     \* the response cache: [fetch, pack] entries
  has,        \* has[q]: the commits client q has, with their history
  call,       \* call[q]: the handler serving q's fetch
  quiet,      \* no restarts, and no shallow fetches
  restarts

vars == <<objects, cached, has, call, quiet, restarts>>

Fetch == [wants : SUBSET OIDs, haves : SUBSET Commits, kind : Kinds]

NoCall == [pc |-> "idle"]

TypeOK ==
  /\ objects \subseteq OIDs
  /\ \A e \in cached : e.fetch \in Fetch /\ e.pack \subseteq OIDs
  /\ has \in [Clients -> SUBSET Commits]
  /\ \A q \in Clients :
       \/ call[q] = NoCall
       \/ /\ call[q].pc \in {"lookup", "collect", "cache", "augment", "send",
                             "ingest", "reply", "answered", "refused"}
          /\ call[q].fetch \in Fetch
          /\ call[q].sent \subseteq Commits /\ call[q].modified \in BOOLEAN
          /\ call[q].pack \subseteq OIDs
  /\ quiet \in BOOLEAN /\ restarts \in 0..MaxRestarts

Init ==
  /\ objects = {} /\ cached = {}
  /\ has = [q \in Clients |-> {}]
  /\ call = [q \in Clients |-> NoCall]
  /\ quiet \in BOOLEAN /\ restarts = 0

-----------------------------------------------------------------------------
(* What a set of objects refers to, directly or not, expanding only the    *)
(* objects of open and going only to those of along: the least set that    *)
(* the walk does not leave.                                                *)

Walked(C, open, along) == \A o \in C \cap open : Links[o] \cap along \subseteq C

Spread(S, open, along) ==
  LET Cs == {S \cup T : T \in {T \in SUBSET along : Walked(S \cup T, open, along)}}
  IN  {o \in S \cup along : \A C \in Cs : o \in C}

Reaches == UNION {{<<s, o>> : o \in Spread({s}, OIDs, OIDs)} : s \in OIDs}

Closure(S) == {o \in OIDs : \E s \in S : <<s, o>> \in Reaches}

\* External: the pack upstream answers a fetch with.
Pack(f, haves) ==
  IF f.kind = "full" THEN Closure(f.wants) \ Closure(haves)
  ELSE Spread(f.wants, OIDs, OIDs \ Commits) \ Closure(haves)

-----------------------------------------------------------------------------
(* RepoStore.                                                              *)

known == objects \cap Commits

HasAllCommits(oids) == oids # {} /\ oids \subseteq known

\* The trees that are stored are walked, the rest is listed but not expanded.
computeReachableObjects(c) == Spread({c}, objects, Files)

commitObjects(cs) == UNION {computeReachableObjects(c) : c \in cs \cap known}

\* Mutant: does not walk to the parents of the wanted commits.
CollectObjectsForCommitsFlat(wants, haves) ==
  LET excluded == Spread(haves \cap known, objects, Commits)
      final == commitObjects(wants \ excluded) \ commitObjects(excluded)
  IN  (IF final = {} THEN wants ELSE final) \cap objects

CollectObjectsForCommits(wants, haves) ==
  LET excluded == Spread(haves \cap known, objects, Commits)
      needed == Spread(wants \ excluded, known, Commits \ excluded)
      final == commitObjects(needed) \ commitObjects(excluded)
  IN  (IF final = {} THEN wants ELSE final) \cap objects

-----------------------------------------------------------------------------
(* ServeHTTP for a fetch.                                                  *)

At(q, pc) == call[q].pc = pc

Goto(q, pc) == call' = [call EXCEPT ![q].pc = pc]

\* The handler returns, and its variables are gone.
Return(q, pc, pack) ==
  call' = [call EXCEPT ![q].pc = pc, ![q].sent = {}, ![q].modified = FALSE, ![q].pack = pack]

Answer(q, pack) == Return(q, "answered", pack)

\* A client wants what it lacks, and tells of commits it has.  Only where all
\* is quiet are tags wanted: a bound.
Send(q) ==
  /\ At(q, "idle")
  /\ \E f \in Fetch :
       /\ f.wants # {} /\ f.wants \cap has[q] = {}
       /\ f.wants \subseteq Commits \cup (IF quiet THEN Tags ELSE {})
       /\ quiet => f.kind = "full"
       /\ f.haves \subseteq has[q]
       /\ call' = [call EXCEPT ![q] =
            [pc |-> "lookup", fetch |-> f, sent |-> f.haves,
             modified |-> FALSE, pack |-> {}]]
  /\ UNCHANGED <<objects, cached, has, quiet, restarts>>

\* ParseFetchRequest refuses the arguments of a shallow fetch; the handler
\* then goes on as for any request it does not understand.
Parsed(f) == f.kind = "full"

LookUp(q) ==
  /\ At(q, "lookup")
  /\ Goto(q, IF Parsed(call[q].fetch) /\ HasAllCommits(call[q].fetch.wants)
             THEN "collect" ELSE "cache")
  /\ UNCHANGED <<objects, cached, has, quiet, restarts>>

Collect(q) ==
  /\ At(q, "collect")
  /\ LET pack == CollectObjectsForCommits(call[q].fetch.wants, call[q].fetch.haves)
     IN  IF pack # {} THEN Answer(q, pack) ELSE Goto(q, "cache")
  /\ UNCHANGED <<objects, cached, has, quiet, restarts>>

Hits(q) == {e \in cached : e.fetch = call[q].fetch}

CacheGet(q) ==
  /\ At(q, "cache")
  /\ IF Hits(q) = {} THEN Goto(q, "augment")
     ELSE \E e \in Hits(q) : Answer(q, e.pack)
  /\ UNCHANGED <<objects, cached, has, quiet, restarts>>

\* The rewritten body equals the client's only by chance, and only when it
\* adds no have.
Augment(q) ==
  /\ At(q, "augment")
  /\ LET f == call[q].fetch
         rewrite == Parsed(f) /\ known # {}
         sent == IF rewrite THEN f.haves \cup known ELSE f.haves
     IN  \E m \in BOOLEAN :
           /\ m => rewrite
           /\ sent # f.haves => m
           /\ call' = [call EXCEPT ![q].pc = "send", ![q].sent = sent,
                                   ![q].modified = m]
  /\ UNCHANGED <<objects, cached, has, quiet, restarts>>

\* Upstream answers, or the round trip fails or is not a 200, which the client
\* gets as it is.
RoundTrip(q) ==
  /\ At(q, "send")
  /\ \/ call' = [call EXCEPT ![q].pc = "ingest",
                             ![q].pack = Pack(call[q].fetch, call[q].sent)]
     \/ call' = [call EXCEPT ![q] = NoCall]
  /\ UNCHANGED <<objects, cached, has, quiet, restarts>>

\* A thin pack can be resolved only when the store has the bases.
Resolvable(q) == Closure(call[q].sent) \subseteq objects

\* Mutant: keeps the commits of a pack and drops the rest.
IngestPackfileCommits(q) ==
  /\ At(q, "ingest")
  /\ objects' = objects \cup (call[q].pack \cap Commits)
  /\ Goto(q, "reply")
  /\ UNCHANGED <<cached, has, quiet, restarts>>

\* Mutant: keeps only the first pack.
IngestPackfileOnce(q) ==
  /\ At(q, "ingest")
  /\ objects' = IF objects = {} THEN call[q].pack ELSE objects
  /\ Goto(q, "reply")
  /\ UNCHANGED <<cached, has, quiet, restarts>>

IngestPackfile(q) ==
  /\ At(q, "ingest")
  /\ \/ objects' = objects \cup call[q].pack
     \/ ~Resolvable(q) /\ objects' = objects
  /\ Goto(q, "reply")
  /\ UNCHANGED <<cached, has, quiet, restarts>>

\* Mutant: caches the answer to a rewritten fetch as the client's.
ReplyCachesAll(q) ==
  /\ At(q, "reply")
  /\ cached' = {e \in cached : e.fetch # call[q].fetch}
                 \cup {[fetch |-> call[q].fetch, pack |-> call[q].pack]}
  /\ Goto(q, "answered")
  /\ UNCHANGED <<objects, has, quiet, restarts>>

\* A fetch that was rewritten is answered from the store or refused (502),
\* any other with upstream's answer, which is cached.
Reply(q) ==
  /\ At(q, "reply")
  /\ LET f == call[q].fetch
         pack == CollectObjectsForCommits(f.wants, f.haves)
     IN  IF call[q].modified
         THEN /\ IF HasAllCommits(f.wants) /\ pack # {} THEN Answer(q, pack)
                 ELSE Return(q, "refused", {})
              /\ UNCHANGED cached
         ELSE /\ cached' = {e \in cached : e.fetch # f}
                             \cup {[fetch |-> f, pack |-> call[q].pack]}
              /\ Cardinality(cached') <= MaxCached
              /\ Answer(q, call[q].pack)
  /\ UNCHANGED <<objects, has, quiet, restarts>>

-----------------------------------------------------------------------------
(* The clients, the cache's janitor and the process.                       *)

Suffices(f, pack) ==
  /\ f.wants \subseteq pack
  /\ Pack(f, f.haves) \subseteq Closure(f.haves) \cup pack

\* git fetch checks the connectivity of what it got before it keeps it.  What
\* a shallow fetch brings is not kept as history to tell of later.
Receive(q) ==
  /\ call[q].pc \in {"answered", "refused"}
  /\ has' = [has EXCEPT ![q] =
       IF At(q, "answered") /\ call[q].fetch.kind = "full"
            /\ Suffices(call[q].fetch, call[q].pack)
       THEN @ \cup (Closure(call[q].fetch.wants) \cap Commits) ELSE @]
  /\ call' = [call EXCEPT ![q] = NoCall]
  /\ UNCHANGED <<objects, cached, quiet, restarts>>

Expire ==
  /\ \E e \in cached : cached' = cached \ {e}
  /\ UNCHANGED <<objects, has, call, quiet, restarts>>

\* The stores live in memory only; the response cache may be on disk.
Restart ==
  /\ ~quiet /\ restarts < MaxRestarts /\ restarts' = restarts + 1
  /\ objects' = {} /\ cached' \in {{}, cached}
  /\ call' = [q \in Clients |-> NoCall]
  /\ UNCHANGED <<has, quiet>>

ServeHTTP(q) ==
  \/ LookUp(q) \/ Collect(q) \/ CacheGet(q) \/ Augment(q) \/ RoundTrip(q)
  \/ IngestPackfile(q) \/ Reply(q)

Next ==
  \/ \E q \in Clients : Send(q) \/ ServeHTTP(q) \/ Receive(q)
  \/ Expire \/ Restart

Spec == Init /\ [][Next]_vars

-----------------------------------------------------------------------------
(* Properties.                                                             *)

\* A commit is known only with all its reachable objects, as the comment on
\* HasCommit says: what makes it right to answer from the store.  It takes
\* that nothing is forgotten in a restart, and that no pack is shallow.
StoreClosed == quiet => \A c \in known : Closure({c}) \subseteq objects

\* A pack the proxy answers with, from the store, from the response cache or
\* from upstream, completes what the client told it has to all it wants.
AnswerSuffices ==
  \A q \in Clients :
    quiet /\ At(q, "answered") => Suffices(call[q].fetch, call[q].pack)

\* A response is cached only under a fetch it satisfies by itself, never the
\* answer to a rewritten fetch: it stays right across restarts and shallow
\* fetches, when the store does not.
CacheSuffices == \A e \in cached : Suffices(e.fetch, e.pack)

\* A fetch that upstream answered is refused (Reply) only when it wants a tag,
\* which the store does not hold to be a commit.
RefusesOnlyTags ==
  \A q \in Clients : quiet /\ At(q, "refused") => call[q].fetch.wants \cap Tags # {}
===============================================================================
