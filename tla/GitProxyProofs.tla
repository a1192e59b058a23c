--------------------------- MODULE GitProxyProofs ---------------------------
(***************************************************************************)
(* What the git proxy answers is complete, for any object graph, any       *)
(* clients and any interleaving of their fetches.  The heart of it is      *)
(* CollectComplete: in a store that is closed under references,            *)
(* CollectObjectsForCommits finds all that a client lacks.  The inductive  *)
(* invariant says why the store is closed whenever it is asked: a pack     *)
(* lacks only what the haves sent upstream reach, and these are commits    *)
(* the store, or the client, already has whole.                            *)
(***************************************************************************)
EXTENDS GitProxy, TLAPS

-----------------------------------------------------------------------------
(* Walking the object graph.                                               *)

LEMMA SpreadWhat ==
  ASSUME NEW S, NEW open, NEW along, NEW o
  PROVE  o \in Spread(S, open, along) <=>
           /\ o \in S \cup along
           /\ \A T \in SUBSET along : Walked(S \cup T, open, along) => o \in S \cup T
<1> DEFINE Ts == {T \in SUBSET along : Walked(S \cup T, open, along)}
           Cs == {S \cup T : T \in Ts}
<1>1. Spread(S, open, along) = {x \in S \cup along : \A C \in Cs : x \in C}
  BY DEF Spread
<1>2. (\A C \in Cs : o \in C) <=> (\A T \in Ts : o \in S \cup T)
  OBVIOUS
<1> QED BY <1>1, <1>2

\* The walk starts at S, and goes along only.
LEMMA SpreadHas ==
  ASSUME NEW S, NEW open, NEW along
  PROVE  S \subseteq Spread(S, open, along) /\ Spread(S, open, along) \subseteq S \cup along
BY SpreadWhat

LEMMA SpreadWalked ==
  ASSUME NEW S, NEW open, NEW along
  PROVE  Walked(Spread(S, open, along), open, along)
<1> SUFFICES ASSUME NEW o \in Spread(S, open, along), o \in open,
                    NEW l \in Links[o], l \in along
             PROVE  l \in Spread(S, open, along)
  BY DEF Walked
<1>1. ASSUME NEW T \in SUBSET along, Walked(S \cup T, open, along) PROVE l \in S \cup T
  <2>1. o \in S \cup T
    BY <1>1, SpreadWhat
  <2> QED BY <1>1, <2>1 DEF Walked
<1> QED BY <1>1, SpreadWhat

LEMMA SpreadLeast ==
  ASSUME NEW S, NEW open, NEW along, NEW C, S \subseteq C, Walked(C, open, along)
  PROVE  Spread(S, open, along) \subseteq C
<1> DEFINE T == C \cap along
<1>1. Walked(S \cup T, open, along)
  BY DEF Walked
<1>2. T \in SUBSET along /\ S \cup T \subseteq C
  OBVIOUS
<1>3. ASSUME NEW o \in Spread(S, open, along) PROVE o \in S \cup T
  <2>1. \A U \in SUBSET along : Walked(S \cup U, open, along) => o \in S \cup U
    BY SpreadWhat
  <2> HIDE DEF T
  <2> QED BY <1>1, <1>2, <2>1
<1> QED BY <1>2, <1>3

Closed(C) == C \subseteq OIDs /\ \A o \in C : Links[o] \subseteq C

LEMMA ClosureHas ==
  ASSUME NEW S, S \subseteq OIDs
  PROVE  S \subseteq Closure(S)
<1> SUFFICES ASSUME NEW s \in S PROVE s \in Closure(S)
  OBVIOUS
<1>1. s \in Spread({s}, OIDs, OIDs)
  BY SpreadHas
<1>2. <<s, s>> \in Reaches
  BY <1>1 DEF Reaches
<1> QED BY <1>2 DEF Closure

LEMMA ReachesWhat ==
  ASSUME NEW s \in OIDs, NEW o
  PROVE  <<s, o>> \in Reaches <=> o \in Spread({s}, OIDs, OIDs)
<1>1. ASSUME <<s, o>> \in Reaches PROVE o \in Spread({s}, OIDs, OIDs)
  <2>1. PICK t \in OIDs : <<s, o>> \in {<<t, x>> : x \in Spread({t}, OIDs, OIDs)}
    BY <1>1 DEF Reaches
  <2>2. PICK x \in Spread({t}, OIDs, OIDs) : <<s, o>> = <<t, x>>
    BY <2>1
  <2> QED BY <2>2
<1>2. ASSUME o \in Spread({s}, OIDs, OIDs) PROVE <<s, o>> \in Reaches
  BY <1>2 DEF Reaches
<1> QED BY <1>1, <1>2

LEMMA ClosureClosed ==
  ASSUME NEW S, S \subseteq OIDs
  PROVE  Closed(Closure(S))
<1> SUFFICES ASSUME NEW o \in Closure(S), NEW l \in Links[o] PROVE l \in Closure(S)
  BY DEF Closed, Closure
<1>1. o \in OIDs /\ l \in OIDs
  BY GitAssumption DEF Closure
<1>2. PICK s \in S : <<s, o>> \in Reaches
  BY DEF Closure
<1>3. l \in Spread({s}, OIDs, OIDs)
  BY <1>1, <1>2, ReachesWhat, SpreadWalked DEF Walked
<1>4. <<s, l>> \in Reaches
  BY <1>3, ReachesWhat
<1> QED BY <1>1, <1>4 DEF Closure

LEMMA ClosureLeast ==
  ASSUME NEW S, NEW C, S \subseteq C, Closed(C)
  PROVE  Closure(S) \subseteq C
<1> SUFFICES ASSUME NEW o \in Closure(S) PROVE o \in C
  OBVIOUS
<1>1. PICK s \in S : <<s, o>> \in Reaches
  BY DEF Closure
<1>2. s \in OIDs /\ {s} \subseteq C
  BY <1>1 DEF Closed
<1>3. Walked(C, OIDs, OIDs)
  BY DEF Closed, Walked
<1>4. Spread({s}, OIDs, OIDs) \subseteq C
  BY <1>2, <1>3, SpreadLeast
<1> QED BY <1>1, <1>2, <1>4, ReachesWhat

\* Commits refer to commits, trees and blobs only.
LEMMA NoTags ==
  ASSUME NEW S, S \subseteq Commits
  PROVE  Closure(S) \subseteq Commits \cup Files
<1>1. Closed(Commits \cup Files)
  BY GitAssumption DEF Closed, OIDs
<1> QED BY <1>1, ClosureLeast
-----------------------------------------------------------------------------
(* Answering from the store.                                               *)

\* What computeReachableObjects lists of a stored commit is stored, and is of
\* the commit's closure.
LEMMA ReachableWithin ==
  ASSUME NEW c \in known, NEW C, Closed(C), c \in C
  PROVE  computeReachableObjects(c) \subseteq C
<1>1. Walked(C, objects, Files)
  BY DEF Closed, Walked
<1> QED BY <1>1, SpreadLeast DEF computeReachableObjects

LEMMA ObjectsWithin ==
  ASSUME NEW N, NEW C, N \subseteq C, Closed(C)
  PROVE  commitObjects(N) \subseteq C
<1> SUFFICES ASSUME NEW c \in N \cap known PROVE computeReachableObjects(c) \subseteq C
  BY DEF commitObjects
<1> QED BY ReachableWithin

\* The walk over the commits of a closed store stays in it.
LEMMA WalkWithin ==
  ASSUME NEW S, NEW open, NEW along, NEW C, S \subseteq C, Closed(C)
  PROVE  Spread(S, open, along) \subseteq C
<1>1. Walked(C, open, along)
  BY DEF Closed, Walked
<1> QED BY <1>1, SpreadLeast

\* From a closed store that has the wanted commits and the haves,
\* CollectObjectsForCommits returns a pack that completes the haves.
LEMMA CollectComplete ==
  ASSUME Closed(objects), NEW wants, NEW haves, wants # {},
         wants \subseteq known, haves \subseteq known, wants \cap Closure(haves) = {}
  PROVE  LET pack == CollectObjectsForCommits(wants, haves)
         IN  /\ wants \subseteq pack
             /\ Closure(wants) \subseteq Closure(haves) \cup pack
<1> DEFINE excluded == Spread(haves \cap known, objects, Commits)
           needed == Spread(wants \ excluded, known, Commits \ excluded)
           final == commitObjects(needed) \ commitObjects(excluded)
           X == Closure(haves) \cup commitObjects(needed)
<1>1. known \subseteq OIDs /\ known \subseteq Commits /\ known \subseteq objects
  BY DEF known, OIDs
<1>2. Closed(Closure(haves)) /\ haves \subseteq Closure(haves)
  BY <1>1, ClosureClosed, ClosureHas
<1>3. excluded \subseteq Closure(haves)
  BY <1>2, WalkWithin
<1>4. wants \subseteq needed
  BY <1>3, SpreadHas
<1>5. needed \subseteq known
  <2>1. needed \subseteq objects
    BY <1>1, WalkWithin
  <2>2. needed \subseteq Commits
    BY <1>1, SpreadHas
  <2> QED BY <2>1, <2>2 DEF known
<1>6. commitObjects(excluded) \subseteq Closure(haves)
  BY <1>2, <1>3, ObjectsWithin
<1>7. commitObjects(needed) \subseteq objects
  BY <1>1, <1>5, ObjectsWithin
<1>8. \A c \in needed : c \in commitObjects(needed)
  <2>1. ASSUME NEW c \in needed PROVE c \in computeReachableObjects(c) /\ c \in known
    BY <1>5, SpreadHas DEF computeReachableObjects
  <2> HIDE DEF needed
  <2> QED BY <2>1 DEF commitObjects
<1>9. ASSUME NEW o \in commitObjects(needed), NEW l \in Links[o] PROVE l \in X
  <2>1. PICK c \in needed : c \in known /\ o \in computeReachableObjects(c)
    BY DEF commitObjects
  <2>2. o \in objects
    BY <1>7
  <2>3. computeReachableObjects(c) \subseteq commitObjects(needed)
    BY <2>1 DEF commitObjects
  <2>4. l \in Files => l \in computeReachableObjects(c)
    BY <2>1, <2>2, SpreadWalked DEF Walked, computeReachableObjects
  <2>5. CASE o = c
    <3>1. l \in Commits \cup Files
      BY <1>1, <2>1, <2>5, GitAssumption
    <3>2. ASSUME l \in Commits, l \notin excluded PROVE l \in needed
      BY <2>1, <2>5, <3>2, SpreadWalked DEF Walked
    <3> QED BY <1>3, <1>8, <2>3, <2>4, <3>1, <3>2
  <2>6. CASE o # c
    <3>1. o \in Files
      BY <2>1, <2>6, SpreadHas DEF computeReachableObjects
    <3> QED BY <2>3, <2>4, <3>1, GitAssumption
  <2> QED BY <2>5, <2>6
<1>10. Closed(X)
  <2>1. X \subseteq OIDs
    BY <1>2, <1>7 DEF Closed
  <2>2. ASSUME NEW o \in Closure(haves) PROVE Links[o] \subseteq X
    BY <1>2 DEF Closed
  <2> QED BY <1>9, <2>1, <2>2 DEF Closed
<1>11. Closure(wants) \subseteq X
  BY <1>4, <1>8, <1>10, ClosureLeast
<1>12. wants \subseteq final
  BY <1>4, <1>6, <1>8
<1>13. CollectObjectsForCommits(wants, haves) = final
  BY <1>7, <1>12 DEF CollectObjectsForCommits
<1> QED BY <1>6, <1>11, <1>12, <1>13
-----------------------------------------------------------------------------
(* The inductive invariant.                                                *)

Busy == {"lookup", "collect", "cache", "augment", "send", "ingest", "reply",
         "answered", "refused"}

Call == [pc : Busy, fetch : Fetch, sent : SUBSET Commits, modified : BOOLEAN,
         pack : SUBSET OIDs]

Shape ==
  /\ objects \subseteq OIDs
  /\ cached \subseteq [fetch : Fetch, pack : SUBSET OIDs]
  /\ has \in [Clients -> SUBSET Commits]
  /\ call \in [Clients -> {NoCall} \cup Call]
  /\ quiet \in BOOLEAN /\ restarts \in 0..MaxRestarts

\* A client wants commits and tags it lacks: nothing that its haves reach.
Apart(f) ==
  /\ f.wants # {} /\ f.wants \subseteq Commits \cup Tags
  /\ f.wants \cap Closure(f.haves) = {}

\* Upstream's answer to the client's own fetch is what is cached.
Own(e) == Apart(e.fetch) /\ e.pack = Pack(e.fetch, e.fetch.haves)

\* The commits a client tells of, with all their history.
History == \A q \in Clients : Closure(has[q]) \cap Commits \subseteq has[q]

InFlight(c) ==
  /\ Apart(c.fetch)
  /\ c.pc \in {"send", "ingest", "reply"} => c.modified \/ c.sent = c.fetch.haves
  /\ c.pc \in {"ingest", "reply"} => c.pack = Pack(c.fetch, c.sent)

\* With no restarts and no shallow fetches: the store is closed, it has what
\* any client has, and what is in flight is known to it in time.
Whole(c) ==
  /\ c.fetch.kind = "full"
  /\ c.fetch.haves \subseteq objects /\ c.sent \subseteq objects
  /\ c.pc \in {"collect", "reply", "answered"} => c.fetch.wants \subseteq objects
  /\ c.pc = "collect" => c.fetch.wants \subseteq Commits
  /\ c.pc = "answered" => Suffices(c.fetch, c.pack)
  /\ c.pc = "refused" => c.fetch.wants \cap Tags # {}

Steady ==
  /\ Closed(objects)
  /\ \A q \in Clients : has[q] \subseteq objects
  /\ \A e \in cached : e.fetch.wants \subseteq objects
  /\ \A q \in Clients : call[q] # NoCall => Whole(call[q])

IInv ==
  /\ Shape /\ History
  /\ \A e \in cached : Own(e)
  /\ \A q \in Clients : call[q] # NoCall => InFlight(call[q])
  /\ quiet => Steady

LEMMA InvInit == Init => IInv
<1> SUFFICES ASSUME Init PROVE IInv
  OBVIOUS
<1>1. Shape
  BY GitAssumption DEF Init, Shape
<1>2. \A q \in Clients : has[q] = {} /\ call[q] = NoCall
  BY DEF Init
<1>3. Closure({}) = {}
  BY DEF Closure
<1>4. History
  BY <1>2, <1>3 DEF History
<1>5. Steady
  BY <1>2 DEF Init, Steady, Closed
<1> QED BY <1>1, <1>2, <1>4, <1>5 DEF Init, IInv

LEMMA InCall ==
  ASSUME Shape, NEW q \in Clients, call[q].pc # "idle"
  PROVE  /\ call[q] \in Call /\ call[q] # NoCall
         /\ call[q].pc \in Busy /\ call[q].fetch \in Fetch
         /\ call[q].sent \subseteq Commits /\ call[q].modified \in BOOLEAN
         /\ call[q].pack \subseteq OIDs
         /\ call[q].fetch.wants \subseteq OIDs /\ call[q].fetch.haves \subseteq Commits
<1>1. call[q] \in {NoCall} \cup Call
  BY DEF Shape
<1>2. call[q] # NoCall
  BY DEF NoCall
<1>3. call[q] \in Call
  BY <1>1, <1>2
<1>4. call[q].fetch \in Fetch
  BY <1>3 DEF Call
<1> QED BY <1>2, <1>3, <1>4 DEF Call, Fetch

LEMMA Idle == \A c \in Call : c # NoCall
<1> SUFFICES ASSUME NEW c \in Call, c = NoCall PROVE FALSE
  OBVIOUS
<1>1. c.pc \in Busy
  BY DEF Call
<1> QED BY <1>1 DEF NoCall, Busy

\* Own and InFlight depend on the graph only, not on the state.
LEMMA Kept ==
  ASSUME Shape', History', \A e \in cached' : Own(e),
         \A q \in Clients : call'[q] # NoCall => InFlight(call'[q]), quiet' => Steady'
  PROVE  IInv'
<1>1. (\A e \in cached : Own(e))'
  BY DEF Own, Apart, Pack
<1>2. (\A q \in Clients : call[q] # NoCall => InFlight(call[q]))'
  BY DEF InFlight, Apart, Pack
<1> QED BY <1>1, <1>2 DEF IInv

\* A step that changes one call only keeps the invariant if that call does.
LEMMA OneCall ==
  ASSUME IInv, NEW q \in Clients, UNCHANGED <<objects, cached, has, quiet, restarts>>,
         call' = [call EXCEPT ![q] = call'[q]],
         \/ call'[q] = NoCall
         \/ call'[q] \in Call /\ InFlight(call'[q]) /\ (quiet => Whole(call'[q]))
  PROVE  IInv'
<1>1. Shape'
  BY DEF IInv, Shape
<1>2. History' /\ (\A e \in cached' : Own(e))
  BY DEF IInv, History
<1>3. ASSUME NEW r \in Clients, call'[r] # NoCall
      PROVE  InFlight(call'[r]) /\ (quiet => Whole(call'[r]))
  <2>1. CASE r = q
    BY <1>3, <2>1
  <2>2. CASE r # q
    <3>1. call'[r] = call[r]
      BY <2>2 DEF IInv, Shape
    <3> QED BY <1>3, <3>1 DEF IInv, Steady
  <2> QED BY <2>1, <2>2
<1>4. quiet => Steady'
  BY <1>3 DEF IInv, Steady, Whole, Closed, Suffices
<1> QED BY <1>1, <1>2, <1>3, <1>4, Kept

\* Upstream's answer to a client's own fetch is complete.
LEMMA OwnSuffices ==
  ASSUME NEW f \in Fetch, Apart(f)
  PROVE  Suffices(f, Pack(f, f.haves))
<1>1. f.wants \subseteq OIDs
  BY DEF Fetch
<1>2. f.wants \subseteq Closure(f.wants)
  BY <1>1, ClosureHas
<1>3. f.wants \subseteq Spread(f.wants, OIDs, OIDs \ Commits)
  BY SpreadHas
<1> QED BY <1>2, <1>3 DEF Apart, Suffices, Pack

\* So is an answer from a store that is closed and has what is wanted.
LEMMA StoreSuffices ==
  ASSUME Closed(objects), NEW f \in Fetch, Apart(f), f.kind = "full",
         f.wants \subseteq known, f.haves \subseteq objects
  PROVE  LET pack == CollectObjectsForCommits(f.wants, f.haves)
         IN  Suffices(f, pack) /\ pack # {}
<1>1. f.haves \subseteq known
  BY DEF Fetch, known
<1>2. /\ f.wants \subseteq CollectObjectsForCommits(f.wants, f.haves)
      /\ Closure(f.wants) \subseteq
           Closure(f.haves) \cup CollectObjectsForCommits(f.wants, f.haves)
  BY <1>1, CollectComplete DEF Apart
<1> QED BY <1>2 DEF Apart, Suffices, Pack

LEMMA CollectTyped ==
  ASSUME objects \subseteq OIDs, NEW wants, NEW haves
  PROVE  CollectObjectsForCommits(wants, haves) \subseteq OIDs
BY DEF CollectObjectsForCommits

LEMMA PackTyped ==
  ASSUME NEW f \in Fetch, NEW haves
  PROVE  Pack(f, haves) \subseteq OIDs
<1>1. Closure(f.wants) \subseteq OIDs
  BY DEF Closure
<1>2. Spread(f.wants, OIDs, OIDs \ Commits) \subseteq OIDs
  BY SpreadHas DEF Fetch
<1> QED BY <1>1, <1>2 DEF Pack

LEMMA SendStep == ASSUME IInv, NEW q \in Clients, Send(q) PROVE IInv'
<1>1. PICK f \in Fetch :
        /\ f.wants # {} /\ f.wants \cap has[q] = {}
        /\ f.wants \subseteq Commits \cup (IF quiet THEN Tags ELSE {})
        /\ quiet => f.kind = "full"
        /\ f.haves \subseteq has[q]
        /\ call' = [call EXCEPT ![q] =
             [pc |-> "lookup", fetch |-> f, sent |-> f.haves, modified |-> FALSE, pack |-> {}]]
  BY DEF Send
<1>2. UNCHANGED <<objects, cached, has, quiet, restarts>>
  BY DEF Send
<1>3. call'[q] = [pc |-> "lookup", fetch |-> f, sent |-> f.haves, modified |-> FALSE, pack |-> {}]
  BY <1>1 DEF IInv, Shape
<1>4. has[q] \subseteq Commits /\ f.haves \subseteq Commits /\ Commits \subseteq OIDs
  BY DEF IInv, Shape, Fetch, OIDs
<1>5. call'[q] \in Call
  BY <1>3, <1>4 DEF Call, Busy
<1>6. Apart(f)
  <2>1. Closure(f.haves) \subseteq Closure(has[q])
    <3>1. Closed(Closure(has[q])) /\ has[q] \subseteq Closure(has[q])
      BY <1>4, ClosureClosed, ClosureHas
    <3> QED BY <1>1, <3>1, ClosureLeast
  <2>2. Closure(f.haves) \cap Commits \subseteq has[q]
    BY <2>1 DEF IInv, History
  <2>3. Closure(f.haves) \cap Tags = {}
    BY <1>4, NoTags, GitAssumption
  <2> QED BY <1>1, <2>2, <2>3 DEF Apart
<1>7. InFlight(call'[q])
  BY <1>3, <1>6 DEF InFlight
<1>8. quiet => Whole(call'[q])
  BY <1>1, <1>3 DEF Whole, IInv, Steady
<1> QED BY <1>1, <1>2, <1>3, <1>5, <1>7, <1>8, OneCall

LEMMA GotoOne ==
  ASSUME Shape, NEW q \in Clients, call[q].pc # "idle", NEW pc \in Busy, Goto(q, pc)
  PROVE  /\ call' = [call EXCEPT ![q] = call'[q]] /\ call'[q] \in Call
         /\ call'[q].pc = pc /\ call'[q].fetch = call[q].fetch
         /\ call'[q].sent = call[q].sent /\ call'[q].modified = call[q].modified
         /\ call'[q].pack = call[q].pack
<1>1. call[q] \in Call
  BY InCall
<1>2. call' = [call EXCEPT ![q].pc = pc] /\ call'[q] = [call[q] EXCEPT !.pc = pc]
  BY DEF Goto, Shape
<1> QED BY <1>1, <1>2 DEF Call, Shape

LEMMA ReturnOne ==
  ASSUME Shape, NEW q \in Clients, call[q].pc # "idle", NEW pc \in Busy,
         NEW pack \in SUBSET OIDs, Return(q, pc, pack)
  PROVE  /\ call' = [call EXCEPT ![q] = call'[q]] /\ call'[q] \in Call
         /\ call'[q].pc = pc /\ call'[q].fetch = call[q].fetch
         /\ call'[q].sent = {} /\ call'[q].pack = pack
<1>1. call[q] \in Call
  BY InCall
<1>2. call'[q] = [call[q] EXCEPT !.pc = pc, !.sent = {}, !.modified = FALSE, !.pack = pack]
  BY DEF Return, Shape
<1>3. call' = [call EXCEPT ![q] = call'[q]]
  BY DEF Return, Shape
<1> QED BY <1>1, <1>2, <1>3 DEF Call

LEMMA LookUpStep == ASSUME IInv, NEW q \in Clients, LookUp(q) PROVE IInv'
<1>1. call[q].pc = "lookup" /\ UNCHANGED <<objects, cached, has, quiet, restarts>>
  BY DEF LookUp, At
<1>2. call[q] # NoCall /\ Shape
  BY <1>1, InCall DEF IInv
<1>3. PICK pc \in {"collect", "cache"} :
        Goto(q, pc) /\ (pc = "collect" => call[q].fetch.wants \subseteq known)
  BY DEF LookUp, HasAllCommits
<1>4. /\ call' = [call EXCEPT ![q] = call'[q]] /\ call'[q] \in Call
      /\ call'[q].pc = pc /\ call'[q].fetch = call[q].fetch /\ call'[q].sent = call[q].sent
  BY <1>1, <1>2, <1>3, GotoOne DEF Busy
<1>5. InFlight(call'[q])
  BY <1>2, <1>4 DEF InFlight, IInv
<1>6. quiet => Whole(call'[q])
  BY <1>2, <1>3, <1>4 DEF Whole, IInv, Steady, known
<1> QED BY <1>1, <1>4, <1>5, <1>6, OneCall

\* What an answer or a refusal has to meet.
LEMMA AnswerStep ==
  ASSUME IInv, NEW q \in Clients, call[q].pc # "idle", NEW pack \in SUBSET OIDs,
         UNCHANGED <<objects, cached, has, quiet, restarts>>,
         \/ Return(q, "answered", pack)
            /\ (quiet => call[q].fetch.wants \subseteq objects /\ Suffices(call[q].fetch, pack))
         \/ Return(q, "refused", pack) /\ (quiet => call[q].fetch.wants \cap Tags # {})
  PROVE  IInv'
<1>1. call[q] # NoCall /\ Shape
  BY InCall DEF IInv
<1>2. PICK pc \in {"answered", "refused"} :
        /\ Return(q, pc, pack)
        /\ pc = "answered" /\ quiet => /\ call[q].fetch.wants \subseteq objects
                                      /\ Suffices(call[q].fetch, pack)
        /\ pc = "refused" /\ quiet => call[q].fetch.wants \cap Tags # {}
  OBVIOUS
<1>3. /\ call' = [call EXCEPT ![q] = call'[q]] /\ call'[q] \in Call
      /\ call'[q].pc = pc /\ call'[q].fetch = call[q].fetch
      /\ call'[q].sent = {} /\ call'[q].pack = pack
  BY <1>1, <1>2, ReturnOne DEF Busy
<1>4. InFlight(call'[q])
  BY <1>1, <1>3 DEF InFlight, IInv
<1>5. ASSUME quiet PROVE Whole(call'[q])
  <2>1. Whole(call[q])
    BY <1>1, <1>5 DEF IInv, Steady
  <2> QED BY <1>2, <1>3, <1>5, <2>1 DEF Whole
<1> QED BY <1>3, <1>4, <1>5, OneCall

\* A fetch that is to go on to the response cache.
LEMMA ToCache ==
  ASSUME IInv, NEW q \in Clients, NEW pc \in {"cache", "augment"},
         call[q].pc \in {"collect", "cache"}, Goto(q, pc),
         UNCHANGED <<objects, cached, has, quiet, restarts>>
  PROVE  IInv'
<1>1. call[q] # NoCall /\ Shape
  BY InCall DEF IInv
<1>2. /\ call' = [call EXCEPT ![q] = call'[q]] /\ call'[q] \in Call
      /\ call'[q].pc = pc /\ call'[q].fetch = call[q].fetch /\ call'[q].sent = call[q].sent
  BY <1>1, GotoOne DEF Busy
<1>3. InFlight(call'[q])
  BY <1>1, <1>2 DEF InFlight, IInv
<1>4. quiet => Whole(call'[q])
  BY <1>1, <1>2 DEF Whole, IInv, Steady
<1> QED BY <1>2, <1>3, <1>4, OneCall

LEMMA CollectStep == ASSUME IInv, NEW q \in Clients, Collect(q) PROVE IInv'
<1> DEFINE f == call[q].fetch
           pack == CollectObjectsForCommits(f.wants, f.haves)
<1>1. call[q].pc = "collect" /\ UNCHANGED <<objects, cached, has, quiet, restarts>>
  BY DEF Collect, At
<1>2. call[q] # NoCall /\ f \in Fetch
  BY <1>1, InCall DEF IInv
<1>3. pack \in SUBSET OIDs
  BY CollectTyped DEF IInv, Shape
<1>4. ASSUME quiet PROVE f.wants \subseteq objects /\ Suffices(f, pack)
  <2>1. Closed(objects) /\ Apart(f)
    BY <1>2, <1>4 DEF IInv, Steady, InFlight
  <2>2. Whole(call[q])
    BY <1>2, <1>4 DEF IInv, Steady
  <2>3. f.kind = "full" /\ f.wants \subseteq known /\ f.haves \subseteq objects
    BY <1>1, <2>2 DEF Whole, known
  <2> QED BY <1>2, <2>1, <2>3, StoreSuffices DEF known
<1>5. CASE Answer(q, pack)
  BY <1>1, <1>3, <1>4, <1>5, AnswerStep DEF Answer
<1>6. CASE Goto(q, "cache")
  BY <1>1, <1>6, ToCache
<1> QED BY <1>5, <1>6 DEF Collect

LEMMA CacheGetStep == ASSUME IInv, NEW q \in Clients, CacheGet(q) PROVE IInv'
<1>1. call[q].pc = "cache" /\ UNCHANGED <<objects, cached, has, quiet, restarts>>
  BY DEF CacheGet, At
<1>2. ASSUME NEW e \in Hits(q), Answer(q, e.pack) PROVE IInv'
  <2>1. e \in cached /\ e.fetch = call[q].fetch
    BY <1>2 DEF Hits
  <2>2. e.fetch \in Fetch /\ e.pack \in SUBSET OIDs
    BY <2>1 DEF IInv, Shape
  <2>3. Suffices(call[q].fetch, e.pack)
    BY <2>1, <2>2, OwnSuffices DEF IInv, Own
  <2>4. quiet => call[q].fetch.wants \subseteq objects
    BY <2>1 DEF IInv, Steady
  <2> QED BY <1>1, <1>2, <2>2, <2>3, <2>4, AnswerStep DEF Answer
<1>3. CASE Goto(q, "augment")
  BY <1>1, <1>3, ToCache
<1> QED BY <1>2, <1>3 DEF CacheGet

LEMMA AugmentStep == ASSUME IInv, NEW q \in Clients, Augment(q) PROVE IInv'
<1> DEFINE f == call[q].fetch
<1>1. call[q].pc = "augment" /\ UNCHANGED <<objects, cached, has, quiet, restarts>>
  BY DEF Augment, At
<1>2. call[q] \in Call /\ call[q] # NoCall /\ f.haves \subseteq Commits
  BY <1>1, InCall DEF IInv
<1>3. PICK sent \in {f.haves, f.haves \cup known}, m \in BOOLEAN :
        /\ sent # f.haves => m
        /\ call' = [call EXCEPT ![q].pc = "send", ![q].sent = sent, ![q].modified = m]
  BY DEF Augment
<1>4. call'[q] = [call[q] EXCEPT !.pc = "send", !.sent = sent, !.modified = m]
  BY <1>3 DEF IInv, Shape
<1>5. call' = [call EXCEPT ![q] = call'[q]]
  BY <1>3, <1>4 DEF IInv, Shape
<1>6. sent \subseteq Commits /\ known \subseteq objects
  BY <1>2 DEF known
<1>7. /\ call'[q] \in Call /\ call'[q].pc = "send" /\ call'[q].fetch = f
      /\ call'[q].sent = sent /\ call'[q].modified = m
  BY <1>2, <1>4, <1>6 DEF Call, Busy
<1>8. InFlight(call'[q])
  BY <1>2, <1>3, <1>7 DEF InFlight, IInv
<1>9. quiet => Whole(call'[q])
  BY <1>2, <1>6, <1>7 DEF Whole, IInv, Steady
<1> QED BY <1>1, <1>5, <1>7, <1>8, <1>9, OneCall

LEMMA RoundTripStep == ASSUME IInv, NEW q \in Clients, RoundTrip(q) PROVE IInv'
<1> DEFINE pack == Pack(call[q].fetch, call[q].sent)
<1>1. call[q].pc = "send" /\ UNCHANGED <<objects, cached, has, quiet, restarts>>
  BY DEF RoundTrip, At
<1>2. call[q] \in Call /\ call[q] # NoCall /\ call[q].fetch \in Fetch
  BY <1>1, InCall DEF IInv
<1>3. CASE call' = [call EXCEPT ![q].pc = "ingest", ![q].pack = pack]
  <2>1. pack \subseteq OIDs
    BY <1>2, PackTyped
  <2> HIDE DEF pack
  <2>2. call'[q] = [call[q] EXCEPT !.pc = "ingest", !.pack = pack]
    BY <1>3 DEF IInv, Shape
  <2>3. call' = [call EXCEPT ![q] = call'[q]]
    BY <1>3, <2>2 DEF IInv, Shape
  <2>4. /\ call'[q] \in Call /\ call'[q].pc = "ingest" /\ call'[q].fetch = call[q].fetch
        /\ call'[q].sent = call[q].sent /\ call'[q].modified = call[q].modified
        /\ call'[q].pack = pack
    BY <1>2, <2>1, <2>2 DEF Call, Busy
  <2>5. InFlight(call'[q])
    BY <1>1, <1>2, <2>4 DEF InFlight, IInv, pack
  <2>6. quiet => Whole(call'[q])
    BY <1>2, <2>4 DEF Whole, IInv, Steady
  <2> QED BY <1>1, <2>3, <2>4, <2>5, <2>6, OneCall
<1>4. CASE call' = [call EXCEPT ![q] = NoCall]
  <2>1. call'[q] = NoCall
    BY <1>4 DEF IInv, Shape
  <2> QED BY <1>1, <1>4, <2>1, OneCall
<1> QED BY <1>3, <1>4 DEF RoundTrip

\* A pack and the closure of the haves it was made for complete the store.
LEMMA IngestStep == ASSUME IInv, NEW q \in Clients, IngestPackfile(q) PROVE IInv'
<1> DEFINE f == call[q].fetch
<1>1. call[q].pc = "ingest" /\ UNCHANGED <<cached, has, quiet, restarts>> /\ Goto(q, "reply")
  BY DEF IngestPackfile, At
<1>2. /\ call[q] # NoCall /\ Shape /\ f \in Fetch /\ f.wants \subseteq OIDs
      /\ call[q].pack \subseteq OIDs /\ call[q].sent \subseteq OIDs
  BY <1>1, InCall DEF IInv, OIDs
<1>3. /\ call' = [call EXCEPT ![q] = call'[q]] /\ call'[q] \in Call
      /\ call'[q].pc = "reply" /\ call'[q].fetch = f
      /\ call'[q].sent = call[q].sent /\ call'[q].modified = call[q].modified
      /\ call'[q].pack = call[q].pack
  BY <1>1, <1>2, GotoOne DEF Busy
<1>4. objects \subseteq objects' /\ objects' \subseteq OIDs
  BY <1>2 DEF IngestPackfile, Shape
<1>5. Shape'
  BY <1>1, <1>3, <1>4 DEF Shape, IInv
<1>6. InFlight(call'[q])
  BY <1>1, <1>2, <1>3 DEF InFlight, IInv
<1>7. \A r \in Clients : call'[r] # NoCall => InFlight(call'[r])
  BY <1>3, <1>6 DEF IInv, Shape
<1>8. ASSUME quiet PROVE Steady'
  <2>1. Whole(call[q]) /\ Closed(objects)
    BY <1>2, <1>8 DEF IInv, Steady
  <2>2. Closure(call[q].sent) \subseteq objects
    BY <2>1, ClosureLeast DEF Whole
  <2>3. call[q].pack = Closure(f.wants) \ Closure(call[q].sent)
    BY <1>1, <1>2, <2>1 DEF IInv, InFlight, Pack, Whole
  <2>4. objects' = objects \cup Closure(f.wants)
    BY <2>2, <2>3 DEF IngestPackfile, Resolvable
  <2>5. Closed(objects') /\ f.wants \subseteq objects'
    BY <1>2, <2>1, <2>4, ClosureClosed, ClosureHas DEF Closed
  <2>6. Whole(call[q])'
    BY <1>3, <1>4, <2>1, <2>5 DEF Whole
  <2>7. ASSUME NEW r \in Clients, call'[r] # NoCall PROVE Whole(call[r])'
    <3>1. CASE r = q
      BY <2>6, <3>1
    <3>2. CASE r # q
      <4>1. call'[r] = call[r] /\ call[r] \in Call
        BY <1>2, <1>3, <2>7, <3>2 DEF Shape
      <4>2. Whole(call[r])
        BY <1>8, <2>7, <4>1 DEF IInv, Steady
      <4> QED BY <1>4, <4>1, <4>2 DEF Whole, Suffices
    <3> QED BY <3>1, <3>2
  <2> QED BY <1>1, <1>4, <1>8, <2>5, <2>7 DEF IInv, Steady, Closed
<1>9. History' /\ (\A e \in cached' : Own(e))
  BY <1>1 DEF IInv, History
<1> QED BY <1>1, <1>5, <1>7, <1>8, <1>9, Kept

\* The answer to a fetch that was not rewritten, which is cached.
LEMMA ReplyAsIs ==
  ASSUME IInv, NEW q \in Clients, call[q].pc = "reply", ~call[q].modified,
         cached' = {e \in cached : e.fetch # call[q].fetch}
                     \cup {[fetch |-> call[q].fetch, pack |-> call[q].pack]},
         Answer(q, call[q].pack), UNCHANGED <<objects, has, quiet, restarts>>
  PROVE  IInv'
<1> DEFINE f == call[q].fetch
           pack == call[q].pack
<1>1. call[q] # NoCall /\ Shape /\ f \in Fetch /\ pack \in SUBSET OIDs
  BY InCall DEF IInv
<1>2. /\ call' = [call EXCEPT ![q] = call'[q]] /\ call'[q] \in Call
      /\ call'[q].pc = "answered" /\ call'[q].fetch = f
      /\ call'[q].sent = {} /\ call'[q].pack = pack
  BY <1>1, ReturnOne DEF Answer, Busy
<1>3. Apart(f) /\ pack = Pack(f, f.haves)
  BY <1>1 DEF IInv, InFlight
<1>4. Suffices(f, pack)
  BY <1>1, <1>3, OwnSuffices
<1>5. Shape'
  <2>1. [fetch |-> f, pack |-> pack] \in [fetch : Fetch, pack : SUBSET OIDs]
    BY <1>1
  <2> QED BY <1>1, <1>2, <2>1 DEF Shape
<1>6. \A e \in cached' : Own(e)
  BY <1>3 DEF IInv, Own
<1>7. \A r \in Clients : r # q => call'[r] = call[r]
  BY <1>1, <1>2 DEF Shape
<1>8. InFlight(call'[q])
  BY <1>2, <1>3 DEF InFlight
<1>9. ASSUME quiet PROVE Steady'
  <2>1. Whole(call[q]) /\ f.wants \subseteq objects
    BY <1>1, <1>9 DEF IInv, Steady, Whole
  <2>2. Whole(call[q])'
    BY <1>2, <1>4, <2>1 DEF Whole, Suffices
  <2>3. \A r \in Clients : call'[r] # NoCall => Whole(call[r])'
    BY <1>7, <1>9, <2>2 DEF IInv, Steady, Whole, Suffices
  <2>4. \A e \in cached : e.fetch.wants \subseteq objects
    BY <1>9 DEF IInv, Steady
  <2>5. \A e \in cached' : e \in cached \/ e.fetch = f
    OBVIOUS
  <2>6. \A e \in cached' : e.fetch.wants \subseteq objects
    BY <2>1, <2>4, <2>5
  <2> QED BY <1>9, <2>3, <2>6 DEF IInv, Steady, Closed
<1>10. \A r \in Clients : call'[r] # NoCall => InFlight(call'[r])
  BY <1>7, <1>8 DEF IInv
<1>11. History'
  BY DEF IInv, History
<1> QED BY <1>5, <1>6, <1>9, <1>10, <1>11, Kept

LEMMA ReplyStep == ASSUME IInv, NEW q \in Clients, Reply(q) PROVE IInv'
<1> DEFINE f == call[q].fetch
           pack == CollectObjectsForCommits(f.wants, f.haves)
<1>1. call[q].pc = "reply" /\ UNCHANGED <<objects, has, quiet, restarts>>
  BY DEF Reply, At
<1>2. /\ call[q] # NoCall /\ f \in Fetch /\ Apart(f)
      /\ f.wants \subseteq Commits \cup Tags
  BY <1>1, InCall DEF IInv, InFlight, Apart
<1>3. CASE ~call[q].modified
  BY <1>1, <1>3, ReplyAsIs DEF Reply
<1>4. CASE call[q].modified
  <2>1. UNCHANGED cached
    BY <1>4 DEF Reply
  <2>2. pack \in SUBSET OIDs /\ {} \in SUBSET OIDs
    BY CollectTyped DEF IInv, Shape
  <2>3. ASSUME quiet, f.wants \subseteq Commits
        PROVE  HasAllCommits(f.wants) /\ Suffices(f, pack) /\ pack # {}
    <3>1. Closed(objects) /\ Whole(call[q])
      BY <1>2, <2>3 DEF IInv, Steady
    <3>2. f.wants \subseteq known /\ f.haves \subseteq objects /\ f.kind = "full"
      BY <1>1, <2>3, <3>1 DEF Whole, known
    <3> QED BY <1>2, <3>1, <3>2, StoreSuffices DEF HasAllCommits, Apart
  <2>4. quiet => f.wants \subseteq objects
    BY <1>1, <1>2 DEF IInv, Steady, Whole
  <2>5. CASE HasAllCommits(f.wants) /\ pack # {}
    <3>1. Return(q, "answered", pack)
      BY <1>4, <2>5 DEF Reply, Answer
    <3>2. f.wants \subseteq Commits
      BY <2>5 DEF HasAllCommits, known
    <3> QED BY <1>1, <2>1, <2>2, <2>3, <2>4, <3>1, <3>2, AnswerStep
  <2>6. CASE ~(HasAllCommits(f.wants) /\ pack # {})
    <3>1. Return(q, "refused", {})
      BY <1>4, <2>6 DEF Reply
    <3>2. quiet => f.wants \cap Tags # {}
      BY <1>2, <2>3, <2>6
    <3> QED BY <1>1, <2>1, <2>2, <3>1, <3>2, AnswerStep
  <2> QED BY <2>5, <2>6
<1> QED BY <1>2, <1>3, <1>4

LEMMA ReceiveStep == ASSUME IInv, NEW q \in Clients, Receive(q) PROVE IInv'
<1> DEFINE w == Closure(call[q].fetch.wants)
<1>1. /\ call[q].pc \in {"answered", "refused"} /\ UNCHANGED <<objects, cached, quiet, restarts>>
      /\ call' = [call EXCEPT ![q] = NoCall]
  BY DEF Receive
<1>2. call[q] # NoCall /\ Shape /\ call[q].fetch.wants \subseteq OIDs
  BY <1>1, InCall DEF IInv
<1>3. \A r \in Clients : call'[r] # NoCall => call'[r] = call[r]
  BY <1>1, <1>2 DEF Shape
<1>4. /\ \A r \in Clients \ {q} : has'[r] = has[r]
      /\ has'[q] = has[q] \/ (has'[q] = has[q] \cup (w \cap Commits) /\ call[q].pc = "answered")
  BY <1>2 DEF Receive, Shape, At
<1>5. Shape'
  <2>1. has' \in [Clients -> SUBSET Commits]
    BY <1>2 DEF Receive, Shape
  <2> QED BY <1>1, <1>2, <2>1 DEF Shape
<1>6. Closure(has'[q]) \cap Commits \subseteq has'[q]
  <2>1. CASE has'[q] = has[q]
    BY <2>1 DEF IInv, History
  <2>2. CASE has'[q] = has[q] \cup (w \cap Commits)
    <3> DEFINE X == Closure(has[q]) \cup w
    <3>1. has[q] \subseteq OIDs
      BY <1>2 DEF Shape, OIDs
    <3>2. Closed(Closure(has[q])) /\ Closed(w) /\ has[q] \subseteq Closure(has[q])
      BY <1>2, <3>1, ClosureClosed, ClosureHas
    <3>3. Closed(X) /\ has'[q] \subseteq X
      BY <2>2, <3>2 DEF Closed
    <3>4. Closure(has'[q]) \subseteq X
      BY <3>3, ClosureLeast
    <3>5. Closure(has[q]) \cap Commits \subseteq has[q]
      BY DEF IInv, History
    <3> QED BY <2>2, <3>4, <3>5
  <2> QED BY <1>4, <2>1, <2>2
<1>7. History'
  <2> SUFFICES ASSUME NEW r \in Clients PROVE Closure(has'[r]) \cap Commits \subseteq has'[r]
    BY DEF History, Closure
  <2> QED BY <1>4, <1>6 DEF IInv, History
<1>8. ASSUME quiet PROVE Steady'
  <2>1. Closed(objects) /\ Whole(call[q])
    BY <1>2, <1>8 DEF IInv, Steady
  <2>2. call[q].pc = "answered" => w \subseteq objects
    BY <2>1, ClosureLeast DEF Whole
  <2>3. \A r \in Clients : has'[r] \subseteq objects
    BY <1>4, <1>8, <2>2 DEF IInv, Steady
  <2>4. \A r \in Clients : call'[r] # NoCall => Whole(call[r])'
    BY <1>1, <1>3, <1>8 DEF IInv, Steady, Whole, Suffices
  <2> QED BY <1>1, <1>8, <2>3, <2>4 DEF IInv, Steady, Closed
<1>9. \A r \in Clients : call'[r] # NoCall => InFlight(call'[r])
  BY <1>3 DEF IInv
<1>10. \A e \in cached' : Own(e)
  BY <1>1 DEF IInv
<1> QED BY <1>1, <1>5, <1>7, <1>8, <1>9, <1>10, Kept

LEMMA InvStep == IInv /\ [Next]_vars => IInv'
<1> SUFFICES ASSUME IInv, [Next]_vars PROVE IInv'
  OBVIOUS
<1>1. CASE UNCHANGED vars
  <2>1. UNCHANGED <<objects, cached, has, call, quiet, restarts>>
    BY <1>1 DEF vars
  <2>2. Shape' /\ History'
    BY <2>1 DEF IInv, Shape, History
  <2>3. quiet => Steady'
    BY <2>1 DEF IInv, Steady, Closed, Whole, Suffices
  <2> QED BY <2>1, <2>2, <2>3, Kept DEF IInv
<1>2. CASE Expire
  <2>1. cached' \subseteq cached /\ UNCHANGED <<objects, has, call, quiet, restarts>>
    BY <1>2 DEF Expire
  <2>2. Shape' /\ History'
    BY <2>1 DEF IInv, Shape, History
  <2>3. quiet => Steady'
    BY <2>1 DEF IInv, Steady, Closed, Whole, Suffices
  <2> QED BY <2>1, <2>2, <2>3, Kept DEF IInv
<1>3. CASE Restart
  <2>1. /\ ~quiet' /\ objects' = {} /\ cached' \subseteq cached /\ UNCHANGED has
        /\ call' = [q \in Clients |-> NoCall] /\ UNCHANGED quiet
        /\ restarts' \in 0..MaxRestarts
    BY <1>3, GitAssumption DEF Restart, IInv, Shape
  <2>2. Shape' /\ History'
    BY <2>1 DEF IInv, Shape, History
  <2> QED BY <2>1, <2>2, Kept DEF IInv
<1>4. ASSUME NEW q \in Clients, Send(q) \/ ServeHTTP(q) \/ Receive(q) PROVE IInv'
  BY <1>4, SendStep, LookUpStep, CollectStep, CacheGetStep, AugmentStep, RoundTripStep,
     IngestStep, ReplyStep, ReceiveStep DEF ServeHTTP
<1> QED BY <1>1, <1>2, <1>3, <1>4 DEF Next

LEMMA Invariance == Spec => []IInv
BY InvInit, InvStep, PTL DEF Spec

-----------------------------------------------------------------------------
(* The properties.                                                         *)

\* The state of the handlers, of the store and of the cache keeps its type.
THEOREM TypeCorrect == Spec => []TypeOK
<1>1. IInv => TypeOK
  <2> SUFFICES ASSUME IInv PROVE TypeOK
    OBVIOUS
  <2>1. \A q \in Clients : call[q] = NoCall \/ call[q] \in Call
    BY DEF IInv, Shape
  <2> QED BY <2>1 DEF IInv, Shape, TypeOK, Call, Busy
<1> QED BY Invariance, <1>1, PTL

\* HasCommit is right: IngestPackfile stores no commit before all it reaches,
\* whatever the handlers between its locks do to the store.
THEOREM NeverHalfStored == Spec => []StoreClosed
<1>1. IInv => StoreClosed
  <2> SUFFICES ASSUME IInv, quiet, NEW c \in known PROVE Closure({c}) \subseteq objects
    BY DEF StoreClosed
  <2>1. Closed(objects) /\ {c} \subseteq objects
    BY DEF IInv, Steady, known
  <2> QED BY <2>1, ClosureLeast
<1> QED BY Invariance, <1>1, PTL

\* ServeHTTP answers a fetch, by whichever of its paths, with a pack that
\* completes what the client has to what it wants.
THEOREM AnswersWhole == Spec => []AnswerSuffices
<1>1. IInv => AnswerSuffices
  BY InCall DEF IInv, Steady, Whole, AnswerSuffices, At
<1> QED BY Invariance, <1>1, PTL

\* The response cache holds for each fetch an answer that is enough for it,
\* also across restarts and beside shallow fetches.
THEOREM CachesWhole == Spec => []CacheSuffices
<1>1. IInv => CacheSuffices
  BY OwnSuffices DEF IInv, Shape, Own, CacheSuffices
<1> QED BY Invariance, <1>1, PTL

\* After upstream answered a rewritten fetch, ServeHTTP refuses the client only
\* over a tag: the store then has every commit it wants, and all they reach.
THEOREM CommitsNeverRefused == Spec => []RefusesOnlyTags
<1>1. IInv => RefusesOnlyTags
  BY InCall DEF IInv, Steady, Whole, RefusesOnlyTags, At
<1> QED BY Invariance, <1>1, PTL
=============================================================================
