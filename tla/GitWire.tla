-------------------------------- MODULE GitWire --------------------------------
(***************************************************************************)
(* What the git proxy reads and writes (pkg/gitproxy, protocol.go and      *)
(* packfile.go): a client's fetch request is parsed and rewritten for      *)
(* upstream; a pack travels as sideband packets, is cut off or not, is     *)
(* extracted, its entries are read, and its deltas are resolved.           *)
(*                                                                         *)
(* A request is the sequence of its lines.  A pack is the sequence of its  *)
(* entries, each with the length of its deflated data; headers, offsets    *)
(* and delta commands are encoded byte by byte and decoded by the code.    *)
(* The object of entry i is called i; deltas may also name an object of    *)
(* the proxy's store, or one that is nowhere.                              *)
(***************************************************************************)
EXTENDS Integers, Sequences, SequencesExt

CONSTANTS
  Cases,      \* requests that clients send, each with the pack of the answer, and
              \* whether that may be cut off: [client, pack, lossy]
  Known,      \* the commits of the store: a sequence
  InStore,    \* the store's object that deltas name, a number no entry has
  StoreSize,  \* and its size
  MaxPasses   \* bound: passes over the entries; 50 in the code

VARIABLES
  pc,
  client, upstream,  \* the request as it came, and as it was sent on
  pack, body,        \* the pack that is sent, its packets
  lossy, cut,        \* whether it may be cut off; all, or the packets and bytes that come
  at, got,           \* next packet, bytes of the pack extracted so far
  entries, pos,      \* entries read, position of the next
  size,              \* size[i]: of the object of entry i, once it is resolved
  pass, next, progress  \* the pass over the entries, the next of them, and whether it resolved any

request == <<client, upstream>>
response == <<pack, body, lossy, cut>>
vars == <<pc, request, response, at, got, entries, pos, size, pass, next, progress>>

TypeOK ==
  /\ pc \in {"request", "send", "receive", "extract", "entries", "resolve", "parsed", "refused"}
  /\ [client |-> client, pack |-> pack, lossy |-> lossy] \in Cases
  /\ at \in 1..(Len(body) + 1) /\ got \in Nat /\ pos \in Nat
  /\ \A i \in DOMAIN entries : {entries[i].size, entries[i].offset, entries[i].base} \subseteq Nat
  /\ \A i \in DOMAIN size : size[i] \in Nat
  /\ pass \in 0..(MaxPasses - 1) /\ next \in 1..(Len(pack) + 1) /\ progress \in BOOLEAN

-----------------------------------------------------------------------------
(* Requests.  A line is [w, oid, ok]: its first word, the OID after it, and *)
(* whether the capabilities it carries are ones the parser knows.          *)

Line(w, oid) == [w |-> w, oid |-> oid, ok |-> TRUE]

HasLsRefsCommand(lines) ==
  LET commands == SelectSeq(lines, LAMBDA l : l.w \in {"ls-refs", "fetch", "other"})
  IN  commands # <<>> /\ Head(commands).w = "ls-refs"

HasFetchCommand(lines) == \E i \in DOMAIN lines : lines[i].w \in {"fetch", "want"}

IsFetch(lines) == ~HasLsRefsCommand(lines) /\ HasFetchCommand(lines)

\* The OIDs of the lines with word w, in order, each once.
Named(lines, w) ==
  LET add(seq, l) == IF l.w # w \/ Contains(seq, l.oid) THEN seq ELSE Append(seq, l.oid)
  IN  FoldLeft(add, <<>>, lines)

Recognized == {"fetch", "want", "have", "done", "thin-pack", "ofs-delta", "agent"}

\* Mutant: passes over a line it does not know.
ParsesLeniently(lines) == \E i \in DOMAIN lines : lines[i].w = "want"

Parses(lines) ==
  /\ \A i \in DOMAIN lines : lines[i].w \in Recognized /\ lines[i].ok
  /\ \E i \in DOMAIN lines : lines[i].w = "want"

ParseFetchRequest(lines) ==
  [wants |-> Named(lines, "want"), haves |-> Named(lines, "have"),
   isV2 |-> \E i \in DOMAIN lines : lines[i].w = "fetch",
   done |-> \E i \in DOMAIN lines : lines[i].w = "done"]

Lines(w, oids) == [i \in DOMAIN oids |-> Line(w, oids[i])]

BuildUpstreamFetchRequest(wants, haves, isV2) ==
  (IF isV2 THEN <<Line("fetch", 0), Line("agent", 0), Line("thin-pack", 0), Line("ofs-delta", 0)>>
   ELSE <<>>)
  \o Lines("want", wants) \o Lines("have", haves) \o <<Line("done", 0)>>

\* ServeHTTP adds the commits of the store to the haves of a fetch that it
\* understands.
Augment(lines) ==
  LET f == ParseFetchRequest(lines)
      known == SelectSeq(Known, LAMBDA o : ~Contains(f.haves, o))
  IN  IF IsFetch(lines) /\ Parses(lines) /\ Known # <<>>
      THEN BuildUpstreamFetchRequest(f.wants, f.haves \o known, f.isV2) ELSE lines

-----------------------------------------------------------------------------
(* Bytes.                                                                  *)

\* Seven bits a byte, the low ones first; 0 is no byte (BuildPackfile) or one.
Low7[n \in Nat] ==
  IF n < 128 THEN <<n>> ELSE <<128 + (n % 128)>> \o Low7[n \div 128]

\* How many bytes are read: up to the first without the top bit.
Taken(bytes) == CHOOSE i \in DOMAIN bytes : bytes[i] < 128 /\ \A j \in 1..(i - 1) : bytes[j] >= 128

readLEB128(bytes) ==
  FoldLeft(LAMBDA v, i : v + (bytes[i] % 128) * 2^(7 * (i - 1)), 0, [i \in 1..Taken(bytes) |-> i])

Types == [whole |-> 3, ofs |-> 6, ref |-> 7]

\* The header BuildPackfile writes: three bits of type, four of the size.
Header(type, n) ==
  IF n < 16 THEN <<type * 16 + n>> ELSE <<128 + type * 16 + (n % 16)>> \o Low7[n \div 16]

\* What ParsePackfileWithBase makes of it.
HeaderType(bytes) == (bytes[1] \div 16) % 8

HeaderSize(bytes) ==
  (bytes[1] % 16) + (IF bytes[1] < 128 THEN 0 ELSE 16 * readLEB128(Tail(bytes)))

\* External: the offsets of upstream's ofs-deltas, the high bits first.
Ofs[n \in Nat] ==
  IF n < 128 THEN <<n>>
  ELSE LET high == Ofs[n \div 128 - 1]
       IN  [high EXCEPT ![Len(high)] = @ + 128] \o <<n % 128>>

readOfs(bytes) ==
  FoldLeft(LAMBDA v, b : (v + 1) * 128 + (b % 128), bytes[1] % 128, Tail(bytes))

\* External: the bytes of a copy command, without those that are zero.
Byte(n, k) == (n \div 2^(8 * k)) % 256

CopyBytes(off, len) ==
  LET n == IF len = 65536 THEN 0 ELSE len
      fields == <<Byte(off, 0), Byte(off, 1), Byte(off, 2), off \div 2^24, Byte(n, 0), Byte(n, 1), Byte(n, 2)>>
      flags == FoldLeft(LAMBDA v, k : v + (IF fields[k] = 0 THEN 0 ELSE 2^(k - 1)), 128, <<1, 2, 3, 4, 5, 6, 7>>)
  IN  <<flags>> \o SelectSeq(fields, LAMBDA b : b # 0)

\* The fields applyDelta reads: the k-th is there when bit k - 1 of the command is.
Fields(bytes) ==
  LET set == {k \in 1..7 : (bytes[1] \div 2^(k - 1)) % 2 = 1}
      before(k) == Len(SelectSeq(<<1, 2, 3, 4, 5, 6, 7>>, LAMBDA j : j < k /\ j \in set))
  IN  [k \in 1..7 |-> IF k \in set THEN bytes[2 + before(k)] ELSE 0]

CopyOffset(bytes) ==
  LET f == Fields(bytes) IN f[1] + f[2] * 2^8 + f[3] * 2^16 + f[4] * 2^24

\* Mutant: a length of zero copies nothing.
CopyLengthPlain(bytes) ==
  LET f == Fields(bytes) IN f[5] + f[6] * 2^8 + f[7] * 2^16

CopyLength(bytes) ==
  LET f == Fields(bytes)
      n == f[5] + f[6] * 2^8 + f[7] * 2^16
  IN  IF n = 0 THEN 65536 ELSE n

-----------------------------------------------------------------------------
(* Packs.  An entry is [kind, base, size, data, delta]: "whole", or a delta *)
(* on the entry or object base; the length of its content, and deflated;   *)
(* and the delta, [src, target, cmds].                                     *)

\* Where the entries start, and the trailer: a header and 20 bytes frame them.
Starts(p) ==
  LET start[i \in Nat] ==
        IF i = 1 THEN 12
        ELSE LET e == p[i - 1]
             IN  start[i - 1] + Len(Header(Types[e.kind], e.size)) + e.data
                   + (CASE e.kind = "whole" -> 0
                        [] e.kind = "ref" -> 20
                        [] e.kind = "ofs" -> Len(Ofs[start[i - 1] - start[e.base]]))
  IN  [i \in 1..(Len(p) + 1) |-> start[i]]

PackLen(p) == Starts(p)[Len(p) + 1] + 20

Text(n) == [len |-> n + 4, band |-> 0, size |-> n]
Special(n) == [len |-> n, band |-> 0, size |-> 0]  \* flush, delim
maxChunk == 65515

\* Mutant: the length of a packet leaves out its band.
ChunkBare(n) == [len |-> n + 4, band |-> 1, size |-> n]

Chunk(n) == [len |-> n + 5, band |-> 1, size |-> n]

FormatSidebandPackfile(n, isV2, acks, hasHaves) ==
  LET ack == [i \in 1..acks |-> Text(45)]
      intro == IF isV2
               THEN (IF hasHaves
                     THEN <<Text(16)>> \o (IF acks = 0 THEN <<Text(4)>> ELSE ack)
                            \o <<Text(6), Special(1)>>
                     ELSE <<>>) \o <<Text(9)>>
               ELSE IF acks = 0 THEN <<Text(4)>> ELSE ack
      chunk[left \in Nat] ==
        IF left = 0 THEN <<>>
        ELSE IF left <= maxChunk THEN <<Chunk(left)>>
        ELSE <<Chunk(maxChunk)>> \o chunk[left - maxChunk]
  IN  intro \o chunk[n] \o <<Special(0)>>

\* The four hexadecimal digits of its length lead to the next packet.
Framed(b) == b.len < 65536 /\ (b.len <= 2 \/ b.len = 4 + b.band + b.size)

-----------------------------------------------------------------------------
(* applyDelta: the size of the target, or -1.                              *)

CommandLength(c) == IF c.copy THEN CopyLength(CopyBytes(c.off, c.len)) ELSE c.len

\* The commands fill the target one after the other.
applyDelta(base, d) ==
  LET fits == \A k \in DOMAIN d.cmds :
        d.cmds[k].copy =>
          CopyOffset(CopyBytes(d.cmds[k].off, d.cmds[k].len)) + CommandLength(d.cmds[k]) <= base
      filled == FoldLeft(LAMBDA n, c : n + CommandLength(c), 0, d.cmds)
      target == readLEB128(Low7[d.target])
  IN  IF readLEB128(Low7[d.src]) = base /\ fits /\ filled = target THEN target ELSE -1

-----------------------------------------------------------------------------
(* The steps.                                                              *)

All == [packets |-> -1, bytes |-> 0]

Init ==
  /\ pc = "request" /\ upstream = <<>>
  /\ \E c \in Cases : client = c.client /\ pack = c.pack /\ lossy = c.lossy
  /\ body = <<>> /\ cut = All
  /\ at = 1 /\ got = 0 /\ entries = <<>> /\ pos = 12
  /\ size = <<>> /\ pass = 0 /\ next = 1 /\ progress = FALSE

ServeHTTP ==
  /\ pc = "request" /\ upstream' = Augment(client) /\ pc' = "send"
  /\ UNCHANGED <<client, response, at, got, entries, pos, size, pass, next, progress>>

\* The answer, as upstream and the proxy itself write it; or a bare pack.
Send ==
  /\ pc = "send" /\ pc' = "receive"
  /\ LET f == ParseFetchRequest(upstream)
     IN  \/ \E acks \in 0..Len(f.haves) :
              body' = FormatSidebandPackfile(PackLen(pack), f.isV2, acks, f.haves # <<>>)
         \/ body' = <<[len |-> 0, band |-> -1, size |-> PackLen(pack)]>>
  /\ UNCHANGED <<request, pack, lossy, cut, at, got, entries, pos, size, pass, next, progress>>

\* The body may end early: after some packets and some bytes of the next.
Receive ==
  /\ pc = "receive" /\ pc' = "extract"
  /\ cut' \in {All} \cup
       UNION {{[packets |-> k - 1, bytes |-> b] :
                 b \in {0} \cup {x \in (body[k].size - 24)..(body[k].size - 1) : x >= 4 /\ body[k].band # 0}} :
              k \in {j \in DOMAIN body : lossy}}
  /\ UNCHANGED <<request, pack, body, lossy, at, got, entries, pos, size, pass, next, progress>>

Arrived(k) == k <= Len(body) /\ (cut = All \/ k <= cut.packets)

More == body[1].band # -1 /\ Arrived(at) /\ Framed(body[at])

\* Packet after packet, while they are whole.
ReadPacket ==
  /\ pc = "extract" /\ More
  /\ got' = got + (IF body[at].band = 1 THEN body[at].size ELSE 0)
  /\ at' = at + 1
  /\ UNCHANGED <<pc, request, response, entries, pos, size, pass, next, progress>>

\* The bare pack, or what the packets held; with no packet of the pack, "PACK"
\* is searched for in the body.
Extracted ==
  /\ pc = "extract" /\ ~More
  /\ LET found == IF body[1].band = -1 THEN IF cut = All THEN body[1].size ELSE cut.bytes
                  ELSE IF got > 0 THEN got
                  ELSE IF at <= Len(body) /\ body[at].band = 1 THEN cut.bytes ELSE 0
     IN  got' = found /\ pc' = IF found < 12 + 20 THEN "refused" ELSE "entries"
  /\ UNCHANGED <<request, response, at, entries, pos, size, pass, next, progress>>

\* Mutant: does not see that the data ends early.
TruncatedHeader(read, data) == read > got - 20

\* An entry whose header reaches into the last 20 bytes, or whose data is cut off.
Truncated(read, data) == read > got - 20 \/ read + data > got

ReadEntry ==
  /\ pc = "entries" /\ Len(entries) < Len(pack)
  /\ LET i == Len(entries) + 1
         e == pack[i]
         header == Header(Types[e.kind], e.size)
         ofs == IF e.kind = "ofs" THEN Ofs[Starts(pack)[i] - Starts(pack)[e.base]] ELSE <<>>
         read == pos + Len(header) + Len(ofs) + (IF e.kind = "ref" THEN 20 ELSE 0)
     IN  IF Truncated(read, e.data) \/ HeaderSize(header) > e.size
         THEN pc' = "refused" /\ UNCHANGED <<entries, pos>>
         ELSE /\ entries' = Append(entries,
                   [type |-> HeaderType(header), size |-> HeaderSize(header), offset |-> pos,
                    base |-> IF ofs = <<>> THEN e.base ELSE pos - readOfs(ofs)])
              /\ pos' = read + e.data /\ UNCHANGED pc
  /\ UNCHANGED <<request, response, at, got, size, pass, next, progress>>

\* The objects that are no deltas are registered.
FirstPass ==
  /\ pc = "entries" /\ Len(entries) = Len(pack)
  /\ size' = [i \in {j \in DOMAIN pack : entries[j].type = Types.whole} |-> entries[i].size]
  /\ pc' = "resolve"
  /\ UNCHANGED <<request, response, at, got, entries, pos, pass, next, progress>>

\* The size of the base of entry i, or -1 when it is not resolved yet.
BaseSize(i) ==
  LET e == entries[i]
      bases == IF e.type = Types.ofs THEN {j \in DOMAIN size : entries[j].offset = e.base}
               ELSE DOMAIN size \cap {e.base}
  IN  IF bases # {} THEN size[CHOOSE j \in bases : TRUE]
      ELSE IF e.type = Types.ref /\ e.base = InStore THEN StoreSize ELSE -1

\* The next entry of the pass.
Resolve ==
  /\ pc = "resolve" /\ next <= Len(entries) /\ next' = next + 1
  /\ LET base == BaseSize(next)
         target == applyDelta(base, pack[next].delta)
     IN  IF next \in DOMAIN size \/ base = -1 THEN UNCHANGED <<pc, size, progress>>
         ELSE IF target = -1 THEN pc' = "refused" /\ UNCHANGED <<size, progress>>
         ELSE /\ size' = [j \in DOMAIN size \cup {next} |-> IF j = next THEN target ELSE size[j]]
              /\ progress' = TRUE /\ UNCHANGED pc
  /\ UNCHANGED <<request, response, at, got, entries, pos, pass>>

IsLast == pass + 1 = MaxPasses \/ ~progress

\* Mutant: starts over until all is resolved.
EndPassEndless ==
  /\ pc = "resolve" /\ next > Len(entries)
  /\ IF DOMAIN size = DOMAIN pack THEN pc' = "parsed" /\ UNCHANGED <<next, progress>>
     ELSE next' = 1 /\ progress' = FALSE /\ UNCHANGED pc
  /\ UNCHANGED <<request, response, at, got, entries, pos, size, pass>>

EndPass ==
  /\ pc = "resolve" /\ next > Len(entries)
  /\ IF DOMAIN size = DOMAIN pack THEN pc' = "parsed" /\ UNCHANGED <<pass, next, progress>>
     ELSE IF IsLast THEN pc' = "refused" /\ UNCHANGED <<pass, next, progress>>
     ELSE pass' = pass + 1 /\ next' = 1 /\ progress' = FALSE /\ UNCHANGED pc
  /\ UNCHANGED <<request, response, at, got, entries, pos, size>>

Next ==
  \/ ServeHTTP \/ Send \/ Receive \/ ReadPacket \/ Extracted
  \/ ReadEntry \/ FirstPass \/ Resolve \/ EndPass

Spec == Init /\ [][Next]_vars /\ WF_vars(Next)

-----------------------------------------------------------------------------
(* Properties.                                                             *)

\* What is sent upstream asks for what the client asked: the same wants in the
\* same protocol, telling at least of what the client has, and at most of that
\* and of the store; a request with a line the parser does not know is sent as
\* it is.
AsksTheSame ==
  pc # "request" =>
    LET c == ParseFetchRequest(client)
        u == ParseFetchRequest(upstream)
    IN  \/ upstream = client
        \/ /\ u.wants = c.wants /\ u.isV2 = c.isV2
           /\ ToSet(c.haves) \subseteq ToSet(u.haves)
           /\ ToSet(u.haves) \subseteq ToSet(c.haves) \cup ToSet(Known)
           /\ \A i \in DOMAIN client : client[i].w \in Recognized /\ client[i].ok

\* The packets FormatSidebandPackfile cuts a pack into are within git's limit,
\* and ExtractPackfileFromResponse puts together the same pack, at every length
\* around a multiple of the chunk.
PacketsJoin ==
  /\ \A k \in DOMAIN body : body[k].len <= 65520
  /\ pc \in {"entries", "resolve", "parsed", "refused"} =>
       got <= PackLen(pack) /\ (cut = All => got = PackLen(pack))

ObjectSize(i) ==
  IF i = InStore THEN StoreSize
  ELSE IF pack[i].kind = "whole" THEN pack[i].size ELSE pack[i].delta.target

Applies(d, base) ==
  /\ d.src = base /\ \A k \in DOMAIN d.cmds : d.cmds[k].copy => d.cmds[k].off + d.cmds[k].len <= base
  /\ d.target = FoldLeft(LAMBDA n, c : n + c.len, 0, d.cmds)

\* The passes entry i needs: one more wherever its chain of bases goes forward;
\* too many when the chain ends nowhere.
Passes(i) ==
  LET needs[x \in Nat \X Int] ==
        IF x[1] = 0 \/ (x[2] \notin DOMAIN pack /\ x[2] # InStore) THEN MaxPasses + 1
        ELSE IF x[2] = InStore THEN 1
        ELSE IF pack[x[2]].kind = "whole" THEN 0
        ELSE LET b == pack[x[2]].base
                 n == needs[<<x[1] - 1, b>>]
             IN  IF b > x[2] THEN n + 1 ELSE IF n = 0 THEN 1 ELSE n
  IN  needs[<<Len(pack) + 1, i>>]

Resolvable(i) ==
  /\ Passes(i) <= MaxPasses
  /\ pack[i].kind = "whole" \/ Applies(pack[i].delta, ObjectSize(pack[i].base))

\* A pack is accepted only with every object whole, and built from bases that
\* were there, wherever the body was cut off: the parser does not check the
\* pack's checksum.
AcceptsWhole ==
  pc = "parsed" =>
    \A i \in DOMAIN pack :
      Starts(pack)[i + 1] <= got /\ Resolvable(i) /\ size[i] = ObjectSize(i)

\* A pack that arrives is refused only for a delta that does not fit its base,
\* a base that is nowhere, or a chain of bases that goes forward as often as
\* there are passes; its depth alone is no reason.
RefusesOnlyBad ==
  pc = "refused" => cut # All \/ \E i \in DOMAIN pack : ~Resolvable(i)

\* The parser always returns, on deltas that go round in a circle too.
Returns == <>(pc \in {"parsed", "refused"})
================================================================================
