--------------------------- MODULE NodeBootProofs ---------------------------
(***************************************************************************)
(* A proxy that serves has loaded the CA its workloads trust, and listens  *)
(* on the admin socket; a node is left without a usable CA only by a       *)
(* failure while the key is written.  For any number of pods, and however  *)
(* often they fail, crash and are replaced.                                *)
(*                                                                         *)
(* None of this is inductive: it rests on an init container that writes    *)
(* being alone on the node, so that no proxy sees a file change once it    *)
(* is past its own init container.                                         *)
(***************************************************************************)
EXTENDS NodeBoot, TLAPS

\* The files of the CA, and the steps of Run in mode m, counted from the last.
WriteWord(n) == CASE n = 1 -> "key" [] n = 2 -> "cert" [] OTHER -> "pub"

RunWord(m, n) ==
  CASE n = 1 -> "serve" [] n = 2 -> "dns" [] n = 3 -> "readKey" [] n = 4 -> "readCert"
    [] n = 5 -> IF m = "node" THEN "chmod" ELSE "readKey"
    [] n = 6 -> IF m = "node" THEN "listen" ELSE "readCert"
    [] n = 7 -> "unlink" [] n = 8 -> "readKey" [] OTHER -> "readCert"

Words ==
  {"pub", "cert", "key", "readCert", "readKey", "unlink", "listen", "chmod", "dns", "serve",
   "stopDNS", "stopHTTP"}

Containers ==
  [pc : {"gone", "init", "write", "boot", "run", "stop"}, term : BOOLEAN, left : Seq(Words),
   open : BOOLEAN, ca : Torn..MaxCA, loaded : SUBSET (1..MaxCA), bind : BOOLEAN]

Shape ==
  /\ mode \in {"node", "sidecar"} /\ early \in BOOLEAN /\ overlap \in BOOLEAN
  /\ mode = "sidecar" => ~overlap
  /\ file \in [Names -> Torn..MaxCA] /\ made \in 0..MaxCA
  /\ proc \in [Pods -> Containers]
  /\ sock \in Pods \cup {Nobody, Dead} /\ port \in [Ports -> Pods \cup {Nobody}]
  /\ faults \in 0..MaxFaults /\ rollouts \in 0..MaxRollouts

\* The init container of p is through.
Past(p) == proc[p].pc \in {"boot", "run", "stop"}

\* Pods are side by side only where they may overlap, on a node with both files
\* in place, and then none writes.
Alone ==
  \A p, q \in Present : p # q => overlap /\ ~NeedsCA /\ proc[p].pc # "write"

\* What is left of the files to write, and of the steps to take.
WriteList(m, s) ==
  /\ Len(s) \in 0..3 /\ (m = "node" => Len(s) \in 0..2)
  /\ \A i \in 1..Len(s) : s[i] = WriteWord(Len(s) + 1 - i)

RunList(m, s) ==
  /\ Len(s) \in 1..9 /\ (m = "sidecar" => Len(s) \in 1..6)
  /\ \A i \in 1..Len(s) : s[i] = RunWord(m, Len(s) + 1 - i)

\* The files before those left are written.
Writing(p) ==
  LET n == Len(proc[p].left)
  IN  /\ proc[p].ca > 0 /\ (proc[p].open => n # 0)
      /\ mode = "sidecar" /\ n <= 2 => file["pub"] = proc[p].ca
      /\ n <= 1 => file["cert"] = proc[p].ca
      /\ n = 0 => file["key"] = proc[p].ca

\* The certificate read and the CA loaded are those of the file, and the socket
\* is taken, from the steps on that see to it.
Running(p) ==
  LET n == Len(proc[p].left)
  IN  /\ proc[p].loaded \subseteq {file["cert"]}
      /\ n <= 2 => proc[p].loaded # {}
      /\ RunWord(mode, n) = "readKey" => proc[p].ca = file["cert"]
      /\ mode = "node" /\ ~overlap /\ n <= 5 => sock = p

Pod(p) ==
  /\ Past(p) => IF mode = "node" THEN ~NeedsCA ELSE file["pub"] = file["cert"]
  /\ proc[p].bind => proc[p].pc \in {"run", "stop"}
  /\ proc[p].pc \notin {"run", "stop"} => proc[p].loaded = {}
  /\ proc[p].pc = "write" => WriteList(mode, proc[p].left) /\ Writing(p)
  /\ proc[p].pc = "run" => RunList(mode, proc[p].left) /\ Running(p)

\* A key that was written is the last thing written, beside its certificate.
KeyLast ==
  mode = "node" =>
    \/ file["key"] \in {Missing, Torn, 1}
    \/ /\ IsPair(file["cert"], file["key"])
       /\ \A p \in Pods : proc[p].pc = "write" => Len(proc[p].left) = 0

IInv == Shape /\ Alone /\ (\A p \in Pods : Pod(p)) /\ KeyLast

-----------------------------------------------------------------------------
(* The lists.                                                              *)

\* What is left of a list after its first element.
LEMMA TailIs ==
  ASSUME NEW s \in Seq(Words), Len(s) # 0
  PROVE  /\ s # <<>> /\ Head(s) = s[1]
         /\ Tail(s) \in Seq(Words) /\ Len(Tail(s)) = Len(s) - 1
         /\ \A i \in 1..(Len(s) - 1) : Tail(s)[i] = s[i + 1]
  OBVIOUS

LEMMA WriteWords ==
  /\ WriteWord(1) = "key" /\ WriteWord(2) = "cert" /\ WriteWord(3) = "pub"
  BY DEF WriteWord

LEMMA WriteListTail ==
  ASSUME NEW m \in {"node", "sidecar"}, NEW s \in Seq(Words), WriteList(m, s), Len(s) # 0
  PROVE  /\ Head(s) = WriteWord(Len(s)) /\ Head(s) \in Names /\ s # <<>>
         /\ Len(s) \in 1..3 /\ (m = "node" => Len(s) \in 1..2)
         /\ Tail(s) \in Seq(Words) /\ Len(Tail(s)) = Len(s) - 1 /\ WriteList(m, Tail(s))
<1>1. /\ s # <<>> /\ Head(s) = s[1] /\ Tail(s) \in Seq(Words) /\ Len(Tail(s)) = Len(s) - 1
      /\ \A i \in 1..(Len(s) - 1) : Tail(s)[i] = s[i + 1]
  BY TailIs
<1>2. Len(s) \in 1..3 /\ (m = "node" => Len(s) \in 1..2)
  BY DEF WriteList
<1>3. Head(s) = WriteWord(Len(s))
  BY <1>1, <1>2 DEF WriteList
<1>4. ASSUME NEW i \in 1..(Len(s) - 1)
      PROVE  Tail(s)[i] = WriteWord((Len(s) - 1) + 1 - i)
  BY <1>1, <1>2 DEF WriteList
<1>5. WriteList(m, Tail(s))
  BY <1>1, <1>2, <1>4 DEF WriteList
<1> QED
  BY <1>1, <1>2, <1>3, <1>5, WriteWords DEF Names

LEMMA Countdown == \A k \in 1..9 : k # 0 /\ (k # 1 => k - 1 \in 1..9)
  OBVIOUS

LEMMA RunListTail ==
  ASSUME NEW m \in {"node", "sidecar"}, NEW s \in Seq(Words), RunList(m, s)
  PROVE  /\ Head(s) = RunWord(m, Len(s)) /\ s # <<>>
         /\ Len(s) \in 1..9 /\ (m = "sidecar" => Len(s) \in 1..6)
         /\ Tail(s) \in Seq(Words) /\ Len(Tail(s)) = Len(s) - 1
         /\ Len(s) # 1 => RunList(m, Tail(s))
<1>1. Len(s) \in 1..9
  BY DEF RunList
<1>a. m = "sidecar" => Len(s) \in 1..6
  BY DEF RunList
<1>2. /\ s # <<>> /\ Head(s) = s[1] /\ Tail(s) \in Seq(Words) /\ Len(Tail(s)) = Len(s) - 1
      /\ \A i \in 1..(Len(s) - 1) : Tail(s)[i] = s[i + 1]
  <2>1. Len(s) # 0
    BY <1>1, Countdown
  <2> QED
    BY <2>1, TailIs
<1>3. Head(s) = RunWord(m, Len(s))
  BY <1>1, <1>2 DEF RunList
<1>4. ASSUME NEW i \in 1..(Len(s) - 1)
      PROVE  Tail(s)[i] = RunWord(m, (Len(s) - 1) + 1 - i)
  BY <1>1, <1>2 DEF RunList
<1>5. ASSUME Len(s) # 1
      PROVE  RunList(m, Tail(s))
  <2> DEFINE n == Len(s) - 1
  <2>1. n \in 1..9 /\ Len(Tail(s)) = n
    BY <1>1, <1>2, <1>5, Countdown
  <2>a. ASSUME m = "sidecar"
        PROVE  n \in 1..6
    <3>1. Len(s) \in 1..6
      BY <1>a, <2>a
    <3> QED
      BY <1>5, <3>1
  <2>2. \A i \in 1..n : Tail(s)[i] = RunWord(m, n + 1 - i)
    BY <1>4
  <2> HIDE DEF n
  <2> QED
    BY <2>1, <2>a, <2>2 DEF RunList
<1> QED
  BY <1>1, <1>a, <1>2, <1>3, <1>5

\* Where each step of Run stands.
LEMMA WordAt ==
  ASSUME NEW m \in {"node", "sidecar"}, NEW n \in 1..9, m = "sidecar" => n \in 1..6
  PROVE  /\ RunWord(m, n) = "readCert" => n = 4 \/ n = 9 \/ (m = "sidecar" /\ n = 6)
         /\ RunWord(m, n) = "readKey" => n = 3 \/ n = 8 \/ (m = "sidecar" /\ n = 5)
         /\ RunWord(m, n) = "unlink" => n = 7
         /\ RunWord(m, n) = "listen" => n = 6
         /\ RunWord(m, n) = "chmod" => n = 5
         /\ RunWord(m, n) = "dns" => n = 2
         /\ RunWord(m, n) = "serve" => n = 1
         /\ RunWord(m, n) # "stopDNS" /\ RunWord(m, n) # "stopHTTP"
<1>1. CASE n = 1 \/ n = 2 \/ n = 3
  BY <1>1 DEF RunWord
<1>2. CASE n = 4 \/ n = 5 \/ n = 6
  BY <1>2 DEF RunWord
<1>3. CASE n = 7 \/ n = 8 \/ n = 9
  BY <1>3 DEF RunWord
<1> QED
  BY <1>1, <1>2, <1>3

\* What follows each step.
LEMMA WordAfter ==
  ASSUME NEW m \in {"node", "sidecar"}, NEW n \in 1..9, m = "sidecar" => n \in 1..6,
         RunWord(m, n) # "serve"
  PROVE  /\ n - 1 \in 1..8
         /\ RunWord(m, n) # "readCert" => RunWord(m, n - 1) # "readKey"
         /\ n - 1 <= 2 => RunWord(m, n) = "readKey" \/ n <= 2
         /\ m = "node" /\ n - 1 <= 5 => RunWord(m, n) = "listen" \/ n <= 5
         /\ m = "node" /\ n - 1 <= 5 => RunWord(m, n) # "unlink"
<1>1. CASE n = 1 \/ n = 2 \/ n = 3
  BY <1>1 DEF RunWord
<1>2. CASE n = 4 \/ n = 5 \/ n = 6
  BY <1>2 DEF RunWord
<1>3. CASE n = 7 \/ n = 8 \/ n = 9
  BY <1>3 DEF RunWord
<1> QED
  BY <1>1, <1>2, <1>3

\* The steps of Run, as it lists them.
Steps == (IF early THEN LoadCA ELSE <<>>) \o AdminSocket \o LoadCA \o <<"dns", "serve">>

LEMMA StepsAre ==
  ASSUME mode \in {"node", "sidecar"}, early \in BOOLEAN
  PROVE  /\ Steps \in Seq(Words)
         /\ mode = "node" => Len(Steps) \in {7, 9}
         /\ mode = "sidecar" => Len(Steps) \in {4, 6}
         /\ RunList(mode, Steps)
<1>1. CASE mode = "node" /\ early
  BY <1>1 DEF Steps, AdminSocket, LoadCA, RunWord, RunList, Words
<1>2. CASE mode = "node" /\ ~early
  BY <1>2 DEF Steps, AdminSocket, LoadCA, RunWord, RunList, Words
<1>3. CASE mode = "sidecar" /\ early
  BY <1>3 DEF Steps, AdminSocket, LoadCA, RunWord, RunList, Words
<1>4. CASE mode = "sidecar" /\ ~early
  BY <1>4 DEF Steps, AdminSocket, LoadCA, RunWord, RunList, Words
<1> QED
  BY <1>1, <1>2, <1>3, <1>4

-----------------------------------------------------------------------------
(* What a step of one pod leaves of the invariant.                         *)

Only(p) == \A q \in Pods \ {p} : proc'[q] = proc[q]

\* While no file changes, the other pods stay as they are: none of them is
\* there where the socket counts.
LEMMA OthersKeep ==
  ASSUME IInv, UNCHANGED <<conf, file>>, NEW p \in Pods, Only(p),
         p \in Present \/ UNCHANGED sock, NEW q \in Pods \ {p}
  PROVE  Pod(q)'
<1>1. Pod(q) /\ proc'[q] = proc[q] /\ Alone
  BY DEF IInv, Only
<1>2. mode' = mode /\ overlap' = overlap /\ file' = file
  BY DEF conf
<1>3. ASSUME proc[q].pc = "run", mode = "node", ~overlap
      PROVE  sock' = sock
  BY <1>1, <1>3 DEF Alone, Present
<1>4. proc[q].pc = "run" => Running(q)'
  BY <1>1, <1>2, <1>3 DEF Pod, Running
<1>5. proc[q].pc = "write" => Writing(q)'
  BY <1>1, <1>2 DEF Pod, Writing
<1> QED
  BY <1>1, <1>2, <1>4, <1>5 DEF Pod, Past, NeedsCA

\* A step of a pod that is there, and does not come to write.
LEMMA Quiet ==
  ASSUME IInv, UNCHANGED <<conf, file>>, NEW p \in Present, Only(p),
         Shape', Pod(p)', proc'[p].pc # "write"
  PROVE  IInv'
<1>1. p \in Pods /\ overlap' = overlap /\ mode' = mode /\ file' = file
  BY DEF Present, conf
<1>2. \A q \in Pods : Pod(q)'
  BY <1>1, OthersKeep
<1>3. Alone'
  BY <1>1 DEF IInv, Alone, Present, NeedsCA, Only
<1>4. KeyLast'
  BY <1>1 DEF IInv, KeyLast, Only
<1> QED
  BY <1>2, <1>3, <1>4 DEF IInv

LEMMA GoneIs ==
  /\ Gone \in Containers
  /\ [Gone EXCEPT !.pc = "init"] \in Containers /\ [Gone EXCEPT !.pc = "boot"] \in Containers
<1>1. 0 \in Torn..MaxCA
  BY BootAssumption DEF Torn
<1>2. <<>> \in Seq(Words)
  OBVIOUS
<1> QED
  BY <1>1, <1>2 DEF Gone, Containers, Missing

\* A process that ends starts again, with nothing loaded, or its pod is gone.
LEMMA Ends ==
  ASSUME IInv, NEW p \in Pods, Past(p), Exits(p), UNCHANGED <<conf, file, made, rollouts>>,
         faults' \in 0..MaxFaults
  PROVE  IInv'
<1>1. Shape /\ Pod(p) /\ proc \in [Pods -> Containers]
  BY DEF IInv, Shape
<1>2. p \in Present
  BY DEF Past, Present
<1>a. Gone \in Containers /\ [Gone EXCEPT !.pc = "boot"] \in Containers
  BY GoneIs
<1>b. proc' = [proc EXCEPT ![p] = IF proc[p].term THEN Gone ELSE [Gone EXCEPT !.pc = "boot"]]
  BY DEF Exits
<1>3. /\ proc' \in [Pods -> Containers] /\ Only(p)
      /\ proc'[p].pc \in {"gone", "boot"} /\ ~proc'[p].bind /\ proc'[p].loaded = {}
  BY <1>1, <1>a, <1>b DEF Gone, Only
<1>4. Shape'
  BY <1>1, <1>3 DEF Shape, Exits, conf
<1>5. Pod(p)'
  BY <1>1, <1>3 DEF Pod, Past, NeedsCA, conf
<1> QED
  BY <1>2, <1>3, <1>4, <1>5, Quiet

-----------------------------------------------------------------------------
(* Init containers.                                                        *)

LEMMA GenerateStep ==
  ASSUME IInv, NEW p \in Pods, generateCA(p)
  PROVE  IInv'
<1> USE DEF conf, bounds
<1>1. /\ Shape /\ Pod(p) /\ proc \in [Pods -> Containers] /\ mode = "sidecar" /\ ~overlap
      /\ p \in Present /\ made \in 0..MaxCA /\ made < MaxCA /\ MaxCA \in Nat
  BY BootAssumption DEF IInv, Shape, generateCA, Present
<1> DEFINE r == [proc[p] EXCEPT !.pc = "write", !.ca = made + 1, !.left = <<"pub", "cert", "key">>]
<1>2. <<"pub", "cert", "key">> \in Seq(Words) /\ made + 1 \in Torn..MaxCA
  BY <1>1 DEF Words, Torn
<1>3. r \in Containers
  BY <1>1, <1>2 DEF Containers
<1>4. proc' = [proc EXCEPT ![p] = r] /\ proc' \in [Pods -> Containers] /\ proc'[p] = r /\ Only(p)
  BY <1>1, <1>3 DEF generateCA, Only
<1>5. Shape'
  BY <1>1, <1>4 DEF Shape, generateCA
<1>6. WriteList(mode, r.left) /\ Writing(p)'
  BY <1>1, <1>4 DEF WriteList, Writing, WriteWord, Containers
<1>7. Pod(p)'
  BY <1>1, <1>4, <1>6 DEF Pod, Past, Containers, generateCA
<1>8. \A q \in Pods : Pod(q)'
  BY <1>1, <1>4, <1>7, OthersKeep DEF generateCA
<1>9. Alone'
  BY <1>1, <1>4 DEF IInv, Alone, Present, Only, generateCA
<1> QED
  BY <1>1, <1>5, <1>8, <1>9 DEF IInv, KeyLast, generateCA

LEMMA InitNodeStep ==
  ASSUME IInv, NEW p \in Pods, initNode(p)
  PROVE  IInv'
<1> USE DEF conf, bounds
<1>1. /\ Shape /\ Pod(p) /\ proc \in [Pods -> Containers] /\ mode = "node" /\ file \in [Names -> Torn..MaxCA]
      /\ p \in Present /\ made \in 0..MaxCA /\ MaxCA \in Nat /\ proc[p].pc = "init"
  BY BootAssumption DEF IInv, Shape, initNode, Present
<1>2. CASE NeedsCA
  <2> DEFINE r == [proc[p] EXCEPT !.pc = "write", !.ca = made + 1, !.left = NodeWrites]
  <2>1. made < MaxCA /\ NodeWrites \in Seq(Words) /\ made + 1 \in Torn..MaxCA
    BY <1>1, <1>2 DEF initNode, NodeWrites, Words, Torn
  <2>2. r \in Containers
    BY <1>1, <2>1 DEF Containers
  <2>3. proc' = [proc EXCEPT ![p] = r] /\ proc' \in [Pods -> Containers] /\ proc'[p] = r /\ Only(p)
    BY <1>1, <1>2, <2>2 DEF initNode, Only
  <2>4. Shape'
    BY <1>1, <1>2, <2>1, <2>3 DEF Shape, initNode
  <2>a. r.left = <<"cert", "key">> /\ r.ca = made + 1
    BY <1>1 DEF NodeWrites, Containers
  <2>b. WriteList(mode, <<"cert", "key">>)
    BY DEF WriteList, WriteWord
  <2>5. Writing(p)'
    <3>1. proc'[p].left = <<"cert", "key">> /\ proc'[p].ca = made + 1 /\ mode' = "node"
      BY <1>1, <2>3, <2>a DEF initNode
    <3>2. made + 1 > 0 /\ Len(<<"cert", "key">>) = 2
      BY <1>1
    <3> QED
      BY <3>1, <3>2 DEF Writing
  <2>6. Pod(p)'
    BY <1>1, <2>3, <2>a, <2>b, <2>5 DEF Pod, Past, Containers, initNode
  <2>7. \A q \in Pods : Pod(q)'
    BY <1>1, <2>3, <2>6, OthersKeep DEF initNode
  <2>8. \A q \in Present : q = p
    BY <1>1, <1>2 DEF IInv, Alone
  <2>9. Alone'
    BY <2>3, <2>8 DEF Alone, Present, Only
  <2>10. KeyLast'
    BY <1>1, <1>2 DEF IInv, KeyLast, NeedsCA, IsPair, initNode, Missing
  <2> QED
    BY <2>4, <2>7, <2>9, <2>10 DEF IInv
<1>3. CASE ~NeedsCA
  <2> DEFINE r == [proc[p] EXCEPT !.pc = "boot"]
  <2>1. r \in Containers
    BY <1>1 DEF Containers
  <2>2. proc' = [proc EXCEPT ![p] = r] /\ proc' \in [Pods -> Containers] /\ proc'[p] = r /\ Only(p)
    BY <1>1, <1>3, <2>1 DEF initNode, Only
  <2>3. Shape'
    BY <1>1, <1>3, <2>2 DEF Shape, initNode
  <2>4. Pod(p)'
    BY <1>1, <1>3, <2>2 DEF Pod, Past, NeedsCA, Containers, initNode
  <2> QED
    BY <1>1, <2>2, <2>3, <2>4, Quiet DEF initNode
<1> QED
  BY <1>2, <1>3

\* Who writes is alone.
LEMMA WriterAlone ==
  ASSUME IInv, NEW p \in Pods, proc[p].pc = "write", NEW q \in Pods \ {p}
  PROVE  proc[q].pc = "gone"
  BY DEF IInv, Alone, Present

\* So it disturbs nobody.
LEMMA WriterStep ==
  ASSUME IInv, NEW p \in Pods, proc[p].pc = "write", proc'[p].pc = "write", Only(p),
         UNCHANGED conf, Shape', WriteList(mode, proc'[p].left), Writing(p)', proc'[p].loaded = proc[p].loaded,
         proc'[p].bind = proc[p].bind, KeyLast'
  PROVE  IInv'
<1>1. Pod(p)'
  BY DEF IInv, Pod, Past, conf
<1>2. ASSUME NEW q \in Pods \ {p}
      PROVE  proc'[q].pc = "gone" /\ Pod(q)'
  <2>1. proc'[q] = proc[q] /\ proc[q].pc = "gone" /\ Pod(q)
    BY WriterAlone DEF Only, IInv
  <2> QED
    BY <2>1 DEF Pod, Past
<1>3. Alone'
  BY <1>2 DEF Alone, Present
<1> QED
  BY <1>1, <1>2, <1>3 DEF IInv

\* The file at hand is one of the CA's.
LEMMA FileAtHand ==
  ASSUME IInv, NEW p \in Pods, proc[p].pc = "write"
  PROVE  /\ proc[p] \in Containers /\ proc[p].left \in Seq(Words) /\ Len(proc[p].left) \in 0..3
         /\ WriteList(mode, proc[p].left) /\ Writing(p)
  BY DEF IInv, Shape, Containers, Pod, WriteList

LEMMA OpenStep ==
  ASSUME IInv, NEW p \in Pods, OpenFile(p)
  PROVE  IInv'
<1> USE DEF conf, bounds
<1> DEFINE n == Len(proc[p].left)
           r == [proc[p] EXCEPT !.open = TRUE]
<1>1. /\ Shape /\ proc \in [Pods -> Containers] /\ proc[p].pc = "write" /\ proc[p].left # <<>>
      /\ file \in [Names -> Torn..MaxCA] /\ Torn \in Torn..MaxCA
  BY BootAssumption DEF IInv, Shape, OpenFile, Torn
<1>a. /\ proc[p] \in Containers /\ proc[p].left \in Seq(Words) /\ mode \in {"node", "sidecar"}
      /\ WriteList(mode, proc[p].left) /\ Writing(p)
  BY <1>1, FileAtHand DEF Shape
<1>2. n # 0
  BY <1>1, <1>a
<1>3. Head(proc[p].left) = WriteWord(n) /\ WriteWord(n) \in Names /\ n \in 1..3
  BY <1>a, <1>2, WriteListTail
<1>4. file' = [file EXCEPT ![WriteWord(n)] = Torn] /\ file' \in [Names -> Torn..MaxCA]
  BY <1>1, <1>3 DEF OpenFile
<1>5. r \in Containers
  BY <1>a DEF Containers
<1>6. proc' = [proc EXCEPT ![p] = r] /\ proc' \in [Pods -> Containers] /\ proc'[p] = r /\ Only(p)
  BY <1>1, <1>5 DEF OpenFile, Only
<1>7. /\ r.left = proc[p].left /\ r.ca = proc[p].ca /\ r.pc = "write"
      /\ r.loaded = proc[p].loaded /\ r.bind = proc[p].bind
  BY <1>1, <1>a DEF Containers
<1>8. Shape'
  BY <1>1, <1>4, <1>6 DEF Shape, OpenFile
<1>9. Writing(p)'
  <2>1. (n <= 2 => file'["pub"] = file["pub"]) /\ (n <= 1 => file'["cert"] = file["cert"])
    <3>1. n = 1 \/ n = 2 \/ n = 3
      BY <1>3
    <3> QED
      BY <1>1, <1>4, <3>1, WriteWords DEF Names
  <2> QED
    BY <1>a, <1>2, <1>6, <1>7, <2>1 DEF Writing, OpenFile
<1>10. KeyLast'
  <2>1. mode = "node" => file["key"] \in {Missing, Torn, 1}
    BY <1>1, <1>2 DEF IInv, KeyLast
  <2>2. file'["key"] \in {file["key"], Torn}
    BY <1>1, <1>3, <1>4 DEF Names
  <2> QED
    BY <2>1, <2>2 DEF KeyLast, OpenFile
<1> QED
  BY <1>1, <1>a, <1>6, <1>7, <1>8, <1>9, <1>10, WriterStep DEF OpenFile

LEMMA WriteStep ==
  ASSUME IInv, NEW p \in Pods, WriteFile(p)
  PROVE  IInv'
<1> USE DEF conf, bounds
<1> DEFINE n == Len(proc[p].left)
           ca == proc[p].ca
           r == [proc[p] EXCEPT !.open = FALSE, !.left = Tail(proc[p].left)]
<1>1. /\ Shape /\ proc \in [Pods -> Containers] /\ proc[p].pc = "write" /\ proc[p].open
      /\ file \in [Names -> Torn..MaxCA] /\ mode \in {"node", "sidecar"}
  BY DEF IInv, Shape, WriteFile
<1>a. /\ proc[p] \in Containers /\ proc[p].left \in Seq(Words)
      /\ WriteList(mode, proc[p].left) /\ Writing(p)
  BY <1>1, FileAtHand
<1>b. ca \in Torn..MaxCA /\ ca > 0 /\ n # 0
  BY <1>1, <1>a DEF Containers, Writing
<1>2. /\ Head(proc[p].left) = WriteWord(n) /\ WriteWord(n) \in Names
      /\ n \in 1..3 /\ (mode = "node" => n \in 1..2)
      /\ Tail(proc[p].left) \in Seq(Words) /\ Len(Tail(proc[p].left)) = n - 1
      /\ WriteList(mode, Tail(proc[p].left))
  BY <1>1, <1>a, <1>b, WriteListTail
<1>4. file' = [file EXCEPT ![WriteWord(n)] = ca] /\ file' \in [Names -> Torn..MaxCA]
  BY <1>1, <1>b, <1>2 DEF WriteFile
<1>5. r \in Containers
  BY <1>a, <1>2 DEF Containers
<1>6. proc' = [proc EXCEPT ![p] = r] /\ proc' \in [Pods -> Containers] /\ proc'[p] = r /\ Only(p)
  BY <1>1, <1>5 DEF WriteFile, Only
<1>7. /\ r.left = Tail(proc[p].left) /\ r.ca = ca /\ r.pc = "write" /\ ~r.open
      /\ r.loaded = proc[p].loaded /\ r.bind = proc[p].bind
  BY <1>1, <1>a DEF Containers
<1>8. Shape'
  BY <1>1, <1>4, <1>6 DEF Shape, WriteFile
<1>9. /\ n = 3 => file'["pub"] = ca
      /\ n = 2 => file'["cert"] = ca /\ file'["pub"] = file["pub"] /\ file'["key"] = file["key"]
      /\ n = 1 => file'["key"] = ca /\ file'["cert"] = file["cert"] /\ file'["pub"] = file["pub"]
  BY <1>1, <1>4, WriteWords DEF Names
<1>10. Writing(p)'
  <2>1. proc'[p].left = r.left /\ proc'[p].ca = ca /\ ~proc'[p].open /\ Len(r.left) = n - 1
    BY <1>2, <1>6, <1>7
  <2>2. n = 1 \/ n = 2 \/ n = 3
    BY <1>2
  <2>3. (mode = "sidecar" /\ n <= 2 => file["pub"] = ca) /\ (n <= 1 => file["cert"] = ca)
    BY <1>a DEF Writing
  <2>4. /\ mode = "sidecar" => file'["pub"] = ca
        /\ n - 1 <= 1 => file'["cert"] = ca
        /\ n - 1 = 0 => file'["key"] = ca
    <3>1. CASE n = 1
      BY <1>9, <2>3, <3>1
    <3>2. CASE n = 2
      BY <1>9, <2>3, <3>2
    <3>3. CASE n = 3
      BY <1>9, <3>3
    <3> QED
      BY <2>2, <3>1, <3>2, <3>3
  <2> HIDE DEF n, ca, r
  <2> QED
    BY <1>b, <2>1, <2>4 DEF Writing, WriteFile
<1>11. KeyLast'
  <2>1. CASE mode = "node" /\ n = 2
    BY <1>1, <1>9, <2>1 DEF IInv, KeyLast, WriteFile
  <2>2. CASE mode = "node" /\ n = 1
    <3>1. IsPair(file'["cert"], file'["key"])
      BY <1>a, <1>b, <1>9, <2>2 DEF Writing, IsPair
    <3>2. ASSUME NEW q \in Pods, proc'[q].pc = "write"
          PROVE  Len(proc'[q].left) = 0
      BY <1>1, <1>2, <1>6, <1>7, <2>2, <3>2, WriterAlone DEF Only
    <3> QED
      BY <3>1, <3>2 DEF KeyLast, WriteFile, IsPair
  <2>3. CASE mode = "sidecar"
    BY <2>3 DEF KeyLast, WriteFile
  <2>4. n = 1 \/ n = 2 \/ mode = "sidecar"
    BY <1>1, <1>2
  <2> QED
    BY <1>1, <2>1, <2>2, <2>3, <2>4
<1> QED
  BY <1>1, <1>2, <1>6, <1>7, <1>8, <1>10, <1>11, WriterStep DEF WriteFile

LEMMA InitDoneStep ==
  ASSUME IInv, NEW p \in Pods, InitDone(p)
  PROVE  IInv'
<1> USE DEF conf, bounds, world
<1> DEFINE r == [proc[p] EXCEPT !.pc = "boot", !.ca = Missing]
<1>1. /\ Shape /\ proc \in [Pods -> Containers] /\ proc[p].pc = "write" /\ p \in Present
      /\ Len(proc[p].left) = 0 /\ Missing \in Torn..MaxCA /\ mode \in {"node", "sidecar"}
  BY BootAssumption DEF IInv, Shape, InitDone, Present, Missing, Torn
<1>2. proc[p] \in Containers /\ Writing(p) /\ Pod(p)
  BY <1>1, FileAtHand DEF IInv
<1>3. r \in Containers
  BY <1>1, <1>2 DEF Containers
<1>4. proc' = [proc EXCEPT ![p] = r] /\ proc' \in [Pods -> Containers] /\ proc'[p] = r /\ Only(p)
  BY <1>1, <1>3 DEF InitDone, Only
<1>5. r.pc = "boot" /\ r.loaded = {} /\ ~r.bind
  BY <1>1, <1>2 DEF Containers, Pod
<1>6. Shape'
  BY <1>1, <1>4 DEF Shape, InitDone
<1>7. /\ mode = "node" => ~NeedsCA
      /\ mode = "sidecar" => file["pub"] = file["cert"]
  BY <1>1, <1>2 DEF Writing, NeedsCA, Missing
<1>8. Pod(p)'
  BY <1>1, <1>4, <1>5, <1>7 DEF Pod, Past, NeedsCA, InitDone
<1> QED
  BY <1>1, <1>4, <1>5, <1>6, <1>8, Quiet DEF InitDone

LEMMA InitFailsStep ==
  ASSUME IInv, NEW p \in Pods, InitFails(p)
  PROVE  IInv'
<1> USE DEF conf, world
<1> DEFINE r == IF proc[p].term THEN Gone ELSE [Gone EXCEPT !.pc = "init"]
<1>1. /\ Shape /\ proc \in [Pods -> Containers] /\ p \in Present
      /\ faults' \in 0..MaxFaults
  BY BootAssumption DEF IInv, Shape, InitFails, Present
<1>2. r \in Containers /\ r.pc \in {"gone", "init"} /\ r.loaded = {} /\ ~r.bind
  BY GoneIs DEF Gone
<1>3. proc' = [proc EXCEPT ![p] = r] /\ proc' \in [Pods -> Containers] /\ proc'[p] = r /\ Only(p)
  BY <1>1, <1>2 DEF InitFails, Only
<1> HIDE DEF r
<1>4. Shape'
  BY <1>1, <1>3 DEF Shape, InitFails
<1>5. Pod(p)'
  BY <1>2, <1>3 DEF Pod, Past
<1> QED
  BY <1>1, <1>2, <1>3, <1>4, <1>5, Quiet DEF InitFails

-----------------------------------------------------------------------------
(* Run.                                                                    *)

LEMMA RunStep ==
  ASSUME IInv, NEW p \in Pods, Run(p)
  PROVE  IInv'
<1> USE DEF conf, bounds, world
<1> DEFINE r == [proc[p] EXCEPT !.pc = "run", !.left = Steps]
<1>1. /\ Shape /\ proc \in [Pods -> Containers] /\ proc[p].pc = "boot" /\ p \in Present
      /\ Pod(p) /\ mode \in {"node", "sidecar"} /\ early \in BOOLEAN
  BY DEF IInv, Shape, Run, Present
<1>2. /\ Steps \in Seq(Words) /\ RunList(mode, Steps)
      /\ mode = "node" => Len(Steps) \in {7, 9}
      /\ mode = "sidecar" => Len(Steps) \in {4, 6}
  BY <1>1, StepsAre
<1>3. r \in Containers
  BY <1>1, <1>2 DEF Containers
<1>4. proc' = [proc EXCEPT ![p] = r] /\ proc' \in [Pods -> Containers] /\ proc'[p] = r /\ Only(p)
  BY <1>1, <1>3 DEF Run, Only, Steps
<1>5. r.pc = "run" /\ r.loaded = {} /\ ~r.bind /\ r.left = Steps
  BY <1>1 DEF Containers, Pod
<1> HIDE DEF r
<1>6. Shape'
  BY <1>1, <1>4 DEF Shape, Run
<1>7. Running(p)'
  <2> DEFINE n == Len(Steps)
  <2>a. \/ mode = "node" /\ (n = 7 \/ n = 9)
        \/ mode = "sidecar" /\ (n = 4 \/ n = 6)
    BY <1>1, <1>2
  <2> HIDE DEF n
  <2>1. RunWord(mode, n) # "readKey"
    BY <2>a DEF RunWord
  <2>2. ~(n <= 2) /\ (mode = "node" => ~(n <= 5))
    BY <2>a
  <2> QED
    BY <1>4, <1>5, <2>1, <2>2 DEF Running, Run, n
<1>8. Pod(p)'
  BY <1>1, <1>2, <1>4, <1>5, <1>7 DEF Pod, Past, NeedsCA, Run
<1> QED
  BY <1>1, <1>4, <1>5, <1>6, <1>8, Quiet DEF Run

\* The step at hand, of a process that runs.
LEMMA AtStep ==
  ASSUME IInv, NEW p \in Pods, NEW x, At(p, x)
  PROVE  /\ proc[p] \in Containers /\ proc[p].left \in Seq(Words) /\ Past(p) /\ p \in Present
         /\ proc[p].left # <<>> /\ mode \in {"node", "sidecar"} /\ Shape /\ Pod(p)
         /\ Tail(proc[p].left) \in Seq(Words)
         /\ proc[p].pc = "run" =>
              /\ RunList(mode, proc[p].left) /\ Running(p)
              /\ Len(proc[p].left) \in 1..9 /\ (mode = "sidecar" => Len(proc[p].left) \in 1..6)
              /\ RunWord(mode, Len(proc[p].left)) = x
<1>1. /\ proc[p] \in Containers /\ proc[p].left \in Seq(Words) /\ proc[p].left # <<>>
      /\ mode \in {"node", "sidecar"} /\ Shape /\ Pod(p)
  BY DEF IInv, Shape, At, Containers
<1>2. Tail(proc[p].left) \in Seq(Words)
  BY <1>1
<1>3. Past(p) /\ p \in Present
  BY DEF At, Past, Present
<1>4. ASSUME proc[p].pc = "run"
      PROVE  /\ RunList(mode, proc[p].left) /\ Running(p)
             /\ Len(proc[p].left) \in 1..9 /\ (mode = "sidecar" => Len(proc[p].left) \in 1..6)
             /\ RunWord(mode, Len(proc[p].left)) = x
  <2>1. RunList(mode, proc[p].left) /\ Running(p)
    BY <1>1, <1>4 DEF Pod
  <2> QED
    BY <1>1, <2>1, RunListTail DEF At
<1> QED
  BY <1>1, <1>2, <1>3, <1>4

\* What a step does to the process and the socket.
Does(p, x) ==
  /\ \/ proc'[p].loaded = proc[p].loaded
     \/ x = "readKey" /\ proc'[p].loaded = proc[p].loaded \cup {proc[p].ca}
  /\ x = "readKey" => proc'[p].loaded # {}
  /\ x = "readCert" => proc'[p].ca = file["cert"]
  /\ x = "listen" => sock' = p
  /\ x \notin {"unlink", "listen"} => sock' = sock

\* A step that is taken, and is not the last.
LEMMA Advances ==
  ASSUME IInv, NEW p \in Pods, NEW x, At(p, x), x # "serve", UNCHANGED <<conf, file>>, Shape', Only(p),
         proc'[p].pc = proc[p].pc, proc'[p].left = Tail(proc[p].left), Does(p, x)
  PROVE  IInv'
<1> DEFINE n == Len(proc[p].left)
<1>1. /\ proc[p].left \in Seq(Words) /\ p \in Present /\ Past(p) /\ Pod(p) /\ mode \in {"node", "sidecar"}
      /\ proc[p].pc = "run" =>
           /\ RunList(mode, proc[p].left) /\ RunWord(mode, n) = x
           /\ n \in 1..9 /\ (mode = "sidecar" => n \in 1..6) /\ Running(p)
  BY AtStep
<1>2. mode' = mode /\ file' = file /\ overlap' = overlap
  BY DEF conf
<1>3. ASSUME proc[p].pc = "run"
      PROVE  RunList(mode, Tail(proc[p].left)) /\ Len(Tail(proc[p].left)) = n - 1
  <2>1. RunWord(mode, 1) = "serve"
    BY DEF RunWord
  <2> QED
    BY <1>1, <1>3, <2>1, RunListTail
<1>4. ASSUME proc[p].pc = "run"
      PROVE  Running(p)'
  <2>1. /\ x # "readCert" => RunWord(mode, n - 1) # "readKey"
        /\ n - 1 <= 2 => x = "readKey" \/ n <= 2
        /\ mode = "node" /\ n - 1 <= 5 => (x = "listen" \/ n <= 5) /\ x # "unlink"
    BY <1>1, <1>4, WordAfter
  <2>2. /\ proc[p].loaded \subseteq {file["cert"]} /\ (n <= 2 => proc[p].loaded # {})
        /\ x = "readKey" => proc[p].ca = file["cert"]
        /\ mode = "node" /\ ~overlap /\ n <= 5 => sock = p
    BY <1>1, <1>4 DEF Running
  <2>3. proc'[p].loaded \subseteq {file["cert"]} /\ (n - 1 <= 2 => proc'[p].loaded # {})
    BY <2>1, <2>2 DEF Does
  <2>4. RunWord(mode, n - 1) = "readKey" => proc'[p].ca = file["cert"]
    BY <2>1 DEF Does
  <2>5. mode = "node" /\ ~overlap /\ n - 1 <= 5 => sock' = p
    BY <2>1, <2>2 DEF Does
  <2>6. Len(proc'[p].left) = n - 1
    BY <1>3, <1>4
  <2> HIDE DEF n
  <2> QED
    BY <1>2, <2>3, <2>4, <2>5, <2>6 DEF Running
<1>5. proc[p].pc \in {"run", "stop"}
  BY DEF At
<1>6. Pod(p)'
  BY <1>1, <1>2, <1>3, <1>4, <1>5 DEF Pod, Past, NeedsCA
<1> QED
  BY <1>1, <1>5, <1>6, Quiet

LEMMA ReadCertStep ==
  ASSUME IInv, NEW p \in Pods, ReadCert(p)
  PROVE  IInv'
<1> USE DEF conf, bounds, world
<1> DEFINE r == [proc[p] EXCEPT !.ca = file["cert"], !.left = Tail(proc[p].left)]
<1>1. At(p, "readCert")
  BY DEF ReadCert
<1>2. /\ proc[p] \in Containers /\ proc[p].left \in Seq(Words) /\ Past(p) /\ Shape
      /\ Tail(proc[p].left) \in Seq(Words) /\ mode \in {"node", "sidecar"}
  BY <1>1, AtStep
<1>3. CASE file["cert"] = Missing
  <2>1. Exits(p) /\ faults' \in 0..MaxFaults
    BY <1>2, <1>3 DEF ReadCert, Shape
  <2> QED
    BY <1>2, <2>1, Ends DEF ReadCert
<1>4. CASE file["cert"] # Missing
  <2>1. file["cert"] \in Torn..MaxCA /\ proc \in [Pods -> Containers]
    BY <1>2 DEF Shape, Names
  <2>2. r \in Containers
    BY <1>2, <2>1 DEF Containers
  <2>3. proc' = [proc EXCEPT ![p] = r] /\ proc' \in [Pods -> Containers] /\ proc'[p] = r /\ Only(p)
    BY <1>4, <2>1, <2>2 DEF ReadCert, Only
  <2>4. /\ r.pc = proc[p].pc /\ r.left = Tail(proc[p].left) /\ r.ca = file["cert"]
        /\ r.loaded = proc[p].loaded
    BY <1>2 DEF Containers
  <2>5. Shape'
    BY <1>2, <1>4, <2>3 DEF Shape, ReadCert
  <2> HIDE DEF r
  <2>6. Does(p, "readCert")
    BY <1>4, <2>3, <2>4 DEF Does, ReadCert
  <2> QED
    BY <1>1, <1>4, <2>3, <2>4, <2>5, <2>6, Advances DEF ReadCert
<1> QED
  BY <1>3, <1>4

LEMMA ReadKeyStep ==
  ASSUME IInv, NEW p \in Pods, ReadKey(p)
  PROVE  IInv'
<1> USE DEF conf, bounds, world
<1> DEFINE ca == proc[p].ca
           r == [proc[p] EXCEPT !.loaded = proc[p].loaded \cup {ca}, !.left = Tail(proc[p].left)]
<1>1. At(p, "readKey")
  BY DEF ReadKey
<1>2. /\ proc[p] \in Containers /\ proc[p].left \in Seq(Words) /\ Past(p) /\ Shape
      /\ Tail(proc[p].left) \in Seq(Words) /\ mode \in {"node", "sidecar"}
  BY <1>1, AtStep
<1>3. CASE ~IsPair(ca, file["key"])
  <2>1. Exits(p) /\ faults' \in 0..MaxFaults
    BY <1>2, <1>3 DEF ReadKey, Shape
  <2> QED
    BY <1>2, <2>1, Ends DEF ReadKey
<1>4. CASE IsPair(ca, file["key"])
  <2>1. proc \in [Pods -> Containers] /\ ca \in 1..MaxCA
    BY <1>2, <1>4, BootAssumption DEF Shape, Containers, IsPair, Torn
  <2>2. r \in Containers
    BY <1>2, <2>1 DEF Containers
  <2>3. proc' = [proc EXCEPT ![p] = r] /\ proc' \in [Pods -> Containers] /\ proc'[p] = r /\ Only(p)
    BY <1>4, <2>1, <2>2 DEF ReadKey, Only
  <2>4. /\ r.pc = proc[p].pc /\ r.left = Tail(proc[p].left)
        /\ r.loaded = proc[p].loaded \cup {ca}
    BY <1>2 DEF Containers
  <2>5. Shape'
    BY <1>2, <1>4, <2>3 DEF Shape, ReadKey
  <2>6. Does(p, "readKey")
    BY <1>4, <2>3, <2>4 DEF Does, ReadKey
  <2> QED
    BY <1>1, <1>4, <2>3, <2>4, <2>5, <2>6, Advances DEF ReadKey
<1> QED
  BY <1>3, <1>4

LEMMA AdvanceIs ==
  ASSUME IInv, NEW p \in Pods, NEW x, At(p, x), Advance(p)
  PROVE  /\ proc' \in [Pods -> Containers] /\ Only(p)
         /\ proc'[p].pc = proc[p].pc /\ proc'[p].left = Tail(proc[p].left)
         /\ proc'[p].loaded = proc[p].loaded
<1> DEFINE r == [proc[p] EXCEPT !.left = Tail(proc[p].left)]
<1>1. /\ proc[p] \in Containers /\ Tail(proc[p].left) \in Seq(Words)
      /\ proc \in [Pods -> Containers]
  BY AtStep DEF Shape
<1>2. r \in Containers /\ r.pc = proc[p].pc /\ r.left = Tail(proc[p].left) /\ r.loaded = proc[p].loaded
  BY <1>1 DEF Containers
<1>3. proc' = [proc EXCEPT ![p] = r]
  BY DEF Advance
<1> HIDE DEF r
<1> QED
  BY <1>1, <1>2, <1>3 DEF Only

LEMMA UnlinkStep ==
  ASSUME IInv, NEW p \in Pods, Unlink(p)
  PROVE  IInv'
<1> USE DEF conf, bounds
<1>1. At(p, "unlink") /\ Advance(p) /\ Shape
  BY DEF Unlink, IInv
<1>2. /\ proc' \in [Pods -> Containers] /\ Only(p)
      /\ proc'[p].pc = proc[p].pc /\ proc'[p].left = Tail(proc[p].left)
      /\ proc'[p].loaded = proc[p].loaded
  BY <1>1, AdvanceIs
<1>3. Shape'
  BY <1>1, <1>2 DEF Shape, Unlink
<1>4. Does(p, "unlink")
  BY <1>2 DEF Does
<1> QED
  BY <1>1, <1>2, <1>3, <1>4, Advances DEF Unlink

LEMMA ListenStep ==
  ASSUME IInv, NEW p \in Pods, Listen(p)
  PROVE  IInv'
<1> USE DEF conf, bounds
<1>1. At(p, "listen") /\ Shape
  BY DEF Listen, IInv
<1>2. CASE sock = Nobody
  <2>1. /\ proc' \in [Pods -> Containers] /\ Only(p)
        /\ proc'[p].pc = proc[p].pc /\ proc'[p].left = Tail(proc[p].left)
        /\ proc'[p].loaded = proc[p].loaded
    BY <1>1, <1>2, AdvanceIs DEF Listen
  <2>2. Shape'
    BY <1>1, <1>2, <2>1 DEF Shape, Listen
  <2>3. Does(p, "listen")
    BY <1>2, <2>1 DEF Does, Listen
  <2> QED
    BY <1>1, <2>1, <2>2, <2>3, Advances DEF Listen
<1>3. CASE sock # Nobody
  <2>1. Past(p) /\ Exits(p) /\ faults' \in 0..MaxFaults
    BY <1>1, <1>3, AtStep DEF Listen, Shape
  <2> QED
    BY <2>1, Ends DEF Listen
<1> QED
  BY <1>2, <1>3

LEMMA ChmodStep ==
  ASSUME IInv, NEW p \in Pods, Chmod(p)
  PROVE  IInv'
<1> USE DEF conf, bounds
<1>1. At(p, "chmod") /\ Shape
  BY DEF Chmod, IInv
<1>2. CASE sock # Nobody
  <2>1. /\ proc' \in [Pods -> Containers] /\ Only(p)
        /\ proc'[p].pc = proc[p].pc /\ proc'[p].left = Tail(proc[p].left)
        /\ proc'[p].loaded = proc[p].loaded
    BY <1>1, <1>2, AdvanceIs DEF Chmod
  <2>2. Shape'
    BY <1>1, <1>2, <2>1 DEF Shape, Chmod
  <2>3. Does(p, "chmod")
    BY <1>2, <2>1 DEF Does, Chmod
  <2> QED
    BY <1>1, <2>1, <2>2, <2>3, Advances DEF Chmod
<1>3. CASE sock = Nobody
  <2>1. Past(p) /\ Exits(p) /\ faults' \in 0..MaxFaults
    BY <1>1, <1>3, AtStep DEF Chmod, Shape
  <2> QED
    BY <2>1, Ends DEF Chmod
<1> QED
  BY <1>2, <1>3

LEMMA StartDNSStep ==
  ASSUME IInv, NEW p \in Pods, StartDNS(p)
  PROVE  IInv'
<1> USE DEF conf, bounds
<1> DEFINE r == [proc[p] EXCEPT !.left = Tail(proc[p].left), !.bind = TRUE]
<1>1. At(p, "dns")
  BY DEF StartDNS
<1>2. /\ proc[p] \in Containers /\ Tail(proc[p].left) \in Seq(Words) /\ Past(p) /\ Shape
      /\ proc \in [Pods -> Containers]
  BY <1>1, AtStep DEF Shape
<1>3. CASE port["dns"] = Nobody
  <2>1. r \in Containers /\ r.pc = proc[p].pc /\ r.left = Tail(proc[p].left) /\ r.loaded = proc[p].loaded
    BY <1>2 DEF Containers
  <2>2. proc' = [proc EXCEPT ![p] = r]
    BY <1>3 DEF StartDNS
  <2> HIDE DEF r
  <2>3. proc' \in [Pods -> Containers] /\ proc'[p] = r /\ Only(p)
    BY <1>2, <2>1, <2>2 DEF Only
  <2>4. Shape'
    BY <1>2, <1>3, <2>3 DEF Shape, StartDNS
  <2>5. Does(p, "dns")
    BY <1>3, <2>1, <2>3 DEF Does, StartDNS
  <2> QED
    BY <1>1, <2>1, <2>3, <2>4, <2>5, Advances DEF StartDNS
<1>4. CASE port["dns"] # Nobody
  <2>1. Exits(p) /\ faults' \in 0..MaxFaults
    BY <1>2, <1>4 DEF StartDNS, Shape
  <2> QED
    BY <1>2, <2>1, Ends DEF StartDNS
<1> QED
  BY <1>3, <1>4

\* The listener is bound beside the steps of Run.
LEMMA ServeStep ==
  ASSUME IInv, NEW p \in Pods, ListenAndServe(p)
  PROVE  IInv'
<1> USE DEF conf, bounds
<1> DEFINE r == [proc[p] EXCEPT !.bind = FALSE]
<1>1. /\ proc[p] \in Containers /\ Past(p) /\ p \in Present /\ Shape /\ Pod(p)
      /\ proc \in [Pods -> Containers] /\ proc[p].pc \in {"run", "stop"}
  BY DEF IInv, Shape, Pod, Past, Present, ListenAndServe
<1>2. CASE port["http"] = Nobody \/ proc[p].pc = "stop"
  <2>1. /\ r \in Containers /\ r.pc = proc[p].pc /\ r.left = proc[p].left
        /\ r.loaded = proc[p].loaded /\ r.ca = proc[p].ca
    BY <1>1 DEF Containers
  <2>2. proc' = [proc EXCEPT ![p] = r]
    BY <1>2 DEF ListenAndServe
  <2> HIDE DEF r
  <2>3. proc' \in [Pods -> Containers] /\ proc'[p] = r /\ Only(p)
    BY <1>1, <2>1, <2>2 DEF Only
  <2>4. Shape'
    BY <1>1, <1>2, <2>3 DEF Shape, ListenAndServe
  <2>5. proc[p].pc = "run" => Running(p)'
    BY <1>1, <1>2, <2>1, <2>3 DEF Pod, Running, ListenAndServe
  <2>6. Pod(p)'
    BY <1>1, <1>2, <2>1, <2>3, <2>5 DEF Pod, Past, NeedsCA, ListenAndServe
  <2> QED
    BY <1>1, <2>1, <2>3, <2>4, <2>6, Quiet DEF ListenAndServe
<1>3. CASE ~(port["http"] = Nobody \/ proc[p].pc = "stop")
  <2>1. Exits(p) /\ faults' \in 0..MaxFaults
    BY <1>1, <1>3 DEF ListenAndServe, Shape
  <2> QED
    BY <1>1, <2>1, Ends DEF ListenAndServe
<1> QED
  BY <1>2, <1>3

LEMMA ShutdownStep ==
  ASSUME IInv, NEW p \in Pods, Shutdown(p)
  PROVE  IInv'
<1> USE DEF conf, bounds
<1> DEFINE left == (IF mode = "node" THEN <<"unlink">> ELSE <<>>) \o <<"stopDNS", "stopHTTP">>
           r == [proc[p] EXCEPT !.pc = "stop", !.left = left]
<1>1. /\ proc[p] \in Containers /\ Past(p) /\ p \in Present /\ Shape /\ Pod(p)
      /\ proc \in [Pods -> Containers]
  BY DEF IInv, Shape, Past, Present, Shutdown
<1>2. left \in Seq(Words)
  <2>1. <<"unlink">> \in Seq(Words) /\ <<>> \in Seq(Words) /\ <<"stopDNS", "stopHTTP">> \in Seq(Words)
    BY DEF Words
  <2> QED
    BY <2>1
<1>3. proc' = [proc EXCEPT ![p] = r]
  BY DEF Shutdown
<1> HIDE DEF left
<1>4. r \in Containers /\ r.pc = "stop"
  BY <1>1, <1>2 DEF Containers
<1> HIDE DEF r
<1>5. proc' \in [Pods -> Containers] /\ proc'[p] = r /\ Only(p)
  BY <1>1, <1>3, <1>4 DEF Only
<1>6. Shape'
  BY <1>1, <1>5 DEF Shape, Shutdown
<1>7. Pod(p)'
  BY <1>1, <1>4, <1>5 DEF Pod, Past, NeedsCA, Shutdown
<1> QED
  BY <1>1, <1>4, <1>5, <1>6, <1>7, Quiet DEF Shutdown

LEMMA StopDNSStep ==
  ASSUME IInv, NEW p \in Pods, StopDNS(p)
  PROVE  IInv'
<1> USE DEF conf, bounds
<1>1. At(p, "stopDNS") /\ Advance(p) /\ Shape
  BY DEF StopDNS, IInv
<1>2. /\ proc' \in [Pods -> Containers] /\ Only(p)
      /\ proc'[p].pc = proc[p].pc /\ proc'[p].left = Tail(proc[p].left)
      /\ proc'[p].loaded = proc[p].loaded
  BY <1>1, AdvanceIs
<1>3. Shape'
  BY <1>1, <1>2 DEF Shape, StopDNS
<1>4. Does(p, "stopDNS")
  BY <1>2 DEF Does, StopDNS
<1> QED
  BY <1>1, <1>2, <1>3, <1>4, Advances DEF StopDNS

LEMMA EndStep ==
  ASSUME IInv, NEW p \in Pods, StopHTTP(p) \/ Crash(p)
  PROVE  IInv'
<1>1. CASE StopHTTP(p)
  <2>1. Past(p) /\ Exits(p) /\ faults' \in 0..MaxFaults
    BY <1>1, AtStep DEF StopHTTP, bounds, IInv, Shape
  <2> QED
    BY <1>1, <2>1, Ends DEF StopHTTP, bounds
<1>2. CASE Crash(p)
  <2>1. Past(p) /\ Exits(p) /\ faults' \in 0..MaxFaults
    BY <1>2, BootAssumption DEF Crash, Past, IInv, Shape
  <2> QED
    BY <1>2, <2>1, Ends DEF Crash
<1> QED
  BY <1>1, <1>2

-----------------------------------------------------------------------------
(* Kubernetes.                                                             *)

\* A pod beside another finds both files in place.
LEMMA CreateStep ==
  ASSUME IInv, NEW p \in Pods, Create(p)
  PROVE  IInv'
<1> USE DEF conf, world
<1> DEFINE r == [proc[p] EXCEPT !.pc = "init"]
<1>1. /\ Shape /\ Pod(p) /\ proc[p] \in Containers /\ proc \in [Pods -> Containers]
      /\ proc[p].pc = "gone" /\ mode \in {"node", "sidecar"}
  BY DEF IInv, Shape, Create, Present
<1>2. r \in Containers /\ r.pc = "init" /\ r.loaded = {} /\ ~r.bind
  BY <1>1 DEF Containers, Pod
<1>3. proc' = [proc EXCEPT ![p] = r]
  BY DEF Create
<1> HIDE DEF r
<1>4. proc' \in [Pods -> Containers] /\ proc'[p] = r /\ Only(p)
  BY <1>1, <1>2, <1>3 DEF Only
<1>5. rollouts' \in 0..MaxRollouts
  BY <1>1, BootAssumption DEF Create, Shape
<1>6. Shape'
  BY <1>1, <1>4, <1>5 DEF Shape, Create
<1>7. Pod(p)'
  BY <1>2, <1>4 DEF Pod, Past
<1>8. \A q \in Pods : Pod(q)'
  BY <1>4, <1>7, OthersKeep DEF Create
<1>9. ASSUME NEW q \in Present
      PROVE  overlap /\ ~NeedsCA /\ proc[q].pc # "write"
  <2>1. overlap
    BY <1>9 DEF Create
  <2>2. PICK o \in Present : proc[o].pc \notin {"init", "write"}
    BY <1>9 DEF Create
  <2>3. o \in Pods /\ Past(o) /\ Pod(o)
    BY <1>1, <2>2 DEF Present, Past, IInv, Containers
  <2>4. ~NeedsCA
    BY <1>1, <2>1, <2>3 DEF Pod, Shape
  <2>5. proc[q].pc # "write"
    BY <1>9, <2>2 DEF IInv, Alone
  <2> QED
    BY <2>1, <2>4, <2>5
<1>10. Alone'
  <2> SUFFICES ASSUME NEW a \in Present', NEW b \in Present', a # b
               PROVE  (overlap /\ ~NeedsCA /\ proc[a].pc # "write")'
    BY DEF Alone
  <2>1. overlap' = overlap /\ NeedsCA' = NeedsCA
    BY DEF Create, NeedsCA
  <2>2. a = p \/ a \in Present
    BY <1>4 DEF Present, Only
  <2>3. b = p \/ b \in Present
    BY <1>4 DEF Present, Only
  <2>4. overlap /\ ~NeedsCA
    BY <1>9, <2>2, <2>3
  <2>5. proc'[a].pc # "write"
    BY <1>2, <1>4, <1>9, <2>2 DEF Present, Only
  <2> QED
    BY <2>1, <2>4, <2>5
<1>11. KeyLast'
  BY <1>2, <1>4 DEF IInv, KeyLast, Only, Create
<1> QED
  BY <1>6, <1>8, <1>10, <1>11 DEF IInv

LEMMA DeleteStep ==
  ASSUME IInv, NEW p \in Pods, Delete(p)
  PROVE  IInv'
<1> USE DEF conf, world
<1> DEFINE r == [proc[p] EXCEPT !.term = TRUE]
<1>1. /\ Shape /\ Pod(p) /\ proc[p] \in Containers /\ proc \in [Pods -> Containers]
      /\ p \in Present
  BY DEF IInv, Shape, Delete
<1>2. /\ r \in Containers /\ r.pc = proc[p].pc /\ r.loaded = proc[p].loaded /\ r.bind = proc[p].bind
      /\ r.left = proc[p].left /\ r.ca = proc[p].ca /\ r.open = proc[p].open
  BY <1>1 DEF Containers
<1>3. proc' = [proc EXCEPT ![p] = r]
  BY DEF Delete
<1> HIDE DEF r
<1>4. proc' \in [Pods -> Containers] /\ proc'[p] = r /\ Only(p)
  BY <1>1, <1>2, <1>3 DEF Only
<1>5. rollouts' \in 0..MaxRollouts
  BY <1>1, BootAssumption DEF Delete, Shape
<1>6. Shape'
  BY <1>1, <1>4, <1>5 DEF Shape, Delete
<1>7. Writing(p) = Writing(p)' /\ Running(p) = Running(p)'
  BY <1>2, <1>4 DEF Writing, Running, Delete
<1>8. Pod(p)'
  BY <1>1, <1>2, <1>4, <1>7 DEF Pod, Past, NeedsCA, Delete
<1>9. \A q \in Pods : Pod(q)'
  BY <1>4, <1>8, OthersKeep DEF Delete
<1>10. Alone'
  BY <1>1, <1>2, <1>4 DEF IInv, Alone, Present, NeedsCA, Only, Delete
<1>11. KeyLast'
  BY <1>2, <1>4 DEF IInv, KeyLast, Only, Delete
<1> QED
  BY <1>6, <1>9, <1>10, <1>11 DEF IInv

-----------------------------------------------------------------------------
(* The invariant, and what it gives.                                       *)

LEMMA BootInit ==
  ASSUME Init
  PROVE  IInv
<1>1. MaxCA \in Nat /\ 1 \in Torn..MaxCA /\ Missing \in Torn..MaxCA /\ 1 \in 0..MaxCA
  BY BootAssumption DEF Torn, Missing
<1>2. file \in [Names -> Torn..MaxCA] /\ file["key"] \in {Missing, 1}
  BY <1>1 DEF Init, Names
<1>3. proc \in [Pods -> Containers] /\ \A p \in Pods : proc[p] = Gone
  BY GoneIs DEF Init
<1>a. 0 \in 0..MaxFaults /\ 0 \in 0..MaxRollouts
  BY BootAssumption
<1>4. Shape
  BY <1>1, <1>2, <1>3, <1>a DEF Shape, Init
<1>b. Gone.pc = "gone" /\ Gone.loaded = {} /\ ~Gone.bind
  BY DEF Gone
<1>5. \A p \in Pods : Pod(p)
  BY <1>3, <1>b DEF Pod, Past
<1>6. Alone
  BY <1>3 DEF Alone, Present, Gone
<1> QED
  BY <1>2, <1>4, <1>5, <1>6 DEF IInv, KeyLast

LEMMA BootStep ==
  ASSUME IInv, [Next]_vars
  PROVE  IInv'
<1>1. CASE UNCHANGED vars
  BY <1>1 DEF vars, conf, world, bounds, IInv, Shape, Alone, Present, NeedsCA, Pod, Past, Writing, Running,
     KeyLast
<1>2. ASSUME NEW p \in Pods,
             Step(p) \/ InitFails(p) \/ Crash(p) \/ Create(p) \/ Delete(p)
      PROVE  IInv'
  <2>1. CASE generateCA(p) \/ initNode(p) \/ OpenFile(p) \/ WriteFile(p) \/ InitDone(p) \/ InitFails(p)
    BY <2>1, GenerateStep, InitNodeStep, OpenStep, WriteStep, InitDoneStep, InitFailsStep
  <2>2. CASE Run(p) \/ ReadCert(p) \/ ReadKey(p) \/ Unlink(p) \/ Listen(p) \/ Chmod(p)
    BY <2>2, RunStep, ReadCertStep, ReadKeyStep, UnlinkStep, ListenStep, ChmodStep
  <2>3. CASE StartDNS(p) \/ ListenAndServe(p) \/ Shutdown(p) \/ StopDNS(p) \/ StopHTTP(p)
    BY <2>3, StartDNSStep, ServeStep, ShutdownStep, StopDNSStep, EndStep
  <2>4. CASE Crash(p) \/ Create(p) \/ Delete(p)
    BY <2>4, EndStep, CreateStep, DeleteStep
  <2> QED
    BY <1>2, <2>1, <2>2, <2>3, <2>4 DEF Step
<1> QED
  BY <1>1, <1>2 DEF Next

LEMMA BootInvariance == Spec => []IInv
<1>1. Init => IInv
  BY BootInit
<1>2. IInv /\ [Next]_vars => IInv'
  BY BootStep
<1> QED
  BY <1>1, <1>2, PTL DEF Spec

\* A proxy that serves is at the last step.
LEMMA AtTheEnd ==
  ASSUME IInv, NEW p \in Pods, Serves(p)
  PROVE  Running(p) /\ Pod(p) /\ Past(p) /\ Len(proc[p].left) = 1 /\ mode \in {"node", "sidecar"}
<1>1. /\ Running(p) /\ Pod(p) /\ Past(p) /\ mode \in {"node", "sidecar"}
      /\ Len(proc[p].left) \in 1..9 /\ (mode = "sidecar" => Len(proc[p].left) \in 1..6)
      /\ RunWord(mode, Len(proc[p].left)) = "serve"
  BY AtStep DEF Serves
<1> QED
  BY <1>1, WordAt

\* The values of the model's variables stay in their types.
THEOREM TypeCorrect == Spec => []TypeOK
<1>1. IInv => TypeOK
  BY DEF IInv, Shape, Containers, TypeOK
<1> QED
  BY <1>1, BootInvariance, PTL

\* However the containers of the pods fail, restart and are replaced, a proxy
\* that serves has loaded one CA, for its fallback and for its rules: the one
\* whose certificate the init container left for the workloads (initNode,
\* generateCA, and NewHTTPProxy in Run).
THEOREM SignsWithWhatIsTrusted == Spec => []SignsWithTrusted
<1>1. ASSUME IInv, NEW p \in Pods, Serves(p)
      PROVE  proc[p].loaded = {Trusted}
  <2>1. Running(p) /\ Pod(p) /\ Past(p) /\ Len(proc[p].left) = 1 /\ mode \in {"node", "sidecar"}
    BY <1>1, AtTheEnd
  <2>2. proc[p].loaded = {file["cert"]}
    BY <2>1 DEF Running
  <2> QED
    BY <2>1, <2>2 DEF Pod, Trusted
<1>2. IInv => SignsWithTrusted
  BY <1>1 DEF SignsWithTrusted
<1> QED
  BY <1>2, BootInvariance, PTL

\* Where pods follow one another, a proxy that serves listens on the admin
\* socket: Run removes what it finds at the path before it listens, and nobody
\* takes the path from it until it ends.
THEOREM OwnsItsSocket == Spec => []SocketOwned
<1>1. ASSUME IInv, NEW p \in Pods, Serves(p), mode = "node", ~overlap
      PROVE  sock = p
  <2>1. Running(p) /\ Len(proc[p].left) = 1
    BY <1>1, AtTheEnd
  <2> QED
    BY <1>1, <2>1 DEF Running
<1>2. IInv => SocketOwned
  BY <1>1 DEF SocketOwned
<1> QED
  BY <1>2, BootInvariance, PTL

\* initNode leaves files it will not replace, and that are not a pair, only
\* when it failed while it wrote the key, or beside a key it did not write.
THEOREM StuckOnlyAtTheKey == Spec => []RecoversBeforeKey
<1>1. IInv => RecoversBeforeKey
  BY DEF IInv, KeyLast, RecoversBeforeKey, Stuck
<1> QED
  BY <1>1, BootInvariance, PTL
=============================================================================
