------------------------------ MODULE DiskCache ------------------------------
(***************************************************************************)
(* The disk cache, pkg/cache: Get, Set and Delete by concurrent clients,   *)
(* the janitor, and the goroutines Open leaves behind to remove a file it  *)
(* found expired.  Those take no lock.  Put writes a temporary file and    *)
(* renames it under the write lock; the process may crash in between, and  *)
(* what is on disk stays.                                                  *)
(*                                                                         *)
(* Time is a counter; a file's modification time is when it was put or     *)
(* last read.  The lock is held while an operation is past its first step. *)
(***************************************************************************)
EXTENDS Naturals, FiniteSets

CONSTANTS
  Callers, Keys, Values,
  NoFile,
  defaultTTL,  \* positive
  MaxTime,     \* bound: the clock
  MaxRemovers, \* bound: removing goroutines per key
  MaxCrashes   \* bound: crashes

ASSUME DiskAssumption ==
  /\ {defaultTTL, MaxTime, MaxRemovers, MaxCrashes} \subseteq Nat /\ defaultTTL > 0
  /\ NoFile \notin [val : Values, mtime : Nat] /\ NoFile \notin Values

VARIABLES
  files,     \* files[k]: the file of key k, or NoFile
  temps,     \* how many temporary files there are
  removing,  \* removing[k]: goroutines about to remove the file of k
  op,        \* op[c]: the operation of client c
  now,
  last,      \* history: the value last stored under k and not deleted
  crashes

diskVars == <<files, temps, removing, op, now, last, crashes>>

NoOp == [pc |-> "idle"]

DiskTypeOK ==
  /\ \A k \in Keys : files[k] # NoFile => files[k] \in [val : Values, mtime : 0..now]
  /\ temps \in Nat
  /\ removing \in [Keys -> 0..MaxRemovers]
  /\ \A c \in Callers : op[c].pc \in {"idle", "chtimes", "open", "rename"}
  /\ now \in 0..MaxTime /\ crashes \in 0..MaxCrashes
  /\ last \in [Keys -> Values \cup {NoFile}]

DiskInit ==
  /\ files = [k \in Keys |-> NoFile] /\ temps = 0
  /\ removing = [k \in Keys |-> 0]
  /\ op = [c \in Callers |-> NoOp]
  /\ now = 0 /\ crashes = 0
  /\ last = [k \in Keys |-> NoFile]

-----------------------------------------------------------------------------

ExpiredFile(k) == files[k] # NoFile /\ now - files[k].mtime > defaultTTL

NoWriter == \A c \in Callers : op[c].pc # "rename"
Unlocked == \A c \in Callers : op[c] = NoOp

\* Open: the file is looked at, and if expired left to a goroutine.
GetStat(c, k) ==
  /\ op[c] = NoOp /\ NoWriter /\ files[k] # NoFile
  /\ IF ExpiredFile(k)
     THEN /\ removing[k] < MaxRemovers
          /\ removing' = [removing EXCEPT ![k] = @ + 1] /\ UNCHANGED op
     ELSE op' = [op EXCEPT ![c] = [pc |-> "chtimes", key |-> k]] /\ UNCHANGED removing
  /\ UNCHANGED <<files, temps, now, last, crashes>>

GetChtimes(c) ==
  /\ op[c].pc = "chtimes"
  /\ LET k == op[c].key IN
       files' = IF files[k] = NoFile THEN files ELSE [files EXCEPT ![k].mtime = now]
  /\ op' = [op EXCEPT ![c].pc = "open"]
  /\ UNCHANGED <<temps, removing, now, last, crashes>>

\* A hit if the file is still there; what is read of it later cannot change.
GetOpen(c) ==
  /\ op[c].pc = "open"
  /\ op' = [op EXCEPT ![c] = NoOp]
  /\ UNCHANGED <<files, temps, removing, now, last, crashes>>

\* Mutant: writes the file in place, its old content is gone at once.
PutWriteInPlace(c, k, v) ==
  /\ Unlocked
  /\ op' = [op EXCEPT ![c] = [pc |-> "rename", key |-> k, val |-> v]]
  /\ temps' = temps + 1
  /\ files' = [files EXCEPT ![k] = [val |-> v, mtime |-> now]]
  /\ UNCHANGED <<removing, now, last, crashes>>

PutWrite(c, k, v) ==
  /\ Unlocked
  /\ op' = [op EXCEPT ![c] = [pc |-> "rename", key |-> k, val |-> v]]
  /\ temps' = temps + 1
  /\ UNCHANGED <<files, removing, now, last, crashes>>

PutRename(c) ==
  /\ op[c].pc = "rename"
  /\ files' = [files EXCEPT ![op[c].key] = [val |-> op[c].val, mtime |-> now]]
  /\ last' = [last EXCEPT ![op[c].key] = op[c].val]
  /\ temps' = temps - 1 /\ op' = [op EXCEPT ![c] = NoOp]
  /\ UNCHANGED <<removing, now, crashes>>

\* The copy fails: the temporary file is removed.
PutFail(c) ==
  /\ op[c].pc = "rename"
  /\ temps' = temps - 1 /\ op' = [op EXCEPT ![c] = NoOp]
  /\ UNCHANGED <<files, removing, now, last, crashes>>

Delete(k) ==
  /\ Unlocked /\ files[k] # NoFile
  /\ files' = [files EXCEPT ![k] = NoFile]
  /\ last' = [last EXCEPT ![k] = NoFile]
  /\ UNCHANGED <<temps, removing, op, now, crashes>>

\* The goroutine of GetStat, whatever the file is by now: also a fresh one.
RemoveExpired(k) ==
  /\ removing[k] > 0
  /\ removing' = [removing EXCEPT ![k] = @ - 1]
  /\ files' = [files EXCEPT ![k] = NoFile]
  /\ UNCHANGED <<temps, op, now, last, crashes>>

\* Mutant: one tick too patient.
JanitorLate ==
  /\ Unlocked
  /\ \E k \in Keys : ExpiredFile(k) /\ now - files[k].mtime > defaultTTL + 1
  /\ files' = [k \in Keys |-> IF ExpiredFile(k) THEN NoFile ELSE files[k]]
  /\ UNCHANGED <<temps, removing, op, now, last, crashes>>

\* Looks at the .cache files only.
Janitor ==
  /\ Unlocked
  /\ \E k \in Keys : ExpiredFile(k)
  /\ files' = [k \in Keys |-> IF ExpiredFile(k) THEN NoFile ELSE files[k]]
  /\ UNCHANGED <<temps, removing, op, now, last, crashes>>

DiskTick ==
  /\ now < MaxTime /\ now' = now + 1
  /\ UNCHANGED <<files, temps, removing, op, last, crashes>>

Crash ==
  /\ crashes < MaxCrashes /\ crashes' = crashes + 1
  /\ op' = [c \in Callers |-> NoOp]
  /\ removing' = [k \in Keys |-> 0]
  /\ UNCHANGED <<files, temps, now, last>>

DiskContinue(c) == GetChtimes(c) \/ GetOpen(c) \/ PutRename(c) \/ PutFail(c)

DiskNext ==
  \/ \E c \in Callers, k \in Keys : GetStat(c, k) \/ \E v \in Values : PutWrite(c, k, v)
  \/ \E c \in Callers : DiskContinue(c)
  \/ \E k \in Keys : Delete(k) \/ RemoveExpired(k)
  \/ Janitor \/ DiskTick \/ Crash

\* Operations go on, and sync.RWMutex lets a waiting janitor in.
DiskSpec ==
  /\ DiskInit /\ [][DiskNext]_diskVars
  /\ \A c \in Callers : WF_diskVars(DiskContinue(c))
  /\ SF_diskVars(Janitor)

-----------------------------------------------------------------------------
(* Properties.                                                             *)

\* A file holds the value that was last put under its key and not deleted,
\* also after a crash in the middle of a Put: never an older, a partial or a
\* deleted one.
HoldsLastPut == \A k \in Keys : files[k] # NoFile => files[k].val = last[k]

\* An expired file does not stay: the janitor gets the lock among readers and
\* writers, and takes it away.
ExpiredSwept == \A k \in Keys : ExpiredFile(k) ~> ~ExpiredFile(k)
=============================================================================
