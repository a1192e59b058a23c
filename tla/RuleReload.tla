----------------------------- MODULE RuleReload -----------------------------
(***************************************************************************)
(* Loading the routing table (pkg/portals: Run, loadRules): once before    *)
(* the proxy serves, and again for each SIGHUP the signal channel, which   *)
(* holds one, delivers.  loadRules lists the rules directory, reads the    *)
(* files one by one in name order while they may be edited, and swaps the  *)
(* table in only if every document was good.  Until signal.Notify a SIGHUP *)
(* has its default action.                                                 *)
(*                                                                         *)
(* A file is Absent, Bad (unreadable, or with a document that does not     *)
(* parse) or a partial table: the rule it gives to each host.              *)
(***************************************************************************)
EXTENDS Naturals, FiniteSets

CONSTANTS
  NFiles,    \* files are 1..NFiles, in name order
  Hosts,
  Contents,  \* good contents: functions from Hosts to rules or NoRule
  Absent, Bad, NoRule,
  MaxEdits   \* bound: edits of the directory

Files == 1..NFiles

ASSUME ReloadAssumption ==
  /\ NFiles \in Nat /\ MaxEdits \in Nat
  /\ \A c \in Contents : DOMAIN c = Hosts
  /\ Absent \notin Contents /\ Bad \notin Contents /\ Absent # Bad

VARIABLES
  dir,      \* the rules directory
  proc,     \* "starting" | "loaded" | "running" | "exited"
  pending,  \* whether the channel holds a signal
  scan,     \* the loadRules call in progress
  routes,   \* rr.routes
  edits,    \* how often the directory was edited
  told,     \* history: a SIGHUP was sent after the last edit
  steady    \* history: the files not edited since the scan began

reloadVars == <<dir, proc, pending, scan, routes, edits, told, steady>>

Empty == [h \in Hosts |-> NoRule]

NoScan == [left |-> {}, new |-> Empty, errs |-> FALSE, on |-> FALSE]

ReloadTypeOK ==
  /\ dir \in [Files -> Contents \cup {Absent, Bad}]
  /\ proc \in {"starting", "loaded", "running", "exited"}
  /\ pending \in BOOLEAN /\ told \in BOOLEAN /\ steady \subseteq Files
  /\ DOMAIN routes = Hosts /\ DOMAIN scan.new = Hosts
  /\ scan.left \subseteq Files /\ {scan.errs, scan.on} \subseteq BOOLEAN
  /\ edits \in 0..MaxEdits

ReloadInit ==
  /\ dir \in [Files -> Contents \cup {Absent, Bad}]
  /\ proc = "starting" /\ pending = FALSE
  /\ scan = NoScan /\ routes = Empty
  /\ edits = 0 /\ told = TRUE /\ steady = Files

-----------------------------------------------------------------------------
(* The operator.                                                           *)

Edit(f, content) ==
  /\ edits < MaxEdits /\ dir[f] # content
  /\ dir' = [dir EXCEPT ![f] = content]
  /\ edits' = edits + 1 /\ told' = FALSE /\ steady' = steady \ {f}
  /\ UNCHANGED <<proc, pending, scan, routes>>

\* Mutant: the channel has no buffer, a signal during a reload is lost.
SighupUnbuffered ==
  /\ proc # "exited" /\ told' = TRUE
  /\ IF proc = "running"
     THEN pending' = (pending \/ ~scan.on) /\ UNCHANGED proc
     ELSE proc' = "exited" /\ UNCHANGED pending
  /\ UNCHANGED <<dir, scan, routes, edits, steady>>

\* Delivered to the channel, dropped if it is full.
Sighup ==
  /\ proc # "exited" /\ told' = TRUE
  /\ IF proc = "running"
     THEN pending' = TRUE /\ UNCHANGED proc
     ELSE proc' = "exited" /\ UNCHANGED pending
  /\ UNCHANGED <<dir, scan, routes, edits, steady>>

-----------------------------------------------------------------------------
(* The loading goroutine.                                                  *)

\* WalkDir lists the directory once.
Begin ==
  /\ ~scan.on
  /\ \/ proc = "starting" /\ UNCHANGED pending
     \/ proc = "running" /\ pending /\ pending' = FALSE
  /\ scan' = [NoScan EXCEPT !.on = TRUE, !.left = {f \in Files : dir[f] # Absent}]
  /\ steady' = Files
  /\ UNCHANGED <<dir, proc, routes, edits, told>>

First(S) == CHOOSE f \in S : \A g \in S : f <= g

\* A later file's rule for a host replaces an earlier one's.
Merge(table, content) ==
  [h \in Hosts |-> IF content[h] # NoRule THEN content[h] ELSE table[h]]

\* Mutant: keeps the good documents after an error, and goes on.
ReadFileSkips ==
  /\ proc # "exited" /\ scan.on /\ scan.left # {}
  /\ LET f == First(scan.left) IN
       scan' = [scan EXCEPT !.left = @ \ {f},
                            !.new = IF dir[f] \in {Absent, Bad} THEN @ ELSE Merge(@, dir[f])]
  /\ UNCHANGED <<dir, proc, pending, routes, edits, told, steady>>

ReadFile ==
  /\ proc # "exited" /\ scan.on /\ scan.left # {}
  /\ LET f == First(scan.left)
         failed == dir[f] \in {Absent, Bad}
     IN  scan' = [scan EXCEPT !.left = @ \ {f}, !.errs = @ \/ failed,
                              !.new = IF failed THEN @ ELSE Merge(@, dir[f])]
  /\ UNCHANGED <<dir, proc, pending, routes, edits, told, steady>>

\* With errors a reload keeps the old table, and the first load ends Run.
FinishLoad ==
  /\ proc # "exited" /\ scan.on /\ scan.left = {}
  /\ routes' = IF scan.errs THEN routes ELSE scan.new
  /\ proc' = IF proc # "starting" THEN proc
             ELSE IF scan.errs THEN "exited" ELSE "loaded"
  /\ scan' = NoScan
  /\ UNCHANGED <<dir, pending, edits, told, steady>>

Notify ==
  /\ proc = "loaded" /\ proc' = "running"
  /\ UNCHANGED <<dir, pending, scan, routes, edits, told, steady>>

Load == Begin \/ ReadFile \/ FinishLoad \/ Notify

ReloadNext ==
  \/ \E f \in Files, c \in Contents \cup {Absent, Bad} : Edit(f, c)
  \/ Sighup \/ Load

\* The goroutine keeps running; nobody has to edit or to signal.
ReloadSpec == ReloadInit /\ [][ReloadNext]_reloadVars /\ WF_reloadVars(Load)

-----------------------------------------------------------------------------
(* Properties.                                                             *)

Table(d) ==
  LET upTo[n \in 0..NFiles] ==
        IF n = 0 THEN Empty
        ELSE IF d[n] \in {Absent, Bad} THEN upTo[n - 1]
        ELSE Merge(upTo[n - 1], d[n])
  IN  upTo[NFiles]

\* A table is swapped in only from a scan in which no file was bad, and it
\* routes every host of every file that was not edited meanwhile.
AllOrNothing ==
  [][routes' # routes =>
       \A f \in steady : /\ dir[f] # Bad
                         /\ dir[f] # Absent =>
                              \A h \in Hosts : dir[f][h] # NoRule => routes'[h] # NoRule]_reloadVars

\* However signals are coalesced and edits race with the reads, once the last
\* edit was followed by a SIGHUP and the directory is good, the proxy ends up
\* with exactly its rules.
ReloadConverges ==
  <>[](proc = "running" /\ told /\ (\A f \in Files : dir[f] # Bad)
         => routes = Table(dir))
=============================================================================
