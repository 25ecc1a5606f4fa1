------------------------------ MODULE PmServer ------------------------------
(***************************************************************************)
(* The process manager server (src/user/pm-server) and the kernel calls it *)
(* makes (src/src/syscall/pm.rs).  It keeps a process table of its own,    *)
(* beside the kernel's, from the requests processes send it; a request and *)
(* its reply are a blocking send and receive, so a process has at most one *)
(* request outstanding and the server is answered by a process that waits. *)
(***************************************************************************)
EXTENDS Integers, Sequences, FiniteSets, SequencesExt

CONSTANTS
  MaxPid,    \* pids the kernel hands out, above Init and the server
  Spawned,   \* processes the kernel made without the server
  MaxKills

Init1  == 1
Server == 2

VARIABLES
  tbl,       \* PM_TABLE: pid -> Process
  kproc,     \* the kernel's process table: pid -> "run", "zombie"
  nextPid,
  asks,      \* the requests sent and not received yet, oldest first
  client,    \* what each process is doing: "run", "wait" (for a reply), "end"
  kills,     \* how many processes were killed from outside
  told       \* the exits reported so far: <<parent, child>>

pmVars == <<tbl, kproc, nextPid, asks, client, kills, told>>

PmEntry(ppid) == [ppid |-> ppid, zombie |-> FALSE, children |-> <<>>, waiting |-> FALSE, target |-> 0]

\* What main registers.
PmInit ==
  /\ tbl = (Init1 :> PmEntry(0)) @@ (Server :> PmEntry(0))
  /\ kproc = [p \in {Init1} \cup Spawned |-> "run"]
  /\ client = [p \in {Init1} \cup Spawned |-> "run"]
  /\ nextPid = Cardinality(Spawned) + 3 /\ asks = <<>> /\ kills = 0 /\ told = {}

Runs(p) == p \in DOMAIN client /\ client[p] = "run"

-----------------------------------------------------------------------------
(* The processes *)

\* msg_sendrec of a request to the server; an exit is sent without waiting
\* for a reply, and the process then ends in the kernel.
Asks(p, op, target, nohang) ==
  /\ Runs(p)
  /\ asks' = Append(asks, [from |-> p, op |-> op, target |-> target, nohang |-> nohang])
  /\ client' = [client EXCEPT ![p] = IF op = "exit" THEN "exiting" ELSE "wait"]
  /\ UNCHANGED <<tbl, kproc, nextPid, kills, told>>

KernelExit(p) ==
  /\ p \in DOMAIN client /\ client[p] = "exiting"
  /\ client' = [client EXCEPT ![p] = "end"]
  /\ kproc' = IF p \in DOMAIN kproc THEN [kproc EXCEPT ![p] = "zombie"] ELSE kproc
  /\ UNCHANGED <<tbl, nextPid, asks, kills, told>>

\* A process killed from outside: the server is not told, and what the process
\* has sent is still received.
Killed(p) ==
  /\ p # Init1 /\ p \in DOMAIN client /\ client[p] \in {"run", "wait"} /\ kills < MaxKills
  /\ client' = [client EXCEPT ![p] = "end"]
  /\ kproc' = [kproc EXCEPT ![p] = "zombie"]
  /\ kills' = kills + 1
  /\ UNCHANGED <<tbl, nextPid, asks, told>>

-----------------------------------------------------------------------------
(* The server *)

\* ensure_process_exists: an unknown process is a child of init.
Known(t, p) ==
  IF p \in DOMAIN t THEN t
  ELSE (p :> PmEntry(Init1)) @@ [t EXCEPT ![Init1].children = Append(@, p)]

PmWithout(t, p) ==
  LET rest == [q \in DOMAIN t \ {p} |-> t[q]]
  IN IF t[p].ppid \in DOMAIN rest
     THEN [rest EXCEPT ![t[p].ppid].children = SelectSeq(@, LAMBDA c : c # p)] ELSE rest

\* sys_reap_process: only a zombie leaves the kernel's table.
KernelReap(p) ==
  kproc' = IF p \in DOMAIN kproc /\ kproc[p] = "zombie" THEN [q \in DOMAIN kproc \ {p} |-> kproc[q]] ELSE kproc

\* The reply wakes the process, if it is still there.
Replied(p) == IF client[p] = "wait" THEN [client EXCEPT ![p] = "run"] ELSE client

\* handle_fork, with sys_clone_process.
HandleFork(a) ==
  LET t == Known(tbl, a.from)
      child == nextPid
  IN /\ a.op = "fork"
     /\ IF child <= MaxPid
        THEN /\ tbl' = (child :> PmEntry(a.from)) @@ [t EXCEPT ![a.from].children = Append(@, child)]
             /\ kproc' = (child :> "run") @@ kproc
             /\ client' = (child :> "run") @@ Replied(a.from)
             /\ nextPid' = child + 1
        ELSE tbl' = t /\ client' = Replied(a.from) /\ UNCHANGED <<kproc, nextPid>>
     /\ UNCHANGED told

Wanted(target, c) == target = -1 \/ target = c

\* handle_waitpid: the first matching zombie in the order of the list.
HandleWaitpid(a) ==
  LET t == Known(tbl, a.from)
      zs == SelectSeq(t[a.from].children, LAMBDA c : Wanted(a.target, c) /\ c \in DOMAIN t /\ t[c].zombie)
  IN /\ a.op = "wait"
     /\ IF zs # <<>>
        THEN /\ tbl' = PmWithout(t, Head(zs)) /\ KernelReap(Head(zs))
             /\ client' = Replied(a.from)
             /\ told' = told \cup {<<a.from, Head(zs)>>}
        ELSE /\ tbl' = IF a.nohang THEN t ELSE [t EXCEPT ![a.from].waiting = TRUE, ![a.from].target = a.target]
             /\ client' = IF a.nohang THEN Replied(a.from) ELSE client
             /\ UNCHANGED <<kproc, told>>
     /\ UNCHANGED nextPid

\* Faulty variant: the orphans are not added to init's list.
AdoptAllUnlisted(t, p) ==
  [q \in DOMAIN t |-> IF q \in Range(t[p].children) THEN [t[q] EXCEPT !.ppid = Init1] ELSE t[q]]

\* Orphans get init as parent, and are added to its list.
AdoptAll(t, p) ==
  FoldLeft(LAMBDA u, c : [(IF c \in DOMAIN u THEN [u EXCEPT ![c].ppid = Init1] ELSE u)
                            EXCEPT ![Init1].children = Append(@, c)], t, t[p].children)

\* handle_exit: a zombie, its children reparented, a waiting parent answered.
HandleExit(a) ==
  LET t == AdoptAll([Known(tbl, a.from) EXCEPT ![a.from].zombie = TRUE], a.from)
      parent == t[a.from].ppid
  IN /\ a.op = "exit"
     /\ IF parent \in DOMAIN t /\ t[parent].waiting /\ Wanted(t[parent].target, a.from)
        THEN /\ tbl' = PmWithout([t EXCEPT ![parent].waiting = FALSE], a.from) /\ KernelReap(a.from)
             /\ client' = Replied(parent) /\ told' = told \cup {<<parent, a.from>>}
        ELSE tbl' = t /\ UNCHANGED <<kproc, client, told>>
     /\ UNCHANGED nextPid

PmHandles ==
  /\ asks # <<>> /\ asks' = Tail(asks)
  /\ HandleFork(Head(asks)) \/ HandleWaitpid(Head(asks)) \/ HandleExit(Head(asks))
  /\ UNCHANGED kills

\* Init waits for any child, and makes its processes through the kernel.
PmStep ==
  \/ \E p \in DOMAIN client :
       \/ p # Init1 /\ (Asks(p, "fork", 0, FALSE) \/ Asks(p, "exit", 0, FALSE))
       \/ \E nohang \in BOOLEAN : Asks(p, "wait", -1, nohang)
       \/ p \in DOMAIN tbl \ {Init1} /\ \E c \in Range(tbl[p].children) : Asks(p, "wait", c, FALSE)
       \/ KernelExit(p) \/ Killed(p)
  \/ PmHandles

-----------------------------------------------------------------------------
PmTypeOK ==
  /\ DOMAIN tbl \subseteq 1..MaxPid /\ DOMAIN kproc \subseteq 1..MaxPid
  /\ \A p \in DOMAIN tbl : tbl[p].ppid \in 0..MaxPid /\ Range(tbl[p].children) \subseteq 1..MaxPid
  /\ \A p \in DOMAIN client : client[p] \in {"run", "wait", "exiting", "end"}

\* Every process of the table is in the list of its parent, and its parent is
\* in the table: no exit goes unreported because a parent was reaped before
\* its children (handle_fork, handle_exit, reap_process).
InParentsList ==
  \A p \in DOMAIN tbl \ {Init1, Server} :
    tbl[p].ppid \in DOMAIN tbl /\ p \in Range(tbl[tbl[p].ppid].children)

\* A process other than init that waits has no child it could be told about:
\* neither an exit before the request nor one after it is missed
\* (handle_waitpid and handle_exit).
NoExitOverlooked ==
  \A p \in DOMAIN tbl \ {Init1} :
    tbl[p].waiting => \A c \in Range(tbl[p].children) \cap DOMAIN tbl :
                        tbl[c].zombie /\ tbl[c].ppid = p => ~Wanted(tbl[p].target, c)

\* An exit is reported once, of a process that has asked to exit, and the
\* process is then forgotten: no later request finds it again (handle_waitpid,
\* handle_exit, ensure_process_exists).
ExitsReportedOnce ==
  /\ \A r, s \in told : r[2] = s[2] => r = s
  /\ \A r \in told : client[r[2]] \in {"exiting", "end"} /\ r[2] \notin DOMAIN tbl

\* A parent that waits is only answered about a child it asked for, and is not
\* left waiting once answered (handle_exit).
AnsweredAsAsked ==
  [][\A r \in told' \ told :
       /\ r[1] \in DOMAIN tbl /\ tbl[r[1]].waiting => Wanted(tbl[r[1]].target, r[2])
       /\ ~tbl'[r[1]].waiting]_pmVars
=============================================================================
