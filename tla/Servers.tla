------------------------------- MODULE Servers ------------------------------
(***************************************************************************)
(* Servers that answer by message: the VFS server, which forwards requests *)
(* on /proc and /dev to procfs-server and devfs-server, those two, and the *)
(* component manager.  msg_send blocks until the receiver takes the        *)
(* message: a message waits in the receiver's line, and its sender with    *)
(* it.  What the kernel knows of processes is the set of live pids.        *)
(* Then init, which starts them.                                           *)
(***************************************************************************)
EXTENDS Integers, Sequences, FiniteSetsExt

CONSTANTS
  Clients, Names,  \* processes, and component names
  Pids,            \* processes that exist at first
  StatusLen,       \* length of a status text
  Questions        \* sets of requests, one a client, each made once

VARIABLES
  live,      \* processes that exist now
  up,        \* servers that have registered with the kernel
  line,      \* receiver -> messages whose senders wait, oldest first
  at,        \* server -> what it is doing
  registry,  \* of the component manager: name -> client, or nothing
  asked,     \* client -> its request and the state when it was made
  todo       \* client -> requests still to make

srvVars == <<live, up, line, at, registry, asked, todo>>

Backends == {"procfs", "devfs"}
SrvNames == Backends \cup {"vfs", "cm"}
Free  == [st |-> "receive", from |-> "none", req |-> <<>>, ans |-> <<>>]
Quiet == [st |-> "idle", req |-> <<>>, live |-> {}, up |-> {}, ans |-> <<>>]

\* A request names the receiver, the operation, and its arguments.
Request(to, op, arg, off) == [to |-> to, op |-> op, arg |-> arg, off |-> off]
SrvOk(n)  == [ok |-> TRUE, n |-> n]
SrvErr    == [ok |-> FALSE, n |-> 0]
Local  == [ok |-> FALSE, n |-> 1]   \* answered from the VFS server's own tree

\* Clients are not servers, and know whom to ask for what.
ASSUME ServersAssumption ==
  /\ Clients \cap SrvNames = {} /\ IsFiniteSet(Pids) /\ StatusLen \in Nat
  /\ \A q \in Questions :
       /\ DOMAIN q = Clients
       /\ \A c \in Clients : \A r \in q[c] :
            /\ \/ r.to = "vfs" /\ r.op \in {"proc_list", "proc_read", "proc_stat", "dev_list", "dev_read", "dev_stat"}
               \/ r.to = "cm" /\ r.op \in {"register", "lookup", "list", "unregister"}
            /\ r.off \in Nat

SrvInit ==
  /\ live = Pids /\ up = {} /\ registry = <<>>
  /\ line = [s \in SrvNames |-> <<>>] /\ at = [s \in SrvNames |-> Free]
  /\ asked = [c \in Clients |-> Quiet] /\ todo \in Questions

-----------------------------------------------------------------------------
(* Clients, and processes that exit *)

Ask(c, r) ==
  /\ r \in todo[c] /\ asked[c].st = "idle"
  /\ todo' = [todo EXCEPT ![c] = @ \ {r}]
  /\ asked' = [asked EXCEPT ![c] = [st |-> "waits", req |-> r, live |-> live, up |-> up, ans |-> <<>>]]
  /\ line' = [line EXCEPT ![r.to] = Append(@, [from |-> c, req |-> r])]
  /\ UNCHANGED <<live, up, at, registry>>

\* The client looks at its answer.
Continue(c) ==
  /\ asked[c].st = "answered" /\ asked' = [asked EXCEPT ![c] = Quiet]
  /\ UNCHANGED <<live, up, line, at, registry, todo>>

Exit(p) ==
  /\ p \in live /\ live' = live \ {p}
  /\ UNCHANGED <<up, line, at, registry, asked, todo>>

\* sys_proc_server_register, sys_dev_server_register.
Registers(s) ==
  /\ s \in Backends \ up /\ up' = up \cup {s}
  /\ UNCHANGED <<live, line, at, registry, asked, todo>>

-----------------------------------------------------------------------------
(* The servers *)

\* msg_receive(-1).
Receive(s) ==
  /\ at[s].st = "receive" /\ line[s] # <<>>
  /\ at' = [at EXCEPT ![s] = [st |-> "handle", from |-> Head(line[s]).from, req |-> Head(line[s]).req, ans |-> <<>>]]
  /\ line' = [line EXCEPT ![s] = Tail(@)]
  /\ UNCHANGED <<live, up, registry, asked, todo>>

Answers(c, ans) == asked' = [asked EXCEPT ![c].st = "answered", ![c].ans = ans]

\* Where dispatch sends a request on: the backend of its directory.
Backend(r) == IF r.op \in {"proc_list", "proc_read", "proc_stat"} THEN "procfs" ELSE "devfs"

\* forward_dev_read, forward_dev_stat: only the known names go on.
KnownPath(r) == r.op \in {"dev_read", "dev_stat"} => r.arg \in {"null", "zero", "tty"} \/ <<r.op, r.arg>> = <<"dev_stat", "dir">>

\* The branch of dispatch for a path of /proc or /dev.
VfsForwards ==
  LET a == at["vfs"] IN
  /\ a.st = "handle"
  /\ IF Backend(a.req) \in up /\ KnownPath(a.req)
     THEN /\ line' = [line EXCEPT ![Backend(a.req)] = Append(@, [from |-> "vfs", req |-> a.req])]
          /\ at' = [at EXCEPT !["vfs"].st = "await"] /\ UNCHANGED asked
     ELSE at' = [at EXCEPT !["vfs"] = Free] /\ Answers(a.from, IF Backend(a.req) \in up THEN SrvErr ELSE Local) /\ UNCHANGED line
  /\ UNCHANGED <<live, up, registry, todo>>

\* Faulty variant: the oldest message in the line is taken for the reply.
VfsTakesAny ==
  LET a == at["vfs"] IN
  /\ a.st = "await" /\ line["vfs"] # <<>>
  /\ LET m == Head(line["vfs"])
     IN Answers(a.from, IF m.from \in Backends THEN m.req.arg ELSE SrvErr)
  /\ line' = [line EXCEPT !["vfs"] = Tail(@)] /\ at' = [at EXCEPT !["vfs"] = Free]
  /\ UNCHANGED <<live, up, registry, todo>>

\* msg_receive(server), the copy to the client, and the client's reply.
VfsRelays ==
  LET a == at["vfs"]
      replies == {i \in DOMAIN line["vfs"] : line["vfs"][i].from = Backend(a.req)}
      k == Min(replies)
  IN /\ a.st = "await" /\ replies # {}
     /\ Answers(a.from, line["vfs"][k].req.arg)
     /\ line' = [line EXCEPT !["vfs"] = SubSeq(@, 1, k - 1) \o SubSeq(@, k + 1, Len(@))] /\ at' = [at EXCEPT !["vfs"] = Free]
     /\ UNCHANGED <<live, up, registry, todo>>

\* sys_proc_list, sys_proc_status: the process table as the kernel shows it.
Listed == live
HasStatus(p) == p \in live

\* proc_list, proc_status, proc_stat_exists: a directory and a status exist
\* while the process does; a status that is gone reads as empty.
StatusText(p) == IF HasStatus(p) THEN StatusLen ELSE 0

\* procfs-server.
ProcAnswer(r) ==
  CASE r.op = "proc_list" -> SrvOk(Cardinality(Listed))
    [] r.op = "proc_read" -> SrvOk(Max({StatusText(r.arg) - r.off, 0}))
    [] r.op = "proc_stat" -> IF r.arg = "root" \/ HasStatus(r.arg) THEN SrvOk(0) ELSE SrvErr

\* devfs-server.
DevAnswer(r) ==
  CASE r.op = "dev_list" -> SrvOk(3)
    [] r.op = "dev_read" -> SrvOk(IF r.arg = "zero" THEN r.off ELSE 0)
    [] r.op = "dev_stat" -> SrvOk(0)

BackendServes(s) ==
  /\ at[s].st = "handle"
  /\ LET ans == IF s = "procfs" THEN ProcAnswer(at[s].req) ELSE DevAnswer(at[s].req)
     IN line' = [line EXCEPT ![at[s].from] = Append(@, [from |-> s, req |-> Request(at[s].from, "reply", ans, 0)])]
  /\ at' = [at EXCEPT ![s] = Free]
  /\ UNCHANGED <<live, up, registry, asked, todo>>

\* The component manager: the last to register a name has it, and only it can
\* give the name up.
CmServes ==
  LET a == at["cm"]
      n == a.req.arg
      named == n \in DOMAIN registry
      mine == named /\ registry[n] = a.from
  IN /\ a.st = "handle"
     /\ registry' = CASE a.req.op = "register" -> [m \in DOMAIN registry \cup {n} |-> IF m = n THEN a.from ELSE registry[m]]
                      [] a.req.op = "unregister" /\ mine -> [m \in DOMAIN registry \ {n} |-> registry[m]]
                      [] OTHER -> registry
     /\ Answers(a.from, CASE a.req.op = "register" -> SrvOk(0)
                          [] a.req.op = "lookup" -> IF named THEN SrvOk(registry[n]) ELSE SrvErr
                          [] a.req.op = "list" -> SrvOk(Cardinality(DOMAIN registry))
                          [] a.req.op = "unregister" -> IF mine THEN SrvOk(0) ELSE SrvErr)
     /\ at' = [at EXCEPT !["cm"] = Free]
     /\ UNCHANGED <<live, up, line, todo>>

ServerProgress == (\E s \in SrvNames : Receive(s)) \/ VfsForwards \/ VfsRelays \/ CmServes \/ \E s \in Backends : BackendServes(s)

SrvStep ==
  \/ \E c \in Clients : Continue(c) \/ \E r \in todo[c] : Ask(c, r)
  \/ \E p \in live : Exit(p)
  \/ \E s \in Backends : Registers(s)
  \/ ServerProgress

-----------------------------------------------------------------------------
SrvTypeOK ==
  /\ live \subseteq Pids /\ up \subseteq Backends /\ DOMAIN registry \subseteq Names
  /\ \A s \in SrvNames : at[s].st \in {"receive", "handle", "await"}
  /\ \A c \in Clients : asked[c].st \in {"idle", "waits", "answered"}

\* ans answers r, asked when the processes were those in before.
Right(r, before, ans) ==
  CASE r.op \in {"dev_list", "dev_read", "dev_stat"} -> ans = IF KnownPath(r) THEN DevAnswer(r) ELSE SrvErr
    [] r.op = "proc_stat" -> IF ans.ok THEN r.arg \in before \cup {"root"} ELSE r.arg \notin live
    [] r.op = "proc_read" ->
         ans.ok /\ IF ans.n > 0 THEN r.arg \in before /\ ans.n = StatusLen - r.off
                   ELSE r.arg \notin live \/ r.off >= StatusLen
    [] r.op = "proc_list" -> ans.ok /\ ans.n \in Cardinality(live)..Cardinality(before)

\* A client's answer is the answer to its own request, as of some moment
\* between the request and the reply: what is said of a process held then or
\* holds now, and no client gets the reply meant for another, although the
\* VFS server waits for its backend while other clients' requests queue up
\* (dispatch, the forward_ functions, procfs-server, devfs-server).
AnswersTheQuestion ==
  \A c \in Clients :
    asked[c].st = "answered" /\ asked[c].req.to = "vfs" =>
      IF asked[c].ans = Local THEN Backend(asked[c].req) \notin asked[c].up
      ELSE Right(asked[c].req, asked[c].live, asked[c].ans)

\* A component keeps its name until it gives it up or another takes it: no
\* request of one client removes the name of another (OP_UNREGISTER).
NameIsKept ==
  [][\A n \in DOMAIN registry \ DOMAIN registry' : at["cm"].from = registry[n]]_srvVars

\* Every request to a server is answered.
RequestsAnswered == \A c \in Clients : asked[c].st = "waits" ~> asked[c].st = "answered"

-----------------------------------------------------------------------------
(***************************************************************************)
(* The init process (src/user/init): it waits for the VFS server, starts   *)
(* the component manager, runs two test programs, and then keeps a shell   *)
(* running while it reaps every child it has, the orphans it inherits      *)
(* included.  spawn may fail.  waitpid(pid, 0) is the kernel's (module     *)
(* WaitPid), seen from init: the oldest queued result, whatever the        *)
(* target; else a dead child that matches; else init stops, a step after   *)
(* its last look.  exit() makes a zombie in one step and queues its result *)
(* in a later one.                                                         *)
(***************************************************************************)
CONSTANTS MaxChildren   \* a bound on the processes that ever become its children

VARIABLES
  pc,        \* where main is
  vfsUp,     \* the VFS server has registered
  kids,      \* child -> program: "cm", "test", "sh", "orphan"
  dead,      \* children that have exited and are not reaped
  dying,     \* processes whose exit() has not come to try_wake_parent yet
  results,   \* init's wait_result
  wait,      \* its waitpid: "out", "armed" (about to stop), "asleep", "woken"
  waits,     \* the child main waits for: test_pid, sh_pid
  born       \* children so far

initVars == <<pc, vfsUp, kids, dead, dying, results, wait, waits, born>>

InitInit ==
  /\ pc = "vfs" /\ vfsUp = FALSE /\ kids = <<>> /\ dead = {} /\ waits = 0 /\ born = 0
  /\ dying = {} /\ results = <<>> /\ wait = "out"

VfsRegisters ==
  /\ ~vfsUp /\ vfsUp' = TRUE
  /\ UNCHANGED <<pc, kids, dead, dying, results, wait, waits, born>>

\* vfs_connect until it succeeds.
WaitForVfs ==
  /\ pc = "vfs" /\ vfsUp /\ pc' = "cm"
  /\ UNCHANGED <<vfsUp, kids, dead, dying, results, wait, waits, born>>

Child(prog) ==
  /\ born < MaxChildren /\ born' = born + 1
  /\ kids' = [k \in DOMAIN kids \cup {born + 1} |-> IF k = born + 1 THEN prog ELSE kids[k]]

\* The result of this spawn is not looked at.
SpawnCm ==
  /\ pc = "cm" /\ pc' = "epolltest"
  /\ Child("cm") \/ UNCHANGED <<kids, born>>
  /\ UNCHANGED <<vfsUp, dead, dying, results, wait, waits>>

AfterTest == [epolltest |-> "pkg", pkg |-> "shell"]

\* epolltest and pkg, one after the other: each is waited for if it started.
RunTest ==
  /\ pc \in DOMAIN AfterTest /\ waits = 0
  /\ \/ Child("test") /\ waits' = born + 1 /\ UNCHANGED pc
     \/ pc' = AfterTest[pc] /\ UNCHANGED <<kids, born, waits>>
  /\ UNCHANGED <<vfsUp, dead, dying, results, wait>>

\* What this call waits for: any child in the respawn loop, else one child.
IsAwaited(k) == pc = "reap" \/ k = waits

\* sys_waitpid and reap_zombie: k is what the call returns.
Reaped(k) ==
  /\ wait \in {"out", "woken"}
  /\ \/ results # <<>> /\ k = Head(results) /\ results' = Tail(results)
     \/ results = <<>> /\ k \in dead /\ IsAwaited(k) /\ UNCHANGED results
  /\ kids' = [c \in DOMAIN kids \ {k} |-> kids[c]] /\ dead' = dead \ {k}
  /\ wait' = "out"

\* Nothing to return while there are children: wait_target is set, and a step
\* after the last look init is Stopped.
WaitBlocks ==
  /\ pc \in {"reap"} \cup DOMAIN AfterTest /\ waits # 0
  /\ \/ /\ wait \in {"out", "woken"} /\ results = <<>>
        /\ DOMAIN kids # {} /\ \A k \in dead : ~IsAwaited(k)
        /\ wait' = "armed"
     \/ wait = "armed" /\ wait' = "asleep"
  /\ UNCHANGED <<pc, vfsUp, kids, dead, dying, results, waits, born>>

\* waitpid(test_pid), whichever child it returns.
TestDone ==
  /\ pc \in DOMAIN AfterTest /\ waits # 0
  /\ \E k \in dead \cup Range(results) : Reaped(k)
  /\ pc' = AfterTest[pc] /\ waits' = 0
  /\ UNCHANGED <<vfsUp, dying, born>>

SpawnShell ==
  /\ pc = "shell"
  /\ \/ Child("sh") /\ waits' = born + 1 /\ pc' = "reap"
     \/ pc' = "stuck" /\ UNCHANGED <<kids, born, waits>>
  /\ UNCHANGED <<vfsUp, dead, dying, results, wait>>

\* Faulty variant: any exit makes it start another shell.
ReapAnySpawns ==
  /\ pc = "reap" /\ pc' = "shell"
  /\ \E k \in dead \cup Range(results) : Reaped(k)
  /\ UNCHANGED <<vfsUp, dying, waits, born>>

\* waitpid(-1), until it is the shell.
Reap ==
  /\ pc = "reap"
  /\ \E k \in dead \cup Range(results) : Reaped(k) /\ pc' = IF k = waits THEN "shell" ELSE "reap"
  /\ UNCHANGED <<vfsUp, dying, waits, born>>

ChildExits(k) ==
  /\ k \in DOMAIN kids \ dead /\ dead' = dead \cup {k} /\ dying' = dying \cup {k}
  /\ UNCHANGED <<pc, vfsUp, kids, results, wait, waits, born>>

\* try_wake_parent: nothing for a parent that waits for another child; init is
\* woken if it is Stopped.
Notify(k) ==
  /\ k \in dying /\ dying' = dying \ {k}
  /\ IF wait = "out" \/ IsAwaited(k)
     THEN /\ results' = Append(results, k)
          /\ wait' = IF wait = "asleep" THEN "woken" ELSE wait
     ELSE UNCHANGED <<results, wait>>
  /\ UNCHANGED <<pc, vfsUp, kids, dead, waits, born>>

Orphan ==
  /\ Child("orphan")
  /\ UNCHANGED <<pc, vfsUp, dead, dying, results, wait, waits>>

InitProgress == WaitForVfs \/ SpawnCm \/ RunTest \/ TestDone \/ SpawnShell \/ Reap \/ WaitBlocks
ExitProgress == \E k \in dying : Notify(k)

InitStep ==
  \/ VfsRegisters \/ Orphan \/ InitProgress \/ ExitProgress
  \/ \E k \in DOMAIN kids : ChildExits(k)

-----------------------------------------------------------------------------
\* Init never has two shells at once, whichever of its children exit while it
\* waits (the respawn loop).
OneShell == Cardinality({k \in DOMAIN kids : kids[k] = "sh"}) <= 1

\* A shell that exits is replaced by another, which init waits for, however
\* many other children exit before it and whichever of their results come
\* late, unless a spawn fails or the shell's result was queued in the window
\* in which waitpid misses it (the respawn loop, sys_waitpid).
ShellRespawned ==
  (pc = "reap" /\ waits \in dead)
    ~> \/ pc = "stuck" \/ born = MaxChildren
       \/ pc = "reap" /\ waits \in DOMAIN kids \ dead
       \/ wait = "asleep" /\ waits \in dead \ dying
=============================================================================
