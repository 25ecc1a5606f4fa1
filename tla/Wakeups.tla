------------------------------ MODULE Wakeups ------------------------------
(***************************************************************************)
(* How a system call blocks and is woken.                                  *)
(*                                                                         *)
(* A call that has to wait leaves its pid with the object it waits for,    *)
(* rewinds sepc and calls schedule(), which never returns: the process is  *)
(* then on no hart.  enqueue puts it on the run queue, and the hart that   *)
(* pops the entry executes the call again from its first instruction.      *)
(* Nothing else wakes it, so a process asleep without an entry, registered *)
(* nowhere, is lost.                                                       *)
(*                                                                         *)
(* The modules of the kernel objects extend this one.  The calls a process *)
(* makes are drawn from a program picked at the start.                     *)
(***************************************************************************)
EXTENDS Naturals, Sequences

CONSTANTS
  Procs,     \* processes
  Nobody,    \* pid 0
  Programs,  \* the calls each process may make: a set of functions
  MaxCalls   \* bound on the calls of each process

ASSUME WakeupsAssumption ==
  /\ Nobody \notin Procs
  /\ MaxCalls \in [Procs -> Nat]

VARIABLES
  may,      \* the program of this behaviour
  calls,    \* calls made so far by each process
  call,     \* the call a process is executing
  pc,       \* how far it has come: "user", "asleep" or a place in the call
  entries,  \* run-queue entries of each process
  stopped   \* processes whose state is Stopped

wakeVars == <<may, calls, call, pc, entries, stopped>>

WakeInit ==
  /\ may \in Programs
  /\ calls = [p \in Procs |-> 0]
  /\ call = [p \in Procs |-> "none"]
  /\ pc = [p \in Procs |-> "user"]
  /\ entries = [p \in Procs |-> 0]
  /\ stopped = {}

\* The calls of the objects' modules, and the places in them.
CallNames ==
  {"channel_read", "read", "wait_readable", "wait_closed", "write", "channel_write", "poll",
   "close_write", "close_read", "port_wait", "port_queue", "port_bind", "pipe_read", "pipe_write",
   "pipe_close", "pipe_close_read", "futex_wait", "futex_wake", "mailbox_receive", "mailbox_send",
   "tty_read", "epoll_ctl", "epoll_wait", "epoll_timed", "epoll_poll"}

PlaceNames ==
  {"user", "asleep", "register", "recheck", "retract", "closed", "reclosed", "wake", "epoll", "take",
   "notify", "notify_waiters", "notify_ports", "port_wake", "handover", "yield", "drop", "drop_wake",
   "drop_signals", "wait", "wait_again", "wait_retract", "evaluate", "push", "pipe_wake", "pipe_epoll",
   "release", "drain", "enqueue", "flag", "state", "buffer", "collect", "sleep", "stop", "unregister"}

WakeTypeOK ==
  /\ may \in Programs
  /\ pc \in [Procs -> PlaceNames] /\ call \in [Procs -> CallNames \cup {"none"}]
  /\ calls \in [Procs -> Nat] /\ \A p \in Procs : calls[p] <= MaxCalls[p]
  /\ entries \in [Procs -> Nat]
  /\ stopped \subseteq Procs

\* p executes call c from the top: for the first time, or because the run
\* queue entry made by a waker has been popped.  An entry made between the
\* registration and schedule() is kept until the process is asleep; a hart
\* that pops it earlier runs the process a second time, which is the subject
\* of Sched (NoPhantomEntry) and not of this module.
Enters(p, c) ==
  \/ pc[p] = "user" /\ c \in may[p] /\ calls[p] < MaxCalls[p]
  \/ pc[p] = "asleep" /\ call[p] = c /\ entries[p] > 0

At(p, cs, place) == call[p] \in cs /\ pc[p] = place

\* enqueue(pid) for one process, for nobody.
Wakes(q)    == [r \in Procs |-> IF r = q THEN 1 ELSE 0]
WakesNobody == Wakes(Nobody)

\* p goes on at place in call c, having enqueued the given processes.
Moves(p, c, place, woken) ==
  /\ call' = [call EXCEPT ![p] = IF place = "user" THEN "none" ELSE c]
  /\ pc' = [pc EXCEPT ![p] = place]
  /\ calls' = [calls EXCEPT ![p] = IF pc[p] = "user" THEN @ + 1 ELSE @]
  /\ entries' = [q \in Procs |->
       (entries[q] + woken[q]) - (IF q = p /\ pc[p] = "asleep" THEN 1 ELSE 0)]
  /\ stopped' = IF pc[p] = "asleep" THEN stopped \ {p} ELSE stopped
  /\ UNCHANGED may

Goes(p, place)        == Moves(p, call[p], place, WakesNobody)
GoesWaking(p, place, q) == Moves(p, call[p], place, Wakes(q))

\* state = Stopped, then schedule().
StopsAsleep(p) ==
  /\ pc' = [pc EXCEPT ![p] = "asleep"]
  /\ stopped' = stopped \cup {p}
  /\ UNCHANGED <<may, calls, call, entries>>

\* The writer of a fast hand-over put itself on the run queue and is popped.
Resumes(p) ==
  /\ pc[p] = "yield" /\ entries[p] > 0
  /\ pc' = [pc EXCEPT ![p] = "user"]
  /\ call' = [call EXCEPT ![p] = "none"]
  /\ entries' = [entries EXCEPT ![p] = @ - 1]
  /\ UNCHANGED <<may, calls, stopped>>

\* Asleep, with nothing on the run queue that would end it.
Sleeps(p, cs) == At(p, cs, "asleep") /\ entries[p] = 0
=============================================================================
