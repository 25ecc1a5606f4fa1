------------------------------- MODULE Calls -------------------------------
(***************************************************************************)
(* Processes and what the kernel keeps for each of them across fork, exec, *)
(* signals and exit: handle tables, byte-range locks, sleeping calls and   *)
(* signal state.  A call runs from the trap to the return to user mode     *)
(* under the kernel's locks; processes on several harts, timer ticks and   *)
(* signals come between calls, and between a call and its return.          *)
(*                                                                         *)
(* src/src/syscall/proc.rs, src/src/syscall/ipc.rs, src/src/syscall/fs.rs, *)
(* src/src/posix/process.rs, src/src/posix/spawn.rs, src/src/trap/mod.rs.  *)
(***************************************************************************)
EXTENDS HandlesAndLocks, Signals

CONSTANTS
  Procs, InitProc,
  Programs,    \* what the processes may do, one program per behaviour: the calls
               \* of each process, the signals sent and how many, the pairs
               \* <<l_start, l_len>> of lock requests: [calls, sigs, sends, locks]
  Parents,     \* [Procs -> Procs \cup {Nobody}]: who forks whom; Nobody: there from the start
  Nobody,
  Actions,     \* the arguments <<signal, handler, mask>> of sigaction
  Masks,       \* the sets given to sigprocmask
  MaxSleeps    \* bound on a process's entries in the sleep and futex queues

Tty     == [kind |-> "tty", id |-> 0]
File(f) == [kind |-> "file", id |-> f]
End(e)  == [kind |-> "chan", id |-> e]      \* the ends 1 and 2 of a channel
PipeEnd == [kind |-> "pipe", id |-> 0]
IsFile(obj) == obj.kind = "file"

VARIABLES
  sys,    \* the kernel: see SysInit
  may,    \* the program
  sent    \* the number of signals sent

vars == <<sys, may, sent>>

\* The standard streams, unless the program has closed them, and one more
\* handle: a file, or an end of a channel.
Streams(p) == IF may.calls[p] \cap {"pipe", "dup", "fork", "send"} # {} THEN 0..2 ELSE {}
FirstObject(p) == IF "locks" \in may.calls[p] THEN File(1) ELSE End(IF p = InitProc THEN 1 ELSE 2)
FirstTable(p) ==
  InsertHandleAt([map |-> [id \in Streams(p) |-> Entry(Tty, Rights, 0)], cloexec |-> {}],
                 <<3, 1>>, FirstObject(p))

\* A process of the table: its state, its signals, its handles, the handles
\* its program holds (own) and marked (marked) or was never told (untold), the
\* lock it last asked for, whether its exit wakes the futex (clear_tid_ptr).
FirstProcess(p) ==
  [st |-> IF Parents[p] = Nobody THEN "Running" ELSE "unborn",
   at |-> IF Parents[p] = Nobody THEN "user" ELSE "off",
   pc |-> 0, a0 |-> "-", status |-> 0, tgid |-> p, pgid |-> InitProc, sid |-> InitProc,
   ppid |-> IF p = InitProc THEN Nobody ELSE InitProc, cleartid |-> FALSE,
   base |-> {}, want |-> <<>>, got |-> <<>>, untold |-> {},
   fds |-> IF Parents[p] = Nobody THEN FirstTable(p) ELSE EmptyTable,
   own |-> IF Parents[p] = Nobody THEN [id \in Streams(p) \X {0} |-> Tty] @@ (<<3, 1>> :> FirstObject(p)) ELSE <<>>,
   marked |-> {}] @@ NoSignals

Init ==
  /\ may \in Programs
  /\ sys = [proc   |-> [p \in Procs |-> FirstProcess(p)],
            lk     |-> NoLocks,
            sleepq |-> [p \in Procs |-> 0],
            futexq |-> <<>>,
            queue  |-> [e \in {1, 2} |-> <<>>],
            job    |-> {p \in Procs : Parents[p] = Nobody},
            shrunk |-> {}]
  /\ sent = 0

proc == sys.proc
InTable(s, p) == s.proc[p].st \notin {"unborn", "reaped"}
Active(p, c) == proc[p].at = "user" /\ InTable(sys, p) /\ c \in may.calls[p] /\ proc[p].pc # -1

Become(s, p, r) == [s EXCEPT !.proc[p] = r]

\* The end of a call that returns: the frame's sepc is behind the call.  The
\* return to user mode is a step of its own only if a signal is to be taken; one
\* that arrives later is found by the next tick.
Done(r, a0) ==
  [r EXCEPT !.a0 = a0, !.pc = 0, !.want = <<>>, !.at = IF Deliverable(r) = {} THEN "user" ELSE "trap"]

\* A call that puts its process to sleep: state Stopped, then schedule().
Asleep(r, c) ==
  [r EXCEPT !.st = "Stopped", !.at = c, !.a0 = "-", !.pc = IF c \in Retried THEN -1 ELSE 0]

\* What futex_wake, wake_sleepers and wake_lock_waiters do to a process of
\* the table, whatever its state is.
Woken(r) == [r EXCEPT !.st = "Running", !.at = IF @ = "trap" THEN @ ELSE "user"]

Wake(s, P) ==
  [s EXCEPT !.proc = [q \in Procs |-> IF q \in P /\ InTable(s, q) THEN Woken(@[q]) ELSE @[q]]]

\* The processes wake_lock_waiters has granted a lock: a0 is 0.
WakeLocked(s) ==
  LET w == s.lk.woken
      t == [s EXCEPT !.lk.woken = {},
                     !.proc = [q \in Procs |-> IF q \in w THEN [@[q] EXCEPT !.a0 = "locked"] ELSE @[q]]]
  IN Wake(t, w)

-----------------------------------------------------------------------------
(* exit, and who calls it *)

Children(s, p) == {q \in Procs : InTable(s, q) /\ s.proc[q].ppid = p}

\* Phase 1 and the release of the locks; entries of the dead process in the
\* queues of locks, futexes and sleepers stay.
Zombify(s, p, status) ==
  WakeLocked(
    [s EXCEPT !.proc[p] = [@ EXCEPT !.st = "Zombie", !.status = status,
                                    !.at = IF @ \in {"user", "trap", "lkw"} THEN @ ELSE "off",
                                    !.fds = EmptyTable, !.own = <<>>, !.marked = {}, !.untold = {}],
              !.lk = ReleaseAllLocks(@, p)])

\* CLONE_CHILD_CLEARTID: everyone who waits for the word is woken.
ClearTid(s, p) ==
  IF s.proc[p].cleartid THEN Wake([s EXCEPT !.futexq = <<>>], Range(s.futexq)) ELSE s

Reparented(s, P) == [s EXCEPT !.proc = [q \in Procs |-> IF q \in P THEN [@[q] EXCEPT !.ppid = InitProc] ELSE @[q]]]

\* Phase 4: no member of the group has a parent, other than the dying process,
\* in its own session.
Orphaned(s, p, group) ==
  \A q \in Procs : InTable(s, q) /\ s.proc[q].pgid = group /\ s.proc[q].ppid \notin {p, Nobody} =>
    LET parent == s.proc[q].ppid IN InTable(s, parent) => s.proc[parent].sid # s.proc[q].sid

HangUp(s, groups) ==
  [s EXCEPT !.proc = [q \in Procs |->
     IF InTable(s, q) /\ @[q].pgid \in groups
     THEN [(IF @[q].st = "Stopped" THEN Woken(@[q]) ELSE @[q]) EXCEPT !.pend = @ \cup {SIGHUP, SIGCONT}]
     ELSE @[q]]]

\* exit, but for what it does to rendezvous (Rendezvous) and to a parent in
\* waitpid (WaitPid).
ExitProc(s, p, status) ==
  IF ~InTable(s, p) THEN s
  ELSE LET left   == Children(s, p)
           t      == Reparented(ClearTid(Zombify(s, p, status), p), left)
           groups == {t.proc[q].pgid : q \in left \cup {p}}
       IN IF left = {} THEN t ELSE HangUp(t, {g \in groups : Orphaned(t, p, g)})

\* ... of the running process: schedule() follows.
ExitSelf(s, p, status) == ExitProc([s EXCEPT !.proc[p].at = "off"], p, status)

ExitAll(s, P, status) ==
  FoldLeft(LAMBDA t, q : ExitProc(t, q, status), s,
           SetToSeq(P))

Exit(p) ==
  /\ Active(p, "exit")
  /\ sys' = ExitSelf(sys, p, 0)
  /\ UNCHANGED sent

\* An exception of user code that rust_trap_handler does not resolve: an
\* illegal instruction, a misaligned access, any other cause.
Fault(p, status) ==
  /\ Active(p, "fault")
  /\ sys' = ExitSelf(sys, p, status)
  /\ UNCHANGED sent

\* A process killed while it ran on another hart goes on until that hart
\* schedules.
Deschedule(p) ==
  /\ proc[p].st = "Zombie" /\ proc[p].at = "user"
  /\ sys' = [sys EXCEPT !.proc[p].at = "off"]
  /\ UNCHANGED sent

\* waitpid of the parent takes a zombie out of the table.
Reap(p) ==
  /\ proc[p].st = "Zombie"
  /\ \E q \in Procs : Active(q, "reap")
  /\ sys' = [sys EXCEPT !.proc[p].st = "reaped", !.proc[p].at = "off"]
  /\ UNCHANGED sent

Targets(p, t) ==
  {q \in Procs : /\ InTable(sys, q)
                 /\ CASE t \in Procs   -> q = t
                      [] t = 0   -> proc[q].pgid = proc[p].pgid
                      [] t = -1  -> q # InitProc /\ q # p
                      [] t < -1  -> proc[q].pgid = -t}

\* sys_kill.  SIGKILL is an exit of every target, the caller last; signal 0
\* only asks whether there is one.
Kill(p, t, sig) ==
  /\ Active(p, "kill") /\ sent < may.sends
  /\ LET hit  == Targets(p, t)
         told == [sys EXCEPT !.proc = [q \in Procs |->
                    IF q \in hit THEN Signalled(@[q], sig) ELSE @[q]]]
         dead == ExitAll(sys, hit \ {p}, -9)
     IN sys' = CASE sig = 0 -> [sys EXCEPT !.proc[p] = Done(@, "-")]
                 [] sig \notin {0, SIGKILL} -> [told EXCEPT !.proc[p] = Done(@, "-")]
                 [] sig = SIGKILL /\ p \in hit -> ExitSelf(dead, p, -9)
                 [] sig = SIGKILL /\ p \notin hit -> [dead EXCEPT !.proc[p] = Done(@, "-")]
  /\ sent' = sent + 1

Tgkill(p, q, sig) ==
  /\ Active(p, "tgkill") /\ InTable(sys, q) /\ sent < may.sends
  /\ sys' = LET s == [sys EXCEPT !.proc[q] = ThreadSignalled(@, sig)]
            IN [s EXCEPT !.proc[p] = Done(@, "-")]
  /\ sent' = sent + 1

ExitGroup(p) ==
  /\ Active(p, "exit_group")
  /\ sys' = LET peers == {q \in Procs : InTable(sys, q) /\ proc[q].tgid = proc[p].tgid}
            IN ExitAll([sys EXCEPT !.proc[p].at = "off"], peers, 0)
  /\ UNCHANGED sent

\* sys_task_kill of handle 0 is an exit; of a job, that of every process the
\* job ever had, and the caller, if it is one of them, returns to user mode.
TaskKill(p, self) ==
  /\ Active(p, "task_kill")
  /\ sys' = IF self THEN ExitSelf(sys, p, -1)
            ELSE LET s == ExitAll(sys, sys.job, -1) IN [s EXCEPT !.proc[p] = Done(@, "-")]
  /\ UNCHANGED sent

-----------------------------------------------------------------------------
(* Signals *)

\* A timer tick: a process with a signal to take is not preempted.
Tick(p) ==
  /\ proc[p].at = "user" /\ proc[p].st = "Running" /\ Deliverable(proc[p]) # {}
  /\ sys' = [sys EXCEPT !.proc[p].at = "trap"]
  /\ UNCHANGED sent

\* The end of rust_trap_handler; a stack that cannot hold the frame ends the
\* process.
TrapReturn(p, stack) ==
  /\ proc[p].at = "trap"
  /\ LET r == proc[p] IN
     sys' = IF Deliverable(r) = {} THEN [sys EXCEPT !.proc[p].at = "user"]
            ELSE CASE Disposition(r) = "kill"      -> ExitSelf(Become(sys, p, TakesOne(r)), p, -9)
                   [] Disposition(r) = "continue"  -> Become(sys, p, Continues(r))
                   [] Disposition(r) = "stop"      -> Become(sys, p, Stops(r))
                   [] Disposition(r) = "ignore"    -> Become(sys, p, Ignores(r))
                   [] Disposition(r) = "terminate" -> ExitSelf(Become(sys, p, TakesOne(r)), p, -Taken(r))
                   [] Disposition(r) = "handle"    ->
                        IF stack THEN Become(sys, p, RunsHandler(r))
                        ELSE ExitSelf(Become(sys, p, TakesOne(r)), p, -11)
  /\ UNCHANGED sent

Sigaction(p, sig, h, mask) ==
  /\ Active(p, "sigaction") /\ sig # SIGKILL
  /\ sys' = Become(sys, p, Done(NewAction(proc[p], sig, h, mask), "-"))
  /\ UNCHANGED sent

Sigprocmask(p, how, set) ==
  /\ Active(p, "sigprocmask")
  /\ LET b == NewMask(proc[p], how, set)
     IN sys' = Become(sys, p, Done([proc[p] EXCEPT !.blk = b,
                                      !.base = IF proc[p].frames = <<>> THEN b ELSE @], "-"))
  /\ UNCHANGED sent

Sigreturn(p) ==
  /\ proc[p].at = "user" /\ InTable(sys, p) /\ proc[p].frames # <<>> /\ proc[p].pc # -1
  /\ sys' = Become(sys, p, Returns(proc[p]))
  /\ UNCHANGED sent

Setpgid(p) ==
  /\ Active(p, "setpgid")
  /\ sys' = Become(sys, p, Done([proc[p] EXCEPT !.pgid = p], "-"))
  /\ UNCHANGED sent

-----------------------------------------------------------------------------
(* Calls that sleep *)

\* sys_nanosleep; wake_sleepers on a later tick.
Nanosleep(p) ==
  /\ Active(p, "sleep") /\ sys.sleepq[p] < MaxSleeps
  /\ sys' = Become([sys EXCEPT !.sleepq[p] = @ + 1], p, Asleep(proc[p], "sleep"))
  /\ UNCHANGED sent

WakeSleeper(p) ==
  /\ sys.sleepq[p] > 0
  /\ sys' = Wake([sys EXCEPT !.sleepq[p] = @ - 1], {p})
  /\ UNCHANGED sent

\* sys_futex on one word that holds the expected value; FUTEX_WAKE of one.
FutexWait(p) ==
  /\ Active(p, "futex") /\ Len(sys.futexq) < MaxSleeps
  /\ sys' = Become([sys EXCEPT !.futexq = Append(@, p)], p, Asleep(proc[p], "futex"))
  /\ UNCHANGED sent

FutexWake(p) ==
  /\ Active(p, "futex") /\ sys.futexq # <<>>
  /\ LET s == Wake([sys EXCEPT !.futexq = Tail(@)], {Head(sys.futexq)})
     IN sys' = [s EXCEPT !.proc[p] = Done(@, "-")]
  /\ UNCHANGED sent

\* waitpid and mailbox_receive with nothing there: the call is made again
\* when its event wakes the process.
WaitEvent(p, c) ==
  /\ Active(p, c) /\ c \in Retried
  /\ sys' = Become(sys, p, Asleep(proc[p], c))
  /\ UNCHANGED sent

EventComes(p) ==
  /\ proc[p].st = "Stopped" /\ proc[p].at \in Retried
  /\ sys' = Become(sys, p, Woken(proc[p]))
  /\ UNCHANGED sent

\* The program counter is at the call again.
Again(p, c) ==
  /\ proc[p].at = "user" /\ InTable(sys, p) /\ proc[p].pc = -1 /\ c \in {"-"} \cup (Retried \cap may.calls[p])
  /\ sys' = Become(sys, p, IF c = "-" THEN Done(proc[p], "-") ELSE Asleep(proc[p], c))
  /\ UNCHANGED sent

-----------------------------------------------------------------------------
(* Byte-range locks: sys_fcntl with F_SETLK and F_SETLKW *)

HoldsFile(p, f) == \E h \in Valid(proc[p].fds) : Obj(proc[p].fds, h) = File(f)

\* A file is noted as shrunk while a lock of it was given up without a look
\* at the waiters.
Locked(s, f, r) ==
  [s EXCEPT !.lk = Acquire(@, f, r),
            !.shrunk = IF WithoutOverlapping(s.lk, f, r) # s.lk.held[f] THEN @ \cup {f} ELSE @]

SetLk(p, f, type, arg) ==
  /\ Active(p, "locks") /\ HoldsFile(p, f)
  /\ LET r == Request(p, type, arg[1], arg[2])
     IN sys' = IF Available(sys.lk, f, r)
               THEN [Locked(sys, f, r) EXCEPT !.proc[p] = Done(@, "-")]
               ELSE [sys EXCEPT !.proc[p] = Done(@, "-")]
  /\ UNCHANGED sent

\* A lock that is not available: the request is queued after the table of
\* locks was released.
SetLkw(p, f, type, arg) ==
  /\ Active(p, "locks") /\ HoldsFile(p, f)
  /\ LET r == Request(p, type, arg[1], arg[2])
     IN sys' = IF Available(sys.lk, f, r)
               THEN [Locked(sys, f, r) EXCEPT !.proc[p] = Done(@, "-")]
               ELSE [sys EXCEPT !.proc[p] = [@ EXCEPT !.at = "lkw", !.want = <<f, r>>, !.a0 = "-"]]
  /\ UNCHANGED sent

LkwSleep(p) ==
  /\ proc[p].at = "lkw"
  /\ LET f == proc[p].want[1]
         r == proc[p].want[2]
     IN sys' = [sys EXCEPT !.lk.waiters[f] = Append(@, r),
                           !.shrunk = IF Available(sys.lk, f, r) THEN @ \cup {f} ELSE @,
                           !.proc[p] = Asleep(@, "lock")]
  /\ UNCHANGED sent

Unlock(p, f, arg) ==
  /\ Active(p, "locks") /\ HoldsFile(p, f)
  /\ LET L == ReleaseRange(sys.lk, f, Request(p, "unlock", arg[1], arg[2]))
         s == WakeLocked([sys EXCEPT !.lk = L, !.shrunk = @ \ {f}])
     IN sys' = [s EXCEPT !.proc[p] = Done(@, "-")]
  /\ UNCHANGED sent

-----------------------------------------------------------------------------
(* Handles.  own is what the program holds: it learns of a handle from the *)
(* call that returned it and forgets it when it closes or replaces it.     *)

Forget(own, id) == Restrict(own, {h \in DOMAIN own : h[1] # id})

\* The program is given handle h on obj.
Gains(r, h, obj) ==
  [r EXCEPT !.own = (h :> obj) @@ Forget(@, h[1]),
            !.marked = {m \in @ : m[1] # h[1]}, !.untold = {u \in @ : u[1] # h[1]}]

Inserts(p, ins, obj) ==
  sys' = Become(sys, p, Done(Gains([proc[p] EXCEPT !.fds = ins.table], ins.handle, obj), "-"))

\* sys_close: the locks on the file go first, whichever handle is closed.
Close(p, h) ==
  /\ Active(p, "close")
  /\ LET t == proc[p].fds
         s == IF Has(t, h) /\ IsFile(Obj(t, h))
              THEN WakeLocked([sys EXCEPT !.lk = ReleaseFdLocks(@, Obj(t, h).id, p),
                                          !.shrunk = @ \ {Obj(t, h).id}])
              ELSE sys
     IN sys' = [s EXCEPT !.proc[p] = Done([@ EXCEPT
                  !.fds = RemoveHandle(t, h), !.own = Restrict(@, DOMAIN @ \ {h}),
                  !.marked = @ \ {h}, !.untold = @ \ {h}], "-")]
  /\ UNCHANGED sent

\* sys_pipe: if the pointer is bad the handles stay in the table unknown.
Pipe(p, ptr) ==
  /\ Active(p, "pipe") /\ Cardinality(FreeIds(proc[p].fds)) >= 2
  /\ LET a == Insert(proc[p].fds, PipeEnd)
         b == Insert(a.table, PipeEnd)
         r == [proc[p] EXCEPT !.fds = b.table]
     IN sys' = Become(sys, p, Done(IF ptr THEN Gains(Gains(r, a.handle, PipeEnd), b.handle, PipeEnd)
                                   ELSE [r EXCEPT !.untold = @ \cup {a.handle, b.handle}], "-"))
  /\ UNCHANGED sent

\* sys_dup
DupCall(p, h) ==
  /\ Active(p, "dup") /\ HasRights(proc[p].fds, h, {"DUPLICATE"}) /\ FreeIds(proc[p].fds) # {}
  /\ Inserts(p, Dup(proc[p].fds, h), Obj(proc[p].fds, h))
  /\ UNCHANGED sent

\* sys_handle_duplicate: never more rights than the source has.
HandleDuplicate(p, h, rights) ==
  /\ Active(p, "hdup") /\ HasRights(proc[p].fds, h, {"DUPLICATE"} \cup rights) /\ FreeIds(proc[p].fds) # {}
  /\ Inserts(p, InsertWithRights(proc[p].fds, Obj(proc[p].fds, h), rights), Obj(proc[p].fds, h))
  /\ UNCHANGED sent

\* sys_dup2 onto a handle number of generation 0, as programs redirect their
\* standard streams.
Dup2Call(p, h, dst) ==
  /\ Active(p, "dup2") /\ HasRights(proc[p].fds, h, {"DUPLICATE"}) /\ h # dst
  /\ LET obj == Obj(proc[p].fds, h)
     IN sys' = Become(sys, p, Done(Gains([proc[p] EXCEPT !.fds = Dup2(@, h, dst)], dst, obj), "-"))
  /\ UNCHANGED sent

\* F_DUPFD: the first number from min that does not resolve.
FDupFd(p, h, min) ==
  /\ Active(p, "dupfd") /\ Has(proc[p].fds, h)
  /\ LET t   == proc[p].fds
         dst == Min({n \in Ids : n >= min /\ ~Has(t, <<n, 0>>)})
     IN /\ {n \in Ids : n >= min /\ ~Has(t, <<n, 0>>)} # {}
        /\ sys' = Become(sys, p, Done([proc[p] EXCEPT
                    !.fds = InsertHandleAt(t, <<dst, 0>>, Obj(t, h)),
                    !.own = (<<dst, 0>> :> Obj(t, h)) @@ @, !.untold = {u \in @ : u[1] # dst}], "-"))
  /\ UNCHANGED sent

\* F_SETFD
MarkCloexec(p, h, on) ==
  /\ Active(p, "cloexec") /\ Has(proc[p].fds, h)
  /\ sys' = Become(sys, p, Done([proc[p] EXCEPT !.fds = SetCloexec(@, h, on),
                                   !.marked = IF on THEN @ \cup {h} ELSE @ \ {h}], "-"))
  /\ UNCHANGED sent

\* sys_setsid: a new terminal on the handles 0, 1 and 2.
Setsid(p) ==
  /\ Active(p, "setsid")
  /\ LET new == [kind |-> "tty", id |-> 1]
         Put3(t) == InsertHandleAt(InsertHandleAt(InsertHandleAt(t, <<0, 0>>, new), <<1, 0>>, new), <<2, 0>>, new)
         r == [proc[p] EXCEPT !.fds = Put3(@), !.pgid = p, !.sid = p]
     IN sys' = Become(sys, p, Done(Gains(Gains(Gains(r, <<0, 0>>, new), <<1, 0>>, new), <<2, 0>>, new), "-"))
  /\ UNCHANGED sent

-----------------------------------------------------------------------------
(* Handles in messages *)

Held(s) == UNION {{s.proc[q].fds.map[i].obj : i \in DOMAIN s.proc[q].fds.map} : q \in Procs}
           \cup UNION {{s.queue[e][k].obj : k \in DOMAIN s.queue[e]} : e \in {1, 2}}
PeerGone(e) == End(3 - e) \notin Held(sys)

\* sys_channel_write of one handle: it leaves the table before the message is
\* written, and is lost if the peer is closed.
Send(p, end, h) ==
  LET t == proc[p].fds IN
  /\ Active(p, "send") /\ HasRights(t, end, {"WRITE"}) /\ Obj(t, end).kind = "chan"
  /\ h # end /\ HasRights(t, h, {"TRANSFER"})
  /\ Len(sys.queue[3 - Obj(t, end).id]) < MaxSleeps
  /\ LET e == Obj(t, end).id
         s == [sys EXCEPT !.proc[p] = Done([@ EXCEPT !.fds = RemoveHandle(t, h),
                            !.own = Restrict(@, DOMAIN @ \ {h}), !.marked = @ \ {h}, !.untold = @ \ {h}], "-")]
     IN sys' = IF PeerGone(e) THEN s
               ELSE [s EXCEPT !.queue[3 - e] = Append(@, t.map[h[1]])]
  /\ UNCHANGED sent

\* copy_msg_to_user: the handle is one generation ahead of its entry.
Minted(t, e) ==
  LET h == <<LowestFree(t), (e.gen + 1) % 2^16>>
  IN [table |-> InsertEntry(t, h, e), handle |-> h]

\* sys_channel_read when there is a message
Receive(p, end) ==
  LET t == proc[p].fds IN
  /\ Active(p, "recv") /\ HasRights(t, end, {"READ"}) /\ Obj(t, end).kind = "chan"
  /\ sys.queue[Obj(t, end).id] # <<>> /\ FreeIds(t) # {}
  /\ LET e == Obj(t, end).id
         m == Minted(t, Head(sys.queue[e]))
     IN sys' = [sys EXCEPT !.queue[e] = Tail(@),
                           !.proc[p] = Done([@ EXCEPT !.fds = m.table, !.got = m.handle,
                                                      !.untold = @ \cup {<<m.handle[1], Head(sys.queue[e]).gen>>}], "-")]
  /\ UNCHANGED sent

-----------------------------------------------------------------------------
(* fork, clone and exec *)

\* Process::new: handlers, masks, blocked signals, group, job and the handles
\* of the parent; nothing pending.  A thread keeps the parent's tgid, and is
\* made with CLONE_CHILD_CLEARTID.
Child(p, c, thread) ==
  [proc[p] EXCEPT !.st = "Running", !.at = "user", !.pend = {}, !.a0 = "0", !.status = 0,
                  !.tgid = IF thread THEN @ ELSE c, !.fds = Inherited(@), !.ppid = p,
                  !.cleartid = thread, !.want = <<>>]

Fork(p, c, thread) ==
  /\ Active(p, IF thread THEN "clone" ELSE "fork")
  /\ Parents[c] = p /\ proc[c].st = "unborn"
  /\ sys' = [sys EXCEPT !.proc[c] = Child(p, c, thread), !.proc[p] = Done(@, "-"), !.job = @ \cup {c}]
  /\ UNCHANGED sent

SetTidAddress(p) ==
  /\ Active(p, "tid")
  /\ sys' = Become(sys, p, Done([proc[p] EXCEPT !.cleartid = TRUE], "-"))
  /\ UNCHANGED sent

\* sys_exec: the new image starts at its entry.
Exec(p) ==
  /\ Active(p, "exec")
  /\ sys' = Become(sys, p, Done([ExecSignals(proc[p]) EXCEPT
               !.fds = CloseOnExec(@), !.own = Restrict(@, DOMAIN @ \ proc[p].marked),
               !.untold = @ \ proc[p].marked, !.marked = {}, !.base = proc[p].blk], "-"))
  /\ UNCHANGED sent

-----------------------------------------------------------------------------
SignalSteps(p) ==
  \/ Tick(p) \/ Sigreturn(p) \/ Setpgid(p)
  \/ \E stack \in BOOLEAN : TrapReturn(p, stack)
  \/ \E t \in Procs \cup {0} \cup {-g : g \in Procs}, sig \in may.sigs : Kill(p, t, sig)
  \/ \E q \in Procs, sig \in {s + 1 : s \in may.sigs} : Tgkill(p, q, sig)
  \/ \E a \in Actions : Sigaction(p, a[1], a[2], a[3])
  \/ \E how \in {"block", "unblock", "setmask"}, set \in Masks : Sigprocmask(p, how, set)

SleepSteps(p) ==
  \/ Nanosleep(p) \/ WakeSleeper(p) \/ FutexWait(p) \/ FutexWake(p) \/ EventComes(p)
  \/ \E c \in Retried : WaitEvent(p, c)
  \/ \E c \in Retried \cup {"-"} : Again(p, c)

LockSteps(p) ==
  \/ LkwSleep(p)
  \/ \E f \in FileIds, arg \in may.locks :
       \/ Unlock(p, f, arg)
       \/ \E type \in {"read", "write"} : SetLk(p, f, type, arg) \/ SetLkw(p, f, type, arg)

HandleSteps(p) ==
  \/ Setsid(p)
  \/ \E ptr \in BOOLEAN : Pipe(p, ptr)
  \/ \E h \in Ids \X {0, 1} :
       \/ Close(p, h) \/ DupCall(p, h)
       \/ HandleDuplicate(p, h, {"READ", "TRANSFER"})
       \/ \E dst \in {<<0, 0>>, <<3, 0>>} : Dup2Call(p, h, dst)
       \/ FDupFd(p, h, 3)
       \/ \E on \in BOOLEAN : MarkCloexec(p, h, on)
  \/ \E end \in Ids \X {1} :
       \/ Receive(p, end)
       \/ "send" \in may.calls[p] /\ \E h \in Ids \X {0, 1} : Send(p, end, h)

ProcessSteps(p) ==
  \/ Exit(p) \/ (\E status \in {-4, -7, -1} : Fault(p, status)) \/ Deschedule(p) \/ Reap(p)
  \/ ExitGroup(p) \/ Exec(p) \/ SetTidAddress(p)
  \/ \E self \in BOOLEAN : TaskKill(p, self)
  \/ \E c \in Procs, thread \in BOOLEAN : Fork(p, c, thread)

Next ==
  /\ UNCHANGED may
  /\ \E p \in Procs :
       SignalSteps(p) \/ SleepSteps(p) \/ LockSteps(p) \/ HandleSteps(p) \/ ProcessSteps(p)

Spec == Init /\ [][Next]_vars

-----------------------------------------------------------------------------
(* Properties *)

\* Every record of the process table, the lock tables and the queues has its
\* type; in particular the ids of a handle table are those of Ids.
TypeOK ==
  /\ sent \in 0..may.sends
  /\ \A p \in Procs :
       LET r == proc[p] IN
       /\ r.st \in {"unborn", "Running", "Stopped", "Zombie", "reaped"}
       /\ r.at \in {"user", "trap", "lkw", "off"} \cup Sleeps
       /\ r.pend \subseteq Sigs /\ r.blk \subseteq Sigs \cup {SIGKILL, SIGSTOP}
       /\ DOMAIN r.fds.map \subseteq Ids /\ r.fds.cloexec \subseteq Ids \X Generations
       /\ {r.pgid, r.tgid, r.sid} \subseteq Procs /\ r.ppid \in Procs \cup {Nobody}
  /\ \A f \in FileIds : \A r \in Range(sys.lk.held[f]) \cup Range(sys.lk.waiters[f]) :
       r.pid \in Procs /\ r.lo \in 0..Eof /\ r.hi \in 0..Eof
  /\ sys.lk.woken = {}

\* No two processes hold locks that exclude each other, after any mix of
\* requests, downgrades, unlocks, closes, exits and grants to waiters
\* (try_acquire, release_range, wake_lock_waiters).
LocksCompatible ==
  \A f \in FileIds : \A r, e \in Range(sys.lk.held[f]) : ~Conflicts(r, e)

\* A process asleep in F_SETLKW whose lock nothing excludes any more: the file
\* was shrunk.  Every unlock, close and exit looks at the waiters
\* (release_range, release_all_locks); a lock replaced by a smaller one, and
\* an unlock between the failed try and the queueing, does not.
NoForgottenWaiter ==
  \A f \in FileIds : Grantable(sys.lk, f) # {} => f \in sys.shrunk

\* A process that is told in F_SETLKW that it has its lock holds that lock
\* (wake_lock_waiters acquires before it wakes), whatever signals interrupted
\* it before.  Left out is a process with a second request in the queue, from a
\* call that a signal ended: the grant of that one answers the wrong call.
GrantedIsHeld ==
  [][\A p \in Procs :
       (/\ proc[p].at = "lock" /\ proc'[p].a0 = "locked"
        /\ LET queue == sys.lk.waiters[proc[p].want[1]]
           IN Cardinality({i \in DOMAIN queue : queue[i].pid = p}) = 1)
         => proc[p].want[2] \in Range(sys'.lk.held[proc[p].want[1]])]_vars

\* No handler is entered again for the signal it handles, unless the program
\* changes its mask itself (delivery in rust_trap_handler blocks the signal,
\* sigreturn unblocks it).
NoReentry ==
  \A p \in Procs : "sigprocmask" \notin may.calls[p] =>
    \A i, j \in DOMAIN proc[p].frames :
      proc[p].frames[i].sig = proc[p].frames[j].sig => i = j

\* Outside all handlers the blocked signals are those the program chose: every
\* chain of nested handlers, sigreturns and execs gives the mask back.
MaskRestored ==
  \A p \in Procs : InTable(sys, p) /\ proc[p].frames = <<>> => proc[p].blk = proc[p].base

\* A process goes on exactly at the call it made or right after it, and does
\* not repeat a call that returned EINTR, through any nesting of handlers
\* (wake_with_eintr undoes the step back of sepc, once).  That holds of calls
\* that step back, waitpid and mailbox_receive.  A process that a signal takes
\* out of nanosleep, futex, F_SETLKW or a stop is left out from then on:
\* wake_with_eintr adds 4 to a sepc nobody moved, and it goes on one
\* instruction too far.
ResumesExactly ==
  \A p \in Procs : ~proc[p].skipped =>
    /\ proc[p].pc \in {-1, 0}
    /\ proc[p].pc = -1 => ~(proc[p].a0 = "EINTR" /\ proc[p].at = "user")

\* Every handle a program holds names the object it was given for, whatever
\* else was opened, closed, duplicated, sent, inherited or replaced by exec,
\* and no other number names anything: one that was closed stays dead until
\* a call gives that same number out again.  It then names the new object, for
\* whoever kept the old one as well, because a freed slot starts at generation 1
\* again (insert, insert_with_rights): the generation protects only from
\* numbers of generation 0.  Two uses lose a handle and are left out: F_DUPFD,
\* and FD_CLOEXEC together with dup2 or setsid, which leave the mark of a
\* replaced entry behind.
HandleStable ==
  \A p \in Procs :
    (InTable(sys, p) /\ "dupfd" \notin may.calls[p] /\ ~("cloexec" \in may.calls[p] /\ may.calls[p] \cap {"dup2", "setsid"} # {}))
      => /\ \A h \in DOMAIN proc[p].own :
              Has(proc[p].fds, h) /\ Obj(proc[p].fds, h) = proc[p].own[h]
         /\ Valid(proc[p].fds) \subseteq DOMAIN proc[p].own \cup proc[p].untold

\* A handle received over a channel can be used (copy_msg_to_user).
ReceivedHandleWorks ==
  [][\A p \in Procs :
       \A h \in Ids \X Generations : (proc'[p].got = h /\ proc[p].got # h) => Has(proc'[p].fds, h)]_vars
=============================================================================
