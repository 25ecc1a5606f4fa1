------------------------------- MODULE Epoll -------------------------------
(***************************************************************************)
(* One epoll instance (src/src/syscall/epoll.rs and EpollInstance in       *)
(* src/src/ipc/handle.rs): interest list, waiter, saved signal mask, and   *)
(* the lists of the watched objects that point back to it.                 *)
(*                                                                         *)
(* The modules of the watched objects extend this one and call             *)
(* WakeEpollWaiters; the readiness of those objects is a parameter of the  *)
(* operations that poll.                                                   *)
(***************************************************************************)
EXTENDS Wakeups

CONSTANTS Watchable   \* the objects it may watch

EpollCalls == {"epoll_wait", "epoll_timed", "epoll_poll"}

VARIABLES
  epItems,   \* the watched objects
  epEdge,    \* those registered with EPOLLET
  epLast,    \* those whose last_state says ready
  epLists,   \* objects whose epoll_waiters list holds the instance
  epWaiter,  \* EpollInstance.waiter
  epSaved,   \* EpollInstance.saved_sigmask, or "none"
  mask,      \* blocked_signals of each process: its own, or a pwait's
  timers,    \* entries of each process in SLEEP_QUEUE
  eintr,     \* sleepers whose trap frame already holds EINTR and the next sepc
  cut        \* history: those whose last return left a pwait's mask in force

epollVars == <<epItems, epEdge, epLast, epLists, epWaiter, epSaved, mask, timers, eintr, cut>>

EpollInit ==
  /\ epItems = {} /\ epEdge = {} /\ epLast = {} /\ epLists = {}
  /\ epWaiter = Nobody
  /\ epSaved = "none"
  /\ mask = [p \in Procs |-> "own"]
  /\ timers = [p \in Procs |-> 0]
  /\ eintr = {} /\ cut = {}

EpollTypeOK ==
  /\ epItems \subseteq Watchable /\ epLists \subseteq Watchable
  /\ epEdge \subseteq Watchable /\ epLast \subseteq Watchable
  /\ epWaiter \in Procs \cup {Nobody}
  /\ epSaved \in {"none", "own", "given"}
  /\ mask \in [Procs -> {"own", "given"}]
  /\ timers \in [Procs -> Nat]
  /\ eintr \subseteq Procs /\ cut \subseteq Procs

\* The step of another call that runs wake_epoll_waiters on the list of o.
WakeEpollWaiters(p, o, place) ==
  IF o \in epLists
  THEN /\ GoesWaking(p, place, epWaiter)
       /\ epWaiter' = Nobody
       /\ UNCHANGED <<epItems, epEdge, epLast, epLists, epSaved, mask, timers, eintr, cut>>
  ELSE Goes(p, place) /\ UNCHANGED epollVars

-----------------------------------------------------------------------------
(* sys_epoll_ctl *)

SetEdge(o, edge)   == epEdge' = IF edge THEN epEdge \cup {o} ELSE epEdge \ {o}
SetLast(o, ready)  == epLast' = (epLast \ {o}) \cup ({o} \cap ready)

\* ADD: the item is inserted with the readiness of now; the instance joins
\* the object's list afterwards.
EpollAdd(p, o, edge, ready) ==
  /\ Enters(p, "epoll_ctl") /\ o \notin epItems
  /\ epItems' = epItems \cup {o}
  /\ SetEdge(o, edge) /\ SetLast(o, ready)
  /\ Moves(p, "epoll_ctl", "register", WakesNobody)
  /\ UNCHANGED <<epLists, epWaiter, epSaved, mask, timers, eintr, cut>>

EpollAddRegister(p, o) ==
  /\ At(p, {"epoll_ctl"}, "register") /\ o \in epItems \ epLists
  /\ epLists' = epLists \cup {o}
  /\ Goes(p, "user")
  /\ UNCHANGED <<epItems, epEdge, epLast, epWaiter, epSaved, mask, timers, eintr, cut>>

EpollMod(p, o, edge, ready) ==
  /\ Enters(p, "epoll_ctl") /\ o \in epItems
  /\ SetEdge(o, edge) /\ SetLast(o, ready)
  /\ Moves(p, "epoll_ctl", "user", WakesNobody)
  /\ UNCHANGED <<epItems, epLists, epWaiter, epSaved, mask, timers, eintr, cut>>

\* DEL: the item goes first; the instance leaves the object's list under
\* another lock.
EpollDel(p, o) ==
  /\ Enters(p, "epoll_ctl") /\ o \in epItems
  /\ epItems' = epItems \ {o}
  /\ Moves(p, "epoll_ctl", "unregister", WakesNobody)
  /\ UNCHANGED <<epEdge, epLast, epLists, epWaiter, epSaved, mask, timers, eintr, cut>>

EpollDelUnregister(p, o) ==
  /\ At(p, {"epoll_ctl"}, "unregister") /\ o \in epLists \ epItems
  /\ epLists' = epLists \ {o}
  /\ Goes(p, "user")
  /\ UNCHANGED <<epItems, epEdge, epLast, epWaiter, epSaved, mask, timers, eintr, cut>>

-----------------------------------------------------------------------------
(* sys_epoll_pwait.  epoll_timed and epoll_poll pass a signal mask.        *)
(* The programs mark with "signalled" a process that others send signals   *)
(* to, with "unmapped" one whose buffer or descriptor another thread may   *)
(* take away while it sleeps.                                              *)

\* swap of saved_sigmask with -1, and the mask put back if there was one
RestoreMask(p) ==
  /\ mask' = IF epSaved = "none" THEN mask ELSE [mask EXCEPT ![p] = epSaved]
  /\ epSaved' = "none"
  /\ cut' = cut \ {p}

\* Faulty variant: the early return forgets the saved mask.
EpollExpireUnrestored(p, c) ==
  /\ Enters(p, c) /\ epWaiter = p /\ p \notin eintr
  /\ epWaiter' = Nobody
  /\ Moves(p, c, "user", WakesNobody)
  /\ UNCHANGED <<epItems, epEdge, epLast, epLists, epSaved, mask, timers, eintr, cut>>

\* Executed with its own pid still the waiter: taken for a timeout.  A call
\* made after one that ended with EINTR returns here as well.
EpollExpire(p, c) ==
  /\ Enters(p, c) /\ epWaiter = p /\ p \notin eintr
  /\ epWaiter' = Nobody
  /\ RestoreMask(p)
  /\ Moves(p, c, "user", WakesNobody)
  /\ UNCHANGED <<epItems, epEdge, epLast, epLists, timers, eintr>>

Cuts(p) == cut' = IF mask[p] = "given" THEN cut \cup {p} ELSE cut

\* EBADF, or EFAULT when it is not the waiter any more: nothing is put back.
EpollFails(p, c) ==
  /\ Enters(p, c) /\ "unmapped" \in may[p] /\ p \notin eintr
  /\ Cuts(p)
  /\ Moves(p, c, "user", WakesNobody)
  /\ UNCHANGED <<epItems, epEdge, epLast, epLists, epWaiter, epSaved, mask, timers, eintr>>

\* sys_kill by another process: a Stopped sleeper gets EINTR and the sepc
\* after the call, Running and a run-queue entry.
WakeWithEintr(p) ==
  /\ "signalled" \in may[p] /\ p \in stopped /\ At(p, EpollCalls, "asleep")
  /\ eintr' = eintr \cup {p}
  /\ entries' = [entries EXCEPT ![p] = @ + 1]
  /\ stopped' = stopped \ {p}
  /\ UNCHANGED <<may, calls, call, pc,
                 epItems, epEdge, epLast, epLists, epWaiter, epSaved, mask, timers, cut>>

\* Popped, it goes on in user mode: neither the waiter word nor the mask of
\* the call is looked at.
EpollInterrupted(p, c) ==
  /\ Enters(p, c) /\ p \in eintr
  /\ eintr' = eintr \ {p}
  /\ Cuts(p)
  /\ Moves(p, c, "user", WakesNobody)
  /\ UNCHANGED <<epItems, epEdge, epLast, epLists, epWaiter, epSaved, mask, timers>>

\* The mask of the call is put in force unless one is saved already.
EpollMask(p, c) ==
  /\ Enters(p, c) /\ epWaiter # p /\ p \notin eintr
  /\ IF c # "epoll_wait" /\ epSaved = "none"
     THEN epSaved' = mask[p] /\ mask' = [mask EXCEPT ![p] = "given"]
     ELSE UNCHANGED <<epSaved, mask>>
  /\ Moves(p, c, "collect", WakesNobody)
  /\ UNCHANGED <<epItems, epEdge, epLast, epLists, epWaiter, timers, eintr, cut>>

\* collect_ready: level-triggered items that are ready, edge-triggered ones
\* that were not at the last look.
Collected(ready) == {o \in epItems \cap ready : o \notin epEdge \cap epLast}

EpollCollect(p, ready) ==
  /\ At(p, EpollCalls, "collect")
  /\ epLast' = (epLast \ (epItems \cap epEdge)) \cup (epItems \cap epEdge \cap ready)
  /\ IF Collected(ready) # {} \/ call[p] = "epoll_poll"
     THEN RestoreMask(p) /\ Goes(p, "user")
     ELSE Goes(p, "wait") /\ UNCHANGED <<epSaved, mask, cut>>
  /\ UNCHANGED <<epItems, epEdge, epLists, epWaiter, timers, eintr>>

EpollRegister(p) ==
  /\ At(p, EpollCalls, "wait")
  /\ epWaiter' = p
  /\ Goes(p, "sleep")
  /\ UNCHANGED <<epItems, epEdge, epLast, epLists, epSaved, mask, timers, eintr, cut>>

\* The SLEEP_QUEUE entry of an unbounded wait is ten years away: left out.
EpollSleep(p) ==
  /\ At(p, EpollCalls, "sleep")
  /\ timers' = [timers EXCEPT ![p] = IF call[p] = "epoll_timed" THEN @ + 1 ELSE @]
  /\ Goes(p, "stop")
  /\ UNCHANGED <<epItems, epEdge, epLast, epLists, epWaiter, epSaved, mask, eintr, cut>>

EpollStop(p) ==
  /\ At(p, EpollCalls, "stop")
  /\ StopsAsleep(p)
  /\ UNCHANGED epollVars

\* wake_sleepers, on the timer interrupt.  Nothing removes the entry of a
\* call that has returned.
WakeSleepers(p) ==
  /\ timers[p] > 0
  /\ timers' = [timers EXCEPT ![p] = @ - 1]
  /\ entries' = [entries EXCEPT ![p] = @ + 1]
  /\ stopped' = stopped \ {p}
  /\ UNCHANGED <<may, calls, call, pc,
                 epItems, epEdge, epLast, epLists, epWaiter, epSaved, mask, eintr, cut>>

\* open: the objects there are; ready: those that are ready
EpollStep(p, open, ready) ==
  \/ \E o \in open, edge \in BOOLEAN :
       EpollAdd(p, o, edge, ready) \/ EpollMod(p, o, edge, ready)
  \/ \E o \in open : EpollAddRegister(p, o) \/ EpollDel(p, o) \/ EpollDelUnregister(p, o)
  \/ \E c \in EpollCalls :
       EpollExpire(p, c) \/ EpollMask(p, c) \/ EpollFails(p, c) \/ EpollInterrupted(p, c)
  \/ EpollCollect(p, ready) \/ EpollRegister(p) \/ EpollSleep(p) \/ EpollStop(p)
  \/ WakeSleepers(p) \/ WakeWithEintr(p)

-----------------------------------------------------------------------------
(* Properties *)

\* A process that has left epoll_pwait with events, after a zero timeout, by a
\* timer or by the timer of an earlier call runs with its own signal mask
\* again.  One that left with EINTR, EBADF or EFAULT runs on with the mask of
\* the call, but its own is not lost: the instance keeps it, a later pwait
\* does not overwrite it, and the next return of the first kind puts it back.
PwaitMaskKept ==
  \A p \in Procs : pc[p] = "user" => mask[p] = "own" \/ (p \in cut /\ epSaved = "own")
=============================================================================
