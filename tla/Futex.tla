------------------------------- MODULE Futex -------------------------------
(***************************************************************************)
(* sys_futex (src/src/syscall/proc.rs) on one word, used as its callers    *)
(* do: a process waits while the word is 0; another sets it and wakes.     *)
(***************************************************************************)
EXTENDS Epoll

VARIABLES
  word,      \* the user's word
  futexq,    \* FUTEX_TABLE's waiters for its address
  toWake     \* pids drained by a FUTEX_WAKE and not enqueued yet

futexVars == <<word, futexq, toWake>>

FutexInit == word = 0 /\ futexq = <<>> /\ toWake = [p \in Procs |-> <<>>]

FutexTypeOK ==
  /\ word \in {0, 1}
  /\ futexq \in Seq(Procs)
  /\ toWake \in [Procs -> Seq(Procs)]

\* FUTEX_WAIT: the table's lock is held over the comparison and the push.
FutexWait(p) ==
  /\ Enters(p, "futex_wait") /\ pc[p] = "user"
  /\ futexq' = IF word = 0 THEN Append(futexq, p) ELSE futexq
  /\ Moves(p, "futex_wait", IF word = 0 THEN "stop" ELSE "user", WakesNobody)
  /\ UNCHANGED <<word, toWake>>

\* It then marks itself Stopped and gives up the hart.
FutexStop(p) ==
  /\ At(p, {"futex_wait"}, "stop")
  /\ StopsAsleep(p)
  /\ UNCHANGED futexVars

\* Woken, the call returns 0; it is not executed again.
FutexReturn(p) ==
  /\ At(p, {"futex_wait"}, "asleep") /\ entries[p] > 0
  /\ Goes(p, "user")
  /\ UNCHANGED futexVars

\* The user changes the word, then makes the call.
FutexSet(p, v) ==
  /\ Enters(p, "futex_wake")
  /\ word' = v
  /\ Moves(p, "futex_wake", "drain", WakesNobody)
  /\ UNCHANGED <<futexq, toWake>>

\* FUTEX_WAKE: up to n waiters leave the queue, oldest first; 0 means 1.
FutexDrain(p, n) ==
  /\ At(p, {"futex_wake"}, "drain")
  /\ LET asked == IF n = 0 THEN 1 ELSE n
         k     == IF asked < Len(futexq) THEN asked ELSE Len(futexq)
     IN /\ toWake' = [toWake EXCEPT ![p] = SubSeq(futexq, 1, k)]
        /\ futexq' = SubSeq(futexq, k + 1, Len(futexq))
  /\ Goes(p, "enqueue")
  /\ UNCHANGED word

\* Each is set Running and enqueued.
FutexEnqueue(p) ==
  /\ At(p, {"futex_wake"}, "enqueue")
  /\ IF toWake[p] = <<>>
     THEN Goes(p, "user") /\ UNCHANGED toWake
     ELSE /\ toWake' = [toWake EXCEPT ![p] = Tail(@)]
          /\ entries' = [entries EXCEPT ![Head(toWake[p])] = @ + 1]
          /\ stopped' = stopped \ {Head(toWake[p])}
          /\ UNCHANGED <<may, calls, call, pc>>
  /\ UNCHANGED <<word, futexq>>

FutexStep(p) ==
  /\ \/ FutexWait(p) \/ FutexStop(p) \/ FutexReturn(p)
     \/ \E v \in {0, 1} : FutexSet(p, v)
     \/ \E n \in 0..2 : FutexDrain(p, n)
     \/ FutexEnqueue(p)
  /\ UNCHANGED epollVars

-----------------------------------------------------------------------------
\* Once the word has changed, not every waiter can be left behind: when all
\* the processes that wait are asleep and off the run queue, a process that
\* changed the word has still to drain the queue or to enqueue what it took.
\* The comparison races with the store and with the drain of FUTEX_WAKE here.
FutexNotStranded ==
  LET waiters == {p \in Procs : "futex_wait" \in may[p]}
  IN /\ word = 1
     /\ waiters # {}
     /\ \A p \in waiters : Sleeps(p, {"futex_wait"})
     => \E q \in Procs : \/ At(q, {"futex_wake"}, "drain")
                         \/ At(q, {"futex_wake"}, "enqueue") /\ toWake[q] # <<>>
=============================================================================
