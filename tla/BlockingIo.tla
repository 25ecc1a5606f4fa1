----------------------------- MODULE BlockingIo -----------------------------
(***************************************************************************)
(* The kernel objects a process can block on, together with the epoll      *)
(* instance that watches some of them: processes on several harts, the     *)
(* interrupt handler, and one run queue.                                   *)
(***************************************************************************)
EXTENDS Channel, Pipe, Futex, Mailbox, Tty

vars == <<wakeVars, epollVars, chanVars, pipeVars, futexVars, mailVars, ttyVars>>

Init ==
  /\ WakeInit /\ EpollInit
  /\ ChannelInit /\ PipeInit /\ FutexInit /\ MailboxInit /\ TtyInit

\* check_fd_readiness of every watched object
ReadyObjects ==
  {o \in Watchable : \/ o = "channel" /\ ChannelReady
                     \/ o = "pipe" /\ PipeReady
                     \/ o = "tty" /\ TtyReady}

OpenObjects ==
  {o \in Watchable : \/ o = "channel" /\ readers \cup writers # {}
                     \/ o = "pipe" /\ readEnds \cup writeEnds # {}
                     \/ o = "tty" /\ TtyUsed}

Next ==
  \/ \E p \in Procs :
       \/ EpollStep(p, OpenObjects, ReadyObjects)
            /\ UNCHANGED <<chanVars, pipeVars, futexVars, mailVars, ttyVars>>
       \/ ChannelStep(p) /\ UNCHANGED <<pipeVars, futexVars, mailVars, ttyVars>>
       \/ PipeStep(p) /\ UNCHANGED <<chanVars, futexVars, mailVars, ttyVars>>
       \/ FutexStep(p) /\ UNCHANGED <<chanVars, pipeVars, mailVars, ttyVars>>
       \/ MailboxStep(p) /\ UNCHANGED <<chanVars, pipeVars, futexVars, ttyVars>>
  \/ TtyStep /\ UNCHANGED <<chanVars, pipeVars, futexVars, mailVars>>

Spec == Init /\ [][Next]_vars

-----------------------------------------------------------------------------
TypeOK ==
  /\ WakeTypeOK /\ EpollTypeOK
  /\ ChannelTypeOK /\ PipeTypeOK /\ FutexTypeOK /\ MailboxTypeOK /\ TtyTypeOK

\* A process blocked on a pipe, a futex or the terminal that has what it waits
\* for is about to be woken: sys_read, FUTEX_WAIT and the interrupt handler
\* register and look again under the lock their wakers take.
NoWaiterStranded ==
  PipeReaderNotStranded /\ FutexNotStranded /\ TtyReaderNotStranded

\* So is a process blocked on a channel, a port or a channel's signals, where
\* the look after registering makes up for the missing common lock.
NoChannelWaiterStranded ==
  ReaderNotStranded /\ PortWaiterNotStranded /\ SignalWaiterNotStranded

\* A process asleep in a call whose wakers look at its state (mailbox_send
\* and the terminal's Ctrl-C enqueue only a Stopped process) is Stopped as
\* long as nothing has enqueued it: timers, futex wakes, mail and Ctrl-C, one
\* after the other or at once, never leave it Running and off the run queue.
SleeperIsStopped ==
  \A p \in Procs :
    Sleeps(p, {"mailbox_receive", "futex_wait"} \cup EpollCalls) => p \in stopped

\* A process blocked in epoll_pwait on an object that is ready is about to be
\* woken.  (epoll_pwait does not look again after registering, and closing a
\* channel wakes no epoll instance, so this fails.)
EpollSleeperNotStranded ==
  \A p \in Procs :
    Sleeps(p, EpollCalls) /\ Collected(ReadyObjects) # {}
      => \/ \E q \in Procs : pc[q] \in {"wake", "epoll", "pipe_wake", "pipe_epoll"}
         \/ isr # "idle"
=============================================================================
