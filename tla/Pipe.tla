-------------------------------- MODULE Pipe --------------------------------
(***************************************************************************)
(* A pipe: the byte queue behind its lock, the waiter word, the sentinels  *)
(* that count the open ends.  create_pipe and Drop of PipeWriteHalf in     *)
(* src/src/ipc/handle.rs; sys_read and sys_write on a pipe in              *)
(* src/src/syscall/fs.rs.                                                  *)
(***************************************************************************)
EXTENDS Epoll

VARIABLES
  pipeData,    \* bytes in the queue
  pipeLock,    \* holder of the queue's lock across several steps
  pipeWaiter,  \* the waiter word
  writeEnds,   \* strong count of the write sentinel, as its owners
  readEnds,    \* owners of read halves
  sigpipe      \* processes with SIGPIPE pending

pipeVars == <<pipeData, pipeLock, pipeWaiter, writeEnds, readEnds, sigpipe>>

PipeInit ==
  /\ pipeData = 0 /\ pipeLock = Nobody /\ pipeWaiter = Nobody
  /\ writeEnds = {p \in Procs : "pipe_write" \in may[p]}
  /\ readEnds = {p \in Procs : "pipe_read" \in may[p]}
  /\ sigpipe = {}

PipeTypeOK ==
  /\ pipeData \in Nat
  /\ pipeLock \in Procs \cup {Nobody} /\ pipeWaiter \in Procs \cup {Nobody}
  /\ writeEnds \subseteq Procs /\ readEnds \subseteq Procs /\ sigpipe \subseteq Procs

\* With data, take up to n bytes.  Without, the lock is kept while the
\* sentinel is looked at and the waiter registered.
PipeRead(p, n) ==
  /\ Enters(p, "pipe_read") /\ p \in readEnds /\ pipeLock = Nobody
  /\ IF pipeData > 0
     THEN /\ pipeData' = IF n < pipeData THEN pipeData - n ELSE 0
          /\ Moves(p, "pipe_read", "user", WakesNobody)
          /\ UNCHANGED pipeLock
     ELSE /\ UNCHANGED pipeData
          /\ IF writeEnds = {}
             THEN Moves(p, "pipe_read", "user", WakesNobody) /\ UNCHANGED pipeLock
             ELSE Moves(p, "pipe_read", "register", WakesNobody) /\ pipeLock' = p
  /\ UNCHANGED <<pipeWaiter, writeEnds, readEnds, sigpipe>>

PipeRegister(p) ==
  /\ At(p, {"pipe_read"}, "register")
  /\ pipeWaiter' = p
  /\ Goes(p, "recheck")
  /\ UNCHANGED <<pipeData, pipeLock, writeEnds, readEnds, sigpipe>>

\* All write ends gone meanwhile: retract and return 0.  Otherwise unlock
\* and block.
PipeRecheck(p) ==
  /\ At(p, {"pipe_read"}, "recheck")
  /\ IF writeEnds = {}
     THEN Goes(p, "retract") /\ UNCHANGED pipeLock
     ELSE Goes(p, "asleep") /\ pipeLock' = Nobody
  /\ UNCHANGED <<pipeData, pipeWaiter, writeEnds, readEnds, sigpipe>>

PipeRetract(p) ==
  /\ At(p, {"pipe_read"}, "retract")
  /\ pipeWaiter' = Nobody /\ pipeLock' = Nobody
  /\ Goes(p, "user")
  /\ UNCHANGED <<pipeData, writeEnds, readEnds, sigpipe>>

\* No reader left: SIGPIPE unless the process blocks it, and EPIPE.
PipeWrite(p) ==
  /\ Enters(p, "pipe_write") /\ p \in writeEnds
  /\ \E blocked \in BOOLEAN :
       sigpipe' = IF readEnds = {} /\ ~blocked THEN sigpipe \cup {p} ELSE sigpipe
  /\ Moves(p, "pipe_write", IF readEnds = {} THEN "user" ELSE "push", WakesNobody)
  /\ UNCHANGED <<pipeData, pipeLock, pipeWaiter, writeEnds, readEnds>>

PipePush(p) ==
  /\ At(p, {"pipe_write"}, "push") /\ pipeLock = Nobody
  /\ pipeData' = pipeData + 1
  /\ Goes(p, "pipe_wake")
  /\ UNCHANGED <<pipeLock, pipeWaiter, writeEnds, readEnds, sigpipe>>

\* Faulty variant: the waiter is taken and not enqueued when there is data
\* already (it is assumed to be awake).
PipeWakeSkipped(p) ==
  /\ At(p, {"pipe_write", "pipe_close"}, "pipe_wake")
  /\ GoesWaking(p, "pipe_epoll", IF pipeData > 1 THEN Nobody ELSE pipeWaiter)
  /\ pipeWaiter' = Nobody
  /\ UNCHANGED <<pipeData, pipeLock, writeEnds, readEnds, sigpipe>>

\* The waiter word is swapped and the reader enqueued: after a push, and by
\* the Drop of what it takes for the last write half.
PipeWake(p) ==
  /\ At(p, {"pipe_write", "pipe_close"}, "pipe_wake")
  /\ GoesWaking(p, "pipe_epoll", pipeWaiter)
  /\ pipeWaiter' = Nobody
  /\ UNCHANGED <<pipeData, pipeLock, writeEnds, readEnds, sigpipe>>

PipeEpoll(p) ==
  /\ At(p, {"pipe_write", "pipe_close"}, "pipe_epoll")
  /\ WakeEpollWaiters(p, "pipe", IF call[p] = "pipe_close" THEN "release" ELSE "user")
  /\ UNCHANGED pipeVars

\* Drop of a write half wakes the reader when it is the last one, and only
\* then is the sentinel released.
PipeClose(p) ==
  /\ Enters(p, "pipe_close") /\ p \in writeEnds
  /\ Moves(p, "pipe_close", IF writeEnds = {p} THEN "pipe_wake" ELSE "release", WakesNobody)
  /\ UNCHANGED pipeVars

PipeRelease(p) ==
  /\ At(p, {"pipe_close"}, "release")
  /\ writeEnds' = writeEnds \ {p}
  /\ Goes(p, "user")
  /\ UNCHANGED <<pipeData, pipeLock, pipeWaiter, readEnds, sigpipe>>

PipeCloseRead(p) ==
  /\ Enters(p, "pipe_close_read") /\ p \in readEnds
  /\ readEnds' = readEnds \ {p}
  /\ Moves(p, "pipe_close_read", "user", WakesNobody)
  /\ UNCHANGED <<pipeData, pipeLock, pipeWaiter, writeEnds, sigpipe>>

PipeStep(p) ==
  \/ /\ \/ \E n \in 1..2 : PipeRead(p, n)
        \/ PipeRegister(p) \/ PipeRecheck(p) \/ PipeRetract(p)
        \/ PipeWrite(p) \/ PipePush(p) \/ PipeWake(p)
        \/ PipeClose(p) \/ PipeRelease(p) \/ PipeCloseRead(p)
     /\ UNCHANGED epollVars
  \/ PipeEpoll(p)

\* check_fd_readiness of the read half
PipeReady == pipeData > 0 \/ writeEnds = {}

-----------------------------------------------------------------------------
\* A reader blocked on a pipe with bytes in it is about to be woken: the
\* writer that pushed them has not swapped the waiter word yet.
PipeReaderNotStranded ==
  \A p \in Procs :
    Sleeps(p, {"pipe_read"}) /\ pipeData > 0
      => pipeWaiter = p /\ \E q \in Procs : pc[q] = "pipe_wake"

\* No reader stays blocked on a pipe whose write ends are all closed.  (Drop
\* wakes the reader before the sentinel is released, so this fails.)
PipeEofSeen ==
  \A p \in Procs : Sleeps(p, {"pipe_read"}) => writeEnds # {}
=============================================================================
