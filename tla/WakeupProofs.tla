---------------------------- MODULE WakeupProofs ----------------------------
(***************************************************************************)
(* No wakeup is lost on a pipe, a futex or a terminal in BlockingIo:       *)
(* whoever sleeps for something that is there is about to be woken, for    *)
(* every number of processes, every program of calls and every bound.      *)
(***************************************************************************)
EXTENDS BlockingIoProofs

-----------------------------------------------------------------------------
(* The reader of a pipe *)

\* A pipe's reader keeps the lock from its look at the queue until it blocks,
\* and is in the waiter word until a waker takes it out to enqueue it.
PipeReaderInv ==
  \A p \in Procs : call[p] = "pipe_read" =>
    /\ pc[p] \in {"register", "recheck", "retract"} => pipeLock = p /\ pipeData = 0
    /\ pc[p] \in {"recheck", "asleep"} /\ entries[p] = 0 => pipeWaiter = p
    /\ pc[p] = "asleep" /\ entries[p] = 0 /\ pipeData > 0 => \E q \in Procs : pc[q] = "pipe_wake"

\* A step that leaves the queue, its lock and the waiter word alone, by a
\* process that neither reads nor is about to wake the reader.
LEMMA PipeBystander ==
  ASSUME BaseInv, BaseInv', PipeReaderInv, NEW p \in Procs, OthersKeep(p),
         call'[p] # "pipe_read", pc[p] # "pipe_wake", UNCHANGED <<pipeData, pipeLock, pipeWaiter>>
  PROVE  PipeReaderInv'
<1>1. \A q \in Procs : entries[q] \in Nat /\ entries'[q] \in Nat
  BY Zenon DEF BaseInv, TypeOK, WakeTypeOK
<1>2. ASSUME NEW q \in Procs, pc[q] = "pipe_wake" PROVE pc'[q] = "pipe_wake"
  BY <1>2, Zenon DEF OthersKeep
<1>3. ASSUME NEW r \in Procs, call'[r] = "pipe_read"
      PROVE  r # p /\ pc'[r] = pc[r] /\ call[r] = "pipe_read" /\ (entries'[r] = 0 => entries[r] = 0)
  BY <1>1, <1>3 DEF OthersKeep
<1> QED BY <1>2, <1>3, Zenon DEF PipeReaderInv

LEMMA PipeReaderStep ==
  ASSUME BaseInv, BaseInv', Exclusive({"pipe_read"}), PipeReaderInv, [Next]_vars
  PROVE  PipeReaderInv'
<1>w. WakeTypeOK /\ PipeTypeOK /\ \A q \in Procs : entries[q] \in Nat /\ entries'[q] \in Nat
  BY Zenon DEF BaseInv, TypeOK, WakeTypeOK
<1>1. ASSUME Apart(PipeCalls), UNCHANGED pipeVars PROVE PipeReaderInv'
  <2>1. ASSUME NEW q \in Procs, pc[q] = "pipe_wake" PROVE pc'[q] = "pipe_wake"
    BY <1>1, <2>1, Zenon DEF BaseInv, Flow, Fits, Apart, Untouched, PipeCalls
  <2>2. ASSUME NEW r \in Procs, call'[r] = "pipe_read"
        PROVE  pc'[r] = pc[r] /\ call[r] = "pipe_read" /\ (entries'[r] = 0 => entries[r] = 0)
    BY <1>1, <1>w, <2>2 DEF Apart, Untouched, PipeCalls
  <2> QED BY <1>1, <2>1, <2>2, Zenon DEF PipeReaderInv, pipeVars
<1>2. ASSUME NEW p \in Procs, PipeStep(p) PROVE PipeReaderInv'
  \* steps of the reader: there is no other
  <2>o. ASSUME "pipe_read" \in may[p], OthersKeep(p), NEW r \in Procs, call'[r] = "pipe_read"
        PROVE  r = p
    <3>1. CASE r # p
      <4>1. call[r] = "pipe_read" /\ may[p] \cap {"pipe_read"} # {}
        BY <2>o, <3>1, Zenon DEF OthersKeep
      <4> QED BY <4>1, OnlyOne, Zenon
    <3> QED BY <3>1, Zenon
  <2>1. ASSUME NEW n \in 1..2, PipeRead(p, n) PROVE PipeReaderInv'
    <3>1. "pipe_read" \in may[p]
      BY <2>1, Zenon DEF PipeRead, Enters, BaseInv, Allowed
    <3>2. PICK place \in {"user", "register"} : Moves(p, "pipe_read", place, WakesNobody)
      BY <2>1, Zenon DEF PipeRead
    <3>3. OthersKeep(p) /\ pc'[p] = place /\ call'[p] = (IF place = "user" THEN "none" ELSE "pipe_read")
      BY <1>w, <3>2, MovesQuietly, Zenon
    <3>4. pc'[p] = "register" => pipeLock' = p /\ pipeData' = 0
      BY <1>w, <2>1, MovesQuietly DEF PipeRead, PipeTypeOK
    <3> QED BY <2>o, <3>1, <3>3, <3>4, Zenon DEF PipeReaderInv
  <2>2. ASSUME PipeRegister(p) \/ PipeRecheck(p) \/ PipeRetract(p) PROVE PipeReaderInv'
    <3>1. call[p] = "pipe_read" /\ pc[p] \in {"register", "recheck", "retract"}
      BY <2>2, Zenon DEF PipeRegister, PipeRecheck, PipeRetract, At
    <3>2. "pipe_read" \in may[p]
      BY <3>1, Zenon DEF BaseInv, Allowed
    <3>3. pipeLock = p /\ pipeData = 0
      BY <3>1, Zenon DEF PipeReaderInv
    <3>4. PICK place \in {"user", "recheck", "retract", "asleep"} : Moves(p, call[p], place, WakesNobody)
      BY <2>2, Zenon DEF PipeRegister, PipeRecheck, PipeRetract, Goes
    <3>5. /\ OthersKeep(p) /\ pc'[p] = place /\ call'[p] = (IF place = "user" THEN "none" ELSE "pipe_read")
          /\ entries'[p] = entries[p]
      BY <1>w, <3>1, <3>4, MovesQuietly, ZenonT(30)
    <3>6. /\ pc'[p] \in {"register", "recheck", "retract"} => pipeLock' = p /\ pipeData' = 0
          /\ pc'[p] \in {"recheck", "asleep"} /\ entries'[p] = 0 => pipeWaiter' = p
          /\ pipeData' = 0
      <4>1. CASE PipeRegister(p)
        BY <1>w, <3>1, <3>3, <4>1, MovesQuietly, Zenon DEF PipeRegister, Goes
      <4>2. CASE PipeRecheck(p) /\ writeEnds = {}
        BY <1>w, <3>1, <3>3, <4>2, MovesQuietly, ZenonT(30) DEF PipeRecheck, Goes
      <4>3. CASE PipeRecheck(p) /\ writeEnds # {}
        <5>1. pc[p] = "recheck" /\ pc'[p] = "asleep" /\ UNCHANGED <<pipeData, pipeWaiter>>
          BY <1>w, <4>3, MovesQuietly, Zenon DEF PipeRecheck, Goes, At
        <5> QED BY <3>1, <3>3, <3>5, <5>1, Zenon DEF PipeReaderInv
      <4>4. CASE PipeRetract(p)
        BY <1>w, <3>1, <3>3, <4>4, MovesQuietly, Zenon DEF PipeRetract, Goes
      <4> QED BY <2>2, <4>1, <4>2, <4>3, <4>4, Zenon
    <3> QED BY <2>o, <3>2, <3>5, <3>6 DEF PipeReaderInv
  <2>3. ASSUME PipeWrite(p) \/ PipeClose(p) \/ PipeCloseRead(p) PROVE PipeReaderInv'
    <3>1. PICK c \in PipeCalls \ {"pipe_read"} : Enters(p, c) /\ \E place : Moves(p, c, place, WakesNobody)
      BY <2>3, Zenon DEF PipeWrite, PipeClose, PipeCloseRead, PipeCalls
    <3>2. UNCHANGED <<pipeData, pipeLock, pipeWaiter>>
      BY <2>3, Zenon DEF PipeWrite, PipeClose, PipeCloseRead, pipeVars
    <3>3. OthersKeep(p) /\ call'[p] # "pipe_read" /\ pc[p] # "pipe_wake"
      BY <1>w, <3>1, MovesQuietly, Zenon DEF Enters
    <3> QED BY <3>2, <3>3, PipeBystander, Zenon
  <2>4. ASSUME PipeRelease(p) PROVE PipeReaderInv'
    <3>1. OthersKeep(p) /\ call'[p] # "pipe_read" /\ pc[p] # "pipe_wake"
      BY <1>w, <2>4, MovesQuietly, Zenon DEF PipeRelease, Goes, At
    <3> QED BY <2>4, <3>1, PipeBystander, Zenon DEF PipeRelease
  <2>5. ASSUME PipeEpoll(p) PROVE PipeReaderInv'
    <3>1. pc[p] = "pipe_epoll" /\ call[p] \in {"pipe_write", "pipe_close"} /\ UNCHANGED pipeVars
      BY <2>5, Zenon DEF PipeEpoll, At
    <3>2. PICK w, place : Moves(p, call[p], place, Wakes(w))
      BY <2>5, Zenon DEF PipeEpoll, WakeEpollWaiters, Goes, GoesWaking, WakesNobody
    <3>3. OthersKeep(p) /\ call'[p] # "pipe_read"
      BY <1>w, <3>1, <3>2, MovesWaking, Zenon
    <3> QED BY <3>1, <3>3, PipeBystander, Zenon DEF pipeVars
  \* a push needs the lock, so the reader is asleep or gone
  <2>6. ASSUME PipePush(p) PROVE PipeReaderInv'
    <3>1. pipeLock = Nobody /\ UNCHANGED <<pipeLock, pipeWaiter>>
      BY <2>6, Zenon DEF PipePush
    <3>2. OthersKeep(p) /\ call'[p] # "pipe_read" /\ pc'[p] = "pipe_wake"
      BY <1>w, <2>6, MovesQuietly, Zenon DEF PipePush, Goes, At
    <3>3. ASSUME NEW r \in Procs, call'[r] = "pipe_read"
          PROVE  r # p /\ pc'[r] = pc[r] /\ call[r] = "pipe_read" /\ (entries'[r] = 0 => entries[r] = 0)
      BY <1>w, <3>2, <3>3 DEF OthersKeep
    <3>4. ASSUME NEW r \in Procs, call'[r] = "pipe_read"
          PROVE  pc'[r] \notin {"register", "recheck", "retract"}
      BY <3>1, <3>3, <3>4, WakeupsAssumption, Zenon DEF PipeReaderInv
    <3> QED BY <3>1, <3>2, <3>3, <3>4, Zenon DEF PipeReaderInv
  \* who takes the waiter out of the word enqueues it
  <2>7. ASSUME PipeWake(p) PROVE PipeReaderInv'
    <3>1. pc[p] = "pipe_wake" /\ call[p] \in {"pipe_write", "pipe_close"} /\ UNCHANGED <<pipeData, pipeLock>>
      BY <2>7, Zenon DEF PipeWake, At
    <3>2. Moves(p, call[p], "pipe_epoll", Wakes(pipeWaiter))
      BY <2>7, Zenon DEF PipeWake, GoesWaking
    <3>3. OthersKeep(p) /\ call'[p] # "pipe_read" /\ (pipeWaiter \in Procs => entries'[pipeWaiter] > 0)
      BY <1>w, <3>1, <3>2, MovesWaking, Zenon
    <3>4. ASSUME NEW r \in Procs, call'[r] = "pipe_read"
          PROVE  r # p /\ pc'[r] = pc[r] /\ call[r] = "pipe_read" /\ (entries'[r] = 0 => entries[r] = 0)
      BY <1>w, <3>3, <3>4 DEF OthersKeep
    <3>5. ASSUME NEW r \in Procs, call'[r] = "pipe_read", pc'[r] \in {"recheck", "asleep"}
          PROVE  entries'[r] # 0
      BY <1>w, <3>3, <3>4, <3>5 DEF PipeReaderInv
    <3> QED BY <3>1, <3>4, <3>5, Zenon DEF PipeReaderInv
  <2> QED BY <1>2, <2>1, <2>2, <2>3, <2>4, <2>5, <2>6, <2>7, Zenon DEF PipeStep
<1> QED BY <1>1, <1>2, StepComponents, Zenon DEF Components

LEMMA PipeHolds ==
  ASSUME Exclusive({"pipe_read"})
  PROVE  Spec => []PipeReaderNotStranded
<1>1. Init => PipeReaderInv
  BY Zenon DEF Init, WakeInit, PipeReaderInv
<1>2. BaseInv /\ BaseInv' /\ PipeReaderInv /\ [Next]_vars => PipeReaderInv'
  BY PipeReaderStep, Zenon
<1>3. PipeReaderInv => PipeReaderNotStranded
  BY Zenon DEF PipeReaderInv, PipeReaderNotStranded, Sleeps, At
<1> QED BY <1>1, <1>2, <1>3, BaseHolds, PTL DEF Spec

-----------------------------------------------------------------------------
(* The waiters of a futex *)

\* A futex waiter that nothing has enqueued is in the queue or was drained
\* from it; with the word set, a waker that will take the oldest is under way
\* unless some waiter is already past its wait.
FutexBlocked(p) == call[p] = "futex_wait" /\ entries[p] = 0

FutexInv ==
  /\ \A p \in Procs : FutexBlocked(p) =>
       \/ \E i \in DOMAIN futexq : futexq[i] = p
       \/ \E q \in Procs : \E i \in DOMAIN toWake[q] : toWake[q][i] = p
  /\ \A q \in Procs : toWake[q] # <<>> => At(q, {"futex_wake"}, "enqueue")
  /\ \A i \in DOMAIN futexq : "futex_wait" \in may[futexq[i]]
  /\ \A q \in Procs : \A i \in DOMAIN toWake[q] : "futex_wait" \in may[toWake[q][i]]
  /\ (word = 1 /\ \A p \in Procs : "futex_wait" \in may[p] => FutexBlocked(p))
       => \/ \A p \in Procs : "futex_wait" \notin may[p]
          \/ \E q \in Procs : At(q, {"futex_wake"}, "drain") \/ toWake[q] # <<>>

\* p is in the futex's queue, or among what a waker drained.
InFutexq(p) == \E i \in DOMAIN futexq : futexq[i] = p
Drained(p)  == \E q \in Procs : \E i \in DOMAIN toWake[q] : toWake[q][i] = p

\* A step that leaves queue and drained waiters alone and makes no new waiter.
LEMMA FutexQuiet ==
  ASSUME BaseInv, BaseInv', FutexInv, UNCHANGED futexVars, may' = may,
         \A r \in Procs : FutexBlocked(r)' => FutexBlocked(r),
         \A q \in Procs : At(q, {"futex_wake"}, "drain") => At(q, {"futex_wake"}, "drain")',
         \A q \in Procs : toWake[q] # <<>> => At(q, {"futex_wake"}, "enqueue")'
  PROVE  FutexInv'
<1>1. futexq' = futexq /\ toWake' = toWake /\ word' = word
  BY Zenon DEF futexVars
<1> QED BY <1>1, Zenon DEF FutexInv

LEMMA FutexStepInv ==
  ASSUME BaseInv, BaseInv', FutexInv, [Next]_vars
  PROVE  FutexInv'
<1>w. /\ WakeTypeOK /\ FutexTypeOK /\ \A q \in Procs : entries[q] \in Nat /\ entries'[q] \in Nat
      /\ futexq \in Seq(Procs) /\ toWake \in [Procs -> Seq(Procs)]
  BY Zenon DEF BaseInv, TypeOK, WakeTypeOK, FutexTypeOK
<1>1. ASSUME Apart(FutexCalls), UNCHANGED futexVars PROVE FutexInv'
  <2>1. \A r \in Procs : FutexBlocked(r)' => FutexBlocked(r)
    BY <1>1, <1>w, NoneBefore, ZenonT(30) DEF Apart, Untouched, FutexCalls, FutexBlocked
  <2>2. \A q \in Procs : \A place : At(q, {"futex_wake"}, place) => At(q, {"futex_wake"}, place)'
    BY <1>1, Zenon DEF Apart, Untouched, FutexCalls, At
  <2>3. may' = may
    BY StepComponents, Zenon DEF Control
  <2> QED BY <1>1, <2>1, <2>2, <2>3, FutexQuiet, ZenonT(30) DEF FutexInv
<1>2. ASSUME NEW p \in Procs, FutexWait(p) PROVE FutexInv'
  <2>1. "futex_wait" \in may[p] /\ pc[p] = "user" /\ call[p] = "none"
    BY <1>2, Zenon DEF FutexWait, Enters, BaseInv, Flow
  <2>2. UNCHANGED <<word, toWake>>
    BY <1>2, Zenon DEF FutexWait
  <2>3. PICK place : Moves(p, "futex_wait", place, WakesNobody)
    BY <1>2, Zenon DEF FutexWait
  <2>4. OthersKeep(p) /\ pc'[p] = place /\ \A q \in Procs : entries'[q] = entries[q]
    BY <1>w, <2>1, <2>3, MovesQuietly, Zenon
  <2>5. \A r \in Procs \ {p} : FutexBlocked(r)' => FutexBlocked(r)
    BY <2>4, Zenon DEF OthersKeep, FutexBlocked
  <2>6. \A q \in Procs : \A pl : At(q, {"futex_wake"}, pl) => At(q, {"futex_wake"}, pl)'
    BY <2>1, <2>4, Zenon DEF OthersKeep, At
  <2>7. CASE word = 0
    <3>1. futexq' = Append(futexq, p)
      BY <1>2, <2>7, Zenon DEF FutexWait
    <3>2. /\ DOMAIN futexq' = DOMAIN futexq \cup {Len(futexq) + 1} /\ Len(futexq) + 1 \in DOMAIN futexq'
          /\ futexq'[Len(futexq) + 1] = p
          /\ \A i \in DOMAIN futexq : i \in DOMAIN futexq' /\ futexq'[i] = futexq[i]
      BY <1>w, <3>1, AppendFacts, LenFacts
    <3>3. \A r \in Procs : FutexBlocked(r)' => InFutexq(r)' \/ Drained(r)'
      BY <2>2, <2>5, <3>2, Zenon DEF FutexInv, InFutexq, Drained
    <3>4. \A i \in DOMAIN futexq' : "futex_wait" \in may'[futexq'[i]]
      BY <2>1, <2>4, <3>2, Zenon DEF FutexInv, OthersKeep
    <3> QED BY <2>2, <2>4, <2>6, <2>7, <3>3, <3>4 DEF FutexInv, InFutexq, Drained, OthersKeep
  <2>8. CASE word # 0
    <3>1. futexq' = futexq /\ call'[p] = "none"
      BY <1>w, <1>2, <2>8, MovesQuietly, ZenonT(30) DEF FutexWait
    <3>2. \A r \in Procs : FutexBlocked(r)' => FutexBlocked(r)
      BY <2>5, <3>1, ZenonT(30) DEF FutexBlocked
    <3> QED BY <2>2, <2>4, <2>6, <3>1, <3>2, FutexQuiet, ZenonT(30) DEF futexVars, OthersKeep, FutexInv
  <2> QED BY <2>7, <2>8, Zenon
<1>3. ASSUME NEW p \in Procs, FutexStop(p) PROVE FutexInv'
  <2>1. UNCHANGED <<may, call, entries>> /\ UNCHANGED futexVars
    BY <1>3, Zenon DEF FutexStop, StopsAsleep
  <2>2. call[p] = "futex_wait" /\ \A q \in Procs \ {p} : pc'[q] = pc[q]
    BY <1>w, <1>3, Zenon DEF FutexStop, StopsAsleep, At, WakeTypeOK
  <2>3. \A q \in Procs : \A pl : At(q, {"futex_wake"}, pl) => At(q, {"futex_wake"}, pl)'
    BY <2>1, <2>2, Zenon DEF At
  <2>4. \A r \in Procs : FutexBlocked(r)' => FutexBlocked(r)
    BY <2>1, Zenon DEF FutexBlocked
  <2> QED BY <2>1, <2>3, <2>4, FutexQuiet, Zenon DEF FutexInv
<1>4. ASSUME NEW p \in Procs, FutexReturn(p) PROVE FutexInv'
  <2>1. Moves(p, call[p], "user", WakesNobody) /\ call[p] = "futex_wait" /\ UNCHANGED futexVars
    BY <1>4, ZenonT(30) DEF FutexReturn, Goes, At
  <2>2. OthersKeep(p) /\ call'[p] = "none" /\ \A q \in Procs \ {p} : entries'[q] = entries[q]
    BY <1>w, <2>1, MovesQuietly, Zenon
  <2>3. \A q \in Procs : \A pl : At(q, {"futex_wake"}, pl) => At(q, {"futex_wake"}, pl)'
    BY <2>1, <2>2, Zenon DEF OthersKeep, At
  <2>4. \A r \in Procs : FutexBlocked(r)' => FutexBlocked(r)
    BY <2>2, Zenon DEF FutexBlocked, OthersKeep
  <2> QED BY <2>1, <2>2, <2>3, <2>4, FutexQuiet, ZenonT(30) DEF FutexInv, OthersKeep
<1>5. ASSUME NEW p \in Procs, NEW v \in {0, 1}, FutexSet(p, v) PROVE FutexInv'
  <2>1. Moves(p, "futex_wake", "drain", WakesNobody) /\ UNCHANGED <<futexq, toWake>>
    BY <1>5, Zenon DEF FutexSet
  <2>2. pc[p] \in {"user", "asleep"}
    BY <1>5, Zenon DEF FutexSet, Enters
  <2>3. /\ OthersKeep(p) /\ At(p, {"futex_wake"}, "drain")'
        /\ \A q \in Procs \ {p} : entries'[q] = entries[q]
    BY <1>w, <2>1, MovesQuietly DEF At
  <2>4. \A r \in Procs : FutexBlocked(r)' => FutexBlocked(r)
    BY <2>3, Zenon DEF FutexBlocked, OthersKeep, At
  <2>5. \A q \in Procs : At(q, {"futex_wake"}, "enqueue") => At(q, {"futex_wake"}, "enqueue")'
    BY <2>2, <2>3, ZenonT(30) DEF OthersKeep, At
  <2> QED BY <2>1, <2>3, <2>4, <2>5, ZenonT(30) DEF FutexInv, OthersKeep
<1>6. ASSUME NEW p \in Procs, NEW n \in 0..2, FutexDrain(p, n) PROVE FutexInv'
  <2> DEFINE asked == IF n = 0 THEN 1 ELSE n
             k     == IF asked < Len(futexq) THEN asked ELSE Len(futexq)
  <2>1. /\ toWake' = [toWake EXCEPT ![p] = SubSeq(futexq, 1, k)]
        /\ futexq' = SubSeq(futexq, k + 1, Len(futexq)) /\ UNCHANGED word
    BY <1>6, Zenon DEF FutexDrain
  <2>2. k \in 0..Len(futexq) /\ Len(futexq) \in Nat /\ (Len(futexq) > 0 => k > 0)
    BY <1>w, LenFacts
  <2> HIDE DEF k
  <2>3. call[p] = "futex_wake" /\ pc[p] = "drain" /\ Moves(p, call[p], "enqueue", WakesNobody)
    BY <1>6, Zenon DEF FutexDrain, At, Goes
  <2>4. /\ OthersKeep(p) /\ At(p, {"futex_wake"}, "enqueue")' /\ \A q \in Procs : entries'[q] = entries[q]
    BY <1>w, <2>3, MovesQuietly, ZenonT(30) DEF At
  <2>5. toWake[p] = <<>>
    BY <2>3, Zenon DEF FutexInv, At
  <2>6. \A r \in Procs : FutexBlocked(r)' => FutexBlocked(r)
    BY <2>3, <2>4, ZenonT(30) DEF FutexBlocked, OthersKeep, At
  <2>7. /\ DOMAIN toWake'[p] = 1..k
        /\ \A i \in 1..k : i \in DOMAIN futexq /\ toWake'[p][i] = futexq[i]
    <3>1. toWake'[p] = SubSeq(futexq, 1, k)
      BY <1>w, <2>1, ZenonT(30)
    <3> QED BY <1>w, <2>2, <3>1, SubSeqFacts, LenFacts
  <2>8. /\ DOMAIN futexq' = 1..(Len(futexq) - k)
        /\ \A i \in 1..(Len(futexq) - k) : k + i \in DOMAIN futexq /\ futexq'[i] = futexq[k + i]
    BY <1>w, <2>1, <2>2, SubSeqFacts, LenFacts
  <2>9. \A q \in Procs \ {p} : toWake'[q] = toWake[q]
    BY <1>w, <2>1, Zenon
  <2>10. \A r : InFutexq(r) => InFutexq(r)' \/ Drained(r)'
    <3> SUFFICES ASSUME NEW r, NEW i \in DOMAIN futexq, futexq[i] = r
                 PROVE  InFutexq(r)' \/ Drained(r)'
      BY Zenon DEF InFutexq
    <3>1. i \in 1..Len(futexq)
      BY <1>w, LenFacts, Zenon
    <3>2. CASE i <= k
      BY <2>2, <2>7, <3>1, <3>2 DEF Drained
    <3>3. CASE i > k
      <4>1. i - k \in 1..(Len(futexq) - k) /\ k + (i - k) = i
        BY <2>2, <3>1, <3>3
      <4>2. i - k \in DOMAIN futexq' /\ futexq'[i - k] = r
        BY <2>8, <4>1, Zenon
      <4> QED BY <4>2, Zenon DEF InFutexq
    <3> QED BY <2>2, <3>1, <3>2, <3>3
  <2>11. \A r : Drained(r) => Drained(r)'
    <3>1. DOMAIN toWake[p] = {}
      BY <2>5
    <3> QED BY <2>9, <3>1, Zenon DEF Drained
  <2>12. \A r \in Procs : FutexBlocked(r)' => InFutexq(r)' \/ Drained(r)'
    BY <2>6, <2>10, <2>11, Zenon DEF FutexInv, InFutexq, Drained
  <2>13. \A q \in Procs : toWake'[q] # <<>> => At(q, {"futex_wake"}, "enqueue")'
    BY <2>4, <2>9, ZenonT(30) DEF FutexInv, OthersKeep, At
  <2>14. \A i \in DOMAIN futexq' : "futex_wait" \in may'[futexq'[i]]
    BY <2>4, <2>8, ZenonT(30) DEF FutexInv, OthersKeep
  <2>15. \A q \in Procs : \A i \in DOMAIN toWake'[q] : "futex_wait" \in may'[toWake'[q][i]]
    <3>1. \A i \in DOMAIN toWake'[p] : "futex_wait" \in may'[toWake'[p][i]]
      BY <2>4, <2>7, Zenon DEF FutexInv, OthersKeep
    <3>2. \A q \in Procs \ {p} : \A i \in DOMAIN toWake'[q] : "futex_wait" \in may'[toWake'[q][i]]
      BY <2>4, <2>9, Zenon DEF FutexInv, OthersKeep
    <3> QED BY <3>1, <3>2, Zenon
  <2>16. ASSUME \A r \in Procs : "futex_wait" \in may'[r] => FutexBlocked(r)',
                NEW r \in Procs, "futex_wait" \in may'[r]
         PROVE  \E q \in Procs : toWake'[q] # <<>>
    <3>1. InFutexq(r) \/ Drained(r)
      BY <2>6, <2>16, Zenon DEF FutexInv, InFutexq, Drained
    <3>2. CASE InFutexq(r)
      <4>1. Len(futexq) > 0
        BY <1>w, <3>2, LenFacts DEF InFutexq
      <4>2. 1 \in DOMAIN toWake'[p]
        BY <2>2, <2>7, <4>1
      <4> QED BY <4>2, EmptyFacts
    <3>3. CASE Drained(r)
      <4>1. Drained(r)'
        BY <2>11, <3>3, Zenon
      <4> QED BY <4>1, EmptyFacts DEF Drained
    <3> QED BY <3>1, <3>2, <3>3, Zenon
  <2> QED BY <2>12, <2>13, <2>14, <2>15, <2>16, Zenon DEF FutexInv, InFutexq, Drained
<1>7. ASSUME NEW p \in Procs, FutexEnqueue(p) PROVE FutexInv'
  <2>1. call[p] = "futex_wake" /\ pc[p] = "enqueue" /\ UNCHANGED <<word, futexq>>
    BY <1>7, Zenon DEF FutexEnqueue, At
  <2>2. CASE toWake[p] = <<>>
    <3>1. Moves(p, call[p], "user", WakesNobody) /\ UNCHANGED futexVars
      BY <1>7, <2>1, <2>2, Zenon DEF FutexEnqueue, Goes, futexVars
    <3>2. OthersKeep(p) /\ call'[p] = "none" /\ \A q \in Procs : entries'[q] = entries[q]
      BY <1>w, <2>1, <3>1, MovesQuietly, ZenonT(30)
    <3>3. \A r \in Procs : FutexBlocked(r)' => FutexBlocked(r)
      BY <3>2, Zenon DEF FutexBlocked, OthersKeep
    <3>4. \A q \in Procs : At(q, {"futex_wake"}, "drain") => At(q, {"futex_wake"}, "drain")'
      BY <2>1, <3>2, Zenon DEF OthersKeep, At
    <3>5. \A q \in Procs : toWake[q] # <<>> => At(q, {"futex_wake"}, "enqueue")'
      BY <2>2, <3>2, Zenon DEF OthersKeep, At, FutexInv
    <3> QED BY <3>1, <3>2, <3>3, <3>4, <3>5, FutexQuiet, ZenonT(30) DEF OthersKeep
  <2>3. CASE toWake[p] # <<>>
    <3>0. PICK h \in Procs : h = Head(toWake[p])
      BY <1>w, <2>3, HeadTailFacts, Zenon
    <3>1. /\ toWake' = [toWake EXCEPT ![p] = Tail(toWake[p])]
          /\ entries' = [entries EXCEPT ![h] = entries[h] + 1] /\ UNCHANGED <<may, call, pc>>
      BY <1>7, <2>3, <3>0, Zenon DEF FutexEnqueue
    <3>2. toWake[p] \in Seq(Procs) /\ h \in Procs /\ h = toWake[p][1] /\ 1 \in DOMAIN toWake[p]
      BY <1>w, <2>3, <3>0, HeadTailFacts, LenFacts, EmptyFacts
    <3>3. /\ Len(Tail(toWake[p])) = Len(toWake[p]) - 1 /\ Tail(toWake[p]) \in Seq(Procs)
          /\ \A i \in 1..(Len(toWake[p]) - 1) : Tail(toWake[p])[i] = toWake[p][i + 1]
      BY <2>3, <3>2, HeadTailFacts, Zenon
    <3>4. /\ DOMAIN toWake'[p] = 1..(Len(toWake[p]) - 1) /\ DOMAIN toWake[p] = 1..Len(toWake[p])
          /\ Len(toWake[p]) \in Nat
          /\ \A i \in 1..(Len(toWake[p]) - 1) : toWake'[p][i] = toWake[p][i + 1]
          /\ \A q \in Procs \ {p} : toWake'[q] = toWake[q]
      BY <1>w, <3>1, <3>2, <3>3, LenFacts, Zenon
    <3>5. entries'[h] > 0 /\ \A r \in Procs : entries'[r] >= entries[r]
      <4>1. entries \in [Procs -> Nat]
        BY <1>w, Zenon DEF WakeTypeOK
      <4> QED BY <3>1, <3>2, <4>1
    <3>6. \A r \in Procs : FutexBlocked(r)' => FutexBlocked(r) /\ r # h
      BY <1>w, <3>1, <3>2, <3>5 DEF FutexBlocked
    <3>7. ASSUME NEW r, Drained(r), r # h PROVE Drained(r)'
      <4>1. PICK q \in Procs : \E i \in DOMAIN toWake[q] : toWake[q][i] = r
        BY <3>7, Zenon DEF Drained
      <4>2. PICK i \in DOMAIN toWake[q] : toWake[q][i] = r
        BY <4>1, Zenon
      <4>3. CASE q # p
        BY <3>4, <4>2, <4>3, Zenon DEF Drained
      <4>4. CASE q = p
        <5>1. i # 1 /\ i \in 1..Len(toWake[p])
          BY <3>2, <3>4, <3>7, <4>2, <4>4, Zenon
        <5>2. i - 1 \in 1..(Len(toWake[p]) - 1) /\ (i - 1) + 1 = i
          BY <3>4, <5>1
        <5>3. i - 1 \in DOMAIN toWake'[p] /\ toWake'[p][i - 1] = r
          BY <3>4, <4>2, <4>4, <5>2, Zenon
        <5> QED BY <5>3, Zenon DEF Drained
      <4> QED BY <4>3, <4>4, Zenon
    <3>8. \A r \in Procs : FutexBlocked(r)' => InFutexq(r)' \/ Drained(r)'
      BY <2>1, <3>6, <3>7, ZenonT(30) DEF FutexInv, InFutexq, Drained
    <3>9. \A q \in Procs : toWake'[q] # <<>> => At(q, {"futex_wake"}, "enqueue")'
      BY <2>3, <3>1, <3>4, Zenon DEF FutexInv, At
    <3>10. \A q \in Procs : \A i \in DOMAIN toWake'[q] : "futex_wait" \in may'[toWake'[q][i]]
      <4> SUFFICES ASSUME NEW q \in Procs, NEW i \in DOMAIN toWake'[q]
                   PROVE  "futex_wait" \in may'[toWake'[q][i]]
        BY Zenon
      <4>1. CASE q # p
        BY <3>1, <3>4, <4>1, ZenonT(30) DEF FutexInv
      <4>2. CASE q = p
        <5>1. i + 1 \in DOMAIN toWake[p] /\ toWake'[q][i] = toWake[p][i + 1]
          BY <3>4, <4>2
        <5> QED BY <3>1, <5>1, ZenonT(30) DEF FutexInv
      <4> QED BY <4>1, <4>2, Zenon
    <3>11. "futex_wait" \in may'[h] /\ ~FutexBlocked(h)'
      <4>1. "futex_wait" \in may[toWake[p][1]]
        BY <3>2, Zenon DEF FutexInv
      <4>2. entries'[h] # 0
        BY <1>w, <3>2, <3>5
      <4> QED BY <3>1, <3>2, <4>1, <4>2, ZenonT(30) DEF FutexBlocked
    <3>12. \A i \in DOMAIN futexq' : "futex_wait" \in may'[futexq'[i]]
      BY <2>1, <3>1, Zenon DEF FutexInv
    <3>13. ~(\A r \in Procs : "futex_wait" \in may'[r] => FutexBlocked(r)')
      BY <3>2, <3>11, Zenon
    <3> QED BY <3>8, <3>9, <3>10, <3>12, <3>13, Zenon DEF FutexInv, InFutexq, Drained
  <2> QED BY <2>2, <2>3, Zenon
<1> QED BY <1>1, <1>2, <1>3, <1>4, <1>5, <1>6, <1>7, StepComponents, ZenonT(30) DEF Components, FutexStep

LEMMA FutexHolds == Spec => []FutexNotStranded
<1>1. Init => FutexInv
  BY EmptyFacts DEF Init, WakeInit, FutexInit, FutexInv, FutexBlocked
<1>2. BaseInv /\ BaseInv' /\ FutexInv /\ [Next]_vars => FutexInv'
  BY FutexStepInv, Zenon
<1>3. FutexInv => FutexNotStranded
  BY Zenon DEF FutexInv, FutexNotStranded, FutexBlocked, Sleeps, At
<1> QED BY <1>1, <1>2, <1>3, BaseHolds, PTL DEF Spec

-----------------------------------------------------------------------------
(* The reader of a terminal *)

\* A terminal's reader is in the waiter word until the interrupt handler takes
\* it out to enqueue it; a handler that has pushed will.
TtyInv ==
  \A p \in Procs : Sleeps(p, {"tty_read"}) =>
    /\ ttyWaiter = p
    /\ LineReady => \/ isr \in {"wake", "control", "control_wake"}
                    \/ isr \in {"loop", "end"} /\ pushed

\* The interrupt handler that goes on to wake the reader.
WillWake == isr \in {"wake", "control", "control_wake"} \/ (isr \in {"loop", "end"} /\ pushed)

LEMMA TtyStepInv ==
  ASSUME BaseInv, BaseInv', Exclusive({"tty_read"}), TtyInv, [Next]_vars
  PROVE  TtyInv'
<1>w. WakeTypeOK /\ TtyTypeOK /\ \A q \in Procs : entries[q] \in Nat /\ entries'[q] \in Nat
  BY Zenon DEF BaseInv, TypeOK, WakeTypeOK
<1>i. \A r \in Procs : Sleeps(r, {"tty_read"}) => ttyWaiter = r /\ (LineReady => WillWake)
  BY Zenon DEF TtyInv, WillWake
<1>g. SUFFICES \A r \in Procs : Sleeps(r, {"tty_read"})' => ttyWaiter' = r /\ (LineReady' => WillWake')
  BY Zenon DEF TtyInv, WillWake
<1>1. CASE Apart(TtyCalls) /\ UNCHANGED ttyVars
  <2>1. \A r \in Procs : Sleeps(r, {"tty_read"})' => Sleeps(r, {"tty_read"})
    BY <1>1, <1>w DEF Apart, Untouched, TtyCalls, Sleeps, At
  <2> QED BY <1>1, <1>i, <2>1, ZenonT(30) DEF ttyVars, LineReady, WillWake
\* the reader: there is no other
<1>o. ASSUME NEW p \in Procs, "tty_read" \in may[p], OthersKeep(p), NEW r \in Procs, Sleeps(r, {"tty_read"})'
      PROVE  r = p
  <2>1. CASE r # p
    <3>1. call[r] = "tty_read" /\ may[p] \cap {"tty_read"} # {}
      BY <1>o, <2>1, Zenon DEF OthersKeep, Sleeps, At
    <3> QED BY <3>1, OnlyOne, Zenon
  <2> QED BY <2>1, Zenon
<1>2. ASSUME NEW p \in Procs, TtyRead(p)
      PROVE  \A r \in Procs : Sleeps(r, {"tty_read"})' => ttyWaiter' = r /\ (LineReady' => WillWake')
  <2>1. "tty_read" \in may[p]
    BY <1>2, Zenon DEF TtyRead, Enters, BaseInv, Allowed
  <2>2. PICK place \in {"user", "buffer"} : Moves(p, "tty_read", place, WakesNobody)
    BY <1>2, ZenonT(30) DEF TtyRead
  <2>3. OthersKeep(p) /\ pc'[p] # "asleep"
    BY <1>w, <2>2, MovesQuietly, Zenon
  <2> QED BY <1>o, <2>1, <2>3, Zenon DEF Sleeps, At
<1>3. ASSUME NEW p \in Procs, NEW n \in {1, 3}, TtyReadBuffer(p, n)
      PROVE  \A r \in Procs : Sleeps(r, {"tty_read"})' => ttyWaiter' = r /\ (LineReady' => WillWake')
  <2>1. "tty_read" \in may[p]
    BY <1>3, ZenonT(30) DEF TtyReadBuffer, At, BaseInv, Allowed
  <2>2. CASE LineReady
    <3>1. Moves(p, call[p], "user", WakesNobody)
      BY <1>3, <2>2, Zenon DEF TtyReadBuffer, Goes
    <3>2. OthersKeep(p) /\ pc'[p] # "asleep"
      BY <1>w, <3>1, MovesQuietly, Zenon
    <3> QED BY <1>o, <2>1, <3>2, Zenon DEF Sleeps, At
  <2>3. CASE ~LineReady
    <3>1. Moves(p, call[p], "asleep", WakesNobody) /\ ttyWaiter' = p /\ UNCHANGED <<ttyBuf, ttyRaw>>
      BY <1>3, <2>3, Zenon DEF TtyReadBuffer, Goes
    <3>2. OthersKeep(p)
      BY <1>w, <3>1, MovesQuietly, Zenon
    <3>3. ~LineReady'
      BY <2>3, <3>1, Zenon DEF LineReady
    <3> QED BY <1>o, <2>1, <3>1, <3>2, <3>3, Zenon
  <2> QED BY <2>2, <2>3, Zenon
\* the interrupt handler: it moves no process
<1>s. ASSUME UNCHANGED <<call, pc>>, \A q \in Procs : entries'[q] >= entries[q]
      PROVE  \A r \in Procs : Sleeps(r, {"tty_read"})' => Sleeps(r, {"tty_read"}) /\ entries'[r] = 0
  BY <1>s, <1>w DEF Sleeps, At
<1>u. ASSUME UNCHANGED wakeVars
      PROVE  \A r \in Procs : Sleeps(r, {"tty_read"})' => Sleeps(r, {"tty_read"})
  BY <1>u, Zenon DEF wakeVars, Sleeps, At
<1>4. ASSUME NEW c \in {"char", "newline", "backspace"}, IsrChar(c)
      PROVE  \A r \in Procs : Sleeps(r, {"tty_read"})' => ttyWaiter' = r /\ (LineReady' => WillWake')
  <2>1. UNCHANGED wakeVars /\ UNCHANGED <<ttyWaiter, ttyRaw>> /\ isr' = "loop" /\ isr \in {"idle", "loop"}
    BY <1>4, Zenon DEF IsrChar
  <2>2. CASE ~(c = "backspace" /\ ~ttyRaw)
    <3>1. pushed' = TRUE
      BY <1>4, <2>2, Zenon DEF IsrChar
    <3> QED BY <1>i, <1>u, <2>1, <3>1, Zenon DEF WillWake
  <2>3. CASE c = "backspace" /\ ~ttyRaw
    <3>1. /\ ttyBuf' = IF ttyBuf = <<>> THEN ttyBuf ELSE SubSeq(ttyBuf, 1, Len(ttyBuf) - 1)
          /\ pushed' = (pushed \/ FALSE)
      BY <1>4, <2>3, Zenon DEF IsrChar
    <3>2. LineReady' => LineReady
      <4>1. CASE ttyBuf = <<>>
        BY <2>1, <3>1, <4>1, Zenon DEF LineReady
      <4>2. CASE ttyBuf # <<>>
        <5>1. ttyBuf \in Seq({"char", "newline", "control"}) /\ Len(ttyBuf) \in Nat /\ DOMAIN ttyBuf = 1..Len(ttyBuf)
              /\ Len(ttyBuf) # 0
          BY <1>w, <4>2, LenFacts, EmptyFacts, Zenon DEF TtyTypeOK
        <5>2. /\ DOMAIN ttyBuf' = 1..(Len(ttyBuf) - 1)
              /\ \A i \in 1..(Len(ttyBuf) - 1) : ttyBuf'[i] = ttyBuf[i]
          BY <3>1, <4>2, <5>1, SubSeqFacts
        <5>3. ASSUME NEW i \in DOMAIN ttyBuf', ttyBuf'[i] = "newline"
              PROVE  i \in DOMAIN ttyBuf /\ ttyBuf[i] = "newline"
          BY <5>1, <5>2, <5>3
        <5> QED BY <2>1, <2>3, <5>3, Zenon DEF LineReady
      <4> QED BY <4>1, <4>2, Zenon
    <3> QED BY <1>i, <1>u, <2>1, <3>1, <3>2, ZenonT(30) DEF WillWake
  <2> QED BY <2>2, <2>3, Zenon
<1>5. ASSUME IsrSignal
      PROVE  \A r \in Procs : Sleeps(r, {"tty_read"})' => ttyWaiter' = r /\ (LineReady' => WillWake')
  <2>1. /\ UNCHANGED <<call, pc, ttyWaiter, ttyRaw, ttyBuf, pushed>> /\ isr' = "end" /\ isr \in {"idle", "loop"}
    BY <1>5, Zenon DEF IsrSignal
  <2>2. \A q \in Procs : entries'[q] >= entries[q]
    BY <1>w, <1>5 DEF IsrSignal
  <2> QED BY <1>i, <1>s, <2>1, <2>2, Zenon DEF WillWake, LineReady
<1>6. ASSUME IsrControl \/ IsrControlByte
      PROVE  \A r \in Procs : Sleeps(r, {"tty_read"})' => ttyWaiter' = r /\ (LineReady' => WillWake')
  BY <1>6, <1>i, <1>u, Zenon DEF IsrControl, IsrControlByte, WillWake
<1>7. ASSUME IsrEnd
      PROVE  \A r \in Procs : Sleeps(r, {"tty_read"})' => ttyWaiter' = r /\ (LineReady' => WillWake')
  <2>1. /\ UNCHANGED wakeVars /\ UNCHANGED <<ttyWaiter, ttyRaw, ttyBuf, pushed>> /\ isr \in {"loop", "end"}
        /\ isr' = IF pushed THEN "wake" ELSE "idle"
    BY <1>7, Zenon DEF IsrEnd
  <2> QED BY <1>i, <1>u, <2>1, Zenon DEF WillWake, LineReady
<1>8. ASSUME IsrWake
      PROVE  \A r \in Procs : Sleeps(r, {"tty_read"})' => ttyWaiter' = r /\ (LineReady' => WillWake')
  <2>1. UNCHANGED <<call, pc>> /\ \A q \in Procs : entries'[q] = IF q = ttyWaiter THEN entries[q] + 1 ELSE entries[q]
    BY <1>8, Zenon DEF IsrWake
  <2>2. \A q \in Procs : entries'[q] >= entries[q]
    BY <1>w, <2>1
  <2>3. \A r \in Procs : Sleeps(r, {"tty_read"})' => FALSE
    BY <1>i, <1>s, <1>w, <2>1, <2>2
  <2> QED BY <2>3, Zenon
<1>9. ASSUME IsrEpoll
      PROVE  \A r \in Procs : Sleeps(r, {"tty_read"})' => ttyWaiter' = r /\ (LineReady' => WillWake')
  <2>1. UNCHANGED <<call, pc, ttyWaiter, ttyRaw, ttyBuf>> /\ isr \in {"epoll", "control_epoll"}
    BY <1>9, Zenon DEF IsrEpoll
  <2>2. \A q \in Procs : entries'[q] >= entries[q]
    <3>1. CASE "tty" \in epLists
      BY <1>w, <1>9, <3>1 DEF IsrEpoll
    <3>2. CASE "tty" \notin epLists
      BY <1>w, <1>9, <3>2 DEF IsrEpoll
    <3> QED BY <3>1, <3>2, Zenon
  <2> QED BY <1>i, <1>s, <2>1, <2>2, Zenon DEF WillWake, LineReady
<1> QED BY <1>1, <1>2, <1>3, <1>4, <1>5, <1>6, <1>7, <1>8, <1>9, StepComponents, ZenonT(30) DEF Components, TtyStep

\* When one process at most reads the pipe and one the terminal, a process
\* blocked on either, or on the futex, that has what it waits for is about to
\* be woken: sys_read and FUTEX_WAIT register and look again under the lock
\* their wakers take.
THEOREM WaitersAreWoken ==
  ASSUME Exclusive({"pipe_read"}), Exclusive({"tty_read"})
  PROVE  Spec => []NoWaiterStranded
<1>1. Init => TtyInv
  BY Zenon DEF Init, WakeInit, TtyInv, Sleeps, At
<1>2. BaseInv /\ BaseInv' /\ TtyInv /\ [Next]_vars => TtyInv'
  BY TtyStepInv, Zenon
<1>3. TtyInv => TtyReaderNotStranded
  BY Zenon DEF TtyInv, TtyReaderNotStranded
<1>4. PipeReaderNotStranded /\ FutexNotStranded /\ TtyReaderNotStranded => NoWaiterStranded
  BY Zenon DEF NoWaiterStranded
<1> QED BY <1>1, <1>2, <1>3, <1>4, BaseHolds, PipeHolds, FutexHolds, PTL DEF Spec
=============================================================================
