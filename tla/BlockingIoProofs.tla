-------------------------- MODULE BlockingIoProofs --------------------------
(***************************************************************************)
(* Proofs about BlockingIo, for every number of processes, every program   *)
(* of calls and every bound: the control flow of the blocking calls (which *)
(* call a process can be in at each place, and that a step of one kernel   *)
(* object moves no process that is in a call of another), the types, the   *)
(* signal mask of epoll_pwait, and the state a sleeper is in while a waker *)
(* looks for it.                                                           *)
(***************************************************************************)
EXTENDS Integers, BlockingIo, TLAPS

-----------------------------------------------------------------------------
(* Sequences *)

LEMMA LenFacts ==
  ASSUME NEW S, NEW s \in Seq(S)
  PROVE  Len(s) \in Nat /\ s \in [1..Len(s) -> S] /\ DOMAIN s = 1..Len(s)
OBVIOUS

LEMMA EmptyFacts ==
  ASSUME NEW S
  PROVE  /\ <<>> \in Seq(S) /\ Len(<<>>) = 0
         /\ \A s \in Seq(S) : s # <<>> => Len(s) \in Nat \ {0}
OBVIOUS

LEMMA AppendFacts ==
  ASSUME NEW S, NEW s \in Seq(S), NEW x \in S
  PROVE  /\ Append(s, x) \in Seq(S) /\ Append(s, x) # <<>>
         /\ Len(Append(s, x)) = Len(s) + 1
         /\ \A i \in 1..Len(s) : Append(s, x)[i] = s[i]
         /\ Append(s, x)[Len(s) + 1] = x
OBVIOUS

LEMMA HeadTailFacts ==
  ASSUME NEW S, NEW s \in Seq(S), s # <<>>
  PROVE  /\ Head(s) \in S /\ Tail(s) \in Seq(S) /\ Len(Tail(s)) = Len(s) - 1
         /\ \A i \in 1..Len(Tail(s)) : Tail(s)[i] = s[i + 1]
OBVIOUS

LEMMA SubSeqFacts ==
  ASSUME NEW S, NEW s, NEW m \in Int, NEW n \in Int, \A i \in m..n : s[i] \in S
  PROVE  /\ SubSeq(s, m, n) \in Seq(S)
         /\ Len(SubSeq(s, m, n)) = IF m <= n THEN n - m + 1 ELSE 0
         /\ \A i \in 1..(n - m + 1) : SubSeq(s, m, n)[i] = s[m + i - 1]
OBVIOUS

-----------------------------------------------------------------------------
(* What a process may be in the middle of *)

\* The calls of each component.
ChannelCalls == ReadCalls \cup WaitCalls
  \cup {"write", "channel_write", "poll", "close_write", "close_read",
        "port_wait", "port_queue", "port_bind"}
PipeCalls  == {"pipe_read", "pipe_write", "pipe_close", "pipe_close_read"}
FutexCalls == {"futex_wait", "futex_wake"}
MailCalls  == {"mailbox_receive", "mailbox_send"}
TtyCalls   == {"tty_read"}
PollCalls  == EpollCalls \cup {"epoll_ctl"}

\* The calls from whose end notify_signals or queue_packet is reached.
NotifyPlaces == {"notify", "notify_waiters", "notify_ports", "port_wake"}

ChannelPlaces == NotifyPlaces \cup
  {"wake", "epoll", "take", "handover", "yield", "drop", "drop_wake", "drop_signals"}

\* The place a call may be at, with what follows notify_signals.
Fits(c, place, aft) ==
  /\ place \in ChannelPlaces => c \in ChannelCalls
  /\ place \in {"take", "handover", "yield"} => c = "channel_write"
  /\ place \in NotifyPlaces =>
       /\ aft = "handover" <=> c = "channel_write"
       /\ aft = "retract" => c \in ReadCalls
  /\ place \in {"pipe_wake", "pipe_epoll"} => c \in {"pipe_write", "pipe_close"}

\* Which call a process is in, and where notify_signals returns to.
Flow(p) ==
  /\ pc[p] = "user" <=> call[p] = "none"
  /\ Fits(call[p], pc[p], after[p])

\* A call is one of the program's.
Allowed(p) == call[p] # "none" => call[p] \in may[p]

-----------------------------------------------------------------------------
(* Steps of one process *)

\* What a step of p leaves alone of the others: only their entries grow.
OthersKeep(p) ==
  /\ may' = may
  /\ \A q \in Procs \ {p} : pc'[q] = pc[q] /\ call'[q] = call[q] /\ entries'[q] >= entries[q]

\* p is now at place in call c.
Arrives(p, c, place) ==
  /\ WakeTypeOK' /\ OthersKeep(p)
  /\ pc'[p] = place /\ call'[p] = (IF place = "user" THEN "none" ELSE c)
  /\ pc[p] # "asleep" => entries'[p] >= entries[p]

LEMMA MovesArrives ==
  ASSUME WakeTypeOK, NEW p \in Procs, NEW c \in CallNames, NEW place \in PlaceNames,
         NEW woken \in [Procs -> Nat], Moves(p, c, place, woken),
         pc[p] = "asleep" => entries[p] > 0,
         pc[p] = "user" => calls[p] < MaxCalls[p]
  PROVE  /\ Arrives(p, c, place)
         /\ \A q \in Procs : q # p \/ pc[p] # "asleep" => entries'[q] = entries[q] + woken[q]
         /\ stopped' = IF pc[p] = "asleep" THEN stopped \ {p} ELSE stopped
<1>1. /\ pc' = [pc EXCEPT ![p] = place] /\ pc \in [Procs -> PlaceNames]
      /\ call' = [call EXCEPT ![p] = IF place = "user" THEN "none" ELSE c] /\ call \in [Procs -> CallNames \cup {"none"}]
  BY Zenon DEF Moves, WakeTypeOK
<1>2. pc' \in [Procs -> PlaceNames] /\ call' \in [Procs -> CallNames \cup {"none"}]
  BY <1>1, Zenon
<1>3. \A q \in Procs : entries'[q] =
        (entries[q] + woken[q]) - (IF q = p /\ pc[p] = "asleep" THEN 1 ELSE 0)
  BY Zenon DEF Moves
<1>4. entries \in [Procs -> Nat]
  BY Zenon DEF WakeTypeOK
<1>5. entries' \in [Procs -> Nat]
  <2>1. \A q \in Procs : entries'[q] \in Nat
    BY <1>3, <1>4
  <2> QED BY <2>1, Zenon DEF Moves
<1>6. calls' \in [Procs -> Nat] /\ \A q \in Procs : calls'[q] <= MaxCalls[q]
  <2>1. /\ calls \in [Procs -> Nat] /\ \A q \in Procs : calls[q] <= MaxCalls[q] /\ MaxCalls[q] \in Nat
        /\ calls' = [calls EXCEPT ![p] = IF pc[p] = "user" THEN calls[p] + 1 ELSE calls[p]]
    BY WakeupsAssumption, Zenon DEF Moves, WakeTypeOK
  <2> QED BY <2>1
<1>7. may' \in Programs /\ stopped' \subseteq Procs
  BY Zenon DEF Moves, WakeTypeOK
<1>8. WakeTypeOK'
  BY <1>2, <1>5, <1>6, <1>7, Zenon DEF WakeTypeOK
<1>9. \A q \in Procs \ {p} : entries'[q] >= entries[q]
  BY <1>3, <1>4
<1>10. pc[p] # "asleep" => entries'[p] >= entries[p]
  BY <1>3, <1>4
<1>11. \A q \in Procs : q # p \/ pc[p] # "asleep" => entries'[q] = entries[q] + woken[q]
  BY <1>3, <1>4
<1>12. \A q \in Procs \ {p} : pc'[q] = pc[q] /\ call'[q] = call[q]
  BY <1>1, Zenon
<1>13. pc'[p] = place /\ call'[p] = (IF place = "user" THEN "none" ELSE c)
  BY <1>1, Zenon
<1>14. may' = may /\ stopped' = IF pc[p] = "asleep" THEN stopped \ {p} ELSE stopped
  BY Zenon DEF Moves
<1>15. Arrives(p, c, place)
  BY <1>8, <1>9, <1>10, <1>12, <1>13, <1>14, Zenon DEF Arrives, OthersKeep
<1> QED BY <1>11, <1>14, <1>15, Zenon

\* More run queue entries for the processes of S.
LEMMA Bumps ==
  ASSUME NEW e \in [Procs -> Nat], NEW f, NEW S,
         \A q \in Procs : f[q] = IF q \in S THEN e[q] + 1 ELSE e[q]
  PROVE  /\ \A q \in Procs : f[q] >= e[q]
         /\ \A q \in Procs : q \in S => f[q] > 0
OBVIOUS

\* A process whose entries do not get fewer had none if it has none.
LEMMA NoneBefore == \A m, n \in Nat : n >= m /\ n = 0 => m = 0
OBVIOUS

LEMMA NotFewer == \A n \in Nat : n >= n /\ n + 1 >= n
OBVIOUS

LEMMA SumNotFewer == \A m, n \in Nat : m + n >= m /\ (0 = 0 + n => n = 0)
OBVIOUS

LEMMA WakesBoth == \A p, q : [r \in Procs |-> Wakes(p)[r] + Wakes(q)[r]] \in [Procs -> Nat]
BY DEF Wakes

LEMMA WakesType == \A q : Wakes(q) \in [Procs -> Nat] /\ WakesNobody \in [Procs -> Nat]
BY Zenon DEF Wakes, WakesNobody

\* A call executed from the top.
LEMMA EntersMoves ==
  ASSUME WakeTypeOK, NEW p \in Procs, NEW c \in CallNames, NEW place \in PlaceNames,
         Flow(p), Enters(p, c), Moves(p, c, place, WakesNobody)
  PROVE  /\ Arrives(p, c, place)
         /\ call[p] \in {c, "none"} /\ pc[p] \in {"user", "asleep"}
         /\ pc[p] = "user" => c \in may[p]
         /\ \A q \in Procs \ {p} : entries'[q] = entries[q]
         /\ stopped' = IF pc[p] = "asleep" THEN stopped \ {p} ELSE stopped
<1>1. /\ pc[p] = "asleep" => entries[p] > 0
      /\ pc[p] = "user" => calls[p] < MaxCalls[p]
      /\ call[p] \in {c, "none"} /\ pc[p] \in {"user", "asleep"}
      /\ pc[p] = "user" => c \in may[p]
  BY Zenon DEF Enters, Flow
<1>2. /\ Arrives(p, c, place)
      /\ \A q \in Procs : q # p \/ pc[p] # "asleep" => entries'[q] = entries[q] + WakesNobody[q]
      /\ stopped' = IF pc[p] = "asleep" THEN stopped \ {p} ELSE stopped
  BY <1>1, WakesType, MovesArrives, Zenon
<1>3. \A q \in Procs : WakesNobody[q] = 0 /\ entries[q] \in Nat
  BY WakeupsAssumption, Zenon DEF WakesNobody, Wakes, WakeTypeOK
<1> QED BY <1>1, <1>2, <1>3

\* A step from within a call.
LEMMA GoesOn ==
  ASSUME WakeTypeOK, NEW p \in Procs, NEW place \in PlaceNames, NEW woken \in [Procs -> Nat],
         Moves(p, call[p], place, woken), call[p] # "none", pc[p] \notin {"user", "asleep"}
  PROVE  /\ Arrives(p, call[p], place)
         /\ \A q \in Procs : entries'[q] = entries[q] + woken[q]
         /\ stopped' = stopped
<1>1. call[p] \in CallNames
  BY Zenon DEF WakeTypeOK
<1> QED BY <1>1, MovesArrives, Zenon

-----------------------------------------------------------------------------
(* The control flow of every component *)

FlowInv == WakeTypeOK /\ \A p \in Procs : Flow(p) /\ Allowed(p)

Untouched(q) == pc'[q] = pc[q] /\ call'[q] = call[q] /\ after'[q] = after[q] /\ entries'[q] >= entries[q]

\* A step of a component moves processes in its own calls, if any.
Control(X) ==
  /\ WakeTypeOK' /\ may' = may
  /\ \A q \in Procs :
       \/ Untouched(q)
       \/ /\ call[q] \in X \cup {"none"} /\ call'[q] \in X \cup {"none"}
          /\ Flow(q)' /\ Allowed(q)'

LEMMA ControlFlow ==
  ASSUME FlowInv, NEW X, Control(X)
  PROVE  FlowInv'
<1>1. \A q \in Procs : Untouched(q) => Flow(q)' /\ Allowed(q)'
  BY Zenon DEF Untouched, FlowInv, Flow, Allowed, Control
<1> QED BY <1>1, Zenon DEF Control, FlowInv

\* The places that say nothing of the call.
PlainPlaces ==
  {"user", "asleep", "register", "recheck", "retract", "closed", "reclosed", "wait", "wait_again",
   "wait_retract", "evaluate", "push", "release", "drain", "enqueue", "flag", "state", "buffer",
   "collect", "sleep", "stop", "unregister"}

LEMMA Plain ==
  /\ "user" \in PlainPlaces /\ "asleep" \in PlainPlaces /\ "register" \in PlainPlaces
  /\ "recheck" \in PlainPlaces /\ "retract" \in PlainPlaces /\ "closed" \in PlainPlaces
  /\ "reclosed" \in PlainPlaces /\ "wait" \in PlainPlaces /\ "wait_again" \in PlainPlaces
  /\ "wait_retract" \in PlainPlaces /\ "evaluate" \in PlainPlaces /\ "push" \in PlainPlaces
  /\ "release" \in PlainPlaces /\ "drain" \in PlainPlaces /\ "enqueue" \in PlainPlaces
  /\ "flag" \in PlainPlaces /\ "state" \in PlainPlaces /\ "buffer" \in PlainPlaces
  /\ "collect" \in PlainPlaces /\ "sleep" \in PlainPlaces /\ "stop" \in PlainPlaces
  /\ "unregister" \in PlainPlaces
BY Zenon DEF PlainPlaces

LEMMA PlainFits ==
  ASSUME NEW c, NEW aft, NEW place \in PlainPlaces
  PROVE  place \in PlaceNames /\ Fits(c, place, aft)
<1>1. place \in PlaceNames
  BY Zenon DEF PlainPlaces, PlaceNames
<1>2. place \notin ChannelPlaces /\ place \notin NotifyPlaces
      /\ place \notin {"take", "handover", "yield"} /\ place \notin {"pipe_wake", "pipe_epoll"}
  BY Zenon DEF PlainPlaces, ChannelPlaces, NotifyPlaces
<1> QED BY <1>1, <1>2, Zenon DEF Fits

LEMMA UserFits == \A c, aft : Fits(c, "user", aft)
BY Plain, PlainFits, Zenon

\* A call executed from the top, at its new place.
LEMMA EnterControl ==
  ASSUME FlowInv, NEW p \in Procs, NEW X, NEW c \in CallNames \cap X, NEW place \in PlaceNames,
         Enters(p, c), Moves(p, c, place, WakesNobody),
         \A q \in Procs \ {p} : after'[q] = after[q],
         Fits(c, place, after'[p])
  PROVE  Control(X)
<1>1. /\ Arrives(p, c, place) /\ call[p] \in {c, "none"}
      /\ (pc[p] = "user" => c \in may[p]) /\ pc[p] \in {"user", "asleep"}
  BY EntersMoves, Zenon DEF FlowInv
<1>2. c # "none"
  BY Zenon DEF CallNames
<1>3. c \in may[p]
  BY <1>1, <1>2, Zenon DEF FlowInv, Flow, Allowed
<1>4. Flow(p)'
  BY <1>1, <1>2, UserFits, Zenon DEF Arrives, Flow
<1>5. Allowed(p)'
  BY <1>1, <1>3, Zenon DEF Arrives, OthersKeep, Allowed
<1> QED BY <1>1, <1>4, <1>5, Zenon DEF Control, Arrives, OthersKeep, Untouched

\* A step from within a call.
LEMMA GoControl ==
  ASSUME FlowInv, NEW p \in Procs, NEW X, NEW place \in PlaceNames, NEW woken \in [Procs -> Nat],
         Moves(p, call[p], place, woken), call[p] \in X, pc[p] \notin {"user", "asleep"},
         \A q \in Procs \ {p} : after'[q] = after[q],
         Fits(call[p], place, after'[p])
  PROVE  Control(X)
<1>0. call[p] # "none"
  BY Zenon DEF FlowInv, Flow
<1>1. Arrives(p, call[p], place)
  BY <1>0, GoesOn, Zenon DEF FlowInv
<1>2. call[p] \in may[p]
  BY <1>0, Zenon DEF FlowInv, Allowed
<1>3. Flow(p)'
  BY <1>0, <1>1, UserFits, Zenon DEF Arrives, Flow
<1>4. Allowed(p)'
  BY <1>1, <1>2, Zenon DEF Arrives, OthersKeep, Allowed
<1> QED BY <1>1, <1>3, <1>4, Zenon DEF Control, Arrives, OthersKeep, Untouched

\* The same to a place that any call may have.
LEMMA EnterPlain ==
  ASSUME FlowInv, NEW p \in Procs, NEW X, NEW c \in CallNames \cap X, NEW place \in PlainPlaces,
         Enters(p, c), Moves(p, c, place, WakesNobody),
         \A q \in Procs \ {p} : after'[q] = after[q]
  PROVE  Control(X)
<1>1. place \in PlaceNames /\ Fits(c, place, after'[p])
  BY PlainFits, Zenon
<1> QED BY <1>1, EnterControl, Zenon

LEMMA GoPlain ==
  ASSUME FlowInv, NEW p \in Procs, NEW X, NEW place \in PlainPlaces,
         Goes(p, place), call[p] \in X, pc[p] \notin {"user", "asleep"},
         \A q \in Procs \ {p} : after'[q] = after[q]
  PROVE  Control(X)
<1>1. place \in PlaceNames /\ Fits(call[p], place, after'[p])
  BY PlainFits, Zenon
<1> QED BY <1>1, GoControl, WakesType, Zenon DEF Goes

LEMMA PipeControl ==
  ASSUME FlowInv, NEW p \in Procs, PipeStep(p), UNCHANGED after
  PROVE  Control(PipeCalls)
<1>n. /\ "pipe_read" \in CallNames \cap PipeCalls /\ "pipe_write" \in CallNames \cap PipeCalls
      /\ "pipe_close" \in CallNames \cap PipeCalls /\ "pipe_close_read" \in CallNames \cap PipeCalls
  BY Zenon DEF CallNames, PipeCalls
<1>w. /\ "pipe_wake" \in PlaceNames /\ "pipe_epoll" \in PlaceNames
      /\ \A c \in {"pipe_write", "pipe_close"} : \A aft : Fits(c, "pipe_wake", aft) /\ Fits(c, "pipe_epoll", aft)
  BY Zenon DEF PlaceNames, Fits, ChannelPlaces, NotifyPlaces
<1>1. ASSUME NEW n \in 1..2, PipeRead(p, n) PROVE Control(PipeCalls)
  <2>1. PICK place \in PlainPlaces : Moves(p, "pipe_read", place, WakesNobody)
    BY <1>1, Plain, Zenon DEF PipeRead
  <2> QED BY <2>1, <1>1, <1>n, EnterPlain, Zenon DEF PipeRead
<1>2. ASSUME PipeRegister(p) \/ PipeRecheck(p) \/ PipeRetract(p) \/ PipeRelease(p)
      PROVE  Control(PipeCalls)
  <2>1. PICK place \in PlainPlaces : Goes(p, place)
    BY <1>2, Plain, Zenon DEF PipeRegister, PipeRecheck, PipeRetract, PipeRelease
  <2>2. call[p] \in PipeCalls /\ pc[p] \notin {"user", "asleep"}
    BY <1>2, <1>n, Zenon DEF PipeRegister, PipeRecheck, PipeRetract, PipeRelease, At
  <2> QED BY <2>1, <2>2, GoPlain, Zenon
<1>3. ASSUME PipeWrite(p) \/ PipeCloseRead(p) PROVE Control(PipeCalls)
  BY <1>3, <1>n, Plain, EnterPlain, Zenon DEF PipeWrite, PipeCloseRead
<1>4. ASSUME PipeClose(p) PROVE Control(PipeCalls)
  <2>1. CASE writeEnds = {p}
    BY <1>4, <2>1, <1>n, <1>w, EnterControl, Zenon DEF PipeClose
  <2>2. CASE writeEnds # {p}
    BY <1>4, <2>2, <1>n, Plain, EnterPlain, Zenon DEF PipeClose
  <2> QED BY <2>1, <2>2, Zenon
<1>5. ASSUME PipePush(p) PROVE Control(PipeCalls)
  BY <1>5, <1>n, <1>w, GoControl, WakesType, Zenon DEF PipePush, Goes, At
<1>6. ASSUME PipeWake(p) PROVE Control(PipeCalls)
  BY <1>6, <1>n, <1>w, GoControl, WakesType, Zenon DEF PipeWake, GoesWaking, At
<1>7. ASSUME PipeEpoll(p) PROVE Control(PipeCalls)
  <2>1. PICK place \in PlainPlaces, q \in {epWaiter, Nobody} : Moves(p, call[p], place, Wakes(q))
    BY <1>7, Plain, Zenon DEF PipeEpoll, WakeEpollWaiters, Goes, GoesWaking, WakesNobody
  <2>2. place \in PlaceNames /\ Fits(call[p], place, after'[p])
    BY PlainFits, Zenon
  <2>3. call[p] \in PipeCalls /\ pc[p] \notin {"user", "asleep"}
    BY <1>7, <1>n, Zenon DEF PipeEpoll, At
  <2> QED BY <2>1, <2>2, <2>3, GoControl, WakesType, Zenon
<1> QED BY <1>1, <1>2, <1>3, <1>4, <1>5, <1>6, <1>7, Zenon DEF PipeStep

\* state = Stopped, then schedule().
LEMMA StopControl ==
  ASSUME FlowInv, NEW p \in Procs, NEW X, StopsAsleep(p), call[p] \in X, pc[p] # "user",
         UNCHANGED after
  PROVE  Control(X)
<1>0. "asleep" \in PlaceNames /\ Fits(call[p], "asleep", after[p])
  BY Plain, PlainFits, Zenon
<1>1. WakeTypeOK'
  BY <1>0, Zenon DEF StopsAsleep, FlowInv, WakeTypeOK
<1>2. Flow(p)' /\ Allowed(p)'
  BY <1>0, Zenon DEF StopsAsleep, FlowInv, WakeTypeOK, Flow, Allowed
<1>3. \A q \in Procs \ {p} : Untouched(q)
  BY DEF StopsAsleep, Untouched, FlowInv, WakeTypeOK
<1> QED BY <1>1, <1>2, <1>3, Zenon DEF Control, StopsAsleep

\* A step that does no more than enqueue.
LEMMA EnqueueControl ==
  ASSUME FlowInv, NEW X, UNCHANGED <<may, calls, call, pc, after>>,
         entries' \in [Procs -> Nat], \A q \in Procs : entries'[q] >= entries[q],
         stopped' \subseteq stopped
  PROVE  Control(X)
BY Zenon DEF FlowInv, WakeTypeOK, Control, Untouched

LEMMA FutexControl ==
  ASSUME FlowInv, FutexTypeOK, NEW p \in Procs, FutexStep(p), UNCHANGED after
  PROVE  Control(FutexCalls)
<1>n. "futex_wait" \in CallNames \cap FutexCalls /\ "futex_wake" \in CallNames \cap FutexCalls
  BY Zenon DEF CallNames, FutexCalls
<1>1. ASSUME FutexWait(p) PROVE Control(FutexCalls)
  BY <1>1, <1>n, Plain, EnterPlain, Zenon DEF FutexWait
<1>2. ASSUME FutexStop(p) PROVE Control(FutexCalls)
  BY <1>2, <1>n, StopControl, Zenon DEF FutexStop, At
<1>3. ASSUME FutexReturn(p) PROVE Control(FutexCalls)
  <2>1. /\ Moves(p, "futex_wait", "user", WakesNobody) /\ entries[p] > 0 /\ pc[p] = "asleep"
        /\ call[p] = "futex_wait" /\ WakeTypeOK
    BY <1>3, Zenon DEF FutexReturn, Goes, At, FlowInv
  <2>2. "user" \in PlaceNames /\ WakesNobody \in [Procs -> Nat]
    BY WakesType, Plain, PlainFits, Zenon
  <2>3. Arrives(p, "futex_wait", "user")
    BY <2>1, <2>2, <1>n, MovesArrives, Zenon
  <2>4. pc'[p] = "user" /\ call'[p] = "none" /\ \A q \in Procs \ {p} : Untouched(q)
    BY <2>3, Zenon DEF Arrives, OthersKeep, Untouched
  <2>5. Flow(p)' /\ Allowed(p)'
    BY <2>4, UserFits, Zenon DEF Flow, Allowed
  <2> QED BY <2>1, <2>3, <2>4, <2>5, <1>n, Zenon DEF Arrives, OthersKeep, Control
<1>4. ASSUME NEW v \in {0, 1}, FutexSet(p, v) PROVE Control(FutexCalls)
  BY <1>4, <1>n, Plain, EnterPlain, Zenon DEF FutexSet
<1>5. ASSUME NEW n \in 0..2, FutexDrain(p, n) PROVE Control(FutexCalls)
  BY <1>5, <1>n, Plain, GoPlain, Zenon DEF FutexDrain, At
<1>6. ASSUME FutexEnqueue(p) PROVE Control(FutexCalls)
  <2>1. CASE toWake[p] = <<>>
    BY <2>1, <1>6, <1>n, Plain, GoPlain, Zenon DEF FutexEnqueue, At
  <2>2. CASE toWake[p] # <<>>
    <3>1. Head(toWake[p]) \in Procs
      BY <2>2, HeadTailFacts, Zenon DEF FutexTypeOK
    <3>2. entries \in [Procs -> Nat] /\ entries' = [entries EXCEPT ![Head(toWake[p])] = @ + 1]
      BY <2>2, <1>6, Zenon DEF FutexEnqueue, FlowInv, WakeTypeOK
    <3>3. entries' \in [Procs -> Nat] /\ \A q \in Procs : entries'[q] >= entries[q]
      BY <3>1, <3>2
    <3> QED BY <2>2, <1>6, <3>3, EnqueueControl, Zenon DEF FutexEnqueue
  <2> QED BY <2>1, <2>2, Zenon
<1> QED BY <1>1, <1>2, <1>3, <1>4, <1>5, <1>6, Zenon DEF FutexStep

LEMMA MailboxControl ==
  ASSUME FlowInv, MailboxTypeOK, NEW p \in Procs, MailboxStep(p), UNCHANGED after
  PROVE  Control(MailCalls)
<1>n. "mailbox_receive" \in CallNames \cap MailCalls /\ "mailbox_send" \in CallNames \cap MailCalls
  BY Zenon DEF CallNames, MailCalls
<1>1. ASSUME MailboxReceive(p) PROVE Control(MailCalls)
  BY <1>1, <1>n, Plain, EnterPlain, Zenon DEF MailboxReceive
<1>2. ASSUME MailboxRegister(p) PROVE Control(MailCalls)
  BY <1>2, <1>n, Plain, GoPlain, Zenon DEF MailboxRegister, At
<1>3. ASSUME MailboxStop(p) PROVE Control(MailCalls)
  BY <1>3, <1>n, StopControl, Zenon DEF MailboxStop, At
<1>4. ASSUME NEW to \in Procs, MailboxSend(p, to) PROVE Control(MailCalls)
  BY <1>4, <1>n, Plain, EnterPlain, Zenon DEF MailboxSend
<1>5. ASSUME MailboxFlag(p) PROVE Control(MailCalls)
  BY <1>5, <1>n, Plain, GoPlain, Zenon DEF MailboxFlag, At
<1>6. ASSUME MailboxState(p) PROVE Control(MailCalls)
  <2>1. entries \in [Procs -> Nat] /\ entries' = [entries EXCEPT
          ![addressee] = IF addressee \in stopped THEN @ + 1 ELSE @]
    BY <1>6, Zenon DEF MailboxState, FlowInv, WakeTypeOK
  <2>2. entries' \in [Procs -> Nat] /\ \A q \in Procs : entries'[q] >= entries[q]
    <3>1. \A q \in Procs : entries'[q] = IF q = addressee /\ q \in stopped THEN entries[q] + 1 ELSE entries[q]
      BY <2>1, Zenon
    <3>2. \A q \in Procs : entries'[q] \in Nat /\ entries'[q] >= entries[q]
      BY <2>1, <3>1
    <3> QED BY <2>1, <3>2, Zenon
  <2>p. "user" \in PlaceNames
    BY Plain, PlainFits, Zenon
  <2>3. WakeTypeOK'
    BY <1>6, <2>2, <2>p, Zenon DEF MailboxState, FlowInv, WakeTypeOK
  <2>4. Flow(p)' /\ Allowed(p)' /\ call[p] = "mailbox_send" /\ call'[p] = "none"
    BY <1>6, UserFits, ZenonT(30) DEF MailboxState, FlowInv, WakeTypeOK, Flow, Allowed, At
  <2>5. \A q \in Procs \ {p} : Untouched(q)
    BY <1>6, <2>2, Zenon DEF MailboxState, FlowInv, WakeTypeOK, Untouched
  <2> QED BY <1>6, <1>n, <2>3, <2>4, <2>5, Zenon DEF Control, MailboxState
<1> QED BY <1>1, <1>2, <1>3, <1>4, <1>5, <1>6, Zenon DEF MailboxStep

LEMMA TtyControl ==
  ASSUME FlowInv, TtyStep, UNCHANGED after
  PROVE  Control(TtyCalls)
<1>n. "tty_read" \in CallNames \cap TtyCalls
  BY Zenon DEF CallNames, TtyCalls
<1>1. ASSUME NEW p \in Procs, TtyRead(p) PROVE Control(TtyCalls)
  <2>1. PICK place \in PlainPlaces : Moves(p, "tty_read", place, WakesNobody)
    BY <1>1, Plain, Zenon DEF TtyRead
  <2> QED BY <1>1, <2>1, <1>n, EnterPlain, Zenon DEF TtyRead
<1>2. ASSUME NEW p \in Procs, NEW n \in {1, 3}, TtyReadBuffer(p, n) PROVE Control(TtyCalls)
  <2>1. PICK place \in PlainPlaces : Goes(p, place)
    BY <1>2, Plain, Zenon DEF TtyReadBuffer
  <2>2. call[p] = "tty_read" /\ pc[p] = "buffer"
    BY <1>2, Zenon DEF TtyReadBuffer, At
  <2> QED BY <2>1, <2>2, <1>n, GoPlain, Zenon
<1>3. ASSUME (\E c \in {"char", "newline", "backspace"} : IsrChar(c)) \/ IsrControl \/ IsrControlByte
               \/ IsrEnd
      PROVE  Control(TtyCalls)
  <2>1. UNCHANGED wakeVars
    BY <1>3, Zenon DEF IsrChar, IsrControl, IsrControlByte, IsrEnd
  <2> QED BY <2>1, EnqueueControl DEF wakeVars, FlowInv, WakeTypeOK
<1>4. ASSUME IsrSignal \/ IsrWake \/ IsrEpoll PROVE Control(TtyCalls)
  <2>0. entries \in [Procs -> Nat]
    BY Zenon DEF FlowInv, WakeTypeOK
  <2>1. UNCHANGED <<may, calls, call, pc>> /\ stopped' \subseteq stopped
    BY <1>4, Zenon DEF IsrSignal, IsrWake, IsrEpoll
  <2>2. entries' \in [Procs -> Nat] /\ \A q \in Procs : entries'[q] >= entries[q]
    <3>1. PICK woken \in SUBSET Procs :
            entries' = [q \in Procs |-> IF q \in woken THEN entries[q] + 1 ELSE entries[q]]
      <4>1. CASE IsrSignal
        <5>1. entries' = [q \in Procs |-> IF q \in stopped \cap fgGroup THEN entries[q] + 1 ELSE entries[q]]
          BY <4>1, Zenon DEF IsrSignal
        <5> QED BY <5>1, Zenon DEF FlowInv, WakeTypeOK
      <4>2. CASE IsrWake
        <5>1. entries' = [q \in Procs |-> IF q \in Procs \cap {ttyWaiter} THEN entries[q] + 1 ELSE entries[q]]
          BY <4>2, Zenon DEF IsrWake
        <5> QED BY <5>1, Zenon
      <4>3. CASE IsrEpoll
        <5>1. CASE "tty" \in epLists
          <6>1. entries' = [q \in Procs |-> IF q \in Procs \cap {epWaiter} THEN entries[q] + 1 ELSE entries[q]]
            BY <4>3, <5>1, Zenon DEF IsrEpoll
          <6> QED BY <6>1, Zenon
        <5>2. CASE "tty" \notin epLists
          <6> DEFINE none == {q \in Procs : FALSE}
          <6>1. entries' = [q \in Procs |-> IF q \in none THEN entries[q] + 1 ELSE entries[q]]
            BY <4>3, <5>2, <2>0, Zenon DEF IsrEpoll
          <6>2. none \in SUBSET Procs
            BY Zenon
          <6> HIDE DEF none
          <6> QED BY <6>1, <6>2, Zenon
        <5> QED BY <5>1, <5>2, Zenon
      <4> QED BY <1>4, <4>1, <4>2, <4>3, Zenon
    <3> QED BY <3>1, <2>0
  <2> QED BY <2>1, <2>2, EnqueueControl, Zenon
<1> QED BY <1>1, <1>2, <1>3, <1>4, Zenon DEF TtyStep

LEMMA EpollControl ==
  ASSUME FlowInv, EpollTypeOK, NEW p \in Procs, NEW open, NEW ready, EpollStep(p, open, ready),
         UNCHANGED after
  PROVE  Control(PollCalls)
<1>n. "epoll_ctl" \in CallNames \cap PollCalls /\ EpollCalls \subseteq CallNames \cap PollCalls
  BY Zenon DEF CallNames, PollCalls, EpollCalls
<1>1. ASSUME NEW o, NEW edge, EpollAdd(p, o, edge, ready) \/ EpollMod(p, o, edge, ready) \/ EpollDel(p, o)
      PROVE  Control(PollCalls)
  <2>1. PICK place \in PlainPlaces : Moves(p, "epoll_ctl", place, WakesNobody)
    BY <1>1, Plain, Zenon DEF EpollAdd, EpollMod, EpollDel
  <2>2. Enters(p, "epoll_ctl")
    BY <1>1, Zenon DEF EpollAdd, EpollMod, EpollDel
  <2> QED BY <2>1, <2>2, <1>n, EnterPlain, Zenon
<1>2. ASSUME NEW o, EpollAddRegister(p, o) \/ EpollDelUnregister(p, o) PROVE Control(PollCalls)
  <2>1. Goes(p, "user") /\ call[p] \in PollCalls /\ pc[p] \notin {"user", "asleep"}
    BY <1>2, <1>n, Zenon DEF EpollAddRegister, EpollDelUnregister, At
  <2> QED BY <2>1, <1>n, Plain, GoPlain, Zenon
<1>3. ASSUME NEW c \in EpollCalls,
             EpollExpire(p, c) \/ EpollMask(p, c) \/ EpollFails(p, c) \/ EpollInterrupted(p, c)
      PROVE  Control(PollCalls)
  <2>1. PICK place \in PlainPlaces : Moves(p, c, place, WakesNobody)
    BY <1>3, Plain, Zenon DEF EpollExpire, EpollMask, EpollFails, EpollInterrupted
  <2>2. Enters(p, c)
    BY <1>3, Zenon DEF EpollExpire, EpollMask, EpollFails, EpollInterrupted
  <2> QED BY <2>1, <2>2, <1>n, EnterPlain, Zenon
<1>4. ASSUME EpollCollect(p, ready) \/ EpollRegister(p) \/ EpollSleep(p) PROVE Control(PollCalls)
  <2>1. PICK place \in PlainPlaces : Goes(p, place)
    BY <1>4, Plain, Zenon DEF EpollCollect, EpollRegister, EpollSleep
  <2>2. call[p] \in PollCalls /\ pc[p] \notin {"user", "asleep"}
    BY <1>4, <1>n, ZenonT(30) DEF EpollCollect, EpollRegister, EpollSleep, At
  <2> QED BY <2>1, <2>2, GoPlain, ZenonT(30)
<1>5. ASSUME EpollStop(p) PROVE Control(PollCalls)
  BY <1>5, <1>n, StopControl, Zenon DEF EpollStop, At
<1>6. ASSUME WakeSleepers(p) \/ WakeWithEintr(p) PROVE Control(PollCalls)
  <2>1. entries' = [entries EXCEPT ![p] = entries[p] + 1] /\ entries \in [Procs -> Nat]
    BY <1>6, Zenon DEF WakeSleepers, WakeWithEintr, FlowInv, WakeTypeOK
  <2>2. entries' \in [Procs -> Nat] /\ \A q \in Procs : entries'[q] >= entries[q]
    BY <2>1
  <2>3. UNCHANGED <<may, calls, call, pc, after>> /\ stopped' \subseteq stopped
    BY <1>6, Zenon DEF WakeSleepers, WakeWithEintr
  <2> QED BY <2>2, <2>3, EnqueueControl, Zenon
<1> QED BY <1>1, <1>2, <1>3, <1>4, <1>5, <1>6, Zenon DEF EpollStep

LEMMA ChannelNames ==
  /\ ReadCalls \subseteq CallNames \cap ChannelCalls /\ WaitCalls \subseteq CallNames \cap ChannelCalls
  /\ "channel_read" \in ChannelCalls /\ "read" \in ChannelCalls
  /\ "write" \in CallNames \cap ChannelCalls /\ "channel_write" \in CallNames \cap ChannelCalls
  /\ "poll" \in CallNames \cap ChannelCalls /\ "close_write" \in CallNames \cap ChannelCalls
  /\ "close_read" \in CallNames \cap ChannelCalls /\ "port_wait" \in CallNames \cap ChannelCalls
  /\ "port_queue" \in CallNames \cap ChannelCalls /\ "port_bind" \in CallNames \cap ChannelCalls
BY ZenonT(30) DEF CallNames, ChannelCalls, ReadCalls, WaitCalls

\* Where the channel's calls may be.
LEMMA ChannelFits ==
  /\ "wake" \in PlaceNames /\ "epoll" \in PlaceNames /\ "take" \in PlaceNames
  /\ "handover" \in PlaceNames /\ "yield" \in PlaceNames /\ "drop" \in PlaceNames
  /\ "drop_wake" \in PlaceNames /\ "drop_signals" \in PlaceNames
  /\ \A c \in ChannelCalls : \A aft :
       /\ Fits(c, "wake", aft) /\ Fits(c, "epoll", aft) /\ Fits(c, "drop", aft)
       /\ Fits(c, "drop_wake", aft) /\ Fits(c, "drop_signals", aft)
  /\ \A aft : /\ Fits("channel_write", "take", aft) /\ Fits("channel_write", "handover", aft)
              /\ Fits("channel_write", "yield", aft)
BY ZenonT(30) DEF PlaceNames, Fits, ChannelPlaces, NotifyPlaces, ChannelCalls

LEMMA NotifyFits ==
  ASSUME NEW place \in NotifyPlaces, NEW c \in ChannelCalls, NEW aft,
         aft = "handover" <=> c = "channel_write", aft = "retract" => c \in ReadCalls
  PROVE  place \in PlaceNames /\ Fits(c, place, aft)
<1>1. place \in PlaceNames /\ place \notin {"take", "handover", "yield"}
      /\ place \notin {"pipe_wake", "pipe_epoll"}
  BY Zenon DEF NotifyPlaces, PlaceNames
<1> QED BY <1>1, Zenon DEF Fits

LEMMA NotifyNames ==
  /\ "notify" \in NotifyPlaces /\ "notify_waiters" \in NotifyPlaces
  /\ "notify_ports" \in NotifyPlaces /\ "port_wake" \in NotifyPlaces
BY Zenon DEF NotifyPlaces

\* What holds while notify_signals runs, and where it may lead.
LEMMA Notifying ==
  ASSUME NEW p, Flow(p), pc[p] \in NotifyPlaces, after[p] \in {"user", "retract", "handover"}
  PROVE  /\ call[p] \in ChannelCalls /\ pc[p] \notin {"user", "asleep"}
         /\ \A place \in NotifyPlaces : place \in PlaceNames /\ Fits(call[p], place, after[p])
         /\ after[p] \in PlaceNames /\ Fits(call[p], after[p], after[p])
<1>1. /\ call[p] \in ChannelCalls /\ pc[p] \notin {"user", "asleep"}
      /\ after[p] = "handover" <=> call[p] = "channel_write"
      /\ after[p] = "retract" => call[p] \in ReadCalls
  BY Zenon DEF Flow, Fits, NotifyPlaces, ChannelPlaces
<1>2. \A place \in NotifyPlaces : place \in PlaceNames /\ Fits(call[p], place, after[p])
  BY <1>1, NotifyFits, ZenonT(30)
<1>3. CASE after[p] = "handover"
  BY <1>1, <1>2, <1>3, ChannelFits, Zenon
<1>4. CASE after[p] # "handover"
  BY <1>1, <1>2, <1>4, Plain, PlainFits, Zenon
<1> QED BY <1>3, <1>4, Zenon

LEMMA WaitersType ==
  ASSUME ChannelTypeOK, NEW cs
  PROVE  WakesWaiters(cs) \in [Procs -> Nat]
BY DEF ChannelTypeOK, WakesWaiters, WaitCalls

\* A step on to notify_signals, from within a call or from its top.
LEMMA GoNotify ==
  ASSUME FlowInv, NEW p \in Procs, NEW woken \in [Procs -> Nat], NEW place \in NotifyPlaces,
         Moves(p, call[p], place, woken), call[p] \in ChannelCalls, pc[p] \notin {"user", "asleep"},
         \A q \in Procs \ {p} : after'[q] = after[q],
         after'[p] = "handover" <=> call[p] = "channel_write",
         after'[p] = "retract" => call[p] \in ReadCalls
  PROVE  Control(ChannelCalls)
<1>1. place \in PlaceNames /\ Fits(call[p], place, after'[p])
  BY NotifyFits, Zenon
<1> QED BY <1>1, GoControl, Zenon

LEMMA EnterNotify ==
  ASSUME FlowInv, NEW p \in Procs, NEW c \in CallNames \cap ChannelCalls, NEW place \in NotifyPlaces,
         Enters(p, c), Moves(p, c, place, WakesNobody), c # "channel_write",
         \A q \in Procs \ {p} : after'[q] = after[q], after'[p] = "user"
  PROVE  Control(ChannelCalls)
<1>1. place \in PlaceNames /\ Fits(c, place, after'[p])
  BY NotifyFits, Zenon
<1> QED BY <1>1, EnterControl, Zenon

\* notify_signals and queue_packet
LEMMA NotifyControl ==
  ASSUME FlowInv, ChannelTypeOK, NEW p \in Procs,
         NotifySignals(p) \/ NotifyWaiters(p) \/ NotifyPorts(p) \/ QueuePacketWake(p)
  PROVE  Control(ChannelCalls)
<1>1. pc[p] \in NotifyPlaces /\ after' = after /\ Flow(p) /\ after[p] \in {"user", "retract", "handover"}
  BY NotifyNames, ZenonT(30) DEF NotifySignals, NotifyWaiters, NotifyPorts, QueuePacketWake, callVars, FlowInv, ChannelTypeOK
<1>2. PICK place \in NotifyPlaces \cup {after[p]}, woken \in [Procs -> Nat] : Moves(p, call[p], place, woken)
  <2>1. CASE NotifySignals(p)
    BY <2>1, NotifyNames, WakesType, ZenonT(30) DEF NotifySignals, Goes
  <2>2. CASE NotifyWaiters(p)
    BY <2>2, NotifyNames, WaitersType, ZenonT(30) DEF NotifyWaiters
  <2>3. CASE NotifyPorts(p)
    BY <2>3, NotifyNames, WakesType, ZenonT(30) DEF NotifyPorts, Goes
  <2>4. CASE QueuePacketWake(p)
    BY <2>4, WakesType, ZenonT(30) DEF QueuePacketWake, GoesWaking
  <2> QED BY <2>1, <2>2, <2>3, <2>4, ZenonT(30)
<1>3. /\ call[p] \in ChannelCalls /\ pc[p] \notin {"user", "asleep"}
      /\ \A pl \in NotifyPlaces : pl \in PlaceNames /\ Fits(call[p], pl, after[p])
      /\ after[p] \in PlaceNames /\ Fits(call[p], after[p], after[p])
  BY <1>1, Notifying, ZenonT(30)
<1>4. place \in PlaceNames /\ Fits(call[p], place, after'[p])
  BY <1>1, <1>2, <1>3, Zenon
<1> QED BY <1>1, <1>2, <1>3, <1>4, GoControl, ZenonT(30)

\* after' of the calls that set it
LEMMA ThenNotifyFacts ==
  ASSUME ChannelTypeOK, NEW p \in Procs, NEW place, ThenNotify(p, place)
  PROVE  after'[p] = place /\ \A q \in Procs \ {p} : after'[q] = after[q]
BY Zenon DEF ChannelTypeOK, ThenNotify

\* Reading: the step pops a message, or goes on at a plain place.
LEMMA PopControl ==
  ASSUME ChannelTypeOK, NEW p \in Procs, NEW c, NEW fits, NEW misfit \in PlainPlaces, NEW place,
         PopOr(p, c, fits, misfit, place)
  PROVE  \/ Moves(p, c, misfit, WakesNobody) /\ UNCHANGED after
         \/ /\ Moves(p, c, "notify", WakesNobody)
            /\ after'[p] = place /\ \A q \in Procs \ {p} : after'[q] = after[q]
BY ThenNotifyFacts, Zenon DEF PopOr

LEMMA ReadControl ==
  ASSUME FlowInv, ChannelTypeOK, NEW p \in Procs,
         \/ \E c \in ReadCalls, fits \in BOOLEAN : Read(p, c, fits)
         \/ \E fits \in BOOLEAN : ReadRecheck(p, fits)
         \/ ReadClosed(p) \/ ReadRegister(p) \/ ReadReclosed(p) \/ ReadRetract(p)
         \/ Poll(p)
  PROVE  Control(ChannelCalls)
<1>r. \A c \in ReadCalls : c \in CallNames \cap ChannelCalls /\ c # "channel_write"
  BY ChannelNames, Zenon DEF ReadCalls
<1>1. ASSUME NEW c \in ReadCalls, NEW fits \in BOOLEAN, Read(p, c, fits) PROVE Control(ChannelCalls)
  <2>1. CASE queued > 0
    <3>1. PopOr(p, c, fits, "user", "user") /\ Enters(p, c)
      BY <1>1, <2>1, Zenon DEF Read
    <3>2. \/ Moves(p, c, "user", WakesNobody) /\ UNCHANGED after
          \/ /\ Moves(p, c, "notify", WakesNobody)
             /\ after'[p] = "user" /\ \A q \in Procs \ {p} : after'[q] = after[q]
      BY <3>1, Plain, PopControl, Zenon
    <3>3. CASE Moves(p, c, "user", WakesNobody) /\ UNCHANGED after
      BY <3>1, <3>3, <1>r, Plain, EnterPlain, Zenon
    <3>4. CASE /\ Moves(p, c, "notify", WakesNobody)
               /\ after'[p] = "user" /\ \A q \in Procs \ {p} : after'[q] = after[q]
      BY <3>1, <3>4, <1>r, NotifyNames, EnterNotify, ZenonT(30)
    <3> QED BY <3>2, <3>3, <3>4, Zenon
  <2>2. CASE ~(queued > 0)
    BY <1>1, <2>2, <1>r, Plain, EnterPlain, Zenon DEF Read
  <2> QED BY <2>1, <2>2, Zenon
<1>2. ASSUME NEW fits \in BOOLEAN, ReadRecheck(p, fits) PROVE Control(ChannelCalls)
  <2>0. call[p] \in ReadCalls /\ pc[p] \notin {"user", "asleep"}
    BY <1>2, ZenonT(30) DEF ReadRecheck, At
  <2>1. CASE queued > 0
    <3>1. PopOr(p, call[p], fits, "retract", "retract")
      BY <1>2, <2>1, Zenon DEF ReadRecheck
    <3>2. \/ Moves(p, call[p], "retract", WakesNobody) /\ UNCHANGED after
          \/ /\ Moves(p, call[p], "notify", WakesNobody)
             /\ after'[p] = "retract" /\ \A q \in Procs \ {p} : after'[q] = after[q]
      BY <3>1, Plain, PopControl, ZenonT(30)
    <3>3. CASE Moves(p, call[p], "retract", WakesNobody) /\ UNCHANGED after
      BY <2>0, <3>3, <1>r, Plain, GoPlain, ZenonT(30) DEF Goes
    <3>4. CASE /\ Moves(p, call[p], "notify", WakesNobody)
               /\ after'[p] = "retract" /\ \A q \in Procs \ {p} : after'[q] = after[q]
      BY <2>0, <3>4, <1>r, NotifyNames, WakesType, GoNotify, ZenonT(30)
    <3> QED BY <3>2, <3>3, <3>4, ZenonT(30)
  <2>2. CASE ~(queued > 0)
    <3>1. UNCHANGED after /\ \E place \in PlainPlaces : Goes(p, place)
      BY <1>2, <2>2, Plain, Zenon DEF ReadRecheck, BlockReading
    <3> QED BY <2>0, <3>1, <1>r, GoPlain, ZenonT(30)
  <2> QED BY <2>1, <2>2, Zenon
<1>3. ASSUME ReadClosed(p) \/ ReadRegister(p) \/ ReadReclosed(p) \/ ReadRetract(p)
      PROVE  Control(ChannelCalls)
  <2>1. UNCHANGED after /\ \E place \in PlainPlaces : Goes(p, place)
    BY <1>3, Plain, Zenon DEF ReadClosed, ReadRegister, ReadReclosed, ReadRetract, BlockReading, callVars, chanVars
  <2>2. call[p] \in ReadCalls /\ pc[p] \notin {"user", "asleep"}
    BY <1>3, ZenonT(30) DEF ReadClosed, ReadRegister, ReadReclosed, ReadRetract, At
  <2> QED BY <2>1, <2>2, <1>r, GoPlain, ZenonT(30)
<1>4. ASSUME Poll(p) PROVE Control(ChannelCalls)
  <2>1. after'[p] = "user" /\ \A q \in Procs \ {p} : after'[q] = after[q]
    BY <1>4, ThenNotifyFacts, Zenon DEF Poll
  <2> QED BY <1>4, <2>1, ChannelNames, NotifyNames, EnterNotify, ZenonT(30) DEF Poll
<1> QED BY <1>1, <1>2, <1>3, <1>4, Zenon

\* Writing.
LEMMA WriteControl ==
  ASSUME FlowInv, ChannelTypeOK, NEW p \in Procs,
         \/ \E c \in {"write", "channel_write"} : Write(p, c)
         \/ WriteWake(p) \/ WriteTake(p) \/ WriteHandover(p) \/ WriterResumes(p)
         \/ WriteEpoll(p)
  PROVE  Control(ChannelCalls)
<1>1. ASSUME NEW c \in {"write", "channel_write"}, Write(p, c) PROVE Control(ChannelCalls)
  <2>1. CASE PeerAlive
    BY <1>1, <2>1, ChannelNames, ChannelFits, EnterControl, ZenonT(30) DEF Write, callVars
  <2>2. CASE ~PeerAlive
    BY <1>1, <2>2, ChannelNames, Plain, EnterPlain, Zenon DEF Write, callVars
  <2> QED BY <2>1, <2>2, Zenon
<1>2. ASSUME WriteWake(p) PROVE Control(ChannelCalls)
  BY <1>2, ChannelNames, ChannelFits, GoControl, WakesType, ZenonT(30) DEF WriteWake, GoesWaking, At, callVars
<1>3. ASSUME WriteTake(p) PROVE Control(ChannelCalls)
  <2>1. after'[p] = "handover" /\ \A q \in Procs \ {p} : after'[q] = after[q]
    BY <1>3, ThenNotifyFacts, ZenonT(30) DEF WriteTake
  <2>2. call[p] = "channel_write" /\ pc[p] = "take" /\ Moves(p, call[p], "notify", WakesNobody)
    BY <1>3, Zenon DEF WriteTake, At, Goes
  <2> QED BY <2>1, <2>2, ChannelNames, NotifyNames, WakesType, GoNotify, ZenonT(30)
<1>4. ASSUME WriteEpoll(p) PROVE Control(ChannelCalls)
  <2>1. call[p] \in {"write", "channel_write"} /\ pc[p] = "epoll"
    BY <1>4, ZenonT(30) DEF WriteEpoll, At
  <2>2. PICK q : Moves(p, call[p], IF call[p] = "write" THEN "notify" ELSE "take", Wakes(q))
    BY <1>4, Zenon DEF WriteEpoll, WakeEpollWaiters, Goes, GoesWaking, WakesNobody
  <2>3. CASE call[p] = "write"
    <3>1. after'[p] = "user" /\ \A r \in Procs \ {p} : after'[r] = after[r]
      BY <1>4, <2>3, ThenNotifyFacts, ZenonT(30) DEF WriteEpoll
    <3> QED BY <2>1, <2>2, <2>3, <3>1, ChannelNames, NotifyNames, WakesType, GoNotify, ZenonT(30)
  <2>4. CASE call[p] # "write"
    <3>1. UNCHANGED after /\ call[p] = "channel_write"
      BY <1>4, <2>1, <2>4, Zenon DEF WriteEpoll
    <3> QED BY <2>1, <2>2, <3>1, ChannelNames, ChannelFits, WakesType, GoControl, ZenonT(30)
  <2> QED BY <2>3, <2>4, Zenon
<1>5. ASSUME WriteHandover(p) PROVE Control(ChannelCalls)
  <2>1. call[p] = "channel_write" /\ pc[p] = "handover" /\ UNCHANGED after
    BY <1>5, ZenonT(30) DEF WriteHandover, At
  <2>2. CASE held[p] = Nobody
    BY <2>1, <2>2, <1>5, ChannelNames, Plain, GoPlain, ZenonT(30) DEF WriteHandover
  <2>3. CASE held[p] # Nobody
    <3>1. Moves(p, call[p], "yield", [r \in Procs |-> Wakes(p)[r] + Wakes(held[p])[r]])
      BY <2>3, <1>5, ZenonT(30) DEF WriteHandover
    <3>2. [r \in Procs |-> Wakes(p)[r] + Wakes(held[p])[r]] \in [Procs -> Nat]
      BY WakesBoth, Zenon
    <3> QED BY <2>1, <3>1, <3>2, ChannelNames, ChannelFits, GoControl, ZenonT(30)
  <2> QED BY <2>2, <2>3, Zenon
<1>6. ASSUME WriterResumes(p) PROVE Control(ChannelCalls)
  <2>0. /\ Resumes(p) /\ after' = after /\ Flow(p) /\ WakeTypeOK
        /\ call[p] = "channel_write" /\ "user" \in PlaceNames
    <3>1. Resumes(p) /\ after' = after /\ Flow(p) /\ WakeTypeOK /\ pc[p] = "yield"
      BY <1>6, Zenon DEF WriterResumes, Resumes, FlowInv, chanVars, callVars
    <3> QED BY <3>1, Plain, PlainFits, ZenonT(30) DEF Flow, Fits
  <2>1. entries \in [Procs -> Nat] /\ entries[p] > 0 /\ entries' = [entries EXCEPT ![p] = entries[p] - 1]
    BY <2>0, Zenon DEF Resumes, WakeTypeOK
  <2>2. entries' \in [Procs -> Nat] /\ \A q \in Procs \ {p} : entries'[q] >= entries[q]
    BY <2>1
  <2>3. WakeTypeOK'
    BY <2>0, <2>2, Zenon DEF Resumes, WakeTypeOK
  <2>4. pc'[p] = "user" /\ call'[p] = "none" /\ may' = may
    BY <2>0, Zenon DEF Resumes, WakeTypeOK
  <2>5. Flow(p)' /\ Allowed(p)'
    BY <2>4, UserFits, ZenonT(30) DEF Flow, Allowed
  <2>6. \A q \in Procs \ {p} : Untouched(q)
    BY <2>0, <2>2, Zenon DEF Resumes, WakeTypeOK, Untouched
  <2> QED BY <2>0, <2>3, <2>4, <2>5, <2>6, ChannelNames, ZenonT(30) DEF Control
<1> QED BY <1>1, <1>2, <1>3, <1>4, <1>5, <1>6, Zenon

\* Closing.
LEMMA CloseControl ==
  ASSUME FlowInv, ChannelTypeOK, NEW p \in Procs,
         CloseWrite(p) \/ CloseRead(p) \/ DropFlag(p) \/ DropWake(p) \/ DropSignals(p)
  PROVE  Control(ChannelCalls)
<1>1. ASSUME CloseWrite(p) PROVE Control(ChannelCalls)
  <2>1. Enters(p, "close_write") /\ UNCHANGED after
        /\ \E place \in {"drop", "user"} : Moves(p, "close_write", place, WakesNobody)
    BY <1>1, Zenon DEF CloseWrite, callVars
  <2>2. CASE Moves(p, "close_write", "drop", WakesNobody)
    BY <2>1, <2>2, ChannelNames, ChannelFits, EnterControl, Zenon
  <2>3. CASE Moves(p, "close_write", "user", WakesNobody)
    BY <2>1, <2>3, ChannelNames, Plain, EnterPlain, ZenonT(30)
  <2> QED BY <2>1, <2>2, <2>3, Zenon
<1>2. ASSUME CloseRead(p) PROVE Control(ChannelCalls)
  BY <1>2, ChannelNames, Plain, EnterPlain, Zenon DEF CloseRead, callVars
<1>3. ASSUME DropFlag(p) PROVE Control(ChannelCalls)
  BY <1>3, ChannelNames, ChannelFits, GoControl, WakesType, ZenonT(30) DEF DropFlag, Goes, At, callVars
<1>4. ASSUME DropWake(p) PROVE Control(ChannelCalls)
  BY <1>4, ChannelNames, ChannelFits, GoControl, WakesType, ZenonT(30) DEF DropWake, GoesWaking, At, callVars
<1>5. ASSUME DropSignals(p) PROVE Control(ChannelCalls)
  <2>1. after'[p] = "user" /\ \A q \in Procs \ {p} : after'[q] = after[q]
    BY <1>5, ThenNotifyFacts, ZenonT(30) DEF DropSignals
  <2>2. call[p] = "close_write" /\ pc[p] = "drop_signals" /\ Moves(p, call[p], "notify", WakesWaiters(WaitCalls))
    BY <1>5, ZenonT(30) DEF DropSignals, At
  <2> QED BY <2>1, <2>2, ChannelNames, NotifyNames, WaitersType, GoNotify, ZenonT(30)
<1> QED BY <1>1, <1>2, <1>3, <1>4, <1>5, Zenon

\* sys_object_wait_one and the ports.
LEMMA PortControl ==
  ASSUME FlowInv, ChannelTypeOK, NEW p \in Procs,
         \/ \E c \in WaitCalls : WaitOne(p, c)
         \/ WaitRegister(p) \/ WaitAgain(p) \/ WaitRetract(p)
         \/ PortWait(p) \/ PortRegister(p) \/ PortRecheck(p) \/ PortRetract(p)
         \/ PortQueue(p) \/ PortBind(p) \/ PortEvaluate(p)
  PROVE  Control(ChannelCalls)
<1>1. ASSUME NEW c \in WaitCalls, WaitOne(p, c) PROVE Control(ChannelCalls)
  BY <1>1, ChannelNames, Plain, EnterPlain, ZenonT(30) DEF WaitOne, chanVars, callVars
<1>2. ASSUME WaitRegister(p) \/ WaitAgain(p) \/ WaitRetract(p) PROVE Control(ChannelCalls)
  <2>1. UNCHANGED after /\ \E place \in PlainPlaces : Goes(p, place)
    BY <1>2, Plain, ZenonT(30) DEF WaitRegister, WaitAgain, WaitRetract, chanVars, callVars
  <2>2. call[p] \in WaitCalls /\ pc[p] \notin {"user", "asleep"}
    BY <1>2, ZenonT(30) DEF WaitRegister, WaitAgain, WaitRetract, At
  <2> QED BY <2>1, <2>2, ChannelNames, GoPlain, ZenonT(30)
<1>3. ASSUME PortWait(p) PROVE Control(ChannelCalls)
  BY <1>3, ChannelNames, Plain, EnterPlain, ZenonT(30) DEF PortWait, callVars
<1>4. ASSUME PortBind(p) PROVE Control(ChannelCalls)
  BY <1>4, ChannelNames, Plain, EnterPlain, Zenon DEF PortBind, callVars
<1>5. ASSUME PortQueue(p) PROVE Control(ChannelCalls)
  <2>1. after'[p] = "user" /\ \A q \in Procs \ {p} : after'[q] = after[q]
    BY <1>5, ThenNotifyFacts, ZenonT(30) DEF PortQueue
  <2> QED BY <1>5, <2>1, ChannelNames, NotifyNames, EnterNotify, ZenonT(30) DEF PortQueue
<1>6. ASSUME PortRegister(p) \/ PortRecheck(p) \/ PortRetract(p) PROVE Control(ChannelCalls)
  <2>1. UNCHANGED after /\ \E place \in PlainPlaces : Goes(p, place)
    BY <1>6, Plain, ZenonT(30) DEF PortRegister, PortRecheck, PortRetract, callVars
  <2>2. call[p] = "port_wait" /\ pc[p] \notin {"user", "asleep"}
    BY <1>6, Zenon DEF PortRegister, PortRecheck, PortRetract, At
  <2> QED BY <2>1, <2>2, ChannelNames, GoPlain, ZenonT(30)
<1>7. ASSUME PortEvaluate(p) PROVE Control(ChannelCalls)
  <2>1. call[p] = "port_bind" /\ pc[p] = "evaluate"
    BY <1>7, ZenonT(30) DEF PortEvaluate, At
  <2>2. CASE Signals \cap Trigger # {}
    <3>1. after'[p] = "user" /\ \A q \in Procs \ {p} : after'[q] = after[q]
      BY <1>7, <2>2, ThenNotifyFacts, ZenonT(30) DEF PortEvaluate
    <3>2. Moves(p, call[p], "port_wake", WakesNobody)
      BY <1>7, <2>2, Zenon DEF PortEvaluate, Goes
    <3> QED BY <2>1, <3>1, <3>2, ChannelNames, NotifyNames, WakesType, GoNotify, ZenonT(30)
  <2>3. CASE Signals \cap Trigger = {}
    BY <1>7, <2>1, <2>3, ChannelNames, Plain, GoPlain, Zenon DEF PortEvaluate
  <2> QED BY <2>2, <2>3, Zenon
<1> QED BY <1>1, <1>2, <1>3, <1>4, <1>5, <1>6, <1>7, Zenon

LEMMA ChannelControl ==
  ASSUME FlowInv, ChannelTypeOK, NEW p \in Procs, ChannelStep(p)
  PROVE  Control(ChannelCalls)
BY NotifyControl, ReadControl, WriteControl, CloseControl, PortControl, Zenon DEF ChannelStep

-----------------------------------------------------------------------------
(* Type correctness *)

LEMMA InitType == Init => TypeOK
<1> SUFFICES ASSUME Init PROVE TypeOK
  BY Zenon
<1>1. WakeTypeOK
  BY WakeupsAssumption DEF Init, WakeInit, WakeTypeOK, CallNames, PlaceNames
<1>2. EpollTypeOK
  BY Zenon DEF Init, EpollInit, EpollTypeOK
<1>3. ChannelTypeOK
  BY Zenon DEF Init, ChannelInit, ChannelTypeOK
<1>4. PipeTypeOK
  BY Zenon DEF Init, PipeInit, PipeTypeOK
<1>5. FutexTypeOK
  BY EmptyFacts, Zenon DEF Init, FutexInit, FutexTypeOK
<1>6. MailboxTypeOK
  BY Zenon DEF Init, MailboxInit, MailboxTypeOK
<1>7. TtyTypeOK
  <2>1. ttyRaw \in BOOLEAN
    <3>1. CASE TtyUsed
      BY <3>1, TtyAssumption, Zenon DEF Init, TtyInit
    <3>2. CASE ~TtyUsed
      BY <3>2, Zenon DEF Init, TtyInit
    <3> QED BY <3>1, <3>2, Zenon
  <2>2. ttyBuf \in Seq({"char", "newline", "control"}) /\ typed \in 0..MaxChars
    BY EmptyFacts, TtyAssumption DEF Init, TtyInit
  <2>3. ttyWaiter \in Procs \cup {Nobody} /\ ttySignals \subseteq Procs \cup fgGroup /\ ctrlc \in BOOLEAN /\ pushed \in BOOLEAN
    BY Zenon DEF Init, TtyInit
  <2> QED BY <2>1, <2>2, <2>3, Zenon DEF TtyTypeOK
<1> QED BY <1>1, <1>2, <1>3, <1>4, <1>5, <1>6, <1>7, Zenon DEF TypeOK

\* wake_epoll_waiters, whoever runs it.
LEMMA EpollWakeType ==
  ASSUME EpollTypeOK, NEW p, NEW o, NEW place, UNCHANGED epollVars \/ WakeEpollWaiters(p, o, place)
  PROVE  EpollTypeOK'
BY Zenon DEF EpollTypeOK, WakeEpollWaiters, epollVars

LEMMA ChannelStepType ==
  ASSUME ChannelTypeOK, NEW p \in Procs, ChannelStep(p)
  PROVE  ChannelTypeOK'
<1> USE DEF ChannelTypeOK, callVars, chanVars, refVars, portVars
<1>1. ASSUME NotifySignals(p) PROVE ChannelTypeOK'
  <2>1. Signals \in SUBSET {"readable", "writable", "closed"}
    BY Zenon DEF Signals
  <2> QED BY <1>1, <2>1, Zenon DEF NotifySignals
<1>3. ASSUME NotifyPorts(p) PROVE ChannelTypeOK'
  BY <1>3 DEF NotifyPorts
<1>4. ASSUME QueuePacketWake(p) PROVE ChannelTypeOK'
  BY <1>4, Zenon DEF QueuePacketWake
<1>2. ASSUME NotifyWaiters(p) PROVE ChannelTypeOK'
  BY <1>2, Zenon DEF NotifyWaiters
<1>5. ASSUME NEW c \in ReadCalls, NEW fits \in BOOLEAN, Read(p, c, fits) PROVE ChannelTypeOK'
  BY <1>5 DEF Read, PopOr, ThenNotify
<1>6. ASSUME NEW fits \in BOOLEAN, ReadRecheck(p, fits) PROVE ChannelTypeOK'
  <2>1. leaked' \subseteq {"reading", "writing"}
    BY <1>6, Zenon DEF ReadRecheck, BlockReading
  <2>2. queued' \in Nat /\ after' \in [Procs -> {"user", "retract", "handover"}]
    BY <1>6 DEF ReadRecheck, PopOr, ThenNotify
  <2> QED BY <1>6, <2>1, <2>2, Zenon DEF ReadRecheck
<1>7. ASSUME ReadClosed(p) \/ ReadRegister(p) \/ ReadReclosed(p) \/ ReadRetract(p) PROVE ChannelTypeOK'
  BY <1>7, Zenon DEF ReadClosed, ReadRegister, ReadReclosed, ReadRetract, BlockReading
<1>8. ASSUME Poll(p) PROVE ChannelTypeOK'
  BY <1>8 DEF Poll, ThenNotify
<1>9. ASSUME NEW c \in {"write", "channel_write"}, Write(p, c) PROVE ChannelTypeOK'
  BY <1>9 DEF Write
<1>10. ASSUME WriteWake(p) PROVE ChannelTypeOK'
  BY <1>10, Zenon DEF WriteWake
<1>11. ASSUME WriteTake(p) PROVE ChannelTypeOK'
  BY <1>11, Zenon DEF WriteTake, ThenNotify
<1>12. ASSUME WriteEpoll(p) PROVE ChannelTypeOK'
  BY <1>12, Zenon DEF WriteEpoll, ThenNotify
<1>13. ASSUME WriteHandover(p) \/ WriterResumes(p) PROVE ChannelTypeOK'
  BY <1>13, ZenonT(30) DEF WriteHandover, WriterResumes
<1>15. ASSUME CloseWrite(p) \/ CloseRead(p) \/ DropFlag(p) \/ DropWake(p) PROVE ChannelTypeOK'
  BY <1>15, Zenon DEF CloseWrite, CloseRead, DropFlag, DropWake
<1>17. ASSUME DropSignals(p) PROVE ChannelTypeOK'
  BY <1>17, Zenon DEF DropSignals, ThenNotify
<1>18. ASSUME NEW c \in WaitCalls, WaitOne(p, c) PROVE ChannelTypeOK'
  BY <1>18, Zenon DEF WaitOne
<1>19. ASSUME WaitRegister(p) PROVE ChannelTypeOK'
  BY <1>19 DEF WaitRegister, At
<1>20. ASSUME WaitAgain(p) PROVE ChannelTypeOK'
  BY <1>20, Zenon DEF WaitAgain
<1>21. ASSUME WaitRetract(p) PROVE ChannelTypeOK'
  <2>1. sigWaiters' \in [Procs -> [WaitCalls -> Nat]]
    <3>1. CASE UNCHANGED sigWaiters
      BY <3>1, Zenon
    <3>2. CASE ~UNCHANGED sigWaiters
      <4>1. PICK c \in WaitCalls :
              sigWaiters[p][c] > 0 /\ sigWaiters' = [sigWaiters EXCEPT ![p][c] = @ - 1]
        BY <3>2, <1>21, Zenon DEF WaitRetract
      <4> QED BY <4>1
    <3> QED BY <3>1, <3>2, Zenon
  <2> QED BY <1>21, <2>1, Zenon DEF WaitRetract
<1>22. ASSUME PortWait(p) \/ PortRecheck(p) PROVE ChannelTypeOK'
  <2>1. portq' \in Nat
    BY <1>22 DEF PortWait, PortRecheck
  <2> QED BY <1>22, <2>1, ZenonT(30) DEF PortWait, PortRecheck
<1>23. ASSUME PortBind(p) \/ PortRegister(p) \/ PortRetract(p) PROVE ChannelTypeOK'
  <2>1. bound' \in BOOLEAN /\ portWaiter' \in Procs \cup {Nobody}
    BY <1>23, Zenon DEF PortBind, PortRegister, PortRetract
  <2> QED BY <1>23, <2>1, Zenon DEF PortBind, PortRegister, PortRetract
<1>24. ASSUME PortQueue(p) \/ PortEvaluate(p) PROVE ChannelTypeOK'
  <2>1. portq' \in Nat /\ after' \in [Procs -> {"user", "retract", "handover"}]
    BY <1>24 DEF PortQueue, PortEvaluate, ThenNotify
  <2> QED BY <1>24, <2>1, Zenon DEF PortQueue, PortEvaluate
<1> QED BY <1>1, <1>2, <1>3, <1>4, <1>5, <1>6, <1>7, <1>8, <1>9, <1>10, <1>11, <1>12, <1>13, <1>15,
  <1>17, <1>18, <1>19, <1>20, <1>21, <1>22, <1>23, <1>24, ZenonT(30) DEF ChannelStep

LEMMA PipeStepType ==
  ASSUME PipeTypeOK, NEW p \in Procs, PipeStep(p)
  PROVE  PipeTypeOK'
<1> USE DEF PipeTypeOK, pipeVars
<1>1. ASSUME NEW n \in 1..2, PipeRead(p, n) PROVE PipeTypeOK'
  BY <1>1 DEF PipeRead
<1>2. ASSUME PipeRegister(p) \/ PipeRecheck(p) \/ PipeRetract(p) \/ PipeWrite(p) \/ PipePush(p)
      PROVE  PipeTypeOK'
  BY <1>2 DEF PipeRegister, PipeRecheck, PipeRetract, PipeWrite, PipePush
<1>3. ASSUME PipeWake(p) \/ PipeClose(p) \/ PipeRelease(p) \/ PipeCloseRead(p) \/ PipeEpoll(p)
      PROVE  PipeTypeOK'
  BY <1>3, Zenon DEF PipeWake, PipeClose, PipeRelease, PipeCloseRead, PipeEpoll
<1> QED BY <1>1, <1>2, <1>3, Zenon DEF PipeStep

LEMMA FutexStepType ==
  ASSUME FutexTypeOK, NEW p \in Procs, FutexStep(p)
  PROVE  FutexTypeOK'
<1> USE DEF FutexTypeOK, futexVars
<1>1. ASSUME FutexWait(p) \/ FutexStop(p) \/ FutexReturn(p) PROVE FutexTypeOK'
  <2>1. futexq' \in {futexq, Append(futexq, p)}
    BY <1>1, Zenon DEF FutexWait, FutexStop, FutexReturn
  <2>2. Append(futexq, p) \in Seq(Procs)
    BY AppendFacts, Zenon
  <2> QED BY <1>1, <2>1, <2>2, Zenon DEF FutexWait, FutexStop, FutexReturn
<1>2. ASSUME NEW v \in {0, 1}, FutexSet(p, v) PROVE FutexTypeOK'
  BY <1>2, Zenon DEF FutexSet
<1>3. ASSUME NEW n \in 0..2, FutexDrain(p, n) PROVE FutexTypeOK'
  <2>1. PICK k \in 0..Len(futexq) : /\ toWake' = [toWake EXCEPT ![p] = SubSeq(futexq, 1, k)]
                                    /\ futexq' = SubSeq(futexq, k + 1, Len(futexq))
    <3> DEFINE asked == IF n = 0 THEN 1 ELSE n
               m     == IF asked < Len(futexq) THEN asked ELSE Len(futexq)
    <3>1. m \in 0..Len(futexq)
      BY LenFacts
    <3>2. /\ toWake' = [toWake EXCEPT ![p] = SubSeq(futexq, 1, m)]
          /\ futexq' = SubSeq(futexq, m + 1, Len(futexq))
      BY <1>3, Zenon DEF FutexDrain
    <3> HIDE DEF m
    <3> QED BY <3>1, <3>2, Zenon
  <2>2. SubSeq(futexq, 1, k) \in Seq(Procs) /\ SubSeq(futexq, k + 1, Len(futexq)) \in Seq(Procs)
    BY SubSeqFacts, LenFacts
  <2> QED BY <1>3, <2>1, <2>2, Zenon DEF FutexDrain
<1>4. ASSUME FutexEnqueue(p) PROVE FutexTypeOK'
  <2>1. CASE toWake[p] = <<>>
    BY <1>4, <2>1, Zenon DEF FutexEnqueue
  <2>2. CASE toWake[p] # <<>>
    <3>1. Tail(toWake[p]) \in Seq(Procs)
      BY <2>2, HeadTailFacts, Zenon
    <3> QED BY <1>4, <2>2, <3>1, Zenon DEF FutexEnqueue
  <2> QED BY <2>1, <2>2, Zenon
<1> QED BY <1>1, <1>2, <1>3, <1>4, Zenon DEF FutexStep

LEMMA MailboxStepType ==
  ASSUME MailboxTypeOK, NEW p \in Procs, MailboxStep(p)
  PROVE  MailboxTypeOK'
<1> USE DEF MailboxTypeOK, mailVars
<1>1. ASSUME MailboxReceive(p) PROVE MailboxTypeOK'
  BY <1>1 DEF MailboxReceive
<1>2. ASSUME MailboxRegister(p) \/ MailboxStop(p) PROVE MailboxTypeOK'
  BY <1>2, Zenon DEF MailboxRegister, MailboxStop
<1>3. ASSUME NEW to \in Procs, MailboxSend(p, to) PROVE MailboxTypeOK'
  BY <1>3 DEF MailboxSend
<1>4. ASSUME MailboxFlag(p) \/ MailboxState(p) PROVE MailboxTypeOK'
  BY <1>4, Zenon DEF MailboxFlag, MailboxState
<1> QED BY <1>1, <1>2, <1>3, <1>4, Zenon DEF MailboxStep

LEMMA TtyStepType ==
  ASSUME TtyTypeOK, TtyStep
  PROVE  TtyTypeOK'
<1> USE DEF TtyTypeOK
<1>1. ASSUME NEW p \in Procs, TtyRead(p) PROVE TtyTypeOK'
  BY <1>1, Zenon DEF TtyRead
<1>2. ASSUME NEW p \in Procs, NEW n \in {1, 3}, TtyReadBuffer(p, n) PROVE TtyTypeOK'
  <2>1. ttyBuf' \in Seq({"char", "newline", "control"})
    <3>1. CASE ~LineReady
      BY <1>2, <3>1, Zenon DEF TtyReadBuffer
    <3>2. CASE LineReady
      <4>1. PICK whole \in DOMAIN ttyBuf :
              ttyBuf' = SubSeq(ttyBuf, (IF n < whole THEN n ELSE whole) + 1, Len(ttyBuf))
        BY <1>2, <3>2, Zenon DEF TtyReadBuffer
      <4> DEFINE take == IF n < whole THEN n ELSE whole
      <4>2. take \in Nat
        BY LenFacts
      <4> HIDE DEF take
      <4> QED BY <4>1, <4>2, LenFacts, SubSeqFacts DEF take
    <3> QED BY <3>1, <3>2, Zenon
  <2> QED BY <1>2, <2>1, Zenon DEF TtyReadBuffer
<1>3. ASSUME NEW c \in {"char", "newline", "backspace"}, IsrChar(c) PROVE TtyTypeOK'
  <2>1. ttyBuf' \in Seq({"char", "newline", "control"})
    BY <1>3, AppendFacts, SubSeqFacts, LenFacts, EmptyFacts DEF IsrChar
  <2>2. typed' \in 0..MaxChars
    BY <1>3, TtyAssumption DEF IsrChar
  <2> QED BY <1>3, <2>1, <2>2, Zenon DEF IsrChar
<1>4. ASSUME IsrSignal PROVE TtyTypeOK'
  BY <1>4, TtyAssumption DEF IsrSignal
<1>5. ASSUME IsrControl PROVE TtyTypeOK'
  BY <1>5, TtyAssumption DEF IsrControl
<1>6. ASSUME IsrControlByte PROVE TtyTypeOK'
  BY <1>6, AppendFacts, Zenon DEF IsrControlByte
<1>7. ASSUME IsrEnd \/ IsrWake \/ IsrEpoll PROVE TtyTypeOK'
  BY <1>7, ZenonT(30) DEF IsrEnd, IsrWake, IsrEpoll
<1> QED BY <1>1, <1>2, <1>3, <1>4, <1>5, <1>6, <1>7, Zenon DEF TtyStep

LEMMA EpollStepType ==
  ASSUME EpollTypeOK, NEW p \in Procs, NEW open \in SUBSET Watchable, NEW ready \in SUBSET Watchable,
         EpollStep(p, open, ready)
  PROVE  EpollTypeOK'
<1> USE DEF EpollTypeOK, epollVars
<1>1. ASSUME NEW o \in open, NEW edge \in BOOLEAN, EpollAdd(p, o, edge, ready) \/ EpollMod(p, o, edge, ready)
      PROVE  EpollTypeOK'
  BY <1>1, Zenon DEF EpollAdd, EpollMod, SetEdge, SetLast
<1>2. ASSUME NEW o \in open, EpollAddRegister(p, o) \/ EpollDel(p, o) \/ EpollDelUnregister(p, o)
      PROVE  EpollTypeOK'
  BY <1>2, Zenon DEF EpollAddRegister, EpollDel, EpollDelUnregister
<1>3. ASSUME NEW c \in EpollCalls, EpollExpire(p, c) PROVE EpollTypeOK'
  BY <1>3, Zenon DEF EpollExpire, RestoreMask
<1>4. ASSUME NEW c \in EpollCalls, EpollMask(p, c) PROVE EpollTypeOK'
  BY <1>4, Zenon DEF EpollMask
<1>8. ASSUME NEW c \in EpollCalls, EpollFails(p, c) \/ EpollInterrupted(p, c) PROVE EpollTypeOK'
  BY <1>8, Zenon DEF EpollFails, EpollInterrupted, Cuts
<1>9. ASSUME WakeWithEintr(p) PROVE EpollTypeOK'
  BY <1>9, Zenon DEF WakeWithEintr
<1>5. ASSUME EpollCollect(p, ready) PROVE EpollTypeOK'
  BY <1>5, Zenon DEF EpollCollect, RestoreMask
<1>6. ASSUME EpollRegister(p) \/ EpollSleep(p) \/ EpollStop(p) PROVE EpollTypeOK'
  BY <1>6 DEF EpollRegister, EpollSleep, EpollStop
<1>7. ASSUME WakeSleepers(p) PROVE EpollTypeOK'
  BY <1>7 DEF WakeSleepers
<1> QED BY <1>1, <1>2, <1>3, <1>4, <1>5, <1>6, <1>7, <1>8, <1>9, Zenon DEF EpollStep

-----------------------------------------------------------------------------
(* Steps of the whole *)

BaseInv == TypeOK /\ \A p \in Procs : Flow(p) /\ Allowed(p)

LEMMA BaseFlow == BaseInv => FlowInv
BY Zenon DEF BaseInv, FlowInv, TypeOK

LEMMA WatchedObjects == OpenObjects \in SUBSET Watchable /\ ReadyObjects \in SUBSET Watchable
BY Zenon DEF OpenObjects, ReadyObjects

\* A step of another component: nobody in the calls X is moved by it.
Apart(X) == \A q \in Procs : call[q] \in X \/ call'[q] \in X => Untouched(q)

LEMMA ControlApart ==
  ASSUME NEW X, NEW Y, Control(X), Y \cap X = {}, "none" \notin Y
  PROVE  Apart(Y)
BY Zenon DEF Control, Apart

\* What a step of the whole is for each of the components.
Components ==
  /\ (\E p \in Procs : ChannelStep(p)) \/ (Apart(ChannelCalls) /\ UNCHANGED chanVars)
  /\ (\E p \in Procs : PipeStep(p)) \/ (Apart(PipeCalls) /\ UNCHANGED pipeVars)
  /\ (\E p \in Procs : FutexStep(p)) \/ (Apart(FutexCalls) /\ UNCHANGED futexVars)
  /\ TtyStep \/ (Apart(TtyCalls) /\ UNCHANGED ttyVars)
  /\ \/ \E p \in Procs : EpollStep(p, OpenObjects, ReadyObjects)
     \/ Apart(PollCalls) /\ UNCHANGED <<epSaved, mask, cut>>

LEMMA StepComponents ==
  ASSUME BaseInv, [Next]_vars
  PROVE  /\ \E X : Control(X)
         /\ TypeOK'
         /\ Components
<1> USE BaseFlow
<1>w. WakeTypeOK /\ EpollTypeOK /\ ChannelTypeOK /\ PipeTypeOK /\ FutexTypeOK /\ MailboxTypeOK /\ TtyTypeOK
  BY Zenon DEF BaseInv, TypeOK
<1>c. \A X : Control(X) => WakeTypeOK'
  BY Zenon DEF Control
<1>d. /\ (ChannelCalls \cap PipeCalls = {} /\ ChannelCalls \cap FutexCalls = {} /\ ChannelCalls \cap TtyCalls = {}
           /\ ChannelCalls \cap PollCalls = {} /\ ChannelCalls \cap MailCalls = {})
      /\ (PipeCalls \cap ChannelCalls = {} /\ PipeCalls \cap FutexCalls = {} /\ PipeCalls \cap TtyCalls = {}
           /\ PipeCalls \cap PollCalls = {} /\ PipeCalls \cap MailCalls = {})
      /\ (FutexCalls \cap ChannelCalls = {} /\ FutexCalls \cap PipeCalls = {} /\ FutexCalls \cap TtyCalls = {}
           /\ FutexCalls \cap PollCalls = {} /\ FutexCalls \cap MailCalls = {})
      /\ (TtyCalls \cap ChannelCalls = {} /\ TtyCalls \cap PipeCalls = {} /\ TtyCalls \cap FutexCalls = {}
           /\ TtyCalls \cap PollCalls = {} /\ TtyCalls \cap MailCalls = {})
      /\ (PollCalls \cap ChannelCalls = {} /\ PollCalls \cap PipeCalls = {} /\ PollCalls \cap FutexCalls = {}
           /\ PollCalls \cap TtyCalls = {} /\ PollCalls \cap MailCalls = {})
      /\ "none" \notin ChannelCalls /\ "none" \notin PipeCalls /\ "none" \notin FutexCalls
      /\ "none" \notin TtyCalls /\ "none" \notin PollCalls
  BY Zenon DEF ChannelCalls, ReadCalls, WaitCalls, PipeCalls, FutexCalls, TtyCalls, PollCalls, EpollCalls, MailCalls
<1>t. /\ UNCHANGED chanVars => ChannelTypeOK'
      /\ UNCHANGED pipeVars => PipeTypeOK'
      /\ UNCHANGED futexVars => FutexTypeOK'
      /\ UNCHANGED mailVars => MailboxTypeOK'
      /\ UNCHANGED ttyVars => TtyTypeOK'
      /\ UNCHANGED epollVars => EpollTypeOK'
  <2>1. UNCHANGED chanVars => ChannelTypeOK'
    BY <1>w, Zenon DEF ChannelTypeOK, chanVars, portVars, refVars, callVars
  <2>2. UNCHANGED pipeVars => PipeTypeOK'
    BY <1>w, Zenon DEF PipeTypeOK, pipeVars
  <2>3. UNCHANGED futexVars => FutexTypeOK'
    BY <1>w, Zenon DEF FutexTypeOK, futexVars
  <2>4. UNCHANGED mailVars => MailboxTypeOK'
    BY <1>w, Zenon DEF MailboxTypeOK, mailVars
  <2>5. UNCHANGED ttyVars => TtyTypeOK'
    BY <1>w, Zenon DEF TtyTypeOK, ttyVars
  <2>6. UNCHANGED epollVars => EpollTypeOK'
    BY <1>w, Zenon DEF EpollTypeOK, epollVars
  <2> QED BY <2>1, <2>2, <2>3, <2>4, <2>5, <2>6, Zenon
<1>m. epollVars' = epollVars => UNCHANGED <<epSaved, mask, cut>>
  BY Zenon DEF epollVars
<1>1. ASSUME NEW p \in Procs, EpollStep(p, OpenObjects, ReadyObjects),
             UNCHANGED <<chanVars, pipeVars, futexVars, mailVars, ttyVars>>
      PROVE  (\E X : Control(X)) /\ TypeOK' /\ Components
  <2>1. Control(PollCalls)
    BY <1>1, <1>w, EpollControl, Zenon DEF chanVars, callVars
  <2>2. EpollTypeOK'
    BY <1>1, <1>w, WatchedObjects, EpollStepType, Zenon
  <2>3. TypeOK'
    BY <1>1, <1>t, <1>c, <2>1, <2>2, Zenon DEF TypeOK
  <2>4. Components
    BY <1>1, <1>d, <2>1, ControlApart, Zenon DEF Components
  <2> QED BY <2>1, <2>3, <2>4, Zenon
<1>2. ASSUME NEW p \in Procs, ChannelStep(p), UNCHANGED <<pipeVars, futexVars, mailVars, ttyVars>>
      PROVE  (\E X : Control(X)) /\ TypeOK' /\ Components
  <2>1. Control(ChannelCalls)
    BY <1>2, <1>w, ChannelControl, Zenon
  <2>2. ChannelTypeOK'
    BY <1>2, <1>w, ChannelStepType, Zenon
  <2>3. UNCHANGED epollVars \/ \E place : WakeEpollWaiters(p, "channel", place)
    BY <1>2, Zenon DEF ChannelStep, WriteEpoll
  <2>4. EpollTypeOK' /\ UNCHANGED <<epSaved, mask, cut>>
    BY <1>w, <2>3, EpollWakeType, Zenon DEF WakeEpollWaiters, epollVars
  <2>5. TypeOK'
    BY <1>2, <1>t, <1>c, <2>1, <2>2, <2>4, Zenon DEF TypeOK
  <2>6. Components
    BY <1>2, <1>d, <2>1, <2>4, ControlApart, Zenon DEF Components
  <2> QED BY <2>1, <2>5, <2>6, Zenon
<1>3. ASSUME NEW p \in Procs, PipeStep(p), UNCHANGED <<chanVars, futexVars, mailVars, ttyVars>>
      PROVE  (\E X : Control(X)) /\ TypeOK' /\ Components
  <2>1. Control(PipeCalls)
    BY <1>3, <1>w, PipeControl, Zenon DEF chanVars, callVars
  <2>2. PipeTypeOK'
    BY <1>3, <1>w, PipeStepType, Zenon
  <2>3. UNCHANGED epollVars \/ \E place : WakeEpollWaiters(p, "pipe", place)
    BY <1>3, Zenon DEF PipeStep, PipeEpoll
  <2>4. EpollTypeOK' /\ UNCHANGED <<epSaved, mask, cut>>
    BY <1>w, <2>3, EpollWakeType, Zenon DEF WakeEpollWaiters, epollVars
  <2>5. TypeOK'
    BY <1>3, <1>t, <1>c, <2>1, <2>2, <2>4, Zenon DEF TypeOK
  <2>6. Components
    BY <1>3, <1>d, <2>1, <2>4, ControlApart, Zenon DEF Components
  <2> QED BY <2>1, <2>5, <2>6, Zenon
<1>4. ASSUME NEW p \in Procs, FutexStep(p), UNCHANGED <<chanVars, pipeVars, mailVars, ttyVars>>
      PROVE  (\E X : Control(X)) /\ TypeOK' /\ Components
  <2>1. Control(FutexCalls)
    BY <1>4, <1>w, FutexControl, Zenon DEF chanVars, callVars
  <2>2. FutexTypeOK'
    BY <1>4, <1>w, FutexStepType, Zenon
  <2>4. EpollTypeOK' /\ UNCHANGED <<epSaved, mask, cut>>
    BY <1>4, <1>w, Zenon DEF FutexStep, epollVars, EpollTypeOK
  <2>5. TypeOK'
    BY <1>4, <1>t, <1>c, <2>1, <2>2, <2>4, Zenon DEF TypeOK
  <2>6. Components
    BY <1>4, <1>d, <2>1, <2>4, ControlApart, ZenonT(30) DEF Components
  <2> QED BY <2>1, <2>5, <2>6, Zenon
<1>5. ASSUME NEW p \in Procs, MailboxStep(p), UNCHANGED <<chanVars, pipeVars, futexVars, ttyVars>>
      PROVE  (\E X : Control(X)) /\ TypeOK' /\ Components
  <2>1. Control(MailCalls)
    BY <1>5, <1>w, MailboxControl, Zenon DEF chanVars, callVars
  <2>2. MailboxTypeOK'
    BY <1>5, <1>w, MailboxStepType, Zenon
  <2>4. EpollTypeOK' /\ UNCHANGED <<epSaved, mask, cut>>
    BY <1>5, <1>w, Zenon DEF MailboxStep, epollVars, EpollTypeOK
  <2>5. TypeOK'
    BY <1>5, <1>t, <1>c, <2>1, <2>2, <2>4, Zenon DEF TypeOK
  <2>6. Components
    BY <1>5, <1>d, <2>1, <2>4, ControlApart, Zenon DEF Components
  <2> QED BY <2>1, <2>5, <2>6, Zenon
<1>6. ASSUME TtyStep, UNCHANGED <<chanVars, pipeVars, futexVars, mailVars>>
      PROVE  (\E X : Control(X)) /\ TypeOK' /\ Components
  <2>1. Control(TtyCalls)
    BY <1>6, <1>w, TtyControl, Zenon DEF chanVars, callVars
  <2>2. TtyTypeOK'
    BY <1>6, <1>w, TtyStepType, Zenon
  <2>4. EpollTypeOK' /\ UNCHANGED <<epSaved, mask, cut>>
    <3>1. CASE UNCHANGED epollVars
      BY <3>1, <1>w, Zenon DEF epollVars, EpollTypeOK
    <3>2. CASE IsrEpoll
      BY <3>2, <1>w, Zenon DEF IsrEpoll, EpollTypeOK
    <3> QED BY <1>6, <3>1, <3>2, Zenon DEF TtyStep
  <2>5. TypeOK'
    BY <1>6, <1>t, <1>c, <2>1, <2>2, <2>4, Zenon DEF TypeOK
  <2>6. Components
    BY <1>6, <1>d, <2>1, <2>4, ControlApart, Zenon DEF Components
  <2> QED BY <2>1, <2>5, <2>6, Zenon
<1>7. ASSUME UNCHANGED vars
      PROVE  (\E X : Control(X)) /\ TypeOK' /\ Components
  <2>0. WakeTypeOK'
    BY <1>7, <1>w, Zenon DEF vars, wakeVars, WakeTypeOK
  <2>1. \A X : Control(X)
    <3>1. \A q \in Procs : Untouched(q)
      <4>1. pc' = pc /\ call' = call /\ after' = after /\ entries' = entries
        BY <1>7, Zenon DEF vars, wakeVars, chanVars, callVars
      <4>2. \A q \in Procs : entries[q] \in Nat
        BY <1>w DEF WakeTypeOK
      <4>3. \A q \in Procs : entries[q] >= entries[q]
        BY <4>2, SMT
      <4> QED BY <4>1, <4>3, Zenon DEF Untouched
    <3> QED BY <1>7, <2>0, <3>1, ZenonT(30) DEF vars, wakeVars, Control
  <2>2. TypeOK'
    BY <1>7, <1>t, <2>0, Zenon DEF vars, TypeOK
  <2>3. Components
    <3>1. Apart(ChannelCalls) /\ Apart(PipeCalls) /\ Apart(FutexCalls) /\ Apart(TtyCalls) /\ Apart(PollCalls)
      BY <2>1, <1>d, ControlApart, Zenon
    <3> QED BY <1>7, <1>m, <3>1, Zenon DEF Components, vars
  <2> QED BY <2>1, <2>2, <2>3, Zenon
<1> QED BY <1>1, <1>2, <1>3, <1>4, <1>5, <1>6, <1>7, Zenon DEF Next

LEMMA BaseInit == Init => BaseInv
<1> SUFFICES ASSUME Init PROVE BaseInv
  BY Zenon
<1>1. \A p \in Procs : Flow(p) /\ Allowed(p)
  BY UserFits, Zenon DEF Init, WakeInit, Flow, Allowed
<1> QED BY <1>1, InitType, Zenon DEF BaseInv

LEMMA BaseStep == BaseInv /\ [Next]_vars => BaseInv'
<1> SUFFICES ASSUME BaseInv, [Next]_vars PROVE BaseInv'
  BY Zenon
<1>1. PICK X : Control(X)
  BY StepComponents, Zenon
<1>2. FlowInv'
  BY <1>1, BaseFlow, ControlFlow, Zenon
<1> QED BY <1>2, StepComponents, Zenon DEF BaseInv, FlowInv

LEMMA BaseHolds == Spec => []BaseInv
BY BaseInit, BaseStep, PTL DEF Spec

\* Every variable of the objects keeps its type: among them each waiter word
\* holds a process or nobody, and no process has fewer than no entries on the
\* run queue, whatever the system calls, the interrupt handler and the timer do.
THEOREM TypeCorrect == Spec => []TypeOK
<1>1. BaseInv => TypeOK
  BY Zenon DEF BaseInv
<1> QED BY <1>1, BaseHolds, PTL

-----------------------------------------------------------------------------
(* One waiter per object *)

\* In every program one process at most makes calls of cs.  A waiter word, and
\* the saved mask of an epoll instance, have room for one process.
Exclusive(cs) ==
  \A m \in Programs : \A p, q \in Procs : m[p] \cap cs # {} /\ m[q] \cap cs # {} => p = q

LEMMA OnlyOne ==
  ASSUME BaseInv, NEW cs, Exclusive(cs), NEW p \in Procs, may[p] \cap cs # {},
         NEW q \in Procs, call[q] \in cs, "none" \notin cs
  PROVE  q = p
<1>1. call[q] \in may[q] /\ may \in Programs
  BY ZenonT(30) DEF BaseInv, Allowed, TypeOK, WakeTypeOK
<1> QED BY <1>1, Zenon DEF Exclusive

\* p enqueues the processes of woken, and loses its own entry if it slept.
Enqueues(p, woken) ==
  \A q \in Procs : q # p \/ pc[p] # "asleep" => entries'[q] = entries[q] + woken[q]

LEMMA MovesEnqueues ==
  ASSUME WakeTypeOK, NEW p \in Procs, NEW c, NEW place, NEW woken \in [Procs -> Nat],
         Moves(p, c, place, woken)
  PROVE  Enqueues(p, woken)
<1>1. ASSUME NEW q \in Procs, q # p \/ pc[p] # "asleep" PROVE entries'[q] = entries[q] + woken[q]
  <2>1. entries'[q] = (entries[q] + woken[q]) - (IF q = p /\ pc[p] = "asleep" THEN 1 ELSE 0)
    BY Zenon DEF Moves
  <2>2. entries'[q] = (entries[q] + woken[q]) - 0
    BY <1>1, <2>1, Zenon
  <2>3. entries[q] \in Nat /\ woken[q] \in Nat
    BY Zenon DEF WakeTypeOK
  <2> QED BY <2>2, <2>3
<1> QED BY <1>1, Zenon DEF Enqueues

\* What a step by Moves does, whatever its place.
LEMMA MovesFacts ==
  ASSUME WakeTypeOK, NEW p \in Procs, NEW c, NEW place, NEW woken \in [Procs -> Nat],
         Moves(p, c, place, woken)
  PROVE  /\ OthersKeep(p)
         /\ pc'[p] = place /\ call'[p] = (IF place = "user" THEN "none" ELSE c)
         /\ \A q \in Procs : q # p \/ pc[p] # "asleep" => entries'[q] = entries[q] + woken[q]
<1>1. /\ pc' = [pc EXCEPT ![p] = place] /\ pc \in [Procs -> PlaceNames]
      /\ call' = [call EXCEPT ![p] = IF place = "user" THEN "none" ELSE c]
      /\ call \in [Procs -> CallNames \cup {"none"}] /\ may' = may
  BY Zenon DEF Moves, WakeTypeOK
<1>3. \A q \in Procs : entries[q] \in Nat /\ woken[q] \in Nat
  BY Zenon DEF WakeTypeOK
<1>4. \A q \in Procs : q # p \/ pc[p] # "asleep" => entries'[q] = entries[q] + woken[q]
  BY MovesEnqueues, ZenonT(30) DEF Enqueues
<1>5. \A q \in Procs \ {p} : entries'[q] >= entries[q]
  BY <1>3, <1>4, SumNotFewer, Zenon
<1>6. pc'[p] = place /\ call'[p] = (IF place = "user" THEN "none" ELSE c)
  BY <1>1, Zenon
<1> QED BY <1>1, <1>4, <1>5, <1>6, Zenon DEF OthersKeep

\* A step that wakes nobody.
LEMMA MovesQuietly ==
  ASSUME WakeTypeOK, NEW p \in Procs, NEW c, NEW place, Moves(p, c, place, WakesNobody)
  PROVE  /\ OthersKeep(p)
         /\ pc'[p] = place /\ call'[p] = (IF place = "user" THEN "none" ELSE c)
         /\ \A q \in Procs : q # p \/ pc[p] # "asleep" => entries'[q] = entries[q]
<1>1. \A q \in Procs : WakesNobody[q] = 0 /\ entries[q] \in Nat
  BY WakeupsAssumption, Zenon DEF WakesNobody, Wakes, WakeTypeOK
<1>2. ASSUME NEW q \in Procs, q # p \/ pc[p] # "asleep" PROVE entries'[q] = entries[q] + WakesNobody[q]
  <2>1. Enqueues(p, WakesNobody)
    BY MovesEnqueues, WakesType, Zenon
  <2> QED BY <1>2, <2>1, Zenon DEF Enqueues
<1>3. OthersKeep(p) /\ pc'[p] = place /\ call'[p] = (IF place = "user" THEN "none" ELSE c)
  BY MovesFacts, WakesType, ZenonT(30)
<1> QED BY <1>1, <1>2, <1>3

\* A step that wakes one process, if it is one.
LEMMA MovesWaking ==
  ASSUME WakeTypeOK, NEW p \in Procs, NEW c, NEW place, NEW w, Moves(p, c, place, Wakes(w)),
         pc[p] # "asleep"
  PROVE  /\ OthersKeep(p)
         /\ pc'[p] = place /\ call'[p] = (IF place = "user" THEN "none" ELSE c)
         /\ \A q \in Procs : entries'[q] >= entries[q]
         /\ w \in Procs => entries'[w] > 0
<1>1. \A q \in Procs : Wakes(w)[q] = (IF q = w THEN 1 ELSE 0) /\ entries[q] \in Nat
  BY Zenon DEF Wakes, WakeTypeOK
<1>2. ASSUME NEW q \in Procs PROVE entries'[q] = entries[q] + Wakes(w)[q]
  <2>1. Enqueues(p, Wakes(w))
    BY MovesEnqueues, WakesType, Zenon
  <2> QED BY <2>1, Zenon DEF Enqueues
<1>3. OthersKeep(p) /\ pc'[p] = place /\ call'[p] = (IF place = "user" THEN "none" ELSE c)
  BY MovesFacts, WakesType, Zenon
<1> QED BY <1>1, <1>2, <1>3

-----------------------------------------------------------------------------
(* The signal mask of epoll_pwait *)

\* The mask of a pwait is in force only inside the call, or after a return
\* that does not put the process's own back, and then that one is saved.
MaskInv ==
  /\ epSaved \in {"none", "own"}
  /\ \A p \in cut : may[p] \cap EpollCalls # {}
  /\ \A p \in Procs : mask[p] = "own" \/ ((call[p] \in EpollCalls \/ p \in cut) /\ epSaved = "own")

\* All processes but p have their own mask, and so has p unless a mask is saved.
LEMMA MaskSteps ==
  ASSUME EpollTypeOK, MaskInv, NEW p \in Procs, may[p] \cap EpollCalls # {}, may' = may,
         \A q \in Procs \ {p} : mask[q] = "own"
  PROVE  /\ RestoreMask(p) => MaskInv'
         /\ UNCHANGED <<epSaved, mask, cut>> /\ call'[p] \in EpollCalls => MaskInv'
         /\ UNCHANGED <<epSaved, mask>> /\ Cuts(p) => MaskInv'
<1>1. ASSUME RestoreMask(p) PROVE MaskInv'
  <2>1. epSaved' = "none" /\ cut' \subseteq cut
    BY <1>1, Zenon DEF RestoreMask
  <2>2. \A q \in Procs : mask'[q] = "own"
    <3>1. CASE epSaved = "none"
      BY <1>1, <3>1, Zenon DEF RestoreMask, MaskInv
    <3>2. CASE epSaved = "own"
      BY <1>1, <3>2, Zenon DEF RestoreMask, EpollTypeOK
    <3> QED BY <3>1, <3>2, Zenon DEF MaskInv
  <2> QED BY <2>1, <2>2, Zenon DEF MaskInv
<1>2. ASSUME UNCHANGED <<epSaved, mask, cut>>, call'[p] \in EpollCalls PROVE MaskInv'
  BY <1>2, Zenon DEF MaskInv
<1>3. ASSUME UNCHANGED <<epSaved, mask>>, Cuts(p) PROVE MaskInv'
  <2>1. cut' \subseteq cut \cup {p} /\ cut \subseteq cut'
    BY <1>3, Zenon DEF Cuts
  <2>2. mask[p] = "own" \/ p \in cut'
    BY <1>3, Zenon DEF Cuts, EpollTypeOK
  <2>3. \A q \in cut' : may'[q] \cap EpollCalls # {}
    BY <2>1, Zenon DEF MaskInv
  <2> QED BY <1>3, <2>2, <2>3, Zenon DEF MaskInv
<1> QED BY <1>1, <1>2, <1>3, Zenon

LEMMA MaskStep ==
  ASSUME BaseInv, BaseInv', Exclusive(EpollCalls), MaskInv, [Next]_vars
  PROVE  MaskInv'
<1>w. WakeTypeOK /\ EpollTypeOK /\ "none" \notin EpollCalls
  BY Zenon DEF BaseInv, TypeOK, EpollCalls
<1>y. may' = may /\ may \in Programs /\ cut \subseteq Procs
  <2>1. PICK X : Control(X)
    BY StepComponents, Zenon
  <2> QED BY <1>w, <2>1, Zenon DEF Control, WakeTypeOK, EpollTypeOK
<1>1. ASSUME Apart(PollCalls), UNCHANGED <<epSaved, mask, cut>> PROVE MaskInv'
  <2>1. \A p \in Procs : call[p] \in EpollCalls => call'[p] = call[p]
    BY <1>1, Zenon DEF Apart, PollCalls, Untouched
  <2> QED BY <1>1, <1>y, <2>1, Zenon DEF MaskInv
<1>2. ASSUME NEW p \in Procs, EpollStep(p, OpenObjects, ReadyObjects) PROVE MaskInv'
  \* the process that may be in pwait, or come out of it without its mask
  <2>o. ASSUME may[p] \cap EpollCalls # {}
        PROVE  \A q \in Procs \ {p} : mask[q] = "own"
    <3>1. ASSUME NEW q \in Procs, mask[q] # "own" PROVE q = p
      <4>1. may[q] \cap EpollCalls # {}
        BY <1>w, <3>1, Zenon DEF MaskInv, BaseInv, Allowed
      <4> QED BY <1>y, <2>o, <4>1, Zenon DEF Exclusive
    <3> QED BY <3>1, Zenon
  <2>m. \A c \in EpollCalls : Enters(p, c) => may[p] \cap EpollCalls # {}
    BY <1>w, Zenon DEF Enters, BaseInv, Allowed
  <2>n. call[p] \in EpollCalls => may[p] \cap EpollCalls # {}
    BY <1>w, Zenon DEF BaseInv, Allowed
  <2>1. ASSUME NEW o, NEW edge, EpollAdd(p, o, edge, ReadyObjects) \/ EpollMod(p, o, edge, ReadyObjects)
                 \/ EpollDel(p, o) \/ EpollAddRegister(p, o) \/ EpollDelUnregister(p, o)
        PROVE  MaskInv'
    <3>1. UNCHANGED <<epSaved, mask, cut>>
      BY <2>1, Zenon DEF EpollAdd, EpollMod, EpollDel, EpollAddRegister, EpollDelUnregister
    <3>2. PICK place : Moves(p, "epoll_ctl", place, WakesNobody)
      BY <2>1, ZenonT(60) DEF EpollAdd, EpollMod, EpollDel, EpollAddRegister, EpollDelUnregister, Goes, At
    <3>3. call[p] \notin EpollCalls
      <4>1. Enters(p, "epoll_ctl") \/ call[p] = "epoll_ctl"
        BY <2>1, Zenon DEF EpollAdd, EpollMod, EpollDel, EpollAddRegister, EpollDelUnregister, At
      <4> QED BY <4>1, ZenonT(30) DEF Enters, BaseInv, Flow, EpollCalls
    <3>4. \A q \in Procs : call[q] \in EpollCalls => call'[q] = call[q]
      BY <1>w, <3>2, <3>3, MovesQuietly, ZenonT(30) DEF OthersKeep
    <3> QED BY <1>y, <3>1, <3>4, ZenonT(30) DEF MaskInv
  <2>2. ASSUME NEW c \in EpollCalls, EpollExpire(p, c) PROVE MaskInv'
    BY <1>w, <1>y, <2>2, <2>o, <2>m, MaskSteps, Zenon DEF EpollExpire
  <2>3. ASSUME NEW c \in EpollCalls, EpollMask(p, c) PROVE MaskInv'
    <3>1. may[p] \cap EpollCalls # {} /\ \A q \in Procs \ {p} : mask[q] = "own"
      BY <2>3, <2>o, <2>m, ZenonT(60) DEF EpollMask
    <3>2. call'[p] = c
      BY <1>w, <2>3, MovesQuietly, ZenonT(60) DEF EpollMask
    <3>u. cut' = cut
      BY <2>3, Zenon DEF EpollMask
    <3>3. CASE c # "epoll_wait" /\ epSaved = "none"
      <4>1. epSaved' = mask[p] /\ mask' = [mask EXCEPT ![p] = "given"]
        BY <2>3, <3>3, Zenon DEF EpollMask
      <4>2. mask[p] = "own"
        BY <3>3, Zenon DEF MaskInv
      <4> QED BY <1>w, <1>y, <3>u, <3>1, <3>2, <4>1, <4>2, Zenon DEF MaskInv, EpollTypeOK
    <3>4. CASE ~(c # "epoll_wait" /\ epSaved = "none")
      <4>1. UNCHANGED <<epSaved, mask, cut>>
        BY <2>3, <3>4, Zenon DEF EpollMask
      <4> QED BY <1>w, <1>y, <3>1, <3>2, <4>1, MaskSteps, Zenon
    <3> QED BY <3>3, <3>4, Zenon
  <2>4. ASSUME EpollCollect(p, ReadyObjects) PROVE MaskInv'
    <3>1. may[p] \cap EpollCalls # {} /\ \A q \in Procs \ {p} : mask[q] = "own"
      BY <2>4, <2>o, <2>n, ZenonT(60) DEF EpollCollect, At
    <3>2. CASE RestoreMask(p)
      BY <1>w, <1>y, <3>1, <3>2, MaskSteps, Zenon
    <3>3. CASE Goes(p, "wait") /\ UNCHANGED <<epSaved, mask, cut>>
      <4>1. call'[p] \in EpollCalls
        BY <1>w, <2>4, <3>3, MovesQuietly, ZenonT(60) DEF EpollCollect, Goes, At
      <4> QED BY <1>w, <1>y, <3>1, <3>3, <4>1, MaskSteps, Zenon
    <3> QED BY <2>4, <3>2, <3>3, Zenon DEF EpollCollect
  <2>5. ASSUME EpollRegister(p) \/ EpollSleep(p) \/ EpollStop(p) \/ WakeSleepers(p) \/ WakeWithEintr(p)
        PROVE  MaskInv'
    <3>1. UNCHANGED <<epSaved, mask, cut>>
      BY <2>5, Zenon DEF EpollRegister, EpollSleep, EpollStop, WakeSleepers, WakeWithEintr, epollVars
    <3>2. UNCHANGED call \/ \E place \in {"sleep", "stop"} : Moves(p, call[p], place, WakesNobody)
      BY <2>5, Zenon DEF EpollRegister, EpollSleep, EpollStop, WakeSleepers, WakeWithEintr, Goes, StopsAsleep
    <3>3. \A q \in Procs : call'[q] = call[q]
      BY <1>w, <3>2, MovesQuietly, ZenonT(60) DEF OthersKeep
    <3> QED BY <1>y, <3>1, <3>3, Zenon DEF MaskInv
  <2>6. ASSUME NEW c \in EpollCalls, EpollFails(p, c) \/ EpollInterrupted(p, c) PROVE MaskInv'
    <3>1. may[p] \cap EpollCalls # {}
      BY <2>6, <2>m, Zenon DEF EpollFails, EpollInterrupted
    <3>2. UNCHANGED <<epSaved, mask>> /\ Cuts(p)
      BY <2>6, Zenon DEF EpollFails, EpollInterrupted
    <3> QED BY <1>w, <1>y, <2>o, <3>1, <3>2, MaskSteps, Zenon
  <2> QED BY <1>2, <2>1, <2>2, <2>3, <2>4, <2>5, <2>6, Zenon DEF EpollStep
<1> QED BY <1>1, <1>2, StepComponents, Zenon DEF Components

\* When one process at most waits on the epoll instance, a process that left
\* epoll_pwait with events, after a zero timeout or by a timer, however often
\* it was put to sleep and executed again in between, runs with its own signal
\* mask.  EINTR, EBADF and EFAULT leave the mask of the call in force; the
\* process's own is then still in the instance, whatever it calls next.
THEOREM MasksAreKept ==
  ASSUME Exclusive(EpollCalls)
  PROVE  Spec => []PwaitMaskKept
<1>1. Init => MaskInv
  BY Zenon DEF Init, EpollInit, MaskInv
<1>2. BaseInv /\ BaseInv' /\ MaskInv /\ [Next]_vars => MaskInv'
  BY MaskStep, ZenonT(30)
<1>3. BaseInv /\ MaskInv => PwaitMaskKept
  BY Zenon DEF BaseInv, Flow, MaskInv, PwaitMaskKept, EpollCalls
<1> QED BY <1>1, <1>2, <1>3, BaseHolds, PTL DEF Spec

-----------------------------------------------------------------------------
(* Sleepers are Stopped *)

StopCalls == {"mailbox_receive", "futex_wait"} \cup EpollCalls

\* A step by Moves, of a process that does not fall asleep in such a call.
LEMMA MovesStopped ==
  ASSUME WakeTypeOK, SleeperIsStopped, NEW p \in Procs, NEW c, NEW place, NEW woken \in [Procs -> Nat],
         Moves(p, c, place, woken), place # "asleep" \/ c \notin StopCalls
  PROVE  SleeperIsStopped'
<1>1. /\ OthersKeep(p) /\ pc'[p] = place /\ call'[p] = (IF place = "user" THEN "none" ELSE c)
      /\ \A q \in Procs : q # p \/ pc[p] # "asleep" => entries'[q] = entries[q] + woken[q]
  BY MovesFacts
<1>e. \A q \in Procs \ {p} : entries'[q] = entries[q] + woken[q] /\ entries[q] \in Nat /\ woken[q] \in Nat
  BY <1>1, ZenonT(30) DEF WakeTypeOK
<1>2. stopped \ {p} \subseteq stopped'
  BY Zenon DEF Moves
<1>3. \A q \in Procs \ {p} : Sleeps(q, StopCalls)' => Sleeps(q, StopCalls)
  BY <1>1, <1>e DEF OthersKeep, Sleeps, At
<1>4. ~Sleeps(p, StopCalls)'
  BY <1>1, Zenon DEF Sleeps, At, StopCalls, EpollCalls
<1> QED BY <1>2, <1>3, <1>4, ZenonT(30) DEF SleeperIsStopped, StopCalls

LEMMA StopsStopped ==
  ASSUME WakeTypeOK, SleeperIsStopped, NEW p \in Procs, StopsAsleep(p)
  PROVE  SleeperIsStopped'
<1>1. \A q \in Procs \ {p} : Sleeps(q, StopCalls)' => Sleeps(q, StopCalls)
  BY Zenon DEF StopsAsleep, Sleeps, At, WakeTypeOK
<1>2. stopped' = stopped \cup {p}
  BY Zenon DEF StopsAsleep
<1> QED BY <1>1, <1>2, Zenon DEF SleeperIsStopped, StopCalls

\* A step that enqueues all it makes Running.
LEMMA EnqueueStopped ==
  ASSUME WakeTypeOK, WakeTypeOK', SleeperIsStopped,
         \A q \in Procs : pc'[q] = "asleep" => pc[q] = "asleep" /\ call'[q] = call[q] /\ entries'[q] >= entries[q],
         \A q \in stopped : q \in stopped' \/ entries'[q] > 0
  PROVE  SleeperIsStopped'
<1>1. \A q \in Procs : entries[q] \in Nat /\ entries'[q] \in Nat
  BY Zenon DEF WakeTypeOK
<1>2. \A q \in Procs : Sleeps(q, StopCalls)' => Sleeps(q, StopCalls) /\ entries'[q] = 0
  BY <1>1, NoneBefore, ZenonT(30) DEF Sleeps, At
<1> QED BY <1>1, <1>2 DEF SleeperIsStopped, StopCalls

\* p goes on, in one of the calls X.
MovesIn(p, X) ==
  \E c \in X : \E place : \E woken \in [Procs -> Nat] : Moves(p, c, place, woken)

LEMMA PipeMoves ==
  ASSUME BaseInv, NEW p \in Procs, PipeStep(p)
  PROVE  MovesIn(p, PipeCalls)
<1>q. (\E c \in PipeCalls : \E place : Moves(p, c, place, WakesNobody)) => MovesIn(p, PipeCalls)
  BY WakesType, Zenon DEF MovesIn
<1>v. (\E c \in PipeCalls : \E place, w : Moves(p, c, place, Wakes(w))) => MovesIn(p, PipeCalls)
  BY WakesType, Zenon DEF MovesIn
<1> USE DEF PipeCalls
<1>1. ASSUME NEW n \in 1..2, PipeRead(p, n) PROVE MovesIn(p, PipeCalls)
  BY <1>q, <1>1, Zenon DEF PipeRead
<1>2. ASSUME PipeRegister(p) \/ PipeRecheck(p) \/ PipeRetract(p) \/ PipePush(p) \/ PipeRelease(p)
      PROVE  MovesIn(p, PipeCalls)
  BY <1>q, <1>2, ZenonT(60) DEF PipeRegister, PipeRecheck, PipeRetract, PipePush, PipeRelease, At, Goes
<1>3. ASSUME PipeWrite(p) \/ PipeClose(p) \/ PipeCloseRead(p)
      PROVE  MovesIn(p, PipeCalls)
  BY <1>q, <1>3, Zenon DEF PipeWrite, PipeClose, PipeCloseRead
<1>4. ASSUME PipeWake(p) \/ PipeEpoll(p) PROVE MovesIn(p, PipeCalls)
  BY <1>v, <1>4, Zenon DEF PipeWake, PipeEpoll, WakeEpollWaiters, GoesWaking, Goes, At, WakesNobody
<1> QED BY <1>1, <1>2, <1>3, <1>4, Zenon DEF PipeStep

LEMMA ChannelMoves ==
  ASSUME BaseInv, NEW p \in Procs, ChannelStep(p)
  PROVE  \/ Resumes(p)
         \/ MovesIn(p, ChannelCalls)
<1>q. (\E c \in ChannelCalls : \E place : Moves(p, c, place, WakesNobody)) => MovesIn(p, ChannelCalls)
  BY WakesType, Zenon DEF MovesIn
<1>v. (\E c \in ChannelCalls : \E place, w : Moves(p, c, place, Wakes(w))) => MovesIn(p, ChannelCalls)
  BY WakesType, Zenon DEF MovesIn
<1>f. Flow(p) /\ ChannelTypeOK
  BY Zenon DEF BaseInv, TypeOK
<1>1. ASSUME NotifySignals(p) \/ NotifyPorts(p) PROVE MovesIn(p, ChannelCalls)
  BY <1>q, <1>1, <1>f, ZenonT(60) DEF NotifySignals, NotifyPorts, Goes, Flow, Fits, ChannelPlaces, NotifyPlaces
<1>2. ASSUME NotifyWaiters(p) PROVE MovesIn(p, ChannelCalls)
  BY <1>2, <1>f, WaitersType, ZenonT(60) DEF NotifyWaiters, Flow, Fits, ChannelPlaces, NotifyPlaces, MovesIn
<1>3. ASSUME QueuePacketWake(p) PROVE MovesIn(p, ChannelCalls)
  BY <1>v, <1>3, <1>f, ZenonT(60) DEF QueuePacketWake, GoesWaking, Flow, Fits, ChannelPlaces, NotifyPlaces
<1>4. ASSUME NEW c \in ReadCalls, NEW fits \in BOOLEAN, Read(p, c, fits) PROVE MovesIn(p, ChannelCalls)
  BY <1>q, <1>4, Zenon DEF Read, PopOr, ChannelCalls
<1>5. ASSUME NEW fits \in BOOLEAN, ReadRecheck(p, fits) PROVE MovesIn(p, ChannelCalls)
  BY <1>q, <1>5, ZenonT(60) DEF ReadRecheck, PopOr, BlockReading, Goes, At, ChannelCalls
<1>6. ASSUME ReadClosed(p) \/ ReadRegister(p) \/ ReadReclosed(p) \/ ReadRetract(p) PROVE MovesIn(p, ChannelCalls)
  BY <1>q, <1>6, ZenonT(60) DEF ReadClosed, ReadRegister, ReadReclosed, ReadRetract, BlockReading, Goes, At, ChannelCalls
<1>7. ASSUME Poll(p) \/ CloseWrite(p) \/ CloseRead(p) PROVE MovesIn(p, ChannelCalls)
  BY <1>q, <1>7, Zenon DEF Poll, CloseWrite, CloseRead, ChannelCalls
<1>8. ASSUME NEW c \in {"write", "channel_write"}, Write(p, c) PROVE MovesIn(p, ChannelCalls)
  BY <1>q, <1>8, Zenon DEF Write, ChannelCalls
<1>9. ASSUME WriteWake(p) \/ DropWake(p) PROVE MovesIn(p, ChannelCalls)
  BY <1>v, <1>9, ZenonT(30) DEF WriteWake, DropWake, GoesWaking, At, ChannelCalls
<1>10. ASSUME WriteTake(p) \/ DropFlag(p) PROVE MovesIn(p, ChannelCalls)
  BY <1>q, <1>10, ZenonT(30) DEF WriteTake, DropFlag, Goes, At, ChannelCalls
<1>11. ASSUME WriteEpoll(p) PROVE MovesIn(p, ChannelCalls)
  BY <1>v, <1>11, Zenon DEF WriteEpoll, WakeEpollWaiters, GoesWaking, Goes, At, ChannelCalls, WakesNobody
<1>12. ASSUME WriteHandover(p) PROVE MovesIn(p, ChannelCalls)
  <2>1. call[p] \in ChannelCalls
    BY <1>12, Zenon DEF WriteHandover, At, ChannelCalls
  <2>2. [r \in Procs |-> Wakes(p)[r] + Wakes(held[p])[r]] \in [Procs -> Nat]
    BY DEF Wakes
  <2>3. CASE held[p] = Nobody
    BY <1>q, <1>12, <2>1, <2>3, Zenon DEF WriteHandover, Goes
  <2>4. CASE held[p] # Nobody
    <3>1. Moves(p, call[p], "yield", [r \in Procs |-> Wakes(p)[r] + Wakes(held[p])[r]])
      BY <1>12, <2>4, ZenonT(30) DEF WriteHandover
    <3> QED BY <2>1, <2>2, <3>1, Zenon DEF MovesIn
  <2> QED BY <2>3, <2>4, Zenon
<1>13. ASSUME DropSignals(p) PROVE MovesIn(p, ChannelCalls)
  BY <1>13, <1>f, WaitersType, ZenonT(30) DEF DropSignals, At, ChannelCalls, MovesIn
<1>14. ASSUME NEW c \in WaitCalls, WaitOne(p, c) PROVE MovesIn(p, ChannelCalls)
  BY <1>q, <1>14, ZenonT(30) DEF WaitOne, ChannelCalls
<1>15. ASSUME WaitRegister(p) \/ WaitAgain(p) \/ WaitRetract(p) PROVE MovesIn(p, ChannelCalls)
  BY <1>q, <1>15, ZenonT(30) DEF WaitRegister, WaitAgain, WaitRetract, Goes, At, ChannelCalls
<1>16. ASSUME PortWait(p) \/ PortQueue(p) \/ PortBind(p) PROVE MovesIn(p, ChannelCalls)
  BY <1>q, <1>16, Zenon DEF PortWait, PortQueue, PortBind, ChannelCalls
<1>17. ASSUME PortRegister(p) \/ PortRecheck(p) \/ PortRetract(p) \/ PortEvaluate(p) PROVE MovesIn(p, ChannelCalls)
  BY <1>q, <1>17, Zenon DEF PortRegister, PortRecheck, PortRetract, PortEvaluate, Goes, At, ChannelCalls
<1>18. ASSUME WriterResumes(p) PROVE Resumes(p)
  BY <1>18, Zenon DEF WriterResumes
<1> QED BY <1>1, <1>2, <1>3, <1>4, <1>5, <1>6, <1>7, <1>8, <1>9, <1>10, <1>11, <1>12, <1>13, <1>14,
  <1>15, <1>16, <1>17, <1>18, ZenonT(30) DEF ChannelStep

LEMMA SleeperStep ==
  ASSUME BaseInv, BaseInv', SleeperIsStopped, [Next]_vars
  PROVE  SleeperIsStopped'
<1>w. WakeTypeOK /\ WakeTypeOK' /\ \A q \in Procs : entries[q] \in Nat /\ entries'[q] \in Nat
  BY Zenon DEF BaseInv, TypeOK, WakeTypeOK
<1>1. ASSUME NEW p \in Procs, EpollStep(p, OpenObjects, ReadyObjects) PROVE SleeperIsStopped'
  <2>1. ASSUME WakeSleepers(p) \/ WakeWithEintr(p) PROVE SleeperIsStopped'
    <3>1. UNCHANGED <<call, pc>> /\ stopped' = stopped \ {p} /\ entries' = [entries EXCEPT ![p] = entries[p] + 1]
      BY <2>1, Zenon DEF WakeSleepers, WakeWithEintr
    <3>t. entries \in [Procs -> Nat]
      BY <1>w, Zenon DEF WakeTypeOK
    <3>2. \A q \in Procs : entries'[q] = IF q \in {p} THEN entries[q] + 1 ELSE entries[q]
      BY <3>t, <3>1, Zenon
    <3>3. entries'[p] > 0 /\ \A q \in Procs : entries'[q] >= entries[q]
      BY <3>t, <3>2, Bumps, ZenonT(30)
    <3> QED BY <1>w, <3>1, <3>3, EnqueueStopped, ZenonT(60)
  <2>2. ASSUME EpollStop(p) PROVE SleeperIsStopped'
    BY <1>w, <2>2, StopsStopped, ZenonT(30) DEF EpollStop
  <2>3. ASSUME NEW o, NEW edge, EpollAdd(p, o, edge, ReadyObjects) \/ EpollMod(p, o, edge, ReadyObjects)
                 \/ EpollDel(p, o) \/ EpollAddRegister(p, o) \/ EpollDelUnregister(p, o)
        PROVE  \E c, place : place # "asleep" /\ Moves(p, c, place, WakesNobody)
    BY <2>3, Zenon DEF EpollAdd, EpollMod, EpollDel, EpollAddRegister, EpollDelUnregister, Goes
  <2>4. ASSUME NEW c \in EpollCalls,
               EpollExpire(p, c) \/ EpollMask(p, c) \/ EpollFails(p, c) \/ EpollInterrupted(p, c)
        PROVE  \E place : place # "asleep" /\ Moves(p, c, place, WakesNobody)
    BY <2>4, ZenonT(30) DEF EpollExpire, EpollMask, EpollFails, EpollInterrupted
  <2>5. ASSUME EpollCollect(p, ReadyObjects) \/ EpollRegister(p) \/ EpollSleep(p)
        PROVE  \E place : place # "asleep" /\ Moves(p, call[p], place, WakesNobody)
    BY <2>5, Zenon DEF EpollCollect, EpollRegister, EpollSleep, Goes
  <2>6. ASSUME NEW c, NEW place, place # "asleep", Moves(p, c, place, WakesNobody) PROVE SleeperIsStopped'
    BY <1>w, <2>6, WakesType, MovesStopped, ZenonT(60)
  <2> QED BY <1>1, <2>1, <2>2, <2>3, <2>4, <2>5, <2>6, Zenon DEF EpollStep
<1>2. ASSUME NEW p \in Procs, ChannelStep(p) PROVE SleeperIsStopped'
  <2>1. CASE Resumes(p)
    <3>1. /\ call'[p] = "none" /\ UNCHANGED stopped
          /\ \A q \in Procs \ {p} : pc'[q] = pc[q] /\ call'[q] = call[q] /\ entries'[q] = entries[q]
      BY <1>w, <2>1, ZenonT(60) DEF Resumes, WakeTypeOK
    <3> QED BY <3>1, Zenon DEF SleeperIsStopped, Sleeps, At, EpollCalls
  <2>2. ASSUME NEW c \in ChannelCalls, NEW place, NEW woken \in [Procs -> Nat], Moves(p, c, place, woken)
        PROVE  SleeperIsStopped'
    <3>1. c \notin StopCalls
      BY Zenon DEF ChannelCalls, ReadCalls, WaitCalls, StopCalls, EpollCalls
    <3> QED BY <1>w, <2>2, <3>1, MovesStopped, ZenonT(60)
  <2> QED BY <1>2, <2>1, <2>2, ChannelMoves, Zenon DEF MovesIn
<1>3. ASSUME NEW p \in Procs, PipeStep(p) PROVE SleeperIsStopped'
  <2>1. ASSUME NEW c \in PipeCalls, NEW place, NEW woken \in [Procs -> Nat], Moves(p, c, place, woken)
        PROVE  SleeperIsStopped'
    <3>1. c \notin StopCalls
      BY Zenon DEF PipeCalls, StopCalls, EpollCalls
    <3> QED BY <1>w, <2>1, <3>1, MovesStopped, Zenon
  <2> QED BY <1>3, <2>1, PipeMoves, ZenonT(30) DEF MovesIn
<1>4. ASSUME NEW p \in Procs, FutexStep(p) PROVE SleeperIsStopped'
  <2>1. ASSUME NEW c, NEW place, place # "asleep", Moves(p, c, place, WakesNobody) PROVE SleeperIsStopped'
    BY <1>w, <2>1, WakesType, MovesStopped, ZenonT(60)
  <2>2. ASSUME FutexWait(p) \/ FutexReturn(p) \/ (\E v \in {0, 1} : FutexSet(p, v)) \/ (\E n \in 0..2 : FutexDrain(p, n))
        PROVE  \E c, place : place # "asleep" /\ Moves(p, c, place, WakesNobody)
    BY <2>2, ZenonT(30) DEF FutexWait, FutexReturn, FutexSet, FutexDrain, Goes
  <2>3. ASSUME FutexStop(p) PROVE SleeperIsStopped'
    BY <1>w, <2>3, StopsStopped, ZenonT(60) DEF FutexStop
  <2>4. ASSUME FutexEnqueue(p) PROVE SleeperIsStopped'
    <3>1. CASE toWake[p] = <<>>
      BY <2>1, <2>4, <3>1, Zenon DEF FutexEnqueue, Goes
    <3>2. CASE toWake[p] # <<>>
      <4>1. PICK h \in Procs : h = Head(toWake[p])
        BY <3>2, HeadTailFacts, Zenon DEF BaseInv, TypeOK, FutexTypeOK
      <4>2. UNCHANGED <<call, pc>> /\ stopped' = stopped \ {h} /\ entries' = [entries EXCEPT ![h] = entries[h] + 1]
        BY <2>4, <3>2, <4>1, Zenon DEF FutexEnqueue
      <4>t. entries \in [Procs -> Nat]
        BY <1>w, Zenon DEF WakeTypeOK
      <4>3. \A q \in Procs : entries'[q] = IF q \in {h} THEN entries[q] + 1 ELSE entries[q]
        BY <4>t, <4>2, Zenon
      <4>4. entries'[h] > 0 /\ \A q \in Procs : entries'[q] >= entries[q]
        BY <4>t, <4>3, Bumps, ZenonT(30)
      <4> QED BY <1>w, <4>2, <4>4, EnqueueStopped, Zenon
    <3> QED BY <3>1, <3>2, Zenon
  <2> QED BY <1>4, <2>1, <2>2, <2>3, <2>4, Zenon DEF FutexStep
<1>5. ASSUME NEW p \in Procs, MailboxStep(p) PROVE SleeperIsStopped'
  <2>1. ASSUME NEW c, NEW place, place # "asleep", Moves(p, c, place, WakesNobody) PROVE SleeperIsStopped'
    BY <1>w, <2>1, WakesType, MovesStopped, ZenonT(60)
  <2>2. ASSUME MailboxReceive(p) \/ MailboxRegister(p) \/ (\E to \in Procs : MailboxSend(p, to)) \/ MailboxFlag(p)
        PROVE  \E c, place : place # "asleep" /\ Moves(p, c, place, WakesNobody)
    BY <2>2, ZenonT(60) DEF MailboxReceive, MailboxRegister, MailboxSend, MailboxFlag, Goes
  <2>3. ASSUME MailboxStop(p) PROVE SleeperIsStopped'
    BY <1>w, <2>3, StopsStopped, ZenonT(60) DEF MailboxStop
  <2>4. ASSUME MailboxState(p) PROVE SleeperIsStopped'
    <3>1. /\ pc' = [pc EXCEPT ![p] = "user"] /\ call' = [call EXCEPT ![p] = "none"] /\ stopped' = stopped \ {addressee}
          /\ entries' = [entries EXCEPT ![addressee] = IF addressee \in stopped THEN entries[addressee] + 1 ELSE entries[addressee]]
      BY <2>4, Zenon DEF MailboxState
    <3>2. \A q \in Procs : pc'[q] = "asleep" => pc[q] = "asleep" /\ call'[q] = call[q]
      BY <1>w, <3>1, ZenonT(60) DEF WakeTypeOK
    <3>t. entries \in [Procs -> Nat] /\ stopped \subseteq Procs
      BY <1>w, Zenon DEF WakeTypeOK
    <3>3. \A q \in Procs : entries'[q] = IF q \in {addressee} \cap stopped THEN entries[q] + 1 ELSE entries[q]
      BY <1>w, <3>1, ZenonT(60) DEF WakeTypeOK
    <3>4. \A q \in Procs : entries'[q] >= entries[q]
      BY <3>t, <3>3, Bumps, Zenon
    <3>b. \A q \in Procs : q \in {addressee} \cap stopped => entries'[q] > 0
      BY <3>t, <3>3, Bumps, Zenon
    <3>5. \A q \in stopped : q \in stopped' \/ entries'[q] > 0
      BY <3>t, <3>1, <3>b, ZenonT(30)
    <3> QED BY <1>w, <3>2, <3>4, <3>5, EnqueueStopped, ZenonT(60)
  <2> QED BY <1>5, <2>1, <2>2, <2>3, <2>4, Zenon DEF MailboxStep
<1>6. ASSUME TtyStep PROVE SleeperIsStopped'
  <2>1. ASSUME NEW p \in Procs, TtyRead(p) \/ (\E n \in {1, 3} : TtyReadBuffer(p, n)) PROVE SleeperIsStopped'
    <3>1. PICK place : Moves(p, "tty_read", place, WakesNobody)
      BY <2>1, Zenon DEF TtyRead, TtyReadBuffer, Goes, At
    <3>2. "tty_read" \notin StopCalls
      BY Zenon DEF StopCalls, EpollCalls
    <3> QED BY <1>w, <3>1, <3>2, WakesType, MovesStopped, Zenon
  <2>2. ASSUME (\E c \in {"char", "newline", "backspace"} : IsrChar(c)) \/ IsrControl \/ IsrControlByte \/ IsrEnd
        PROVE  SleeperIsStopped'
    <3>1. UNCHANGED wakeVars
      BY <2>2, Zenon DEF IsrChar, IsrControl, IsrControlByte, IsrEnd
    <3> QED BY <3>1, Zenon DEF wakeVars, SleeperIsStopped, Sleeps, At
  <2>3. ASSUME IsrSignal PROVE SleeperIsStopped'
    <3>1. /\ UNCHANGED <<call, pc>> /\ stopped' = stopped \ fgGroup
          /\ \A q \in Procs : entries'[q] = IF q \in stopped \cap fgGroup THEN entries[q] + 1 ELSE entries[q]
      BY <2>3, Zenon DEF IsrSignal
    <3>t. entries \in [Procs -> Nat] /\ stopped \subseteq Procs
      BY <1>w, Zenon DEF WakeTypeOK
    <3>2. \A q \in Procs : entries'[q] >= entries[q]
      BY <3>t, <3>1, Bumps, Zenon
    <3>b. \A q \in Procs : q \in stopped \cap fgGroup => entries'[q] > 0
      BY <3>t, <3>1, Bumps, Zenon
    <3>3. \A q \in stopped : q \in stopped' \/ entries'[q] > 0
      BY <3>t, <3>1, <3>b, Zenon
    <3> QED BY <1>w, <3>1, <3>2, <3>3, EnqueueStopped, ZenonT(30)
  <2>4. ASSUME IsrWake \/ IsrEpoll PROVE SleeperIsStopped'
    <3>1. UNCHANGED <<call, pc, stopped>>
      BY <2>4, ZenonT(30) DEF IsrWake, IsrEpoll
    <3>2. \A q \in Procs : entries'[q] >= entries[q]
      <4>1. \A q \in Procs : entries'[q] \in {entries[q], entries[q] + 1}
        BY <2>4, ZenonT(30) DEF IsrWake, IsrEpoll
      <4>2. \A q \in Procs : entries[q] \in Nat
        BY <1>w, ZenonT(30) DEF WakeTypeOK
      <4> QED BY <4>1, <4>2, NotFewer, Zenon
    <3> QED BY <1>w, <3>1, <3>2, EnqueueStopped, ZenonT(60)
  <2> QED BY <1>6, <2>1, <2>2, <2>3, <2>4, ZenonT(30) DEF TtyStep
<1>7. ASSUME UNCHANGED vars PROVE SleeperIsStopped'
  BY <1>7, Zenon DEF vars, wakeVars, SleeperIsStopped, Sleeps, At
<1> QED BY <1>1, <1>2, <1>3, <1>4, <1>5, <1>6, <1>7, ZenonT(30) DEF Next

\* A process asleep in a call whose wakers look at its state stays Stopped
\* until something enqueues it: a timer of an earlier call, a futex wake, mail
\* and Ctrl-C, in any order, never leave it Running and off the run queue.
THEOREM SleepersAreStopped == Spec => []SleeperIsStopped
<1>1. Init => SleeperIsStopped
  BY Zenon DEF Init, WakeInit, SleeperIsStopped, Sleeps, At
<1>2. BaseInv /\ BaseInv' /\ SleeperIsStopped /\ [Next]_vars => SleeperIsStopped'
  BY SleeperStep, Zenon
<1> QED BY <1>1, <1>2, BaseHolds, PTL DEF Spec
=============================================================================
