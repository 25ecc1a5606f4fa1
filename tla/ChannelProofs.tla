---------------------------- MODULE ChannelProofs ----------------------------
(***************************************************************************)
(* No wakeup is lost on a channel in BlockingIo: its reader, the processes *)
(* waiting for its signals and the process waiting on its port, for every  *)
(* number of processes, every program of calls and every bound.            *)
(***************************************************************************)
EXTENDS BlockingIoProofs

-----------------------------------------------------------------------------
(* The inductive invariant *)

\* A channel's reader is in the waiter word, or write_fast has taken it and
\* still has to enqueue it.  What it waits for came with somebody who still has
\* to look at that word.
HeldFast(p) == \E q \in Procs : held[q] = p

WillLook(q) == pc[q] \in {"wake", "take", "drop_wake"} \/ At(q, {"channel_write"}, "epoll")

ReaderInv ==
  /\ \A q \in Procs : held[q] # Nobody =>
       call[q] = "channel_write" /\ pc[q] \in NotifyPlaces \cup {"handover"}
  /\ \A p \in Procs : call[p] \in ReadCalls /\ entries[p] = 0 =>
       /\ pc[p] \in {"recheck", "reclosed", "asleep"} => waiter = p \/ HeldFast(p)
       /\ \/ pc[p] \in {"reclosed", "asleep"} /\ queued > 0
          \/ pc[p] = "asleep" /\ call[p] = "channel_read" /\ peerClosed
          => HeldFast(p) \/ \E q \in Procs : WillLook(q)

\* A process in port_wait is in the port's waiter word until it is enqueued.
PortInv ==
  \A p \in Procs : call[p] = "port_wait" =>
    /\ pc[p] \in {"recheck", "asleep"} /\ entries[p] = 0 => portWaiter = p
    /\ pc[p] = "asleep" /\ entries[p] = 0 /\ portq > 0 => \E q \in Procs : pc[q] = "port_wake"

\* A process in object_wait_one is in signal_waiters until it is enqueued.
SignalInv ==
  /\ \A p \in Procs : call[p] \in WaitCalls /\ pc[p] \in {"wait_again", "asleep"} /\ entries[p] = 0
       => sigWaiters[p][call[p]] > 0
  /\ SignalWaiterNotStranded
-----------------------------------------------------------------------------
(* Steps of the channel *)

LEMMA MovesTo ==
  ASSUME WakeTypeOK, NEW p \in Procs, NEW c, NEW place, NEW woken, Moves(p, c, place, woken)
  PROVE  pc'[p] = place /\ call'[p] = (IF place = "user" THEN "none" ELSE c)
BY Zenon DEF Moves, WakeTypeOK

LEMMA ChannelOthers ==
  ASSUME BaseInv, NEW p \in Procs, ChannelStep(p)
  PROVE  OthersKeep(p)
<1>w. WakeTypeOK
  BY Zenon DEF BaseInv, TypeOK
<1>1. CASE Resumes(p)
  BY <1>w, <1>1 DEF Resumes, OthersKeep, WakeTypeOK
<1>2. CASE MovesIn(p, ChannelCalls)
  BY <1>w, <1>2, MovesFacts, Zenon DEF MovesIn
<1> QED BY <1>1, <1>2, ChannelMoves, Zenon

\* Another process that is not enqueued after the step was not before it.
LEMMA OthersSame ==
  ASSUME NEW p \in Procs, OthersKeep(p), \A q \in Procs : entries[q] \in Nat /\ entries'[q] \in Nat
  PROVE  \A r \in Procs : r # p /\ entries'[r] = 0
           => call[r] = call'[r] /\ pc[r] = pc'[r] /\ entries[r] = 0
BY DEF OthersKeep

LEMMA NotMore == \A m, n \in Nat : m <= n /\ m > 0 => n > 0
OBVIOUS

LEMMA OneLess == \A n \in Nat : n <= n /\ n - 1 <= n /\ (~(n > 0) => n = 0)
OBVIOUS

LEMMA NoneOfTwo == \A m, n \in Nat : m + n = 0 => ~(m > 0) /\ ~(n > 0)
OBVIOUS

\* notify_signals and queue_packet, step by step
LEMMA NotifyFacts ==
  ASSUME BaseInv, NEW p \in Procs, NotifySignals(p) \/ NotifyWaiters(p) \/ NotifyPorts(p) \/ QueuePacketWake(p)
  PROVE  /\ pc[p] \in NotifyPlaces /\ pc'[p] \in NotifyPlaces \cup {after[p]}
         /\ call'[p] = (IF pc'[p] = "user" THEN "none" ELSE call[p])
         /\ after[p] \in {"user", "retract", "handover"}
         /\ UNCHANGED <<queued, peerClosed, waiter, held, writers, readers>>
<1>w. WakeTypeOK /\ after \in [Procs -> {"user", "retract", "handover"}]
  BY Zenon DEF BaseInv, TypeOK, ChannelTypeOK
<1>1. UNCHANGED <<queued, peerClosed, waiter, held, writers, readers>> /\ pc[p] \in NotifyPlaces
  BY Zenon DEF NotifySignals, NotifyWaiters, NotifyPorts, QueuePacketWake, refVars, callVars, NotifyPlaces
<1>2. PICK place \in NotifyPlaces \cup {after[p]} : \E woken : Moves(p, call[p], place, woken)
  BY Zenon DEF NotifySignals, NotifyWaiters, NotifyPorts, QueuePacketWake, Goes, GoesWaking, NotifyPlaces
<1> QED BY <1>w, <1>1, <1>2, MovesTo, Zenon

-----------------------------------------------------------------------------
(* The process waiting on a port *)

\* A step that adds no packet and leaves the port's waiter alone.
LEMMA PortBystander ==
  ASSUME BaseInv, BaseInv', PortInv, NEW p \in Procs, OthersKeep(p), portq' <= portq, UNCHANGED portWaiter,
         call'[p] # "port_wait" \/ pc'[p] \notin {"recheck", "asleep"}, pc[p] # "port_wake"
  PROVE  PortInv'
<1>1. /\ \A q \in Procs : entries[q] \in Nat /\ entries'[q] \in Nat
      /\ portq \in Nat /\ portq' \in Nat
  BY Zenon DEF BaseInv, TypeOK, WakeTypeOK, ChannelTypeOK
<1>2. \A q \in Procs : pc[q] = "port_wake" => pc'[q] = "port_wake"
  BY Zenon DEF OthersKeep
<1>3. \A r \in Procs : call'[r] = "port_wait" /\ pc'[r] \in {"recheck", "asleep"} /\ entries'[r] = 0
        => call[r] = "port_wait" /\ pc[r] = pc'[r] /\ entries[r] = 0
  BY <1>1 DEF OthersKeep
<1>4. portq' > 0 => portq > 0
  BY <1>1
<1> QED BY <1>2, <1>3, <1>4, Zenon DEF PortInv

\* A packet is queued and its waker on the way.
LEMMA PortPacket ==
  ASSUME BaseInv, BaseInv', PortInv, NEW p \in Procs, OthersKeep(p), UNCHANGED portWaiter, pc'[p] = "port_wake"
  PROVE  PortInv'
<1>1. \A q \in Procs : entries[q] \in Nat /\ entries'[q] \in Nat
  BY Zenon DEF BaseInv, TypeOK, WakeTypeOK
<1>3. \A r \in Procs : call'[r] = "port_wait" /\ pc'[r] \in {"recheck", "asleep"} /\ entries'[r] = 0
        => call[r] = "port_wait" /\ pc[r] = pc'[r] /\ entries[r] = 0
  BY <1>1 DEF OthersKeep
<1> QED BY <1>3, Zenon DEF PortInv

LEMMA PortStep ==
  ASSUME BaseInv, BaseInv', Exclusive({"port_wait"}), PortInv, [Next]_vars
  PROVE  PortInv'
<1>w. /\ WakeTypeOK /\ ChannelTypeOK /\ \A q \in Procs : entries[q] \in Nat /\ entries'[q] \in Nat
      /\ portq \in Nat /\ portq <= portq /\ after \in [Procs -> {"user", "retract", "handover"}]
  BY DEF BaseInv, TypeOK, WakeTypeOK, ChannelTypeOK
<1>1. ASSUME Apart(ChannelCalls), UNCHANGED chanVars PROVE PortInv'
  <2>1. ASSUME NEW q \in Procs, pc[q] = "port_wake" PROVE pc'[q] = "port_wake"
    BY <1>1, <2>1, Zenon DEF BaseInv, Flow, Fits, Apart, Untouched, ChannelPlaces, NotifyPlaces
  <2>2. ASSUME NEW r \in Procs, call'[r] = "port_wait"
        PROVE  pc'[r] = pc[r] /\ call[r] = "port_wait" /\ (entries'[r] = 0 => entries[r] = 0)
    BY <1>1, <1>w, <2>2 DEF Apart, Untouched, ChannelCalls
  <2>3. UNCHANGED <<portq, portWaiter>>
    BY <1>1, Zenon DEF chanVars, portVars
  <2> QED BY <2>1, <2>2, <2>3, Zenon DEF PortInv
<1>2. ASSUME NEW p \in Procs, ChannelStep(p) PROVE PortInv'
  <2>k. OthersKeep(p)
    BY <1>2, ChannelOthers, Zenon
  <2>t. \A c, place, woken : Moves(p, c, place, woken)
          => pc'[p] = place /\ call'[p] = (IF place = "user" THEN "none" ELSE c)
    BY <1>w, MovesTo, Zenon
  \* steps of the process that waits: there is no other
  <2>o. ASSUME "port_wait" \in may[p], NEW r \in Procs, call'[r] = "port_wait"
        PROVE  r = p
    <3>1. CASE r # p
      <4>1. call[r] = "port_wait" /\ may[p] \cap {"port_wait"} # {}
        BY <2>k, <2>o, <3>1, Zenon DEF OthersKeep
      <4> QED BY <4>1, OnlyOne, Zenon
    <3> QED BY <3>1, Zenon
  <2>1. ASSUME PortWait(p) \/ PortRetract(p) PROVE PortInv'
    <3>1. "port_wait" \in may[p]
      BY <2>1, Zenon DEF PortWait, PortRetract, Enters, At, BaseInv, Allowed
    <3>2. pc'[p] \in {"user", "register"}
      BY <2>1, <2>t, Zenon DEF PortWait, PortRetract, Goes
    <3> QED BY <2>o, <3>1, <3>2, Zenon DEF PortInv
  <2>2. ASSUME PortRegister(p) PROVE PortInv'
    <3>1. "port_wait" \in may[p] /\ pc'[p] = "recheck" /\ portWaiter' = p
      BY <2>2, <2>t, Zenon DEF PortRegister, Goes, At, BaseInv, Allowed
    <3> QED BY <2>o, <3>1, Zenon DEF PortInv
  <2>3. ASSUME PortRecheck(p) PROVE PortInv'
    <3>1. call[p] = "port_wait" /\ pc[p] = "recheck" /\ "port_wait" \in may[p] /\ UNCHANGED portWaiter
      BY <2>3, Zenon DEF PortRecheck, At, BaseInv, Allowed
    <3>2. PICK place \in {"retract", "asleep"} : Moves(p, call[p], place, WakesNobody)
      BY <2>3, ZenonT(30) DEF PortRecheck, Goes
    <3>3. entries'[p] = entries[p] /\ pc'[p] = place
      BY <1>w, <3>1, <3>2, MovesQuietly, Zenon
    <3>4. pc'[p] = "asleep" => portq' = 0
      <4>1. CASE portq > 0
        BY <2>3, <2>t, <4>1 DEF PortRecheck, Goes
      <4>2. CASE ~(portq > 0)
        BY <1>w, <2>3, <4>2 DEF PortRecheck
      <4> QED BY <4>1, <4>2, Zenon
    <3> QED BY <2>o, <3>1, <3>2, <3>3, <3>4 DEF PortInv
  <2>4. ASSUME NotifySignals(p) \/ NotifyWaiters(p) PROVE PortInv'
    <3>1. UNCHANGED <<portq, portWaiter>> /\ pc[p] # "port_wake" /\ pc'[p] \notin {"recheck", "asleep"}
      BY <2>4, <2>t, Zenon DEF NotifySignals, NotifyWaiters, portVars, Goes
    <3> QED BY <1>w, <2>k, <3>1, PortBystander, ZenonT(30)
  <2>5. ASSUME NotifyPorts(p) PROVE PortInv'
    <3>1. pc[p] = "notify_ports" /\ UNCHANGED portWaiter
      BY <2>5, Zenon DEF NotifyPorts
    <3>2. CASE bound /\ sig[p] \cap Trigger # {}
      <4>1. pc'[p] = "port_wake"
        BY <2>5, <2>t, <3>2, ZenonT(30) DEF NotifyPorts, Goes
      <4> QED BY <2>k, <3>1, <4>1, PortPacket, Zenon
    <3>3. CASE ~(bound /\ sig[p] \cap Trigger # {})
      <4>1. UNCHANGED portq /\ pc'[p] = after[p]
        BY <2>5, <2>t, <3>3, Zenon DEF NotifyPorts, Goes
      <4>2. pc'[p] \notin {"recheck", "asleep"}
        BY <1>w, <4>1, Zenon
      <4> QED BY <1>w, <2>k, <3>1, <4>1, <4>2, PortBystander, Zenon
    <3> QED BY <3>2, <3>3, ZenonT(30)
  <2>6. ASSUME QueuePacketWake(p) PROVE PortInv'
    <3>1. pc[p] = "port_wake" /\ UNCHANGED portq /\ Moves(p, call[p], after[p], Wakes(portWaiter))
      BY <2>6, ZenonT(30) DEF QueuePacketWake, GoesWaking
    <3>2. (portWaiter \in Procs => entries'[portWaiter] > 0) /\ pc'[p] = after[p]
      BY <1>w, <3>1, MovesWaking, Zenon
    <3>3. pc'[p] \notin {"recheck", "asleep"}
      BY <1>w, <3>2, Zenon
    <3>4. \A r \in Procs : call'[r] = "port_wait" /\ pc'[r] \in {"recheck", "asleep"} /\ entries'[r] = 0
            => call[r] = "port_wait" /\ pc[r] = pc'[r] /\ entries[r] = 0
      BY <1>w, <2>k, <3>3 DEF OthersKeep
    <3>5. \A r \in Procs : call'[r] = "port_wait" /\ pc'[r] \in {"recheck", "asleep"} => entries'[r] # 0
      BY <1>w, <3>2, <3>4 DEF PortInv
    <3> QED BY <3>5, Zenon DEF PortInv
  <2>7. ASSUME PortQueue(p) PROVE PortInv'
    <3>1. pc'[p] = "port_wake" /\ UNCHANGED portWaiter
      BY <2>7, <2>t, Zenon DEF PortQueue
    <3> QED BY <2>k, <3>1, PortPacket, Zenon
  <2>8. ASSUME PortEvaluate(p) PROVE PortInv'
    <3>1. UNCHANGED portWaiter /\ pc[p] = "evaluate"
      BY <2>8, Zenon DEF PortEvaluate, At
    <3>2. CASE Signals \cap Trigger # {}
      <4>1. pc'[p] = "port_wake"
        BY <2>8, <2>t, <3>2, Zenon DEF PortEvaluate, Goes
      <4> QED BY <2>k, <3>1, <4>1, PortPacket, Zenon
    <3>3. CASE ~(Signals \cap Trigger # {})
      <4>1. pc'[p] = "user" /\ UNCHANGED portq
        BY <2>8, <2>t, <3>3, Zenon DEF PortEvaluate, Goes
      <4> QED BY <1>w, <2>k, <3>1, <4>1, PortBystander, Zenon
    <3> QED BY <3>2, <3>3, Zenon
  \* the calls that have nothing to do with the port
  <2>9. ASSUME UNCHANGED portVars, call'[p] # "port_wait", pc[p] # "port_wake" PROVE PortInv'
    BY <1>w, <2>k, <2>9, PortBystander, Zenon DEF portVars
  <2>10. ASSUME NEW c \in ReadCalls, NEW fits \in BOOLEAN, Read(p, c, fits) PROVE PortInv'
    BY <2>9, <2>10, <2>t, Zenon DEF Read, PopOr, Enters, ReadCalls
  <2>11. ASSUME NEW fits \in BOOLEAN, ReadRecheck(p, fits) PROVE PortInv'
    BY <2>9, <2>11, <2>t, Zenon DEF ReadRecheck, PopOr, BlockReading, Goes, At, ReadCalls
  <2>12. ASSUME ReadClosed(p) \/ ReadRegister(p) \/ ReadReclosed(p) \/ ReadRetract(p) PROVE PortInv'
    BY <2>9, <2>12, <2>t, ZenonT(30) DEF ReadClosed, ReadRegister, ReadReclosed, ReadRetract, BlockReading, Goes, At, ReadCalls,
      chanVars
  <2>13. ASSUME Poll(p) \/ CloseWrite(p) \/ CloseRead(p) PROVE PortInv'
    BY <2>9, <2>13, <2>t DEF Poll, CloseWrite, CloseRead, Enters
  <2>14. ASSUME NEW c \in {"write", "channel_write"}, Write(p, c) PROVE PortInv'
    BY <2>9, <2>14, <2>t, ZenonT(30) DEF Write, Enters
  <2>15. ASSUME WriteWake(p) \/ DropWake(p) \/ WriteTake(p) \/ DropFlag(p) \/ DropSignals(p) PROVE PortInv'
    BY <2>9, <2>15, <2>t, Zenon DEF WriteWake, DropWake, WriteTake, DropFlag, DropSignals, GoesWaking, Goes, At
  <2>16. ASSUME WriteEpoll(p) PROVE PortInv'
    BY <2>9, <2>16, <2>t, ZenonT(30) DEF WriteEpoll, WakeEpollWaiters, GoesWaking, Goes, At
  <2>17. ASSUME WriteHandover(p) PROVE PortInv'
    BY <2>9, <2>17, <2>t, ZenonT(30) DEF WriteHandover, Goes, At
  <2>18. ASSUME WriterResumes(p) PROVE PortInv'
    <3>1. UNCHANGED portVars /\ call'[p] # "port_wait" /\ pc[p] # "port_wake"
      BY <1>w, <2>18, Zenon DEF WriterResumes, Resumes, chanVars, WakeTypeOK
    <3> QED BY <2>9, <3>1, Zenon
  <2>19. ASSUME NEW c \in WaitCalls, WaitOne(p, c) PROVE PortInv'
    BY <2>9, <2>19, <2>t, ZenonT(30) DEF WaitOne, Enters, WaitCalls, chanVars
  <2>20. ASSUME WaitRegister(p) \/ WaitAgain(p) \/ WaitRetract(p) PROVE PortInv'
    BY <2>9, <2>20, <2>t, ZenonT(30) DEF WaitRegister, WaitAgain, WaitRetract, Goes, At, WaitCalls, chanVars
  <2>21. ASSUME PortBind(p) PROVE PortInv'
    <3>1. UNCHANGED <<portq, portWaiter>> /\ pc[p] # "port_wake"
      BY <2>21, ZenonT(30) DEF PortBind, Enters
    <3>2. call'[p] # "port_wait"
      <4>1. Moves(p, "port_bind", "evaluate", WakesNobody)
        BY <2>21, Zenon DEF PortBind
      <4>2. call'[p] = "port_bind"
        BY <2>t, <4>1, ZenonT(30)
      <4> QED BY <4>2, Zenon
    <3> QED BY <1>w, <2>k, <3>1, <3>2, PortBystander, Zenon
  <2> QED BY <1>2, <2>1, <2>2, <2>3, <2>4, <2>5, <2>6, <2>7, <2>8, <2>10, <2>11, <2>12, <2>13, <2>14, <2>15,
    <2>16, <2>17, <2>18, <2>19, <2>20, <2>21, ZenonT(30) DEF ChannelStep
<1> QED BY <1>1, <1>2, StepComponents, Zenon DEF Components

-----------------------------------------------------------------------------
(* The processes waiting for a channel's signals *)

\* Places from which a call still comes to notify_signals.
Raising == {"wake", "epoll", "take", "drop_wake", "drop_signals", "notify"}

SignalKept(q, c) == pc[q] \in Raising \/ (pc[q] = "notify_waiters" /\ sig[q] \cap WaitMask(c) # {})

LEMMA SignalInvIs ==
  ASSUME \A p \in Procs : call[p] \in WaitCalls /\ pc[p] \in {"wait_again", "asleep"} /\ entries[p] = 0
           => sigWaiters[p][call[p]] > 0,
         \A p \in Procs : call[p] \in WaitCalls /\ pc[p] = "asleep" /\ entries[p] = 0
                            /\ Signals \cap WaitMask(call[p]) # {}
           => \E q \in Procs : SignalKept(q, call[p])
  PROVE  SignalInv
BY Zenon DEF SignalInv, SignalWaiterNotStranded, Sleeps, At, SignalKept, Raising

LEMMA SignalInvGives ==
  ASSUME SignalInv, NEW p \in Procs, call[p] \in WaitCalls, entries[p] = 0
  PROVE  /\ pc[p] \in {"wait_again", "asleep"} => sigWaiters[p][call[p]] > 0
         /\ pc[p] = "asleep" /\ Signals \cap WaitMask(call[p]) # {}
              => \E q \in Procs : SignalKept(q, call[p])
<1>1. pc[p] \in {"wait_again", "asleep"} => sigWaiters[p][call[p]] > 0
  BY Zenon DEF SignalInv
<1>2. ASSUME pc[p] = "asleep", Signals \cap WaitMask(call[p]) # {}
      PROVE  \E q \in Procs : SignalKept(q, call[p])
  <2>1. Sleeps(p, WaitCalls)
    BY <1>2, Zenon DEF Sleeps, At
  <2>2. PICK q \in Procs :
          \/ pc[q] \in {"wake", "epoll", "take", "drop_wake", "drop_signals", "notify"}
          \/ pc[q] = "notify_waiters" /\ sig[q] \cap WaitMask(call[p]) # {}
    BY <1>2, <2>1, Zenon DEF SignalInv, SignalWaiterNotStranded
  <2>3. SignalKept(q, call[p])
    BY <2>2, ZenonT(30) DEF SignalKept, Raising
  <2> QED BY <2>3, Zenon
<1> QED BY <1>1, <1>2, Zenon

\* A step of a process that goes on to notify_signals.
LEMMA SignalRaised ==
  ASSUME BaseInv, BaseInv', SignalInv, NEW p \in Procs, OthersKeep(p), UNCHANGED sigWaiters, pc'[p] \in Raising
  PROVE  SignalInv'
<1>1. \A q \in Procs : entries[q] \in Nat /\ entries'[q] \in Nat
  BY ZenonT(30) DEF BaseInv, TypeOK, WakeTypeOK
<1>2. \A r \in Procs : pc'[r] \in {"wait_again", "asleep"} /\ entries'[r] = 0
        => call[r] = call'[r] /\ pc[r] = pc'[r] /\ entries[r] = 0
  BY <1>1 DEF OthersKeep, Raising
<1>3. \A c : SignalKept(p, c)'
  BY Zenon DEF SignalKept, Raising
<1>4. \A r \in Procs : call'[r] \in WaitCalls /\ pc'[r] \in {"wait_again", "asleep"} /\ entries'[r] = 0
        => sigWaiters'[r][call'[r]] > 0
  BY <1>2, SignalInvGives, Zenon
<1> QED BY <1>3, <1>4, Zenon DEF SignalInv, SignalWaiterNotStranded, Sleeps, At, SignalKept, Raising

\* A step of a process that is not waiting, raises nothing and has nothing to
\* tell.
LEMMA SignalBystander ==
  ASSUME BaseInv, BaseInv', SignalInv, NEW p \in Procs, OthersKeep(p), UNCHANGED <<sigWaiters, peerClosed>>,
         queued' <= queued, \A q \in Procs \ {p} : sig'[q] = sig[q],
         call'[p] \notin WaitCalls \/ pc'[p] \notin {"wait_again", "asleep"},
         pc[p] \notin Raising \cup {"notify_waiters"}
  PROVE  SignalInv'
<1>1. /\ \A q \in Procs : entries[q] \in Nat /\ entries'[q] \in Nat
      /\ queued \in Nat /\ queued' \in Nat
  BY ZenonT(30) DEF BaseInv, TypeOK, WakeTypeOK, ChannelTypeOK
<1>2. \A r \in Procs : call'[r] \in WaitCalls /\ pc'[r] \in {"wait_again", "asleep"} /\ entries'[r] = 0
        => call[r] = call'[r] /\ pc[r] = pc'[r] /\ entries[r] = 0
  BY <1>1, OthersSame, ZenonT(30)
<1>s. Signals' \subseteq Signals
  <2>1. queued' > 0 => queued > 0
    BY <1>1, NotMore, Zenon
  <2> QED BY <2>1, Zenon DEF Signals
<1>3. \A c : Signals' \cap WaitMask(c) # {} => Signals \cap WaitMask(c) # {}
  BY <1>s, Zenon
<1>4. \A q \in Procs : \A c : SignalKept(q, c) => SignalKept(q, c)'
  BY Zenon DEF SignalKept, OthersKeep
<1>5. \A r \in Procs : call'[r] \in WaitCalls /\ pc'[r] \in {"wait_again", "asleep"} /\ entries'[r] = 0
        => sigWaiters'[r][call'[r]] > 0
  BY <1>2, SignalInvGives, ZenonT(30)
<1>6. ASSUME NEW r \in Procs, call'[r] \in WaitCalls, pc'[r] = "asleep", entries'[r] = 0,
             Signals' \cap WaitMask(call'[r]) # {}
      PROVE  \E q \in Procs : SignalKept(q, call[r])' /\ call[r] = call'[r]
  <2>1. call[r] = call'[r] /\ pc[r] = "asleep" /\ entries[r] = 0
    BY <1>2, <1>6, ZenonT(30)
  <2>2. PICK q \in Procs : SignalKept(q, call[r])
    BY <1>3, <1>6, <2>1, SignalInvGives, ZenonT(30)
  <2> QED BY <1>4, <2>1, <2>2, ZenonT(30) DEF SignalKept
<1> QED BY <1>5, <1>6, ZenonT(30) DEF SignalInv, SignalWaiterNotStranded, Sleeps, At, SignalKept, Raising

LEMMA SignalStep ==
  ASSUME BaseInv, BaseInv', SignalInv, [Next]_vars
  PROVE  SignalInv'
<1>w. /\ WakeTypeOK /\ ChannelTypeOK /\ \A q \in Procs : entries[q] \in Nat /\ entries'[q] \in Nat
      /\ queued \in Nat /\ queued <= queued /\ queued - 1 <= queued
      /\ after \in [Procs -> {"user", "retract", "handover"}]
  BY DEF BaseInv, TypeOK, WakeTypeOK, ChannelTypeOK
<1>1. ASSUME Apart(ChannelCalls), UNCHANGED chanVars PROVE SignalInv'
  <2>1. ASSUME NEW q \in Procs, NEW c, SignalKept(q, c) PROVE SignalKept(q, c)'
    <3>1. pc[q] \in ChannelPlaces
      BY <2>1, ZenonT(30) DEF SignalKept, Raising, ChannelPlaces, NotifyPlaces
    <3>2. pc'[q] = pc[q]
      BY <1>1, <3>1, Zenon DEF BaseInv, Flow, Fits, Apart, Untouched
    <3>3. sig' = sig
      BY <1>1, ZenonT(30) DEF chanVars, callVars
    <3> QED BY <2>1, <3>2, <3>3, Zenon DEF SignalKept, Raising
  <2>2. ASSUME NEW r \in Procs, call'[r] \in WaitCalls
        PROVE  pc'[r] = pc[r] /\ call[r] = call'[r] /\ (entries'[r] = 0 => entries[r] = 0)
    BY <1>1, <1>w, <2>2 DEF Apart, Untouched, ChannelCalls, WaitCalls
  <2>3. UNCHANGED <<sigWaiters, queued, peerClosed>>
    BY <1>1, Zenon DEF chanVars
  <2>4. Signals' = Signals
    BY <2>3, Zenon DEF Signals
  <2>5. \A r \in Procs : call'[r] \in WaitCalls /\ pc'[r] \in {"wait_again", "asleep"} /\ entries'[r] = 0
          => sigWaiters'[r][call'[r]] > 0
    BY <2>2, <2>3, SignalInvGives, Zenon
  <2>6. ASSUME NEW r \in Procs, call'[r] \in WaitCalls, pc'[r] = "asleep", entries'[r] = 0,
               Signals' \cap WaitMask(call'[r]) # {}
        PROVE  \E q \in Procs : SignalKept(q, call[r])'
    <3>1. PICK q \in Procs : SignalKept(q, call[r])
      BY <2>2, <2>4, <2>6, SignalInvGives, Zenon
    <3>2. PICK c : c = call[r]
      BY Zenon
    <3>3. SignalKept(q, c)'
      BY <2>1, <3>1, <3>2, Zenon
    <3> QED BY <2>2, <2>6, <3>2, <3>3, ZenonT(30)
  <2> QED BY <2>5, <2>6, ZenonT(30) DEF SignalInv, SignalWaiterNotStranded, Sleeps, At, SignalKept, Raising
<1>2. ASSUME NEW p \in Procs, ChannelStep(p) PROVE SignalInv'
  <2>k. OthersKeep(p)
    BY <1>2, ChannelOthers, Zenon
  <2>t. \A c, place, woken : Moves(p, c, place, woken)
          => pc'[p] = place /\ call'[p] = (IF place = "user" THEN "none" ELSE c)
    BY <1>w, MovesTo, Zenon
  \* the calls that go on to notify_signals
  <2>r. ASSUME UNCHANGED sigWaiters, pc'[p] \in {"wake", "epoll", "take", "drop_wake", "drop_signals", "notify"}
        PROVE  SignalInv'
    BY <2>k, <2>r, SignalRaised, Zenon DEF Raising
  \* the calls that have nothing to do with the signals
  <2>b. ASSUME UNCHANGED <<sigWaiters, peerClosed, sig>>, queued' <= queued,
               call'[p] \notin WaitCalls \/ pc'[p] \notin {"wait_again", "asleep"},
               pc[p] \notin {"wake", "epoll", "take", "drop_wake", "drop_signals", "notify", "notify_waiters"}
        PROVE  SignalInv'
    <3>1. \A q \in Procs \ {p} : sig'[q] = sig[q]
      BY <2>b, Zenon
    <3>2. pc[p] \notin Raising \cup {"notify_waiters"}
      BY <2>b, ZenonT(30) DEF Raising
    <3> QED BY <2>k, <2>b, <3>1, <3>2, SignalBystander, Zenon
  <2>1. ASSUME NotifySignals(p) PROVE SignalInv'
    <3>1. /\ sig'[p] = Signals /\ \A q \in Procs \ {p} : sig'[q] = sig[q]
          /\ UNCHANGED <<queued, peerClosed, sigWaiters>>
      BY <1>w, <2>1, ZenonT(30) DEF NotifySignals, ChannelTypeOK
    <3>2. pc'[p] = "notify_waiters" /\ Signals' = Signals
      BY <2>1, <2>t, <3>1 DEF NotifySignals, Goes, Signals
    <3>3. \A r \in Procs : pc'[r] \in {"wait_again", "asleep"} /\ entries'[r] = 0
            => call[r] = call'[r] /\ pc[r] = pc'[r] /\ entries[r] = 0
      BY <1>w, <2>k, <3>2, OthersSame, ZenonT(30)
    <3>4. \A r \in Procs : call'[r] \in WaitCalls /\ pc'[r] \in {"wait_again", "asleep"} /\ entries'[r] = 0
            => sigWaiters'[r][call'[r]] > 0
      BY <3>1, <3>3, SignalInvGives, ZenonT(30)
    <3>5. \A c : Signals' \cap WaitMask(c) # {} => SignalKept(p, c)'
      BY <3>1, <3>2, Zenon DEF SignalKept, WaitMask
    <3> QED BY <3>4, <3>5, Zenon DEF SignalInv, SignalWaiterNotStranded, Sleeps, At, SignalKept, Raising
  <2>2. ASSUME NotifyWaiters(p) PROVE SignalInv'
    <3> DEFINE told == {c \in WaitCalls : WaitMask(c) \cap sig[p] # {}}
    <3>1. /\ pc[p] = "notify_waiters" /\ Moves(p, call[p], "notify_ports", WakesWaiters(told))
          /\ sigWaiters' = [r \in Procs |-> [c \in WaitCalls |-> IF c \in told THEN 0 ELSE sigWaiters[r][c]]]
          /\ UNCHANGED <<queued, peerClosed, sig>>
      BY <2>2, ZenonT(30) DEF NotifyWaiters, callVars
    <3>2. pc'[p] = "notify_ports" /\ Signals' = Signals
      BY <2>t, <3>1, ZenonT(30) DEF Signals
    <3>3. \A r \in Procs : entries'[r] = entries[r] + WakesWaiters(told)[r]
      BY <1>w, <3>1 DEF Moves, WakesWaiters, ChannelTypeOK, WakeTypeOK, WaitCalls
    <3>4. ASSUME NEW r \in Procs, call'[r] \in WaitCalls, pc'[r] \in {"wait_again", "asleep"}, entries'[r] = 0
          PROVE  /\ call[r] = call'[r] /\ pc[r] = pc'[r] /\ entries[r] = 0
                 /\ call[r] \notin told /\ sigWaiters'[r][call[r]] > 0
      <4>1. call[r] = call'[r] /\ pc[r] = pc'[r] /\ entries[r] = 0
        BY <1>w, <2>k, <3>2, <3>4, OthersSame, Zenon
      <4>2. sigWaiters[r][call[r]] > 0
        BY <3>4, <4>1, SignalInvGives, ZenonT(30)
      <4>3. WakesWaiters(told)[r] = 0
        BY <1>w, <3>3, <3>4, <4>1 DEF WakesWaiters, ChannelTypeOK, WaitCalls
      <4>4. /\ sigWaiters[r]["wait_readable"] \in Nat /\ sigWaiters[r]["wait_closed"] \in Nat
            /\ sigWaiters[r][call[r]] \in Nat
        BY <1>w, <3>4, <4>1 DEF ChannelTypeOK, WaitCalls
      <4>5. call[r] \notin told
        <5> HIDE DEF told
        <5> QED BY <3>4, <4>1, <4>2, <4>3, <4>4 DEF WakesWaiters, WaitCalls
      <4>6. sigWaiters'[r][call[r]] = sigWaiters[r][call[r]]
        <5> HIDE DEF told
        <5> QED BY <3>1, <3>4, <4>1, <4>5, ZenonT(30)
      <4> QED BY <4>1, <4>2, <4>5, <4>6, Zenon
    <3>5. ASSUME NEW r \in Procs, call'[r] \in WaitCalls, pc'[r] = "asleep", entries'[r] = 0,
                 Signals' \cap WaitMask(call'[r]) # {}
          PROVE  \E q \in Procs : SignalKept(q, call[r])'
      <4>1. PICK q \in Procs : SignalKept(q, call[r])
        BY <3>2, <3>4, <3>5, SignalInvGives, ZenonT(30)
      <4>2. q # p
        BY <3>1, <3>4, <3>5, <4>1, ZenonT(30) DEF SignalKept, Raising
      <4>3. pc'[q] = pc[q] /\ sig'[q] = sig[q] /\ call'[r] = call[r]
        BY <2>k, <3>1, <3>4, <3>5, <4>2, Zenon DEF OthersKeep
      <4> QED BY <4>1, <4>3, Zenon DEF SignalKept, Raising
    <3>6. \A r \in Procs : call'[r] \in WaitCalls /\ pc'[r] \in {"wait_again", "asleep"} /\ entries'[r] = 0
            => sigWaiters'[r][call'[r]] > 0
      BY <3>4, ZenonT(30)
    <3> QED BY <3>5, <3>6, ZenonT(30) DEF SignalInv, SignalWaiterNotStranded, Sleeps, At, SignalKept, Raising
  <2>3. ASSUME NotifyPorts(p) \/ QueuePacketWake(p) PROVE SignalInv'
    <3>1. /\ UNCHANGED <<queued, peerClosed, sigWaiters>> /\ pc[p] \in {"notify_ports", "port_wake"}
          /\ \A q \in Procs \ {p} : sig'[q] = sig[q]
      BY <1>w, <2>3, ZenonT(30) DEF NotifyPorts, QueuePacketWake, callVars, ChannelTypeOK
    <3>2. pc'[p] \notin {"wait_again", "asleep"}
      BY <2>3, NotifyFacts, ZenonT(30) DEF NotifyPlaces
    <3> QED BY <1>w, <2>k, <3>1, <3>2, SignalBystander, Zenon DEF Raising
  <2>4. ASSUME DropSignals(p) PROVE SignalInv'
    <3>1. /\ Moves(p, call[p], "notify", WakesWaiters(WaitCalls)) /\ pc[p] = "drop_signals"
      BY <2>4, ZenonT(30) DEF DropSignals, At
    <3>2. pc'[p] = "notify"
      BY <2>t, <3>1, ZenonT(30)
    <3>3. \A r \in Procs : entries'[r] = entries[r] + WakesWaiters(WaitCalls)[r]
      BY <1>w, <3>1 DEF Moves, WakesWaiters, ChannelTypeOK, WakeTypeOK, WaitCalls
    <3>4. ASSUME NEW r \in Procs, call'[r] \in WaitCalls, pc'[r] \in {"wait_again", "asleep"}, entries'[r] = 0
          PROVE  FALSE
      <4>1. call[r] = call'[r] /\ pc[r] = pc'[r] /\ entries[r] = 0
        BY <1>w, <2>k, <3>2, <3>4, OthersSame, ZenonT(30)
      <4>2. sigWaiters[r][call[r]] > 0
        BY <3>4, <4>1, SignalInvGives, Zenon
      <4>n. WakesWaiters(WaitCalls)[r] \in Nat
        BY <1>w DEF WakesWaiters, ChannelTypeOK, WaitCalls
      <4>3. WakesWaiters(WaitCalls)[r] = 0
        <5>1. 0 = 0 + WakesWaiters(WaitCalls)[r]
          BY <3>3, <3>4, <4>1, Zenon
        <5>2. 0 \in Nat
          BY Zenon
        <5> QED BY <4>n, <5>1, <5>2, SumNotFewer, Zenon
      <4>4. /\ sigWaiters[r]["wait_readable"] \in Nat /\ sigWaiters[r]["wait_closed"] \in Nat
        BY <1>w DEF ChannelTypeOK, WaitCalls
      <4>5. sigWaiters[r]["wait_readable"] + sigWaiters[r]["wait_closed"] = 0
        BY <4>3, Zenon DEF WakesWaiters, WaitCalls
      <4>6. ~(sigWaiters[r]["wait_readable"] > 0) /\ ~(sigWaiters[r]["wait_closed"] > 0)
        BY <4>4, <4>5, NoneOfTwo, Zenon
      <4> QED BY <3>4, <4>1, <4>2, <4>6, Zenon DEF WaitCalls
    <3> QED BY <3>4, ZenonT(30) DEF SignalInv, SignalWaiterNotStranded, Sleeps, At
  <2>5. ASSUME WaitRegister(p) PROVE SignalInv'
    <3>1. /\ call[p] \in WaitCalls /\ pc[p] = "wait" /\ UNCHANGED <<queued, peerClosed, sig>>
          /\ sigWaiters' = [sigWaiters EXCEPT ![p][call[p]] = @ + 1]
      BY <2>5, Zenon DEF WaitRegister, At, callVars
    <3>2. pc'[p] = "wait_again" /\ call'[p] = call[p] /\ Signals' = Signals
      BY <2>5, <2>t, <3>1 DEF WaitRegister, Goes, Signals
    <3>3. sigWaiters'[p][call[p]] > 0 /\ \A r \in Procs \ {p} : sigWaiters'[r] = sigWaiters[r]
      BY <1>w, <3>1 DEF ChannelTypeOK
    <3>4. \A r \in Procs \ {p} : call'[r] = call[r] /\ pc'[r] = pc[r] /\ (entries'[r] = 0 => entries[r] = 0)
      BY <1>w, <2>k DEF OthersKeep
    <3>5. \A r \in Procs : call'[r] \in WaitCalls /\ pc'[r] \in {"wait_again", "asleep"} /\ entries'[r] = 0
            => sigWaiters'[r][call'[r]] > 0
      BY <3>2, <3>3, <3>4, SignalInvGives, Zenon
    <3>6. ASSUME NEW r \in Procs, call'[r] \in WaitCalls, pc'[r] = "asleep", entries'[r] = 0,
                 Signals' \cap WaitMask(call'[r]) # {}
          PROVE  \E q \in Procs : SignalKept(q, call[r])'
      <4>1. r # p /\ call'[r] = call[r] /\ pc[r] = "asleep" /\ entries[r] = 0
        BY <3>2, <3>4, <3>6, ZenonT(30)
      <4>2. PICK q \in Procs : SignalKept(q, call[r])
        BY <3>2, <3>6, <4>1, SignalInvGives, ZenonT(30)
      <4>3. q # p
        BY <3>1, <4>2, Zenon DEF SignalKept, Raising
      <4>4. pc'[q] = pc[q] /\ sig'[q] = sig[q]
        BY <3>1, <3>4, <4>3, ZenonT(30)
      <4> QED BY <4>1, <4>2, <4>4, ZenonT(30) DEF SignalKept, Raising
    <3> QED BY <3>5, <3>6, Zenon DEF SignalInv, SignalWaiterNotStranded, Sleeps, At, SignalKept, Raising
  <2>6. ASSUME WaitAgain(p) PROVE SignalInv'
    <3>1. /\ call[p] \in WaitCalls /\ pc[p] = "wait_again" /\ UNCHANGED <<queued, peerClosed, sig, sigWaiters>>
      BY <2>6, Zenon DEF WaitAgain, At, callVars, chanVars
    <3>2. PICK place \in {"wait_retract", "asleep"} :
            /\ place = (IF Signals \cap WaitMask(call[p]) # {} THEN "wait_retract" ELSE "asleep")
            /\ Moves(p, call[p], place, WakesNobody)
      BY <2>6, Zenon DEF WaitAgain, Goes
    <3>3. pc'[p] = place /\ call'[p] = call[p] /\ Signals' = Signals /\ entries'[p] = entries[p]
      <4>1. pc'[p] = place /\ call'[p] = call[p] /\ Signals' = Signals
        BY <2>t, <3>1, <3>2, Zenon DEF Signals
      <4>2. entries'[p] = entries[p]
        BY <1>w, <3>1, <3>2, MovesQuietly, ZenonT(30)
      <4> QED BY <4>1, <4>2, ZenonT(30)
    <3>4. \A r \in Procs \ {p} : call'[r] = call[r] /\ pc'[r] = pc[r] /\ (entries'[r] = 0 => entries[r] = 0)
      BY <1>w, <2>k DEF OthersKeep
    <3>5. \A r \in Procs : call'[r] \in WaitCalls /\ pc'[r] \in {"wait_again", "asleep"} /\ entries'[r] = 0
            => sigWaiters'[r][call'[r]] > 0
      BY <3>1, <3>3, <3>4, SignalInvGives, ZenonT(30)
    <3>6. ASSUME NEW r \in Procs, call'[r] \in WaitCalls, pc'[r] = "asleep", entries'[r] = 0,
                 Signals' \cap WaitMask(call'[r]) # {}
          PROVE  \E q \in Procs : SignalKept(q, call[r])'
      <4>1. r # p /\ call'[r] = call[r] /\ pc[r] = "asleep" /\ entries[r] = 0
        BY <3>2, <3>3, <3>4, <3>6, Zenon
      <4>2. PICK q \in Procs : SignalKept(q, call[r])
        BY <3>3, <3>6, <4>1, SignalInvGives, Zenon
      <4>3. q # p
        BY <3>1, <4>2, Zenon DEF SignalKept, Raising
      <4>4. pc'[q] = pc[q] /\ sig'[q] = sig[q]
        BY <3>1, <3>4, <4>3, ZenonT(30)
      <4> QED BY <4>1, <4>2, <4>4, ZenonT(30) DEF SignalKept, Raising
    <3> QED BY <3>5, <3>6, Zenon DEF SignalInv, SignalWaiterNotStranded, Sleeps, At, SignalKept, Raising
  <2>7. ASSUME WaitRetract(p) PROVE SignalInv'
    <3>1. /\ call[p] \in WaitCalls /\ pc[p] = "wait_retract" /\ UNCHANGED <<queued, peerClosed, sig>>
      BY <2>7, Zenon DEF WaitRetract, At, callVars
    <3>2. pc'[p] = "user" /\ Signals' = Signals
      BY <2>7, <2>t, <3>1 DEF WaitRetract, Goes, Signals
    <3>3. \A r \in Procs \ {p} : sigWaiters'[r] = sigWaiters[r]
      <4>1. CASE UNCHANGED sigWaiters
        BY <4>1, Zenon
      <4>2. CASE \E c \in WaitCalls : sigWaiters' = [sigWaiters EXCEPT ![p][c] = @ - 1]
        BY <1>w, <4>2, Zenon DEF ChannelTypeOK
      <4> QED BY <2>7, <4>1, <4>2, Zenon DEF WaitRetract
    <3>4. \A r \in Procs \ {p} : call'[r] = call[r] /\ pc'[r] = pc[r] /\ (entries'[r] = 0 => entries[r] = 0)
      BY <1>w, <2>k DEF OthersKeep
    <3>5. \A r \in Procs : call'[r] \in WaitCalls /\ pc'[r] \in {"wait_again", "asleep"} /\ entries'[r] = 0
            => sigWaiters'[r][call'[r]] > 0
      BY <3>2, <3>3, <3>4, SignalInvGives, ZenonT(30)
    <3>6. ASSUME NEW r \in Procs, call'[r] \in WaitCalls, pc'[r] = "asleep", entries'[r] = 0,
                 Signals' \cap WaitMask(call'[r]) # {}
          PROVE  \E q \in Procs : SignalKept(q, call[r])'
      <4>1. r # p /\ call'[r] = call[r] /\ pc[r] = "asleep" /\ entries[r] = 0
        BY <3>2, <3>4, <3>6, ZenonT(30)
      <4>2. PICK q \in Procs : SignalKept(q, call[r])
        BY <3>2, <3>6, <4>1, SignalInvGives, Zenon
      <4>3. q # p
        BY <3>1, <4>2, Zenon DEF SignalKept, Raising
      <4>4. pc'[q] = pc[q] /\ sig'[q] = sig[q]
        BY <3>1, <3>4, <4>3, Zenon
      <4> QED BY <4>1, <4>2, <4>4, Zenon DEF SignalKept, Raising
    <3> QED BY <3>5, <3>6, Zenon DEF SignalInv, SignalWaiterNotStranded, Sleeps, At, SignalKept, Raising
  <2>10. ASSUME NEW c \in ReadCalls, NEW fits \in BOOLEAN, Read(p, c, fits) PROVE SignalInv'
    <3>1. /\ UNCHANGED <<sigWaiters, peerClosed, sig>> /\ queued' <= queued
          /\ pc[p] \notin {"wake", "epoll", "take", "drop_wake", "drop_signals", "notify", "notify_waiters"}
      BY <1>w, <2>10, ZenonT(30) DEF Read, PopOr, Enters
    <3>2. call'[p] \notin WaitCalls
      BY <2>10, <2>t, Zenon DEF Read, PopOr, ReadCalls, WaitCalls
    <3> QED BY <2>b, <3>1, <3>2, Zenon
  <2>11. ASSUME NEW fits \in BOOLEAN, ReadRecheck(p, fits) PROVE SignalInv'
    <3>1. /\ UNCHANGED <<sigWaiters, peerClosed, sig>> /\ queued' <= queued /\ pc[p] = "recheck" /\ call[p] \in ReadCalls
      BY <1>w, <2>11, ZenonT(30) DEF ReadRecheck, PopOr, At
    <3>2. call'[p] \notin WaitCalls
      BY <2>11, <2>t, <3>1, Zenon DEF ReadRecheck, PopOr, BlockReading, Goes, ReadCalls, WaitCalls
    <3> QED BY <2>b, <3>1, <3>2, ZenonT(30)
  <2>12. ASSUME ReadClosed(p) \/ ReadRegister(p) \/ ReadReclosed(p) \/ ReadRetract(p) PROVE SignalInv'
    <3>1. /\ UNCHANGED <<sigWaiters, peerClosed, sig, queued>> /\ call[p] \in ReadCalls
          /\ pc[p] \in {"closed", "register", "reclosed", "retract"}
      BY <2>12, Zenon DEF ReadClosed, ReadRegister, ReadReclosed, ReadRetract, At, chanVars, callVars
    <3>2. call'[p] \notin WaitCalls
      BY <2>12, <2>t, <3>1, ZenonT(30) DEF ReadClosed, ReadRegister, ReadReclosed, ReadRetract, BlockReading, Goes, ReadCalls, WaitCalls
    <3> QED BY <1>w, <2>b, <3>1, <3>2, ZenonT(30)
  <2>13. ASSUME Poll(p) \/ CloseWrite(p) \/ CloseRead(p) \/ PortWait(p) \/ PortQueue(p) \/ PortBind(p) PROVE SignalInv'
    <3>1. /\ UNCHANGED <<sigWaiters, peerClosed, sig>> /\ queued' <= queued
          /\ pc[p] \notin {"wake", "epoll", "take", "drop_wake", "drop_signals", "notify", "notify_waiters"}
      BY <1>w, <2>13, ZenonT(30) DEF Poll, CloseWrite, CloseRead, PortWait, PortQueue, PortBind, Enters, callVars
    <3>2. \E c \in {"poll", "close_write", "close_read", "port_wait", "port_queue", "port_bind"} : \E place :
            Moves(p, c, place, WakesNobody)
      BY <2>13, ZenonT(30) DEF Poll, CloseWrite, CloseRead, PortWait, PortQueue, PortBind
    <3>3. call'[p] \notin WaitCalls
      BY <2>t, <3>2, Zenon DEF WaitCalls
    <3> QED BY <2>b, <3>1, <3>3, Zenon
  <2>14. ASSUME NEW c \in {"write", "channel_write"}, Write(p, c) PROVE SignalInv'
    <3>1. UNCHANGED <<sigWaiters, peerClosed, sig>>
      BY <2>14, Zenon DEF Write, callVars
    <3>2. CASE PeerAlive
      BY <2>14, <2>r, <2>t, <3>1, <3>2, ZenonT(30) DEF Write
    <3>3. CASE ~PeerAlive
      <4>1. /\ queued' <= queued /\ call'[p] = "none"
            /\ pc[p] \notin {"wake", "epoll", "take", "drop_wake", "drop_signals", "notify", "notify_waiters"}
        BY <1>w, <2>14, <2>t, <3>3, Zenon DEF Write, Enters
      <4> QED BY <2>b, <3>1, <4>1, ZenonT(30) DEF WaitCalls
    <3> QED BY <3>2, <3>3, Zenon
  <2>15. ASSUME WriteWake(p) \/ DropWake(p) \/ WriteTake(p) \/ DropFlag(p) PROVE SignalInv'
    BY <2>r, <2>15, <2>t, ZenonT(30) DEF WriteWake, DropWake, WriteTake, DropFlag, GoesWaking, Goes
  <2>16. ASSUME WriteEpoll(p) PROVE SignalInv'
    BY <2>r, <2>16, <2>t, ZenonT(30) DEF WriteEpoll, WakeEpollWaiters, GoesWaking, Goes
  <2>17. ASSUME WriteHandover(p) PROVE SignalInv'
    <3>1. /\ UNCHANGED <<sigWaiters, peerClosed, sig, queued>> /\ pc[p] = "handover"
      BY <2>17, ZenonT(30) DEF WriteHandover, At
    <3>2. pc'[p] \in {"user", "yield"}
      BY <2>17, <2>t, Zenon DEF WriteHandover, Goes
    <3> QED BY <1>w, <2>b, <3>1, <3>2, ZenonT(30)
  <2>18. ASSUME WriterResumes(p) PROVE SignalInv'
    <3>1. UNCHANGED <<sigWaiters, peerClosed, sig, queued>> /\ pc'[p] = "user" /\ pc[p] = "yield"
      BY <1>w, <2>18, Zenon DEF WriterResumes, Resumes, chanVars, callVars, WakeTypeOK
    <3> QED BY <1>w, <2>b, <3>1, ZenonT(30)
  <2>19. ASSUME NEW c \in WaitCalls, WaitOne(p, c) PROVE SignalInv'
    <3>1. /\ UNCHANGED <<sigWaiters, peerClosed, sig, queued>>
          /\ pc[p] \notin {"wake", "epoll", "take", "drop_wake", "drop_signals", "notify", "notify_waiters"}
      BY <2>19, Zenon DEF WaitOne, Enters, chanVars, callVars
    <3>2. pc'[p] \in {"user", "wait"}
      BY <2>19, <2>t, ZenonT(30) DEF WaitOne
    <3> QED BY <1>w, <2>b, <3>1, <3>2, ZenonT(30)
  <2>20. ASSUME PortRegister(p) \/ PortRecheck(p) \/ PortRetract(p) \/ PortEvaluate(p) PROVE SignalInv'
    <3>1. /\ UNCHANGED <<sigWaiters, peerClosed, sig, queued>> /\ call[p] \in {"port_wait", "port_bind"}
          /\ pc[p] \in {"register", "recheck", "retract", "evaluate"}
      BY <2>20, Zenon DEF PortRegister, PortRecheck, PortRetract, PortEvaluate, At, callVars
    <3>2. \E place : Moves(p, call[p], place, WakesNobody)
      BY <2>20, Zenon DEF PortRegister, PortRecheck, PortRetract, PortEvaluate, Goes
    <3>3. call'[p] \notin WaitCalls
      BY <2>t, <3>1, <3>2, ZenonT(30) DEF WaitCalls
    <3> QED BY <1>w, <2>b, <3>1, <3>3, ZenonT(30)
  <2> QED BY <1>2, <2>1, <2>2, <2>3, <2>4, <2>5, <2>6, <2>7, <2>10, <2>11, <2>12, <2>13, <2>14, <2>15,
    <2>16, <2>17, <2>18, <2>19, <2>20, ZenonT(30) DEF ChannelStep
<1> QED BY <1>1, <1>2, StepComponents, ZenonT(30) DEF Components

-----------------------------------------------------------------------------
(* The channel's reader *)

\* A step that neither reads nor wakes the reader.
LEMMA ReaderBystander ==
  ASSUME BaseInv, BaseInv', ReaderInv, NEW p \in Procs, OthersKeep(p),
         UNCHANGED <<peerClosed, waiter, held>>, queued' <= queued,
         call'[p] \notin ReadCalls \/ pc'[p] \notin {"recheck", "reclosed", "asleep"},
         ~WillLook(p),
         held[p] # Nobody => call'[p] = "channel_write" /\ pc'[p] \in NotifyPlaces \cup {"handover"}
  PROVE  ReaderInv'
<1>1. /\ \A q \in Procs : entries[q] \in Nat /\ entries'[q] \in Nat
      /\ queued \in Nat /\ queued' \in Nat
  BY ZenonT(30) DEF BaseInv, TypeOK, WakeTypeOK, ChannelTypeOK
<1>2. \A r \in Procs : call'[r] \in ReadCalls /\ pc'[r] \in {"recheck", "reclosed", "asleep"} /\ entries'[r] = 0
        => call[r] = call'[r] /\ pc[r] = pc'[r] /\ entries[r] = 0
  BY <1>1, OthersSame, ZenonT(30)
<1>3. \A q \in Procs : WillLook(q) => WillLook(q)'
  BY ZenonT(30) DEF WillLook, At, OthersKeep
<1>4. \A r \in Procs : HeldFast(r)' <=> HeldFast(r)
  BY Zenon DEF HeldFast
<1>5. queued' > 0 => queued > 0
  BY <1>1, NotMore, Zenon
<1>6. \A q \in Procs : held'[q] # Nobody =>
        call'[q] = "channel_write" /\ pc'[q] \in NotifyPlaces \cup {"handover"}
  BY ZenonT(30) DEF ReaderInv, OthersKeep
<1>7. ASSUME NEW r \in Procs, call'[r] \in ReadCalls /\ entries'[r] = 0
      PROVE  /\ pc'[r] \in {"recheck", "reclosed", "asleep"} => waiter' = r \/ HeldFast(r)'
             /\ \/ pc'[r] \in {"reclosed", "asleep"} /\ queued' > 0
                \/ pc'[r] = "asleep" /\ call'[r] = "channel_read" /\ peerClosed'
                => HeldFast(r)' \/ \E q \in Procs : WillLook(q)'
  BY <1>2, <1>3, <1>4, <1>5, <1>7, ZenonT(30) DEF ReaderInv
<1> QED BY <1>6, <1>7, ZenonT(30) DEF ReaderInv, NotifyPlaces

\* What arrived, arrived with a call that will look at the waiter word.
LEMMA ReaderArrival ==
  ASSUME BaseInv, BaseInv', ReaderInv, NEW p \in Procs, OthersKeep(p),
         UNCHANGED <<waiter, held>>, WillLook(p)', pc'[p] \notin {"recheck", "reclosed", "asleep"},
         held[p] = Nobody
  PROVE  ReaderInv'
<1>1. \A q \in Procs : entries[q] \in Nat /\ entries'[q] \in Nat
  BY ZenonT(30) DEF BaseInv, TypeOK, WakeTypeOK
<1>2. \A r \in Procs : call'[r] \in ReadCalls /\ pc'[r] \in {"recheck", "reclosed", "asleep"} /\ entries'[r] = 0
        => call[r] = call'[r] /\ pc[r] = pc'[r] /\ entries[r] = 0
  BY <1>1, OthersSame, Zenon
<1>4. \A r \in Procs : HeldFast(r)' <=> HeldFast(r)
  BY ZenonT(30) DEF HeldFast
<1>6. \A q \in Procs : held'[q] # Nobody =>
        call'[q] = "channel_write" /\ pc'[q] \in NotifyPlaces \cup {"handover"}
  BY ZenonT(30) DEF ReaderInv, OthersKeep
<1>7. ASSUME NEW r \in Procs, call'[r] \in ReadCalls /\ entries'[r] = 0
      PROVE  /\ pc'[r] \in {"recheck", "reclosed", "asleep"} => waiter' = r \/ HeldFast(r)'
  BY <1>2, <1>4, <1>7, ZenonT(30) DEF ReaderInv
<1> QED BY <1>6, <1>7, ZenonT(30) DEF ReaderInv, NotifyPlaces

\* A step that takes the waiter and enqueues it.
LEMMA ReaderWoken ==
  ASSUME BaseInv, BaseInv', ReaderInv, NEW p \in Procs, OthersKeep(p),
         UNCHANGED held, waiter \in Procs => entries'[waiter] > 0,
         pc'[p] \notin {"recheck", "reclosed", "asleep"}, held[p] = Nobody
  PROVE  ReaderInv'
<1>1. \A q \in Procs : entries[q] \in Nat /\ entries'[q] \in Nat
  BY ZenonT(30) DEF BaseInv, TypeOK, WakeTypeOK
<1>2. \A r \in Procs : call'[r] \in ReadCalls /\ pc'[r] \in {"recheck", "reclosed", "asleep"} /\ entries'[r] = 0
        => call[r] = call'[r] /\ pc[r] = pc'[r] /\ entries[r] = 0 /\ waiter # r
  <2>1. \A n \in Nat : n > 0 => n # 0
    OBVIOUS
  <2> QED BY <1>1, <2>1, OthersSame, ZenonT(30)
<1>4. \A r \in Procs : HeldFast(r)' <=> HeldFast(r)
  BY Zenon DEF HeldFast
<1>6. \A q \in Procs : held'[q] # Nobody =>
        call'[q] = "channel_write" /\ pc'[q] \in NotifyPlaces \cup {"handover"}
  BY Zenon DEF ReaderInv, OthersKeep
<1>7. ASSUME NEW r \in Procs, call'[r] \in ReadCalls /\ entries'[r] = 0
      PROVE  /\ pc'[r] \in {"recheck", "reclosed", "asleep"} => HeldFast(r)'
  BY <1>2, <1>4, <1>7, ZenonT(30) DEF ReaderInv
<1> QED BY <1>6, <1>7, ZenonT(30) DEF ReaderInv, NotifyPlaces

LEMMA ReaderStep ==
  ASSUME BaseInv, BaseInv', Exclusive(ReadCalls), ReaderInv, [Next]_vars
  PROVE  ReaderInv'
<1>w. /\ WakeTypeOK /\ ChannelTypeOK /\ \A q \in Procs : entries[q] \in Nat /\ entries'[q] \in Nat
      /\ queued \in Nat /\ queued <= queued /\ queued - 1 <= queued
      /\ held \in [Procs -> Procs \cup {Nobody}] /\ Nobody \notin Procs
  <2>1. /\ WakeTypeOK /\ ChannelTypeOK /\ \A q \in Procs : entries[q] \in Nat /\ entries'[q] \in Nat
        /\ queued \in Nat /\ held \in [Procs -> Procs \cup {Nobody}] /\ Nobody \notin Procs
    BY WakeupsAssumption, ZenonT(30) DEF BaseInv, TypeOK, WakeTypeOK, ChannelTypeOK
  <2> QED BY <2>1, OneLess, Zenon
<1>1. ASSUME Apart(ChannelCalls), UNCHANGED chanVars PROVE ReaderInv'
  <2>1. UNCHANGED <<queued, peerClosed, waiter, held>>
    BY <1>1, Zenon DEF chanVars, callVars
  <2>2. \A q \in Procs : pc[q] \in ChannelPlaces => pc'[q] = pc[q] /\ call'[q] = call[q]
    BY <1>1, ZenonT(30) DEF BaseInv, Flow, Fits, Apart, Untouched
  <2>3. \A q \in Procs : WillLook(q) => WillLook(q)'
    BY <2>2, ZenonT(30) DEF WillLook, At, ChannelPlaces
  <2>4. \A r \in Procs : call'[r] \in ReadCalls
          => pc'[r] = pc[r] /\ call[r] = call'[r] /\ (entries'[r] = 0 => entries[r] = 0)
    BY <1>1, <1>w DEF Apart, Untouched, ChannelCalls, ReadCalls
  <2>5. \A r \in Procs : HeldFast(r)' <=> HeldFast(r)
    BY <2>1, ZenonT(30) DEF HeldFast
  <2>6. \A q \in Procs : held'[q] # Nobody =>
          call'[q] = "channel_write" /\ pc'[q] \in NotifyPlaces \cup {"handover"}
    BY <2>1, <2>2, Zenon DEF ReaderInv, ChannelPlaces
  <2>7. ASSUME NEW r \in Procs, call'[r] \in ReadCalls /\ entries'[r] = 0
        PROVE  /\ pc'[r] \in {"recheck", "reclosed", "asleep"} => waiter' = r \/ HeldFast(r)'
               /\ \/ pc'[r] \in {"reclosed", "asleep"} /\ queued' > 0
                  \/ pc'[r] = "asleep" /\ call'[r] = "channel_read" /\ peerClosed'
                  => HeldFast(r)' \/ \E q \in Procs : WillLook(q)'
    BY <2>1, <2>3, <2>4, <2>5, <2>7, Zenon DEF ReaderInv
  <2> QED BY <2>6, <2>7, Zenon DEF ReaderInv, NotifyPlaces
<1>2. ASSUME NEW p \in Procs, ChannelStep(p) PROVE ReaderInv'
  <2>k. OthersKeep(p)
    BY <1>2, ChannelOthers, Zenon
  <2>t. \A c, place, woken : Moves(p, c, place, woken)
          => pc'[p] = place /\ call'[p] = (IF place = "user" THEN "none" ELSE c)
    BY <1>w, MovesTo, Zenon
  <2>h. pc[p] \notin NotifyPlaces \cup {"handover"} => held[p] = Nobody
    BY ZenonT(30) DEF ReaderInv
  \* the calls that have nothing to do with the reader
  <2>b. ASSUME UNCHANGED <<peerClosed, waiter, held>>, queued' <= queued, held[p] = Nobody, ~WillLook(p),
               call'[p] \notin ReadCalls \/ pc'[p] \notin {"recheck", "reclosed", "asleep"}
        PROVE  ReaderInv'
    BY <2>k, <2>b, ReaderBystander, Zenon
  \* steps of the process that reads: there is no other
  <2>o. ASSUME may[p] \cap ReadCalls # {}, NEW r \in Procs, call'[r] \in ReadCalls
        PROVE  r = p
    <3>1. CASE r # p
      <4>1. call[r] \in ReadCalls /\ "none" \notin ReadCalls
        BY <2>k, <2>o, <3>1, Zenon DEF OthersKeep, ReadCalls
      <4> QED BY <2>o, <4>1, OnlyOne, ZenonT(30)
    <3> QED BY <3>1, Zenon
  <2>s. ASSUME may[p] \cap ReadCalls # {}, UNCHANGED held, held[p] = Nobody,
               pc'[p] \in {"recheck", "reclosed", "asleep"} /\ entries'[p] = 0 => waiter' = p \/ HeldFast(p)',
               pc'[p] \in {"reclosed", "asleep"} => queued' = 0,
               pc'[p] = "asleep" /\ call'[p] = "channel_read" => ~peerClosed'
        PROVE  ReaderInv'
    <3>1. \A q \in Procs : held'[q] # Nobody =>
            call'[q] = "channel_write" /\ pc'[q] \in NotifyPlaces \cup {"handover"}
      BY <2>k, <2>s, ZenonT(30) DEF ReaderInv, OthersKeep
    <3>2. ASSUME NEW r \in Procs, call'[r] \in ReadCalls /\ entries'[r] = 0
          PROVE  /\ pc'[r] \in {"recheck", "reclosed", "asleep"} => waiter' = r \/ HeldFast(r)'
                 /\ \/ pc'[r] \in {"reclosed", "asleep"} /\ queued' > 0
                    \/ pc'[r] = "asleep" /\ call'[r] = "channel_read" /\ peerClosed'
                    => HeldFast(r)' \/ \E q \in Procs : WillLook(q)'
      <4>1. r = p
        BY <2>o, <2>s, <3>2, Zenon
      <4> QED BY <2>s, <3>2, <4>1
    <3> QED BY <3>1, <3>2, ZenonT(30) DEF ReaderInv, NotifyPlaces
  <2>1. ASSUME NotifySignals(p) \/ NotifyWaiters(p) \/ NotifyPorts(p) \/ QueuePacketWake(p) PROVE ReaderInv'
    <3>1. /\ pc[p] \in NotifyPlaces /\ pc'[p] \in NotifyPlaces \cup {after[p]}
          /\ call'[p] = (IF pc'[p] = "user" THEN "none" ELSE call[p])
          /\ after[p] \in {"user", "retract", "handover"}
          /\ UNCHANGED <<queued, peerClosed, waiter, held>>
      BY <2>1, NotifyFacts, ZenonT(30)
    <3>2. pc'[p] \notin {"recheck", "reclosed", "asleep"} /\ ~WillLook(p)
      BY <3>1, ZenonT(30) DEF NotifyPlaces, WillLook, At
    <3>3. held[p] # Nobody => call'[p] = "channel_write" /\ pc'[p] \in NotifyPlaces \cup {"handover"}
      <4>1. CASE held[p] # Nobody
        <5>1. call[p] = "channel_write" /\ after[p] = "handover"
          BY <3>1, <4>1, ZenonT(30) DEF ReaderInv, BaseInv, Flow, Fits
        <5> QED BY <3>1, <5>1, Zenon DEF NotifyPlaces
      <4> QED BY <4>1, ZenonT(30)
    <3> QED BY <1>w, <2>k, <3>1, <3>2, <3>3, ReaderBystander, ZenonT(30)
  <2>2. ASSUME NEW c \in ReadCalls, NEW fits \in BOOLEAN, Read(p, c, fits) PROVE ReaderInv'
    <3>1. UNCHANGED held /\ pc[p] \in {"user", "asleep"} /\ may[p] \cap ReadCalls # {}
      BY <2>2, ZenonT(30) DEF Read, Enters, BaseInv, Allowed, ReadCalls
    <3>2. pc'[p] \in {"user", "notify", "closed", "register"}
      BY <2>2, <2>t, ZenonT(30) DEF Read, PopOr
    <3> QED BY <2>h, <2>s, <3>1, <3>2, ZenonT(30) DEF NotifyPlaces
  <2>3. ASSUME ReadClosed(p) \/ ReadRetract(p) PROVE ReaderInv'
    <3>1. /\ UNCHANGED held /\ pc[p] \in {"closed", "retract"} /\ may[p] \cap ReadCalls # {}
      BY <2>3, Zenon DEF ReadClosed, ReadRetract, At, BaseInv, Allowed, chanVars, callVars, ReadCalls
    <3>2. pc'[p] \in {"user", "register"}
      BY <2>3, <2>t, ZenonT(30) DEF ReadClosed, ReadRetract, Goes
    <3> QED BY <2>h, <2>s, <3>1, <3>2, ZenonT(30) DEF NotifyPlaces
  <2>4. ASSUME ReadRegister(p) PROVE ReaderInv'
    <3>1. /\ UNCHANGED held /\ pc[p] = "register" /\ may[p] \cap ReadCalls # {} /\ waiter' = p
      BY <2>4, Zenon DEF ReadRegister, At, BaseInv, Allowed, callVars, ReadCalls
    <3>2. pc'[p] = "recheck"
      BY <2>4, <2>t, Zenon DEF ReadRegister, Goes
    <3> QED BY <2>h, <2>s, <3>1, <3>2, ZenonT(30) DEF NotifyPlaces
  <2>5. ASSUME NEW fits \in BOOLEAN, ReadRecheck(p, fits) PROVE ReaderInv'
    <3>1. /\ UNCHANGED <<held, waiter>> /\ pc[p] = "recheck" /\ call[p] \in ReadCalls /\ may[p] \cap ReadCalls # {}
      BY <2>5, ZenonT(30) DEF ReadRecheck, At, BaseInv, Allowed, ReadCalls
    <3>2. held[p] = Nobody
      BY <2>h, <3>1, Zenon DEF NotifyPlaces
    <3>3. CASE queued > 0
      <4>1. pc'[p] \in {"retract", "notify"}
        BY <2>5, <2>t, <3>3, ZenonT(30) DEF ReadRecheck, PopOr
      <4> QED BY <2>s, <3>1, <3>2, <4>1, ZenonT(30)
    <3>4. CASE ~(queued > 0)
      <4>1. queued' = 0
        <5>1. queued' = queued
          BY <2>5, <3>4, ZenonT(30) DEF ReadRecheck
        <5> QED BY <1>w, <3>4, <5>1, OneLess, Zenon
      <4>2. PICK place \in {"reclosed", "asleep"} :
              /\ Moves(p, call[p], place, WakesNobody)
              /\ place = "asleep" => call[p] # "channel_read"
        BY <2>5, <3>4, Zenon DEF ReadRecheck, BlockReading, Goes
      <4>3. pc'[p] = place /\ call'[p] = call[p] /\ entries'[p] = entries[p]
        BY <1>w, <3>1, <4>2, MovesQuietly, ZenonT(30)
      <4>4. HeldFast(p)' <=> HeldFast(p)
        BY <3>1, ZenonT(30) DEF HeldFast
      <4>5. entries'[p] = 0 => waiter' = p \/ HeldFast(p)'
        BY <3>1, <4>3, <4>4, Zenon DEF ReaderInv
      <4> QED BY <2>s, <3>1, <3>2, <4>1, <4>2, <4>3, <4>5, ZenonT(30)
    <3> QED BY <3>3, <3>4, Zenon
  <2>6. ASSUME ReadReclosed(p) PROVE ReaderInv'
    <3>1. /\ UNCHANGED <<held, waiter, queued, peerClosed>> /\ pc[p] = "reclosed"
          /\ call[p] \in ReadCalls /\ may[p] \cap ReadCalls # {}
      BY <2>6, ZenonT(30) DEF ReadReclosed, At, BaseInv, Allowed, callVars, ReadCalls
    <3>2. held[p] = Nobody
      BY <2>h, <3>1, Zenon DEF NotifyPlaces
    <3>3. CASE peerClosed
      <4>1. pc'[p] = "retract"
        BY <2>6, <2>t, <3>3, ZenonT(30) DEF ReadReclosed, Goes
      <4> QED BY <2>s, <3>1, <3>2, <4>1, ZenonT(30)
    <3>4. CASE ~peerClosed
      <4>1. Moves(p, call[p], "asleep", WakesNobody)
        BY <2>6, <3>4, Zenon DEF ReadReclosed, BlockReading, Goes
      <4>2. pc'[p] = "asleep" /\ call'[p] = call[p] /\ entries'[p] = entries[p]
        BY <1>w, <3>1, <4>1, MovesQuietly, ZenonT(30)
      <4>3. \A r \in Procs : HeldFast(r)' <=> HeldFast(r)
        BY <3>1, ZenonT(30) DEF HeldFast
      <4>4. \A q \in Procs : WillLook(q) => WillLook(q)'
        BY <2>k, <3>1, Zenon DEF WillLook, At, OthersKeep
      <4>5. \A q \in Procs : held'[q] # Nobody =>
              call'[q] = "channel_write" /\ pc'[q] \in NotifyPlaces \cup {"handover"}
        BY <2>k, <3>1, <3>2, Zenon DEF ReaderInv, OthersKeep
      <4>6. ASSUME NEW r \in Procs, call'[r] \in ReadCalls /\ entries'[r] = 0
            PROVE  /\ pc'[r] \in {"recheck", "reclosed", "asleep"} => waiter' = r \/ HeldFast(r)'
                   /\ \/ pc'[r] \in {"reclosed", "asleep"} /\ queued' > 0
                      \/ pc'[r] = "asleep" /\ call'[r] = "channel_read" /\ peerClosed'
                      => HeldFast(r)' \/ \E q \in Procs : WillLook(q)'
        <5>1. r = p
          BY <2>o, <3>1, <4>6, Zenon
        <5> QED BY <3>1, <3>4, <4>2, <4>3, <4>4, <4>6, <5>1, ZenonT(30) DEF ReaderInv
      <4> QED BY <4>5, <4>6, Zenon DEF ReaderInv, NotifyPlaces
    <3> QED BY <3>3, <3>4, Zenon
  <2>7. ASSUME NEW c \in {"write", "channel_write"}, Write(p, c) PROVE ReaderInv'
    <3>1. UNCHANGED <<peerClosed, waiter, held>> /\ pc[p] \in {"user", "asleep"}
      BY <2>7, ZenonT(30) DEF Write, callVars, Enters
    <3>2. held[p] = Nobody
      BY <2>h, <3>1, Zenon DEF NotifyPlaces
    <3>3. CASE PeerAlive
      <4>1. WillLook(p)' /\ pc'[p] \notin {"recheck", "reclosed", "asleep"}
        BY <2>7, <2>t, <3>3 DEF Write, WillLook, At
      <4> QED BY <2>k, <3>1, <3>2, <4>1, ReaderArrival, ZenonT(30)
    <3>4. CASE ~PeerAlive
      <4>1. queued' <= queued /\ call'[p] = "none"
        BY <1>w, <2>7, <2>t, <3>4, ZenonT(30) DEF Write
      <4>2. ~WillLook(p)
        BY <3>1, Zenon DEF WillLook, At
      <4> QED BY <2>b, <3>1, <3>2, <4>1, <4>2, ZenonT(30) DEF ReadCalls
    <3> QED BY <3>3, <3>4, Zenon
  <2>8. ASSUME WriteWake(p) \/ DropWake(p) PROVE ReaderInv'
    <3>1. PICK place \in {"epoll", "drop_signals"} : Moves(p, call[p], place, Wakes(waiter))
      BY <2>8, ZenonT(30) DEF WriteWake, DropWake, GoesWaking
    <3>2. UNCHANGED held /\ pc[p] \in {"wake", "drop_wake"}
      BY <2>8, Zenon DEF WriteWake, DropWake, callVars, At
    <3>3. (waiter \in Procs => entries'[waiter] > 0) /\ pc'[p] = place
      BY <1>w, <3>1, <3>2, MovesWaking, ZenonT(30)
    <3> QED BY <2>h, <2>k, <3>2, <3>3, ReaderWoken, ZenonT(30) DEF NotifyPlaces
  <2>9. ASSUME WriteEpoll(p) PROVE ReaderInv'
    <3>1. UNCHANGED <<queued, peerClosed, waiter, held>> /\ pc[p] = "epoll" /\ call[p] \in {"write", "channel_write"}
      BY <2>9, ZenonT(30) DEF WriteEpoll, At
    <3>2. held[p] = Nobody
      BY <2>h, <3>1, ZenonT(30) DEF NotifyPlaces
    <3>3. CASE call[p] = "write"
      <4>1. pc'[p] = "notify" /\ ~WillLook(p)
        BY <2>9, <2>t, <3>3, ZenonT(30) DEF WriteEpoll, WakeEpollWaiters, GoesWaking, Goes, WillLook, At
      <4> QED BY <1>w, <2>b, <3>1, <3>2, <4>1, Zenon
    <3>4. CASE call[p] # "write"
      <4>1. pc'[p] = "take"
        BY <2>9, <2>t, <3>4, ZenonT(30) DEF WriteEpoll, WakeEpollWaiters, GoesWaking, Goes
      <4> QED BY <2>k, <3>1, <3>2, <4>1, ReaderArrival, ZenonT(30) DEF WillLook
    <3> QED BY <3>3, <3>4, Zenon
  <2>10. ASSUME WriteTake(p) PROVE ReaderInv'
    <3>1. /\ call[p] = "channel_write" /\ pc[p] = "take" /\ held' = [held EXCEPT ![p] = waiter]
      BY <2>10, Zenon DEF WriteTake, At
    <3>2. pc'[p] = "notify" /\ call'[p] = "channel_write"
      BY <2>10, <2>t, <3>1, ZenonT(30) DEF WriteTake, Goes
    <3>3. held[p] = Nobody
      BY <2>h, <3>1, ZenonT(30) DEF NotifyPlaces
    <3>4. \A r \in Procs : HeldFast(r) \/ waiter = r => HeldFast(r)'
      BY <1>w, <3>1, <3>3, Zenon DEF HeldFast
    <3>5. \A q \in Procs : held'[q] # Nobody =>
            call'[q] = "channel_write" /\ pc'[q] \in NotifyPlaces \cup {"handover"}
      BY <1>w, <2>k, <3>1, <3>2, ZenonT(30) DEF ReaderInv, OthersKeep, NotifyPlaces
    <3>6. ASSUME NEW r \in Procs, call'[r] \in ReadCalls /\ entries'[r] = 0,
                 pc'[r] \in {"recheck", "reclosed", "asleep"}
          PROVE  HeldFast(r)'
      <4>1. call[r] = call'[r] /\ pc[r] = pc'[r] /\ entries[r] = 0
        BY <1>w, <2>k, <3>2, <3>6, OthersSame, ZenonT(30)
      <4> QED BY <3>4, <3>6, <4>1, ZenonT(30) DEF ReaderInv
    <3> QED BY <3>5, <3>6, ZenonT(30) DEF ReaderInv, NotifyPlaces
  <2>11. ASSUME WriteHandover(p) PROVE ReaderInv'
    <3>1. /\ call[p] = "channel_write" /\ pc[p] = "handover" /\ held' = [held EXCEPT ![p] = Nobody]
          /\ UNCHANGED <<queued, peerClosed, waiter>>
      BY <2>11, ZenonT(30) DEF WriteHandover, At
    <3>2. pc'[p] \in {"user", "yield"}
      BY <2>11, <2>t, ZenonT(30) DEF WriteHandover, Goes
    <3>3. held[p] \in Procs => entries'[held[p]] > 0
      <4>1. CASE held[p] \in Procs
        <5>1. Moves(p, call[p], "yield", [r \in Procs |-> Wakes(p)[r] + Wakes(held[p])[r]])
          BY <1>w, <2>11, <4>1, ZenonT(30) DEF WriteHandover
        <5>2. [r \in Procs |-> Wakes(p)[r] + Wakes(held[p])[r]] \in [Procs -> Nat]
          BY DEF Wakes
        <5>3. PICK woken \in [Procs -> Nat] :
                /\ woken = [r \in Procs |-> Wakes(p)[r] + Wakes(held[p])[r]]
                /\ Moves(p, call[p], "yield", woken)
          BY <5>1, <5>2, Zenon
        <5>4. Enqueues(p, woken)
          BY <1>w, <5>3, MovesEnqueues, ZenonT(30)
        <5>5. entries'[held[p]] = entries[held[p]] + woken[held[p]]
          BY <3>1, <4>1, <5>4, Zenon DEF Enqueues
        <5>6. woken[held[p]] > 0
          BY <4>1, <5>3 DEF Wakes
        <5> QED BY <1>w, <4>1, <5>5, <5>6
      <4> QED BY <4>1, ZenonT(30)
    <3>4. \A r \in Procs : entries'[r] = 0 /\ HeldFast(r) => HeldFast(r)'
      BY <1>w, <3>1, <3>3 DEF HeldFast
    <3>5. \A q \in Procs : held'[q] # Nobody =>
            call'[q] = "channel_write" /\ pc'[q] \in NotifyPlaces \cup {"handover"}
      BY <1>w, <2>k, <3>1, ZenonT(30) DEF ReaderInv, OthersKeep
    <3>6. \A q \in Procs : WillLook(q) => WillLook(q)'
      BY <2>k, <3>1, Zenon DEF WillLook, At, OthersKeep
    <3>7. ASSUME NEW r \in Procs, call'[r] \in ReadCalls /\ entries'[r] = 0
          PROVE  /\ pc'[r] \in {"recheck", "reclosed", "asleep"} => waiter' = r \/ HeldFast(r)'
                 /\ \/ pc'[r] \in {"reclosed", "asleep"} /\ queued' > 0
                    \/ pc'[r] = "asleep" /\ call'[r] = "channel_read" /\ peerClosed'
                    => HeldFast(r)' \/ \E q \in Procs : WillLook(q)'
      <4>1. CASE r = p
        BY <3>2, <4>1, Zenon
      <4>2. CASE r # p
        <5>1. call[r] = call'[r] /\ pc[r] = pc'[r] /\ entries[r] = 0
          BY <1>w, <2>k, <3>7, <4>2, OthersSame, Zenon
        <5> QED BY <3>1, <3>4, <3>6, <3>7, <5>1, ZenonT(30) DEF ReaderInv
      <4> QED BY <4>1, <4>2, ZenonT(30)
    <3> QED BY <3>5, <3>7, Zenon DEF ReaderInv, NotifyPlaces
  <2>12. ASSUME DropFlag(p) PROVE ReaderInv'
    <3>1. UNCHANGED <<waiter, held>> /\ pc[p] = "drop"
      BY <2>12, ZenonT(30) DEF DropFlag, At, callVars
    <3>2. pc'[p] = "drop_wake"
      BY <2>12, <2>t, ZenonT(30) DEF DropFlag, Goes
    <3>3. held[p] = Nobody
      BY <2>h, <3>1, ZenonT(30) DEF NotifyPlaces
    <3> QED BY <2>k, <3>1, <3>2, <3>3, ReaderArrival, Zenon DEF WillLook
  <2>13. ASSUME Poll(p) \/ CloseWrite(p) \/ CloseRead(p) \/ PortWait(p) \/ PortQueue(p) \/ PortBind(p) PROVE ReaderInv'
    <3>1. /\ UNCHANGED <<peerClosed, waiter, held>> /\ queued' <= queued /\ pc[p] \in {"user", "asleep"}
      BY <1>w, <2>13, ZenonT(30) DEF Poll, CloseWrite, CloseRead, PortWait, PortQueue, PortBind, Enters, callVars
    <3>2. \E c \in {"poll", "close_write", "close_read", "port_wait", "port_queue", "port_bind"} : \E place :
            Moves(p, c, place, WakesNobody)
      BY <2>13, ZenonT(30) DEF Poll, CloseWrite, CloseRead, PortWait, PortQueue, PortBind
    <3>3. call'[p] \notin ReadCalls
      BY <2>t, <3>2, ZenonT(30) DEF ReadCalls
    <3>4. held[p] = Nobody /\ ~WillLook(p)
      BY <2>h, <3>1, ZenonT(30) DEF NotifyPlaces, WillLook, At
    <3> QED BY <2>b, <3>1, <3>3, <3>4, ZenonT(30)
  <2>14. ASSUME DropSignals(p) \/ WaitRegister(p) \/ WaitAgain(p) \/ WaitRetract(p) PROVE ReaderInv'
    <3>1. /\ UNCHANGED <<peerClosed, waiter, held, queued>> /\ call[p] \notin ReadCalls
          /\ pc[p] \in {"drop_signals", "wait", "wait_again", "wait_retract"}
      BY <2>14, Zenon DEF DropSignals, WaitRegister, WaitAgain, WaitRetract, At, callVars, chanVars, ReadCalls, WaitCalls
    <3>2. \E place, woken : Moves(p, call[p], place, woken)
      BY <2>14, Zenon DEF DropSignals, WaitRegister, WaitAgain, WaitRetract, Goes
    <3>3. call'[p] \notin ReadCalls
      BY <2>t, <3>1, <3>2, ZenonT(30) DEF ReadCalls
    <3>4. held[p] = Nobody /\ ~WillLook(p)
      BY <2>h, <3>1, ZenonT(30) DEF NotifyPlaces, WillLook, At
    <3> QED BY <1>w, <2>b, <3>1, <3>3, <3>4, ZenonT(30)
  <2>15. ASSUME WriterResumes(p) PROVE ReaderInv'
    <3>1. UNCHANGED <<peerClosed, waiter, held, queued>> /\ pc'[p] = "user" /\ pc[p] = "yield"
      BY <1>w, <2>15, Zenon DEF WriterResumes, Resumes, chanVars, callVars, WakeTypeOK
    <3>2. held[p] = Nobody /\ ~WillLook(p)
      BY <2>h, <3>1, ZenonT(30) DEF NotifyPlaces, WillLook, At
    <3> QED BY <1>w, <2>b, <3>1, <3>2, ZenonT(30)
  <2>16. ASSUME NEW c \in WaitCalls, WaitOne(p, c) PROVE ReaderInv'
    <3>1. UNCHANGED <<peerClosed, waiter, held, queued>> /\ pc[p] \in {"user", "asleep"}
      BY <2>16, ZenonT(30) DEF WaitOne, Enters, chanVars, callVars
    <3>2. pc'[p] \in {"user", "wait"}
      BY <2>16, <2>t, ZenonT(30) DEF WaitOne
    <3>3. held[p] = Nobody /\ ~WillLook(p)
      BY <2>h, <3>1, Zenon DEF NotifyPlaces, WillLook, At
    <3> QED BY <1>w, <2>b, <3>1, <3>2, <3>3, ZenonT(30)
  <2>17. ASSUME PortRegister(p) \/ PortRecheck(p) \/ PortRetract(p) \/ PortEvaluate(p) PROVE ReaderInv'
    <3>1. /\ UNCHANGED <<peerClosed, waiter, held, queued>> /\ call[p] \in {"port_wait", "port_bind"}
          /\ pc[p] \in {"register", "recheck", "retract", "evaluate"}
      BY <2>17, Zenon DEF PortRegister, PortRecheck, PortRetract, PortEvaluate, At, callVars
    <3>2. \E place : Moves(p, call[p], place, WakesNobody)
      BY <2>17, Zenon DEF PortRegister, PortRecheck, PortRetract, PortEvaluate, Goes
    <3>3. call'[p] \notin ReadCalls
      BY <2>t, <3>1, <3>2, ZenonT(30) DEF ReadCalls
    <3>4. held[p] = Nobody /\ ~WillLook(p)
      BY <2>h, <3>1, Zenon DEF NotifyPlaces, WillLook, At
    <3> QED BY <1>w, <2>b, <3>1, <3>3, <3>4, ZenonT(30)
  <2> QED BY <1>2, <2>1, <2>2, <2>3, <2>4, <2>5, <2>6, <2>7, <2>8, <2>9, <2>10, <2>11, <2>12, <2>13, <2>14,
    <2>15, <2>16, <2>17, ZenonT(30) DEF ChannelStep
<1> QED BY <1>1, <1>2, StepComponents, Zenon DEF Components

\* With at most one process that reads the channel and at most one that waits
\* on the port (the waiter words of ChannelEndpoint and Port hold one pid
\* each, and a second would overwrite the first), no process blocked on a
\* channel, a port or a channel's signals is left behind: registering and
\* then looking again, as sys_channel_read, sys_read, sys_port_wait and
\* sys_object_wait_one do, makes up for the lock they do not share with
\* write, write_fast, Drop, notify_signals and queue_packet.  Any number of
\* processes may wait for the signals.
THEOREM ChannelWaitersAreWoken ==
  ASSUME Exclusive(ReadCalls), Exclusive({"port_wait"})
  PROVE  Spec => []NoChannelWaiterStranded
<1> DEFINE IInv == ReaderInv /\ PortInv /\ SignalInv
<1>1. Init => IInv
  <2> SUFFICES ASSUME Init PROVE IInv
    BY Zenon
  <2>1. \A p \in Procs : pc[p] = "user" /\ call[p] = "none" /\ held[p] = Nobody
    BY Zenon DEF Init, WakeInit, ChannelInit
  <2> QED BY <2>1, Zenon DEF ReaderInv, PortInv, SignalInv, SignalWaiterNotStranded, Sleeps, At, ReadCalls, WaitCalls
<1>2. BaseInv /\ BaseInv' /\ IInv /\ [Next]_vars => IInv'
  BY ReaderStep, PortStep, SignalStep, ZenonT(30)
<1>3. IInv => NoChannelWaiterStranded
  <2> SUFFICES ASSUME IInv PROVE NoChannelWaiterStranded
    BY Zenon
  <2>1. ReaderNotStranded
    <3> SUFFICES ASSUME NEW p \in Procs, Sleeps(p, ReadCalls),
                        queued > 0 \/ (peerClosed /\ call[p] = "channel_read")
                 PROVE  \E q \in Procs :
                          \/ held[q] = p
                          \/ waiter = p /\ pc[q] \in {"wake", "epoll", "take", "drop_wake"}
      BY Zenon DEF ReaderNotStranded
    <3>1. /\ call[p] \in ReadCalls /\ entries[p] = 0 /\ pc[p] = "asleep"
      BY Zenon DEF Sleeps, At
    <3>2. waiter = p \/ HeldFast(p)
      BY <3>1, ZenonT(30) DEF ReaderInv
    <3>3. HeldFast(p) \/ \E q \in Procs : WillLook(q)
      BY <3>1, ZenonT(30) DEF ReaderInv
    <3> QED BY <3>2, <3>3, ZenonT(30) DEF HeldFast, WillLook, At
  <2>2. PortWaiterNotStranded
    BY Zenon DEF PortInv, PortWaiterNotStranded, Sleeps, At
  <2> QED BY <2>1, <2>2, Zenon DEF NoChannelWaiterStranded, SignalInv
<1> QED BY <1>1, <1>2, <1>3, BaseHolds, PTL DEF Spec
=============================================================================
