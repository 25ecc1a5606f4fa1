------------------------------ MODULE Channel ------------------------------
(***************************************************************************)
(* One direction of a channel: the messages written to one endpoint and    *)
(* read from its peer, with everything that waits on the reading endpoint: *)
(* the blocked reader, the sys_object_wait_one waiters, a bound port and   *)
(* the process waiting on that port.                                       *)
(* src/src/ipc/channel.rs, src/src/ipc/port.rs, the channel and port calls *)
(* of src/src/syscall/ipc.rs, and sys_read, sys_write and sys_poll on a    *)
(* channel (src/src/syscall/fs.rs).                                        *)
(*                                                                         *)
(* Only the locks make steps atomic: the queue lock, the lists' locks, and *)
(* each access to the waiter word.                                         *)
(***************************************************************************)
EXTENDS Epoll

CONSTANTS Trigger   \* the signals a port is bound to

ReadCalls == {"channel_read", "read"}
WaitCalls == {"wait_readable", "wait_closed"}
WaitMask(c) == IF c = "wait_readable" THEN {"readable"} ELSE {"closed"}

VARIABLES
  queued,      \* messages in the queue of the reading endpoint
  peerClosed,  \* its peer_closed flag
  waiter,      \* its waiter word
  sigWaiters,  \* signal_waiters: its entries for each process and mask
  bound,       \* a port observes it
  portq,       \* packets queued in the port
  portWaiter,  \* the waiter word of the port
  writers,     \* processes with a handle of the writing endpoint
  readers,     \* processes with a handle of the reading endpoint
  leaked,      \* endpoints kept alive by a call that never returned
  sig,         \* the signals notify_signals was called with
  held,        \* the waiter taken by write_fast, not yet enqueued
  after        \* where a call goes on after notify_signals

portVars == <<bound, portq, portWaiter>>
refVars  == <<writers, readers, leaked>>
callVars == <<sig, held, after>>
chanVars == <<queued, peerClosed, waiter, sigWaiters, portVars, refVars, callVars>>

ChannelInit ==
  /\ queued = 0 /\ peerClosed = FALSE /\ waiter = Nobody
  /\ sigWaiters = [p \in Procs |-> [c \in WaitCalls |-> 0]]
  /\ bound = FALSE /\ portq = 0 /\ portWaiter = Nobody
  /\ writers = {p \in Procs : may[p] \cap {"write", "channel_write"} # {}}
  /\ readers = {p \in Procs : may[p] \cap ReadCalls # {}}
  /\ leaked = {}
  /\ sig = [p \in Procs |-> {}]
  /\ held = [p \in Procs |-> Nobody]
  /\ after = [p \in Procs |-> "user"]

ChannelTypeOK ==
  /\ queued \in Nat /\ portq \in Nat
  /\ peerClosed \in BOOLEAN /\ bound \in BOOLEAN
  /\ waiter \in Procs \cup {Nobody} /\ portWaiter \in Procs \cup {Nobody}
  /\ held \in [Procs -> Procs \cup {Nobody}]
  /\ sig \in [Procs -> SUBSET {"readable", "writable", "closed"}]
  /\ sigWaiters \in [Procs -> [WaitCalls -> Nat]]
  /\ after \in [Procs -> {"user", "retract", "handover"}]
  /\ writers \subseteq Procs /\ readers \subseteq Procs
  /\ leaked \subseteq {"reading", "writing"}

\* get_signals
Signals ==
  (IF queued > 0 THEN {"readable"} ELSE {})
    \cup (IF peerClosed THEN {"closed"} ELSE {"writable"})

\* The reading endpoint still exists: the writer's Weak upgrades.
PeerAlive == readers # {} \/ "reading" \in leaked

-----------------------------------------------------------------------------
(* notify_signals and queue_packet, called at the end of several operations *)

ThenNotify(p, place) == after' = [after EXCEPT ![p] = place]

NotifySignals(p) ==
  /\ pc[p] = "notify"
  /\ sig' = [sig EXCEPT ![p] = Signals]
  /\ Goes(p, "notify_waiters")
  /\ UNCHANGED <<queued, peerClosed, waiter, sigWaiters, portVars, refVars,
                 held, after>>

\* Each entry with a mask of cs is one call of enqueue.
WakesWaiters(cs) ==
  [r \in Procs |-> (IF "wait_readable" \in cs THEN sigWaiters[r]["wait_readable"] ELSE 0)
                     + (IF "wait_closed" \in cs THEN sigWaiters[r]["wait_closed"] ELSE 0)]

NotifyWaiters(p) ==
  /\ pc[p] = "notify_waiters"
  /\ LET told == {c \in WaitCalls : WaitMask(c) \cap sig[p] # {}}
     IN /\ Moves(p, call[p], "notify_ports", WakesWaiters(told))
        /\ sigWaiters' = [r \in Procs |-> [c \in WaitCalls |-> IF c \in told THEN 0 ELSE sigWaiters[r][c]]]
  /\ UNCHANGED <<queued, peerClosed, waiter, portVars, refVars, callVars>>

NotifyPorts(p) ==
  /\ pc[p] = "notify_ports"
  /\ IF bound /\ sig[p] \cap Trigger # {}
     THEN portq' = portq + 1 /\ Goes(p, "port_wake")
     ELSE UNCHANGED portq /\ Goes(p, after[p])
  /\ sig' = [sig EXCEPT ![p] = {}]
  /\ UNCHANGED <<queued, peerClosed, waiter, sigWaiters, bound, portWaiter,
                 refVars, held, after>>

\* queue_packet, after the push: take the port's waiter and enqueue it.
QueuePacketWake(p) ==
  /\ pc[p] = "port_wake"
  /\ GoesWaking(p, after[p], portWaiter)
  /\ portWaiter' = Nobody
  /\ UNCHANGED <<queued, peerClosed, waiter, sigWaiters, bound, portq,
                 refVars, callVars>>

-----------------------------------------------------------------------------
(* Reading: sys_channel_read, sys_read, sys_poll *)

\* The queue is not empty: a message that does not fit stays (channel_read),
\* otherwise it is popped and the signals are notified before going on.
PopOr(p, c, fits, onMisfit, place) ==
  IF c = "channel_read" /\ ~fits
  THEN /\ Moves(p, c, onMisfit, WakesNobody)
       /\ UNCHANGED <<queued, after>>
  ELSE /\ queued' = queued - 1
       /\ Moves(p, c, "notify", WakesNobody)
       /\ ThenNotify(p, place)

Read(p, c, fits) ==
  /\ c \in ReadCalls /\ Enters(p, c) /\ p \in readers
  /\ IF queued > 0
     THEN PopOr(p, c, fits, "user", "user")
     ELSE /\ Moves(p, c, IF c = "channel_read" THEN "closed" ELSE "register", WakesNobody)
          /\ UNCHANGED <<queued, after>>
  /\ UNCHANGED <<peerClosed, waiter, sigWaiters, portVars, refVars, sig,
                 held>>

ReadClosed(p) ==
  /\ At(p, ReadCalls, "closed")
  /\ Goes(p, IF peerClosed THEN "user" ELSE "register")
  /\ UNCHANGED chanVars

ReadRegister(p) ==
  /\ At(p, ReadCalls, "register")
  /\ waiter' = p
  /\ Goes(p, "recheck")
  /\ UNCHANGED <<queued, peerClosed, sigWaiters, portVars, refVars,
                 callVars>>

\* Blocking leaves the call's reference to the endpoint on a stack that is
\* never unwound.
BlockReading(p) ==
  /\ Goes(p, "asleep")
  /\ leaked' = leaked \cup {"reading"}

ReadRecheck(p, fits) ==
  /\ At(p, ReadCalls, "recheck")
  /\ IF queued > 0
     THEN PopOr(p, call[p], fits, "retract", "retract") /\ UNCHANGED leaked
     ELSE /\ UNCHANGED <<queued, after>>
          /\ IF call[p] = "channel_read"
             THEN Goes(p, "reclosed") /\ UNCHANGED leaked
             ELSE BlockReading(p)
  /\ UNCHANGED <<peerClosed, waiter, sigWaiters, portVars, writers,
                 readers, sig, held>>

ReadReclosed(p) ==
  /\ At(p, ReadCalls, "reclosed")
  /\ IF peerClosed
     THEN Goes(p, "retract") /\ UNCHANGED leaked
     ELSE BlockReading(p)
  /\ UNCHANGED <<queued, peerClosed, waiter, sigWaiters, portVars, writers,
                 readers, callVars>>

ReadRetract(p) ==
  /\ At(p, ReadCalls, "retract")
  /\ waiter' = Nobody
  /\ Goes(p, "user")
  /\ UNCHANGED <<queued, peerClosed, sigWaiters, portVars, refVars,
                 callVars>>

\* sys_poll asks for readability by receiving: the message is gone.
Poll(p) ==
  /\ Enters(p, "poll") /\ queued > 0
  /\ queued' = queued - 1
  /\ Moves(p, "poll", "notify", WakesNobody)
  /\ ThenNotify(p, "user")
  /\ UNCHANGED <<peerClosed, waiter, sigWaiters, portVars, refVars, sig,
                 held>>

-----------------------------------------------------------------------------
(* Writing: sys_write (ChannelEndpoint::write), sys_channel_write *)
(* (write_fast)                                                             *)

Write(p, c) ==
  /\ c \in {"write", "channel_write"} /\ Enters(p, c) /\ p \in writers
  /\ IF PeerAlive
     THEN /\ queued' = queued + 1
          /\ Moves(p, c, IF c = "write" THEN "wake" ELSE "epoll", WakesNobody)
     ELSE UNCHANGED queued /\ Moves(p, c, "user", WakesNobody)
  /\ UNCHANGED <<peerClosed, waiter, sigWaiters, portVars, refVars, callVars>>

\* write: take the waiter and enqueue it.
WriteWake(p) ==
  /\ At(p, {"write"}, "wake")
  /\ GoesWaking(p, "epoll", waiter)
  /\ waiter' = Nobody
  /\ UNCHANGED <<queued, peerClosed, sigWaiters, portVars, refVars, callVars>>

\* write_fast: take the waiter, to hand it the hart once all are notified.
WriteTake(p) ==
  /\ At(p, {"channel_write"}, "take")
  /\ held' = [held EXCEPT ![p] = waiter]
  /\ waiter' = Nobody
  /\ ThenNotify(p, "handover")
  /\ Goes(p, "notify")
  /\ UNCHANGED <<queued, peerClosed, sigWaiters, portVars, refVars, sig>>

\* wake_epoll_waiters, second in write and first in write_fast
WriteEpoll(p) ==
  /\ At(p, {"write", "channel_write"}, "epoll")
  /\ IF call[p] = "write"
     THEN ThenNotify(p, "user") /\ WakeEpollWaiters(p, "channel", "notify")
     ELSE UNCHANGED after /\ WakeEpollWaiters(p, "channel", "take")
  /\ UNCHANGED <<queued, peerClosed, waiter, sigWaiters, portVars, refVars, sig, held>>

\* With a waiter, the writer enqueues itself and it, and gives up the hart
\* from inside the call: its reference to its endpoint is never dropped.
WriteHandover(p) ==
  /\ At(p, {"channel_write"}, "handover")
  /\ held' = [held EXCEPT ![p] = Nobody]
  /\ IF held[p] = Nobody
     THEN Goes(p, "user") /\ UNCHANGED leaked
     ELSE /\ Moves(p, call[p], "yield", [r \in Procs |-> Wakes(p)[r] + Wakes(held[p])[r]])
          /\ leaked' = leaked \cup {"writing"}
  /\ UNCHANGED <<queued, peerClosed, waiter, sigWaiters, portVars,
                 writers, readers, sig, after>>

WriterResumes(p) == Resumes(p) /\ UNCHANGED chanVars

-----------------------------------------------------------------------------
(* Closing: sys_close of a handle, and Drop of the writing endpoint *)

CloseWrite(p) ==
  /\ Enters(p, "close_write") /\ p \in writers
  /\ writers' = writers \ {p}
  /\ Moves(p, "close_write",
           IF writers = {p} /\ "writing" \notin leaked /\ PeerAlive THEN "drop" ELSE "user",
           WakesNobody)
  /\ UNCHANGED <<queued, peerClosed, waiter, sigWaiters, portVars,
                 readers, leaked, callVars>>

\* The other direction is not modelled: the reading endpoint just goes.
CloseRead(p) ==
  /\ Enters(p, "close_read") /\ p \in readers
  /\ readers' = readers \ {p}
  /\ Moves(p, "close_read", "user", WakesNobody)
  /\ UNCHANGED <<queued, peerClosed, waiter, sigWaiters, portVars,
                 writers, leaked, callVars>>

DropFlag(p) ==
  /\ At(p, {"close_write"}, "drop")
  /\ peerClosed' = TRUE
  /\ Goes(p, "drop_wake")
  /\ UNCHANGED <<queued, waiter, sigWaiters, portVars, refVars, callVars>>

\* Faulty variant: Drop sets the flag and forgets the blocked reader.
DropWakeMissing(p) ==
  /\ At(p, {"close_write"}, "drop_wake")
  /\ Goes(p, "drop_signals")
  /\ UNCHANGED chanVars

DropWake(p) ==
  /\ At(p, {"close_write"}, "drop_wake")
  /\ GoesWaking(p, "drop_signals", waiter)
  /\ waiter' = Nobody
  /\ UNCHANGED <<queued, peerClosed, sigWaiters, portVars, refVars, callVars>>

\* Every wait_one waiter is woken, whatever it waits for.
DropSignals(p) ==
  /\ At(p, {"close_write"}, "drop_signals")
  /\ Moves(p, call[p], "notify", WakesWaiters(WaitCalls))
  /\ sigWaiters' = [r \in Procs |-> [c \in WaitCalls |-> 0]]
  /\ ThenNotify(p, "user")
  /\ UNCHANGED <<queued, peerClosed, waiter, portVars, refVars, sig, held>>

-----------------------------------------------------------------------------
(* sys_object_wait_one *)

WaitOne(p, c) ==
  /\ c \in WaitCalls /\ Enters(p, c)
  /\ Moves(p, c, IF Signals \cap WaitMask(c) # {} THEN "user" ELSE "wait", WakesNobody)
  /\ UNCHANGED chanVars

WaitRegister(p) ==
  /\ At(p, WaitCalls, "wait")
  /\ sigWaiters' = [sigWaiters EXCEPT ![p][call[p]] = @ + 1]
  /\ Goes(p, "wait_again")
  /\ UNCHANGED <<queued, peerClosed, waiter, portVars, refVars, callVars>>

WaitAgain(p) ==
  /\ At(p, WaitCalls, "wait_again")
  /\ Goes(p, IF Signals \cap WaitMask(call[p]) # {} THEN "wait_retract" ELSE "asleep")
  /\ UNCHANGED chanVars

\* The first entry of the pid is removed, if a notifier has not removed all:
\* of a mask left open here, when an earlier call's entry is still there.
WaitRetract(p) ==
  /\ At(p, WaitCalls, "wait_retract")
  /\ IF \A c \in WaitCalls : sigWaiters[p][c] = 0
     THEN UNCHANGED sigWaiters
     ELSE \E c \in WaitCalls :
            sigWaiters[p][c] > 0 /\ sigWaiters' = [sigWaiters EXCEPT ![p][c] = @ - 1]
  /\ Goes(p, "user")
  /\ UNCHANGED <<queued, peerClosed, waiter, portVars, refVars, callVars>>

-----------------------------------------------------------------------------
(* Ports *)

PortWait(p) ==
  /\ Enters(p, "port_wait")
  /\ portq' = IF portq > 0 THEN portq - 1 ELSE portq
  /\ Moves(p, "port_wait", IF portq > 0 THEN "user" ELSE "register", WakesNobody)
  /\ UNCHANGED <<queued, peerClosed, waiter, sigWaiters, bound, portWaiter,
                 refVars, callVars>>

PortRegister(p) ==
  /\ At(p, {"port_wait"}, "register")
  /\ portWaiter' = p
  /\ Goes(p, "recheck")
  /\ UNCHANGED <<queued, peerClosed, waiter, sigWaiters, bound, portq,
                 refVars, callVars>>

PortRecheck(p) ==
  /\ At(p, {"port_wait"}, "recheck")
  /\ portq' = IF portq > 0 THEN portq - 1 ELSE portq
  /\ Goes(p, IF portq > 0 THEN "retract" ELSE "asleep")
  /\ UNCHANGED <<queued, peerClosed, waiter, sigWaiters, bound, portWaiter,
                 refVars, callVars>>

PortRetract(p) ==
  /\ At(p, {"port_wait"}, "retract")
  /\ portWaiter' = Nobody
  /\ Goes(p, "user")
  /\ UNCHANGED <<queued, peerClosed, waiter, sigWaiters, bound, portq,
                 refVars, callVars>>

PortQueue(p) ==
  /\ Enters(p, "port_queue")
  /\ portq' = portq + 1
  /\ ThenNotify(p, "user")
  /\ Moves(p, "port_queue", "port_wake", WakesNobody)
  /\ UNCHANGED <<queued, peerClosed, waiter, sigWaiters, bound, portWaiter,
                 refVars, sig, held>>

\* Bound once: the observer is added first, the signals of now are looked at
\* afterwards, so a message in between is told twice and never not at all.
PortBind(p) ==
  /\ Enters(p, "port_bind") /\ ~bound
  /\ bound' = TRUE
  /\ Moves(p, "port_bind", "evaluate", WakesNobody)
  /\ UNCHANGED <<queued, peerClosed, waiter, sigWaiters, portq, portWaiter,
                 refVars, callVars>>

PortEvaluate(p) ==
  /\ At(p, {"port_bind"}, "evaluate")
  /\ IF Signals \cap Trigger # {}
     THEN portq' = portq + 1 /\ ThenNotify(p, "user") /\ Goes(p, "port_wake")
     ELSE UNCHANGED <<portq, after>> /\ Goes(p, "user")
  /\ UNCHANGED <<queued, peerClosed, waiter, sigWaiters, bound, portWaiter,
                 refVars, sig, held>>

-----------------------------------------------------------------------------
ChannelStep(p) ==
  \/ /\ \/ \E c \in ReadCalls, fits \in BOOLEAN : Read(p, c, fits)
        \/ \E fits \in BOOLEAN : ReadRecheck(p, fits)
        \/ ReadClosed(p) \/ ReadRegister(p) \/ ReadReclosed(p) \/ ReadRetract(p)
        \/ Poll(p)
        \/ \E c \in {"write", "channel_write"} : Write(p, c)
        \/ WriteWake(p) \/ WriteTake(p) \/ WriteHandover(p) \/ WriterResumes(p)
        \/ NotifySignals(p) \/ NotifyWaiters(p) \/ NotifyPorts(p) \/ QueuePacketWake(p)
        \/ CloseWrite(p) \/ CloseRead(p) \/ DropFlag(p) \/ DropWake(p) \/ DropSignals(p)
        \/ \E c \in WaitCalls : WaitOne(p, c)
        \/ WaitRegister(p) \/ WaitAgain(p) \/ WaitRetract(p)
        \/ PortWait(p) \/ PortRegister(p) \/ PortRecheck(p) \/ PortRetract(p)
        \/ PortQueue(p) \/ PortBind(p) \/ PortEvaluate(p)
     /\ UNCHANGED epollVars
  \/ WriteEpoll(p)

\* check_fd_readiness: a message, or the peer gone
ChannelReady == queued > 0 \/ peerClosed

-----------------------------------------------------------------------------
(* Properties *)

\* A blocked reader with something to read, or (channel_read) an end of file
\* to see, is about to be woken: the process that made it so still has to
\* take the waiter word, or has taken it and not yet enqueued the reader.
\* Registering, looking again and retracting race with write, write_fast and
\* Drop here; there is one waiter word, so one process reads.
ReaderNotStranded ==
  \A p \in Procs :
    Sleeps(p, ReadCalls) /\ (queued > 0 \/ (peerClosed /\ call[p] = "channel_read"))
      => \E q \in Procs :
           \/ held[q] = p
           \/ waiter = p /\ pc[q] \in {"wake", "epoll", "take", "drop_wake"}

\* A process blocked in port_wait with a packet queued is about to be woken.
PortWaiterNotStranded ==
  \A p \in Procs :
    Sleeps(p, {"port_wait"}) /\ portq > 0
      => portWaiter = p /\ \E q \in Procs : pc[q] = "port_wake"

\* A process blocked in object_wait_one while a signal it waits for is
\* asserted is about to be woken: whoever raised the signal has not looked at
\* the list yet, or is looking with a snapshot that shows it.
SignalWaiterNotStranded ==
  \A p \in Procs :
    Sleeps(p, WaitCalls) /\ Signals \cap WaitMask(call[p]) # {}
      => \E q \in Procs :
           \/ pc[q] \in {"wake", "epoll", "take", "drop_wake", "drop_signals", "notify"}
           \/ pc[q] = "notify_waiters" /\ sig[q] \cap WaitMask(call[p]) # {}

\* End of file is what a reader sees once everything written was read.  (The
\* queue and the flag are looked at one after the other, so this fails.)
EofAfterLastMessage ==
  [][\A p \in Procs :
       At(p, {"channel_read"}, "closed") /\ pc'[p] = "user" => queued = 0]_<<wakeVars, chanVars>>

\* Once the last handle of the writing endpoint is closed, its peer is told.
\* (A hand-over leaks a reference to the endpoint, so this fails.)
CloseIsSeen ==
  writers = {} /\ PeerAlive /\ (\A p \in Procs : pc[p] # "drop") => peerClosed
=============================================================================
