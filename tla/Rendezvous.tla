----------------------------- MODULE Rendezvous -----------------------------
(***************************************************************************)
(* Rendezvous IPC of the kernel: sys_ipc_send, sys_ipc_receive,            *)
(* sys_ipc_sendrec and kernel_send_msg (src/src/syscall/ipc.rs), together  *)
(* with the parts of process exit, reaping and PM-driven fork that touch   *)
(* the IPC state of a process.                                             *)
(*                                                                         *)
(* Every IPC handler holds PROCESS_TABLE from its first to its last access *)
(* to shared state, so each is one atomic step.  exit() releases the lock  *)
(* between its phases, so each of its lock sections is a step of its own   *)
(* and other harts run in between.                                         *)
(*                                                                         *)
(* A blocked process is one that is on no run queue and on no hart: it     *)
(* holds no token.  enqueue_with_prio hands out a token, blocking gives it *)
(* up.  A blocking handler rewinds sepc, so a woken process executes the   *)
(* same call again: call[p] is that armed call.                            *)
(***************************************************************************)
EXTENDS Naturals, Sequences

CONSTANTS
  Procs,        \* process identifiers
  Any,          \* the wildcard source, -1 in the code
  Hardware,     \* the source of interrupt messages, -2 in the code
  Unborn,       \* identifiers not in the table at start, free for fork
  Mortal,       \* processes that may call exit in this instance
  Killable,     \* processes another process may SIGKILL in this instance
  Signalled,    \* processes another process may send a signal to
  Drivers,      \* processes holding CAP_INTERRUPT
  IrqPids,      \* pids a driver registers as handlers
  Harts,        \* harts that can take an external interrupt
  PmServers,    \* processes holding CAP_PROCESS that serve fork requests
  Sources,      \* sources passed to sys_ipc_receive
  PtrOutcomes,  \* results of is_user_pointer_valid to be considered
  MaxSends,     \* bound on the messages each process sends
  MaxIrqs       \* bound on the interrupts that fire

ASSUME ConstantsAssumption ==
  /\ Any \notin Procs /\ Hardware \notin Procs /\ Any # Hardware
  /\ Unborn \subseteq Procs /\ Mortal \subseteq Procs /\ Killable \subseteq Procs
  /\ Signalled \subseteq Procs /\ Drivers \subseteq Procs /\ IrqPids \subseteq Procs /\ PmServers \subseteq Procs
  /\ Sources \subseteq Procs \cup {Any, Hardware}
  /\ PtrOutcomes \subseteq BOOLEAN
  /\ MaxSends \in [Procs -> Nat] /\ MaxIrqs \in Nat

VARIABLES
  ipc,         \* Process.ipc_state
  senders,     \* Process.senders: processes blocked sending to this one
  irqPending,  \* Process.irq_pending
  status,      \* Process.state, and whether the process is in PROCESS_TABLE
  tokens,      \* run-queue entries plus harts executing the process
  call,        \* the IPC call a blocked process re-executes when woken
  exiting,     \* progress of exit(): phase and the processes left to release
  irqOwner,    \* IRQ_HANDLERS for the one modelled interrupt line
  irqEnabled,  \* harts on which that line is unmasked at the PLIC
  irqs,        \* interrupts fired so far
  sent,        \* messages issued so far by each process
  delivered,   \* messages copied to each process, oldest first
  acked,       \* messages whose sys_ipc_send returned success, with target
  kernel       \* "panicked" once an unwrap() hits a missing table entry

kernelVars == <<ipc, senders, irqPending, status, tokens, call>>
exitVars   == <<exiting>>
irqVars    == <<irqOwner, irqEnabled, irqs>>
history    == <<sent, delivered, acked>>
vars       == <<kernelVars, exitVars, irqVars, history, kernel>>

-----------------------------------------------------------------------------
(* Values *)

Nobody   == Any
Messages == [source : Procs \cup {Hardware}, n : Nat]
NoMsg    == [source |-> Hardware, n |-> 0]

IpcStates ==
  [kind : {"None", "Sending", "Receiving", "ReceivingReply",
           "MessageAvailable", "SendComplete"},
   peer : Procs \cup {Any, Hardware}, msg : Messages, wantsReply : BOOLEAN]

Waiting(kind, peer) ==
  [kind |-> kind, peer |-> peer, msg |-> NoMsg, wantsReply |-> FALSE]
IpcNone             == Waiting("None", Any)
SendDone            == Waiting("SendComplete", Any)
Receiving(src)      == Waiting("Receiving", src)
ReceivingReply(src) == Waiting("ReceivingReply", src)
MsgAvailable(m)     ==
  [kind |-> "MessageAvailable", peer |-> Any, msg |-> m, wantsReply |-> FALSE]
Sending(q, m, r)    == [kind |-> "Sending", peer |-> q, msg |-> m, wantsReply |-> r]

Calls   == [op : {"none", "send", "receive", "sendrec"},
            peer : Procs \cup {Any, Hardware}]
NoCall  == [op |-> "none", peer |-> Any]
Call(op, peer) == [op |-> op, peer |-> peer]

Statuses == {"Unborn", "Running", "Stopped", "Zombie", "Gone"}
Phases   == {"no", "senders", "waiters", "done"}
ExitStates == [phase : Phases, todo : SUBSET Procs]
Receipts   == [msg : Messages, via : {"receive", "sendrec"},
               peer : Procs \cup {Any, Hardware}]
Acks       == [msg : Messages, to : Procs]

\* The source filter of every receive path: from_pid == -1 or equal.
Matches(filter, src) == filter = Any \/ filter = src

\* VecDeque::remove(i).
RemoveAt(s, i) ==
  [j \in 1..(Len(s) - 1) |-> IF j < i THEN s[j] ELSE s[j + 1]]

\* The first queue position whose source passes the filter, as the linear
\* scans of sys_ipc_receive find it.
IsFirstMatch(filter, srcs, i) ==
  /\ i \in 1..Len(srcs)
  /\ Matches(filter, srcs[i])
  /\ \A j \in 1..(i - 1) : ~Matches(filter, srcs[j])

NoMatch(filter, srcs) == \A i \in 1..Len(srcs) : ~Matches(filter, srcs[i])

InTable(p) == status[p] \in {"Running", "Stopped", "Zombie"}

\* p executes user code on some hart, or soon will.  A killed process that is
\* on a hart keeps running until it next enters schedule().
CanRun(p) == kernel = "up" /\ tokens[p] > 0 /\ status[p] \in {"Running", "Zombie"}

\* p issues the call, fresh from user code or re-executed after a wakeup.
Issues(p, op, peer) ==
  /\ CanRun(p)
  /\ \/ call[p] = NoCall
     \/ call[p] = Call(op, peer)

IssuesSend(p, op, q) ==
  /\ Issues(p, op, q)
  /\ p # q
  /\ call[p] = NoCall => sent[p] < MaxSends[p]

Fresh(p)    == call[p] = NoCall
NextSent(p) == IF Fresh(p) THEN [sent EXCEPT ![p] = @ + 1] ELSE sent
MsgOf(p)    == [source |-> p, n |-> NextSent(p)[p]]

\* enqueue_with_prio: push_back without looking for an existing entry.
Enqueue(p) == tokens' = [tokens EXCEPT ![p] = @ + 1]

\* tf.sepc -= 4 and schedule(): p leaves its hart and stays off every queue.
Park(p, op, peer) ==
  /\ tokens' = [tokens EXCEPT ![p] = @ - 1]
  /\ call' = [call EXCEPT ![p] = Call(op, peer)]

Return(p) == call' = [call EXCEPT ![p] = NoCall]

Copy(p, m, via, peer) ==
  delivered' = [delivered EXCEPT ![p] =
                  Append(@, [msg |-> m, via |-> via, peer |-> peer])]

-----------------------------------------------------------------------------
Init ==
  /\ ipc = [p \in Procs |-> IpcNone]
  /\ senders = [p \in Procs |-> <<>>]
  /\ irqPending = [p \in Procs |-> <<>>]
  /\ status = [p \in Procs |-> IF p \in Unborn THEN "Unborn" ELSE "Running"]
  /\ tokens = [p \in Procs |-> IF p \in Unborn THEN 0 ELSE 1]
  /\ call = [p \in Procs |-> NoCall]
  /\ exiting = [p \in Procs |-> [phase |-> "no", todo |-> {}]]
  /\ irqOwner = Nobody
  /\ irqEnabled = {}
  /\ irqs = 0
  /\ sent = [p \in Procs |-> 0]
  /\ delivered = [p \in Procs |-> <<>>]
  /\ acked = {}
  /\ kernel = "up"

-----------------------------------------------------------------------------
(* sys_ipc_send(q, msg) *)

\* Resumed after a receiver took the message out of our Sending state.
SendResume(p, q) ==
  /\ ipc[p].kind = "SendComplete"
  /\ ipc' = [ipc EXCEPT ![p] = IpcNone]
  /\ acked' = acked \cup {[msg |-> MsgOf(p), to |-> q]}
  /\ Return(p)
  /\ UNCHANGED <<senders, irqPending, status, tokens, delivered>>

\* Bad message pointer or unknown target: an error is returned at once.
SendFails(p, q, ptrOk) ==
  /\ ipc[p].kind # "SendComplete"
  /\ ~ptrOk \/ ~InTable(q)
  /\ Return(p)
  /\ UNCHANGED <<ipc, senders, irqPending, status, tokens, delivered, acked>>

\* Faulty variants of the target test: without the wildcard; without the source
\* filter; accepting a target that still holds an undelivered message.
AcceptsExactOnly(q, p, kinds) == ipc[q].kind \in kinds /\ ipc[q].peer = p
AcceptsUnfiltered(q, p, kinds) == ipc[q].kind \in kinds
AcceptsOccupied(q, p, kinds) ==
  ipc[q].kind \in kinds \cup {"MessageAvailable"} /\ Matches(ipc[q].peer, p)

TargetAccepts(q, p, kinds) ==
  ipc[q].kind \in kinds /\ Matches(ipc[q].peer, p)

\* Faulty variant: the message is handed over but the target is not woken.
SendDeliverNoWake(p, q, ptrOk) ==
  /\ ipc[p].kind # "SendComplete"
  /\ ptrOk /\ InTable(q)
  /\ TargetAccepts(q, p, {"Receiving", "ReceivingReply"})
  /\ ipc' = [ipc EXCEPT ![q] = MsgAvailable(MsgOf(p))]
  /\ acked' = acked \cup {[msg |-> MsgOf(p), to |-> q]}
  /\ Return(p)
  /\ UNCHANGED <<senders, irqPending, status, tokens, delivered>>

\* The target already waits for us: hand the message over and wake it.
SendDeliver(p, q, ptrOk) ==
  /\ ipc[p].kind # "SendComplete"
  /\ ptrOk /\ InTable(q)
  /\ TargetAccepts(q, p, {"Receiving", "ReceivingReply"})
  /\ ipc' = [ipc EXCEPT ![q] = MsgAvailable(MsgOf(p))]
  /\ Enqueue(q)
  /\ acked' = acked \cup {[msg |-> MsgOf(p), to |-> q]}
  /\ Return(p)
  /\ UNCHANGED <<senders, irqPending, status, delivered>>

\* The target is busy: overwrite our own state and queue behind the others.
SendBlock(p, q, ptrOk) ==
  /\ ipc[p].kind # "SendComplete"
  /\ ptrOk /\ InTable(q)
  /\ ~TargetAccepts(q, p, {"Receiving", "ReceivingReply"})
  /\ ipc' = [ipc EXCEPT ![p] = Sending(q, MsgOf(p), FALSE)]
  /\ senders' = [senders EXCEPT ![q] = Append(@, p)]
  /\ Park(p, "send", q)
  /\ UNCHANGED <<irqPending, status, delivered, acked>>

SysIpcSend(p, q) ==
  /\ IssuesSend(p, "send", q)
  /\ sent' = NextSent(p)
  /\ \/ SendResume(p, q)
     \/ \E ptrOk \in PtrOutcomes :
          SendFails(p, q, ptrOk) \/ SendDeliver(p, q, ptrOk) \/ SendBlock(p, q, ptrOk)
  /\ UNCHANGED <<exitVars, irqVars, kernel>>

-----------------------------------------------------------------------------
(* sys_ipc_receive(src) *)

\* A message was deposited in our IPC state.  The next queued interrupt, if
\* any, takes its place.  With a bad pointer the message stays where it is.
ReceiveAvailable(p, src, ptrOk) ==
  /\ ipc[p].kind = "MessageAvailable"
  /\ IF ptrOk
     THEN /\ Copy(p, ipc[p].msg, "receive", src)
          /\ IF irqPending[p] = <<>>
             THEN /\ ipc' = [ipc EXCEPT ![p] = IpcNone]
                  /\ UNCHANGED irqPending
             ELSE /\ ipc' = [ipc EXCEPT ![p] = MsgAvailable(Head(irqPending[p]))]
                  /\ irqPending' = [irqPending EXCEPT ![p] = Tail(@)]
     ELSE UNCHANGED <<ipc, irqPending, delivered>>
  /\ Return(p)
  /\ UNCHANGED <<senders, status, tokens, kernel>>

SourcesOf(msgs) == [i \in 1..Len(msgs) |-> msgs[i].source]
IrqSources(p)   == SourcesOf(irqPending[p])

\* Take the first queued interrupt that passes the filter.  It has left the
\* queue before the pointer is checked.
ReceiveIrq(p, src, ptrOk) ==
  /\ ipc[p].kind # "MessageAvailable"
  /\ \E i \in 1..Len(irqPending[p]) :
       /\ IsFirstMatch(src, IrqSources(p), i)
       /\ irqPending' = [irqPending EXCEPT ![p] = RemoveAt(@, i)]
       /\ IF ptrOk THEN Copy(p, irqPending[p][i], "receive", src)
                   ELSE UNCHANGED delivered
  /\ Return(p)
  /\ UNCHANGED <<ipc, senders, status, tokens, kernel>>

\* Faulty variant: a plain sender is woken without the SendComplete mark, so
\* it sends again.
TakeWithoutMark(p, s, src, ptrOk) ==
  /\ InTable(s) /\ ptrOk
  /\ Copy(p, ipc[s].msg, "receive", src)
  /\ ipc' = [ipc EXCEPT ![s] = IF ipc[s].wantsReply THEN ReceivingReply(p) ELSE IpcNone]
  /\ tokens' = [tokens EXCEPT ![s] = IF ipc[s].wantsReply THEN @ ELSE @ + 1]
  /\ UNCHANGED kernel

\* What sys_ipc_receive does with the sender s it took off the queue.
TakeMessageOf(p, s, src, ptrOk) ==
  IF ~InTable(s)
  THEN kernel' = "panicked" /\ UNCHANGED <<ipc, tokens, delivered>>
  ELSE IF ipc[s].kind # "Sending" \/ ~ptrOk
  THEN UNCHANGED <<ipc, tokens, delivered, kernel>>
  ELSE /\ Copy(p, ipc[s].msg, "receive", src)
       /\ IF ipc[s].wantsReply
          THEN /\ ipc' = [ipc EXCEPT ![s] = ReceivingReply(p)]
               /\ UNCHANGED tokens
          ELSE /\ ipc' = [ipc EXCEPT ![s] = SendDone]
               /\ Enqueue(s)
       /\ UNCHANGED kernel

\* Faulty variant: the sender is served but left in the queue.
ReceiveAndKeep(p, src, ptrOk) ==
  /\ ipc[p].kind # "MessageAvailable"
  /\ NoMatch(src, IrqSources(p))
  /\ \E i \in 1..Len(senders[p]) :
       /\ IsFirstMatch(src, senders[p], i)
       /\ TakeMessageOf(p, senders[p][i], src, ptrOk)
  /\ Return(p)
  /\ UNCHANGED <<senders, irqPending, status>>

ReceiveFromSender(p, src, ptrOk) ==
  /\ ipc[p].kind # "MessageAvailable"
  /\ NoMatch(src, IrqSources(p))
  /\ \E i \in 1..Len(senders[p]) :
       /\ IsFirstMatch(src, senders[p], i)
       /\ senders' = [senders EXCEPT ![p] = RemoveAt(@, i)]
       /\ TakeMessageOf(p, senders[p][i], src, ptrOk)
  /\ Return(p)
  /\ UNCHANGED <<irqPending, status>>

ReceiveBlock(p, src) ==
  /\ ipc[p].kind # "MessageAvailable"
  /\ NoMatch(src, IrqSources(p))
  /\ NoMatch(src, senders[p])
  /\ ipc' = [ipc EXCEPT ![p] = Receiving(src)]
  /\ Park(p, "receive", src)
  /\ UNCHANGED <<senders, irqPending, status, delivered, kernel>>

SysIpcReceive(p, src) ==
  /\ Issues(p, "receive", src)
  /\ p # src
  /\ \/ \E ptrOk \in PtrOutcomes :
          \/ ReceiveAvailable(p, src, ptrOk)
          \/ ReceiveIrq(p, src, ptrOk)
          \/ ReceiveFromSender(p, src, ptrOk)
     \/ ReceiveBlock(p, src)
  /\ UNCHANGED <<exitVars, irqVars, sent, acked>>

-----------------------------------------------------------------------------
(* sys_ipc_sendrec(q, msg): send, then wait for the reply, as one call that *)
(* is re-executed from the top after every wakeup.                          *)

\* The call finds us in a state other than None.  MessageAvailable counts as
\* the reply; irq_pending is not promoted.  ReceivingReply means a spurious
\* wakeup and sleeps again; anything else is reset and reported as an error.
SendrecContinue(p, q) ==
  /\ ipc[p].kind # "None"
  /\ CASE ipc[p].kind = "MessageAvailable" ->
            /\ Copy(p, ipc[p].msg, "sendrec", q)
            /\ ipc' = [ipc EXCEPT ![p] = IpcNone]
            /\ Return(p)
            /\ UNCHANGED tokens
       [] ipc[p].kind = "ReceivingReply" ->
            /\ Park(p, "sendrec", q)
            /\ UNCHANGED <<ipc, delivered>>
       [] OTHER ->
            /\ ipc' = [ipc EXCEPT ![p] = IpcNone]
            /\ Return(p)
            /\ UNCHANGED <<tokens, delivered>>
  /\ UNCHANGED <<senders, irqPending, status>>

SendrecFails(p, q) ==
  /\ ipc[p].kind = "None"
  /\ ~InTable(q)
  /\ Return(p)
  /\ UNCHANGED <<ipc, senders, irqPending, status, tokens, delivered>>

\* The target waits in a plain receive: deposit and wait for its reply.
SendrecDeliver(p, q) ==
  /\ ipc[p].kind = "None"
  /\ InTable(q)
  /\ TargetAccepts(q, p, {"Receiving"})
  /\ ipc' = [ipc EXCEPT ![q] = MsgAvailable(MsgOf(p)), ![p] = ReceivingReply(q)]
  /\ tokens' = [tokens EXCEPT ![q] = @ + 1, ![p] = @ - 1]
  /\ call' = [call EXCEPT ![p] = Call("sendrec", q)]
  /\ UNCHANGED <<senders, irqPending, status, delivered>>

SendrecBlock(p, q) ==
  /\ ipc[p].kind = "None"
  /\ InTable(q)
  /\ ~TargetAccepts(q, p, {"Receiving"})
  /\ ipc' = [ipc EXCEPT ![p] = Sending(q, MsgOf(p), TRUE)]
  /\ senders' = [senders EXCEPT ![q] = Append(@, p)]
  /\ Park(p, "sendrec", q)
  /\ UNCHANGED <<irqPending, status, delivered>>

SysIpcSendrec(p, q) ==
  /\ IssuesSend(p, "sendrec", q)
  /\ sent' = NextSent(p)
  /\ \/ SendrecContinue(p, q)
     \/ SendrecFails(p, q)
     \/ SendrecDeliver(p, q)
     \/ SendrecBlock(p, q)
  /\ UNCHANGED <<exitVars, irqVars, acked, kernel>>

-----------------------------------------------------------------------------
(* Interrupt delivery to a user-space driver *)

\* sys_irq_register(irq, q): the handler table maps the line to any pid that
\* the driver p names.
SysIrqRegister(p, q) ==
  /\ CanRun(p) /\ Fresh(p)
  /\ irqOwner' = q
  /\ UNCHANGED <<kernelVars, exitVars, irqEnabled, irqs, history, kernel>>

\* sys_irq_enable: unmask the line on the hart h the driver happens to run on.
SysIrqEnable(p, h) ==
  /\ CanRun(p) /\ Fresh(p)
  /\ irqEnabled' = irqEnabled \cup {h}
  /\ UNCHANGED <<kernelVars, exitVars, irqOwner, irqs, history, kernel>>

\* kernel_send_msg(q, m): where an interrupt message for q ends up.
KernelSendMsg(q, m) ==
  \/ /\ ~InTable(q)
     /\ UNCHANGED <<ipc, irqPending, tokens>>
  \/ /\ InTable(q)
     /\ TargetAccepts(q, m.source, {"Receiving"})
     /\ ipc' = [ipc EXCEPT ![q] = MsgAvailable(m)]
     /\ Enqueue(q)
     /\ UNCHANGED irqPending
  \/ /\ InTable(q)
     /\ ipc[q].kind = "None"
     /\ ipc' = [ipc EXCEPT ![q] = MsgAvailable(m)]
     /\ UNCHANGED <<irqPending, tokens>>
  \/ /\ InTable(q)
     /\ ipc[q].kind # "None" /\ ~TargetAccepts(q, m.source, {"Receiving"})
     /\ irqPending' = [irqPending EXCEPT ![q] = Append(@, m)]
     /\ UNCHANGED <<ipc, tokens>>

\* handle_interrupt, external case: the claiming hart masks the line for
\* itself only, then posts the message to the registered driver.
ExternalInterrupt(h) ==
  /\ kernel = "up"
  /\ irqOwner # Nobody /\ h \in irqEnabled
  /\ irqs < MaxIrqs
  /\ irqs' = irqs + 1
  /\ irqEnabled' = irqEnabled \ {h}
  /\ KernelSendMsg(irqOwner, [source |-> Hardware, n |-> irqs + 1])
  /\ UNCHANGED <<senders, status, call, exitVars, irqOwner, history, kernel>>

-----------------------------------------------------------------------------
(* exit(): each lock section is a step.  (Its wake of the futex at the      *)
(* CLEARTID address touches no IPC state; Calls has it.)                   *)

Queued(p) == {senders[p][i] : i \in 1..Len(senders[p])}

\* Phase 1: zombie, and the senders queue is drained into a local vector.
BecomeZombie(p) ==
  /\ status' = [status EXCEPT ![p] = "Zombie"]
  /\ senders' = [senders EXCEPT ![p] = <<>>]
  /\ exiting' = [exiting EXCEPT ![p] = [phase |-> "senders", todo |-> Queued(p)]]

\* sys_exit: p runs exit() itself and ends in schedule().
SysExit(p) ==
  /\ CanRun(p) /\ Fresh(p)
  /\ status[p] = "Running"
  /\ BecomeZombie(p)
  /\ tokens' = [tokens EXCEPT ![p] = @ - 1]
  /\ UNCHANGED <<ipc, irqPending, call, irqVars, history, kernel>>

\* SIGKILL: exit(p) runs on the killer's hart, wherever p is at the time, and
\* once more for a zombie.  (Two calls of exit(p) that overlap are left out.)
Kill(p) ==
  /\ kernel = "up"
  /\ status[p] \in {"Running", "Stopped", "Zombie"}
  /\ status[p] = "Zombie" => exiting[p].phase = "done"
  /\ BecomeZombie(p)
  /\ UNCHANGED <<ipc, irqPending, tokens, call, irqVars, history, kernel>>

\* Phase 1.5, one process of the list: step over the ecall with ESRCH, reset
\* the IPC state, and enqueue the process only if its state is Stopped.  The
\* list is walked in some order, one lock section per process.
ExitRelease(p, w) ==
  /\ kernel = "up"
  /\ w \in exiting[p].todo
  /\ exiting' = [exiting EXCEPT ![p] = [phase |-> @.phase, todo |-> @.todo \ {w}]]
  /\ IF InTable(w)
     THEN /\ ipc' = [ipc EXCEPT ![w] = IpcNone]
          /\ call' = [call EXCEPT ![w] = NoCall]
          /\ IF status[w] = "Stopped"
             THEN /\ status' = [status EXCEPT ![w] = "Running"]
                  /\ Enqueue(w)
             ELSE UNCHANGED <<status, tokens>>
     ELSE UNCHANGED <<ipc, call, status, tokens>>
  /\ UNCHANGED <<senders, irqPending, irqVars, history, kernel>>

StuckWaiters(p) ==
  {w \in Procs : /\ InTable(w)
                 /\ ipc[w].kind \in {"Receiving", "ReceivingReply"}
                 /\ ipc[w].peer = p}

\* Phase 1.5, the scan for reply-waiters and directed receivers.
ExitScan(p) ==
  /\ kernel = "up"
  /\ exiting[p].phase = "senders" /\ exiting[p].todo = {}
  /\ exiting' = [exiting EXCEPT ![p] = [phase |-> "waiters", todo |-> StuckWaiters(p)]]
  /\ UNCHANGED <<kernelVars, irqVars, history, kernel>>

\* IRQ_HANDLERS.retain.
ExitIrq(p) ==
  /\ kernel = "up"
  /\ exiting[p].phase = "waiters" /\ exiting[p].todo = {}
  /\ exiting' = [exiting EXCEPT ![p] = [phase |-> "done", todo |-> {}]]
  /\ irqOwner' = IF irqOwner = p THEN Nobody ELSE irqOwner
  /\ UNCHANGED <<kernelVars, irqEnabled, irqs, history, kernel>>

\* reap_zombie: the table entry disappears, whether or not exit() finished
\* and whether or not the process still sits in somebody's senders queue.
Reap(p) ==
  /\ kernel = "up"
  /\ status[p] = "Zombie"
  /\ status' = [status EXCEPT ![p] = "Gone"]
  /\ ipc' = [ipc EXCEPT ![p] = IpcNone]
  /\ call' = [call EXCEPT ![p] = NoCall]
  /\ senders' = [senders EXCEPT ![p] = <<>>]
  /\ irqPending' = [irqPending EXCEPT ![p] = <<>>]
  /\ UNCHANGED <<tokens, exitVars, irqVars, history, kernel>>

\* A process reaped while it was still on a hart makes an IPC call: the handler
\* unwraps its own, missing, table entry.
StaleCall(p) ==
  /\ kernel = "up"
  /\ tokens[p] > 0 /\ status[p] = "Gone"
  /\ kernel' = "panicked"
  /\ UNCHANGED <<kernelVars, exitVars, irqVars, history>>

-----------------------------------------------------------------------------
(* schedule() and fork, as far as they touch this state *)

\* schedule() picks the entry of a process that was made runnable.
Dispatch(p) ==
  /\ kernel = "up"
  /\ tokens[p] > 0 /\ status[p] = "Stopped"
  /\ status' = [status EXCEPT ![p] = "Running"]
  /\ UNCHANGED <<ipc, senders, irqPending, tokens, call, exitVars, irqVars,
                 history, kernel>>

\* schedule() drops the entry of a zombie or of a reaped process; a dead
\* process that was on a hart goes the same way when it is next descheduled.
Discard(p) ==
  /\ kernel = "up"
  /\ tokens[p] > 0 /\ status[p] \in {"Zombie", "Gone"}
  /\ tokens' = [tokens EXCEPT ![p] = @ - 1]
  /\ UNCHANGED <<ipc, senders, irqPending, status, call, exitVars, irqVars,
                 history, kernel>>

\* sys_clone_process, issued by a process manager while p waits for the reply
\* to its fork request: the child c inherits the wait and is left Stopped.
SysCloneProcess(pm, p, c) ==
  /\ CanRun(pm) /\ Fresh(pm)
  /\ InTable(p) /\ ipc[p].kind = "ReceivingReply" /\ ipc[p].peer = pm
  /\ status[c] = "Unborn"
  /\ status' = [status EXCEPT ![c] = "Stopped"]
  /\ ipc' = [ipc EXCEPT ![c] = ipc[p]]
  /\ call' = [call EXCEPT ![c] = call[p]]
  /\ UNCHANGED <<senders, irqPending, tokens, exitVars, irqVars, history, kernel>>

\* VecDeque::retain(|s| s != p) on a queue that holds p at most once.
Retain(s, p) ==
  IF \E i \in 1..Len(s) : s[i] = p
  THEN RemoveAt(s, CHOOSE i \in 1..Len(s) : s[i] = p)
  ELSE s

\* wake_with_eintr: a signal for a Stopped process ends its call.
WakeWithEintr(p) ==
  /\ kernel = "up"
  /\ status[p] = "Stopped"
  /\ senders' = IF ipc[p].kind = "Sending" /\ InTable(ipc[p].peer)
                THEN [senders EXCEPT ![ipc[p].peer] = Retain(@, p)]
                ELSE senders
  /\ ipc' = [ipc EXCEPT ![p] = IpcNone]
  /\ call' = [call EXCEPT ![p] = NoCall]
  /\ status' = [status EXCEPT ![p] = "Running"]
  /\ Enqueue(p)
  /\ UNCHANGED <<irqPending, exitVars, irqVars, history, kernel>>

-----------------------------------------------------------------------------
Next ==
  \/ \E p, q \in Procs : SysIpcSend(p, q) \/ SysIpcSendrec(p, q)
  \/ \E p \in Procs, src \in Sources : SysIpcReceive(p, src)
  \/ \E p \in Drivers, q \in IrqPids : SysIrqRegister(p, q)
  \/ \E p \in Drivers, h \in Harts : SysIrqEnable(p, h)
  \/ \E h \in Harts : ExternalInterrupt(h)
  \/ \E p \in Mortal : SysExit(p)
  \/ \E p \in Killable : Kill(p)
  \/ \E p \in Signalled : WakeWithEintr(p)
  \/ \E p \in Procs :
       \/ \E w \in Procs : ExitRelease(p, w)
       \/ ExitScan(p) \/ ExitIrq(p)
       \/ Reap(p) \/ StaleCall(p) \/ Dispatch(p) \/ Discard(p)
  \/ \E pm \in PmServers, p, c \in Procs : SysCloneProcess(pm, p, c)

Spec == Init /\ [][Next]_vars

-----------------------------------------------------------------------------
(* Properties *)

\* Type invariant of the IPC state of every process.
TypeOK ==
  /\ ipc \in [Procs -> IpcStates]
  /\ senders \in [Procs -> Seq(Procs)]
  /\ irqPending \in [Procs -> Seq(Messages)]
  /\ status \in [Procs -> Statuses]
  /\ tokens \in [Procs -> Nat]
  /\ call \in [Procs -> Calls]
  /\ exiting \in [Procs -> ExitStates]
  /\ irqOwner \in Procs \cup {Nobody}
  /\ irqEnabled \subseteq Harts
  /\ irqs \in 0..MaxIrqs
  /\ sent \in [Procs -> Nat] /\ \A p \in Procs : sent[p] <= MaxSends[p]
  /\ delivered \in [Procs -> Seq(Receipts)]
  /\ acked \subseteq Acks
  /\ kernel \in {"up", "panicked"}

NoneMissed(q) ==
  ipc[q].kind = "Receiving" =>
    /\ NoMatch(ipc[q].peer, senders[q])
    /\ NoMatch(ipc[q].peer, IrqSources(q))

\* No lost wakeup in the rendezvous: a process that sys_ipc_receive put to
\* sleep never has, in its senders queue or among its pending interrupts, a
\* message its source filter would accept.  The check for partners and the
\* decision to block are made in both directions, by sender and by receiver,
\* and by the interrupt handler.
NoMissedRendezvous == \A q \in Procs : NoneMissed(q)

\* Every entry of a senders queue is a live process blocked in Sending towards
\* the owner of that queue, queued once and off every run queue: the "Should
\* not happen" arm and the unwrap() of sys_ipc_receive are then dead code.
QueuedSendersAreSending ==
  \A q \in Procs : \A i \in 1..Len(senders[q]) :
    LET s == senders[q][i] IN
      /\ InTable(s)
      /\ ipc[s].kind = "Sending" /\ ipc[s].peer = q
      /\ tokens[s] = 0
      /\ \A j \in 1..Len(senders[q]) : senders[q][j] = s => j = i

\* Conversely a process blocked in Sending is in its target's queue, or in the
\* list that the target's exit() drained and still has to release.
SendingIsQueued ==
  \A p, q \in Procs :
    (InTable(p) /\ InTable(q) /\ ipc[p].kind = "Sending" /\ ipc[p].peer = q) =>
      \/ \E i \in 1..Len(senders[q]) : senders[q][i] = p
      \/ p \in exiting[q].todo

\* The senders queues and the Sending states say the same thing: who is queued
\* is blocked sending to the owner of the queue, and who is blocked sending is
\* queued (sys_ipc_send, sys_ipc_sendrec, sys_ipc_receive, exit).
QueuesMatchStates == QueuedSendersAreSending /\ SendingIsQueued

\* A process is on a run queue or a hart at most once, and while it is, it is
\* not in the middle of a blocking call.  This keeps the "spurious wakeup" and
\* "inconsistent state" arms of sys_ipc_sendrec out of reach.
OneActivity ==
  \A p \in Procs :
    /\ tokens[p] <= 1
    /\ tokens[p] = 1 /\ InTable(p) =>
         ipc[p].kind \in {"None", "MessageAvailable", "SendComplete"}

\* A live process that is not waiting in a blocking IPC state can run: whoever
\* ends the wait of a blocked process also enqueues it.
UnblockedIsRunnable ==
  \A p \in Procs :
    status[p] = "Running" /\ ipc[p].kind \notin {"Sending", "Receiving", "ReceivingReply"}
      => tokens[p] > 0

\* Messages of one process reach a receiver in sending order, at most once,
\* and never reach two receivers.  (Interrupts are left out: one that was
\* queued in irq_pending is overtaken by one deposited directly.)
DeliveredInOrder ==
  \A r \in Procs : \A i \in 1..Len(delivered[r]) :
    LET m == delivered[r][i].msg IN
      m.source \in Procs =>
        /\ \A j \in 1..(i - 1) :
             delivered[r][j].msg.source = m.source => delivered[r][j].msg.n < m.n
        /\ \A r2 \in Procs \ {r} : \A j \in 1..Len(delivered[r2]) :
             delivered[r2][j].msg # m

\* A send that returned success was handed over: the message was copied to the
\* target or waits in its IPC state, unless the target has died since.
SendHandedOver ==
  \A a \in acked :
    \/ status[a.to] \in {"Zombie", "Gone"}
    \/ \E i \in 1..Len(delivered[a.to]) : delivered[a.to][i].msg = a.msg
    \/ ipc[a.to] = MsgAvailable(a.msg)

\* What sys_ipc_sendrec returns as the reply comes from the process it called.
ReplyFromCallee ==
  \A p \in Procs : \A i \in 1..Len(delivered[p]) :
    LET d == delivered[p][i] IN d.via = "sendrec" => d.msg.source = d.peer

\* No interrupt posted to the registered pid disappears: each was copied to
\* that process, is deposited in its IPC state, or is queued in irq_pending.
InterruptsKept ==
  \A k \in 1..irqs :
    LET m == [source |-> Hardware, n |-> k] IN
      \E d \in IrqPids :
        \/ \E i \in 1..Len(delivered[d]) : delivered[d][i].msg = m
        \/ ipc[d] = MsgAvailable(m)
        \/ \E i \in 1..Len(irqPending[d]) : irqPending[d][i] = m
=============================================================================
