------------------------------ MODULE Mailbox ------------------------------
(***************************************************************************)
(* Mailboxes: sys_mailbox_send and sys_mailbox_receive                     *)
(* (src/src/syscall/ipc.rs).                                               *)
(***************************************************************************)
EXTENDS Epoll

VARIABLES
  mailbox,        \* messages in each process's mailbox
  mailboxWaiter,  \* processes whose mailbox_waiter is set
  tableLock,      \* the sender that holds PROCESS_TABLE
  addressee       \* the process it sends to

mailVars == <<mailbox, mailboxWaiter, tableLock, addressee>>

MailboxInit ==
  /\ mailbox = [p \in Procs |-> 0]
  /\ mailboxWaiter = {}
  /\ tableLock = Nobody /\ addressee = Nobody

MailboxTypeOK ==
  /\ mailbox \in [Procs -> Nat]
  /\ mailboxWaiter \subseteq Procs
  /\ {tableLock, addressee} \subseteq Procs \cup {Nobody}

MailboxReceive(p) ==
  /\ Enters(p, "mailbox_receive")
  /\ mailbox' = [mailbox EXCEPT ![p] = IF @ > 0 THEN @ - 1 ELSE 0]
  /\ Moves(p, "mailbox_receive", IF mailbox[p] > 0 THEN "user" ELSE "register", WakesNobody)
  /\ UNCHANGED <<mailboxWaiter, tableLock, addressee>>

MailboxRegister(p) ==
  /\ At(p, {"mailbox_receive"}, "register")
  /\ mailboxWaiter' = mailboxWaiter \cup {p}
  /\ Goes(p, "stop")
  /\ UNCHANGED <<mailbox, tableLock, addressee>>

MailboxStop(p) ==
  /\ At(p, {"mailbox_receive"}, "stop")
  /\ StopsAsleep(p)
  /\ UNCHANGED mailVars

\* The sender holds PROCESS_TABLE over its three steps; the receiver's flag
\* and state are not under that lock.
MailboxSend(p, to) ==
  /\ Enters(p, "mailbox_send") /\ tableLock = Nobody
  /\ mailbox' = [mailbox EXCEPT ![to] = @ + 1]
  /\ tableLock' = p /\ addressee' = to
  /\ Moves(p, "mailbox_send", "flag", WakesNobody)
  /\ UNCHANGED mailboxWaiter

MailboxFlag(p) ==
  /\ At(p, {"mailbox_send"}, "flag")
  /\ mailboxWaiter' = mailboxWaiter \ {addressee}
  /\ IF addressee \in mailboxWaiter
     THEN Goes(p, "state") /\ UNCHANGED <<tableLock, addressee>>
     ELSE Goes(p, "user") /\ tableLock' = Nobody /\ addressee' = Nobody
  /\ UNCHANGED mailbox

\* Faulty variant: a stopped receiver is marked Running and not enqueued.
MailboxStateUnqueued(p) ==
  /\ At(p, {"mailbox_send"}, "state")
  /\ stopped' = stopped \ {addressee}
  /\ pc' = [pc EXCEPT ![p] = "user"] /\ call' = [call EXCEPT ![p] = "none"]
  /\ tableLock' = Nobody /\ addressee' = Nobody
  /\ UNCHANGED <<may, calls, entries, mailbox, mailboxWaiter>>

MailboxState(p) ==
  /\ At(p, {"mailbox_send"}, "state")
  /\ stopped' = stopped \ {addressee}
  /\ entries' = [entries EXCEPT
       ![addressee] = IF addressee \in stopped THEN @ + 1 ELSE @]
  /\ pc' = [pc EXCEPT ![p] = "user"] /\ call' = [call EXCEPT ![p] = "none"]
  /\ tableLock' = Nobody /\ addressee' = Nobody
  /\ UNCHANGED <<may, calls, mailbox, mailboxWaiter>>

MailboxStep(p) ==
  /\ \/ MailboxReceive(p) \/ MailboxRegister(p) \/ MailboxStop(p)
     \/ \E to \in Procs : MailboxSend(p, to)
     \/ MailboxFlag(p) \/ MailboxState(p)
  /\ UNCHANGED epollVars

-----------------------------------------------------------------------------
\* A process blocked with mail is about to be woken.  (Neither the mailbox
\* nor the flag is looked at again before it blocks, so this fails.)
MailboxNotStranded ==
  \A p \in Procs :
    Sleeps(p, {"mailbox_receive"}) /\ mailbox[p] > 0 => addressee = p
=============================================================================
