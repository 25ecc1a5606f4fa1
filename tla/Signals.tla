------------------------------ MODULE Signals ------------------------------
(***************************************************************************)
(* Signals of one process: the signal fields of its process structure, the *)
(* signal calls of src/src/syscall/proc.rs and the delivery on the way     *)
(* back to user mode in src/src/trap/mod.rs.                               *)
(*                                                                         *)
(* A process is a record with                                              *)
(*   st      Running, Stopped, Zombie (and unborn, reaped: not in the      *)
(*           process table)                                                *)
(*   at      user, trap (about to return to user mode), or the call it     *)
(*           sleeps in                                                     *)
(*   pc      where it goes on, in instructions from the right place: -1    *)
(*           repeats the call                                              *)
(*   a0      the result register, as far as the kernel has written it      *)
(*   skipped a signal has moved it one instruction too far                 *)
(*   pend, blk, hand, smask    pending_signals, blocked_signals,           *)
(*                             signal_handlers and signal_masks            *)
(*   frames  the signal frames on its stack: [sig, blk, pc, a0]            *)
(***************************************************************************)
EXTENDS Integers, Sequences, FiniteSets, FiniteSetsExt

CONSTANTS Sigs   \* the signal numbers in use, a subset of 1..31

SIGHUP  == 1
SIGKILL == 9
SIGCHLD == 17
SIGCONT == 18
SIGSTOP == 19
SIGTSTP == 20
StopSigs == {SIGSTOP, SIGTSTP, 21, 22}

Default == 0   \* SIG_DFL
Ignore  == 1   \* SIG_IGN
Handler == 2   \* the address of a handler

\* The calls a process sleeps in with its state set to Stopped, and those of
\* them that moved sepc back so that the call is made again.
Sleeps  == {"sleep", "futex", "lock", "wait", "mail", "stop"}
Retried == {"wait", "mail"}

NoSignals ==
  [pend |-> {}, blk |-> {}, frames |-> <<>>, skipped |-> FALSE,
   hand |-> [s \in Sigs |-> Default], smask |-> [s \in Sigs |-> {}]]

\* wake_with_eintr: a Stopped process returns EINTR, one instruction later than
\* its frame says, which is right only if the call had stepped back.
Interrupted(r) ==
  IF r.st # "Stopped" THEN r
  ELSE [r EXCEPT !.pc = @ + 1, !.a0 = "EINTR", !.st = "Running", !.at = "user",
                 !.skipped = @ \/ r.at \notin Retried]

\* One target of sys_kill, other than SIGKILL.
Signalled(r, sig) ==
  LET q == [r EXCEPT !.pend = @ \cup {sig}]
  IN IF sig \in r.blk THEN q ELSE Interrupted(q)

\* sys_tgkill: the bit of the signal below, and nobody is woken.
ThreadSignalled(r, sig) == [r EXCEPT !.pend = @ \cup {sig - 1}]

\* sys_sigprocmask: SIG_BLOCK, SIG_UNBLOCK, SIG_SETMASK; then SIGKILL and
\* SIGSTOP are added.
NewMask(r, how, set) ==
  (CASE how = "block"   -> r.blk \cup set
     [] how = "unblock" -> r.blk \ set
     [] how = "setmask" -> set) \cup {SIGKILL, SIGSTOP}

\* sys_sigaction on anything but SIGKILL
NewAction(r, sig, h, mask) == [r EXCEPT !.hand[sig] = h, !.smask[sig] = mask]

\* sys_exec: the handlers go, the masks and the pending signals stay.
ExecSignals(r) == [r EXCEPT !.hand = [s \in Sigs |-> Default], !.frames = <<>>]

-----------------------------------------------------------------------------
(* The return to user mode: the lowest deliverable signal is taken. *)

Deliverable(r) == r.pend \ r.blk
Taken(r) == Min(Deliverable(r))
TakesOne(r) == [r EXCEPT !.pend = @ \ {Taken(r)}]

Disposition(r) ==
  LET sig == Taken(r)
      h   == r.hand[sig]
      own == sig \notin {SIGKILL, SIGCONT}
  IN CASE sig = SIGKILL                                -> "kill"
       [] sig = SIGCONT                                -> "continue"
       [] own /\ h = Handler                           -> "handle"
       [] own /\ h = Ignore                            -> "ignore"
       [] own /\ h = Default /\ sig \in StopSigs       -> "stop"
       [] own /\ h = Default /\ sig = SIGCHLD          -> "ignore"
       [] own /\ h = Default /\ sig \notin StopSigs \cup {SIGCHLD} -> "terminate"

Continues(r) ==
  [TakesOne(r) EXCEPT !.pend = @ \ StopSigs, !.at = "user",
                      !.st = IF @ = "Stopped" THEN "Running" ELSE @]
Stops(r)     == [TakesOne(r) EXCEPT !.st = "Stopped", !.at = "stop"]
Ignores(r)   == [TakesOne(r) EXCEPT !.at = "user"]

\* Faulty variant: the handler runs with its own signal unblocked.
RunsHandlerReentrantly(r) ==
  LET sig == Taken(r) IN
  [TakesOne(r) EXCEPT
     !.frames = Append(@, [sig |-> sig, blk |-> r.blk, pc |-> r.pc, a0 |-> r.a0]),
     !.blk = @ \cup r.smask[sig], !.pc = 0, !.a0 = "-", !.at = "user"]

\* The frame keeps the mask and the place; the handler runs with the signal
\* and its sa_mask blocked.
RunsHandler(r) ==
  LET sig == Taken(r) IN
  [TakesOne(r) EXCEPT
     !.frames = Append(@, [sig |-> sig, blk |-> r.blk, pc |-> r.pc, a0 |-> r.a0]),
     !.blk = @ \cup r.smask[sig] \cup {sig}, !.pc = 0, !.a0 = "-", !.at = "user"]

\* sys_sigreturn
Returns(r) ==
  LET f == r.frames[Len(r.frames)]
  IN [r EXCEPT !.frames = SubSeq(@, 1, Len(@) - 1), !.blk = f.blk, !.pc = f.pc,
               !.a0 = f.a0, !.at = "trap"]
=============================================================================
