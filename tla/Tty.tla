-------------------------------- MODULE Tty --------------------------------
(***************************************************************************)
(* A terminal: the line discipline fed by the UART                         *)
(* (poll_uart_into_linedisc, src/src/trap/interrupt.rs; TtyState,          *)
(* src/src/tty.rs) and sys_read on it (src/src/syscall/fs.rs).             *)
(*                                                                         *)
(* The interrupt handler runs on the boot hart, one at a time, against the *)
(* readers on the others.  A byte is an ordinary character, a newline or   *)
(* the control byte left by Ctrl-C or Ctrl-Z.                              *)
(***************************************************************************)
EXTENDS Epoll

CONSTANTS
  FgGroups,  \* the foreground process groups there may be; {} for none
  RawModes,  \* the modes the terminal may be in
  MaxChars   \* bound on the characters typed

ASSUME TtyAssumption == RawModes \subseteq BOOLEAN /\ MaxChars \in Nat

VARIABLES
  fgGroup,    \* members of the group of FOREGROUND_PID
  ttyBuf,     \* TtyState.buf
  ttyRaw,     \* TtyState.raw
  ttyWaiter,  \* TtyState.waiter
  ctrlc,      \* TtyState.ctrlc
  isr,        \* where the interrupt handler is
  pushed,     \* its any_pushed
  typed,      \* characters typed so far
  ttySignals  \* processes with SIGINT, SIGTSTP or SIGTTIN pending

ttyVars == <<fgGroup, ttyBuf, ttyRaw, ttyWaiter, ctrlc, isr, pushed, typed, ttySignals>>

\* Characters are typed in the programs that have the terminal open.
TtyUsed == \E p \in Procs : may[p] \cap {"tty_read", "tty"} # {}

TtyInit ==
  /\ ttyBuf = <<>> /\ ttyRaw \in (IF TtyUsed THEN RawModes ELSE {FALSE}) /\ ttyWaiter = Nobody /\ ctrlc = FALSE
  /\ fgGroup \in (IF TtyUsed THEN FgGroups ELSE {{}})
  /\ isr = "idle" /\ pushed = FALSE /\ typed = 0
  /\ ttySignals = {}

TtyTypeOK ==
  /\ ttyBuf \in Seq({"char", "newline", "control"})
  /\ ttyRaw \in BOOLEAN /\ ctrlc \in BOOLEAN /\ pushed \in BOOLEAN
  /\ ttyWaiter \in Procs \cup {Nobody}
  /\ typed \in 0..MaxChars
  /\ ttySignals \subseteq Procs \cup fgGroup

\* There is a byte (raw) or a whole line (canonical).
LineReady ==
  IF ttyRaw THEN ttyBuf # <<>> ELSE \E i \in DOMAIN ttyBuf : ttyBuf[i] = "newline"

-----------------------------------------------------------------------------
(* sys_read *)

\* A reader in the background gets EIO, its group SIGTTIN: the processes
\* outside of the foreground group are one group.  Otherwise a pending Ctrl-C
\* is consumed and read as end of file.
TtyRead(p) ==
  /\ Enters(p, "tty_read")
  /\ IF fgGroup # {} /\ p \notin fgGroup
     THEN /\ ttySignals' = ttySignals \cup (Procs \ fgGroup)
          /\ Moves(p, "tty_read", "user", WakesNobody)
          /\ UNCHANGED ctrlc
     ELSE /\ ctrlc' = FALSE
          /\ Moves(p, "tty_read", IF ctrlc THEN "user" ELSE "buffer", WakesNobody)
          /\ UNCHANGED ttySignals
  /\ UNCHANGED <<ttyBuf, fgGroup, ttyRaw, ttyWaiter, isr, pushed, typed>>

\* Under the buffer's lock: take up to n bytes, never beyond the first
\* newline of a canonical line; or register and block.
TtyReadBuffer(p, n) ==
  /\ At(p, {"tty_read"}, "buffer")
  /\ IF LineReady
     THEN \E whole \in DOMAIN ttyBuf :
            /\ IF ttyRaw THEN whole = Len(ttyBuf)
               ELSE ttyBuf[whole] = "newline" /\ \A j \in 1..(whole - 1) : ttyBuf[j] # "newline"
            /\ LET take == IF n < whole THEN n ELSE whole
               IN  ttyBuf' = SubSeq(ttyBuf, take + 1, Len(ttyBuf))
            /\ Goes(p, "user") /\ UNCHANGED ttyWaiter
     ELSE /\ ttyWaiter' = p
          /\ Goes(p, "asleep") /\ UNCHANGED ttyBuf
  /\ UNCHANGED <<fgGroup, ttyRaw, ctrlc, isr, pushed, typed, ttySignals>>

-----------------------------------------------------------------------------
(* poll_uart_into_linedisc *)

\* One character in the loop.  Raw mode keeps every byte; otherwise a
\* backspace takes back the last byte, whatever it is.
IsrChar(c) ==
  /\ isr \in {"idle", "loop"} /\ typed < MaxChars /\ TtyUsed
  /\ typed' = typed + 1
  /\ LET erases == c = "backspace" /\ ~ttyRaw
         byte   == IF c = "backspace" THEN "char" ELSE c
     IN /\ ttyBuf' = IF ~erases THEN Append(ttyBuf, byte)
                     ELSE IF ttyBuf = <<>> THEN ttyBuf
                     ELSE SubSeq(ttyBuf, 1, Len(ttyBuf) - 1)
        /\ pushed' = (pushed \/ ~erases)
  /\ isr' = "loop"
  /\ UNCHANGED <<wakeVars, fgGroup, ttyRaw, ttyWaiter, ctrlc, ttySignals>>

\* Ctrl-C and Ctrl-Z with a foreground group: the signal is made pending,
\* members that are Stopped are enqueued.  The loop ends.
IsrSignal ==
  /\ isr \in {"idle", "loop"} /\ typed < MaxChars /\ TtyUsed /\ fgGroup # {}
  /\ typed' = typed + 1
  /\ ttySignals' = ttySignals \cup fgGroup
  /\ entries' = [p \in Procs |->
       IF p \in stopped \cap fgGroup THEN entries[p] + 1 ELSE entries[p]]
  /\ stopped' = stopped \ fgGroup
  /\ isr' = "end"
  /\ UNCHANGED <<may, calls, call, pc, ttyBuf, fgGroup, ttyRaw, ttyWaiter, ctrlc, pushed>>

\* Without one, the flag is raised, then the byte pushed, then the reader woken.
IsrControl ==
  /\ isr \in {"idle", "loop"} /\ typed < MaxChars /\ TtyUsed /\ fgGroup = {}
  /\ typed' = typed + 1
  /\ ctrlc' = TRUE
  /\ isr' = "control"
  /\ UNCHANGED <<wakeVars, ttyBuf, fgGroup, ttyRaw, ttyWaiter, pushed, ttySignals>>

IsrControlByte ==
  /\ isr = "control"
  /\ ttyBuf' = Append(ttyBuf, "control")
  /\ isr' = "control_wake"
  /\ UNCHANGED <<wakeVars, fgGroup, ttyRaw, ttyWaiter, ctrlc, pushed, typed, ttySignals>>

\* The loop is over when the UART is empty; with nothing pushed that is all.
IsrEnd ==
  /\ isr \in {"loop", "end"}
  /\ isr' = IF pushed THEN "wake" ELSE "idle"
  /\ UNCHANGED <<wakeVars, ttyBuf, fgGroup, ttyRaw, ttyWaiter, ctrlc, pushed, typed, ttySignals>>

IsrWake ==
  /\ isr \in {"wake", "control_wake"}
  /\ entries' = [p \in Procs |-> IF p = ttyWaiter THEN entries[p] + 1 ELSE entries[p]]
  /\ ttyWaiter' = Nobody
  /\ isr' = IF isr = "wake" THEN "epoll" ELSE "control_epoll"
  /\ UNCHANGED <<may, calls, call, pc, stopped, ttyBuf, fgGroup, ttyRaw, ctrlc, pushed, typed, ttySignals>>

IsrEpoll ==
  /\ isr \in {"epoll", "control_epoll"}
  /\ IF "tty" \in epLists
     THEN /\ entries' = [p \in Procs |-> IF p = epWaiter THEN entries[p] + 1 ELSE entries[p]]
          /\ epWaiter' = Nobody
     ELSE UNCHANGED <<entries, epWaiter>>
  /\ isr' = IF isr = "epoll" THEN "idle" ELSE "end"
  /\ pushed' = IF isr = "epoll" THEN FALSE ELSE pushed
  /\ UNCHANGED <<may, calls, call, pc, stopped, ttyBuf, fgGroup, ttyRaw, ttyWaiter, ctrlc, typed, ttySignals,
                 epItems, epEdge, epLast, epLists, epSaved, mask, timers, eintr, cut>>

TtyStep ==
  \/ /\ \/ \E p \in Procs : TtyRead(p) \/ \E n \in {1, 3} : TtyReadBuffer(p, n)
        \/ \E c \in {"char", "newline", "backspace"} : IsrChar(c)
        \/ IsrSignal \/ IsrControl \/ IsrControlByte \/ IsrEnd \/ IsrWake
     /\ UNCHANGED epollVars
  \/ IsrEpoll

\* check_fd_readiness: any byte, not a whole line, or a pending Ctrl-C
TtyReady == ttyBuf # <<>> \/ ctrlc

-----------------------------------------------------------------------------
\* A reader blocked on a terminal that has what it waits for is about to be
\* woken by the interrupt handler, which pushes under the lock the reader
\* registered under and takes the waiter after its last character.
TtyReaderNotStranded ==
  \A p \in Procs :
    Sleeps(p, {"tty_read"}) /\ LineReady
      => ttyWaiter = p /\ isr \notin {"idle", "epoll"}

\* A Ctrl-C typed at a reader wakes it.  (The flag is looked at before the
\* lock is taken, so this fails.)
CtrlCSeen ==
  \A p \in Procs :
    Sleeps(p, {"tty_read"}) /\ ctrlc => isr \in {"control", "control_wake"}
=============================================================================
