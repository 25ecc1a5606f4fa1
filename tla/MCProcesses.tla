----------------------------- MODULE MCProcesses -----------------------------
(***************************************************************************)
(* Running processes and ending them: the scheduler of the harts (Sched),  *)
(* the family tree of the kernel, in which parents wait for children       *)
(* (WaitPid), the one of the process manager server (PmServer), and the    *)
(* lock that makes the kernel's critical sections (KernelMutex).  WaitPid  *)
(* and PmServer leave open when a process executes, so they need nothing   *)
(* of the scheduler's state, a process is of one of the two trees, and the *)
(* three take a critical section as one step: a behaviour is of one of the *)
(* four.                                                                   *)
(***************************************************************************)
EXTENDS Sched, WaitPid, PmServer, KernelMutex

VARIABLES scene

processVars == <<scene, schedVars, vars, pmVars, lockVars>>

ProcessInit == scene \in {"sched", "family", "pm", "lock"} /\ SchedInit /\ Init /\ PmInit /\ LockInit

\* The harts never stop; a family may have nothing left to do, and a panic
\* stops a hart.
ProcessNext ==
  \/ scene = "sched" /\ SchedStep /\ UNCHANGED <<scene, vars, pmVars, lockVars>>
  \/ scene = "family" /\ Next /\ UNCHANGED <<scene, schedVars, pmVars, lockVars>>
  \/ scene = "pm" /\ PmStep /\ UNCHANGED <<scene, schedVars, vars, lockVars>>
  \/ scene = "lock" /\ LockStep /\ UNCHANGED <<scene, schedVars, vars, pmVars>>
  \/ scene # "sched" /\ UNCHANGED processVars

ProcessSpec == ProcessInit /\ [][ProcessNext]_processVars

\* Kernel code runs to completion and deadlines pass.  The 10 ms timer of a
\* hart stays pending while interrupts are off and is taken on a return to
\* user mode or in wfi, however short the stay there: strong fairness.
\* Nothing is assumed of user code.
SchedFairness ==
  /\ \A h \in Harts :
       /\ WF_schedVars(scene = "sched" /\ KernelStep(h))
       /\ SF_schedVars(scene = "sched" /\ TimerFires(h))
  /\ \A p \in Tasks : WF_schedVars(scene = "sched" /\ TimePasses(p))

\* A process in the kernel makes progress, exit() finishes, and init keeps
\* calling waitpid(-1) with options 0, as the loop of its main does.  Nothing
\* is assumed of what other processes call.
FamilyFairness ==
  \A p \in Procs :
    /\ WF_vars(scene = "family" /\ WaitStep(p))
    /\ WF_vars(scene = "family" /\ ExitStep(p))
    /\ p = InitProc => WF_vars(scene = "family" /\ CallWaitpid(p))

FairProcessSpec == ProcessSpec /\ SchedFairness /\ FamilyFairness

-----------------------------------------------------------------------------
\* The variables of the scheduler, the family trees and the lock keep
\* their types.
ProcessTypeOK == SchedTypeOK /\ TypeOK /\ PmTypeOK /\ LockTypeOK

\* A parent and its children know of each other: no zombie is out of reach of
\* the waitpid of its parent, and no child has a parent that is gone (fork,
\* exit, waitpid of the kernel).
FamilyIntact == ZombieFindable /\ OrphansAdopted

\* The process manager's own tree is right: every child is in its parent's
\* list, no exit a parent waits for is overlooked, none is reported twice.
PmTreeSound == InParentsList /\ NoExitOverlooked /\ ExitsReportedOnce

\* Who is told of an exit is the parent; waitpid of the kernel takes only dead
\* processes out of the table, and what it finds by a scan is a child it was
\* asked for, reported for the first time (what it pops from wait_result need
\* be neither); the replies of pm-server are about a child that was asked for.
ReportsAreRight == ReapsOnlyZombies /\ ReportedToParent /\ []ScansAreRight /\ AnsweredAsAsked

\* With one priority level no process starves: each is dispatched again and
\* again, however the others yield, sleep or spin, until it exits (schedule,
\* enqueue, the timer interrupt).
EveryoneRuns == scene = "sched" => \A p \in Tasks : []<>(p \in exited \/ OnHart(p))

-----------------------------------------------------------------------------
(* The instances TLC checks: two harts and up to three processes to run; *)
(* init, a parent and a child.                                           *)

CONSTANTS a, b, k, h1, h2, i, p, c

AB        == {a, b}
ABK       == {a, b, k}
JustB     == {b}
TwoHarts  == {h1, h2}
OneHart   == {h1}
OneLevel  == {16}
TwoLevels == {8, 16}
AllNormal == [t \in Tasks |-> 16]
AServer   == [t \in Tasks |-> IF t = a THEN 8 ELSE 16]
OrderB    == <<b>>
OrderAB   == <<a, b>>
OrderABK  == <<a, b, k>>
IPC       == {i, p, c}
NoProcs   == {}
JustC     == {c}
PC        == {p, c}
Chain     == [q \in Procs |-> IF q = i THEN Nobody ELSE IF q = p THEN i ELSE p]
TwoGroups == [q \in Procs |-> IF q = i THEN "g" ELSE "h"]
TwoSessions == [q \in Procs |-> IF q = i THEN "s" ELSE "t"]
Blocks    == {<<AnyChild, "block">>}
AllWaits  == {AnyChild, OwnGroup, c} \X {"block"}
=============================================================================
