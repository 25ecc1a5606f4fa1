------------------------------ MODULE WaitPid ------------------------------
(***************************************************************************)
(* Process family tree: fork, exit() with its reparenting and wake-up      *)
(* phases (src/src/posix/spawn.rs), sys_waitpid and reap_zombie            *)
(* (src/src/syscall/proc.rs).                                              *)
(*                                                                         *)
(* Both sides release PROCESS_TABLE between their phases.  Each lock       *)
(* section of sys_waitpid (pc) and of exit() (dying) is one step, and any  *)
(* other process may run in between.  A blocked waitpid rewinds sepc, so a *)
(* woken process starts the call again from the top.                       *)
(***************************************************************************)
EXTENDS Naturals, Sequences, FiniteSets

CONSTANTS
  Procs,      \* process identifiers
  InitProc,   \* pid 1
  Nobody,     \* pid 0, the parent of init
  Unborn,     \* identifiers fork may hand out
  FirstParent,\* the parent of every process present at start
  AnyChild,   \* target -1
  OwnGroup,   \* target 0
  WaitCalls,  \* targets and options passed to waitpid in this instance
  GroupOf,    \* Process.pgid
  SessionOf,  \* Process.sid
  Mortal,     \* processes that may exit
  Killable    \* processes another process may SIGKILL

ASSUME WaitPidAssumption ==
  /\ InitProc \in Procs /\ Nobody \notin Procs
  /\ AnyChild \notin Procs /\ OwnGroup \notin Procs /\ AnyChild # OwnGroup
  /\ Unborn \subseteq Procs \ {InitProc}
  /\ FirstParent \in [Procs -> Procs \cup {Nobody}]
  /\ WaitCalls \subseteq (Procs \cup {AnyChild, OwnGroup}) \X {"block", "nohang"}
  /\ Mortal \subseteq Procs \ {InitProc} /\ Killable \subseteq Procs \ {InitProc}

VARIABLES
  st,       \* Process.state; "Free" before fork, "Gone" once reaped
  ppid,     \* Process.ppid
  kids,     \* Process.children
  waitTarget, \* Process.wait_target, Nobody for None
  waitResult, \* Process.wait_result
  pc,       \* where a process is in sys_waitpid
  arg,      \* its target and option
  victim,   \* the zombie it is about to reap
  dying,    \* the next phase of exit() for a process
  estate,   \* what exit() read in its first phase: parent and children
  reports   \* history: times each child was reported, to whom and for what

famVars  == <<st, ppid, kids, waitTarget, waitResult>>
callVars == <<pc, arg, victim>>
exitVars == <<dying, estate>>
vars == <<famVars, callVars, exitVars, reports>>

InTable(p) == st[p] \in {"Running", "Stopped", "Zombie"}

\* A process executes its own system calls: it is on a hart.  A SIGKILLed one
\* may go on until it next enters schedule().
Executes(p) ==
  st[p] = "Running" \/ (st[p] = "Zombie" /\ pc[p] \notin {"dead", "asleep"})

IsIn(x, s) == \E i \in 1..Len(s) : s[i] = x
Without(s, x) == SelectSeq(s, LAMBDA y : y # x)

\* The children list of a process at start.
KidsOf(p) ==
  CHOOSE s \in UNION {[1..n -> Procs] : n \in 0..Cardinality(Procs)} :
    /\ \A q \in Procs : IsIn(q, s) <=> (q \notin Unborn /\ FirstParent[q] = p)
    /\ \A i, j \in 1..Len(s) : s[i] = s[j] => i = j

Init ==
  /\ st = [p \in Procs |-> IF p \in Unborn THEN "Free" ELSE "Running"]
  /\ ppid = FirstParent
  /\ kids = [p \in Procs |-> KidsOf(p)]
  /\ waitTarget = [p \in Procs |-> Nobody]
  /\ waitResult = [p \in Procs |-> <<>>]
  /\ pc = [p \in Procs |-> "user"]
  /\ arg = [p \in Procs |-> [target |-> AnyChild, option |-> "nohang"]]
  /\ victim = [p \in Procs |-> Nobody]
  /\ dying = [p \in Procs |-> "no"]
  /\ estate = [p \in Procs |-> [parent |-> Nobody, children |-> <<>>]]
  /\ reports = {}

-----------------------------------------------------------------------------
(* fork *)

\* Process::new and sys_fork: table entry, parent's children list, enqueue.
Fork(p, c) ==
  /\ pc[p] = "user" /\ Executes(p)
  /\ c \in Unborn /\ st[c] = "Free"
  /\ st' = [st EXCEPT ![c] = "Running"]
  /\ ppid' = [ppid EXCEPT ![c] = p]
  /\ kids' = [kids EXCEPT ![p] = Append(@, c)]
  /\ UNCHANGED <<waitTarget, waitResult, callVars, exitVars, reports>>

-----------------------------------------------------------------------------
(* exit() *)

\* try_wake_parent: queue the result when the parent is not waiting or waits
\* for this child, and wake it if it sleeps.
WakeParent(p, c, results, states) ==
  LET t == waitTarget[p]
  IN IF t \in {Nobody, AnyChild, c}
     THEN [results |-> [results EXCEPT ![p] = Append(@, c)],
           states  |-> IF states[p] = "Stopped"
                       THEN [states EXCEPT ![p] = "Running"] ELSE states]
     ELSE [results |-> results, states |-> states]

\* Phase 1: mark zombie, read parent and children.
MarkZombie(p) ==
  /\ st' = [st EXCEPT ![p] = "Zombie"]
  /\ estate' = [estate EXCEPT ![p] = [parent |-> ppid[p], children |-> kids[p]]]
  /\ dying' = [dying EXCEPT ![p] = "reparent"]

SysExit(p) ==
  /\ p \in Mortal /\ pc[p] = "user" /\ st[p] = "Running" /\ dying[p] = "no"
  /\ MarkZombie(p)
  /\ pc' = [pc EXCEPT ![p] = "dead"]
  /\ UNCHANGED <<ppid, kids, waitTarget, waitResult, arg, victim, reports>>

SysKill(k, p) ==
  /\ k # p /\ p \in Killable /\ pc[k] = "user" /\ Executes(k)
  /\ InTable(p) /\ dying[p] = "no"
  /\ MarkZombie(p)
  /\ UNCHANGED <<ppid, kids, waitTarget, waitResult, callVars, reports>>

\* Faulty variant: adopted children are reported whether they are dead or not.
ReparentReportingAll(p) ==
  /\ dying[p] = "reparent"
  /\ LET adopted == {c \in Procs : IsIn(c, estate[p].children)}
         dead    == {c \in adopted : InTable(c)}
         order   == SelectSeq(estate[p].children, LAMBDA c : c \in dead)
     IN /\ ppid' = [c \in Procs |-> IF c \in adopted /\ InTable(c) THEN InitProc ELSE ppid[c]]
        /\ kids' = [kids EXCEPT ![InitProc] =
                      @ \o SelectSeq(estate[p].children, LAMBDA c : ~IsIn(c, @))]
        /\ IF dead # {} /\ waitTarget[InitProc] \in {Nobody, AnyChild}
           THEN /\ waitResult' = [waitResult EXCEPT ![InitProc] = @ \o order]
                /\ st' = [st EXCEPT ![InitProc] = IF @ = "Stopped" THEN "Running" ELSE @]
           ELSE UNCHANGED <<waitResult, st>>
  /\ dying' = [dying EXCEPT ![p] = "wake"]
  /\ UNCHANGED <<waitTarget, callVars, estate, reports>>

\* Faulty variant: ppid is updated but init's children list is not.
ReparentPpidOnly(p) ==
  /\ dying[p] = "reparent"
  /\ ppid' = [c \in Procs |-> IF IsIn(c, estate[p].children) /\ InTable(c)
                              THEN InitProc ELSE ppid[c]]
  /\ dying' = [dying EXCEPT ![p] = "wake"]
  /\ UNCHANGED <<st, kids, waitTarget, waitResult, callVars, estate, reports>>

\* Phase 2: init adopts the children read in phase 1; those already dead are
\* reported to it.  The wait target of init stays put meanwhile: the order of
\* the reports is the order of the list.
Reparent(p) ==
  /\ dying[p] = "reparent"
  /\ LET adopted == {c \in Procs : IsIn(c, estate[p].children)}
         dead    == {c \in adopted : st[c] = "Zombie" /\
                       waitTarget[InitProc] \in {Nobody, AnyChild, c}}
         order   == SelectSeq(estate[p].children, LAMBDA c : c \in dead)
     IN /\ ppid' = [c \in Procs |-> IF c \in adopted /\ InTable(c) THEN InitProc ELSE ppid[c]]
        /\ kids' = [kids EXCEPT ![InitProc] =
                      @ \o SelectSeq(estate[p].children, LAMBDA c : ~IsIn(c, @))]
        /\ waitResult' = [waitResult EXCEPT ![InitProc] = @ \o order]
        /\ st' = [st EXCEPT ![InitProc] =
                    IF dead # {} /\ @ = "Stopped" THEN "Running" ELSE @]
  /\ dying' = [dying EXCEPT ![p] = "wake"]
  /\ UNCHANGED <<waitTarget, callVars, estate, reports>>

\* Phase 3: tell the parent read in phase 1.
NotifyParent(p) ==
  /\ dying[p] = "wake"
  /\ LET q == estate[p].parent
         w == WakeParent(q, p, waitResult, st)
     IN IF q # Nobody /\ InTable(q)
        THEN waitResult' = w.results /\ st' = w.states
        ELSE UNCHANGED <<waitResult, st>>
  /\ dying' = [dying EXCEPT ![p] = "orphans"]
  /\ UNCHANGED <<ppid, kids, waitTarget, callVars, estate, reports>>

\* A process group with no member whose parent, other than the dying process,
\* is in the member's session.
Orphaned(g, p) ==
  \A q \in Procs :
    (InTable(q) /\ GroupOf[q] = g /\ ppid[q] \notin {p, Nobody} /\ InTable(ppid[q]))
      => SessionOf[ppid[q]] # SessionOf[q]

\* Phase 4: stopped members of groups orphaned by this exit are woken for
\* SIGHUP and SIGCONT, also when they are stopped in a system call.
WakeOrphans(p) ==
  /\ dying[p] = "orphans"
  /\ LET near   == {c \in Procs : InTable(c) /\ (IsIn(c, estate[p].children) \/ c = p)}
         groups == {g \in {GroupOf[c] : c \in near} : Orphaned(g, p)}
     IN st' = IF estate[p].children = <<>> THEN st
              ELSE [q \in Procs |-> IF st[q] = "Stopped" /\ GroupOf[q] \in groups
                                    THEN "Running" ELSE st[q]]
  /\ dying' = [dying EXCEPT ![p] = "done"]
  /\ UNCHANGED <<ppid, kids, waitTarget, waitResult, callVars, estate, reports>>

-----------------------------------------------------------------------------
(* sys_waitpid *)

Goto(p, place) == pc' = [pc EXCEPT ![p] = place]

\* How the two scans under the table lock match a child.
Matches(p, target, c) ==
  \/ target = c
  \/ target = AnyChild
  \/ target = OwnGroup /\ InTable(c) /\ GroupOf[c] = GroupOf[p]

\* The rescan before sleeping takes any child for a group target.
MatchesLoosely(target, c) == target \in {c, AnyChild, OwnGroup}

\* c is the first of p's children that has exited and is in accepted.
FirstZombie(p, c, accepted) ==
  \E i \in 1..Len(kids[p]) :
    /\ kids[p][i] = c /\ st[c] = "Zombie" /\ c \in accepted
    /\ \A j \in 1..(i - 1) : ~(st[kids[p][j]] = "Zombie" /\ kids[p][j] \in accepted)

CallWaitpid(p) ==
  \E w \in WaitCalls :
    /\ pc[p] = "user" /\ Executes(p) /\ w[1] # p
    /\ arg' = [arg EXCEPT ![p] = [target |-> w[1], option |-> w[2]]]
    /\ Goto(p, "pop")
    /\ UNCHANGED <<famVars, victim, exitVars, reports>>

\* Take a queued result, whatever child it is about.
PopResult(p) ==
  /\ pc[p] = "pop" /\ Executes(p)
  /\ IF waitResult[p] # <<>>
     THEN /\ victim' = [victim EXCEPT ![p] = Head(waitResult[p])]
          /\ waitResult' = [waitResult EXCEPT ![p] = Tail(@)]
          /\ Goto(p, "reap_result")
     ELSE Goto(p, "scan") /\ UNCHANGED <<victim, waitResult>>
  /\ UNCHANGED <<st, ppid, kids, waitTarget, arg, exitVars, reports>>

ScanZombies(p) ==
  /\ pc[p] = "scan" /\ Executes(p)
  /\ LET accepted == {c \in Procs : Matches(p, arg[p].target, c)}
     IN IF \E c \in Procs : FirstZombie(p, c, accepted)
        THEN /\ victim' = [victim EXCEPT ![p] = CHOOSE c \in Procs : FirstZombie(p, c, accepted)]
             /\ Goto(p, "reap")
        ELSE Goto(p, "children") /\ UNCHANGED victim
  /\ UNCHANGED <<famVars, arg, exitVars, reports>>

\* ECHILD without a matching child, 0 with WNOHANG, else get ready to sleep.
CheckChildren(p) ==
  /\ pc[p] = "children" /\ Executes(p)
  /\ LET has == \E c \in Procs : IsIn(c, kids[p]) /\ Matches(p, arg[p].target, c)
     IN Goto(p, IF ~has \/ arg[p].option = "nohang" THEN "user" ELSE "arm")
  /\ UNCHANGED <<famVars, arg, victim, exitVars, reports>>

SetTarget(p) ==
  /\ pc[p] = "arm" /\ Executes(p)
  /\ waitTarget' = [waitTarget EXCEPT ![p] = arg[p].target]
  /\ Goto(p, "recheck")
  /\ UNCHANGED <<st, ppid, kids, waitResult, arg, victim, exitVars, reports>>

\* The double check: the queue once more, then the table once more.
PopAgain(p) ==
  /\ pc[p] = "recheck" /\ Executes(p)
  /\ IF waitResult[p] # <<>>
     THEN /\ victim' = [victim EXCEPT ![p] = Head(waitResult[p])]
          /\ waitResult' = [waitResult EXCEPT ![p] = Tail(@)]
          /\ waitTarget' = [waitTarget EXCEPT ![p] = Nobody]
          /\ Goto(p, "reap_result")
     ELSE Goto(p, "rescan") /\ UNCHANGED <<victim, waitResult, waitTarget>>
  /\ UNCHANGED <<st, ppid, kids, arg, exitVars, reports>>

ScanAgain(p) ==
  /\ pc[p] = "rescan" /\ Executes(p)
  /\ LET accepted == {c \in Procs : MatchesLoosely(arg[p].target, c)}
     IN IF \E c \in Procs : FirstZombie(p, c, accepted)
        THEN /\ victim' = [victim EXCEPT ![p] = CHOOSE c \in Procs : FirstZombie(p, c, accepted)]
             /\ waitTarget' = [waitTarget EXCEPT ![p] = Nobody]
             /\ Goto(p, "reap")
        ELSE Goto(p, "stop") /\ UNCHANGED <<victim, waitTarget>>
  /\ UNCHANGED <<st, ppid, kids, waitResult, arg, exitVars, reports>>

\* Mark Stopped and leave the hart; nothing is looked at again.
FallAsleep(p) ==
  /\ pc[p] = "stop" /\ Executes(p)
  /\ st' = [st EXCEPT ![p] = "Stopped"]
  /\ Goto(p, "asleep")
  /\ UNCHANGED <<ppid, kids, waitTarget, waitResult, arg, victim, exitVars, reports>>

\* Dispatched again: the call starts over.
WakeUp(p) ==
  /\ pc[p] = "asleep" /\ st[p] = "Running"
  /\ Goto(p, "pop")
  /\ UNCHANGED <<famVars, arg, victim, exitVars, reports>>

Times(c) == Cardinality({r \in reports : r.child = c})

\* What the caller is told: the child, for the n-th time, from the queue of
\* results or from a scan of the children.
Report(p) ==
  [n |-> Times(victim[p]) + 1, child |-> victim[p], to |-> p, target |-> arg[p].target,
   queued |-> pc[p] = "reap_result"]

Reaping(p) == pc[p] \in {"reap", "reap_result"} /\ Executes(p)

\* Faulty variant: the child stays in the table.
ReapWithoutRemoval(p) ==
  /\ Reaping(p)
  /\ LET z == victim[p]
     IN /\ waitTarget' = [waitTarget EXCEPT ![p] = Nobody]
        /\ reports' = reports \cup {Report(p)}
        /\ kids' = [kids EXCEPT ![p] = Without(@, z)]
  /\ victim' = [victim EXCEPT ![p] = Nobody]
  /\ Goto(p, "user")
  /\ UNCHANGED <<st, ppid, waitResult, arg, exitVars>>

\* reap_zombie: remove the entry if it is still there, and report the child
\* in either case.
Reap(p) ==
  /\ Reaping(p)
  /\ LET z == victim[p]
     IN /\ IF InTable(z)
           THEN /\ st' = [st EXCEPT ![z] = "Gone"]
                /\ kids' = [kids EXCEPT ![p] = Without(@, z)]
                /\ waitTarget' = [waitTarget EXCEPT ![p] = Nobody]
           ELSE UNCHANGED <<st, kids, waitTarget>>
        /\ reports' = reports \cup {Report(p)}
  /\ victim' = [victim EXCEPT ![p] = Nobody]
  /\ Goto(p, "user")
  /\ UNCHANGED <<ppid, waitResult, arg, exitVars>>

-----------------------------------------------------------------------------
WaitStep(p) ==
  \/ PopResult(p) \/ ScanZombies(p) \/ CheckChildren(p) \/ SetTarget(p)
  \/ PopAgain(p) \/ ScanAgain(p) \/ FallAsleep(p) \/ WakeUp(p) \/ Reap(p)

ExitStep(p) == Reparent(p) \/ NotifyParent(p) \/ WakeOrphans(p)

Next ==
  \E p \in Procs :
    \/ WaitStep(p) \/ ExitStep(p) \/ CallWaitpid(p) \/ SysExit(p)
    \/ \E c \in Procs : Fork(p, c) \/ SysKill(p, c)

Spec == Init /\ [][Next]_vars

-----------------------------------------------------------------------------
(* Properties *)

Places == {"user", "pop", "scan", "children", "arm", "recheck", "rescan", "stop",
           "asleep", "reap", "reap_result", "dead"}

\* Every variable keeps its type, and a process about to reap holds a child.
TypeOK ==
  /\ st \in [Procs -> {"Free", "Running", "Stopped", "Zombie", "Gone"}]
  /\ ppid \in [Procs -> Procs \cup {Nobody}]
  /\ kids \in [Procs -> Seq(Procs)] /\ waitResult \in [Procs -> Seq(Procs)]
  /\ waitTarget \in [Procs -> Procs \cup {Nobody, AnyChild, OwnGroup}]
  /\ pc \in [Procs -> Places]
  /\ dying \in [Procs -> {"no", "reparent", "wake", "orphans", "done"}]
  /\ \A p \in Procs : Reaping(p) => victim[p] \in Procs

\* A dead child whose parent is alive is in that parent's children list, so a
\* later waitpid can find it; also after the child was handed to init.
ZombieFindable ==
  \A c \in Procs :
    (st[c] = "Zombie" /\ ppid[c] # Nobody /\ st[ppid[c]] \in {"Running", "Stopped"})
      => IsIn(c, kids[ppid[c]])

\* Once exit() of p has finished, nobody has p for a parent any more.
OrphansAdopted ==
  \A p, c \in Procs : dying[p] = "done" /\ ppid[c] = p => ~InTable(c)

\* waitpid takes only dead processes out of the table.
ReapsOnlyZombies ==
  [][\A p \in Procs : st'[p] = "Gone" => st[p] \in {"Zombie", "Gone"}]_vars

\* A child is reported to its parent, also when it changed parents while its
\* exit was in progress.
ReportedToParent ==
  [][\A r \in reports' \ reports : r.to = ppid[r.child]]_vars

\* A child that waitpid finds by its own scan of the children is one it was
\* asked for, and is reported for the first time, however exit() of the child
\* and earlier calls interleave.  Nothing of the kind holds for a result taken
\* from wait_result, which is popped whatever the target is and may be of a
\* child that a scan has already reported (ReportedOnce, TargetRespected).
ScansAreRight ==
  \A r \in reports : ~r.queued => r.n = 1 /\ (r.target \in Procs => r.child = r.target)

\* waitpid reports a child at most once.
ReportedOnce == \A r \in reports : r.n = 1

\* waitpid for one pid reports that pid.
TargetRespected == \A r \in reports : r.target \in Procs => r.child = r.target

\* No exit is missed: a process asleep in waitpid has no matching child whose
\* exit() is over.
NoMissedExit ==
  \A p, c \in Procs :
    (pc[p] = "asleep" /\ st[p] = "Stopped" /\ IsIn(c, kids[p])
       /\ st[c] = "Zombie" /\ dying[c] = "done")
      => ~Matches(p, arg[p].target, c)

\* A process asleep in a waitpid that missed the exit of c.
Missed(c) ==
  \E p \in Procs : pc[p] = "asleep" /\ st[p] = "Stopped" /\ IsIn(c, kids[p])

\* A dead child of init, its own or an adopted one, is eventually reaped while
\* init keeps calling waitpid(-1), unless init has gone to sleep in the window
\* in which sys_waitpid misses an exit (exit, try_wake_parent, sys_waitpid).
ZombiesReaped ==
  \A c \in Procs : (dying[c] = "done" /\ ppid[c] = InitProc) ~> (st[c] = "Gone" \/ Missed(c))
=============================================================================
