------------------------------- MODULE Sched -------------------------------
(***************************************************************************)
(* The multi-hart scheduler: schedule(), enqueue and wake_sleepers         *)
(* (src/src/posix/process.rs), the timer interrupt                         *)
(* (src/src/trap/interrupt.rs) and the system calls that give the hart     *)
(* away or change who may run (src/src/syscall/proc.rs, pm.rs).            *)
(*                                                                         *)
(* schedule() never switches stacks: until a hart returns to user mode it  *)
(* stays on the kernel stack of the process it last trapped from, on[h],   *)
(* also while it idles.  Each lock section of schedule(), sys_nanosleep    *)
(* and wake_sleepers is a step; the harts interleave between them.         *)
(***************************************************************************)
EXTENDS Naturals, Sequences

CONSTANTS
  Harts,       \* hart identifiers
  Tasks,       \* process identifiers, all spawned before the harts start
  Prios,       \* priority levels in use, a finite set of naturals
  PrioOf,      \* Process.priority of each process when the harts start
  NormalPrio,  \* PRIO_NORMAL, the level posix_spawn enqueues at
  SpawnOrder,  \* the processes, each once, in the order kmain spawns them
  None,        \* pid 0 of CURRENT_PIDS, and "no process"
  BootStack,   \* the static stack a hart starts on
  KillableTasks,    \* processes another process may SIGKILL in this instance
  Renicing,    \* processes that call sys_setpriority in this instance
  Sleeping,    \* processes that call sys_nanosleep in this instance
  MaxSignals   \* bound on the signals sent

ASSUME SchedAssumption ==
  /\ None \notin Tasks /\ BootStack \notin Tasks /\ None # BootStack
  /\ Prios \subseteq Nat /\ PrioOf \in [Tasks -> Prios] /\ NormalPrio \in Prios
  /\ SpawnOrder \in Seq(Tasks)
  /\ \A p \in Tasks : \E i \in DOMAIN SpawnOrder : SpawnOrder[i] = p
  /\ \A i, j \in DOMAIN SpawnOrder : SpawnOrder[i] = SpawnOrder[j] => i = j
  /\ KillableTasks \subseteq Tasks /\ Renicing \subseteq Tasks /\ Sleeping \subseteq Tasks
  /\ MaxSignals \in Nat

VARIABLES
  at,       \* where each hart executes
  cur,      \* CURRENT_PIDS
  next,     \* the pid a hart's schedule() has popped
  on,       \* the process whose kernel stack a hart uses in kernel mode
  todo,     \* expired sleepers a hart's wake_sleepers has yet to wake
  rq,       \* RUN_QUEUE: a FIFO per priority
  prio,     \* Process.priority
  state,    \* Process.state, "Gone" once reaped
  asleep,   \* SLEEP_QUEUE entries of a process, deadline in the future
  due,      \* SLEEP_QUEUE entries of a process, deadline passed
  pending,  \* processes with a deliverable signal
  signals,  \* signals sent so far
  exited    \* processes exit() has run for

hartVars == <<at, cur, next, on, todo>>
procVars == <<rq, prio, state, asleep, due, pending>>
history == <<signals, exited>>
schedVars == <<hartVars, procVars, history>>

HartPlaces == {"user", "tick", "preempt", "requeue", "sleeping", "schedule", "popped", "checked", "idle"}
ProcStates == {"Running", "Stopped", "Zombie", "Gone"}

SchedInit ==
  /\ at = [h \in Harts |-> "schedule"]
  /\ cur = [h \in Harts |-> None]
  /\ next = [h \in Harts |-> None]
  /\ on = [h \in Harts |-> BootStack]
  /\ todo = [h \in Harts |-> {}]
  /\ rq = [v \in Prios |-> IF v = NormalPrio THEN SpawnOrder ELSE <<>>]
  /\ prio = PrioOf
  /\ state = [p \in Tasks |-> "Running"]
  /\ asleep = [p \in Tasks |-> 0]
  /\ due = [p \in Tasks |-> 0]
  /\ pending = {}
  /\ signals = 0
  /\ exited = {}

Listed(p) == state[p] # "Gone"

QueueEmpty == \A v \in Prios : rq[v] = <<>>

\* Faulty variant: the process goes to the front of its queue.
EnqueueFront(p) == rq' = [rq EXCEPT ![prio[p]] = <<p>> \o @]

\* enqueue, enqueue_with_prio: no look for an entry that is already there.
Enqueue(p) == rq' = [rq EXCEPT ![prio[p]] = Append(@, p)]

-----------------------------------------------------------------------------
(* schedule() *)

\* Pop from the lowest-numbered non-empty bucket, under the RUN_QUEUE lock.
PopNext(h) ==
  \E v \in Prios :
    /\ at[h] = "schedule"
    /\ rq[v] # <<>> /\ \A w \in Prios : w < v => rq[w] = <<>>
    /\ next' = [next EXCEPT ![h] = Head(rq[v])]
    /\ rq' = [rq EXCEPT ![v] = Tail(@)]
    /\ at' = [at EXCEPT ![h] = "popped"]
    /\ UNCHANGED <<cur, on, todo, prio, state, asleep, due, pending, history>>

\* Look the pid up and discard a zombie.
CheckPopped(h) ==
  /\ at[h] = "popped"
  /\ at' = [at EXCEPT ![h] = IF state[next[h]] \in {"Zombie", "Gone"}
                             THEN "schedule" ELSE "checked"]
  /\ next' = [next EXCEPT ![h] = IF at'[h] = "schedule" THEN None ELSE @]
  /\ UNCHANGED <<cur, on, todo, procVars, history>>

\* Mark it Running, make it current, leave the stack for user mode.  The
\* state was read under a lock that has been released since.
Dispatch(h) ==
  /\ at[h] = "checked"
  /\ state' = [state EXCEPT ![next[h]] = IF @ = "Gone" THEN @ ELSE "Running"]
  /\ cur' = [cur EXCEPT ![h] = next[h]]
  /\ next' = [next EXCEPT ![h] = None]
  /\ on' = [on EXCEPT ![h] = None]
  /\ at' = [at EXCEPT ![h] = "user"]
  /\ UNCHANGED <<todo, rq, prio, asleep, due, pending, history>>

\* Nothing queued: enable interrupts and wfi, still on the same stack.
GoIdle(h) ==
  /\ at[h] = "schedule"
  /\ QueueEmpty
  /\ cur' = [cur EXCEPT ![h] = None]
  /\ at' = [at EXCEPT ![h] = "idle"]
  /\ UNCHANGED <<next, on, todo, procVars, history>>

-----------------------------------------------------------------------------
(* The timer interrupt *)

\* The deadline of a sleeping process passes.
TimePasses(p) ==
  /\ asleep[p] > 0
  /\ asleep' = [asleep EXCEPT ![p] = @ - 1]
  /\ due' = [due EXCEPT ![p] = @ + 1]
  /\ UNCHANGED <<hartVars, rq, prio, state, pending, history>>

\* handle_interrupt enters wake_sleepers, from user mode or from wfi, and
\* takes the expired entries out of SLEEP_QUEUE.
TimerFires(h) ==
  /\ at[h] \in {"user", "idle"}
  /\ at' = [at EXCEPT ![h] = "tick"]
  /\ on' = [on EXCEPT ![h] = IF at[h] = "user" THEN cur[h] ELSE @]
  /\ todo' = [todo EXCEPT ![h] = {p \in Tasks : due[p] > 0}]
  /\ due' = [p \in Tasks |-> IF due[p] > 0 THEN due[p] - 1 ELSE 0]
  /\ UNCHANGED <<cur, next, rq, prio, state, asleep, pending, history>>

\* Faulty variant: the sleeper is marked Running but not enqueued.
WakeSleeperUnqueued(h, p) ==
  /\ at[h] = "tick"
  /\ todo' = [todo EXCEPT ![h] = @ \ {p}]
  /\ state' = [state EXCEPT ![p] = IF Listed(p) THEN "Running" ELSE @]
  /\ UNCHANGED <<at, cur, next, on, rq, prio, asleep, due, pending, history>>

\* One iteration of wake_sleepers: whatever the state was, it is Running now.
WakeSleeper(h, p) ==
  /\ at[h] = "tick"
  /\ todo' = [todo EXCEPT ![h] = @ \ {p}]
  /\ IF Listed(p)
     THEN /\ state' = [state EXCEPT ![p] = "Running"]
          /\ Enqueue(p)
     ELSE UNCHANGED <<state, rq>>
  /\ UNCHANGED <<at, cur, next, on, prio, asleep, due, pending, history>>

\* Faulty variant: the current pid is pushed although it keeps the hart.
TimerReturnsPushing(h) ==
  /\ at[h] = "tick" /\ todo[h] = {}
  /\ IF cur[h] # None THEN Enqueue(cur[h]) ELSE UNCHANGED rq
  /\ at' = [at EXCEPT ![h] = IF cur[h] = None THEN "schedule" ELSE IF QueueEmpty THEN "user" ELSE "preempt"]
  /\ on' = [on EXCEPT ![h] = IF at'[h] = "user" THEN None ELSE @]
  /\ UNCHANGED <<cur, next, todo, prio, state, asleep, due, pending, history>>

\* The rest of the handler.  A process keeps the hart when nobody waits; the
\* return to user mode delivers its signals.  An idle hart goes round the
\* loop of schedule().
TimerReturns(h) ==
  /\ at[h] = "tick" /\ todo[h] = {}
  /\ at' = [at EXCEPT ![h] = IF cur[h] = None THEN "schedule" ELSE IF QueueEmpty THEN "user" ELSE "preempt"]
  /\ on' = [on EXCEPT ![h] = IF at'[h] = "user" THEN None ELSE @]
  /\ pending' = IF at'[h] = "user" THEN pending \ {cur[h]} ELSE pending
  /\ UNCHANGED <<cur, next, todo, rq, prio, state, asleep, due, history>>

\* It also keeps it when it has a signal to take ...
TimerSignal(h) ==
  /\ at[h] = "preempt"
  /\ at' = [at EXCEPT ![h] = IF cur[h] \in pending /\ Listed(cur[h]) THEN "user" ELSE "requeue"]
  /\ on' = [on EXCEPT ![h] = IF at'[h] = "user" THEN None ELSE @]
  /\ pending' = IF at'[h] = "user" THEN pending \ {cur[h]} ELSE pending
  /\ UNCHANGED <<cur, next, todo, rq, prio, state, asleep, due, history>>

\* ... and else goes to the back of its queue, whoever is still there.
TimerPreempt(h) ==
  /\ at[h] = "requeue"
  /\ Enqueue(cur[h])
  /\ at' = [at EXCEPT ![h] = "schedule"]
  /\ UNCHANGED <<cur, next, on, todo, prio, state, asleep, due, pending, history>>

-----------------------------------------------------------------------------
(* System calls of the process on hart h *)

\* A no-op when nobody waits.
SysYield(h) ==
  /\ at[h] = "user" /\ ~QueueEmpty
  /\ Enqueue(cur[h])
  /\ on' = [on EXCEPT ![h] = cur[h]]
  /\ at' = [at EXCEPT ![h] = "schedule"]
  /\ UNCHANGED <<cur, next, todo, prio, state, asleep, due, pending, history>>

\* sys_nanosleep, first half: the sleep-queue entry.
SysNanosleep(h) ==
  /\ at[h] = "user" /\ cur[h] \in Sleeping
  /\ asleep' = [asleep EXCEPT ![cur[h]] = @ + 1]
  /\ on' = [on EXCEPT ![h] = cur[h]]
  /\ at' = [at EXCEPT ![h] = "sleeping"]
  /\ UNCHANGED <<cur, next, todo, rq, prio, state, due, pending, history>>

\* sys_nanosleep, second half: Stopped, whatever happened in between.
StopAfterSleep(h) ==
  /\ at[h] = "sleeping"
  /\ state' = [state EXCEPT ![cur[h]] = IF Listed(cur[h]) THEN "Stopped" ELSE @]
  /\ at' = [at EXCEPT ![h] = "schedule"]
  /\ UNCHANGED <<cur, next, on, todo, rq, prio, asleep, due, pending, history>>

ExitTask(h) ==
  /\ at[h] = "user"
  /\ state' = [state EXCEPT ![cur[h]] = IF Listed(cur[h]) THEN "Zombie" ELSE @]
  /\ exited' = exited \cup {cur[h]}
  /\ on' = [on EXCEPT ![h] = cur[h]]
  /\ at' = [at EXCEPT ![h] = "schedule"]
  /\ UNCHANGED <<cur, next, todo, rq, prio, asleep, due, pending, signals>>

\* sys_kill with SIGKILL runs exit() for the target on the killer's hart; the
\* target may be queued, asleep or executing on another hart.
KillTask(h, p) ==
  /\ at[h] = "user" /\ p \in KillableTasks /\ p # cur[h] /\ Listed(p)
  /\ state' = [state EXCEPT ![p] = "Zombie"]
  /\ exited' = exited \cup {p}
  /\ UNCHANGED <<hartVars, rq, prio, asleep, due, pending, signals>>

\* sys_kill with an unblocked signal: wake_with_eintr of a stopped target.
\* Its sleep-queue entry is not removed.
SysSignal(h, p) ==
  /\ at[h] = "user" /\ p # cur[h] /\ Listed(p) /\ signals < MaxSignals
  /\ signals' = signals + 1
  /\ pending' = pending \cup {p}
  /\ IF state[p] = "Stopped"
     THEN /\ state' = [state EXCEPT ![p] = "Running"]
          /\ Enqueue(p)
     ELSE UNCHANGED <<state, rq>>
  /\ UNCHANGED <<hartVars, prio, asleep, due, exited>>

\* sys_reap_process and reap_zombie: only zombies, and then the kernel stack
\* and the table entry are gone.
SysReap(h, p) ==
  /\ at[h] = "user" /\ p # cur[h] /\ state[p] = "Zombie"
  /\ state' = [state EXCEPT ![p] = "Gone"]
  /\ UNCHANGED <<hartVars, rq, prio, asleep, due, pending, history>>

\* sys_setpriority: an entry already queued stays where it is.
SysSetPriority(h) ==
  \E v \in Prios :
    /\ at[h] = "user" /\ cur[h] \in Renicing /\ Listed(cur[h])
    /\ prio' = [prio EXCEPT ![cur[h]] = v]
    /\ UNCHANGED <<hartVars, rq, state, asleep, due, pending, history>>

-----------------------------------------------------------------------------
KernelStep(h) ==
  \/ PopNext(h) \/ CheckPopped(h) \/ Dispatch(h) \/ GoIdle(h)
  \/ \E p \in todo[h] : WakeSleeper(h, p)
  \/ TimerReturns(h) \/ TimerSignal(h) \/ TimerPreempt(h) \/ StopAfterSleep(h)

UserStep(h) ==
  \/ SysYield(h) \/ SysNanosleep(h) \/ ExitTask(h) \/ SysSetPriority(h)
  \/ \E p \in Tasks : KillTask(h, p) \/ SysSignal(h, p) \/ SysReap(h, p)

SchedStep ==
  \/ \E h \in Harts : KernelStep(h) \/ UserStep(h) \/ TimerFires(h)
  \/ \E p \in Tasks : TimePasses(p)

SchedSpec == SchedInit /\ [][SchedStep]_schedVars

-----------------------------------------------------------------------------
(* Properties *)

\* Every variable keeps its type; in particular next[h] is a process exactly
\* when schedule() holds a popped pid.
SchedTypeOK ==
  /\ at \in [Harts -> HartPlaces]
  /\ cur \in [Harts -> Tasks \cup {None}]
  /\ next \in [Harts -> Tasks \cup {None}]
  /\ on \in [Harts -> Tasks \cup {None, BootStack}]
  /\ todo \in [Harts -> SUBSET Tasks]
  /\ rq \in [Prios -> Seq(Tasks)]
  /\ prio \in [Tasks -> Prios]
  /\ state \in [Tasks -> ProcStates]
  /\ asleep \in [Tasks -> Nat] /\ due \in [Tasks -> Nat]
  /\ pending \subseteq Tasks /\ signals \in Nat /\ exited \subseteq Tasks
  /\ \A h \in Harts : at[h] \in {"popped", "checked"} => next[h] \in Tasks
  /\ \A h \in Harts : at[h] \in {"user", "preempt", "requeue", "sleeping"} => cur[h] \in Tasks

\* A hart executes p in user mode.
OnHart(p) == \E h \in Harts : at[h] = "user" /\ cur[h] = p

\* Hart h executes p, in user mode or interrupted by its timer, or holds its
\* pid between popping and dispatching it.
Holds(h, p) ==
  \/ at[h] \in {"user", "tick", "preempt", "requeue"} /\ cur[h] = p
  \/ at[h] \in {"popped", "checked"} /\ next[h] = p

\* The places that stand for "p will run or is running": queue entries, harts
\* that hold it, sleep-queue entries and wakeups under way.
WhereIs(p) ==
  (UNION {{<<"queued", v, i>> : i \in {j \in DOMAIN rq[v] : rq[v][j] = p}} : v \in Prios})
    \cup {<<"asleep", n>> : n \in 1..(asleep[p] + due[p])}
    \cup {<<"held", h>> : h \in {k \in Harts : Holds(k, p)}}
    \cup {<<"waking", h>> : h \in {k \in Harts : p \in todo[k]}}

\* No phantom queue entries: a process is never queued, asleep or executing
\* in two places at once, so no two harts run it at the same time (enqueue
\* does not look for an entry that is already there).
NoPhantomEntry == \A p \in Tasks : \A x, y \in WhereIs(p) : x = y

\* No process is forgotten: one that has not exited is queued, asleep or on
\* a hart; the gap of sys_nanosleep and the hand-over in schedule() included.
NotForgotten == \A p \in Tasks \ exited : WhereIs(p) # {}

\* exit() is final: a zombie is only ever reaped, never made Running again.
ZombiesStayDead ==
  [][\A p \in Tasks : state[p] = "Zombie" => state'[p] \in {"Zombie", "Gone"}]_schedVars

\* Reaping frees the kernel stack of a process no hart executes on.
NoFreedStackInUse ==
  \A h \in Harts : on[h] \in Tasks => state[on[h]] # "Gone"

\* Two harts never execute on one kernel stack.
KernelStackExclusive ==
  \A h, k \in Harts : h # k /\ on[h] \in Tasks => on[h] # on[k]
=============================================================================
