----------------------------- MODULE SchedProofs -----------------------------
(***************************************************************************)
(* Theorems about Sched and KernelMutex, for every number of harts,        *)
(* processes and priority levels.                                          *)
(***************************************************************************)
EXTENDS Integers, Sched, KernelMutex, TLAPS

\* push_back on a queue: the entries keep their places and p is the last.
LEMMA QueueAppend ==
  ASSUME NEW S, NEW s \in Seq(S), NEW x \in S
  PROVE  /\ Append(s, x) \in Seq(S)
         /\ DOMAIN s = 1..Len(s) /\ Len(s) \in Nat
         /\ DOMAIN Append(s, x) = 1..(Len(s) + 1)
         /\ \A i \in 1..Len(s) : Append(s, x)[i] = s[i]
         /\ Append(s, x)[Len(s) + 1] = x
OBVIOUS

\* pop_front of a queue that is not empty: the others move up by one.
LEMMA QueueTail ==
  ASSUME NEW S, NEW s \in Seq(S), s # <<>>
  PROVE  /\ Head(s) \in S /\ Head(s) = s[1]
         /\ DOMAIN s = 1..Len(s) /\ Len(s) \in Nat \ {0}
         /\ Tail(s) \in Seq(S)
         /\ DOMAIN Tail(s) = 1..(Len(s) - 1)
         /\ \A i \in 1..(Len(s) - 1) : Tail(s)[i] = s[i + 1]
OBVIOUS

-----------------------------------------------------------------------------
(* Type correctness *)

LEMMA SchedInitType == SchedInit => SchedTypeOK
<1> SUFFICES ASSUME SchedInit PROVE SchedTypeOK
  BY Zenon
<1>1. rq \in [Prios -> Seq(Tasks)]
  BY SchedAssumption DEF SchedInit
<1> QED BY <1>1, SchedAssumption, Zenon DEF SchedInit, SchedTypeOK, HartPlaces, ProcStates

LEMMA EnqueueType ==
  ASSUME SchedTypeOK, NEW p \in Tasks, Enqueue(p)
  PROVE  rq' \in [Prios -> Seq(Tasks)]
<1>1. Append(rq[prio[p]], p) \in Seq(Tasks)
  BY QueueAppend, Zenon DEF SchedTypeOK
<1> QED BY <1>1, Zenon DEF SchedTypeOK, Enqueue

LEMMA SchedStepType == SchedTypeOK /\ [SchedStep]_schedVars => SchedTypeOK'
<1> SUFFICES ASSUME SchedTypeOK, [SchedStep]_schedVars PROVE SchedTypeOK'
  BY Zenon
<1> USE DEF HartPlaces, ProcStates, Listed, hartVars, procVars, history
<1>1. ASSUME NEW h \in Harts, PopNext(h) PROVE SchedTypeOK'
  <2>1. PICK v \in Prios : /\ rq[v] # <<>>
                           /\ next' = [next EXCEPT ![h] = Head(rq[v])]
                           /\ rq' = [rq EXCEPT ![v] = Tail(@)]
    BY <1>1, Zenon DEF PopNext
  <2>2. rq[v] \in Seq(Tasks)
    BY Zenon DEF SchedTypeOK
  <2>3. Head(rq[v]) \in Tasks /\ Tail(rq[v]) \in Seq(Tasks)
    BY <2>1, <2>2, QueueTail, Zenon
  <2>4. next' \in [Harts -> Tasks \cup {None}] /\ rq' \in [Prios -> Seq(Tasks)]
    BY <2>1, <2>3, Zenon DEF SchedTypeOK
  <2>5. at' = [at EXCEPT ![h] = "popped"]
    BY <1>1, Zenon DEF PopNext
  <2>6. at' \in [Harts -> HartPlaces]
    BY <2>5, Zenon DEF SchedTypeOK
  <2>7. ASSUME NEW k \in Harts
        PROVE  /\ at'[k] \in {"popped", "checked"} => next'[k] \in Tasks
               /\ at'[k] \in {"user", "preempt", "requeue", "sleeping"} => cur[k] \in Tasks
    BY <2>1, <2>3, <2>5, Zenon DEF SchedTypeOK
  <2> QED BY <1>1, <2>4, <2>6, <2>7, Zenon DEF PopNext, SchedTypeOK
<1>2. ASSUME NEW h \in Harts, CheckPopped(h) PROVE SchedTypeOK'
  BY <1>2, Zenon DEF CheckPopped, SchedTypeOK
<1>3. ASSUME NEW h \in Harts, Dispatch(h) PROVE SchedTypeOK'
  BY <1>3, Zenon DEF Dispatch, SchedTypeOK
<1>4. ASSUME NEW h \in Harts, GoIdle(h) PROVE SchedTypeOK'
  BY <1>4, Zenon DEF GoIdle, SchedTypeOK
<1>5. ASSUME NEW h \in Harts, NEW p \in todo[h], WakeSleeper(h, p) PROVE SchedTypeOK'
  <2>2. p \in Tasks
    BY Zenon DEF SchedTypeOK
  <2>3. rq' \in [Prios -> Seq(Tasks)]
    BY <1>5, <2>2, EnqueueType, Zenon DEF SchedTypeOK, WakeSleeper
  <2> QED BY <1>5, <2>2, <2>3, Zenon DEF SchedTypeOK, WakeSleeper
<1>6. ASSUME NEW h \in Harts, TimerReturns(h) \/ TimerSignal(h) PROVE SchedTypeOK'
  <2>1. PICK w \in {"user", "schedule", "preempt", "requeue"} :
          at' = [at EXCEPT ![h] = w] /\ (w # "schedule" => cur[h] \in Tasks)
    BY <1>6, Zenon DEF SchedTypeOK, TimerReturns, TimerSignal
  <2>2. at' \in [Harts -> HartPlaces] /\ on' \in [Harts -> Tasks \cup {None, BootStack}]
    BY <1>6, <2>1, Zenon DEF SchedTypeOK, TimerReturns, TimerSignal
  <2>3. pending' \subseteq Tasks
    BY <1>6, Zenon DEF SchedTypeOK, TimerReturns, TimerSignal
  <2>4. ASSUME NEW k \in Harts
        PROVE  /\ at'[k] \in {"popped", "checked"} => next[k] \in Tasks
               /\ at'[k] \in {"user", "preempt", "requeue", "sleeping"} => cur[k] \in Tasks
    BY <2>1, Zenon DEF SchedTypeOK
  <2> QED BY <1>6, <2>2, <2>3, <2>4, Zenon DEF SchedTypeOK, TimerReturns, TimerSignal
<1>p. ASSUME NEW h \in Harts, TimerPreempt(h) PROVE SchedTypeOK'
  <2>1. rq' \in [Prios -> Seq(Tasks)]
    BY <1>p, EnqueueType, Zenon DEF SchedTypeOK, TimerPreempt
  <2> QED BY <1>p, <2>1, Zenon DEF SchedTypeOK, TimerPreempt
<1>7. ASSUME NEW h \in Harts, StopAfterSleep(h) PROVE SchedTypeOK'
  BY <1>7, Zenon DEF StopAfterSleep, SchedTypeOK
<1>8. ASSUME NEW h \in Harts, SysYield(h) PROVE SchedTypeOK'
  <2>1. rq' \in [Prios -> Seq(Tasks)]
    BY <1>8, EnqueueType, Zenon DEF SchedTypeOK, SysYield
  <2> QED BY <1>8, <2>1, Zenon DEF SchedTypeOK, SysYield
<1>9. ASSUME NEW h \in Harts, SysNanosleep(h) PROVE SchedTypeOK'
  BY <1>9 DEF SysNanosleep, SchedTypeOK
<1>10. ASSUME NEW h \in Harts, ExitTask(h) PROVE SchedTypeOK'
  BY <1>10, Zenon DEF ExitTask, SchedTypeOK
<1>11. ASSUME NEW h \in Harts, SysSetPriority(h) PROVE SchedTypeOK'
  BY <1>11 DEF SysSetPriority, SchedTypeOK
<1>12. ASSUME NEW h \in Harts, NEW p \in Tasks, KillTask(h, p) PROVE SchedTypeOK'
  BY <1>12, Zenon DEF KillTask, SchedTypeOK
<1>13. ASSUME NEW h \in Harts, NEW p \in Tasks, SysSignal(h, p) PROVE SchedTypeOK'
  <2>1. rq' \in [Prios -> Seq(Tasks)]
    BY <1>13, EnqueueType, Zenon DEF SchedTypeOK, SysSignal
  <2>2. signals' \in Nat
    BY <1>13 DEF SchedTypeOK, SysSignal
  <2>4. pending' \subseteq Tasks
    BY <1>13, Zenon DEF SchedTypeOK, SysSignal
  <2>3. state' \in [Tasks -> ProcStates]
    BY <1>13, ZenonT(30) DEF SchedTypeOK, SysSignal
  <2> QED BY <1>13, <2>1, <2>2, <2>3, <2>4, Zenon DEF SchedTypeOK, SysSignal
<1>14. ASSUME NEW h \in Harts, NEW p \in Tasks, SysReap(h, p) PROVE SchedTypeOK'
  BY <1>14, Zenon DEF SysReap, SchedTypeOK
<1>15. ASSUME NEW h \in Harts, TimerFires(h) PROVE SchedTypeOK'
  BY <1>15 DEF TimerFires, SchedTypeOK
<1>16. ASSUME NEW p \in Tasks, TimePasses(p) PROVE SchedTypeOK'
  <2>1. asleep' \in [Tasks -> Nat] /\ due' \in [Tasks -> Nat]
    BY <1>16 DEF TimePasses, SchedTypeOK
  <2> QED BY <1>16, <2>1, Zenon DEF TimePasses, SchedTypeOK
<1>17. CASE UNCHANGED schedVars
  BY <1>17, Zenon DEF schedVars, SchedTypeOK
<1> QED BY <1>1, <1>2, <1>3, <1>4, <1>5, <1>6, <1>p, <1>7, <1>8, <1>9, <1>10, <1>11, <1>12,
           <1>13, <1>14, <1>15, <1>16, <1>17, Zenon DEF SchedStep, KernelStep, UserStep

\* Every variable of the scheduler keeps its type, on any number of harts.
THEOREM SchedTypeCorrect == SchedSpec => []SchedTypeOK
BY SchedInitType, SchedStepType, PTL DEF SchedSpec

-----------------------------------------------------------------------------
(* No process is forgotten *)

InQueue(p) == \E v \in Prios : \E i \in DOMAIN rq[v] : rq[v][i] = p
Asleep(p)  == asleep[p] + due[p] > 0
Held(p)    == \E h \in Harts : Holds(h, p)
Waking(p)  == \E h \in Harts : p \in todo[h]

\* The members of WhereIs, kind by kind.
LEMMA WhereIsMembers ==
  ASSUME NEW p, NEW x
  PROVE  x \in WhereIs(p) <=>
           \/ \E v \in Prios : \E i \in DOMAIN rq[v] : rq[v][i] = p /\ x = <<"queued", v, i>>
           \/ \E n \in 1..(asleep[p] + due[p]) : x = <<"asleep", n>>
           \/ \E h \in Harts : Holds(h, p) /\ x = <<"held", h>>
           \/ \E h \in Harts : p \in todo[h] /\ x = <<"waking", h>>
<1> DEFINE Q(v) == {<<"queued", v, i>> : i \in {j \in DOMAIN rq[v] : rq[v][j] = p}}
           A == {<<"asleep", n>> : n \in 1..(asleep[p] + due[p])}
           H == {<<"held", h>> : h \in {k \in Harts : Holds(k, p)}}
           W == {<<"waking", h>> : h \in {k \in Harts : p \in todo[k]}}
<1>1. x \in UNION {Q(v) : v \in Prios} <=> \E v \in Prios : x \in Q(v)
  BY Zenon
<1>2. \A v : x \in Q(v) <=> \E i \in DOMAIN rq[v] : rq[v][i] = p /\ x = <<"queued", v, i>>
  BY Zenon
<1>3. x \in A <=> \E n \in 1..(asleep[p] + due[p]) : x = <<"asleep", n>>
  BY Zenon
<1>4. x \in H <=> \E h \in Harts : Holds(h, p) /\ x = <<"held", h>>
  BY Zenon
<1>5. x \in W <=> \E h \in Harts : p \in todo[h] /\ x = <<"waking", h>>
  BY Zenon
<1>6. WhereIs(p) = (UNION {Q(v) : v \in Prios}) \cup A \cup H \cup W
  BY Zenon DEF WhereIs
<1> HIDE DEF Q, A, H, W
<1>7. x \in WhereIs(p) <=> (\E v \in Prios : x \in Q(v)) \/ x \in A \/ x \in H \/ x \in W
  BY <1>6, <1>1, Zenon
<1> QED BY <1>7, <1>2, <1>3, <1>4, <1>5, Zenon

\* WhereIs as a disjunction.
LEMMA WhereIsSomewhere ==
  ASSUME SchedTypeOK, NEW p \in Tasks
  PROVE  WhereIs(p) # {} <=> InQueue(p) \/ Asleep(p) \/ Held(p) \/ Waking(p)
<1>1. asleep[p] + due[p] \in Nat
  BY DEF SchedTypeOK
<1>2. (\E n \in 1..(asleep[p] + due[p]) : TRUE) <=> Asleep(p)
  BY <1>1 DEF Asleep
<1>3. WhereIs(p) # {} <=> \E x : x \in WhereIs(p)
  BY Zenon
<1>4. WhereIs(p) # {} => InQueue(p) \/ (\E n \in 1..(asleep[p] + due[p]) : TRUE) \/ Held(p) \/ Waking(p)
  BY <1>3, WhereIsMembers, Zenon DEF InQueue, Held, Waking
<1>5. ASSUME InQueue(p) PROVE WhereIs(p) # {}
  <2>1. PICK v \in Prios : \E i \in DOMAIN rq[v] : rq[v][i] = p
    BY <1>5, Zenon DEF InQueue
  <2>2. PICK i \in DOMAIN rq[v] : rq[v][i] = p
    BY <2>1, Zenon
  <2>3. <<"queued", v, i>> \in WhereIs(p)
    BY <2>2, WhereIsMembers, Zenon
  <2> QED BY <2>3, Zenon
<1>6. (\E n \in 1..(asleep[p] + due[p]) : TRUE) => WhereIs(p) # {}
  BY <1>3, WhereIsMembers, Zenon
<1>7. Held(p) => WhereIs(p) # {}
  BY <1>3, WhereIsMembers, Zenon DEF Held
<1>8. Waking(p) => WhereIs(p) # {}
  BY <1>3, WhereIsMembers, Zenon DEF Waking
<1> QED BY <1>2, <1>4, <1>5, <1>6, <1>7, <1>8, Zenon

\* An idle hart holds no pid over its timer interrupt, and todo is empty when
\* wake_sleepers fills it.
HartInv ==
  /\ SchedTypeOK
  /\ \A h \in Harts : at[h] = "idle" => cur[h] = None
  /\ \A h \in Harts : at[h] # "tick" => todo[h] = {}

LEMMA HartStep == HartInv /\ [SchedStep]_schedVars => HartInv'
<1> SUFFICES ASSUME HartInv, [SchedStep]_schedVars PROVE HartInv'
  BY Zenon
<1>t. SchedTypeOK /\ SchedTypeOK'
  BY SchedStepType, Zenon DEF HartInv
<1>1. \A h \in Harts : at'[h] # "tick" => todo'[h] = {}
  <2>1. ASSUME NEW h \in Harts, PopNext(h) \/ CheckPopped(h) \/ Dispatch(h) \/ GoIdle(h)
                 \/ TimerReturns(h) \/ TimerSignal(h) \/ TimerPreempt(h) \/ StopAfterSleep(h) \/ UserStep(h)
        PROVE  /\ todo' = todo /\ (at[h] = "tick" => todo[h] = {})
               /\ \A k \in Harts \ {h} : at'[k] = at[k]
    BY <2>1, <1>t, Zenon DEF PopNext, CheckPopped, Dispatch, GoIdle, TimerReturns, TimerSignal,
      TimerPreempt, StopAfterSleep,
      UserStep, SysYield, SysNanosleep, ExitTask, SysSetPriority, KillTask, SysSignal,
      SysReap, hartVars, SchedTypeOK
  <2>2. ASSUME NEW h \in Harts, TimerFires(h) \/ \E p \in todo[h] : WakeSleeper(h, p)
        PROVE  /\ at'[h] = "tick"
               /\ \A k \in Harts \ {h} : at'[k] = at[k] /\ todo'[k] = todo[k]
    <3>1. CASE TimerFires(h)
      BY <3>1, <1>t, Zenon DEF TimerFires, SchedTypeOK
    <3>2. CASE \E p \in todo[h] : WakeSleeper(h, p)
      BY <3>2, <1>t, Zenon DEF WakeSleeper, SchedTypeOK
    <3> QED BY <2>2, <3>1, <3>2, Zenon
  <2>3. ASSUME (\E p \in Tasks : TimePasses(p)) \/ UNCHANGED schedVars
        PROVE  at' = at /\ todo' = todo
    BY <2>3, Zenon DEF TimePasses, schedVars, hartVars
  <2> QED BY <2>1, <2>2, <2>3, Zenon DEF HartInv, SchedStep, KernelStep
<1>2. \A h \in Harts : at'[h] = "idle" => cur'[h] = None
  <2>1. ASSUME NEW h \in Harts, PopNext(h) \/ CheckPopped(h) \/ Dispatch(h) \/ GoIdle(h)
                 \/ TimerReturns(h) \/ TimerSignal(h) \/ TimerPreempt(h) \/ StopAfterSleep(h)
                 \/ TimerFires(h) \/ SysYield(h)
                 \/ SysNanosleep(h) \/ ExitTask(h)
        PROVE  /\ at'[h] = "idle" => cur'[h] = None
               /\ \A k \in Harts \ {h} : at'[k] = at[k] /\ cur'[k] = cur[k]
    BY <2>1, <1>t, ZenonT(30) DEF PopNext, CheckPopped, Dispatch, GoIdle, TimerReturns, TimerSignal,
      TimerPreempt, StopAfterSleep,
      TimerFires, SysYield, SysNanosleep, ExitTask, SchedTypeOK
  <2>2. ASSUME \/ \E h \in Harts : SysSetPriority(h) \/ \E p \in todo[h] : WakeSleeper(h, p)
               \/ \E h \in Harts, p \in Tasks : KillTask(h, p) \/ SysSignal(h, p) \/ SysReap(h, p)
               \/ (\E p \in Tasks : TimePasses(p)) \/ UNCHANGED schedVars
        PROVE  at' = at /\ cur' = cur
    BY <2>2, Zenon DEF SysSetPriority, WakeSleeper, KillTask, SysSignal, SysReap, TimePasses, schedVars, hartVars
  <2>3. ASSUME NEW h \in Harts, KernelStep(h) \/ UserStep(h) \/ TimerFires(h)
        PROVE  \A k \in Harts : at'[k] = "idle" => cur'[k] = None
    BY <2>1, <2>2, <2>3, Zenon DEF HartInv, KernelStep, UserStep
  <2> QED BY <2>2, <2>3, Zenon DEF HartInv, SchedStep
<1> QED BY <1>t, <1>1, <1>2, Zenon DEF HartInv

\* What keeps NotForgotten inductive: the queues and harts speak of all that
\* have not exited, and schedule() and wake_sleepers only drop zombies and
\* reaped processes, which have.
ForgottenInv ==
  /\ HartInv
  /\ \A p \in Tasks : state[p] \in {"Zombie", "Gone"} => p \in exited
  /\ \A p \in Tasks \ exited : InQueue(p) \/ Asleep(p) \/ Held(p) \/ Waking(p)

\* enqueue keeps every entry and adds one.
LEMMA EnqueueKeeps ==
  ASSUME SchedTypeOK, NEW q \in Tasks, Enqueue(q)
  PROVE  InQueue(q)' /\ \A p \in Tasks : InQueue(p) => InQueue(p)'
<1> DEFINE v == prio[q]
<1>1. v \in Prios /\ rq[v] \in Seq(Tasks)
  BY Zenon DEF SchedTypeOK
<1>2. rq' = [rq EXCEPT ![v] = Append(rq[v], q)] /\ DOMAIN rq = Prios
  BY Zenon DEF Enqueue, SchedTypeOK
<1>3. /\ DOMAIN rq[v] = 1..Len(rq[v]) /\ Len(rq[v]) \in Nat
      /\ DOMAIN Append(rq[v], q) = 1..(Len(rq[v]) + 1)
      /\ \A i \in 1..Len(rq[v]) : Append(rq[v], q)[i] = rq[v][i]
      /\ Append(rq[v], q)[Len(rq[v]) + 1] = q
  BY <1>1, QueueAppend
<1>4. rq'[v] = Append(rq[v], q) /\ \A w \in Prios \ {v} : rq'[w] = rq[w]
  BY <1>1, <1>2, Zenon
<1> HIDE DEF v
<1>5. InQueue(q)'
  <2>1. Len(rq[v]) + 1 \in DOMAIN rq'[v] /\ rq'[v][Len(rq[v]) + 1] = q
    BY <1>3, <1>4
  <2> QED BY <2>1, <1>1, Zenon DEF InQueue
<1>6. ASSUME NEW p \in Tasks, NEW w \in Prios, NEW i \in DOMAIN rq[w], rq[w][i] = p
      PROVE  InQueue(p)'
  <2>1. i \in DOMAIN rq'[w] /\ rq'[w][i] = p
    BY <1>3, <1>4, <1>6
  <2> QED BY <2>1, Zenon DEF InQueue
<1> QED BY <1>5, <1>6, Zenon DEF InQueue

\* schedule() takes one entry out of the queues and holds its pid.
LEMMA PopKeeps ==
  ASSUME SchedTypeOK, NEW h \in Harts, PopNext(h)
  PROVE  /\ at'[h] = "popped"
         /\ \A p \in Tasks : InQueue(p) => InQueue(p)' \/ next'[h] = p
<1>1. PICK v \in Prios :
        /\ rq[v] # <<>> /\ next' = [next EXCEPT ![h] = Head(rq[v])]
        /\ rq' = [rq EXCEPT ![v] = Tail(@)] /\ at' = [at EXCEPT ![h] = "popped"]
  BY Zenon DEF PopNext
<1>2. /\ Head(rq[v]) = rq[v][1]
      /\ DOMAIN rq[v] = 1..Len(rq[v]) /\ Len(rq[v]) \in Nat \ {0}
      /\ DOMAIN Tail(rq[v]) = 1..(Len(rq[v]) - 1)
      /\ \A i \in 1..(Len(rq[v]) - 1) : Tail(rq[v])[i] = rq[v][i + 1]
  BY <1>1, QueueTail, Zenon DEF SchedTypeOK
<1>3. /\ rq'[v] = Tail(rq[v]) /\ \A w \in Prios \ {v} : rq'[w] = rq[w]
      /\ next'[h] = rq[v][1] /\ at'[h] = "popped"
  BY <1>1, <1>2, Zenon DEF SchedTypeOK
<1>4. ASSUME NEW p \in Tasks, NEW w \in Prios, NEW i \in DOMAIN rq[w], rq[w][i] = p
      PROVE  InQueue(p)' \/ next'[h] = p
  <2>1. CASE w # v
    BY <2>1, <1>3, <1>4, Zenon DEF InQueue
  <2>2. CASE w = v /\ i = 1
    BY <2>2, <1>3, <1>4, Zenon
  <2>3. CASE w = v /\ i # 1
    <3>1. i - 1 \in DOMAIN rq'[v] /\ rq'[v][i - 1] = p
      <4>1. i \in 1..Len(rq[v]) /\ i # 1 /\ Len(rq[v]) \in Nat /\ rq[v][i] = p
        BY <2>3, <1>2, <1>4, Zenon
      <4>2. i - 1 \in 1..(Len(rq[v]) - 1) /\ (i - 1) + 1 = i
        BY <4>1, SMT
      <4>3. Tail(rq[v])[i - 1] = rq[v][(i - 1) + 1]
        BY <1>2, <4>2, Zenon
      <4> QED BY <1>2, <1>3, <4>1, <4>2, <4>3, Zenon
    <3> QED BY <3>1, Zenon DEF InQueue
  <2> QED BY <2>1, <2>2, <2>3, Zenon
<1> QED BY <1>3, <1>4, Zenon DEF InQueue

LEMMA ForgottenInit == SchedInit => ForgottenInv
<1> SUFFICES ASSUME SchedInit PROVE ForgottenInv
  BY Zenon
<1>1. ASSUME NEW p \in Tasks PROVE InQueue(p)
  <2>1. PICK i \in DOMAIN SpawnOrder : SpawnOrder[i] = p
    BY SchedAssumption, Zenon
  <2>2. NormalPrio \in Prios /\ rq[NormalPrio] = SpawnOrder
    BY SchedAssumption, Zenon DEF SchedInit
  <2> QED BY <2>1, <2>2, Zenon DEF InQueue
<1> QED BY <1>1, SchedInitType, Zenon DEF ForgottenInv, HartInv, SchedInit

LEMMA ForgottenStep == ForgottenInv /\ [SchedStep]_schedVars => ForgottenInv'
<1> SUFFICES ASSUME ForgottenInv, [SchedStep]_schedVars PROVE ForgottenInv'
  BY Zenon
<1> DEFINE Somewhere(p) == InQueue(p) \/ Asleep(p) \/ Held(p) \/ Waking(p)
<1>t. SchedTypeOK /\ SchedTypeOK'
  BY SchedStepType, Zenon DEF ForgottenInv, HartInv
<1>2. \A p \in Tasks : state'[p] \in {"Zombie", "Gone"} => p \in exited'
  <2> DEFINE Dead(p) == state[p] \in {"Zombie", "Gone"} => p \in exited
  <2>0. \A p \in Tasks : Dead(p)
    BY Zenon DEF ForgottenInv
  <2>1. ASSUME NEW h \in Harts, CheckPopped(h) \/ PopNext(h) \/ GoIdle(h) \/ TimerReturns(h)
                 \/ TimerSignal(h) \/ TimerPreempt(h)
                 \/ TimerFires(h) \/ SysYield(h) \/ SysNanosleep(h) \/ SysSetPriority(h)
        PROVE  state' = state /\ exited' = exited
    BY <2>1, Zenon DEF CheckPopped, PopNext, GoIdle, TimerReturns, TimerSignal, TimerPreempt, TimerFires, SysYield,
      SysNanosleep, SysSetPriority, procVars, history
  <2>2. ASSUME NEW h \in Harts, Dispatch(h) \/ StopAfterSleep(h) \/ ExitTask(h)
        PROVE  \A p \in Tasks : Dead(p)'
    BY <2>2, <2>0, <1>t, ZenonT(30) DEF Dispatch, StopAfterSleep, ExitTask, Listed, history, SchedTypeOK
  <2>3. ASSUME NEW h \in Harts, NEW q \in Tasks,
               WakeSleeper(h, q) \/ KillTask(h, q) \/ SysSignal(h, q) \/ SysReap(h, q)
        PROVE  \A p \in Tasks : Dead(p)'
    BY <2>3, <2>0, <1>t, ZenonT(30) DEF WakeSleeper, KillTask, SysSignal, SysReap, Listed, history, SchedTypeOK
  <2>4. ASSUME (\E p \in Tasks : TimePasses(p)) \/ UNCHANGED schedVars
        PROVE  state' = state /\ exited' = exited
    BY <2>4, Zenon DEF TimePasses, schedVars, procVars, history
  <2>5. \A h \in Harts : todo[h] \subseteq Tasks
    BY <1>t, Zenon DEF SchedTypeOK
  <2>6. ASSUME NEW h \in Harts, KernelStep(h) \/ UserStep(h) \/ TimerFires(h)
        PROVE  \A p \in Tasks : Dead(p)'
    BY <2>0, <2>1, <2>2, <2>3, <2>5, <2>6, Zenon DEF KernelStep, UserStep
  <2> QED BY <2>0, <2>4, <2>6, Zenon DEF SchedStep
<1>3. ASSUME NEW p \in Tasks, p \notin exited' PROVE Somewhere(p)'
  <2>0. /\ rq' = rq => (InQueue(p) => InQueue(p)')
        /\ asleep' = asleep /\ due' = due => (Asleep(p) => Asleep(p)')
        /\ at' = at /\ cur' = cur /\ next' = next => (Held(p) => Held(p)')
        /\ todo' = todo => (Waking(p) => Waking(p)')
    BY Zenon DEF InQueue, Asleep, Held, Holds, Waking
  <2>e. exited \subseteq exited'
    BY ZenonT(30) DEF SchedStep, KernelStep, UserStep, TimerFires, WakeSleeper, PopNext, CheckPopped,
      Dispatch, GoIdle, TimerReturns, TimerSignal, TimerPreempt, StopAfterSleep, SysYield, SysNanosleep, ExitTask,
      SysSetPriority, KillTask, SysSignal, SysReap, TimePasses, history, schedVars
  <2>s. Somewhere(p)
    BY <2>e, <1>3, Zenon DEF ForgottenInv
  <2> DEFINE Others(h) == \A k \in Harts \ {h} : at'[k] = at[k] /\ cur'[k] = cur[k] /\ next'[k] = next[k]
  <2>h. ASSUME NEW h \in Harts, Others(h), Held(p) PROVE Held(p)' \/ Holds(h, p)
    BY <2>h, Zenon DEF Held, Holds
  <2>i. ASSUME NEW h \in Harts, Holds(h, p)' PROVE Held(p)'
    BY <2>i, Zenon DEF Held
  <2>1. ASSUME NEW h \in Harts, PopNext(h) PROVE Somewhere(p)'
    <3>1. Others(h) /\ asleep' = asleep /\ due' = due /\ todo' = todo /\ ~Holds(h, p)
      BY <2>1, <1>t, Zenon DEF PopNext, SchedTypeOK, Holds
    <3>2. ASSUME InQueue(p) PROVE InQueue(p)' \/ Holds(h, p)'
      BY <3>2, <2>1, <1>t, PopKeeps, Zenon DEF Holds
    <3> QED BY <2>0, <2>s, <2>h, <2>i, <3>1, <3>2, Zenon
  <2>2. ASSUME NEW h \in Harts, CheckPopped(h) PROVE Somewhere(p)'
    <3>1. Others(h) /\ asleep' = asleep /\ due' = due /\ todo' = todo /\ rq' = rq
      BY <2>2, <1>t, Zenon DEF CheckPopped, SchedTypeOK, procVars
    <3>2. Holds(h, p) => Holds(h, p)'
      BY <2>2, <1>t, <1>3, Zenon DEF CheckPopped, SchedTypeOK, Holds, ForgottenInv, history
    <3> QED BY <2>0, <2>s, <2>h, <2>i, <3>1, <3>2, Zenon
  <2>3. ASSUME NEW h \in Harts, Dispatch(h) PROVE Somewhere(p)'
    <3>1. Others(h) /\ asleep' = asleep /\ due' = due /\ todo' = todo /\ rq' = rq
      BY <2>3, <1>t, Zenon DEF Dispatch, SchedTypeOK
    <3>2. Holds(h, p) => Holds(h, p)'
      BY <2>3, <1>t, Zenon DEF Dispatch, SchedTypeOK, Holds
    <3> QED BY <2>0, <2>s, <2>h, <2>i, <3>1, <3>2, Zenon
  <2>4. ASSUME NEW h \in Harts, GoIdle(h) \/ StopAfterSleep(h) PROVE Somewhere(p)'
    <3>1. /\ Others(h) /\ asleep' = asleep /\ due' = due /\ todo' = todo /\ rq' = rq
          /\ ~Holds(h, p)
      BY <2>4, <1>t, Zenon DEF GoIdle, StopAfterSleep, SchedTypeOK, procVars, Holds
    <3> QED BY <2>0, <2>s, <2>h, <3>1, Zenon
  <2>5. ASSUME NEW h \in Harts, NEW q \in todo[h], WakeSleeper(h, q) PROVE Somewhere(p)'
    <3>1. at' = at /\ cur' = cur /\ next' = next /\ asleep' = asleep /\ due' = due
      BY <2>5, Zenon DEF WakeSleeper
    <3>2. InQueue(p) => InQueue(p)'
      BY <2>0, <2>5, <1>t, EnqueueKeeps, Zenon DEF WakeSleeper, SchedTypeOK
    <3>3. Waking(p) => Waking(p)' \/ p = q
      BY <2>5, <1>t, Zenon DEF WakeSleeper, Waking, SchedTypeOK
    <3>4. p = q => InQueue(p)'
      BY <2>5, <1>t, <1>3, EnqueueKeeps, Zenon DEF WakeSleeper, SchedTypeOK, Listed, ForgottenInv, history
    <3> QED BY <2>0, <2>s, <3>1, <3>2, <3>3, <3>4, Zenon
  <2>6. ASSUME NEW h \in Harts, TimerReturns(h) \/ TimerSignal(h) PROVE Somewhere(p)'
    <3>1. Others(h) /\ asleep' = asleep /\ due' = due /\ todo' = todo /\ rq' = rq
      BY <2>6, <1>t, Zenon DEF TimerReturns, TimerSignal, SchedTypeOK
    <3>2. Holds(h, p) => Holds(h, p)'
      BY <2>6, <1>t, SchedAssumption DEF TimerReturns, TimerSignal, SchedTypeOK, Holds
    <3> QED BY <2>0, <2>s, <2>h, <2>i, <3>1, <3>2, Zenon
  <2>p. ASSUME NEW h \in Harts, TimerPreempt(h) PROVE Somewhere(p)'
    <3>1. Others(h) /\ asleep' = asleep /\ due' = due /\ todo' = todo
      BY <2>p, <1>t, Zenon DEF TimerPreempt, SchedTypeOK
    <3>2. cur[h] \in Tasks /\ Enqueue(cur[h]) /\ (Holds(h, p) => p = cur[h])
      BY <2>p, <1>t, Zenon DEF TimerPreempt, SchedTypeOK, Holds
    <3> QED BY <2>0, <2>s, <2>h, <3>1, <3>2, <1>t, EnqueueKeeps, Zenon
  <2>7. ASSUME NEW h \in Harts, SysYield(h) PROVE Somewhere(p)'
    <3>1. Others(h) /\ asleep' = asleep /\ due' = due /\ todo' = todo
      BY <2>7, <1>t, Zenon DEF SysYield, SchedTypeOK
    <3>2. cur[h] \in Tasks /\ Enqueue(cur[h]) /\ (Holds(h, p) => p = cur[h])
      BY <2>7, <1>t, Zenon DEF SysYield, SchedTypeOK, Holds
    <3> QED BY <2>0, <2>s, <2>h, <3>1, <3>2, <1>t, EnqueueKeeps, Zenon
  <2>8. ASSUME NEW h \in Harts, SysNanosleep(h) PROVE Somewhere(p)'
    <3>1. Others(h) /\ rq' = rq /\ todo' = todo
      BY <2>8, <1>t, Zenon DEF SysNanosleep, SchedTypeOK
    <3>2. (Asleep(p) => Asleep(p)') /\ (Holds(h, p) => Asleep(p)')
      BY <2>8, <1>t DEF SysNanosleep, SchedTypeOK, Holds, Asleep
    <3> QED BY <2>0, <2>s, <2>h, <3>1, <3>2, Zenon
  <2>9. ASSUME NEW h \in Harts, ExitTask(h) PROVE Somewhere(p)'
    <3>1. Others(h) /\ rq' = rq /\ todo' = todo /\ asleep' = asleep /\ due' = due
      BY <2>9, <1>t, Zenon DEF ExitTask, SchedTypeOK
    <3>2. ~Holds(h, p)
      BY <2>9, <1>t, <1>3, Zenon DEF ExitTask, SchedTypeOK, Holds
    <3> QED BY <2>0, <2>s, <2>h, <3>1, <3>2, Zenon
  <2>10. ASSUME NEW h \in Harts, NEW q \in Tasks, SysSignal(h, q) PROVE Somewhere(p)'
    <3>1. at' = at /\ cur' = cur /\ next' = next /\ asleep' = asleep /\ due' = due /\ todo' = todo
      BY <2>10, Zenon DEF SysSignal, hartVars
    <3>2. InQueue(p) => InQueue(p)'
      BY <2>0, <2>10, <1>t, EnqueueKeeps, Zenon DEF SysSignal
    <3> QED BY <2>0, <2>s, <3>1, <3>2, Zenon
  <2>11. ASSUME NEW h \in Harts, SysSetPriority(h) \/ \E q \in Tasks : KillTask(h, q) \/ SysReap(h, q)
         PROVE  Somewhere(p)'
    <3>1. /\ at' = at /\ cur' = cur /\ next' = next /\ asleep' = asleep /\ due' = due /\ todo' = todo
          /\ rq' = rq
      BY <2>11, Zenon DEF SysSetPriority, KillTask, SysReap, hartVars
    <3> QED BY <2>0, <2>s, <3>1, Zenon
  <2>12. ASSUME NEW h \in Harts, TimerFires(h) PROVE Somewhere(p)'
    <3>1. Others(h) /\ rq' = rq
      BY <2>12, <1>t, Zenon DEF TimerFires, SchedTypeOK
    <3>2. Holds(h, p) => Holds(h, p)'
      BY <2>12, <1>t, Zenon DEF TimerFires, SchedTypeOK, Holds
    <3>3. Asleep(p) => Asleep(p)' \/ Waking(p)'
      BY <2>12, <1>t DEF TimerFires, SchedTypeOK, Asleep, Waking
    <3>4. Waking(p) => Waking(p)'
      BY <2>12, <1>t, ZenonT(30) DEF TimerFires, SchedTypeOK, Waking, ForgottenInv, HartInv
    <3> QED BY <2>0, <2>s, <2>h, <2>i, <3>1, <3>2, <3>3, <3>4, Zenon
  <2>13. ASSUME NEW q \in Tasks, TimePasses(q) PROVE Somewhere(p)'
    <3>1. at' = at /\ cur' = cur /\ next' = next /\ todo' = todo /\ rq' = rq
      BY <2>13, Zenon DEF TimePasses, hartVars
    <3>2. Asleep(p) => Asleep(p)'
      BY <2>13, <1>t DEF TimePasses, SchedTypeOK, Asleep
    <3> QED BY <2>0, <2>s, <3>1, <3>2, Zenon
  <2>14. ASSUME UNCHANGED schedVars PROVE Somewhere(p)'
    BY <2>0, <2>s, <2>14, Zenon DEF schedVars, hartVars, procVars
  <2>15. ASSUME NEW h \in Harts, KernelStep(h) PROVE Somewhere(p)'
    BY <2>15, <2>1, <2>2, <2>3, <2>4, <2>5, <2>6, <2>p, Zenon DEF KernelStep
  <2>16. ASSUME NEW h \in Harts, UserStep(h) PROVE Somewhere(p)'
    BY <2>16, <2>7, <2>8, <2>9, <2>10, <2>11, Zenon DEF UserStep
  <2> QED BY <2>12, <2>13, <2>14, <2>15, <2>16, Zenon DEF SchedStep
<1> QED BY <1>2, <1>3, HartStep, Zenon DEF ForgottenInv

\* No process that has not exited is lost, for any number of harts,
\* processes and priorities, whoever is killed, signalled or reniced: it is
\* queued, asleep, being woken, or a hart holds it (schedule(), enqueue,
\* sys_nanosleep, wake_sleepers).
THEOREM NobodyIsForgotten == SchedSpec => []NotForgotten
<1>1. ForgottenInv => NotForgotten
  BY WhereIsSomewhere, Zenon DEF ForgottenInv, HartInv, NotForgotten
<1> QED BY <1>1, ForgottenInit, ForgottenStep, PTL DEF SchedSpec

-----------------------------------------------------------------------------
(* No process is in two places *)

OneEntry(p)  == \A v, w \in Prios : \A m \in DOMAIN rq[v], n \in DOMAIN rq[w] :
                  rq[v][m] = p /\ rq[w][n] = p => v = w /\ m = n
OneSleep(p)  == asleep[p] + due[p] \leq 1
OneHart(p)   == \A h, k \in Harts : Holds(h, p) /\ Holds(k, p) => h = k
OneWakeup(p) == \A h, k \in Harts : p \in todo[h] /\ p \in todo[k] => h = k

\* Of the four kinds of place at most one is taken.
OneKind(p) ==
  /\ InQueue(p) => ~Asleep(p) /\ ~Held(p) /\ ~Waking(p)
  /\ Asleep(p)  => ~Held(p) /\ ~Waking(p)
  /\ Held(p)    => ~Waking(p)

Once(p) == OneEntry(p) /\ OneSleep(p) /\ OneHart(p) /\ OneWakeup(p) /\ OneKind(p)

OnceInv ==
  /\ HartInv
  /\ \A p \in Tasks : Once(p)

\* Once says what NoPhantomEntry says.
LEMMA OncePlace ==
  ASSUME SchedTypeOK, NEW p \in Tasks, Once(p), NEW x \in WhereIs(p), NEW y \in WhereIs(p)
  PROVE  x = y
<1> DEFINE Queued(z) == \E v \in Prios : \E i \in DOMAIN rq[v] : rq[v][i] = p /\ z = <<"queued", v, i>>
           Sleeps(z) == \E n \in 1..(asleep[p] + due[p]) : z = <<"asleep", n>>
           OnCpu(z)  == \E h \in Harts : Holds(h, p) /\ z = <<"held", h>>
           Wakes(z)  == \E h \in Harts : p \in todo[h] /\ z = <<"waking", h>>
<1>1. ASSUME NEW z \in WhereIs(p) PROVE Queued(z) \/ Sleeps(z) \/ OnCpu(z) \/ Wakes(z)
  BY WhereIsMembers
<1>2. \A z : (Queued(z) => InQueue(p)) /\ (OnCpu(z) => Held(p)) /\ (Wakes(z) => Waking(p))
  BY Zenon DEF InQueue, Held, Waking
<1>3. \A z : Sleeps(z) => Asleep(p) /\ z = <<"asleep", 1>>
  BY DEF Once, OneSleep, SchedTypeOK, Asleep
<1>4. ASSUME Queued(x), Queued(y) PROVE x = y
  <2>1. PICK v \in Prios : \E i \in DOMAIN rq[v] : rq[v][i] = p /\ x = <<"queued", v, i>>
    BY <1>4, Zenon
  <2>2. PICK i \in DOMAIN rq[v] : rq[v][i] = p /\ x = <<"queued", v, i>>
    BY <2>1, Zenon
  <2>3. PICK w \in Prios : \E j \in DOMAIN rq[w] : rq[w][j] = p /\ y = <<"queued", w, j>>
    BY <1>4, Zenon
  <2>4. PICK j \in DOMAIN rq[w] : rq[w][j] = p /\ y = <<"queued", w, j>>
    BY <2>3, Zenon
  <2>5. v = w /\ i = j
    BY <2>2, <2>4, Zenon DEF Once, OneEntry
  <2> QED BY <2>2, <2>4, <2>5, Zenon
<1>5. OnCpu(x) /\ OnCpu(y) => x = y
  BY Zenon DEF Once, OneHart
<1>6. Wakes(x) /\ Wakes(y) => x = y
  BY Zenon DEF Once, OneWakeup
<1> HIDE DEF Queued, Sleeps, OnCpu, Wakes
<1> QED BY <1>1, <1>2, <1>3, <1>4, <1>5, <1>6 DEF Once, OneKind

LEMMA OnceInit == SchedInit => OnceInv
<1> SUFFICES ASSUME SchedInit PROVE OnceInv
  BY Zenon
<1>1. ASSUME NEW p \in Tasks PROVE Once(p)
  <2>1. \A v \in Prios : v # NormalPrio => DOMAIN rq[v] = {}
    BY SchedAssumption DEF SchedInit
  <2>2. rq[NormalPrio] = SpawnOrder
    BY SchedAssumption, Zenon DEF SchedInit
  <2>3. OneEntry(p)
    BY <2>1, <2>2, SchedAssumption DEF OneEntry
  <2>4. ~Held(p) /\ ~Waking(p)
    BY Zenon DEF SchedInit, Held, Waking, Holds
  <2>5. ~Asleep(p) /\ OneSleep(p)
    BY DEF SchedInit, Asleep, OneSleep
  <2>6. OneHart(p) /\ OneWakeup(p)
    BY Zenon DEF SchedInit, OneHart, OneWakeup, Holds
  <2> QED BY <2>3, <2>4, <2>5, <2>6, Zenon DEF Once, OneKind
<1> QED BY <1>1, SchedInitType, Zenon DEF OnceInv, HartInv, SchedInit

\* enqueue of a process that has no entry.
LEMMA EnqueueOnce ==
  ASSUME SchedTypeOK, NEW q \in Tasks, Enqueue(q), ~InQueue(q), NEW p \in Tasks, OneEntry(p)
  PROVE  OneEntry(p)' /\ (InQueue(p)' => InQueue(p) \/ p = q)
<1> DEFINE v == prio[q]
<1>1. v \in Prios /\ rq[v] \in Seq(Tasks)
  BY Zenon DEF SchedTypeOK
<1>2. rq' = [rq EXCEPT ![v] = Append(rq[v], q)] /\ DOMAIN rq = Prios
  BY Zenon DEF Enqueue, SchedTypeOK
<1>3. /\ DOMAIN rq[v] = 1..Len(rq[v]) /\ Len(rq[v]) \in Nat
      /\ DOMAIN Append(rq[v], q) = 1..(Len(rq[v]) + 1)
      /\ \A i \in 1..Len(rq[v]) : Append(rq[v], q)[i] = rq[v][i]
      /\ Append(rq[v], q)[Len(rq[v]) + 1] = q
  BY <1>1, QueueAppend
<1>4. rq'[v] = Append(rq[v], q) /\ \A w \in Prios \ {v} : rq'[w] = rq[w]
  BY <1>1, <1>2, Zenon
<1> HIDE DEF v
<1>5. ASSUME NEW w \in Prios, NEW i \in DOMAIN rq'[w], rq'[w][i] = p
      PROVE  \/ i \in DOMAIN rq[w] /\ rq[w][i] = p
             \/ w = v /\ i = Len(rq[v]) + 1 /\ p = q
  BY <1>3, <1>4, <1>5
<1>6. ASSUME NEW w \in Prios, NEW i \in DOMAIN rq[w], rq[w][i] = p PROVE InQueue(p) /\ p # q
  BY <1>6, Zenon DEF InQueue
<1>7. OneEntry(p)'
  BY <1>5, <1>6 DEF OneEntry
<1> QED BY <1>5, <1>6, <1>7, Zenon DEF InQueue

\* schedule() pops the one entry a process has.
LEMMA PopOnce ==
  ASSUME SchedTypeOK, NEW h \in Harts, PopNext(h), NEW p \in Tasks, OneEntry(p)
  PROVE  /\ OneEntry(p)' /\ (InQueue(p)' => InQueue(p) /\ next'[h] # p)
         /\ next'[h] = p => InQueue(p)
<1>1. PICK v \in Prios :
        /\ rq[v] # <<>> /\ next' = [next EXCEPT ![h] = Head(rq[v])]
        /\ rq' = [rq EXCEPT ![v] = Tail(@)]
  BY Zenon DEF PopNext
<1>2. /\ Head(rq[v]) = rq[v][1]
      /\ DOMAIN rq[v] = 1..Len(rq[v]) /\ Len(rq[v]) \in Nat \ {0}
      /\ DOMAIN Tail(rq[v]) = 1..(Len(rq[v]) - 1)
      /\ \A i \in 1..(Len(rq[v]) - 1) : Tail(rq[v])[i] = rq[v][i + 1]
  BY <1>1, QueueTail, Zenon DEF SchedTypeOK
<1>3. /\ rq'[v] = Tail(rq[v]) /\ \A w \in Prios \ {v} : rq'[w] = rq[w]
      /\ next'[h] = rq[v][1]
  BY <1>1, <1>2, Zenon DEF SchedTypeOK
<1>4. ASSUME NEW w \in Prios, NEW i \in DOMAIN rq'[w], rq'[w][i] = p
      PROVE  \/ w # v /\ i \in DOMAIN rq[w] /\ rq[w][i] = p
             \/ w = v /\ i \in Nat /\ i + 1 \in DOMAIN rq[v] /\ rq[v][i + 1] = p /\ i + 1 # 1
  <2>1. CASE w # v
    BY <2>1, <1>3, <1>4, Zenon
  <2>2. CASE w = v
    <3>1. i \in 1..(Len(rq[v]) - 1) /\ Tail(rq[v])[i] = p
      BY <2>2, <1>2, <1>3, <1>4, Zenon
    <3> QED BY <2>2, <3>1, <1>2
  <2> QED BY <2>1, <2>2, Zenon
<1>5. 1 \in DOMAIN rq[v] /\ rq[v][1] = next'[h]
  BY <1>2, <1>3
<1>6. OneEntry(p)'
  BY <1>4 DEF OneEntry
<1>7. ASSUME NEW w \in Prios, NEW i \in DOMAIN rq'[w], rq'[w][i] = p
      PROVE  InQueue(p) /\ next'[h] # p
  BY <1>4, <1>5, <1>7 DEF InQueue, OneEntry
<1>8. next'[h] = p => InQueue(p)
  BY <1>5, Zenon DEF InQueue
<1> QED BY <1>6, <1>7, <1>8, Zenon DEF InQueue

\* A step of hart h that takes hold of no process another place has.
LEMMA HoldOnce ==
  ASSUME NEW h \in Harts, NEW p,
         \A k \in Harts \ {h} : at'[k] = at[k] /\ cur'[k] = cur[k] /\ next'[k] = next[k],
         OneHart(p), Holds(h, p)' => Holds(h, p) \/ ~Held(p)
  PROVE  /\ OneHart(p)'
         /\ Held(p)' => Held(p) \/ Holds(h, p)'
         /\ Holds(h, p) /\ Held(p)' => Holds(h, p)'
<1>1. \A k \in Harts \ {h} : Holds(k, p)' <=> Holds(k, p)
  BY Zenon DEF Holds
<1> QED BY <1>1, Zenon DEF OneHart, Held

\* The variables a step leaves alone.
LEMMA SameOnce ==
  ASSUME NEW p
  PROVE  /\ rq' = rq => OneEntry(p)' = OneEntry(p) /\ InQueue(p)' = InQueue(p)
         /\ asleep' = asleep /\ due' = due => OneSleep(p)' = OneSleep(p) /\ Asleep(p)' = Asleep(p)
         /\ at' = at /\ cur' = cur /\ next' = next => OneHart(p)' = OneHart(p) /\ Held(p)' = Held(p)
         /\ todo' = todo => OneWakeup(p)' = OneWakeup(p) /\ Waking(p)' = Waking(p)
BY DEF OneEntry, InQueue, OneSleep, Asleep, OneHart, Held, Holds, OneWakeup, Waking

\* Where no signal is sent.  sys_kill of a Stopped process enqueues it and
\* leaves its SLEEP_QUEUE entry, so the premise is needed.
LEMMA OnceStep ==
  ASSUME MaxSignals = 0, OnceInv, [SchedStep]_schedVars
  PROVE  OnceInv'
<1>t. SchedTypeOK /\ SchedTypeOK'
  BY SchedStepType, Zenon DEF OnceInv, HartInv
<1>o. \A p \in Tasks : Once(p)
  BY Zenon DEF OnceInv
<1> DEFINE Others(h) == \A k \in Harts \ {h} : at'[k] = at[k] /\ cur'[k] = cur[k] /\ next'[k] = next[k]
<1>1. ASSUME NEW p \in Tasks PROVE Once(p)'
  <2>1. ASSUME NEW h \in Harts, PopNext(h) PROVE Once(p)'
    <3>1. Others(h) /\ asleep' = asleep /\ due' = due /\ todo' = todo /\ ~Holds(h, p)
      BY <2>1, <1>t, Zenon DEF PopNext, SchedTypeOK, Holds
    <3>2. Holds(h, p)' <=> next'[h] = p
      BY <2>1, <1>t, Zenon DEF PopNext, SchedTypeOK, Holds
    <3>3. /\ OneEntry(p)' /\ (InQueue(p)' => InQueue(p) /\ next'[h] # p)
          /\ next'[h] = p => InQueue(p)
      BY <2>1, <1>t, <1>o, PopOnce, Zenon DEF Once
    <3>4. OneHart(p)' /\ (Held(p)' => Held(p) \/ Holds(h, p)')
      BY <3>1, <3>2, <3>3, <1>o, HoldOnce, Zenon DEF Once, OneKind
    <3> QED BY <3>1, <3>2, <3>3, <3>4, <1>o, SameOnce, Zenon DEF Once, OneKind
  <2>2. ASSUME NEW h \in Harts,
               CheckPopped(h) \/ Dispatch(h) \/ GoIdle(h) \/ StopAfterSleep(h) \/ ExitTask(h)
        PROVE  Once(p)'
    <3>1. Others(h) /\ asleep' = asleep /\ due' = due /\ todo' = todo /\ rq' = rq
      BY <2>2, <1>t, ZenonT(30) DEF CheckPopped, Dispatch, GoIdle, StopAfterSleep, ExitTask, SchedTypeOK, procVars
    <3>2. Holds(h, p)' => Holds(h, p)
      BY <2>2, <1>t, ZenonT(30) DEF CheckPopped, Dispatch, GoIdle, StopAfterSleep, ExitTask, SchedTypeOK, Holds
    <3>3. OneHart(p)' /\ (Held(p)' => Held(p))
      BY <3>1, <3>2, <1>o, HoldOnce, Zenon DEF Once, Held
    <3> QED BY <3>1, <3>3, <1>o, SameOnce, Zenon DEF Once, OneKind
  <2>3. ASSUME NEW h \in Harts, NEW q \in todo[h], WakeSleeper(h, q) PROVE Once(p)'
    <3>1. at' = at /\ cur' = cur /\ next' = next /\ asleep' = asleep /\ due' = due
      BY <2>3, Zenon DEF WakeSleeper
    <3>2. q \in Tasks /\ Waking(q) /\ ~InQueue(q)
      BY <1>t, <1>o, Zenon DEF SchedTypeOK, Waking, Once, OneKind
    <3>3. OneEntry(p)' /\ (InQueue(p)' => InQueue(p) \/ p = q)
      BY <2>3, <3>2, <1>t, <1>o, EnqueueOnce, SameOnce, Zenon DEF WakeSleeper, Once
    <3>w. \A k \in Harts : todo'[k] = IF k = h THEN todo[k] \ {q} ELSE todo[k]
      BY <2>3, <1>t, Zenon DEF WakeSleeper, SchedTypeOK
    <3>4. OneWakeup(p)' /\ (Waking(p)' => Waking(p) /\ p # q)
      BY <3>w, <1>o, Zenon DEF Waking, Once, OneWakeup
    <3> QED BY <3>1, <3>2, <3>3, <3>4, <1>o, SameOnce, Zenon DEF Once, OneKind
  <2>4. ASSUME NEW h \in Harts, TimerReturns(h) \/ TimerSignal(h) \/ TimerPreempt(h) \/ SysYield(h)
        PROVE  Once(p)'
    <3>1. Others(h) /\ asleep' = asleep /\ due' = due /\ todo' = todo
      BY <2>4, <1>t, Zenon DEF TimerReturns, TimerSignal, TimerPreempt, SysYield, SchedTypeOK
    <3>2. \/ rq' = rq
          \/ cur[h] \in Tasks /\ Enqueue(cur[h]) /\ Holds(h, cur[h]) /\ ~Holds(h, p)'
      BY <2>4, <1>t, Zenon DEF TimerReturns, TimerSignal, TimerPreempt, SysYield, SchedTypeOK, Holds
    <3>3. Holds(h, p)' => Holds(h, p)
      BY <2>4, <1>t, Zenon DEF TimerReturns, TimerSignal, TimerPreempt, SysYield, SchedTypeOK, Holds
    <3>4. /\ OneHart(p)' /\ (Held(p)' => Held(p))
          /\ Holds(h, p) /\ Held(p)' => Holds(h, p)'
      BY <3>1, <3>3, <1>o, HoldOnce, Zenon DEF Once, Held
    <3>5. CASE rq' = rq
      BY <3>1, <3>4, <3>5, <1>o, SameOnce, Zenon DEF Once, OneKind
    <3>6. CASE rq' # rq
      <4>1. cur[h] \in Tasks /\ Enqueue(cur[h]) /\ Held(cur[h]) /\ ~InQueue(cur[h])
        BY <3>2, <3>6, <1>o, Zenon DEF Held, Once, OneKind
      <4>2. OneEntry(p)' /\ (InQueue(p)' => InQueue(p) \/ p = cur[h])
        BY <4>1, <1>t, <1>o, EnqueueOnce, Zenon DEF Once
      <4>3. p = cur[h] => Held(p) /\ ~Held(p)'
        BY <3>2, <3>4, <3>6, <4>1, Zenon
      <4> QED BY <3>1, <3>4, <4>2, <4>3, <1>o, SameOnce, Zenon DEF Once, OneKind
    <3> QED BY <3>5, <3>6, Zenon
  <2>5. ASSUME NEW h \in Harts, SysNanosleep(h) PROVE Once(p)'
    <3>1. Others(h) /\ rq' = rq /\ todo' = todo /\ ~Holds(h, p)'
      BY <2>5, <1>t, Zenon DEF SysNanosleep, SchedTypeOK, Holds
    <3>2. /\ OneHart(p)' /\ (Held(p)' => Held(p))
          /\ Holds(h, p) => ~Held(p)'
      BY <3>1, <1>o, HoldOnce, Zenon DEF Once, Held
    <3>3. CASE p = cur[h]
      <4>1. Holds(h, p) /\ Held(p)
        BY <3>3, <2>5, Zenon DEF SysNanosleep, Holds, Held
      <4>2. OneSleep(p)'
        BY <4>1, <3>3, <2>5, <1>t, <1>o DEF SysNanosleep, SchedTypeOK, Once, OneKind, OneSleep, Asleep
      <4> QED BY <3>1, <3>2, <4>1, <4>2, <1>o, SameOnce, Zenon DEF Once, OneKind
    <3>4. CASE p # cur[h]
      <4>1. asleep'[p] = asleep[p] /\ due'[p] = due[p]
        BY <3>4, <2>5, <1>t, Zenon DEF SysNanosleep, SchedTypeOK
      <4>2. (OneSleep(p) => OneSleep(p)') /\ (Asleep(p)' => Asleep(p))
        BY <4>1, Zenon DEF OneSleep, Asleep
      <4> QED BY <3>1, <3>2, <4>2, <1>o, SameOnce, Zenon DEF Once, OneKind
    <3> QED BY <3>3, <3>4, Zenon
  <2>6. ASSUME NEW h \in Harts, SysSetPriority(h) \/ \E q \in Tasks : KillTask(h, q) \/ SysReap(h, q)
        PROVE  Once(p)'
    <3>1. /\ at' = at /\ cur' = cur /\ next' = next /\ asleep' = asleep /\ due' = due /\ todo' = todo
          /\ rq' = rq
      BY <2>6, Zenon DEF SysSetPriority, KillTask, SysReap, hartVars
    <3> QED BY <3>1, <1>o, SameOnce, Zenon DEF Once, OneKind
  <2>7. ASSUME NEW h \in Harts, NEW q \in Tasks, SysSignal(h, q) PROVE FALSE
    BY <2>7, <1>t DEF SysSignal, SchedTypeOK
  <2>8. ASSUME NEW h \in Harts, TimerFires(h) PROVE Once(p)'
    <3>1. Others(h) /\ rq' = rq
      BY <2>8, <1>t, Zenon DEF TimerFires, SchedTypeOK
    <3>2. Holds(h, p)' => Holds(h, p)
      BY <2>8, <1>t, SchedAssumption DEF TimerFires, SchedTypeOK, Holds, OnceInv, HartInv
    <3>3. OneHart(p)' /\ (Held(p)' => Held(p))
      BY <3>1, <3>2, <1>o, HoldOnce, Zenon DEF Once, Held
    <3>4. /\ OneSleep(p)' /\ (Asleep(p)' => Asleep(p) /\ due[p] = 0)
          /\ due[p] > 0 => Asleep(p)
      BY <2>8, <1>t, <1>o DEF TimerFires, SchedTypeOK, Once, OneSleep, Asleep
    <3>5. \A k \in Harts : p \in todo'[k] <=> (k # h /\ p \in todo[k]) \/ (k = h /\ due[p] > 0)
      BY <2>8, <1>t, Zenon DEF TimerFires, SchedTypeOK
    <3>6. OneWakeup(p)' /\ (Waking(p)' => Waking(p) \/ due[p] > 0)
      BY <3>5, <3>4, <1>o, Zenon DEF OneWakeup, Waking, Once, OneKind
    <3>7. due[p] > 0 \/ due[p] = 0
      BY <1>t DEF SchedTypeOK
    <3> QED BY <3>1, <3>3, <3>4, <3>6, <3>7, <1>o, SameOnce DEF Once, OneKind
  <2>9. ASSUME NEW q \in Tasks, TimePasses(q) PROVE Once(p)'
    <3>1. at' = at /\ cur' = cur /\ next' = next /\ todo' = todo /\ rq' = rq
      BY <2>9, Zenon DEF TimePasses, hartVars
    <3>2. (OneSleep(p) => OneSleep(p)') /\ (Asleep(p)' => Asleep(p))
      BY <2>9, <1>t DEF TimePasses, SchedTypeOK, Asleep, OneSleep
    <3> QED BY <3>1, <3>2, <1>o, SameOnce, Zenon DEF Once, OneKind
  <2>10. ASSUME UNCHANGED schedVars PROVE Once(p)'
    BY <2>10, <1>o, SameOnce, Zenon DEF schedVars, hartVars, procVars, Once, OneKind
  <2>11. ASSUME NEW h \in Harts, KernelStep(h) PROVE Once(p)'
    BY <2>11, <2>1, <2>2, <2>3, <2>4, Zenon DEF KernelStep
  <2>12. ASSUME NEW h \in Harts, UserStep(h) PROVE Once(p)'
    BY <2>12, <2>2, <2>4, <2>5, <2>6, <2>7, Zenon DEF UserStep
  <2> QED BY <2>8, <2>9, <2>10, <2>11, <2>12, Zenon DEF SchedStep
<1> QED BY <1>1, HartStep, Zenon DEF OnceInv

\* Without signals no process is ever in two places (queued twice, queued
\* and asleep, on two harts), so no two harts run the same process; whoever
\* is killed, reaped or reniced (schedule(), enqueue, sys_nanosleep,
\* wake_sleepers, the timer interrupt).
THEOREM NobodyIsTwice ==
  ASSUME MaxSignals = 0
  PROVE  SchedSpec => []NoPhantomEntry
<1>1. OnceInv => NoPhantomEntry
  BY OncePlace, Zenon DEF OnceInv, HartInv, NoPhantomEntry
<1>2. OnceInv /\ [SchedStep]_schedVars => OnceInv'
  BY OnceStep, Zenon
<1> QED BY <1>1, <1>2, OnceInit, PTL DEF SchedSpec

-----------------------------------------------------------------------------
(* The lock *)

\* The owner field names a hart exactly while that hart is between the two
\* writes of the field.  It is what the check of lock relies on.
LockInv ==
  /\ LockTypeOK
  /\ \A h \in LockHarts :
       /\ Has(h) <=> inner = h
       /\ where[h] \in {"held", "panic"} <=> owner = h

\* A hart that is started has its own number.
LEMMA HartIdIsHart == \A h \in LockHarts : h \in Int /\ h >= 0 /\ HartId(h) = h
BY HartsAssumption, SMT DEF HartId

LEMMA LockInitInv == LockInit => LockInv
BY HartIdIsHart, HartsAssumption DEF LockInit, LockInv, LockTypeOK, Has, NoHart

LEMMA LockStepInv == LockInv /\ [LockStep]_lockVars => LockInv'
<1> SUFFICES ASSUME LockInv, [LockStep]_lockVars PROVE LockInv'
  BY Zenon
<1> USE HartIdIsHart, HartsAssumption DEF LockInv, LockTypeOK, Has, NoHart, Go
<1>1. ASSUME NEW h \in LockHarts, Lock(h) PROVE LockInv'
  BY <1>1, Zenon DEF Lock
<1>2. ASSUME NEW h \in LockHarts, SpinLock(h) PROVE LockInv'
  BY <1>2 DEF SpinLock
<1>3. ASSUME NEW h \in LockHarts, TryLock(h) PROVE LockInv'
  BY <1>3, Zenon DEF TryLock
<1>4. ASSUME NEW h \in LockHarts, SpinTryLock(h) PROVE LockInv'
  BY <1>4 DEF SpinTryLock
<1>5. ASSUME NEW h \in LockHarts, SetOwner(h) PROVE LockInv'
  BY <1>5, Zenon DEF SetOwner
<1>6. ASSUME NEW h \in LockHarts, DropGuard(h) PROVE LockInv'
  BY <1>6 DEF DropGuard
<1>7. ASSUME NEW h \in LockHarts, DropInner(h) PROVE LockInv'
  BY <1>7 DEF DropInner
<1>8. CASE UNCHANGED lockVars
  BY <1>8, Zenon DEF lockVars
<1> QED BY <1>1, <1>2, <1>3, <1>4, <1>5, <1>6, <1>7, <1>8, Zenon DEF LockStep

\* However many harts use a lock, it excludes, a hart panics in lock only
\* when it holds the lock, and no hart spins on a lock it holds (lock,
\* try_lock and the drop of the guard in sync.rs).
THEOREM LockIsRight == LockSpec => []OnlyRecursionPanics
<1>1. LockInv => OnlyRecursionPanics
  BY Zenon DEF LockInv, OnlyRecursionPanics, Has
<1> QED BY LockInitInv, LockStepInv, <1>1, PTL DEF LockSpec
=============================================================================
