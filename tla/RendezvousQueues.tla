-------------------------- MODULE RendezvousQueues --------------------------
(***************************************************************************)
(* More proofs about Rendezvous: the senders queues, whom a wait leaves    *)
(* runnable, what a successful send and a reply mean.                      *)
(***************************************************************************)
EXTENDS RendezvousProofs

-----------------------------------------------------------------------------
(* The senders queues *)

\* Whoever sits in the senders queue of q is off every run queue, and not
\* blocked sending to anybody else.  (One whose call was broken off by the exit
\* of a third process, or who was reaped, stays queued with no call at all.)
Off(s, q) ==
  /\ tokens[s] = 0 /\ ipc[s].kind \in {"Sending", "None", "MessageAvailable"}
  /\ ipc[s].kind = "Sending" => ipc[s].peer = q

Once(s) == \A i, j \in 1..Len(s) : s[i] = s[j] => i = j

QueueInv ==
  \A q \in Procs : Once(senders[q]) /\ \A i \in 1..Len(senders[q]) : Off(senders[q][i], q)

\* p serves s, taken off its queue.
Serves(p, s, src) ==
  /\ InTable(s) /\ ipc[s].kind = "Sending" /\ Copy(p, ipc[s].msg, "receive", src)
  /\ \A r \in Procs \ {s} : ipc'[r] = ipc[r] /\ tokens'[r] = tokens[r]
  /\ \/ ipc[s].wantsReply /\ ipc'[s] = ReceivingReply(p) /\ tokens'[s] = tokens[s]
     \/ ~ipc[s].wantsReply /\ ipc'[s] = SendDone /\ tokens'[s] = tokens[s] + 1

LEMMA TakesSenderShape ==
  ASSUME TypeOK, NEW p \in Procs, NEW src \in Sources, NEW ok \in PtrOutcomes, TakesSender(p, src, ok)
  PROVE  \E i \in 1..Len(senders[p]) : \E s \in Procs :
           /\ s = senders[p][i] /\ senders' = [senders EXCEPT ![p] = RemoveAt(@, i)]
           /\ \/ Serves(p, s, src) /\ ok
              \/ /\ UNCHANGED <<ipc, tokens, delivered>>
                 /\ ~ok \/ ~InTable(s) \/ ipc[s].kind # "Sending"
           /\ UNCHANGED <<call, sent, acked, status, irqPending>> /\ Idle(p)
<1>1. PICK i \in 1..Len(senders[p]) :
        senders' = [senders EXCEPT ![p] = RemoveAt(@, i)] /\ TakeMessageOf(p, senders[p][i], src, ok)
  BY Zenon DEF TakesSender, ReceiveFromSender
<1>2. PICK s \in Procs : s = senders[p][i]
  BY ElementOfSeq, Zenon DEF TypeOK
<1>3. UNCHANGED <<call, sent, acked, status, irqPending>> /\ Idle(p)
  BY Zenon DEF TakesSender, ReceiveFromSender
<1>4. ipc \in [Procs -> IpcStates] /\ tokens \in [Procs -> Nat] /\ ipc[s].wantsReply \in BOOLEAN
  BY Zenon DEF TypeOK, IpcStates
<1>5. \/ Serves(p, s, src) /\ ok
      \/ /\ UNCHANGED <<ipc, tokens, delivered>>
         /\ ~ok \/ ~InTable(s) \/ ipc[s].kind # "Sending"
  BY <1>1, <1>2, <1>4, Zenon DEF TakeMessageOf, Serves, Enqueue
<1> QED BY <1>1, <1>2, <1>3, <1>5, Zenon

\* Whoever is off stays off until it is served.
LEMMA StaysOff ==
  ASSUME TypeOK, CallInv, OtherStep, NEW s \in Procs, NEW q, Off(s, q)
  PROVE  Off(s, q)'
<1>t. /\ ipc \in [Procs -> IpcStates] /\ tokens \in [Procs -> Nat] /\ tokens[s] = 0
      /\ ipc[s].kind \in {"Sending", "None", "MessageAvailable"}
      /\ \A p \in Procs : CanRun(p) => p # s
  BY DEF TypeOK, Off, CanRun
<1>k. IpcNone.kind = "None" /\ \A m \in Messages : MsgAvailable(m).kind = "MessageAvailable"
  BY ConstructorsTyped, Zenon
<1>a. ASSUME ipc'[s] = ipc[s], tokens'[s] = tokens[s] PROVE Off(s, q)'
  BY <1>a, Zenon DEF Off
<1>b. ASSUME ipc'[s].kind \in {"None", "MessageAvailable"}, tokens'[s] = tokens[s] PROVE Off(s, q)'
  BY <1>t, <1>b, Zenon DEF Off
<1>1. ASSUME NEW p \in Procs, NEW r \in Procs,
             \/ Fails(p) \/ Completes(p, r) \/ Deposits(p, r) \/ DepositsAndWaits(p, r) \/ TakesReply(p, r)
             \/ \E op \in {"send", "sendrec"} : QueuesUp(p, r, op)
      PROVE  ipc'[s] = ipc[s] /\ tokens'[s] = tokens[s]
  <2>1. p # s
    BY <1>t, <1>1, Zenon DEF Fails, Completes, Deposits, DepositsAndWaits, TakesReply, QueuesUp, Issued
  <2>2. ASSUME Deposits(p, r) \/ DepositsAndWaits(p, r) PROVE r # s
    BY <1>t, <2>2, Zenon DEF Deposits, DepositsAndWaits, TargetAccepts
  <2> QED BY <1>t, <1>1, <2>1, <2>2, ZenonT(30) DEF Fails, Completes, Deposits, DepositsAndWaits, TakesReply, QueuesUp
<1>2. ASSUME NEW p \in Procs, NEW src \in Sources,
             \/ Waits(p, src) \/ \E ok \in PtrOutcomes : TakesDeposit(p, src, ok) \/ TakesIrq(p, src, ok)
      PROVE  ipc'[s] = ipc[s] /\ tokens'[s] = tokens[s]
  <2>1. p # s
    BY <1>t, <1>2, Zenon DEF Waits, Idle, TakesDeposit, TakesIrq
  <2> QED BY <1>t, <1>2, <2>1, Zenon DEF Waits, TakesDeposit, TakesIrq, ReceiveBlock, Park, ReceiveAvailable, ReceiveIrq
<1>4. ASSUME Interrupted PROVE Off(s, q)'
  <2>1. PICK m \in Messages : KernelSendMsg(irqOwner, m)
    BY <1>4, Zenon DEF Interrupted
  <2>2. irqOwner \in Procs
    BY <1>4, Zenon DEF Interrupted
  <2>3. tokens'[s] = tokens[s] /\ (ipc'[s] = ipc[s] \/ ipc'[s] = MsgAvailable(m))
    BY <1>t, <2>1, <2>2, Zenon DEF KernelSendMsg, TargetAccepts, Enqueue
  <2> QED BY <1>a, <1>b, <1>k, <2>3, Zenon
<1>5. ASSUME NEW p \in Procs, Dies(p) \/ Discard(p) PROVE ipc'[s] = ipc[s] /\ tokens'[s] = tokens[s]
  BY <1>t, <1>5 DEF Dies, Discard
<1>6. ASSUME NEW p \in Procs, Reap(p) \/ \E r \in Procs : Released(r, p) PROVE Off(s, q)'
  <2>1. tokens'[s] = tokens[s] /\ (ipc'[s] = ipc[s] \/ ipc'[s] = IpcNone)
    BY <1>t, <1>6, Zenon DEF Reap, Released
  <2> QED BY <1>a, <1>b, <1>k, <2>1, Zenon
<1>7. ASSUME Still PROVE ipc'[s] = ipc[s] /\ tokens'[s] = tokens[s]
  BY <1>7, Zenon DEF Still
<1> QED BY <1>a, <1>1, <1>2, <1>4, <1>5, <1>6, <1>7, Zenon DEF OtherStep

LEMMA OnceAppend ==
  ASSUME NEW S, NEW s \in Seq(S), NEW x \in S, Once(s), \A k \in 1..Len(s) : s[k] # x
  PROVE  Once(Append(s, x))
BY DEF Once

LEMMA QueueStep ==
  ASSUME TypeOK, CallInv, QueueInv, SomeStep
  PROVE  QueueInv'
<1>t. /\ senders \in [Procs -> Seq(Procs)] /\ \A q \in Procs : senders[q] \in Seq(Procs)
      /\ tokens \in [Procs -> Nat] /\ ipc \in [Procs -> IpcStates]
  BY Zenon DEF TypeOK
<1>e. \A q \in Procs : \A i \in 1..Len(senders[q]) : senders[q][i] \in Procs
  BY <1>t, ElementOfSeq, Zenon
<1>1. ASSUME NEW p \in Procs, NEW src \in Sources, NEW ok \in PtrOutcomes, TakesSender(p, src, ok)
      PROVE  QueueInv'
  <2>1. PICK i \in 1..Len(senders[p]) : \E s \in Procs :
          /\ s = senders[p][i] /\ senders' = [senders EXCEPT ![p] = RemoveAt(@, i)]
          /\ Serves(p, s, src) \/ UNCHANGED <<ipc, tokens>>
    BY <1>1, TakesSenderShape, Zenon
  <2>2. PICK s \in Procs :
          /\ s = senders[p][i] /\ senders' = [senders EXCEPT ![p] = RemoveAt(@, i)]
          /\ Serves(p, s, src) \/ UNCHANGED <<ipc, tokens>>
    BY <2>1, Zenon
  <2>3. \A x \in Procs, q \in Procs : Off(x, q) /\ (x # s \/ UNCHANGED <<ipc, tokens>>) => Off(x, q)'
    BY <2>2, Zenon DEF Off, Serves
  <2>4. \A q \in Procs : \A k \in 1..Len(senders[q]) : Serves(p, s, src) /\ senders[q][k] = s => q = p
    <3>1. Serves(p, s, src) => ipc[s].kind = "Sending"
      BY Zenon DEF Serves
    <3>2. \A q \in Procs : \A k \in 1..Len(senders[q]) : senders[q][k] = s => Off(s, q)
      BY Zenon DEF QueueInv
    <3>3. Off(s, p)
      BY <2>2, Zenon DEF QueueInv
    <3> QED BY <3>1, <3>2, <3>3, Zenon DEF Off
  <2>5. ASSUME NEW q \in Procs \ {p}
        PROVE  Once(senders'[q]) /\ \A k \in 1..Len(senders'[q]) : Off(senders[q][k], q)'
    <3>1. senders'[q] = senders[q]
      BY <1>t, <2>2, Zenon
    <3>2. Once(senders[q]) /\ \A k \in 1..Len(senders[q]) : Off(senders[q][k], q)
      BY Zenon DEF QueueInv
    <3>3. ASSUME NEW k \in 1..Len(senders'[q]) PROVE Off(senders[q][k], q)'
      <4>1. PICK x \in Procs : x = senders[q][k]
        BY <1>e, <3>1, Zenon
      <4>2. x # s \/ UNCHANGED <<ipc, tokens>>
        BY <2>2, <2>4, <4>1
      <4>3. Off(x, q)
        BY <3>1, <3>2, <4>1, Zenon
      <4>4. Off(x, q)'
        BY <2>3, <4>2, <4>3, Zenon
      <4> QED BY <3>1, <4>1, <4>4, Zenon DEF Off
    <3> QED BY <3>1, <3>2, <3>3, Zenon
  <2>6. Once(senders'[p]) /\ \A k \in 1..Len(senders'[p]) : Off(senders[p][k], p)'
    <3>1. /\ senders'[p] = RemoveAt(senders[p], i) /\ Len(senders[p]) \in Nat
      BY <1>t, <2>2
    <3>2. /\ Len(senders'[p]) = Len(senders[p]) - 1
          /\ \A j \in 1..(Len(senders[p]) - 1) :
               senders'[p][j] = IF j < i THEN senders[p][j] ELSE senders[p][j + 1]
      BY <1>t, <3>1, RemoveAtTyped, ZenonT(30)
    <3>3. Once(senders[p]) /\ \A k \in 1..Len(senders[p]) : Off(senders[p][k], p)
      BY Zenon DEF QueueInv
    <3>4. Once(senders'[p])
      BY <3>1, <3>2, <3>3 DEF Once
    <3>5. ASSUME NEW j \in 1..Len(senders'[p]) PROVE Off(senders[p][j], p)'
      <4>1. PICK k \in 1..Len(senders[p]) : k # i /\ senders'[p][j] = senders[p][k]
        <5>1. CASE j < i
          BY <3>1, <3>2, <5>1
        <5>2. CASE ~(j < i)
          <6>1. j + 1 \in 1..Len(senders[p]) /\ j + 1 # i /\ senders'[p][j] = senders[p][j + 1]
            BY <3>1, <3>2, <5>2
          <6> QED BY <6>1, Zenon
        <5> QED BY <5>1, <5>2, Zenon
      <4>2. PICK x \in Procs : x = senders[p][k]
        BY <1>e, Zenon
      <4>3. x # s
        BY <2>2, <3>3, <4>1, <4>2, Zenon DEF Once
      <4>4. Off(x, p)'
        BY <2>3, <3>3, <4>2, <4>3, Zenon
      <4> QED BY <4>1, <4>2, <4>4, Zenon DEF Off
    <3> QED BY <3>4, <3>5, Zenon
  <2> QED BY <2>5, <2>6, Zenon DEF QueueInv
<1>2. ASSUME OtherStep PROVE QueueInv'
  <2>o. ASSUME NEW q \in Procs, NEW k \in 1..Len(senders[q]), NEW x \in Procs, x = senders[q][k]
        PROVE  Off(x, q)'
    <3>1. Off(x, q)
      BY <2>o, Zenon DEF QueueInv
    <3> QED BY <1>2, <3>1, StaysOff, Zenon
  <2>u. ASSUME NEW q \in Procs, senders'[q] = senders[q] \/ senders'[q] = <<>>
        PROVE  Once(senders'[q]) /\ \A k \in 1..Len(senders'[q]) : Off(senders[q][k], q)'
    <3>1. CASE senders'[q] = senders[q]
      <4>1. ASSUME NEW k \in 1..Len(senders[q]) PROVE Off(senders[q][k], q)'
        <5>1. PICK x \in Procs : x = senders[q][k]
          BY <1>e, Zenon
        <5>2. Off(x, q)'
          BY <2>o, <5>1, Zenon
        <5> QED BY <3>1, <5>1, <5>2, Zenon DEF Off
      <4> QED BY <3>1, <4>1, Zenon DEF QueueInv
    <3>2. CASE senders'[q] = <<>>
      BY <3>2 DEF Once
    <3> QED BY <2>u, <3>1, <3>2, Zenon
  <2>1. ASSUME NEW p \in Procs, NEW r \in Procs, NEW op \in {"send", "sendrec"}, QueuesUp(p, r, op)
        PROVE  QueueInv'
    <3>1. ASSUME NEW q \in Procs \ {r} PROVE senders'[q] = senders[q]
      BY <1>t, <2>1, <3>1, Zenon DEF QueuesUp
    <3>2. senders'[r] = Append(senders[r], p) /\ tokens[p] > 0 /\ tokens'[p] = tokens[p] - 1
      BY <1>t, <2>1, Zenon DEF QueuesUp, Issued, CanRun
    <3>3. Off(p, r)'
      <4>1. ipc'[p].kind = "Sending" /\ ipc'[p].peer = r
        BY <1>t, <2>1, Zenon DEF QueuesUp, Sending
      <4>2. tokens'[p] = 0
        BY <1>t, <3>2 DEF CallInv, TokenMatches
      <4> QED BY <4>1, <4>2, Zenon DEF Off
    <3>4. ASSUME NEW k \in 1..Len(senders[r]) PROVE senders[r][k] # p
      <4>1. tokens[senders[r][k]] = 0
        BY Zenon DEF QueueInv, Off
      <4> QED BY <3>2, <4>1
    <3>5. /\ Len(senders'[r]) = Len(senders[r]) + 1 /\ Len(senders[r]) \in Nat
          /\ \A k \in 1..Len(senders[r]) : senders'[r][k] = senders[r][k]
          /\ senders'[r][Len(senders[r]) + 1] = p
      BY <1>t, <3>2
    <3>6. Once(senders'[r])
      BY <1>t, <3>2, <3>4, OnceAppend, Zenon DEF QueueInv
    <3>7. ASSUME NEW k \in 1..Len(senders'[r]) PROVE Off(senders[r][k], r)'
      <4>1. CASE k \in 1..Len(senders[r])
        <5>1. PICK x \in Procs : x = senders[r][k]
          BY <1>e, <4>1, Zenon
        <5>2. Off(x, r)' /\ senders'[r][k] = x
          BY <2>o, <3>5, <4>1, <5>1, Zenon
        <5> QED BY <5>2, Zenon DEF Off
      <4>2. CASE k = Len(senders[r]) + 1
        BY <3>3, <3>5, <4>2, Zenon DEF Off
      <4> QED BY <3>5, <4>1, <4>2
    <3> QED BY <2>u, <3>1, <3>6, <3>7, Zenon DEF QueueInv
  <2>2. ASSUME NEW p \in Procs, Dies(p) \/ Reap(p) PROVE QueueInv'
    <3>1. \A q \in Procs : senders'[q] = senders[q] \/ senders'[q] = <<>>
      BY <1>t, <2>2, Zenon DEF Dies, Reap
    <3> QED BY <2>u, <3>1, Zenon DEF QueueInv
  <2>3. ASSUME senders' = senders PROVE QueueInv'
    BY <2>u, <2>3, Zenon DEF QueueInv
  <2>4. ASSUME NEW p \in Procs, NEW q \in Procs,
               \/ Fails(p) \/ Discard(p) \/ Completes(p, q) \/ Deposits(p, q) \/ DepositsAndWaits(p, q)
               \/ TakesReply(p, q) \/ Released(p, q)
        PROVE  senders' = senders
    BY <2>4, ZenonT(30) DEF Fails, Discard, Completes, Deposits, DepositsAndWaits, TakesReply, Released
  <2>5. ASSUME NEW p \in Procs, NEW src \in Sources,
               \/ Waits(p, src) \/ \E ok \in PtrOutcomes : TakesDeposit(p, src, ok) \/ TakesIrq(p, src, ok)
        PROVE  senders' = senders
    BY <2>5, Zenon DEF Waits, TakesDeposit, TakesIrq, ReceiveBlock, ReceiveAvailable, ReceiveIrq
  <2>6. ASSUME Interrupted \/ Still PROVE senders' = senders
    BY <2>6, Zenon DEF Interrupted, Still
  <2> QED BY <1>2, <2>1, <2>2, <2>3, <2>4, <2>5, <2>6, Zenon DEF OtherStep
<1> QED BY <1>1, <1>2, Zenon DEF SomeStep

LEMMA QueueHolds == ASSUME PmServers = {} PROVE Spec => []QueueInv
<1>1. Init => QueueInv
  <2>1. 1..Len(<<>>) = {}
    OBVIOUS
  <2> QED BY <2>1, Zenon DEF Init, QueueInv, Once
<1>2. TypeOK /\ CallInv /\ QueueInv /\ [Next]_vars => QueueInv'
  BY Steps, QueueStep, Zenon
<1> QED BY <1>1, <1>2, TypeCorrect, CallHolds, PTL DEF Spec

-----------------------------------------------------------------------------
(* While nobody exits *)

NobodyExits == Mortal = {} /\ Killable = {} /\ PmServers = {}

Calm == \A p \in Procs : status[p] \in {"Running", "Unborn"} /\ exiting[p] = [phase |-> "no", todo |-> {}]

LEMMA CalmStays ==
  ASSUME NobodyExits, Calm, [Next]_vars
  PROVE  UNCHANGED <<status, exiting>>
<1>1. ASSUME NEW p \in Procs, NEW q \in Procs, SysIpcSend(p, q) PROVE UNCHANGED <<status, exiting>>
  BY <1>1, Zenon DEF SysIpcSend, SendResume, SendFails, SendDeliver, SendBlock, exitVars
<1>2. ASSUME NEW p \in Procs, NEW q \in Procs, SysIpcSendrec(p, q) PROVE UNCHANGED <<status, exiting>>
  BY <1>2, Zenon DEF SysIpcSendrec, SendrecContinue, SendrecFails, SendrecDeliver, SendrecBlock, exitVars
<1>3. ASSUME NEW p \in Procs, NEW src \in Sources, SysIpcReceive(p, src) PROVE UNCHANGED <<status, exiting>>
  BY <1>3, Zenon DEF SysIpcReceive, ReceiveAvailable, ReceiveIrq, ReceiveFromSender, ReceiveBlock, exitVars
<1>4. ASSUME NEW p \in Drivers, (\E q \in IrqPids : SysIrqRegister(p, q)) \/ \E h \in Harts : SysIrqEnable(p, h)
      PROVE  UNCHANGED <<status, exiting>>
  BY <1>4, Zenon DEF SysIrqRegister, SysIrqEnable, kernelVars, exitVars
<1>5. ASSUME NEW h \in Harts, ExternalInterrupt(h) PROVE UNCHANGED <<status, exiting>>
  BY <1>5, Zenon DEF ExternalInterrupt, exitVars
<1>6. ASSUME NEW p \in Procs, WakeWithEintr(p) \/ Reap(p) \/ Dispatch(p) \/ Discard(p) PROVE FALSE
  BY <1>6, Zenon DEF WakeWithEintr, Reap, Dispatch, Discard, Calm
<1>7. ASSUME NEW p \in Procs, (\E w \in Procs : ExitRelease(p, w)) \/ ExitScan(p) \/ ExitIrq(p) PROVE FALSE
  <2>1. exiting[p].phase = "no" /\ exiting[p].todo = {}
    BY DEF Calm
  <2> QED BY <1>7, <2>1, Zenon DEF ExitRelease, ExitScan, ExitIrq
<1>8. ASSUME NEW p \in Procs, StaleCall(p) PROVE UNCHANGED <<status, exiting>>
  BY <1>8, Zenon DEF StaleCall, kernelVars, exitVars
<1>9. ASSUME UNCHANGED vars PROVE UNCHANGED <<status, exiting>>
  BY <1>9, Zenon DEF vars, kernelVars, exitVars
<1> QED BY <1>1, <1>2, <1>3, <1>4, <1>5, <1>6, <1>7, <1>8, <1>9, ConstantsAssumption, ZenonT(30) DEF NobodyExits, Next

LEMMA CalmHolds == ASSUME NobodyExits PROVE Spec => []Calm
<1>1. Init => Calm
  BY Zenon DEF Init, Calm
<1>2. Calm /\ [Next]_vars => Calm'
  BY CalmStays, Zenon DEF Calm
<1> QED BY <1>1, <1>2, PTL DEF Spec

\* What is left of the steps.
QuietStep ==
  \/ \E p, q \in Procs :
       Fails(p) \/ Completes(p, q) \/ Deposits(p, q) \/ DepositsAndWaits(p, q) \/ TakesReply(p, q)
  \/ \E p \in Procs, src \in Sources :
       Waits(p, src) \/ \E ok \in PtrOutcomes : TakesDeposit(p, src, ok) \/ TakesIrq(p, src, ok)
  \/ Interrupted \/ Still

CalmStep ==
  \/ QuietStep
  \/ \E p, q \in Procs, op \in {"send", "sendrec"} : QueuesUp(p, q, op)
  \/ \E p \in Procs, src \in Sources, ok \in PtrOutcomes : TakesSender(p, src, ok)

LEMMA CalmSteps ==
  ASSUME NobodyExits, TypeOK, CallInv, Calm, [Next]_vars
  PROVE  CalmStep
<1>1. SomeStep
  BY Steps, Zenon DEF NobodyExits
<1>2. ASSUME NEW p \in Procs, Dies(p) \/ Reap(p) \/ Discard(p) \/ \E w \in Procs : Released(p, w) PROVE FALSE
  <2>1. status[p] \in {"Running", "Unborn"} /\ exiting[p].todo = {}
    BY DEF Calm
  <2> QED BY <1>2, <2>1, Zenon DEF Dies, Reap, Discard, Released, NobodyExits
<1> QED BY <1>1, <1>2, Zenon DEF SomeStep, OtherStep, CalmStep, QuietStep

\* What a quiet step may do to a process: nothing, or put it to sleep, or leave
\* it awake, or end its wait and enqueue it; and it starts or ends no wait to send.
Fate(x) ==
  \/ ipc'[x] = ipc[x] /\ tokens'[x] = tokens[x]
  \/ /\ ipc[x].kind # "Sending" /\ ipc'[x].kind # "Sending"
     /\ Blocked(x)' \/ (~Blocked(x) /\ tokens'[x] = tokens[x]) \/ tokens'[x] = tokens[x] + 1

LEMMA Fates ==
  ASSUME TypeOK, CallInv, QuietStep, NEW x \in Procs
  PROVE  Fate(x) /\ senders' = senders
<1>t. ipc \in [Procs -> IpcStates] /\ tokens \in [Procs -> Nat] /\ sent \in [Procs -> Nat]
  BY Zenon DEF TypeOK
<1>k. /\ IpcNone.kind = "None" /\ \A m \in Messages : MsgAvailable(m).kind = "MessageAvailable"
      /\ \A q \in Procs : ReceivingReply(q).kind = "ReceivingReply"
      /\ \A src \in Sources : Receiving(src).kind = "Receiving"
  BY ConstructorsTyped, ConstantsAssumption, Zenon
<1>n. \A p \in Procs : NewMsg(p) \in Messages
  BY <1>t, NewMsgTyped, Zenon
<1>1. ASSUME NEW p \in Procs, NEW q \in Procs, Fails(p) \/ Completes(p, q) \/ TakesReply(p, q)
      PROVE  Fate(x) /\ senders' = senders
  <2>1. UNCHANGED <<tokens, senders>>
    BY <1>1, Zenon DEF Fails, Completes, TakesReply
  <2>2. ipc'[x] = ipc[x] \/ (ipc[x].kind \in {"SendComplete", "MessageAvailable"} /\ ipc'[x] = IpcNone)
    BY <1>t, <1>1, Zenon DEF Fails, Completes, TakesReply
  <2> QED BY <1>k, <2>1, <2>2, ZenonT(30) DEF Fate, Blocked
<1>2. ASSUME NEW p \in Procs, NEW q \in Procs, Deposits(p, q) PROVE Fate(x) /\ senders' = senders
  <2>1. CASE x = q
    <3>1. ipc[x].kind \in {"Receiving", "ReceivingReply"} /\ ipc'[x].kind = "MessageAvailable"
          /\ tokens'[x] = tokens[x] + 1 /\ senders' = senders
      BY <1>t, <1>k, <1>n, <1>2, <2>1, Zenon DEF Deposits, TargetAccepts
    <3> QED BY <3>1, Zenon DEF Fate
  <2>2. CASE x # q
    BY <1>t, <1>2, <2>2, Zenon DEF Deposits, Fate
  <2> QED BY <2>1, <2>2, ZenonT(30)
<1>3. ASSUME NEW p \in Procs, NEW q \in Procs, DepositsAndWaits(p, q) PROVE Fate(x) /\ senders' = senders
  <2>1. CASE x = q
    <3>1. ipc[x].kind = "Receiving" /\ ipc'[x].kind = "MessageAvailable"
          /\ tokens'[x] = tokens[x] + 1 /\ senders' = senders
      BY <1>t, <1>k, <1>n, <1>3, <2>1, Zenon DEF DepositsAndWaits, TargetAccepts
    <3> QED BY <3>1, Zenon DEF Fate
  <2>2. CASE x = p
    <3>1. ipc[x].kind \in {"None", "MessageAvailable"} /\ ipc'[x].kind = "ReceivingReply" /\ senders' = senders
      BY <1>t, <1>k, <1>3, <2>2, Zenon DEF DepositsAndWaits, Issued
    <3> QED BY <3>1, Zenon DEF Fate, Blocked
  <2>3. CASE x # p /\ x # q
    BY <1>t, <1>3, <2>3, Zenon DEF DepositsAndWaits, Fate
  <2> QED BY <2>1, <2>2, <2>3, Zenon
<1>4. ASSUME NEW p \in Procs, NEW src \in Sources, Waits(p, src) PROVE Fate(x) /\ senders' = senders
  <2>1. CASE x = p
    <3>1. ipc[x].kind = "None" /\ ipc'[x].kind = "Receiving" /\ senders' = senders
      BY <1>t, <1>k, <1>4, <2>1, Zenon DEF Waits, Idle, ReceiveBlock
    <3> QED BY <3>1, ZenonT(30) DEF Fate, Blocked
  <2>2. CASE x # p
    BY <1>t, <1>4, <2>2, Zenon DEF Waits, ReceiveBlock, Park, Fate
  <2> QED BY <2>1, <2>2, Zenon
<1>5. ASSUME NEW p \in Procs, NEW src \in Sources, NEW ok \in PtrOutcomes, TakesDeposit(p, src, ok)
      PROVE  Fate(x) /\ senders' = senders
  <2>1. irqPending[p] # <<>> => MsgAvailable(Head(irqPending[p])).kind = "MessageAvailable"
    BY ConstructorsTyped, HeadTailProperties, ZenonT(30) DEF TypeOK
  <2>2. /\ UNCHANGED <<tokens, senders>>
        /\ \/ ipc'[x] = ipc[x]
           \/ ipc[x].kind = "MessageAvailable" /\ ipc'[x].kind \in {"None", "MessageAvailable"}
    BY <1>t, <1>k, <1>5, <2>1, Zenon DEF TakesDeposit, ReceiveAvailable
  <2> QED BY <2>2, Zenon DEF Fate, Blocked
<1>6. ASSUME NEW p \in Procs, NEW src \in Sources, NEW ok \in PtrOutcomes, TakesIrq(p, src, ok)
      PROVE  Fate(x) /\ senders' = senders
  BY <1>6, Zenon DEF TakesIrq, ReceiveIrq, Fate
<1>7. ASSUME Interrupted PROVE Fate(x) /\ senders' = senders
  <2>1. PICK m \in Messages : KernelSendMsg(irqOwner, m)
    BY <1>7, Zenon DEF Interrupted
  <2>2. irqOwner \in Procs /\ senders' = senders
    BY <1>7, Zenon DEF Interrupted
  <2>3. CASE ipc'[x] # ipc[x]
    <3>1. /\ ipc'[x] = MsgAvailable(m)
          /\ \/ ipc[x].kind = "Receiving" /\ tokens'[x] = tokens[x] + 1
             \/ ipc[x].kind = "None" /\ tokens'[x] = tokens[x]
      BY <1>t, <2>1, <2>2, <2>3, ZenonT(30) DEF KernelSendMsg, TargetAccepts, Enqueue
    <3> QED BY <1>k, <2>2, <3>1, Zenon DEF Fate, Blocked
  <2>4. CASE ipc'[x] = ipc[x]
    <3>1. tokens'[x] = tokens[x]
      BY <1>t, <1>k, <2>1, <2>2, <2>4, Zenon DEF KernelSendMsg, TargetAccepts, Enqueue
    <3> QED BY <2>2, <2>4, <3>1, Zenon DEF Fate
  <2> QED BY <2>3, <2>4, Zenon
<1>8. ASSUME Still PROVE Fate(x) /\ senders' = senders
  BY <1>8, Zenon DEF Still, Fate
<1> QED BY <1>1, <1>2, <1>3, <1>4, <1>5, <1>6, <1>7, <1>8, Zenon DEF QuietStep

\* A process that runs and does not wait is on a run queue or a hart.
RunInv == \A x \in Procs : status[x] = "Running" /\ ~Blocked(x) => tokens[x] > 0

LEMMA RunFate ==
  ASSUME RunInv, NEW x \in Procs, tokens[x] \in Nat, Fate(x), status'[x] = status[x]
  PROVE  status'[x] = "Running" /\ ~Blocked(x)' => tokens'[x] > 0
<1>1. status[x] = "Running" /\ ~Blocked(x) => tokens[x] > 0
  BY Zenon DEF RunInv
<1> QED BY <1>1 DEF Fate, Blocked

LEMMA RunStep ==
  ASSUME TypeOK, CallInv, RunInv, CalmStep, status' = status
  PROVE  RunInv'
<1>t. \A x \in Procs : tokens[x] \in Nat
  BY Zenon DEF TypeOK
<1>i. ipc \in [Procs -> IpcStates] /\ tokens \in [Procs -> Nat]
  BY Zenon DEF TypeOK
<1>1. CASE QuietStep
  BY <1>t, <1>1, Fates, RunFate, Zenon DEF RunInv
<1>2. ASSUME NEW p \in Procs, NEW q \in Procs, NEW op \in {"send", "sendrec"}, QueuesUp(p, q, op),
             NEW x \in Procs
      PROVE  status'[x] = "Running" /\ ~Blocked(x)' => tokens'[x] > 0
  <2>1. CASE x = p
    <3>1. ipc'[x].kind = "Sending"
      BY <1>i, <1>2, <2>1, Zenon DEF QueuesUp, Sending
    <3> QED BY <3>1, Zenon DEF Blocked
  <2>2. CASE x # p
    <3>1. Fate(x)
      BY <1>i, <1>2, <2>2, Zenon DEF QueuesUp, Fate
    <3> QED BY <1>t, <3>1, RunFate, Zenon
  <2> QED BY <2>1, <2>2, Zenon
<1>3. ASSUME NEW p \in Procs, NEW src \in Sources, NEW ok \in PtrOutcomes, TakesSender(p, src, ok),
             NEW x \in Procs
      PROVE  status'[x] = "Running" /\ ~Blocked(x)' => tokens'[x] > 0
  <2>1. PICK s \in Procs : Serves(p, s, src) \/ UNCHANGED <<ipc, tokens>>
    BY <1>3, TakesSenderShape, Zenon
  <2>2. CASE x = s /\ Serves(p, s, src)
    <3>1. ReceivingReply(p).kind = "ReceivingReply"
      BY ConstructorsTyped, Zenon
    <3>2. Blocked(x)' \/ tokens'[x] = tokens[x] + 1
      BY <2>2, <3>1, Zenon DEF Serves, Blocked
    <3> QED BY <1>t, <3>2
  <2>3. CASE ~(x = s /\ Serves(p, s, src))
    <3>1. Fate(x)
      BY <2>1, <2>3, Zenon DEF Serves, Fate
    <3> QED BY <1>t, <3>1, RunFate, ZenonT(30)
  <2> QED BY <2>2, <2>3, Zenon
<1> QED BY <1>1, <1>2, <1>3, Zenon DEF CalmStep, RunInv

\* Nobody is left asleep without a reason: whoever ends the wait of a blocked
\* process (sys_ipc_send, sys_ipc_sendrec, sys_ipc_receive, kernel_send_msg)
\* also enqueues it.  While nobody exits: exit() does forget to, see the finding
\* on ExitRelease.
THEOREM NobodyIsStranded == ASSUME NobodyExits PROVE Spec => []UnblockedIsRunnable
<1>0. ASSUME Init PROVE RunInv
  <2>1. \A x \in Procs : status[x] = "Running" => tokens[x] = 1
    BY <1>0, Zenon DEF Init
  <2> QED BY <2>1 DEF RunInv
<1>1. TypeOK /\ CallInv /\ Calm /\ RunInv /\ [Next]_vars => RunInv'
  BY CalmSteps, CalmStays, RunStep, Zenon
<1>2. RunInv => UnblockedIsRunnable
  BY Zenon DEF RunInv, UnblockedIsRunnable, Blocked
<1>3. Spec => []CallInv
  BY CallHolds, ZenonT(30) DEF NobodyExits
<1> QED BY <1>0, <1>1, <1>2, <1>3, CalmHolds, TypeCorrect, PTL DEF Spec

-----------------------------------------------------------------------------
(* The senders queues and the blocked senders *)

Occurs(x, s) == \E i \in 1..Len(s) : s[i] = x

InQueue(x, q) == Occurs(x, senders[q])

Unsent(x, q) == ipc[x].kind = "Sending" /\ ipc[x].peer = q

\* Who is queued is alive and blocked sending, and who is blocked sending is queued.
AgreeInv ==
  \A q \in Procs, x \in Procs :
    /\ InQueue(x, q) => status[x] = "Running" /\ Unsent(x, q)
    /\ Unsent(x, q) => InQueue(x, q)

LEMMA RemovesIt ==
  ASSUME NEW s \in Seq(Procs), Once(s), NEW i \in 1..Len(s), NEW x
  PROVE  Occurs(x, RemoveAt(s, i)) <=> Occurs(x, s) /\ x # s[i]
<1> DEFINE t == RemoveAt(s, i)
<1>1. /\ Len(s) \in Nat /\ Len(t) = Len(s) - 1
      /\ \A j \in 1..(Len(s) - 1) : t[j] = IF j < i THEN s[j] ELSE s[j + 1]
  BY RemoveAtTyped
<1> HIDE DEF t
<1>2. ASSUME NEW j \in 1..Len(t), t[j] = x PROVE (\E k \in 1..Len(s) : s[k] = x) /\ x # s[i]
  <2>1. CASE j < i
    BY <1>1, <1>2, <2>1 DEF Once
  <2>2. CASE ~(j < i)
    <3>1. j + 1 \in 1..Len(s) /\ s[j + 1] = x /\ j + 1 # i
      BY <1>1, <1>2, <2>2
    <3> QED BY <3>1, Zenon DEF Once
  <2> QED BY <2>1, <2>2, Zenon
<1>3. ASSUME NEW k \in 1..Len(s), s[k] = x, x # s[i] PROVE \E j \in 1..Len(t) : t[j] = x
  <2>1. CASE k < i
    BY <1>1, <1>3, <2>1
  <2>2. CASE ~(k < i)
    <3>1. k - 1 \in 1..Len(t) /\ t[k - 1] = x
      BY <1>1, <1>3, <2>2
    <3> QED BY <3>1, Zenon
  <2> QED BY <2>1, <2>2, Zenon
<1> QED BY <1>2, <1>3, Zenon DEF t, Occurs

LEMMA AgreeStep ==
  ASSUME TypeOK, CallInv, QueueInv, Calm, AgreeInv, CalmStep, status' = status, PtrOutcomes \subseteq {TRUE}
  PROVE  AgreeInv'
<1>i. ipc \in [Procs -> IpcStates] /\ tokens \in [Procs -> Nat] /\ senders \in [Procs -> Seq(Procs)]
      /\ \A q \in Procs : senders[q] \in Seq(Procs)
  BY Zenon DEF TypeOK
<1> SUFFICES ASSUME NEW q \in Procs, NEW x \in Procs
             PROVE  /\ InQueue(x, q)' => status[x] = "Running" /\ Unsent(x, q)'
                    /\ Unsent(x, q)' => InQueue(x, q)'
  BY Zenon DEF AgreeInv
<1>a. /\ InQueue(x, q) => status[x] = "Running" /\ Unsent(x, q)
      /\ Unsent(x, q) => InQueue(x, q)
  BY Zenon DEF AgreeInv
<1>s. ASSUME senders'[q] = senders[q], Unsent(x, q)' <=> Unsent(x, q)
      PROVE  /\ InQueue(x, q)' => status[x] = "Running" /\ Unsent(x, q)'
             /\ Unsent(x, q)' => InQueue(x, q)'
  BY <1>a, <1>s, Zenon DEF InQueue, Occurs
<1>1. CASE QuietStep
  <2>1. Fate(x) /\ senders' = senders
    BY <1>1, Fates, Zenon
  <2>2. Unsent(x, q)' <=> Unsent(x, q)
    BY <2>1, Zenon DEF Fate, Unsent
  <2> QED BY <1>s, <2>1, <2>2, Zenon
<1>2. ASSUME NEW p \in Procs, NEW r \in Procs, NEW op \in {"send", "sendrec"}, QueuesUp(p, r, op)
      PROVE  /\ InQueue(x, q)' => status[x] = "Running" /\ Unsent(x, q)'
             /\ Unsent(x, q)' => InQueue(x, q)'
  <2>1. /\ ipc'[p].kind = "Sending" /\ ipc'[p].peer = r /\ \A y \in Procs \ {p} : ipc'[y] = ipc[y]
        /\ senders'[r] = Append(senders[r], p) /\ \A y \in Procs \ {r} : senders'[y] = senders[y]
        /\ status[p] \in {"Running", "Zombie"} /\ ipc[p].kind \in {"None", "MessageAvailable"}
    BY <1>i, <1>2, Zenon DEF QueuesUp, Sending, Issued, CanRun
  <2>2. status[p] = "Running"
    BY <2>1, Zenon DEF Calm
  <2>3. InQueue(x, r)' <=> InQueue(x, r) \/ x = p
    <3>1. /\ Len(senders'[r]) = Len(senders[r]) + 1 /\ Len(senders[r]) \in Nat
          /\ \A k \in 1..Len(senders[r]) : senders'[r][k] = senders[r][k]
          /\ senders'[r][Len(senders[r]) + 1] = p
      BY <1>i, <2>1
    <3>2. ASSUME InQueue(x, r)' PROVE InQueue(x, r) \/ x = p
      BY <3>1, <3>2 DEF InQueue, Occurs
    <3>3. ASSUME InQueue(x, r) PROVE InQueue(x, r)'
      BY <3>1, <3>3 DEF InQueue, Occurs
    <3>4. ASSUME x = p PROVE InQueue(x, r)'
      <4>1. Len(senders[r]) + 1 \in 1..Len(senders'[r]) /\ senders'[r][Len(senders[r]) + 1] = x
        BY <3>1, <3>4
      <4> QED BY <4>1, Zenon DEF InQueue, Occurs
    <3> QED BY <3>2, <3>3, <3>4, Zenon
  <2>4. ~Unsent(p, q)
    BY <2>1, Zenon DEF Unsent
  <2>5. CASE q = r
    <3>1. Unsent(x, r)' <=> Unsent(x, r) \/ x = p
      BY <2>1, <2>4, <2>5, ZenonT(30) DEF Unsent
    <3> QED BY <1>a, <2>2, <2>3, <2>5, <3>1, Zenon
  <2>6. CASE q # r
    <3>1. Unsent(x, q)' <=> Unsent(x, q)
      BY <2>1, <2>4, <2>6, Zenon DEF Unsent
    <3> QED BY <1>s, <2>1, <2>6, <3>1, Zenon
  <2> QED BY <2>5, <2>6, Zenon
<1>3. ASSUME NEW p \in Procs, NEW src \in Sources, NEW ok \in PtrOutcomes, TakesSender(p, src, ok)
      PROVE  /\ InQueue(x, q)' => status[x] = "Running" /\ Unsent(x, q)'
             /\ Unsent(x, q)' => InQueue(x, q)'
  <2>0. ok
    BY Zenon
  <2>1. PICK i \in 1..Len(senders[p]) : \E s \in Procs :
          /\ s = senders[p][i] /\ senders' = [senders EXCEPT ![p] = RemoveAt(@, i)]
          /\ \/ Serves(p, s, src) /\ ok
             \/ /\ UNCHANGED <<ipc, tokens, delivered>>
                /\ ~ok \/ ~InTable(s) \/ ipc[s].kind # "Sending"
          /\ UNCHANGED <<call, sent, acked, status, irqPending>> /\ Idle(p)
    BY <1>3, TakesSenderShape, Zenon
  <2>2. PICK s \in Procs :
          /\ s = senders[p][i] /\ senders' = [senders EXCEPT ![p] = RemoveAt(@, i)]
          /\ Serves(p, s, src) \/ ~InTable(s) \/ ipc[s].kind # "Sending"
    BY <2>0, <2>1, Zenon
  <2>3. InQueue(s, p) /\ status[s] = "Running" /\ Unsent(s, p)
    BY <2>2, Zenon DEF InQueue, Occurs, AgreeInv
  <2>4. Serves(p, s, src)
    BY <2>2, <2>3, Zenon DEF InTable, Unsent
  <2>5. \A y \in Procs : Unsent(x, y)' <=> Unsent(x, y) /\ x # s
    <3>1. ReceivingReply(p).kind = "ReceivingReply" /\ SendDone.kind = "SendComplete"
      BY ConstructorsTyped, Zenon
    <3> QED BY <2>4, <3>1, Zenon DEF Serves, Unsent
  <2>6. CASE q = p
    <3>1. InQueue(x, p)' <=> InQueue(x, p) /\ x # s
      <4>1. senders'[p] = RemoveAt(senders[p], i) /\ senders[p] \in Seq(Procs)
        BY <1>i, <2>2, Zenon
      <4>2. Once(senders[p])
        BY Zenon DEF QueueInv
      <4>3. Occurs(x, RemoveAt(senders[p], i)) <=> Occurs(x, senders[p]) /\ x # senders[p][i]
        BY <4>1, <4>2, RemovesIt, ZenonT(30)
      <4> QED BY <2>2, <4>1, <4>3, Zenon DEF InQueue
    <3> QED BY <1>a, <2>5, <2>6, <3>1, ZenonT(30)
  <2>7. CASE q # p
    <3>1. senders'[q] = senders[q]
      BY <1>i, <2>2, <2>7, ZenonT(30)
    <3>2. x = s => ~Unsent(x, q)
      BY <2>3, <2>7, Zenon DEF Unsent
    <3> QED BY <1>s, <2>5, <3>1, <3>2, Zenon
  <2> QED BY <2>6, <2>7, Zenon
<1> QED BY <1>1, <1>2, <1>3, Zenon DEF CalmStep

\* The senders queues and the Sending states say the same thing: nobody queued
\* has moved on, so the "Should not happen" arm and the unwrap() of
\* sys_ipc_receive are dead code, and no blocked sender has dropped out of the
\* queue it waits in.  While nobody exits, and receivers pass good pointers: with
\* a bad one sys_ipc_receive drops the sender it has taken off the queue.
THEOREM QueuesAgree ==
  ASSUME NobodyExits, PtrOutcomes \subseteq {TRUE} PROVE Spec => []QueuesMatchStates
<1>0. ASSUME Init PROVE AgreeInv
  <2>0. 1..Len(<<>>) = {} /\ IpcNone.kind = "None"
    BY ConstructorsTyped
  <2>1. \A q \in Procs : senders[q] = <<>> /\ ipc[q].kind = "None"
    BY <1>0, <2>0, Zenon DEF Init
  <2> QED BY <2>0, <2>1, Zenon DEF AgreeInv, InQueue, Occurs, Unsent
<1>1. TypeOK /\ CallInv /\ QueueInv /\ Calm /\ AgreeInv /\ [Next]_vars => AgreeInv'
  BY CalmSteps, CalmStays, AgreeStep, ZenonT(30)
<1>2. TypeOK /\ QueueInv /\ AgreeInv => QueuesMatchStates
  <2> SUFFICES ASSUME TypeOK, QueueInv, AgreeInv PROVE QueuesMatchStates
    BY Zenon
  <2>1. \A q \in Procs : \A i \in 1..Len(senders[q]) : senders[q][i] \in Procs
    BY ElementOfSeq, Zenon DEF TypeOK
  <2>2. QueuedSendersAreSending
    <3> SUFFICES ASSUME NEW q \in Procs, NEW i \in 1..Len(senders[q])
                 PROVE  /\ InTable(senders[q][i])
                        /\ ipc[senders[q][i]].kind = "Sending" /\ ipc[senders[q][i]].peer = q
                        /\ tokens[senders[q][i]] = 0
                        /\ \A j \in 1..Len(senders[q]) : senders[q][j] = senders[q][i] => j = i
      BY Zenon DEF QueuedSendersAreSending
    <3>1. status[senders[q][i]] = "Running" /\ Unsent(senders[q][i], q)
      BY <2>1, Zenon DEF AgreeInv, InQueue, Occurs
    <3>2. Once(senders[q]) /\ Off(senders[q][i], q)
      BY Zenon DEF QueueInv
    <3> QED BY <3>1, <3>2, Zenon DEF InTable, Unsent, Off, Once
  <2>3. SendingIsQueued
    BY DEF AgreeInv, SendingIsQueued, InQueue, Occurs, Unsent
  <2> QED BY <2>2, <2>3, Zenon DEF QueuesMatchStates
<1>3. Spec => []CallInv /\ []QueueInv
  BY CallHolds, QueueHolds, Zenon DEF NobodyExits
<1> QED BY <1>0, <1>1, <1>2, <1>3, CalmHolds, TypeCorrect, PTL DEF Spec

-----------------------------------------------------------------------------
(* A send that returned success *)

HandedTo(q, m) == m \in Got(q) \/ ipc[q] = MsgAvailable(m)

\* What was acknowledged was handed over, and so was what is about to be.  What
\* is deposited with a process that is in no call, and that its next send may
\* overwrite, is no more than an interrupt.
HandInv ==
  /\ \A a \in acked : a.msg.source \in Procs /\ HandedTo(a.to, a.msg)
  /\ \A p \in Procs : Deposited(p) /\ call[p] = NoCall => ipc[p].msg.source = Hardware
  /\ \A p \in Procs : ipc[p].kind = "SendComplete" =>
       call[p].peer \in Procs /\ [source |-> p, n |-> sent[p]] \in Got(call[p].peer)

\* What was handed over stays so when a deposit is only taken by delivering it.
LEMMA HandStays ==
  ASSUME TypeOK, HandInv,
         \A r \in Procs : Got(r) \subseteq Got(r)',
         \A r \in Procs : Deposited(r) =>
           ipc'[r] = ipc[r] \/ ipc[r].msg \in Got(r)' \/ ipc[r].msg.source = Hardware,
         \A r \in Procs : Deposited(r)' /\ call'[r] = NoCall =>
           ipc'[r].msg.source = Hardware \/ (ipc'[r] = ipc[r] /\ call'[r] = call[r]),
         \A a \in acked' : a \in acked \/ (a.msg.source \in Procs /\ HandedTo(a.to, a.msg)'),
         \A p \in Procs : ipc'[p].kind = "SendComplete" =>
           \/ ipc[p].kind = "SendComplete" /\ call'[p] = call[p] /\ sent'[p] = sent[p]
           \/ call'[p].peer \in Procs /\ [source |-> p, n |-> sent'[p]] \in Got(call[p].peer)'
  PROVE  HandInv'
<1>1. ASSUME NEW a \in acked PROVE a.msg.source \in Procs /\ HandedTo(a.to, a.msg)'
  <2>1. a.to \in Procs /\ a.msg.source \in Procs /\ a.msg.source # Hardware /\ HandedTo(a.to, a.msg)
    BY ConstantsAssumption, ZenonT(30) DEF TypeOK, Acks, HandInv
  <2>2. CASE a.msg \in Got(a.to)
    BY <2>1, <2>2, ZenonT(30) DEF HandedTo
  <2>3. CASE ipc[a.to] = MsgAvailable(a.msg)
    <3>1. ipc[a.to].kind = "MessageAvailable" /\ ipc[a.to].msg = a.msg
      BY <2>3 DEF MsgAvailable
    <3> QED BY <2>1, <2>3, <3>1, ZenonT(30) DEF HandedTo, MsgAvailable, Deposited
  <2> QED BY <2>1, <2>2, <2>3, ZenonT(30) DEF HandedTo
<1>2. ASSUME NEW p \in Procs, ipc'[p].kind = "SendComplete"
      PROVE  call'[p].peer \in Procs /\ [source |-> p, n |-> sent'[p]] \in Got(call[p].peer)'
  <2>1. CASE ipc[p].kind = "SendComplete" /\ call'[p] = call[p] /\ sent'[p] = sent[p]
    <3>1. call[p].peer \in Procs /\ [source |-> p, n |-> sent[p]] \in Got(call[p].peer)
      BY <2>1, Zenon DEF HandInv
    <3>2. PICK q \in Procs : q = call[p].peer /\ q = call'[p].peer
      BY <2>1, <3>1, Zenon
    <3>3. [source |-> p, n |-> sent'[p]] \in Got(q)'
      BY <2>1, <3>1, <3>2, Zenon
    <3> QED BY <3>2, <3>3, ZenonT(30) DEF Got
  <2> QED BY <1>2, <2>1, Zenon
<1>3. \A r \in Procs : Deposited(r)' /\ call'[r] = NoCall => ipc'[r].msg.source = Hardware
  BY ZenonT(30) DEF HandInv, Deposited
<1> QED BY <1>1, <1>2, <1>3, ZenonT(30) DEF HandInv

\* No message is delivered.
LEMMA HandQuiet ==
  ASSUME TypeOK, HandInv, delivered' = delivered, acked' = acked,
         \A r \in Procs : Deposited(r) => ipc'[r] = ipc[r] \/ call[r] = NoCall,
         \A r \in Procs : Deposited(r)' /\ call'[r] = NoCall =>
           ipc'[r].msg.source = Hardware \/ (ipc'[r] = ipc[r] /\ call'[r] = call[r]),
         \A p \in Procs : ipc'[p].kind = "SendComplete" =>
           ipc[p].kind = "SendComplete" /\ call'[p] = call[p] /\ sent'[p] = sent[p]
  PROVE  HandInv'
<1>1. \A r \in Procs : Got(r) \subseteq Got(r)'
  BY ZenonT(30) DEF Got
<1>2. \A r \in Procs : Deposited(r) /\ call[r] = NoCall => ipc[r].msg.source = Hardware
  BY ZenonT(30) DEF HandInv
<1> QED BY <1>1, <1>2, HandStays, ZenonT(30)

\* m, delivered to p, is the only deposit taken, the only new deposits left
\* to a process in no call are interrupts, and the only send completed is that of m.
CopyOnly(p, m) ==
  /\ \A r \in Procs : Deposited(r) => ipc'[r] = ipc[r] \/ (r = p /\ ipc[r].msg = m)
  /\ \A r \in Procs : Deposited(r)' /\ call'[r] = NoCall =>
       ipc'[r].msg.source = Hardware \/ (ipc'[r] = ipc[r] /\ call'[r] = call[r])
  /\ \A x \in Procs : ipc'[x].kind = "SendComplete" =>
       \/ ipc[x].kind = "SendComplete" /\ call'[x] = call[x] /\ sent'[x] = sent[x]
       \/ call'[x].peer = p /\ [source |-> x, n |-> sent'[x]] = m

LEMMA HandCopy ==
  ASSUME TypeOK, HandInv, NEW p \in Procs, NEW m, NEW via, NEW peer, Copy(p, m, via, peer), acked' = acked,
         CopyOnly(p, m)
  PROVE  HandInv'
<1>1. /\ \A r \in Procs : Got(r)' = IF r = p THEN Got(r) \cup {m} ELSE Got(r)
  BY GotAdds, Zenon
<1>2. \A r \in Procs : Got(r) \subseteq Got(r)'
  BY <1>1, Zenon
<1>3. \A r \in Procs : Deposited(r) => ipc'[r] = ipc[r] \/ ipc[r].msg \in Got(r)'
  BY <1>1, ZenonT(30) DEF CopyOnly
<1>4. ASSUME NEW x \in Procs, call'[x].peer = p, [source |-> x, n |-> sent'[x]] = m
      PROVE  call'[x].peer \in Procs /\ [source |-> x, n |-> sent'[x]] \in Got(call[x].peer)'
  <2>1. m \in Got(p)'
    BY <1>1, Zenon
  <2> QED BY <1>4, <2>1, Zenon DEF Got
<1> QED BY <1>2, <1>3, <1>4, HandStays, Zenon DEF CopyOnly

LEMMA HandStep ==
  ASSUME TypeOK, CallInv, QueueInv, HandInv, CalmStep, PtrOutcomes \subseteq {TRUE}
  PROVE  HandInv'
<1>t. /\ call \in [Procs -> Calls] /\ ipc \in [Procs -> IpcStates] /\ sent \in [Procs -> Nat]
      /\ \A r \in Procs : sent[r] \in Nat /\ ipc[r] \in IpcStates
  BY ZenonT(30) DEF TypeOK
<1>k. /\ IpcNone.kind = "None" /\ SendDone.kind = "SendComplete" /\ NoCall.op = "none"
      /\ (\A m \in Messages : MsgAvailable(m).kind = "MessageAvailable" /\ MsgAvailable(m).msg = m)
      /\ \A src \in Procs \cup {Any, Hardware} :
           Receiving(src).kind = "Receiving" /\ ReceivingReply(src).kind = "ReceivingReply"
  BY ConstructorsTyped, Zenon DEF MsgAvailable, NoCall
<1>n. \A p \in Procs : NewMsg(p) \in Messages
  BY <1>t, NewMsgTyped, ZenonT(30)
<1>c. \A r \in Procs : ipc[r].kind \in {"Receiving", "ReceivingReply", "Sending", "SendComplete"} => call[r] # NoCall
  BY <1>k, Zenon DEF CallInv, CallMatches
<1>1. ASSUME NEW p \in Procs, Fails(p) PROVE HandInv'
  <2>1. UNCHANGED <<ipc, call, delivered, acked>> /\ call[p] = NoCall /\ \A r \in Procs \ {p} : sent'[r] = sent[r]
    BY <1>t, <1>1, Zenon DEF Fails, Issued
  <2>2. \A x \in Procs : ipc'[x].kind = "SendComplete" =>
          ipc[x].kind = "SendComplete" /\ call'[x] = call[x] /\ sent'[x] = sent[x]
    BY <1>c, <2>1, Zenon
  <2> QED BY <2>1, <2>2, HandQuiet, ZenonT(30)
<1>2. ASSUME NEW p \in Procs, NEW q \in Procs, Completes(p, q) PROVE HandInv'
  <2> DEFINE m == [source |-> p, n |-> sent[p]]
  <2>1. /\ UNCHANGED <<delivered, sent>> /\ acked' = acked \cup {[msg |-> m, to |-> q]}
        /\ call[p] = Call("send", q) /\ ipc[p].kind = "SendComplete" /\ ipc'[p] = IpcNone
        /\ \A r \in Procs \ {p} : ipc'[r] = ipc[r] /\ call'[r] = call[r]
    BY <1>t, <1>2, Zenon DEF Completes
  <2>2. m \in Got(q)
    BY <2>1 DEF HandInv, Call
  <2>3. \A r \in Procs : Got(r)' = Got(r)
    BY <2>1, ZenonT(30) DEF Got
  <2>4. \A a \in acked' : a \in acked \/ (a.msg.source \in Procs /\ HandedTo(a.to, a.msg)')
    <3>1. PICK x : x = m
      BY Zenon
    <3>2. x.source = p /\ HandedTo(q, x)'
      BY <2>2, <2>3, <3>1, Zenon DEF HandedTo
    <3> QED BY <2>1, <3>1, <3>2
  <2>5. \A r \in Procs : Deposited(r) => ipc'[r] = ipc[r]
    BY <2>1, Zenon DEF Deposited
  <2>6. \A r \in Procs : Deposited(r)' => ipc'[r] = ipc[r] /\ call'[r] = call[r]
    BY <1>k, <2>1, Zenon DEF Deposited
  <2>7. \A x \in Procs : ipc'[x].kind = "SendComplete" =>
          ipc[x].kind = "SendComplete" /\ call'[x] = call[x] /\ sent'[x] = sent[x]
    BY <1>k, <2>1, Zenon
  <2> QED BY <2>3, <2>4, <2>5, <2>6, <2>7, HandStays, ZenonT(30)
<1>3. ASSUME NEW p \in Procs, NEW q \in Procs, Deposits(p, q) PROVE HandInv'
  <2>1. /\ UNCHANGED <<delivered, call>> /\ acked' = acked \cup {[msg |-> NewMsg(p), to |-> q]}
        /\ ipc'[q] = MsgAvailable(NewMsg(p)) /\ ipc[q].kind \in {"Receiving", "ReceivingReply"}
        /\ \A r \in Procs \ {q} : ipc'[r] = ipc[r]
        /\ call[p] = NoCall /\ \A r \in Procs \ {p} : sent'[r] = sent[r]
    BY <1>t, <1>3, Zenon DEF Deposits, Issued, TargetAccepts
  <2>2. \A r \in Procs : Got(r)' = Got(r)
    BY <2>1, ZenonT(30) DEF Got
  <2>3. \A a \in acked' : a \in acked \/ (a.msg.source \in Procs /\ HandedTo(a.to, a.msg)')
    <3>1. PICK x : x = NewMsg(p)
      BY Zenon
    <3>2. x.source = p /\ HandedTo(q, x)'
      BY <2>1, <3>1, Zenon DEF HandedTo, NewMsg
    <3> QED BY <2>1, <3>1, <3>2
  <2>4. \A r \in Procs : Deposited(r) => ipc'[r] = ipc[r]
    BY <2>1, Zenon DEF Deposited
  <2>5. \A r \in Procs : Deposited(r)' /\ call'[r] = NoCall => ipc'[r] = ipc[r] /\ call'[r] = call[r]
    BY <1>c, <2>1, Zenon
  <2>6. \A x \in Procs : ipc'[x].kind = "SendComplete" =>
          ipc[x].kind = "SendComplete" /\ call'[x] = call[x] /\ sent'[x] = sent[x]
    BY <1>c, <1>k, <1>n, <2>1
  <2> QED BY <2>2, <2>3, <2>4, <2>5, <2>6, HandStays, ZenonT(30)
<1>4. ASSUME NEW p \in Procs, NEW q \in Procs,
             DepositsAndWaits(p, q) \/ \E op \in {"send", "sendrec"} : QueuesUp(p, q, op)
      PROVE  HandInv'
  <2>1. /\ UNCHANGED <<delivered, acked>> /\ call[p] = NoCall /\ \A r \in Procs \ {p} : sent'[r] = sent[r]
        /\ ipc'[p].kind \in {"ReceivingReply", "Sending"}
        /\ \A r \in Procs \ {p} : call'[r] = call[r]
        /\ \A r \in Procs \ {p} : ipc'[r] = ipc[r] \/ (call[r] # NoCall /\ ~Deposited(r) /\ ipc'[r].kind = "MessageAvailable")
    <3>1. CASE DepositsAndWaits(p, q)
      <4>1. /\ ipc[q].kind = "Receiving" /\ ipc'[q] = MsgAvailable(NewMsg(p)) /\ ipc'[p] = ReceivingReply(q)
            /\ UNCHANGED <<delivered, acked>> /\ call[p] = NoCall
        BY <1>t, <3>1, Zenon DEF DepositsAndWaits, Issued, TargetAccepts
      <4>2. \A r \in Procs \ {p} : sent'[r] = sent[r] /\ call'[r] = call[r] /\ (r # q => ipc'[r] = ipc[r])
        BY <1>t, <3>1, Zenon DEF DepositsAndWaits, Issued
      <4>3. ipc'[q].kind = "MessageAvailable" /\ ipc'[p].kind = "ReceivingReply" /\ ~Deposited(q) /\ call[q] # NoCall
        BY <1>c, <1>k, <1>n, <4>1, ZenonT(30) DEF Deposited
      <4> QED BY <4>1, <4>2, <4>3, ZenonT(30)
    <3>2. ASSUME NEW op \in {"send", "sendrec"}, QueuesUp(p, q, op)
          PROVE  /\ UNCHANGED <<delivered, acked>> /\ call[p] = NoCall /\ ipc'[p].kind = "Sending"
                 /\ \A r \in Procs \ {p} : sent'[r] = sent[r] /\ call'[r] = call[r] /\ ipc'[r] = ipc[r]
      BY <1>t, <3>2, Zenon DEF QueuesUp, Issued, Sending
    <3> QED BY <1>4, <3>1, <3>2, Zenon
  <2>2. \A r \in Procs : Deposited(r) => ipc'[r] = ipc[r] \/ call[r] = NoCall
    BY <2>1, Zenon
  <2>3. \A r \in Procs : Deposited(r)' /\ call'[r] = NoCall => ipc'[r] = ipc[r] /\ call'[r] = call[r]
    BY <2>1, Zenon DEF Deposited
  <2>4. \A x \in Procs : ipc'[x].kind = "SendComplete" =>
          ipc[x].kind = "SendComplete" /\ call'[x] = call[x] /\ sent'[x] = sent[x]
    BY <2>1, Zenon
  <2> QED BY <2>1, <2>2, <2>3, <2>4, HandQuiet, Zenon
<1>5. ASSUME NEW p \in Procs, NEW q \in Procs, TakesReply(p, q) PROVE HandInv'
  <2>1. /\ Copy(p, ipc[p].msg, "sendrec", q) /\ acked' = acked /\ ipc'[p] = IpcNone
        /\ \A r \in Procs \ {p} : ipc'[r] = ipc[r] /\ call'[r] = call[r] /\ sent'[r] = sent[r]
    BY <1>t, <1>5, Zenon DEF TakesReply
  <2>2. \A r \in Procs : Deposited(r)' => ipc'[r] = ipc[r] /\ call'[r] = call[r]
    BY <1>k, <2>1, ZenonT(30) DEF Deposited
  <2>3. \A x \in Procs : ipc'[x].kind = "SendComplete" =>
          ipc[x].kind = "SendComplete" /\ call'[x] = call[x] /\ sent'[x] = sent[x]
    BY <1>k, <2>1, Zenon
  <2>4. CopyOnly(p, ipc[p].msg)
    BY <2>1, <2>2, <2>3, ZenonT(30) DEF CopyOnly
  <2> QED BY <2>1, <2>4, HandCopy, Zenon
<1>6. ASSUME NEW p \in Procs, NEW src \in Sources, NEW ok \in PtrOutcomes, TakesDeposit(p, src, ok)
      PROVE  HandInv'
  <2>0. irqPending[p] # <<>> => Head(irqPending[p]) \in Messages /\ Head(irqPending[p]).source = Hardware
    <3>1. irqPending[p] \in Seq(Messages) /\ IrqsOnly(p)
      BY Zenon DEF TypeOK, CallInv
    <3>2. irqPending[p] # <<>> => Len(irqPending[p]) > 0 /\ Len(irqPending[p]) \in Nat /\ Head(irqPending[p]) = irqPending[p][1]
      BY <3>1
    <3> QED BY <3>1, <3>2, ElementOfSeq DEF IrqsOnly
  <2>1. /\ Copy(p, ipc[p].msg, "receive", src) /\ UNCHANGED <<acked, sent>>
        /\ ipc'[p] = IpcNone \/ (irqPending[p] # <<>> /\ ipc'[p] = MsgAvailable(Head(irqPending[p])))
        /\ \A r \in Procs \ {p} : ipc'[r] = ipc[r] /\ call'[r] = call[r]
    BY <1>t, <1>6, Zenon DEF TakesDeposit, ReceiveAvailable, Return
  <2>2. ipc'[p].kind \in {"None", "MessageAvailable"} /\ (Deposited(p)' => ipc'[p].msg.source = Hardware)
    BY <1>k, <2>0, <2>1, ZenonT(30) DEF Deposited
  <2>3. \A r \in Procs : Deposited(r)' => ipc'[r].msg.source = Hardware \/ (ipc'[r] = ipc[r] /\ call'[r] = call[r])
    BY <2>1, <2>2, ZenonT(30)
  <2>4. \A x \in Procs : ipc'[x].kind = "SendComplete" =>
          ipc[x].kind = "SendComplete" /\ call'[x] = call[x] /\ sent'[x] = sent[x]
    BY <2>1, <2>2, Zenon
  <2>5. CopyOnly(p, ipc[p].msg)
    BY <2>1, <2>3, <2>4, ZenonT(30) DEF CopyOnly
  <2> QED BY <2>1, <2>5, HandCopy, ZenonT(30)
<1>7. ASSUME NEW p \in Procs, NEW src \in Sources, NEW ok \in PtrOutcomes, TakesIrq(p, src, ok)
      PROVE  HandInv'
  <2>1. UNCHANGED <<ipc, call, sent, acked>> /\ \E m : Copy(p, m, "receive", src)
    BY <1>7, ZenonT(30) DEF TakesIrq, ReceiveIrq
  <2>2. \A m : CopyOnly(p, m)
    BY <2>1, ZenonT(30) DEF CopyOnly, Deposited
  <2> QED BY <2>1, <2>2, HandCopy, Zenon
<1>8. ASSUME NEW p \in Procs, NEW src \in Sources, Waits(p, src) PROVE HandInv'
  <2>1. /\ UNCHANGED <<delivered, acked, sent>> /\ ipc[p].kind = "None" /\ ipc'[p] = Receiving(src)
        /\ \A r \in Procs \ {p} : ipc'[r] = ipc[r] /\ call'[r] = call[r]
    BY <1>t, <1>8, Zenon DEF Waits, Idle, ReceiveBlock, Park
  <2>2. ipc'[p].kind = "Receiving"
    BY <1>k, <2>1, ConstantsAssumption
  <2>3. \A r \in Procs : Deposited(r) => ipc'[r] = ipc[r]
    BY <2>1, Zenon DEF Deposited
  <2>4. \A r \in Procs : Deposited(r)' => ipc'[r] = ipc[r] /\ call'[r] = call[r]
    BY <2>1, <2>2, Zenon DEF Deposited
  <2>5. \A x \in Procs : ipc'[x].kind = "SendComplete" =>
          ipc[x].kind = "SendComplete" /\ call'[x] = call[x] /\ sent'[x] = sent[x]
    BY <2>1, <2>2, Zenon
  <2> QED BY <2>1, <2>3, <2>4, <2>5, HandQuiet, Zenon
<1>9. ASSUME NEW p \in Procs, NEW src \in Sources, NEW ok \in PtrOutcomes, TakesSender(p, src, ok)
      PROVE  HandInv'
  <2>1. PICK s \in Procs :
          /\ \E i \in 1..Len(senders[p]) : s = senders[p][i]
          /\ Serves(p, s, src) \/ UNCHANGED <<ipc, delivered>>
          /\ UNCHANGED <<call, sent, acked>>
    BY <1>9, TakesSenderShape, ZenonT(30)
  <2>2. CASE UNCHANGED <<ipc, delivered>>
    BY <2>1, <2>2, HandQuiet, ZenonT(30)
  <2>3. CASE Serves(p, s, src)
    <3>1. Off(s, p) /\ SendMatches(s)
      BY <2>1, ZenonT(30) DEF QueueInv, CallInv
    <3>2. /\ Copy(p, ipc[s].msg, "receive", src) /\ ipc[s].kind = "Sending"
          /\ \A r \in Procs \ {s} : ipc'[r] = ipc[r]
          /\ ipc'[s].kind \in {"ReceivingReply", "SendComplete"}
      BY <1>k, <2>3 DEF Serves
    <3>3. call'[s].peer = p /\ ipc[s].msg = [source |-> s, n |-> sent'[s]]
      BY <2>1, <3>1, <3>2, Zenon DEF Off, SendMatches
    <3>4. CopyOnly(p, ipc[s].msg)
      BY <2>1, <3>2, <3>3, ZenonT(30) DEF CopyOnly, Deposited
    <3> QED BY <2>1, <3>2, <3>4, HandCopy, ZenonT(30)
  <2> QED BY <2>1, <2>2, <2>3, Zenon
<1>10. ASSUME Interrupted PROVE HandInv'
  <2>1. PICK m \in Messages : m.source = Hardware /\ KernelSendMsg(irqOwner, m)
    BY <1>10, Zenon DEF Interrupted
  <2>2. UNCHANGED <<delivered, acked, call, sent>> /\ irqOwner \in Procs
    BY <1>10, Zenon DEF Interrupted
  <2>3. \A r \in Procs : ipc'[r] = ipc[r] \/ (ipc'[r] = MsgAvailable(m) /\ ipc[r].kind \in {"None", "Receiving"})
    BY <1>t, <2>1, <2>2, Zenon DEF KernelSendMsg, TargetAccepts
  <2>4. MsgAvailable(m).kind = "MessageAvailable" /\ MsgAvailable(m).msg.source = Hardware
    BY <1>k, <2>1, ZenonT(30)
  <2>5. \A r \in Procs : Deposited(r) => ipc'[r] = ipc[r]
    BY <2>3, Zenon DEF Deposited
  <2>6. \A r \in Procs : Deposited(r)' => ipc'[r].msg.source = Hardware \/ (ipc'[r] = ipc[r] /\ call'[r] = call[r])
    BY <2>2, <2>3, <2>4, Zenon
  <2>7. \A x \in Procs : ipc'[x].kind = "SendComplete" =>
          ipc[x].kind = "SendComplete" /\ call'[x] = call[x] /\ sent'[x] = sent[x]
    BY <2>2, <2>3, <2>4, ZenonT(30)
  <2> QED BY <2>2, <2>5, <2>6, <2>7, HandQuiet, ZenonT(30)
<1>11. ASSUME Still PROVE HandInv'
  BY <1>11, HandQuiet, Zenon DEF Still
<1> QED BY <1>1, <1>2, <1>3, <1>4, <1>5, <1>6, <1>7, <1>8, <1>9, <1>10, <1>11, ZenonT(30) DEF CalmStep, QuietStep

\* A send that returned success was handed over: the message was copied to the
\* target or waits in its IPC state.  In particular neither sys_ipc_send, which
\* overwrites the caller's own state, nor kernel_send_msg ever overwrites a
\* message that a process was told had been sent.  While nobody exits, and
\* receivers pass good pointers: with a bad one sys_ipc_receive leaves the
\* message in the caller's state, where its next send overwrites it.
THEOREM SendsArrive ==
  ASSUME NobodyExits, PtrOutcomes \subseteq {TRUE} PROVE Spec => []SendHandedOver
<1>0. ASSUME Init PROVE HandInv
  <2>1. acked = {} /\ \A p \in Procs : ipc[p].kind = "None"
    BY <1>0, ConstructorsTyped, Zenon DEF Init
  <2> QED BY <2>1, ZenonT(30) DEF HandInv, Deposited
<1>1. TypeOK /\ CallInv /\ QueueInv /\ Calm /\ HandInv /\ [Next]_vars => HandInv'
  BY CalmSteps, HandStep, Zenon
<1>2. HandInv => SendHandedOver
  BY ZenonT(30) DEF HandInv, HandedTo, SendHandedOver, Got
<1>3. Spec => []CallInv /\ []QueueInv
  BY CallHolds, QueueHolds, Zenon DEF NobodyExits
<1> QED BY <1>0, <1>1, <1>2, <1>3, CalmHolds, TypeCorrect, PTL DEF Spec

-----------------------------------------------------------------------------
(* Replies, while no driver takes interrupts *)

NoIrq == irqOwner = Nobody /\ \A p \in Procs : irqPending[p] = <<>>

\* A deposit answers the armed call, and the answer to a sendrec comes from the
\* process it names.
ReplyGood(p) ==
  /\ Deposited(p) => call[p].op # "none"
  /\ call[p].op = "sendrec" =>
       /\ call[p].peer \in Procs
       /\ ipc[p].kind = "ReceivingReply" => ipc[p].peer = call[p].peer
       /\ Deposited(p) => ipc[p].msg.source = call[p].peer

ReplyInv == \A p \in Procs : ReplyGood(p)

LEMMA OwnerStays ==
  ASSUME Drivers = {}, PmServers = {}, irqOwner = Nobody, [Next]_vars
  PROVE  irqOwner' = Nobody
<1>1. ASSUME NEW p \in Procs, NEW q \in Procs, SysIpcSend(p, q) \/ SysIpcSendrec(p, q) PROVE irqOwner' = irqOwner
  BY <1>1, Zenon DEF SysIpcSend, SysIpcSendrec, irqVars
<1>2. ASSUME NEW p \in Procs, NEW src \in Sources, SysIpcReceive(p, src) PROVE irqOwner' = irqOwner
  BY <1>2, Zenon DEF SysIpcReceive, irqVars
<1>3. ASSUME NEW h \in Harts, ExternalInterrupt(h) PROVE irqOwner' = irqOwner
  BY <1>3, Zenon DEF ExternalInterrupt
<1>4. ASSUME NEW p \in Procs, SysExit(p) \/ Kill(p) \/ WakeWithEintr(p) \/ (\E w \in Procs : ExitRelease(p, w))
      PROVE  irqOwner' = irqOwner
  BY <1>4, Zenon DEF SysExit, Kill, WakeWithEintr, ExitRelease, irqVars
<1>5. ASSUME NEW p \in Procs, ExitScan(p) \/ Reap(p) \/ StaleCall(p) \/ Dispatch(p) \/ Discard(p)
      PROVE  irqOwner' = irqOwner
  BY <1>5, Zenon DEF ExitScan, Reap, StaleCall, Dispatch, Discard, irqVars
<1>6. ASSUME NEW p \in Procs, ExitIrq(p) PROVE irqOwner' = Nobody
  BY <1>6, Zenon DEF ExitIrq
<1>7. ASSUME UNCHANGED vars PROVE irqOwner' = irqOwner
  BY <1>7, Zenon DEF vars, irqVars
<1> QED BY <1>1, <1>2, <1>3, <1>4, <1>5, <1>6, <1>7, ConstantsAssumption, ZenonT(30) DEF Next

LEMMA PendingStays ==
  ASSUME TypeOK, NoIrq, SomeStep, NEW x \in Procs
  PROVE  irqPending'[x] = <<>> /\ ~Interrupted
<1>t. irqPending \in [Procs -> Seq(Messages)] /\ \A p \in Procs : irqPending[p] = <<>>
  BY Zenon DEF TypeOK, NoIrq
<1>i. ~Interrupted
  BY ConstantsAssumption, ZenonT(30) DEF Interrupted, NoIrq, Nobody
<1>1. ASSUME NEW p \in Procs, NEW src \in Sources, NEW ok \in PtrOutcomes, TakesDeposit(p, src, ok)
      PROVE  irqPending' = irqPending
  BY <1>t, <1>1, Zenon DEF TakesDeposit, ReceiveAvailable
<1>2. ASSUME NEW p \in Procs, NEW src \in Sources, NEW ok \in PtrOutcomes, TakesIrq(p, src, ok)
      PROVE  FALSE
  <2>1. irqPending[p] = <<>> /\ 1..Len(<<>>) = {}
    BY <1>t
  <2> QED BY <1>2, <2>1, Zenon DEF TakesIrq, ReceiveIrq
<1>3. ASSUME NEW p \in Procs, Reap(p) PROVE irqPending'[x] = <<>>
  BY <1>t, <1>3, Zenon DEF Reap
<1>4. ASSUME NEW p \in Procs, NEW q \in Procs,
             \/ Fails(p) \/ Dies(p) \/ Discard(p) \/ Completes(p, q) \/ Deposits(p, q)
             \/ DepositsAndWaits(p, q) \/ TakesReply(p, q) \/ Released(p, q)
             \/ \E op \in {"send", "sendrec"} : QueuesUp(p, q, op)
      PROVE  irqPending' = irqPending
  BY <1>4, ZenonT(30) DEF Fails, Dies, Discard, Completes, Deposits, DepositsAndWaits, TakesReply, Released, QueuesUp
<1>5. ASSUME NEW p \in Procs, NEW src \in Sources,
             \/ Waits(p, src) \/ \E ok \in PtrOutcomes : TakesSender(p, src, ok)
      PROVE  irqPending' = irqPending
  BY <1>5, Zenon DEF Waits, TakesSender, ReceiveBlock, ReceiveFromSender
<1>6. ASSUME Still PROVE irqPending' = irqPending
  BY <1>6, Zenon DEF Still
<1> QED BY <1>t, <1>i, <1>1, <1>2, <1>3, <1>4, <1>5, <1>6, ZenonT(30) DEF SomeStep, OtherStep

LEMMA NoIrqHolds == ASSUME Drivers = {}, PmServers = {} PROVE Spec => []NoIrq
<1>1. Init => NoIrq
  BY Zenon DEF Init, NoIrq
<1>2. TypeOK /\ CallInv /\ NoIrq /\ [Next]_vars => NoIrq'
  <2> SUFFICES ASSUME TypeOK, CallInv, NoIrq, [Next]_vars PROVE NoIrq'
    BY Zenon
  <2>1. irqOwner' = Nobody
    BY OwnerStays, Zenon DEF NoIrq
  <2>2. \A x \in Procs : irqPending'[x] = <<>>
    BY Steps, PendingStays, Zenon
  <2> QED BY <2>1, <2>2, Zenon DEF NoIrq
<1> QED BY <1>1, <1>2, CallHolds, TypeCorrect, PTL DEF Spec

\* A call returns, or there is none.
LEMMA ReplyEnds ==
  ASSUME NEW x \in Procs, call'[x] = NoCall, ipc'[x] = IpcNone
  PROVE  ReplyGood(x)'
<1>1. call'[x].op = "none" /\ ipc'[x].kind = "None"
  BY ConstructorsTyped DEF NoCall
<1> QED BY <1>1, Zenon DEF ReplyGood, Deposited

LEMMA ReplyStep ==
  ASSUME TypeOK, CallInv, QueueInv, NoIrq, ReplyInv, SomeStep, NEW x \in Procs, PtrOutcomes \subseteq {TRUE}
  PROVE  ReplyGood(x)'
<1>t. /\ call \in [Procs -> Calls] /\ ipc \in [Procs -> IpcStates] /\ call[x] \in Calls /\ ipc[x] \in IpcStates
      /\ \A p \in Procs : irqPending[p] = <<>>
  BY Zenon DEF TypeOK, NoIrq
<1>k. /\ SendDone.kind = "SendComplete"
      /\ \A src \in Procs \cup {Any, Hardware} : Receiving(src).kind = "Receiving"
      /\ \A p \in Procs : ReceivingReply(p).kind = "ReceivingReply" /\ ReceivingReply(p).peer = p
  BY ConstructorsTyped, Zenon DEF ReceivingReply, Waiting
<1>g. ReplyGood(x)
  BY Zenon DEF ReplyInv
<1>b. ASSUME ipc'[x] = ipc[x], call'[x] = call[x] PROVE ReplyGood(x)'
  BY <1>g, <1>b, ZenonT(30) DEF ReplyGood, Deposited
<1>d. ASSUME NEW p \in Procs, ipc[x].kind \in {"Receiving", "ReceivingReply"}, Matches(ipc[x].peer, p),
             ipc'[x] = MsgAvailable(NewMsg(p)), call'[x] = call[x]
      PROVE  ReplyGood(x)'
  <2>1. ipc'[x].kind = "MessageAvailable" /\ ipc'[x].msg.source = p
    BY <1>d DEF MsgAvailable, NewMsg
  <2>2. /\ ipc[x].kind = "Receiving" => call[x].op = "receive"
        /\ ipc[x].kind = "ReceivingReply" => call[x].op = "sendrec"
    <3>1. CallMatches(x) /\ call[x].op \in {"none", "send", "receive", "sendrec"}
      BY <1>t, Zenon DEF CallInv, Calls
    <3> QED BY <3>1, Zenon DEF CallMatches
  <2>3. call[x].op = "sendrec" => call[x].peer \in Procs /\ call[x].peer = p
    <3>1. ASSUME call[x].op = "sendrec" PROVE call[x].peer \in Procs /\ ipc[x].peer = call[x].peer
      BY <1>g, <1>d, <2>2, <3>1, ZenonT(30) DEF ReplyGood
    <3> QED BY <1>d, <3>1, ConstantsAssumption, Zenon DEF Matches
  <2> QED BY <1>d, <2>1, <2>2, <2>3, ZenonT(30) DEF ReplyGood, Deposited
<1>1. ASSUME NEW p \in Procs, NEW q \in Procs, Fails(p) \/ Completes(p, q) \/ TakesReply(p, q) \/ Released(q, p)
      PROVE  ReplyGood(x)'
  <2>1. (ipc'[x] = ipc[x] /\ call'[x] = call[x]) \/ (ipc'[x] = IpcNone /\ call'[x] = NoCall)
    BY <1>t, <1>1, Zenon DEF Fails, Completes, TakesReply, Released
  <2> QED BY <1>b, <2>1, ReplyEnds, Zenon
<1>2. ASSUME NEW p \in Procs, NEW q \in Procs, Deposits(p, q) PROVE ReplyGood(x)'
  <2>1. CASE x = q
    <3>1. /\ ipc[x].kind \in {"Receiving", "ReceivingReply"} /\ Matches(ipc[x].peer, p)
          /\ ipc'[x] = MsgAvailable(NewMsg(p)) /\ call'[x] = call[x]
      BY <1>t, <1>2, <2>1, ZenonT(30) DEF Deposits, TargetAccepts
    <3> QED BY <1>d, <3>1, ZenonT(30)
  <2>2. CASE x # q
    BY <1>t, <1>b, <1>2, <2>2, Zenon DEF Deposits
  <2> QED BY <2>1, <2>2, Zenon
<1>3. ASSUME NEW p \in Procs, NEW q \in Procs, DepositsAndWaits(p, q) PROVE ReplyGood(x)'
  <2>1. CASE x = q
    <3>1. /\ ipc[x].kind = "Receiving" /\ Matches(ipc[x].peer, p)
          /\ ipc'[x] = MsgAvailable(NewMsg(p)) /\ call'[x] = call[x]
      BY <1>t, <1>3, <2>1, ZenonT(30) DEF DepositsAndWaits, TargetAccepts
    <3> QED BY <1>d, <3>1, Zenon
  <2>2. CASE x = p
    <3>1. ipc'[x] = ReceivingReply(q) /\ call'[x] = Call("sendrec", q)
      BY <1>t, <1>3, <2>2, ZenonT(30) DEF DepositsAndWaits
    <3> QED BY <1>k, <3>1 DEF ReplyGood, Deposited, Call
  <2>3. CASE x # p /\ x # q
    BY <1>t, <1>b, <1>3, <2>3, Zenon DEF DepositsAndWaits
  <2> QED BY <2>1, <2>2, <2>3, Zenon
<1>4. ASSUME NEW p \in Procs, NEW q \in Procs, NEW op \in {"send", "sendrec"}, QueuesUp(p, q, op)
      PROVE  ReplyGood(x)'
  <2>1. CASE x = p
    <3>1. ipc'[x] = Sending(q, NewMsg(p), op = "sendrec") /\ call'[x] = Call(op, q)
      BY <1>t, <1>4, <2>1, ZenonT(30) DEF QueuesUp
    <3>2. ipc'[x].kind = "Sending" /\ call'[x].peer = q
      BY <3>1 DEF Sending, Call
    <3> QED BY <3>2, Zenon DEF ReplyGood, Deposited
  <2>2. CASE x # p
    BY <1>t, <1>b, <1>4, <2>2, Zenon DEF QueuesUp
  <2> QED BY <2>1, <2>2, Zenon
<1>5. ASSUME NEW p \in Procs, NEW src \in Sources, NEW ok \in PtrOutcomes, TakesDeposit(p, src, ok)
      PROVE  ReplyGood(x)'
  <2>1. (ipc'[x] = ipc[x] /\ call'[x] = call[x]) \/ (ipc'[x] = IpcNone /\ call'[x] = NoCall)
    BY <1>t, <1>5, ZenonT(30) DEF TakesDeposit, ReceiveAvailable, Return
  <2> QED BY <1>b, <2>1, ReplyEnds, Zenon
<1>6. ASSUME NEW p \in Procs, NEW src \in Sources, NEW ok \in PtrOutcomes, TakesIrq(p, src, ok)
      PROVE  ReplyGood(x)'
  BY <1>b, <1>6, Zenon DEF TakesIrq, ReceiveIrq
<1>7. ASSUME NEW p \in Procs, NEW src \in Sources, NEW ok \in PtrOutcomes, TakesSender(p, src, ok)
      PROVE  ReplyGood(x)'
  <2>1. PICK s \in Procs :
          /\ \E i \in 1..Len(senders[p]) : s = senders[p][i]
          /\ Serves(p, s, src) \/ ipc' = ipc
          /\ call' = call
    BY <1>7, TakesSenderShape, ZenonT(30)
  <2>2. CASE Serves(p, s, src) /\ x = s
    <3>1. Off(s, p) /\ SendMatches(s)
      BY <2>1, Zenon DEF QueueInv, CallInv
    <3>2. /\ ipc[s].kind = "Sending" /\ call'[s] = call[s]
          /\ \/ ipc[s].wantsReply /\ ipc'[s] = ReceivingReply(p)
             \/ ~ipc[s].wantsReply /\ ipc'[s] = SendDone
      BY <2>1, <2>2, ZenonT(30) DEF Serves
    <3>3. call[s].peer = p /\ (ipc[s].wantsReply <=> call[s].op = "sendrec")
      BY <3>1, <3>2, Zenon DEF Off, SendMatches
    <3> QED BY <1>k, <2>2, <3>2, <3>3 DEF ReplyGood, Deposited
  <2>3. CASE ~(Serves(p, s, src) /\ x = s)
    BY <1>b, <2>1, <2>3, Zenon DEF Serves
  <2> QED BY <2>2, <2>3, Zenon
<1>8. ASSUME NEW p \in Procs, NEW src \in Sources, Waits(p, src) PROVE ReplyGood(x)'
  <2>1. CASE x = p
    <3>1. ipc'[x] = Receiving(src) /\ call'[x] = Call("receive", src)
      BY <1>t, <1>8, <2>1, Zenon DEF Waits, ReceiveBlock, Park
    <3>2. ipc'[x].kind = "Receiving" /\ call'[x].op = "receive"
      BY <1>k, <3>1, ConstantsAssumption DEF Call
    <3> QED BY <3>2, ZenonT(30) DEF ReplyGood, Deposited
  <2>2. CASE x # p
    BY <1>t, <1>b, <1>8, <2>2, Zenon DEF Waits, ReceiveBlock, Park
  <2> QED BY <2>1, <2>2, Zenon
<1>9. ASSUME NEW p \in Procs, Dies(p) \/ Discard(p) PROVE ReplyGood(x)'
  BY <1>b, <1>9, ZenonT(30) DEF Dies, Discard
<1>10. ASSUME NEW p \in Procs, Reap(p) PROVE ReplyGood(x)'
  <2>1. (ipc'[x] = ipc[x] /\ call'[x] = call[x]) \/ (ipc'[x] = IpcNone /\ call'[x] = NoCall)
    BY <1>t, <1>10, Zenon DEF Reap
  <2> QED BY <1>b, <2>1, ReplyEnds, Zenon
<1>11. ASSUME Still PROVE ReplyGood(x)'
  BY <1>b, <1>11, Zenon DEF Still
<1>12. ~Interrupted
  BY PendingStays, Zenon
<1> QED BY <1>1, <1>2, <1>3, <1>4, <1>5, <1>6, <1>7, <1>8, <1>9, <1>10, <1>11, <1>12, ZenonT(30) DEF SomeStep, OtherStep

LEMMA ReplyCopied ==
  ASSUME TypeOK, ReplyFromCallee, NEW p \in Procs, NEW m, NEW via, NEW peer, Copy(p, m, via, peer),
         via = "sendrec" => m.source = peer
  PROVE  ReplyFromCallee'
<1>a. Adds(p, m, via, peer)
  BY CopyAdds, ZenonT(30)
<1>1. /\ \A r \in Procs \ {p} : delivered'[r] = delivered[r]
      /\ Len(delivered[p]) \in Nat /\ Len(delivered'[p]) = Len(delivered[p]) + 1
      /\ \A i \in 1..Len(delivered[p]) : delivered'[p][i] = delivered[p][i]
      /\ delivered'[p][Len(delivered[p]) + 1].msg = m
      /\ delivered'[p][Len(delivered[p]) + 1].via = via
      /\ delivered'[p][Len(delivered[p]) + 1].peer = peer
  BY <1>a, Zenon DEF Adds
<1>2. ASSUME NEW r \in Procs, NEW i \in 1..Len(delivered'[r]), delivered'[r][i].via = "sendrec"
      PROVE  delivered'[r][i].msg.source = delivered'[r][i].peer
  <2>1. CASE r # p
    <3>1. delivered'[r] = delivered[r]
      BY <1>1, <2>1, Zenon
    <3>2. i \in 1..Len(delivered[r]) /\ delivered[r][i].via = "sendrec"
      BY <1>2, <3>1, Zenon
    <3>3. delivered[r][i].msg.source = delivered[r][i].peer
      BY <3>2, Zenon DEF ReplyFromCallee
    <3> QED BY <3>1, <3>3, Zenon
  <2>3. CASE r = p /\ i \in 1..Len(delivered[p])
    BY <1>1, <1>2, <2>3, Zenon DEF ReplyFromCallee
  <2>2. CASE r = p /\ i = Len(delivered[p]) + 1
    BY <1>1, <1>2, <2>2, Zenon
  <2> QED BY <1>1, <1>2, <2>1, <2>2, <2>3
<1> QED BY <1>2, Zenon DEF ReplyFromCallee

LEMMA RepliesStep ==
  ASSUME TypeOK, NoIrq, ReplyInv, ReplyFromCallee, SomeStep
  PROVE  ReplyFromCallee'
<1>q. ASSUME delivered' = delivered PROVE ReplyFromCallee'
  BY <1>q, Zenon DEF ReplyFromCallee
<1>1. ASSUME NEW p \in Procs, NEW q \in Procs, TakesReply(p, q) PROVE ReplyFromCallee'
  <2>1. Deposited(p) /\ Copy(p, ipc[p].msg, "sendrec", q) /\ (call[p] = NoCall \/ call[p] = Call("sendrec", q))
    BY <1>1, Zenon DEF TakesReply, Deposited
  <2>2. call[p] = Call("sendrec", q)
    BY <2>1 DEF ReplyInv, ReplyGood, NoCall
  <2>3. ipc[p].msg.source = q
    BY <2>1, <2>2 DEF ReplyInv, ReplyGood, Call
  <2> QED BY <2>1, <2>3, ReplyCopied, Zenon
<1>2. ASSUME NEW p \in Procs, NEW src \in Sources, NEW ok \in PtrOutcomes,
             TakesDeposit(p, src, ok) \/ TakesIrq(p, src, ok)
      PROVE  ReplyFromCallee'
  <2>1. delivered' = delivered \/ \E m : Copy(p, m, "receive", src)
    BY <1>2, Zenon DEF TakesDeposit, TakesIrq, ReceiveAvailable, ReceiveIrq
  <2> QED BY <1>q, <2>1, ReplyCopied, Zenon
<1>3. ASSUME NEW p \in Procs, NEW src \in Sources, NEW ok \in PtrOutcomes, TakesSender(p, src, ok)
      PROVE  ReplyFromCallee'
  <2>1. PICK s \in Procs : Serves(p, s, src) \/ delivered' = delivered
    BY <1>3, TakesSenderShape, ZenonT(30)
  <2>2. delivered' = delivered \/ Copy(p, ipc[s].msg, "receive", src)
    BY <2>1, Zenon DEF Serves
  <2> QED BY <1>q, <2>2, ReplyCopied, Zenon
<1>4. ASSUME NEW p \in Procs, NEW q \in Procs,
             \/ Fails(p) \/ Dies(p) \/ Reap(p) \/ Discard(p) \/ Completes(p, q) \/ Deposits(p, q)
             \/ DepositsAndWaits(p, q) \/ Released(p, q)
             \/ \E op \in {"send", "sendrec"} : QueuesUp(p, q, op)
      PROVE  delivered' = delivered
  BY <1>4, ZenonT(30) DEF Fails, Dies, Reap, Discard, Completes, Deposits, DepositsAndWaits, Released, QueuesUp, history
<1>5. ASSUME NEW p \in Procs, NEW src \in Sources, Waits(p, src) PROVE delivered' = delivered
  BY <1>5, Zenon DEF Waits, ReceiveBlock
<1>6. ASSUME Interrupted \/ Still PROVE delivered' = delivered
  BY <1>6, Zenon DEF Interrupted, Still
<1> QED BY <1>q, <1>1, <1>2, <1>3, <1>4, <1>5, <1>6, ZenonT(30) DEF SomeStep, OtherStep

\* What sys_ipc_sendrec returns as the reply comes from the process it called,
\* whoever exits or is killed meanwhile: nothing else can end up in the IPC
\* state of a process that waits for its reply.  Where no process takes
\* interrupts: kernel_send_msg deposits one with a driver that is between two
\* calls, and its next sendrec returns it.  And where receivers pass good
\* pointers: with a bad one the message stays, and is taken for the next reply.
THEOREM RepliesAreTheCallees ==
  ASSUME Drivers = {}, PmServers = {}, PtrOutcomes \subseteq {TRUE} PROVE Spec => []ReplyFromCallee
<1>0. ASSUME Init PROVE ReplyInv /\ ReplyFromCallee
  <2>1. \A p \in Procs : ipc[p].kind = "None" /\ call[p].op = "none" /\ delivered[p] = <<>>
    BY <1>0, ConstructorsTyped, Zenon DEF Init, NoCall
  <2>2. 1..Len(<<>>) = {}
    OBVIOUS
  <2> QED BY <2>1, <2>2, ZenonT(30) DEF ReplyInv, ReplyGood, Deposited, ReplyFromCallee
<1>1. TypeOK /\ CallInv /\ QueueInv /\ NoIrq /\ ReplyInv /\ ReplyFromCallee /\ [Next]_vars
        => ReplyInv' /\ ReplyFromCallee'
  BY Steps, ReplyStep, RepliesStep, Zenon DEF ReplyInv
<1> QED BY <1>0, <1>1, CallHolds, QueueHolds, NoIrqHolds, TypeCorrect, PTL DEF Spec
=============================================================================
