-------------------------- MODULE RendezvousProofs --------------------------
(***************************************************************************)
(* Proofs about Rendezvous for every set of processes, every bound and     *)
(* every choice of the other constants.                                    *)
(***************************************************************************)
EXTENDS Integers, Rendezvous, TLAPS

-----------------------------------------------------------------------------
(* Sequences *)

LEMMA ElementOfSeq ==
  ASSUME NEW S, NEW s \in Seq(S), NEW i \in 1..Len(s)
  PROVE  s[i] \in S
OBVIOUS

LEMMA LenProperties ==
  ASSUME NEW S, NEW s \in Seq(S)
  PROVE  Len(s) \in Nat /\ s \in [1..Len(s) -> S] /\ DOMAIN s = 1..Len(s)
OBVIOUS

LEMMA HeadTailProperties ==
  ASSUME NEW S, NEW s \in Seq(S), s # <<>>
  PROVE  /\ Head(s) \in S /\ Tail(s) \in Seq(S)
         /\ Len(Tail(s)) = Len(s) - 1
         /\ \A i \in 1..Len(Tail(s)) : Tail(s)[i] = s[i + 1]
OBVIOUS

LEMMA AppendProperties ==
  ASSUME NEW S, NEW s \in Seq(S), NEW e \in S
  PROVE  /\ Append(s, e) \in Seq(S) /\ Append(s, e) # <<>>
         /\ Len(Append(s, e)) = Len(s) + 1
         /\ \A i \in 1..Len(s) : Append(s, e)[i] = s[i]
         /\ Append(s, e)[Len(s) + 1] = e
OBVIOUS
-----------------------------------------------------------------------------
(* Types *)

\* The IPC states the handlers build are well-typed and of the kind their
\* name says (the constructors of enum IpcState).
LEMMA ConstructorsTyped ==
  /\ NoMsg \in Messages
  /\ IpcNone \in IpcStates /\ IpcNone.kind = "None"
  /\ SendDone \in IpcStates /\ SendDone.kind = "SendComplete"
  /\ \A src \in Procs \cup {Any, Hardware} :
       /\ Receiving(src) \in IpcStates
       /\ Receiving(src).kind = "Receiving" /\ Receiving(src).peer = src
  /\ \A src \in Procs \cup {Any, Hardware} :
       /\ ReceivingReply(src) \in IpcStates
       /\ ReceivingReply(src).kind = "ReceivingReply"
       /\ ReceivingReply(src).peer = src
  /\ \A m \in Messages :
       /\ MsgAvailable(m) \in IpcStates
       /\ MsgAvailable(m).kind = "MessageAvailable"
  /\ \A q \in Procs, m \in Messages, r \in BOOLEAN :
       /\ Sending(q, m, r) \in IpcStates
       /\ Sending(q, m, r).kind = "Sending" /\ Sending(q, m, r).peer = q
  /\ NoCall \in Calls
  /\ \A op \in {"send", "receive", "sendrec"}, q \in Procs \cup {Any, Hardware} :
       Call(op, q) \in Calls /\ Call(op, q) # NoCall
  BY Zenon DEF NoMsg, Messages, IpcNone, SendDone, Waiting, Receiving, ReceivingReply,
         MsgAvailable, Sending, IpcStates, NoCall, Calls, Call

\* VecDeque::remove keeps the element type, shortens the queue by one, and its
\* result holds only elements of the original queue.
LEMMA RemoveAtTyped ==
  ASSUME NEW S, NEW s \in Seq(S), NEW i \in 1..Len(s)
  PROVE  /\ RemoveAt(s, i) \in Seq(S)
         /\ Len(RemoveAt(s, i)) = Len(s) - 1
         /\ \A j \in 1..(Len(s) - 1) :
              RemoveAt(s, i)[j] = IF j < i THEN s[j] ELSE s[j + 1]
<1>1. Len(s) \in Nat /\ Len(s) >= 1 /\ Len(s) - 1 \in Nat
  BY LenProperties
<1>2. \A j \in 1..(Len(s) - 1) : (IF j < i THEN s[j] ELSE s[j + 1]) \in S
  BY <1>1, ElementOfSeq
<1>3. RemoveAt(s, i) \in [1..(Len(s) - 1) -> S]
  BY <1>2, Zenon DEF RemoveAt
<1>4. RemoveAt(s, i) \in Seq(S)
  BY <1>1, <1>3
<1>5. Len(RemoveAt(s, i)) = Len(s) - 1
  BY <1>1, <1>3, <1>4, LenProperties
<1> QED BY <1>4, <1>5, Zenon DEF RemoveAt

\* The message ExternalInterrupt posts is well-typed.
LEMMA InterruptMessage ==
  ASSUME TypeOK PROVE [source |-> Hardware, n |-> irqs + 1] \in Messages
<1>1. irqs \in Nat
  BY ConstantsAssumption DEF TypeOK
<1> QED BY <1>1 DEF Messages

\* What issuing a send does to the send counter and to the message.
LEMMA IssueTyped ==
  ASSUME TypeOK, NEW p \in Procs, NEW q \in Procs, NEW op,
         IssuesSend(p, op, q), sent' = NextSent(p)
  PROVE  /\ sent' \in [Procs -> Nat] /\ (\A x \in Procs : sent'[x] <= MaxSends[x])
         /\ MsgOf(p) \in Messages
<1>1. /\ sent \in [Procs -> Nat] /\ \A x \in Procs : sent[x] <= MaxSends[x]
      /\ MaxSends \in [Procs -> Nat]
  BY ConstantsAssumption, Zenon DEF TypeOK
<1>2. CASE Fresh(p)
  <2>1. sent[p] < MaxSends[p] /\ sent' = [sent EXCEPT ![p] = @ + 1]
    BY <1>2, Zenon DEF IssuesSend, Fresh, NextSent
  <2> QED BY <1>1, <2>1 DEF MsgOf, Messages
<1>3. CASE ~Fresh(p)
  BY <1>1, <1>3, Zenon DEF NextSent, MsgOf, Messages
<1> QED BY <1>2, <1>3, Zenon

\* A running process holds a token, so giving one up stays in Nat.
LEMMA TokenCount ==
  ASSUME TypeOK
  PROVE  /\ tokens \in [Procs -> Nat]
         /\ \A p \in Procs : tokens[p] + 1 \in Nat
         /\ \A p \in Procs : CanRun(p) => tokens[p] - 1 \in Nat
<1>1. tokens \in [Procs -> Nat]
  BY Zenon DEF TypeOK
<1>2. ASSUME NEW p \in Procs, CanRun(p) PROVE tokens[p] - 1 \in Nat
  BY <1>1, <1>2 DEF CanRun
<1> QED BY <1>1, <1>2

\* Blocking, returning, waking and copying keep their variables well-typed.
LEMMA StepsTyped ==
  ASSUME TypeOK, NEW p \in Procs
  PROVE  /\ \A op \in {"send", "receive", "sendrec"}, q \in Procs \cup {Any, Hardware} :
              CanRun(p) /\ Park(p, op, q) =>
                tokens' \in [Procs -> Nat] /\ call' \in [Procs -> Calls]
         /\ Return(p) => call' \in [Procs -> Calls]
         /\ Enqueue(p) => tokens' \in [Procs -> Nat]
         /\ \A m \in Messages, via \in {"receive", "sendrec"},
               q \in Procs \cup {Any, Hardware} :
              Copy(p, m, via, q) => delivered' \in [Procs -> Seq(Receipts)]
<1>1. /\ tokens \in [Procs -> Nat] /\ call \in [Procs -> Calls]
      /\ delivered \in [Procs -> Seq(Receipts)]
  BY Zenon DEF TypeOK
<1>2. ASSUME NEW op \in {"send", "receive", "sendrec"},
             NEW q \in Procs \cup {Any, Hardware}, CanRun(p), Park(p, op, q)
      PROVE  tokens' \in [Procs -> Nat] /\ call' \in [Procs -> Calls]
  <2>1. Call(op, q) \in Calls
    BY ConstructorsTyped, Zenon
  <2> QED BY <1>1, <1>2, <2>1 DEF Park, CanRun
<1>3. Return(p) => call' \in [Procs -> Calls]
  BY <1>1, ConstructorsTyped, ZenonT(30) DEF Return
<1>4. Enqueue(p) => tokens' \in [Procs -> Nat]
  BY <1>1 DEF Enqueue
<1>5. ASSUME NEW m \in Messages, NEW via \in {"receive", "sendrec"},
             NEW q \in Procs \cup {Any, Hardware}, Copy(p, m, via, q)
      PROVE  delivered' \in [Procs -> Seq(Receipts)]
  <2>1. [msg |-> m, via |-> via, peer |-> q] \in Receipts
    BY Zenon DEF Receipts
  <2> QED BY <1>1, <1>5, <2>1, AppendProperties, Zenon DEF Copy
<1> QED BY <1>2, <1>3, <1>4, <1>5, Zenon

\* Every handler, exit phase and interrupt keeps the IPC state well-typed.
THEOREM TypeCorrect == Spec => []TypeOK
<1>1. Init => TypeOK
  <2> SUFFICES ASSUME Init PROVE TypeOK
    BY Zenon
  <2>1. exiting \in [Procs -> ExitStates]
    BY Zenon DEF Init, ExitStates, Phases
  <2> QED BY <2>1, ConstantsAssumption, ConstructorsTyped
          DEF Init, TypeOK, Nobody, Statuses
<1>2. TypeOK /\ [Next]_vars => TypeOK'
  <2> SUFFICES ASSUME TypeOK, [Next]_vars PROVE TypeOK'
    BY Zenon
  <2>1. ASSUME NEW p \in Procs, NEW q \in Procs, SysIpcSend(p, q) PROVE TypeOK'
    <3>1. sent' \in [Procs -> Nat] /\ (\A x \in Procs : sent'[x] <= MaxSends[x])
      BY <2>1, IssueTyped, Zenon DEF SysIpcSend
    <3>2. MsgOf(p) \in Messages
      BY <2>1, IssueTyped, Zenon DEF SysIpcSend
    <3>3. UNCHANGED <<exiting, irqOwner, irqEnabled, irqs, kernel>>
      BY <2>1, Zenon DEF SysIpcSend, exitVars, irqVars
    <3>4. acked \cup {[msg |-> MsgOf(p), to |-> q]} \subseteq Acks
      <4>1. [msg |-> MsgOf(p), to |-> q] \in Acks
        BY <3>2, Zenon DEF Acks
      <4> QED BY <4>1, Zenon DEF TypeOK
    <3>5. CASE SendResume(p, q)
      <4>1. call' \in [Procs -> Calls]
        BY <3>5, StepsTyped, Zenon DEF SendResume
      <4>2. ipc' \in [Procs -> IpcStates]
        BY <3>5, ConstructorsTyped, Zenon DEF SendResume, TypeOK
      <4> QED BY <3>1, <3>3, <3>4, <3>5, <4>1, <4>2, Zenon DEF SendResume, TypeOK
    <3>6. ASSUME NEW ok \in PtrOutcomes, SendFails(p, q, ok) PROVE TypeOK'
      <4>1. call' \in [Procs -> Calls]
        BY <3>6, StepsTyped, Zenon DEF SendFails
      <4> QED BY <3>1, <3>3, <3>6, <4>1, Zenon DEF SendFails, TypeOK
    <3>7. ASSUME NEW ok \in PtrOutcomes, SendDeliver(p, q, ok) PROVE TypeOK'
      <4>1. call' \in [Procs -> Calls] /\ tokens' \in [Procs -> Nat]
        BY <3>7, StepsTyped, Zenon DEF SendDeliver
      <4>2. ipc' \in [Procs -> IpcStates]
        BY <3>2, <3>7, ConstructorsTyped, Zenon DEF SendDeliver, TypeOK
      <4> QED BY <3>1, <3>3, <3>4, <3>7, <4>1, <4>2, Zenon DEF SendDeliver, TypeOK
    <3>8. ASSUME NEW ok \in PtrOutcomes, SendBlock(p, q, ok) PROVE TypeOK'
      <4>1. call' \in [Procs -> Calls] /\ tokens' \in [Procs -> Nat]
        BY <2>1, <3>8, StepsTyped, Zenon DEF SendBlock, SysIpcSend, IssuesSend, Issues
      <4>2. ipc' \in [Procs -> IpcStates]
        BY <3>2, <3>8, ConstructorsTyped, Zenon DEF SendBlock, TypeOK
      <4>3. senders' \in [Procs -> Seq(Procs)]
        <5>1. senders \in [Procs -> Seq(Procs)] /\ Append(senders[q], p) \in Seq(Procs)
          BY AppendProperties, Zenon DEF TypeOK
        <5> QED BY <3>8, <5>1, Zenon DEF SendBlock
      <4> QED BY <3>1, <3>3, <3>8, <4>1, <4>2, <4>3, ZenonT(30) DEF SendBlock, TypeOK
    <3> QED BY <2>1, <3>5, <3>6, <3>7, <3>8, Zenon DEF SysIpcSend
  <2>2. ASSUME NEW p \in Procs, NEW q \in Procs, SysIpcSendrec(p, q) PROVE TypeOK'
    <3>1. sent' \in [Procs -> Nat] /\ (\A x \in Procs : sent'[x] <= MaxSends[x])
      BY <2>2, IssueTyped, Zenon DEF SysIpcSendrec
    <3>2. MsgOf(p) \in Messages
      BY <2>2, IssueTyped, Zenon DEF SysIpcSendrec
    <3>3. UNCHANGED <<exiting, irqOwner, irqEnabled, irqs, acked, kernel>>
      BY <2>2, Zenon DEF SysIpcSendrec, exitVars, irqVars
    <3>4. CanRun(p)
      BY <2>2, Zenon DEF SysIpcSendrec, IssuesSend, Issues
    <3>5. CASE SendrecContinue(p, q)
      <4>0. ipc[p].msg \in Messages
        BY Zenon DEF TypeOK, IpcStates
      <4>1. ipc' \in [Procs -> IpcStates]
        <5>1. IpcNone \in IpcStates
          BY ConstructorsTyped, Zenon
        <5>2. ipc' = ipc \/ ipc' = [ipc EXCEPT ![p] = IpcNone]
          BY <3>5, Zenon DEF SendrecContinue
        <5> QED BY <5>1, <5>2, Zenon DEF TypeOK
      <4>2. call' \in [Procs -> Calls]
        BY <3>4, <3>5, StepsTyped, Zenon DEF SendrecContinue
      <4>3. tokens' \in [Procs -> Nat]
        BY <3>4, <3>5, StepsTyped, Zenon DEF SendrecContinue, TypeOK
      <4>4. delivered' \in [Procs -> Seq(Receipts)]
        BY <3>5, <4>0, StepsTyped, Zenon DEF SendrecContinue, TypeOK
      <4> QED BY <3>1, <3>3, <3>5, <4>1, <4>2, <4>3, <4>4, Zenon DEF SendrecContinue, TypeOK
    <3>6. CASE SendrecFails(p, q)
      <4>1. call' \in [Procs -> Calls]
        BY <3>6, StepsTyped, Zenon DEF SendrecFails
      <4> QED BY <3>1, <3>3, <3>6, <4>1, Zenon DEF SendrecFails, TypeOK
    <3>7. CASE SendrecDeliver(p, q)
      <4>1. call' \in [Procs -> Calls]
        BY <3>7, ConstructorsTyped, Zenon DEF SendrecDeliver, TypeOK
      <4>2. tokens' \in [Procs -> Nat]
        <5>1. tokens \in [Procs -> Nat] /\ tokens[p] - 1 \in Nat /\ tokens[q] + 1 \in Nat
          BY <3>4, TokenCount, Zenon
        <5>2. p # q
          BY <2>2, Zenon DEF SysIpcSendrec, IssuesSend
        <5> QED BY <3>7, <5>1, <5>2, Zenon DEF SendrecDeliver
      <4>3. ipc' \in [Procs -> IpcStates]
        BY <3>2, <3>7, ConstructorsTyped, Zenon DEF SendrecDeliver, TypeOK
      <4> QED BY <3>1, <3>3, <3>7, <4>1, <4>2, <4>3, Zenon DEF SendrecDeliver, TypeOK
    <3>8. CASE SendrecBlock(p, q)
      <4>1. call' \in [Procs -> Calls] /\ tokens' \in [Procs -> Nat]
        BY <3>4, <3>8, StepsTyped, Zenon DEF SendrecBlock
      <4>2. ipc' \in [Procs -> IpcStates]
        BY <3>2, <3>8, ConstructorsTyped, Zenon DEF SendrecBlock, TypeOK
      <4>3. senders' \in [Procs -> Seq(Procs)]
        <5>1. senders \in [Procs -> Seq(Procs)] /\ Append(senders[q], p) \in Seq(Procs)
          BY AppendProperties, Zenon DEF TypeOK
        <5> QED BY <3>8, <5>1, Zenon DEF SendrecBlock
      <4> QED BY <3>1, <3>3, <3>8, <4>1, <4>2, <4>3, ZenonT(30) DEF SendrecBlock, TypeOK
    <3> QED BY <2>2, <3>5, <3>6, <3>7, <3>8, Zenon DEF SysIpcSendrec
  <2>3. ASSUME NEW p \in Procs, NEW src \in Sources, SysIpcReceive(p, src) PROVE TypeOK'
    <3>1. UNCHANGED <<exiting, irqOwner, irqEnabled, irqs, sent, acked>>
      BY <2>3, Zenon DEF SysIpcReceive, exitVars, irqVars
    <3>2. CanRun(p) /\ src \in Procs \cup {Any, Hardware}
      BY <2>3, ConstantsAssumption, Zenon DEF SysIpcReceive, Issues
    <3>3. ASSUME NEW ok \in PtrOutcomes, ReceiveAvailable(p, src, ok) PROVE TypeOK'
      <4>0. ipc[p].msg \in Messages
        BY Zenon DEF TypeOK, IpcStates
      <4>1. call' \in [Procs -> Calls]
        BY <3>3, StepsTyped, Zenon DEF ReceiveAvailable
      <4>2. delivered' \in [Procs -> Seq(Receipts)]
        BY <3>2, <3>3, <4>0, StepsTyped, Zenon DEF ReceiveAvailable, TypeOK
      <4>3. irqPending[p] # <<>> =>
              Head(irqPending[p]) \in Messages /\ Tail(irqPending[p]) \in Seq(Messages)
        BY HeadTailProperties, Zenon DEF TypeOK
      <4>4. ipc' \in [Procs -> IpcStates]
        <5>1. /\ IpcNone \in IpcStates
              /\ irqPending[p] # <<>> => MsgAvailable(Head(irqPending[p])) \in IpcStates
          BY <4>3, ConstructorsTyped, Zenon
        <5>2. \/ ipc' = ipc
              \/ ipc' = [ipc EXCEPT ![p] = IpcNone]
              \/ /\ irqPending[p] # <<>>
                 /\ ipc' = [ipc EXCEPT ![p] = MsgAvailable(Head(irqPending[p]))]
          BY <3>3, Zenon DEF ReceiveAvailable
        <5> QED BY <5>1, <5>2, Zenon DEF TypeOK
      <4>5. irqPending' \in [Procs -> Seq(Messages)]
        BY <3>3, <4>3, Zenon DEF ReceiveAvailable, TypeOK
      <4> QED BY <3>1, <3>3, <4>1, <4>2, <4>4, <4>5, Zenon DEF ReceiveAvailable, TypeOK
    <3>4. ASSUME NEW ok \in PtrOutcomes, ReceiveIrq(p, src, ok) PROVE TypeOK'
      <4>1. PICK i \in 1..Len(irqPending[p]) :
              /\ irqPending' = [irqPending EXCEPT ![p] = RemoveAt(@, i)]
              /\ IF ok THEN Copy(p, irqPending[p][i], "receive", src)
                       ELSE UNCHANGED delivered
        BY <3>4, Zenon DEF ReceiveIrq
      <4>2. irqPending[p][i] \in Messages /\ RemoveAt(irqPending[p], i) \in Seq(Messages)
        <5>1. irqPending[p] \in Seq(Messages)
          BY Zenon DEF TypeOK
        <5> QED BY <5>1, RemoveAtTyped, ElementOfSeq, Zenon
      <4>3. call' \in [Procs -> Calls]
        BY <3>4, StepsTyped, Zenon DEF ReceiveIrq
      <4>4. delivered' \in [Procs -> Seq(Receipts)]
        BY <3>2, <4>1, <4>2, StepsTyped, Zenon DEF TypeOK
      <4> QED BY <3>1, <3>4, <4>1, <4>2, <4>3, <4>4, Zenon DEF ReceiveIrq, TypeOK
    <3>5. ASSUME NEW ok \in PtrOutcomes, ReceiveFromSender(p, src, ok) PROVE TypeOK'
      <4>1. PICK i \in 1..Len(senders[p]) :
              /\ senders' = [senders EXCEPT ![p] = RemoveAt(@, i)]
              /\ TakeMessageOf(p, senders[p][i], src, ok)
        BY <3>5, Zenon DEF ReceiveFromSender
      <4> DEFINE s == senders[p][i]
      <4>2. s \in Procs /\ RemoveAt(senders[p], i) \in Seq(Procs)
        <5>1. senders[p] \in Seq(Procs)
          BY Zenon DEF TypeOK
        <5> QED BY <5>1, RemoveAtTyped, ElementOfSeq, Zenon
      <4>3. call' \in [Procs -> Calls]
        BY <3>5, StepsTyped, Zenon DEF ReceiveFromSender
      <4>4. /\ ipc' \in [Procs -> IpcStates] /\ tokens' \in [Procs -> Nat]
            /\ delivered' \in [Procs -> Seq(Receipts)]
            /\ kernel' \in {"up", "panicked"}
        <5>0. ipc[s].msg \in Messages
          BY <4>2, ZenonT(30) DEF TypeOK, IpcStates
        <5>1. Copy(p, ipc[s].msg, "receive", src) => delivered' \in [Procs -> Seq(Receipts)]
          BY <3>2, <5>0, StepsTyped, Zenon
        <5>2. Enqueue(s) => tokens' \in [Procs -> Nat]
          BY <4>2, StepsTyped, Zenon
        <5>3. ReceivingReply(p) \in IpcStates /\ SendDone \in IpcStates
          BY ConstructorsTyped, Zenon
        <5>4. TakeMessageOf(p, s, src, ok)
          BY <4>1, Zenon
        <5> HIDE DEF s
        <5> QED BY <5>1, <5>2, <5>3, <5>4, Zenon DEF TakeMessageOf, TypeOK
      <4> QED BY <3>1, <3>5, <4>1, <4>2, <4>3, <4>4, Zenon DEF ReceiveFromSender, TypeOK
    <3>6. CASE ReceiveBlock(p, src)
      <4>1. call' \in [Procs -> Calls] /\ tokens' \in [Procs -> Nat]
        BY <3>2, <3>6, StepsTyped, Zenon DEF ReceiveBlock
      <4>2. ipc' \in [Procs -> IpcStates]
        BY <3>2, <3>6, ConstructorsTyped, Zenon DEF ReceiveBlock, TypeOK
      <4> QED BY <3>1, <3>6, <4>1, <4>2, Zenon DEF ReceiveBlock, TypeOK
    <3> QED BY <2>3, <3>3, <3>4, <3>5, <3>6, Zenon DEF SysIpcReceive
  <2>4. ASSUME NEW p \in Drivers, NEW q \in IrqPids, SysIrqRegister(p, q) PROVE TypeOK'
    BY <2>4, ConstantsAssumption, Zenon
       DEF SysIrqRegister, TypeOK, kernelVars, exitVars, history
  <2>5. ASSUME NEW p \in Drivers, NEW h \in Harts, SysIrqEnable(p, h) PROVE TypeOK'
    BY <2>5, Zenon DEF SysIrqEnable, TypeOK, kernelVars, exitVars, history
  <2>6. ASSUME NEW h \in Harts, ExternalInterrupt(h) PROVE TypeOK'
    <3> DEFINE m == [source |-> Hardware, n |-> irqs + 1]
    <3>1. irqs' \in 0..MaxIrqs /\ irqOwner \in Procs
      BY <2>6, ConstantsAssumption DEF ExternalInterrupt, TypeOK
    <3>2. m \in Messages /\ KernelSendMsg(irqOwner, m)
      BY <2>6, InterruptMessage, Zenon DEF ExternalInterrupt
    <3>3. MsgAvailable(m) \in IpcStates
      BY <3>2, ConstructorsTyped, Zenon
    <3> HIDE DEF m
    <3>4. ipc' \in [Procs -> IpcStates] /\ tokens' \in [Procs -> Nat]
      BY <3>1, <3>2, <3>3, StepsTyped, Zenon DEF KernelSendMsg, TypeOK
    <3>5. irqPending' \in [Procs -> Seq(Messages)]
      <4>1. Append(irqPending[irqOwner], m) \in Seq(Messages)
        BY <3>1, <3>2, AppendProperties, Zenon DEF TypeOK
      <4> QED BY <3>1, <3>2, <4>1, Zenon DEF KernelSendMsg, TypeOK
    <3> QED BY <2>6, <3>1, <3>4, <3>5, Zenon DEF ExternalInterrupt, TypeOK, exitVars, history
  <2>7. ASSUME NEW p \in Procs, BecomeZombie(p)
        PROVE  /\ status' \in [Procs -> Statuses]
               /\ senders' \in [Procs -> Seq(Procs)]
               /\ exiting' \in [Procs -> ExitStates]
    <3>1. [phase |-> "senders", todo |-> Queued(p)] \in ExitStates
      <4>1. senders[p] \in Seq(Procs)
        BY Zenon DEF TypeOK
      <4>2. Queued(p) \subseteq Procs
        BY <4>1, ElementOfSeq, Zenon DEF Queued
      <4> QED BY <4>2, Zenon DEF ExitStates, Phases
    <3> QED BY <2>7, <3>1 DEF BecomeZombie, TypeOK, Statuses
  <2>8. ASSUME NEW p \in Mortal, SysExit(p) PROVE TypeOK'
    <3>1. p \in Procs
      BY ConstantsAssumption, Zenon
    <3>2. tokens' \in [Procs -> Nat]
      BY <2>8, <3>1 DEF SysExit, CanRun, TypeOK
    <3> QED BY <2>7, <2>8, <3>1, <3>2, Zenon DEF SysExit, TypeOK, irqVars, history
  <2>9. ASSUME NEW p \in Killable, Kill(p) PROVE TypeOK'
    <3>1. p \in Procs
      BY ConstantsAssumption, Zenon
    <3> QED BY <2>7, <2>9, <3>1, Zenon DEF Kill, TypeOK, irqVars, history
  <2>10. ASSUME NEW p \in Signalled, WakeWithEintr(p) PROVE TypeOK'
    <3>1. p \in Procs
      BY ConstantsAssumption, Zenon
    <3>2. senders' \in [Procs -> Seq(Procs)]
      <4>1. \A q \in Procs : senders[q] \in Seq(Procs)
        BY Zenon DEF TypeOK
      <4>2. ASSUME NEW q \in Procs PROVE Retain(senders[q], p) \in Seq(Procs)
        <5>1. CASE \E i \in 1..Len(senders[q]) : senders[q][i] = p
          <6> DEFINE i == CHOOSE i \in 1..Len(senders[q]) : senders[q][i] = p
          <6>1. i \in 1..Len(senders[q])
            BY <5>1, Zenon
          <6> HIDE DEF i
          <6>2. RemoveAt(senders[q], i) \in Seq(Procs)
            BY <4>1, <6>1, RemoveAtTyped, Zenon
          <6> QED BY <5>1, <6>2, ZenonT(30) DEF Retain, i
        <5> QED BY <4>1, <5>1, Zenon DEF Retain
      <4> QED BY <2>10, <4>2, ZenonT(30) DEF WakeWithEintr, TypeOK
    <3>3. tokens' \in [Procs -> Nat]
      BY <2>10, <3>1, StepsTyped, Zenon DEF WakeWithEintr
    <3>4. ipc' \in [Procs -> IpcStates] /\ call' \in [Procs -> Calls]
      BY <2>10, ConstructorsTyped, Zenon DEF WakeWithEintr, TypeOK
    <3>5. status' \in [Procs -> Statuses]
      BY <2>10, Zenon DEF WakeWithEintr, TypeOK, Statuses
    <3> QED BY <2>10, <3>2, <3>3, <3>4, <3>5, Zenon
            DEF WakeWithEintr, TypeOK, exitVars, irqVars, history
  <2>11. ASSUME NEW p \in Procs, NEW w \in Procs, ExitRelease(p, w) PROVE TypeOK'
    <3>1. exiting' \in [Procs -> ExitStates]
      BY <2>11, Zenon DEF ExitRelease, TypeOK, ExitStates
    <3>2. ipc' \in [Procs -> IpcStates]
      <4>1. IpcNone \in IpcStates
        BY ConstructorsTyped, Zenon
      <4> QED BY <2>11, <4>1, Zenon DEF ExitRelease, TypeOK
    <3>3. call' \in [Procs -> Calls]
      <4>1. NoCall \in Calls
        BY ConstructorsTyped, Zenon
      <4> QED BY <2>11, <4>1, Zenon DEF ExitRelease, TypeOK
    <3>4. status' \in [Procs -> Statuses]
      BY <2>11, Zenon DEF ExitRelease, TypeOK, Statuses
    <3>5. tokens' \in [Procs -> Nat]
      BY <2>11, StepsTyped, TokenCount, Zenon DEF ExitRelease
    <3> QED BY <2>11, <3>1, <3>2, <3>3, <3>4, <3>5, Zenon
            DEF ExitRelease, TypeOK, irqVars, history
  <2>12. ASSUME NEW p \in Procs, ExitScan(p) PROVE TypeOK'
    <3>1. [phase |-> "waiters", todo |-> StuckWaiters(p)] \in ExitStates
      BY Zenon DEF ExitStates, Phases, StuckWaiters
    <3> QED BY <2>12, <3>1, Zenon DEF ExitScan, TypeOK, kernelVars, irqVars, history
  <2>13. ASSUME NEW p \in Procs, ExitIrq(p) PROVE TypeOK'
    <3>1. exiting' \in [Procs -> ExitStates]
      BY <2>13, Zenon DEF ExitIrq, TypeOK, ExitStates, Phases
    <3> QED BY <2>13, <3>1, ZenonT(30) DEF ExitIrq, TypeOK, Nobody, kernelVars, history
  <2>14. ASSUME NEW p \in Procs, Reap(p) PROVE TypeOK'
    <3>1. /\ ipc' \in [Procs -> IpcStates] /\ call' \in [Procs -> Calls]
          /\ senders' \in [Procs -> Seq(Procs)] /\ irqPending' \in [Procs -> Seq(Messages)]
      <4>1. /\ IpcNone \in IpcStates /\ NoCall \in Calls
            /\ <<>> \in Seq(Procs) /\ <<>> \in Seq(Messages)
        BY ConstructorsTyped
      <4> QED BY <2>14, <4>1, Zenon DEF Reap, TypeOK
    <3> QED BY <2>14, <3>1, Zenon DEF Reap, TypeOK, Statuses, exitVars, irqVars, history
  <2>15. ASSUME NEW p \in Procs, StaleCall(p) PROVE TypeOK'
    BY <2>15, Zenon DEF StaleCall, TypeOK, kernelVars, exitVars, irqVars, history
  <2>16. ASSUME NEW p \in Procs, Dispatch(p) PROVE TypeOK'
    BY <2>16, Zenon DEF Dispatch, TypeOK, Statuses, exitVars, irqVars, history
  <2>17. ASSUME NEW p \in Procs, Discard(p) PROVE TypeOK'
    <3>1. tokens' \in [Procs -> Nat]
      BY <2>17 DEF Discard, TypeOK
    <3> QED BY <2>17, <3>1, Zenon DEF Discard, TypeOK, exitVars, irqVars, history
  <2>18. ASSUME NEW pm \in PmServers, NEW p \in Procs, NEW c \in Procs,
                SysCloneProcess(pm, p, c) PROVE TypeOK'
    <3>1. /\ ipc' \in [Procs -> IpcStates] /\ call' \in [Procs -> Calls]
          /\ status' \in [Procs -> Statuses]
      <4>1. /\ ipc \in [Procs -> IpcStates] /\ call \in [Procs -> Calls]
            /\ status \in [Procs -> Statuses] /\ "Stopped" \in Statuses
        BY Zenon DEF TypeOK, Statuses
      <4> QED BY <2>18, <4>1, Zenon DEF SysCloneProcess
    <3> QED BY <2>18, <3>1, Zenon DEF SysCloneProcess, TypeOK, exitVars, irqVars, history
  <2>19. CASE UNCHANGED vars
    BY <2>19, Zenon DEF TypeOK, vars, kernelVars, exitVars, irqVars, history
  <2> QED BY <2>1, <2>2, <2>3, <2>4, <2>5, <2>6, <2>8, <2>9, <2>10, <2>11, <2>12,
             <2>13, <2>14, <2>15, <2>16, <2>17, <2>18, <2>19, Zenon DEF Next
<1> QED BY <1>1, <1>2, PTL DEF Spec

-----------------------------------------------------------------------------
(* No lost wakeup *)

\* Queueing a message the filter rejects, or taking one away, leaves a queue
\* without a match.
LEMMA NoMatchQueue ==
  ASSUME NEW S, NEW s \in Seq(S), NEW f, NoMatch(f, s)
  PROVE  /\ \A x \in S : ~Matches(f, x) => NoMatch(f, Append(s, x))
         /\ \A i \in 1..Len(s) : NoMatch(f, RemoveAt(s, i))
<1>0. Len(s) \in Nat
  BY LenProperties, Zenon
<1>1. ASSUME NEW x \in S, ~Matches(f, x) PROVE NoMatch(f, Append(s, x))
  <2>1. /\ Len(Append(s, x)) = Len(s) + 1
        /\ \A i \in 1..Len(s) : Append(s, x)[i] = s[i]
        /\ Append(s, x)[Len(s) + 1] = x
    BY AppendProperties
  <2>2. SUFFICES ASSUME NEW i \in 1..Len(Append(s, x))
                 PROVE  ~Matches(f, Append(s, x)[i])
    BY Zenon DEF NoMatch
  <2>3. i \in 1..Len(s) \/ i = Len(s) + 1
    BY <1>0, <2>1
  <2>4. CASE i \in 1..Len(s)
    BY <2>1, <2>4, Zenon DEF NoMatch
  <2>5. CASE i = Len(s) + 1
    BY <1>1, <2>1, <2>5, Zenon
  <2> QED BY <2>3, <2>4, <2>5, Zenon
<1>2. ASSUME NEW i \in 1..Len(s) PROVE NoMatch(f, RemoveAt(s, i))
  <2>1. /\ Len(RemoveAt(s, i)) = Len(s) - 1
        /\ \A j \in 1..(Len(s) - 1) :
             RemoveAt(s, i)[j] = IF j < i THEN s[j] ELSE s[j + 1]
    BY RemoveAtTyped, Zenon
  <2> QED BY <1>0, <2>1 DEF NoMatch
<1> QED BY <1>1, <1>2, Zenon

\* The sources of a queue of messages match a filter where the messages do.
LEMMA SourcesNoMatch ==
  ASSUME NEW t \in Seq(Messages), NEW f
  PROVE  NoMatch(f, SourcesOf(t)) <=> \A i \in 1..Len(t) : ~Matches(f, t[i].source)
<1>1. Len(t) \in Nat
  BY LenProperties, Zenon
<1>2. \A i \in 1..Len(t) : t[i] \in Messages
  BY ElementOfSeq, Zenon
<1>3. \A i \in 1..Len(t) : t[i].source \in Procs \cup {Hardware}
  BY <1>2, Zenon DEF Messages
<1>4. SourcesOf(t) \in [1..Len(t) -> Procs \cup {Hardware}]
  BY <1>3, Zenon DEF SourcesOf
<1>5. SourcesOf(t) \in Seq(Procs \cup {Hardware})
  BY <1>1, <1>4
<1>6. Len(SourcesOf(t)) = Len(t)
  BY <1>1, <1>4, <1>5, LenProperties
<1> QED BY <1>6, Zenon DEF NoMatch, SourcesOf

\* The same facts for a queue of interrupt messages.
LEMMA NoMatchIrqs ==
  ASSUME NEW t \in Seq(Messages), NEW f, NoMatch(f, SourcesOf(t))
  PROVE  /\ \A m \in Messages : ~Matches(f, m.source) => NoMatch(f, SourcesOf(Append(t, m)))
         /\ \A i \in 1..Len(t) : NoMatch(f, SourcesOf(RemoveAt(t, i)))
         /\ t # <<>> => NoMatch(f, SourcesOf(Tail(t)))
<1>0. Len(t) \in Nat
  BY LenProperties, Zenon
<1>1. \A i \in 1..Len(t) : ~Matches(f, t[i].source)
  BY SourcesNoMatch, Zenon
<1>2. ASSUME NEW m \in Messages, ~Matches(f, m.source)
      PROVE  NoMatch(f, SourcesOf(Append(t, m)))
  <2>1. /\ Append(t, m) \in Seq(Messages)
        /\ Len(Append(t, m)) = Len(t) + 1
        /\ \A i \in 1..Len(t) : Append(t, m)[i] = t[i]
        /\ Append(t, m)[Len(t) + 1] = m
    BY AppendProperties
  <2>2. ASSUME NEW i \in 1..Len(Append(t, m)) PROVE ~Matches(f, Append(t, m)[i].source)
    <3>1. i \in 1..Len(t) \/ i = Len(t) + 1
      BY <1>0, <2>1
    <3>2. CASE i \in 1..Len(t)
      BY <1>1, <2>1, <3>2, Zenon
    <3> QED BY <1>2, <2>1, <3>1, <3>2, Zenon
  <2> QED BY <2>1, <2>2, SourcesNoMatch, ZenonT(30)
<1>3. ASSUME NEW i \in 1..Len(t) PROVE NoMatch(f, SourcesOf(RemoveAt(t, i)))
  <2>1. /\ RemoveAt(t, i) \in Seq(Messages)
        /\ Len(RemoveAt(t, i)) = Len(t) - 1
        /\ \A j \in 1..(Len(t) - 1) :
             RemoveAt(t, i)[j] = IF j < i THEN t[j] ELSE t[j + 1]
    BY RemoveAtTyped, Zenon
  <2>2. ASSUME NEW j \in 1..Len(RemoveAt(t, i))
        PROVE  ~Matches(f, RemoveAt(t, i)[j].source)
    <3>1. j \in 1..(Len(t) - 1) /\ j \in 1..Len(t) /\ j + 1 \in 1..Len(t)
      BY <1>0, <2>1
    <3>2. RemoveAt(t, i)[j] = t[j] \/ RemoveAt(t, i)[j] = t[j + 1]
      BY <2>1, <3>1, Zenon
    <3> QED BY <1>1, <3>1, <3>2, Zenon
  <2> QED BY <2>1, <2>2, SourcesNoMatch, Zenon
<1>4. ASSUME t # <<>> PROVE NoMatch(f, SourcesOf(Tail(t)))
  <2>1. /\ Tail(t) \in Seq(Messages)
        /\ Len(Tail(t)) = Len(t) - 1
        /\ \A j \in 1..Len(Tail(t)) : Tail(t)[j] = t[j + 1]
    BY <1>4, HeadTailProperties, Zenon
  <2>2. \A j \in 1..Len(Tail(t)) : ~Matches(f, Tail(t)[j].source)
    BY <1>0, <1>1, <2>1
  <2> QED BY <2>1, <2>2, SourcesNoMatch, Zenon
<1> QED BY <1>2, <1>3, <1>4, Zenon

\* No lost wakeup: for any number of processes, senders, interrupts, exits and
\* kills, a process asleep in sys_ipc_receive has no partner waiting for it.
\* The invariant is inductive relative to TypeOK: each handler either leaves a
\* receiver and its queues alone, wakes the receiver, or queues only what the
\* receiver's filter rejects.
THEOREM NoLostWakeup == Spec => []NoMissedRendezvous
<1>1. Init => NoMissedRendezvous
  <2>1. IpcNone.kind # "Receiving"
    BY ConstructorsTyped, Zenon
  <2> QED BY <2>1, ZenonT(30) DEF Init, NoMissedRendezvous, NoneMissed
<1>2. TypeOK /\ NoMissedRendezvous /\ [Next]_vars => NoMissedRendezvous'
  <2> SUFFICES ASSUME TypeOK, NoMissedRendezvous, [Next]_vars,
                      NEW x \in Procs, ipc'[x].kind = "Receiving"
               PROVE  /\ NoMatch(ipc'[x].peer, senders'[x])
                      /\ NoMatch(ipc'[x].peer, SourcesOf(irqPending'[x]))
    BY Zenon DEF NoMissedRendezvous, NoneMissed, IrqSources
  <2> DEFINE Goal == /\ NoMatch(ipc'[x].peer, senders'[x])
                     /\ NoMatch(ipc'[x].peer, SourcesOf(irqPending'[x]))
  <2>a. /\ ipc \in [Procs -> IpcStates] /\ senders \in [Procs -> Seq(Procs)]
        /\ irqPending \in [Procs -> Seq(Messages)]
    BY Zenon DEF TypeOK
  <2>b. ASSUME ipc'[x] = ipc[x]
        PROVE  /\ NoMatch(ipc'[x].peer, senders[x])
               /\ NoMatch(ipc'[x].peer, SourcesOf(irqPending[x]))
    BY <2>b, ZenonT(30) DEF NoMissedRendezvous, NoneMissed, IrqSources
  <2>c. ASSUME ipc'[x] = ipc[x], senders'[x] = senders[x], irqPending'[x] = irqPending[x]
        PROVE  Goal
    BY <2>b, <2>c, Zenon
  <2> HIDE DEF Goal
  <2>1. ASSUME NEW p \in Procs, NEW q \in Procs, SysIpcSend(p, q) PROVE Goal
    <3>1. MsgOf(p) \in Messages
      BY <2>1, IssueTyped, Zenon DEF SysIpcSend
    <3>2. CASE SendResume(p, q)
      <4>1. x # p
        BY <2>a, <3>2, ConstructorsTyped, Zenon DEF SendResume
      <4> QED BY <2>a, <2>c, <3>2, <4>1, Zenon DEF SendResume
    <3>3. ASSUME NEW ok \in PtrOutcomes, SendFails(p, q, ok) PROVE Goal
      BY <2>c, <3>3, Zenon DEF SendFails
    <3>4. ASSUME NEW ok \in PtrOutcomes, SendDeliver(p, q, ok) PROVE Goal
      <4>1. x # q
        BY <2>a, <3>1, <3>4, ConstructorsTyped, ZenonT(30) DEF SendDeliver
      <4> QED BY <2>a, <2>c, <3>4, <4>1, Zenon DEF SendDeliver
    <3>5. ASSUME NEW ok \in PtrOutcomes, SendBlock(p, q, ok) PROVE Goal
      <4>1. x # p
        BY <2>a, <3>1, <3>5, ConstructorsTyped, Zenon DEF SendBlock
      <4>2. ipc'[x] = ipc[x] /\ irqPending' = irqPending
        BY <2>a, <3>5, <4>1, Zenon DEF SendBlock
      <4>3. CASE x = q
        <5>1. ~Matches(ipc[x].peer, p)
          BY <3>5, <4>2, <4>3, ZenonT(30) DEF SendBlock, TargetAccepts
        <5>2. senders'[x] = Append(senders[x], p)
          BY <2>a, <3>5, <4>3, Zenon DEF SendBlock
        <5> QED BY <2>a, <2>b, <4>2, <5>1, <5>2, NoMatchQueue, Zenon DEF Goal
      <4>4. CASE x # q
        BY <2>a, <2>c, <3>5, <4>2, <4>4, Zenon DEF SendBlock
      <4> QED BY <4>3, <4>4, Zenon
    <3> QED BY <2>1, <3>2, <3>3, <3>4, <3>5, ZenonT(30) DEF SysIpcSend
  <2>2. ASSUME NEW p \in Procs, NEW q \in Procs, SysIpcSendrec(p, q) PROVE Goal
    <3>1. MsgOf(p) \in Messages
      BY <2>2, IssueTyped, Zenon DEF SysIpcSendrec
    <3>2. CASE SendrecContinue(p, q)
      <4>1. ipc'[x] = ipc[x]
        <5>1. IpcNone.kind # "Receiving"
          BY ConstructorsTyped, Zenon
        <5>2. ipc' = ipc \/ ipc' = [ipc EXCEPT ![p] = IpcNone]
          BY <3>2, Zenon DEF SendrecContinue
        <5> QED BY <2>a, <5>1, <5>2, Zenon
      <4> QED BY <2>c, <3>2, <4>1, Zenon DEF SendrecContinue
    <3>3. CASE SendrecFails(p, q)
      BY <2>c, <3>3, Zenon DEF SendrecFails
    <3>4. CASE SendrecDeliver(p, q)
      <4>1. MsgAvailable(MsgOf(p)).kind # "Receiving" /\ ReceivingReply(q).kind # "Receiving"
        BY <3>1, ConstructorsTyped, Zenon
      <4>2. ipc'[x] = ipc[x]
        BY <2>a, <3>4, <4>1, Zenon DEF SendrecDeliver
      <4> QED BY <2>c, <3>4, <4>2, ZenonT(30) DEF SendrecDeliver
    <3>5. CASE SendrecBlock(p, q)
      <4>1. x # p
        BY <2>a, <3>1, <3>5, ConstructorsTyped, Zenon DEF SendrecBlock
      <4>2. ipc'[x] = ipc[x] /\ irqPending' = irqPending
        BY <2>a, <3>5, <4>1, Zenon DEF SendrecBlock
      <4>3. CASE x = q
        <5>1. ~Matches(ipc[x].peer, p)
          BY <3>5, <4>2, <4>3, ZenonT(30) DEF SendrecBlock, TargetAccepts
        <5>2. senders'[x] = Append(senders[x], p)
          BY <2>a, <3>5, <4>3, Zenon DEF SendrecBlock
        <5> QED BY <2>a, <2>b, <4>2, <5>1, <5>2, NoMatchQueue, Zenon DEF Goal
      <4>4. CASE x # q
        BY <2>a, <2>c, <3>5, <4>2, <4>4, Zenon DEF SendrecBlock
      <4> QED BY <4>3, <4>4, Zenon
    <3> QED BY <2>2, <3>2, <3>3, <3>4, <3>5, Zenon DEF SysIpcSendrec
  <2>3. ASSUME NEW p \in Procs, NEW src \in Sources, SysIpcReceive(p, src) PROVE Goal
    <3>1. ASSUME NEW ok \in PtrOutcomes, ReceiveAvailable(p, src, ok) PROVE Goal
      <4>1. x # p
        <5>1. IpcNone.kind # "Receiving"
          BY ConstructorsTyped, Zenon
        <5>2. irqPending[p] # <<>> => MsgAvailable(Head(irqPending[p])).kind # "Receiving"
          BY <2>a, HeadTailProperties, ConstructorsTyped, Zenon
        <5> QED BY <2>a, <3>1, <5>1, <5>2, Zenon DEF ReceiveAvailable
      <4> QED BY <2>a, <2>c, <3>1, <4>1, Zenon DEF ReceiveAvailable
    <3>2. ASSUME NEW ok \in PtrOutcomes, ReceiveIrq(p, src, ok) PROVE Goal
      <4>1. PICK i \in 1..Len(irqPending[p]) :
              irqPending' = [irqPending EXCEPT ![p] = RemoveAt(@, i)]
        BY <3>2, ZenonT(30) DEF ReceiveIrq
      <4>2. ipc' = ipc /\ senders' = senders
        BY <3>2, Zenon DEF ReceiveIrq
      <4>3. CASE x = p
        BY <2>a, <2>b, <4>1, <4>2, <4>3, NoMatchIrqs, Zenon DEF Goal
      <4> QED BY <2>a, <2>c, <4>1, <4>2, <4>3, Zenon
    <3>3. ASSUME NEW ok \in PtrOutcomes, ReceiveFromSender(p, src, ok) PROVE Goal
      <4>1. PICK i \in 1..Len(senders[p]) :
              /\ senders' = [senders EXCEPT ![p] = RemoveAt(@, i)]
              /\ TakeMessageOf(p, senders[p][i], src, ok)
        BY <3>3, ZenonT(30) DEF ReceiveFromSender
      <4>2. ipc'[x] = ipc[x] /\ irqPending' = irqPending
        <5>1. ReceivingReply(p).kind # "Receiving" /\ SendDone.kind # "Receiving"
          BY ConstructorsTyped, ZenonT(30)
        <5>2. \/ ipc' = ipc
              \/ ipc' = [ipc EXCEPT ![senders[p][i]] = ReceivingReply(p)]
              \/ ipc' = [ipc EXCEPT ![senders[p][i]] = SendDone]
          BY <4>1, Zenon DEF TakeMessageOf
        <5> QED BY <2>a, <3>3, <5>1, <5>2, ZenonT(30) DEF ReceiveFromSender
      <4>3. CASE x = p
        BY <2>a, <2>b, <4>1, <4>2, <4>3, NoMatchQueue, Zenon DEF Goal
      <4> QED BY <2>a, <2>c, <4>1, <4>2, <4>3, Zenon
    <3>4. CASE ReceiveBlock(p, src)
      <4>1. src \in Procs \cup {Any, Hardware}
        BY ConstantsAssumption, Zenon
      <4>2. CASE x = p
        <5>1. ipc'[x].peer = src
          BY <2>a, <3>4, <4>1, <4>2, ConstructorsTyped, Zenon DEF ReceiveBlock
        <5> QED BY <3>4, <4>2, <5>1, Zenon DEF ReceiveBlock, Goal, IrqSources
      <4> QED BY <2>a, <2>c, <3>4, <4>2, Zenon DEF ReceiveBlock
    <3> QED BY <2>3, <3>1, <3>2, <3>3, <3>4, Zenon DEF SysIpcReceive
  <2>4. ASSUME NEW p \in Drivers, NEW q \in IrqPids, SysIrqRegister(p, q) PROVE Goal
    BY <2>c, <2>4, ZenonT(30) DEF SysIrqRegister, kernelVars
  <2>5. ASSUME NEW p \in Drivers, NEW h \in Harts, SysIrqEnable(p, h) PROVE Goal
    BY <2>c, <2>5, Zenon DEF SysIrqEnable, kernelVars
  <2>6. ASSUME NEW h \in Harts, ExternalInterrupt(h) PROVE Goal
    <3> DEFINE m == [source |-> Hardware, n |-> irqs + 1]
    <3>1. irqOwner \in Procs /\ senders' = senders
      BY <2>6, ZenonT(30) DEF ExternalInterrupt, TypeOK
    <3>2. m \in Messages /\ KernelSendMsg(irqOwner, m)
      BY <2>6, InterruptMessage, ZenonT(30) DEF ExternalInterrupt
    <3>3. MsgAvailable(m).kind # "Receiving"
      BY <3>2, ConstructorsTyped, Zenon
    <3> HIDE DEF m
    <3>4. ipc'[x] = ipc[x]
      BY <2>a, <3>1, <3>2, <3>3, Zenon DEF KernelSendMsg
    <3>5. CASE irqPending'[x] = irqPending[x]
      BY <2>c, <3>1, <3>4, <3>5, Zenon
    <3>6. CASE irqPending'[x] # irqPending[x]
      <4>1. /\ x = irqOwner /\ ~Matches(ipc[x].peer, m.source)
            /\ irqPending'[x] = Append(irqPending[x], m)
        BY <2>a, <3>1, <3>2, <3>4, <3>6, Zenon DEF KernelSendMsg, TargetAccepts
      <4> QED BY <2>a, <2>b, <3>1, <3>2, <3>4, <4>1, NoMatchIrqs, ZenonT(30) DEF Goal
    <3> QED BY <3>5, <3>6, Zenon
  <2>7. ASSUME NEW p \in Procs, BecomeZombie(p), ipc' = ipc, irqPending' = irqPending
        PROVE  Goal
    <3>1. senders'[x] = senders[x] \/ senders'[x] = <<>>
      BY <2>a, <2>7, Zenon DEF BecomeZombie
    <3>2. ASSUME senders'[x] = <<>> PROVE Goal
      <4>1. Len(senders'[x]) = 0
        BY <3>2
      <4>2. NoMatch(ipc'[x].peer, senders'[x])
        BY <4>1 DEF NoMatch
      <4> QED BY <2>b, <2>7, <4>2, Zenon DEF Goal
    <3> QED BY <2>c, <2>7, <3>1, <3>2, Zenon
  <2>8. ASSUME NEW p \in Mortal, SysExit(p) PROVE Goal
    <3>1. p \in Procs
      BY ConstantsAssumption, Zenon
    <3> QED BY <2>7, <2>8, <3>1, Zenon DEF SysExit
  <2>9. ASSUME NEW p \in Killable, Kill(p) PROVE Goal
    <3>1. p \in Procs
      BY ConstantsAssumption, Zenon
    <3> QED BY <2>7, <2>9, <3>1, Zenon DEF Kill
  <2>10. ASSUME NEW p \in Signalled, WakeWithEintr(p) PROVE Goal
    <3>1. ipc'[x] = ipc[x] /\ irqPending' = irqPending
      BY <2>a, <2>10, ConstructorsTyped, Zenon DEF WakeWithEintr
    <3>2. \/ senders'[x] = senders[x]
          \/ \E i \in 1..Len(senders[x]) : senders'[x] = RemoveAt(senders[x], i)
      <4>1. senders'[x] = senders[x] \/ senders'[x] = Retain(senders[x], p)
        BY <2>a, <2>10, Zenon DEF WakeWithEintr
      <4>2. CASE \E i \in 1..Len(senders[x]) : senders[x][i] = p
        <5> DEFINE i == CHOOSE i \in 1..Len(senders[x]) : senders[x][i] = p
        <5>1. i \in 1..Len(senders[x])
          BY <4>2, Zenon
        <5>2. Retain(senders[x], p) = RemoveAt(senders[x], i)
          BY <4>2, Zenon DEF Retain
        <5> HIDE DEF i
        <5> QED BY <4>1, <5>1, <5>2, ZenonT(30)
      <4> QED BY <4>1, <4>2, Zenon DEF Retain
    <3>3. NoMatch(ipc'[x].peer, senders[x]) /\ NoMatch(ipc'[x].peer, SourcesOf(irqPending[x]))
      BY <2>b, <3>1, Zenon
    <3>4. ASSUME NEW i \in 1..Len(senders[x]), senders'[x] = RemoveAt(senders[x], i)
          PROVE  Goal
      <4>1. senders[x] \in Seq(Procs)
        BY <2>a, Zenon
      <4>2. NoMatch(ipc'[x].peer, RemoveAt(senders[x], i))
        BY <3>3, <4>1, NoMatchQueue, ZenonT(30)
      <4> QED BY <3>1, <3>3, <3>4, <4>2, Zenon DEF Goal
    <3> QED BY <2>c, <3>1, <3>2, <3>4, Zenon
  <2>11. ASSUME NEW p \in Procs, NEW w \in Procs, ExitRelease(p, w) PROVE Goal
    <3>1. ipc'[x] = ipc[x]
      <4>1. IpcNone.kind # "Receiving"
        BY ConstructorsTyped, Zenon
      <4> QED BY <2>a, <2>11, <4>1, Zenon DEF ExitRelease
    <3> QED BY <2>c, <2>11, <3>1, Zenon DEF ExitRelease
  <2>12. ASSUME NEW p \in Procs, ExitScan(p) \/ ExitIrq(p) \/ StaleCall(p) PROVE Goal
    BY <2>c, <2>12, ZenonT(30) DEF ExitScan, ExitIrq, StaleCall, kernelVars
  <2>13. ASSUME NEW p \in Procs, Dispatch(p) \/ Discard(p) PROVE Goal
    BY <2>c, <2>13, Zenon DEF Dispatch, Discard
  <2>14. ASSUME NEW p \in Procs, Reap(p) PROVE Goal
    <3>1. x # p
      BY <2>a, <2>14, ConstructorsTyped, Zenon DEF Reap
    <3> QED BY <2>a, <2>c, <2>14, <3>1, ZenonT(30) DEF Reap
  <2>15. ASSUME NEW pm \in PmServers, NEW p \in Procs, NEW c \in Procs,
                SysCloneProcess(pm, p, c) PROVE Goal
    <3>1. x # c
      BY <2>a, <2>15, Zenon DEF SysCloneProcess
    <3> QED BY <2>a, <2>c, <2>15, <3>1, Zenon DEF SysCloneProcess
  <2>16. ASSUME UNCHANGED vars PROVE Goal
    BY <2>c, <2>16, Zenon DEF vars, kernelVars
  <2>17. Goal
    BY <2>1, <2>2, <2>3, <2>4, <2>5, <2>6, <2>8, <2>9, <2>10, <2>11, <2>12,
       <2>13, <2>14, <2>15, <2>16, ZenonT(30) DEF Next
  <2> QED BY <2>17, Zenon DEF Goal
<1> QED BY <1>1, <1>2, TypeCorrect, PTL DEF Spec

-----------------------------------------------------------------------------
(* What a process is in the middle of, while no process is cloned *)

Blocked(p) == ipc[p].kind \in {"Sending", "Receiving", "ReceivingReply"}

\* The IPC state is the one the armed call has left or was woken with.  In
\* particular a call is only re-executed to pick up its result.
CallMatches(p) ==
  /\ call[p].op = "none" => call[p] = NoCall /\ ipc[p].kind \in {"None", "MessageAvailable"}
  /\ call[p].op = "send" => ipc[p].kind \in {"Sending", "SendComplete"}
  /\ call[p].op = "receive" => ipc[p].kind \in {"Receiving", "MessageAvailable"}
  /\ call[p].op = "sendrec" => ipc[p].kind \in {"Sending", "ReceivingReply", "MessageAvailable"}

\* What is blocked sending is the last message issued, by the armed call.
SendMatches(p) ==
  ipc[p].kind = "Sending" =>
    /\ ipc[p].msg = [source |-> p, n |-> sent[p]]
    /\ ipc[p].peer = call[p].peer
    /\ ipc[p].wantsReply <=> call[p].op = "sendrec"

\* A blocked process holds no token, and nobody holds two.  A process becomes
\* Stopped only by being cloned.
TokenMatches(p) ==
  /\ tokens[p] <= 1 /\ (Blocked(p) => tokens[p] = 0)
  /\ status[p] # "Stopped"

IrqsOnly(p) == \A i \in 1..Len(irqPending[p]) : irqPending[p][i].source = Hardware

CallInv == \A p \in Procs : CallMatches(p) /\ SendMatches(p) /\ TokenMatches(p) /\ IrqsOnly(p)

-----------------------------------------------------------------------------
(* The steps such a process takes *)

NewMsg(p) == [source |-> p, n |-> sent[p] + 1]

Issued(p) ==
  /\ CanRun(p) /\ call[p] = NoCall /\ ipc[p].kind \in {"None", "MessageAvailable"}
  /\ sent' = [sent EXCEPT ![p] = @ + 1]

\* A send that returns an error
Fails(p) ==
  /\ Issued(p)
  /\ UNCHANGED <<ipc, call, tokens, senders, irqPending, status, delivered, acked>>

\* A send that returns success after the receiver took the message
Completes(p, q) ==
  /\ CanRun(p) /\ call[p] = Call("send", q) /\ ipc[p].kind = "SendComplete"
  /\ ipc' = [ipc EXCEPT ![p] = IpcNone]
  /\ call' = [call EXCEPT ![p] = NoCall]
  /\ acked' = acked \cup {[msg |-> [source |-> p, n |-> sent[p]], to |-> q]}
  /\ UNCHANGED <<sent, tokens, senders, irqPending, status, delivered>>

\* A send to a process that waits for it
Deposits(p, q) ==
  /\ Issued(p) /\ p # q /\ InTable(q) /\ TargetAccepts(q, p, {"Receiving", "ReceivingReply"})
  /\ ipc' = [ipc EXCEPT ![q] = MsgAvailable(NewMsg(p))]
  /\ tokens' = [tokens EXCEPT ![q] = @ + 1]
  /\ acked' = acked \cup {[msg |-> NewMsg(p), to |-> q]}
  /\ UNCHANGED <<call, senders, irqPending, status, delivered>>

\* A sendrec to a process that waits for it
DepositsAndWaits(p, q) ==
  /\ Issued(p) /\ p # q /\ InTable(q) /\ TargetAccepts(q, p, {"Receiving"})
  /\ ipc' = [ipc EXCEPT ![q] = MsgAvailable(NewMsg(p)), ![p] = ReceivingReply(q)]
  /\ tokens' = [tokens EXCEPT ![q] = @ + 1, ![p] = @ - 1]
  /\ call' = [call EXCEPT ![p] = Call("sendrec", q)]
  /\ UNCHANGED <<senders, irqPending, status, delivered, acked>>

\* A send or sendrec to a process that does not
QueuesUp(p, q, op) ==
  /\ Issued(p) /\ p # q /\ InTable(q) /\ op \in {"send", "sendrec"}
  /\ ipc' = [ipc EXCEPT ![p] = Sending(q, NewMsg(p), op = "sendrec")]
  /\ senders' = [senders EXCEPT ![q] = Append(@, p)]
  /\ tokens' = [tokens EXCEPT ![p] = @ - 1]
  /\ call' = [call EXCEPT ![p] = Call(op, q)]
  /\ UNCHANGED <<irqPending, status, delivered, acked>>

\* A sendrec that returns what was deposited
TakesReply(p, q) ==
  /\ CanRun(p) /\ ipc[p].kind = "MessageAvailable"
  /\ \/ call[p] = NoCall /\ sent' = [sent EXCEPT ![p] = @ + 1]
     \/ call[p] = Call("sendrec", q) /\ sent' = sent
  /\ Copy(p, ipc[p].msg, "sendrec", q)
  /\ ipc' = [ipc EXCEPT ![p] = IpcNone]
  /\ call' = [call EXCEPT ![p] = NoCall]
  /\ UNCHANGED <<tokens, senders, irqPending, status, acked>>

\* The calls that find something to receive
TakesDeposit(p, src, ok) ==
  /\ CanRun(p) /\ call[p] \in {NoCall, Call("receive", src)}
  /\ ReceiveAvailable(p, src, ok)
  /\ UNCHANGED <<sent, acked>>

Idle(p) == CanRun(p) /\ call[p] = NoCall /\ ipc[p].kind = "None"

TakesIrq(p, src, ok) ==
  /\ Idle(p) /\ ReceiveIrq(p, src, ok) /\ UNCHANGED <<call, sent, acked>>

TakesSender(p, src, ok) ==
  /\ Idle(p) /\ ReceiveFromSender(p, src, ok) /\ UNCHANGED <<call, sent, acked>>

Waits(p, src) ==
  /\ Idle(p) /\ ReceiveBlock(p, src) /\ UNCHANGED <<sent, acked>>

Interrupted ==
  /\ irqOwner \in Procs
  /\ \E m \in Messages : m.source = Hardware /\ KernelSendMsg(irqOwner, m)
  /\ UNCHANGED <<senders, status, call, exiting, sent, delivered, acked>>

\* exit(), reaping and the scheduler
Dies(p) ==
  /\ p \in Mortal \cup Killable
  /\ status' = [status EXCEPT ![p] = "Zombie"]
  /\ senders' = [senders EXCEPT ![p] = <<>>]
  /\ tokens' = tokens \/ (tokens[p] > 0 /\ tokens' = [tokens EXCEPT ![p] = @ - 1])
  /\ UNCHANGED <<ipc, irqPending, call, sent, delivered, acked>>

Released(p, w) ==
  /\ w \in exiting[p].todo
  /\ ipc' = [ipc EXCEPT ![w] = IpcNone]
  /\ call' = [call EXCEPT ![w] = NoCall]
  /\ UNCHANGED <<senders, irqPending, status, tokens, sent, delivered, acked>>

Still == UNCHANGED <<ipc, call, tokens, senders, irqPending, status, sent, delivered, acked>>

OtherStep ==
  \/ \E p \in Procs : Fails(p) \/ Dies(p) \/ Reap(p) \/ Discard(p)
  \/ \E p, q \in Procs :
       \/ Completes(p, q) \/ Deposits(p, q) \/ DepositsAndWaits(p, q) \/ TakesReply(p, q)
       \/ Released(p, q)
       \/ \E op \in {"send", "sendrec"} : QueuesUp(p, q, op)
  \/ \E p \in Procs, src \in Sources :
       \/ Waits(p, src)
       \/ \E ok \in PtrOutcomes :
            TakesDeposit(p, src, ok) \/ TakesIrq(p, src, ok)
  \/ Interrupted \/ Still

SomeStep ==
  OtherStep \/ \E p \in Procs, src \in Sources, ok \in PtrOutcomes : TakesSender(p, src, ok)

\* What a process that is on a hart can be re-executing.
LEMMA Running ==
  ASSUME TypeOK, CallInv, NEW p \in Procs, CanRun(p)
  PROVE  /\ ~Blocked(p) /\ tokens[p] = 1
         /\ call[p] = NoCall => ipc[p].kind \in {"None", "MessageAvailable"}
         /\ \A q : call[p] = Call("send", q) => ipc[p].kind = "SendComplete"
         /\ \A q : call[p] \in {Call("receive", q), Call("sendrec", q)} => ipc[p].kind = "MessageAvailable"
<1>1. tokens[p] = 1 /\ ~Blocked(p)
  BY DEF CallInv, TokenMatches, CanRun, TypeOK
<1>2. CallMatches(p)
  BY Zenon DEF CallInv
<1> QED BY <1>1, <1>2 DEF CallMatches, Blocked, NoCall, Call

\* A message is only issued by a new call.
LEMMA IssuesNew ==
  ASSUME TypeOK, CallInv, NEW p \in Procs, NEW q, NEW op \in {"send", "sendrec"},
         IssuesSend(p, op, q), sent' = NextSent(p)
  PROVE  /\ CanRun(p) /\ p # q
         /\ \/ Issued(p) /\ MsgOf(p) = NewMsg(p)
            \/ /\ call[p] = Call(op, q) /\ sent' = sent /\ MsgOf(p) = [source |-> p, n |-> sent[p]]
               /\ ipc[p].kind = IF op = "send" THEN "SendComplete" ELSE "MessageAvailable"
<1>1. CanRun(p) /\ p # q /\ (call[p] = NoCall \/ call[p] = Call(op, q))
  BY Zenon DEF IssuesSend, Issues
<1>2. CASE call[p] = NoCall
  <2>1. Issued(p)
    BY <1>1, <1>2, Running, Zenon DEF Issued, NextSent, Fresh
  <2> QED BY <1>1, <1>2, <2>1, Zenon DEF MsgOf, NewMsg, NextSent, Fresh, TypeOK
<1>3. CASE call[p] = Call(op, q)
  <2>1. call[p] # NoCall
    BY <1>3 DEF NoCall, Call
  <2> QED BY <1>1, <1>3, <2>1, Running DEF MsgOf, NextSent, Fresh
<1> QED BY <1>1, <1>2, <1>3, Zenon

\* Every step is one of these.
LEMMA Steps ==
  ASSUME TypeOK, CallInv, PmServers = {}, [Next]_vars
  PROVE  SomeStep
<1>t. /\ call \in [Procs -> Calls] /\ ipc \in [Procs -> IpcStates] /\ tokens \in [Procs -> Nat]
      /\ status \in [Procs -> Statuses] /\ \A p \in Procs : status[p] # "Stopped"
  BY Zenon DEF TypeOK, CallInv, TokenMatches
<1>r. ASSUME NEW p \in Procs, call[p] = NoCall, Return(p) PROVE call' = call
  BY <1>t, <1>r, Zenon DEF Return
<1>1. ASSUME NEW p \in Procs, NEW q \in Procs, SysIpcSend(p, q) PROVE SomeStep
  <2>1. /\ CanRun(p) /\ p # q
        /\ \/ Issued(p) /\ MsgOf(p) = NewMsg(p)
           \/ /\ call[p] = Call("send", q) /\ sent' = sent /\ MsgOf(p) = [source |-> p, n |-> sent[p]]
              /\ ipc[p].kind = "SendComplete"
    BY <1>1, IssuesNew, Zenon DEF SysIpcSend
  <2>2. CASE SendResume(p, q)
    <3>1. ~Issued(p)
      BY <2>2, Zenon DEF SendResume, Issued
    <3>2. Completes(p, q)
      BY <2>1, <2>2, <3>1, Zenon DEF SendResume, Completes, Return
    <3> QED BY <3>2, Zenon DEF SomeStep, OtherStep
  <2>3. ASSUME NEW ok \in PtrOutcomes, SendFails(p, q, ok) PROVE SomeStep
    <3>1. Issued(p)
      BY <2>1, <2>3, ZenonT(30) DEF SendFails
    <3>2. Fails(p)
      BY <1>r, <2>3, <3>1, Zenon DEF SendFails, Fails, Issued
    <3> QED BY <3>2, Zenon DEF SomeStep, OtherStep
  <2>4. ASSUME NEW ok \in PtrOutcomes, SendDeliver(p, q, ok) PROVE SomeStep
    <3>1. Issued(p) /\ MsgOf(p) = NewMsg(p)
      BY <2>1, <2>4, ZenonT(30) DEF SendDeliver
    <3>2. call' = call
      BY <1>r, <2>4, <3>1, Zenon DEF SendDeliver, Issued
    <3>3. Deposits(p, q)
      BY <2>1, <2>4, <3>1, <3>2, Zenon DEF SendDeliver, Deposits, Enqueue
    <3> QED BY <3>3, Zenon DEF SomeStep, OtherStep
  <2>5. ASSUME NEW ok \in PtrOutcomes, SendBlock(p, q, ok) PROVE SomeStep
    <3>1. Issued(p) /\ MsgOf(p) = NewMsg(p)
      BY <2>1, <2>5, Zenon DEF SendBlock
    <3>2. ipc' = [ipc EXCEPT ![p] = Sending(q, NewMsg(p), "send" = "sendrec")]
      BY <2>5, <3>1, Zenon DEF SendBlock
    <3>3. QueuesUp(p, q, "send")
      BY <2>1, <2>5, <3>1, <3>2, Zenon DEF SendBlock, QueuesUp, Park
    <3> QED BY <3>3, Zenon DEF SomeStep, OtherStep
  <2> QED BY <1>1, <2>2, <2>3, <2>4, <2>5, Zenon DEF SysIpcSend
<1>2. ASSUME NEW p \in Procs, NEW q \in Procs, SysIpcSendrec(p, q) PROVE SomeStep
  <2>1. /\ CanRun(p) /\ p # q
        /\ \/ Issued(p) /\ MsgOf(p) = NewMsg(p)
           \/ /\ call[p] = Call("sendrec", q) /\ sent' = sent /\ MsgOf(p) = [source |-> p, n |-> sent[p]]
              /\ ipc[p].kind = "MessageAvailable"
    BY <1>2, IssuesNew, Zenon DEF SysIpcSendrec
  <2>a. acked' = acked
    BY <1>2, Zenon DEF SysIpcSendrec
  <2>2. CASE SendrecContinue(p, q)
    <3>1. ipc[p].kind = "MessageAvailable"
      BY <2>1, <2>2, Zenon DEF SendrecContinue, Issued
    <3>2. TakesReply(p, q)
      BY <2>1, <2>2, <2>a, <3>1, Zenon DEF SendrecContinue, TakesReply, Return, Issued
    <3> QED BY <3>2, Zenon DEF SomeStep, OtherStep
  <2>3. CASE SendrecFails(p, q)
    <3>1. Issued(p)
      BY <2>1, <2>3, ZenonT(30) DEF SendrecFails
    <3>2. Fails(p)
      BY <1>r, <2>3, <2>a, <3>1, ZenonT(30) DEF SendrecFails, Fails, Issued
    <3> QED BY <3>2, Zenon DEF SomeStep, OtherStep
  <2>4. CASE SendrecDeliver(p, q)
    <3>1. Issued(p) /\ MsgOf(p) = NewMsg(p)
      BY <2>1, <2>4, Zenon DEF SendrecDeliver
    <3>2. DepositsAndWaits(p, q)
      BY <2>1, <2>4, <2>a, <3>1, Zenon DEF SendrecDeliver, DepositsAndWaits
    <3> QED BY <3>2, Zenon DEF SomeStep, OtherStep
  <2>5. CASE SendrecBlock(p, q)
    <3>1. Issued(p) /\ MsgOf(p) = NewMsg(p)
      BY <2>1, <2>5, Zenon DEF SendrecBlock
    <3>2. ipc' = [ipc EXCEPT ![p] = Sending(q, NewMsg(p), "sendrec" = "sendrec")]
      BY <2>5, <3>1, Zenon DEF SendrecBlock
    <3>3. QueuesUp(p, q, "sendrec")
      BY <2>1, <2>5, <2>a, <3>1, <3>2, ZenonT(30) DEF SendrecBlock, QueuesUp, Park
    <3> QED BY <3>3, Zenon DEF SomeStep, OtherStep
  <2> QED BY <1>2, <2>2, <2>3, <2>4, <2>5, Zenon DEF SysIpcSendrec
<1>3. ASSUME NEW p \in Procs, NEW src \in Sources, SysIpcReceive(p, src) PROVE SomeStep
  <2>1. CanRun(p) /\ (call[p] = NoCall \/ call[p] = Call("receive", src)) /\ UNCHANGED <<sent, acked>>
    BY <1>3, Zenon DEF SysIpcReceive, Issues
  <2>2. ipc[p].kind # "MessageAvailable" => Idle(p)
    BY <2>1, Running DEF Idle
  <2>3. ASSUME NEW ok \in PtrOutcomes, ReceiveAvailable(p, src, ok) PROVE SomeStep
    <3>1. TakesDeposit(p, src, ok)
      BY <2>1, <2>3, Zenon DEF TakesDeposit
    <3> QED BY <3>1, Zenon DEF SomeStep, OtherStep
  <2>4. ASSUME NEW ok \in PtrOutcomes, ReceiveIrq(p, src, ok) PROVE SomeStep
    <3>1. Idle(p) /\ call' = call
      BY <1>r, <2>2, <2>4, Zenon DEF ReceiveIrq, Idle
    <3>2. TakesIrq(p, src, ok)
      BY <2>1, <2>4, <3>1, Zenon DEF TakesIrq
    <3> QED BY <3>2, Zenon DEF SomeStep, OtherStep
  <2>5. ASSUME NEW ok \in PtrOutcomes, ReceiveFromSender(p, src, ok) PROVE SomeStep
    <3>1. Idle(p) /\ call' = call
      BY <1>r, <2>2, <2>5, ZenonT(30) DEF ReceiveFromSender, Idle
    <3>2. TakesSender(p, src, ok)
      BY <2>1, <2>5, <3>1, Zenon DEF TakesSender
    <3> QED BY <3>2, Zenon DEF SomeStep, OtherStep
  <2>6. CASE ReceiveBlock(p, src)
    <3>1. Waits(p, src)
      BY <2>1, <2>2, <2>6, ZenonT(30) DEF ReceiveBlock, Waits
    <3> QED BY <3>1, Zenon DEF SomeStep, OtherStep
  <2> QED BY <1>3, <2>3, <2>4, <2>5, <2>6, Zenon DEF SysIpcReceive
<1>4. ASSUME NEW h \in Harts, ExternalInterrupt(h) PROVE SomeStep
  <2> DEFINE m == [source |-> Hardware, n |-> irqs + 1]
  <2>1. m \in Messages /\ m.source = Hardware /\ KernelSendMsg(irqOwner, m)
    BY <1>4, InterruptMessage, Zenon DEF ExternalInterrupt
  <2>2. irqOwner \in Procs /\ UNCHANGED <<senders, status, call, exiting, sent, delivered, acked>>
    BY <1>4, Zenon DEF ExternalInterrupt, TypeOK, exitVars, history
  <2> HIDE DEF m
  <2> QED BY <2>1, <2>2, Zenon DEF SomeStep, OtherStep, Interrupted
<1>5. ASSUME NEW p \in Mortal \cup Killable, SysExit(p) \/ Kill(p) PROVE SomeStep
  <2>1. Dies(p) /\ p \in Procs
    BY <1>5, ConstantsAssumption, Zenon DEF SysExit, Kill, BecomeZombie, Dies, CanRun, history
  <2> QED BY <2>1, Zenon DEF SomeStep, OtherStep
<1>6. ASSUME NEW p \in Procs, WakeWithEintr(p) \/ Dispatch(p) PROVE FALSE
  BY <1>t, <1>6, Zenon DEF WakeWithEintr, Dispatch
<1>7. ASSUME NEW p \in Procs, NEW w \in Procs, ExitRelease(p, w) PROVE SomeStep
  <2>1. CASE InTable(w)
    <3>1. Released(p, w)
      BY <1>t, <1>7, <2>1, Zenon DEF ExitRelease, Released, history
    <3> QED BY <3>1, Zenon DEF SomeStep, OtherStep
  <2>2. CASE ~InTable(w)
    BY <1>7, <2>2, Zenon DEF ExitRelease, SomeStep, OtherStep, Still, history
  <2> QED BY <2>1, <2>2, Zenon
<1>8. ASSUME NEW p \in Procs, ExitScan(p) \/ ExitIrq(p) \/ StaleCall(p) PROVE SomeStep
  BY <1>8, Zenon DEF ExitScan, ExitIrq, StaleCall, SomeStep, OtherStep, Still, kernelVars, history
<1>9. ASSUME NEW p \in Procs, Reap(p) \/ Discard(p) PROVE SomeStep
  BY <1>9, Zenon DEF SomeStep, OtherStep
<1>10. ASSUME NEW p \in Drivers, (\E q \in IrqPids : SysIrqRegister(p, q)) \/ \E h \in Harts : SysIrqEnable(p, h) PROVE SomeStep
  BY <1>10, Zenon DEF SysIrqRegister, SysIrqEnable, SomeStep, OtherStep, Still, kernelVars, history
<1>11. ASSUME UNCHANGED vars PROVE SomeStep
  BY <1>11, Zenon DEF vars, SomeStep, OtherStep, Still, kernelVars, history
<1> QED BY <1>1, <1>2, <1>3, <1>4, <1>5, <1>6, <1>7, <1>8, <1>9, <1>10, <1>11, ConstantsAssumption, Zenon DEF Next

-----------------------------------------------------------------------------
(* CallInv is an invariant *)

CallGood(p) == CallMatches(p) /\ SendMatches(p) /\ TokenMatches(p)

LEMMA NewMsgTyped ==
  ASSUME sent \in [Procs -> Nat]
  PROVE  \A p \in Procs : NewMsg(p) \in Messages
<1>1. \A p \in Procs : sent[p] + 1 \in Nat
  OBVIOUS
<1> QED BY <1>1, Zenon DEF NewMsg, Messages

\* Nothing to show for a process the step leaves alone.
LEMMA CallBystander ==
  ASSUME CallInv, NEW x \in Procs,
         ipc'[x] = ipc[x], call'[x] = call[x], tokens'[x] = tokens[x], sent'[x] = sent[x],
         status'[x] # "Stopped"
  PROVE  CallGood(x)'
BY ZenonT(30) DEF CallInv, CallGood, CallMatches, SendMatches, TokenMatches, Blocked

\* Nor for one that only gives up a token.
LEMMA DropsToken ==
  ASSUME CallInv, NEW x \in Procs, tokens[x] \in Nat, tokens[x] > 0,
         ipc'[x] = ipc[x], call'[x] = call[x], tokens'[x] = tokens[x] - 1, sent'[x] = sent[x],
         status'[x] # "Stopped"
  PROVE  CallGood(x)'
<1>1. CallMatches(x) /\ SendMatches(x) /\ ~Blocked(x) /\ tokens'[x] <= 1
  BY DEF CallInv, TokenMatches
<1> QED BY <1>1, Zenon DEF CallGood, CallMatches, SendMatches, TokenMatches, Blocked

\* A call returns, fails or is broken off.
LEMMA CallEnds ==
  ASSUME NEW x \in Procs, call'[x] = NoCall, ipc'[x].kind \in {"None", "MessageAvailable"},
         tokens'[x] <= 1, status'[x] # "Stopped"
  PROVE  CallGood(x)'
<1>1. call'[x].op = "none"
  BY DEF NoCall
<1> QED BY <1>1, ZenonT(30) DEF CallGood, CallMatches, SendMatches, TokenMatches, Blocked

\* A message is deposited with a receiver.
LEMMA CallWoken ==
  ASSUME CallInv, NEW x \in Procs, ipc[x].kind \in {"Receiving", "ReceivingReply"},
         call'[x] = call[x], ipc'[x].kind = "MessageAvailable",
         tokens'[x] = tokens[x] + 1, status'[x] # "Stopped"
  PROVE  CallGood(x)'
<1>1. CallMatches(x) /\ tokens[x] = 0
  BY ZenonT(30) DEF CallInv, TokenMatches, Blocked
<1>2. tokens'[x] <= 1
  BY <1>1
<1> QED BY <1>1, <1>2, ZenonT(30) DEF CallGood, CallMatches, SendMatches, TokenMatches, Blocked

\* A call waits to be sent something.
LEMMA CallWaits ==
  ASSUME NEW x \in Procs,
         \/ call'[x].op = "receive" /\ ipc'[x].kind = "Receiving"
         \/ call'[x].op = "sendrec" /\ ipc'[x].kind = "ReceivingReply",
         tokens'[x] = 0, status'[x] # "Stopped"
  PROVE  CallGood(x)'
BY DEF CallGood, CallMatches, SendMatches, TokenMatches, Blocked

\* A call waits to be rid of its message.
LEMMA CallSends ==
  ASSUME NEW x \in Procs, ipc'[x].kind = "Sending", ipc'[x].msg = [source |-> x, n |-> sent'[x]],
         ipc'[x].peer = call'[x].peer, call'[x].op \in {"send", "sendrec"},
         ipc'[x].wantsReply = (call'[x].op = "sendrec"), tokens'[x] = 0, status'[x] # "Stopped"
  PROVE  CallGood(x)'
<1>1. CallMatches(x)'
  BY Zenon DEF CallMatches
<1>2. SendMatches(x)'
  BY ZenonT(30) DEF SendMatches
<1>3. TokenMatches(x)'
  BY DEF TokenMatches, Blocked
<1> QED BY <1>1, <1>2, <1>3, ZenonT(30) DEF CallGood

\* The steps of the IPC calls.
LEMMA CallStep ==
  ASSUME TypeOK, CallInv, SomeStep, NEW x \in Procs
  PROVE  CallGood(x)'
<1>t. /\ call \in [Procs -> Calls] /\ ipc \in [Procs -> IpcStates] /\ tokens \in [Procs -> Nat]
      /\ status \in [Procs -> Statuses] /\ sent \in [Procs -> Nat]
      /\ \A p \in Procs : status[p] # "Stopped"
  BY Zenon DEF TypeOK, CallInv, TokenMatches
<1>g. \A p \in Procs : tokens[p] \in Nat /\ tokens[p] <= 1
  BY <1>t, Zenon DEF CallInv, TokenMatches
<1>k. IpcNone.kind = "None" /\ NoCall.op = "none" /\ (\A m \in Messages : MsgAvailable(m).kind = "MessageAvailable")
  BY ConstructorsTyped, Zenon DEF NoCall
<1>n. \A p \in Procs : NewMsg(p) \in Messages
  BY <1>t, NewMsgTyped, ZenonT(30)
<1>1. ASSUME NEW p \in Procs, Fails(p) PROVE CallGood(x)'
  <2>1. CASE x = p
    BY <1>t, <1>g, <1>1, <2>1, CallEnds, Zenon DEF Fails, Issued
  <2> QED BY <1>t, <1>1, <2>1, CallBystander, Zenon DEF Fails, Issued
<1>2. ASSUME NEW p \in Procs, NEW q \in Procs, Completes(p, q) PROVE CallGood(x)'
  <2>1. CASE x = p
    <3>1. ipc'[p] = IpcNone /\ call'[p] = NoCall /\ tokens'[p] = tokens[p] /\ status'[p] = status[p]
      BY <1>t, <1>2, Zenon DEF Completes
    <3> QED BY <1>t, <1>g, <1>k, <2>1, <3>1, CallEnds, ZenonT(30)
  <2> QED BY <1>t, <1>2, <2>1, CallBystander, ZenonT(30) DEF Completes
<1>3. ASSUME NEW p \in Procs, NEW q \in Procs, Deposits(p, q) PROVE CallGood(x)'
  <2>1. CASE x = q
    <3>1. /\ ipc'[q].kind = "MessageAvailable" /\ call'[q] = call[q] /\ tokens'[q] = tokens[q] + 1
          /\ status'[q] = status[q] /\ ipc[q].kind \in {"Receiving", "ReceivingReply"}
      BY <1>t, <1>n, <1>3, ConstructorsTyped, ZenonT(30) DEF Deposits, TargetAccepts
    <3> QED BY <1>t, <2>1, <3>1, CallWoken, ZenonT(30)
  <2>2. CASE x = p
    <3>1. /\ ipc'[p] = ipc[p] /\ call'[p] = NoCall /\ tokens'[p] = tokens[p] /\ status'[p] = status[p]
          /\ ipc[p].kind \in {"None", "MessageAvailable"}
      BY <1>t, <1>3, Zenon DEF Deposits, Issued
    <3> QED BY <1>t, <1>g, <2>2, <3>1, CallEnds, ZenonT(30)
  <2> QED BY <1>t, <1>3, <2>1, <2>2, CallBystander, Zenon DEF Deposits, Issued
<1>4. ASSUME NEW p \in Procs, NEW q \in Procs, DepositsAndWaits(p, q) PROVE CallGood(x)'
  <2>1. CASE x = q
    <3>1. /\ ipc'[q].kind = "MessageAvailable" /\ call'[q] = call[q] /\ tokens'[q] = tokens[q] + 1
          /\ status'[q] = status[q] /\ ipc[q].kind = "Receiving"
      BY <1>t, <1>n, <1>4, ConstructorsTyped, Zenon DEF DepositsAndWaits, TargetAccepts
    <3> QED BY <1>t, <2>1, <3>1, CallWoken, ZenonT(30)
  <2>2. CASE x = p
    <3>1. /\ ipc'[p].kind = "ReceivingReply" /\ call'[p] = Call("sendrec", q)
          /\ tokens'[p] = tokens[p] - 1 /\ status'[p] = status[p] /\ tokens[p] > 0
      BY <1>t, <1>4, ConstructorsTyped, ZenonT(30) DEF DepositsAndWaits, Issued, CanRun
    <3> QED BY <1>t, <1>g, <2>2, <3>1, CallWaits DEF Call
  <2> QED BY <1>t, <1>4, <2>1, <2>2, CallBystander, Zenon DEF DepositsAndWaits, Issued
<1>5. ASSUME NEW p \in Procs, NEW q \in Procs, NEW op \in {"send", "sendrec"}, QueuesUp(p, q, op)
      PROVE  CallGood(x)'
  <2>1. CASE x = p
    <3>1. /\ ipc'[p] = Sending(q, NewMsg(p), op = "sendrec") /\ call'[p] = Call(op, q)
          /\ tokens'[p] = tokens[p] - 1 /\ status'[p] = status[p] /\ tokens[p] > 0
          /\ sent'[p] = sent[p] + 1
      BY <1>t, <1>5, Zenon DEF QueuesUp, Issued, CanRun
    <3>2. /\ ipc'[p].kind = "Sending" /\ ipc'[p].peer = q /\ ipc'[p].wantsReply = (op = "sendrec")
          /\ ipc'[p].msg = [source |-> p, n |-> sent'[p]]
          /\ call'[p].op = op /\ call'[p].peer = q /\ tokens'[p] = 0 /\ status'[p] # "Stopped"
      BY <1>t, <1>g, <3>1 DEF Sending, NewMsg, Call
    <3> QED BY <2>1, <3>2, CallSends, ZenonT(30)
  <2> QED BY <1>t, <1>5, <2>1, CallBystander, Zenon DEF QueuesUp, Issued
<1>6. ASSUME NEW p \in Procs, NEW q \in Procs, TakesReply(p, q) PROVE CallGood(x)'
  <2>1. CASE x = p
    <3>1. ipc'[p] = IpcNone /\ call'[p] = NoCall /\ tokens'[p] = tokens[p] /\ status'[p] = status[p]
      BY <1>t, <1>6, Zenon DEF TakesReply
    <3> QED BY <1>t, <1>g, <1>k, <2>1, <3>1, CallEnds, Zenon
  <2> QED BY <1>t, <1>6, <2>1, CallBystander, Zenon DEF TakesReply
<1>7. ASSUME NEW p \in Procs, NEW src \in Sources, NEW ok \in PtrOutcomes, TakesDeposit(p, src, ok)
      PROVE  CallGood(x)'
  <2>1. CASE x = p
    <3>1. irqPending[p] # <<>> => MsgAvailable(Head(irqPending[p])).kind = "MessageAvailable"
      BY ConstructorsTyped, HeadTailProperties, ZenonT(30) DEF TypeOK
    <3>2. /\ ipc'[p].kind \in {"None", "MessageAvailable"} /\ call'[p] = NoCall
          /\ tokens'[p] = tokens[p] /\ status'[p] = status[p]
      BY <1>t, <1>7, <3>1, ConstructorsTyped, ZenonT(30) DEF TakesDeposit, ReceiveAvailable, Return
    <3> QED BY <1>t, <1>g, <2>1, <3>2, CallEnds, Zenon
  <2>2. CASE x # p
    <3>1. ipc'[x] = ipc[x] /\ call'[x] = call[x] /\ UNCHANGED <<tokens, sent, status>>
      BY <1>t, <1>7, <2>2, Zenon DEF TakesDeposit, ReceiveAvailable, Return
    <3> QED BY <1>t, <3>1, CallBystander, ZenonT(30)
  <2> QED BY <2>1, <2>2, Zenon
<1>8. ASSUME NEW p \in Procs, NEW src \in Sources, NEW ok \in PtrOutcomes, TakesIrq(p, src, ok)
      PROVE  CallGood(x)'
  BY <1>t, <1>8, CallBystander, Zenon DEF TakesIrq, ReceiveIrq
<1>9. ASSUME NEW p \in Procs, NEW src \in Sources, NEW ok \in PtrOutcomes, TakesSender(p, src, ok)
      PROVE  CallGood(x)'
  <2>1. PICK i \in 1..Len(senders[p]) : TakeMessageOf(p, senders[p][i], src, ok)
    BY <1>9, ZenonT(30) DEF TakesSender, ReceiveFromSender
  <2>2. UNCHANGED <<call, sent, status>>
    BY <1>9, ZenonT(30) DEF TakesSender, ReceiveFromSender
  <2>3. senders[p][i] \in Procs
    BY ElementOfSeq, ZenonT(30) DEF TypeOK
  <2>4. PICK s \in Procs : s = senders[p][i]
    BY <2>3, ZenonT(30)
  <2>5. CASE x = s /\ ~(ipc'[s] = ipc[s] /\ tokens'[s] = tokens[s])
    <3>1. /\ ipc[s].kind = "Sending"
          /\ \/ ~ipc[s].wantsReply /\ ipc'[s] = SendDone /\ tokens'[s] = tokens[s] + 1
             \/ ipc[s].wantsReply /\ ipc'[s] = ReceivingReply(p) /\ tokens'[s] = tokens[s]
      BY <1>t, <2>1, <2>4, <2>5, ZenonT(30) DEF TakeMessageOf, Enqueue
    <3>2. CallMatches(s) /\ SendMatches(s) /\ TokenMatches(s) /\ call[s] \in Calls
      BY <1>t, Zenon DEF CallInv
    <3>3. call[s].op \in {"send", "sendrec"}
      BY <3>1, <3>2, ZenonT(30) DEF CallMatches, Calls
    <3>4. ReceivingReply(p).kind = "ReceivingReply" /\ SendDone.kind = "SendComplete"
      BY ConstructorsTyped, Zenon
    <3>5. status'[s] # "Stopped" /\ call'[s] = call[s]
      BY <1>t, <2>2, Zenon
    <3> QED BY <2>5, <3>1, <3>2, <3>3, <3>4, <3>5
            DEF CallGood, CallMatches, SendMatches, TokenMatches, Blocked
  <2>6. CASE ~(x = s /\ ~(ipc'[s] = ipc[s] /\ tokens'[s] = tokens[s]))
    <3>1. ipc'[x] = ipc[x] /\ tokens'[x] = tokens[x]
      BY <1>t, <2>1, <2>4, <2>6, ZenonT(30) DEF TakeMessageOf, Enqueue
    <3> QED BY <1>t, <2>2, <3>1, CallBystander, ZenonT(30)
  <2> QED BY <2>5, <2>6, Zenon
<1>10. ASSUME NEW p \in Procs, NEW src \in Sources, Waits(p, src) PROVE CallGood(x)'
  <2>1. CASE x = p
    <3>1. /\ ipc'[p].kind = "Receiving" /\ call'[p] = Call("receive", src)
          /\ tokens'[p] = tokens[p] - 1 /\ status'[p] = status[p] /\ tokens[p] > 0
      BY <1>t, <1>10, ConstantsAssumption, ConstructorsTyped DEF Waits, Idle, ReceiveBlock, Park, CanRun
    <3> QED BY <1>t, <1>g, <2>1, <3>1, CallWaits DEF Call
  <2> QED BY <1>t, <1>10, <2>1, CallBystander, Zenon DEF Waits, ReceiveBlock, Park
<1>11. ASSUME Interrupted PROVE CallGood(x)'
  <2>1. PICK m \in Messages : KernelSendMsg(irqOwner, m)
    BY <1>11, Zenon DEF Interrupted
  <2>2. irqOwner \in Procs /\ UNCHANGED <<status, call, sent>>
    BY <1>11, Zenon DEF Interrupted
  <2>3. CASE x = irqOwner /\ ipc'[x] # ipc[x]
    <3>1. /\ ipc'[x].kind = "MessageAvailable"
          /\ \/ ipc[x].kind = "Receiving" /\ tokens'[x] = tokens[x] + 1
             \/ ipc[x].kind = "None" /\ tokens'[x] = tokens[x]
      BY <1>t, <2>1, <2>3, ConstructorsTyped DEF KernelSendMsg, TargetAccepts, Enqueue
    <3>2. CASE ipc[x].kind = "Receiving"
      BY <1>t, <2>2, <3>1, <3>2, CallWoken, Zenon
    <3>3. CASE ipc[x].kind = "None"
      <4>1. CallMatches(x) /\ call[x] \in Calls
        BY <1>t, Zenon DEF CallInv
      <4>2. call[x] = NoCall
        BY <3>3, <4>1, Zenon DEF CallMatches, Calls
      <4> QED BY <1>t, <1>g, <2>2, <3>1, <3>3, <4>2, CallEnds, ZenonT(30)
    <3> QED BY <3>1, <3>2, <3>3, Zenon
  <2>4. CASE ~(x = irqOwner /\ ipc'[x] # ipc[x])
    <3>0. MsgAvailable(m).kind = "MessageAvailable"
      BY ConstructorsTyped, Zenon
    <3>1. ipc'[x] = ipc[x] /\ tokens'[x] = tokens[x]
      BY <1>t, <2>1, <2>2, <2>4, <3>0, Zenon DEF KernelSendMsg, TargetAccepts, Enqueue
    <3> QED BY <1>t, <2>2, <3>1, CallBystander, Zenon
  <2> QED BY <2>3, <2>4, Zenon
<1>12. ASSUME NEW p \in Procs, Dies(p) PROVE CallGood(x)'
  <2>1. CASE tokens' = tokens \/ x # p
    BY <1>t, <1>12, <2>1, CallBystander, Zenon DEF Dies
  <2>2. CASE tokens' = [tokens EXCEPT ![p] = @ - 1] /\ x = p
    BY <1>t, <1>12, <2>2, DropsToken DEF Dies
  <2> QED BY <1>12, <2>1, <2>2, Zenon DEF Dies
<1>13. ASSUME NEW p \in Procs, NEW w \in Procs, Released(p, w) PROVE CallGood(x)'
  <2>1. CASE x = w
    BY <1>t, <1>g, <1>k, <1>13, <2>1, CallEnds, ZenonT(30) DEF Released
  <2> QED BY <1>t, <1>13, <2>1, CallBystander, ZenonT(30) DEF Released
<1>14. ASSUME NEW p \in Procs, Reap(p) PROVE CallGood(x)'
  <2>1. CASE x = p
    BY <1>t, <1>g, <1>k, <1>14, <2>1, CallEnds, Zenon DEF Reap
  <2> QED BY <1>t, <1>14, <2>1, CallBystander, Zenon DEF Reap, history
<1>15. ASSUME NEW p \in Procs, Discard(p) PROVE CallGood(x)'
  <2>1. CASE x = p
    BY <1>t, <1>15, <2>1, DropsToken, Zenon DEF Discard, history
  <2> QED BY <1>t, <1>15, <2>1, CallBystander, Zenon DEF Discard, history
<1>16. ASSUME Still PROVE CallGood(x)'
  BY <1>t, <1>16, CallBystander, Zenon DEF Still
<1> QED BY <1>1, <1>2, <1>3, <1>4, <1>5, <1>6, <1>7, <1>8, <1>9, <1>10, <1>11, <1>12, <1>13, <1>14,
           <1>15, <1>16, Zenon DEF SomeStep, OtherStep

\* Only kernel_send_msg fills irq_pending.
LEMMA IrqStep ==
  ASSUME TypeOK, CallInv, SomeStep, NEW x \in Procs
  PROVE  IrqsOnly(x)'
<1>t. /\ irqPending \in [Procs -> Seq(Messages)] /\ IrqsOnly(x) /\ irqPending[x] \in Seq(Messages)
      /\ Len(irqPending[x]) \in Nat
  BY DEF TypeOK, CallInv
<1>k. ASSUME irqPending'[x] = irqPending[x] PROVE IrqsOnly(x)'
  BY <1>t, <1>k, Zenon DEF IrqsOnly
<1>1. ASSUME NEW p \in Procs, NEW src \in Sources, NEW ok \in PtrOutcomes, TakesDeposit(p, src, ok)
      PROVE  IrqsOnly(x)'
  <2>1. CASE x = p /\ irqPending[p] # <<>> /\ irqPending'[p] = Tail(irqPending[p])
    <3>1. Len(irqPending'[x]) = Len(irqPending[x]) - 1
          /\ \A i \in 1..(Len(irqPending[x]) - 1) : irqPending'[x][i] = irqPending[x][i + 1]
      BY <1>t, <2>1, HeadTailProperties
    <3> QED BY <1>t, <3>1 DEF IrqsOnly
  <2>2. CASE irqPending'[x] = irqPending[x]
    BY <1>k, <2>2, Zenon
  <2> QED BY <1>t, <1>1, <2>1, <2>2, Zenon DEF TakesDeposit, ReceiveAvailable
<1>2. ASSUME NEW p \in Procs, NEW src \in Sources, NEW ok \in PtrOutcomes, TakesIrq(p, src, ok)
      PROVE  IrqsOnly(x)'
  <2>1. PICK i \in 1..Len(irqPending[p]) : irqPending' = [irqPending EXCEPT ![p] = RemoveAt(@, i)]
    BY <1>2, ZenonT(30) DEF TakesIrq, ReceiveIrq
  <2>2. CASE x = p
    <3>1. /\ irqPending'[x] = RemoveAt(irqPending[x], i) /\ i \in 1..Len(irqPending[x])
      BY <1>t, <2>1, <2>2, Zenon
    <3>2. /\ Len(irqPending'[x]) = Len(irqPending[x]) - 1
          /\ \A j \in 1..(Len(irqPending[x]) - 1) :
               irqPending'[x][j] = IF j < i THEN irqPending[x][j] ELSE irqPending[x][j + 1]
      BY <1>t, <3>1, RemoveAtTyped, ZenonT(30)
    <3> QED BY <1>t, <3>1, <3>2 DEF IrqsOnly
  <2> QED BY <1>t, <1>k, <2>1, <2>2, Zenon
<1>3. ASSUME Interrupted PROVE IrqsOnly(x)'
  <2>1. PICK m \in Messages : m.source = Hardware /\ KernelSendMsg(irqOwner, m)
    BY <1>3, Zenon DEF Interrupted
  <2>2. CASE irqPending'[x] = Append(irqPending[x], m)
    BY <1>t, <2>1, <2>2, AppendProperties DEF IrqsOnly
  <2>3. irqPending'[x] \in {irqPending[x], Append(irqPending[x], m)}
    BY <1>t, <2>1, Zenon DEF KernelSendMsg
  <2> QED BY <1>k, <2>2, <2>3, Zenon
<1>4. ASSUME NEW p \in Procs, Reap(p) PROVE IrqsOnly(x)'
  <2>1. CASE x = p
    BY <1>t, <1>4, <2>1 DEF Reap, IrqsOnly
  <2> QED BY <1>t, <1>k, <1>4, <2>1, Zenon DEF Reap
<1>5. ASSUME irqPending' = irqPending PROVE IrqsOnly(x)'
  BY <1>k, <1>5, Zenon
<1>6. ASSUME NEW p \in Procs, NEW q \in Procs,
             \/ Fails(p) \/ Dies(p) \/ Discard(p) \/ Completes(p, q) \/ Deposits(p, q)
             \/ DepositsAndWaits(p, q) \/ TakesReply(p, q) \/ Released(p, q)
             \/ \E op \in {"send", "sendrec"} : QueuesUp(p, q, op)
      PROVE  irqPending' = irqPending
  BY <1>6, ZenonT(30) DEF Fails, Dies, Discard, Completes, Deposits, DepositsAndWaits, TakesReply, Released, QueuesUp
<1>7. ASSUME NEW p \in Procs, NEW src \in Sources,
             \/ Waits(p, src) \/ \E ok \in PtrOutcomes : TakesSender(p, src, ok)
      PROVE  irqPending' = irqPending
  BY <1>7, Zenon DEF Waits, TakesSender, ReceiveBlock, ReceiveFromSender
<1>8. ASSUME Still PROVE irqPending' = irqPending
  BY <1>8, Zenon DEF Still
<1> QED BY <1>1, <1>2, <1>3, <1>4, <1>5, <1>6, <1>7, <1>8, Zenon DEF SomeStep, OtherStep

LEMMA CallInit == Init => CallInv
<1> SUFFICES ASSUME Init, NEW p \in Procs
    PROVE  CallMatches(p) /\ SendMatches(p) /\ TokenMatches(p) /\ IrqsOnly(p)
  BY ZenonT(30) DEF CallInv
<1>1. ipc[p] = IpcNone /\ call[p] = NoCall /\ irqPending[p] = <<>> /\ tokens[p] \in {0, 1}
      /\ status[p] # "Stopped" /\ IpcNone.kind = "None"
  BY ConstructorsTyped, Zenon DEF Init
<1> QED BY <1>1 DEF CallMatches, SendMatches, TokenMatches, IrqsOnly, Blocked, NoCall

LEMMA CallHolds == ASSUME PmServers = {} PROVE Spec => []CallInv
<1>1. TypeOK /\ CallInv /\ [Next]_vars => CallInv'
  <2> SUFFICES ASSUME TypeOK, CallInv, [Next]_vars, NEW x \in Procs
      PROVE  (CallMatches(x) /\ SendMatches(x) /\ TokenMatches(x) /\ IrqsOnly(x))'
    BY Zenon DEF CallInv
  <2>1. SomeStep
    BY Steps, Zenon
  <2> QED BY <2>1, CallStep, IrqStep, Zenon DEF CallGood
<1> QED BY <1>1, CallInit, TypeCorrect, PTL DEF Spec

\* Nobody is on two harts, or on a hart and in the middle of a blocking call:
\* every wakeup of sys_ipc_send, sys_ipc_sendrec, sys_ipc_receive and
\* kernel_send_msg finds its target blocked and off the run queues, whoever
\* exits, is killed or signalled meanwhile.  (sys_clone_process starts a child
\* that waits and is enqueued: instances without a process manager.)
THEOREM OneAtATime == ASSUME PmServers = {} PROVE Spec => []OneActivity
<1>1. TypeOK /\ CallInv => OneActivity
  <2> SUFFICES ASSUME TypeOK, CallInv, NEW p \in Procs
      PROVE  /\ tokens[p] <= 1
             /\ tokens[p] = 1 /\ InTable(p) => ipc[p].kind \in {"None", "MessageAvailable", "SendComplete"}
    BY Zenon DEF OneActivity
  <2>1. TokenMatches(p) /\ ipc[p] \in IpcStates
    BY Zenon DEF CallInv, TypeOK
  <2> QED BY <2>1 DEF TokenMatches, Blocked, IpcStates
<1> QED BY <1>1, CallHolds, TypeCorrect, PTL

-----------------------------------------------------------------------------
(* Delivery in order *)

Got(r) == {delivered[r][i].msg : i \in 1..Len(delivered[r])}

\* m has been issued, and is not the message its source is blocked with.
Below(m) ==
  m.source \in Procs =>
    m.n <= sent[m.source] /\ (ipc[m.source].kind = "Sending" => m.n < sent[m.source])

\* Delivering m to r would be in order.
NewTo(r, m) ==
  /\ \A m2 \in Got(r) : m2.source = m.source => m2.n < m.n
  /\ \A r2 \in Procs : m \notin Got(r2)

Deposited(r) == ipc[r].kind = "MessageAvailable"

\* What is deposited with a process has not been delivered to anybody, and is
\* deposited with nobody else.
DepositInOrder(r) ==
  Deposited(r) =>
    /\ Below(ipc[r].msg)
    /\ ipc[r].msg.source \in Procs =>
         /\ NewTo(r, ipc[r].msg)
         /\ \A r2 \in Procs \ {r} : Deposited(r2) => ipc[r2].msg # ipc[r].msg

OrderInv ==
  /\ \A r \in Procs : \A m \in Got(r) : Below(m)
  /\ \A r \in Procs : DepositInOrder(r)

\* A message once Below stays so.
Grows ==
  \A s \in Procs :
    /\ sent'[s] >= sent[s]
    /\ ipc'[s].kind = "Sending" => sent'[s] > sent[s] \/ ipc[s].kind = "Sending"

LEMMA StaysBelow ==
  ASSUME TypeOK, sent' \in [Procs -> Nat], Grows, NEW m \in Messages, Below(m)
  PROVE  Below(m)'
<1> SUFFICES ASSUME m.source \in Procs
    PROVE  m.n <= sent'[m.source] /\ (ipc'[m.source].kind = "Sending" => m.n < sent'[m.source])
  BY Zenon DEF Below
<1>1. /\ m.n \in Nat /\ sent[m.source] \in Nat /\ sent'[m.source] \in Nat
      /\ m.n <= sent[m.source] /\ (ipc[m.source].kind = "Sending" => m.n < sent[m.source])
  BY Zenon DEF Below, TypeOK, Messages
<1>2. /\ sent'[m.source] >= sent[m.source]
      /\ ipc'[m.source].kind = "Sending" => sent'[m.source] > sent[m.source] \/ ipc[m.source].kind = "Sending"
  BY Zenon DEF Grows
<1> QED BY <1>1, <1>2

LEMMA GrowsQuietly ==
  ASSUME TypeOK, sent' = sent, \A s \in Procs : ipc'[s].kind = "Sending" => ipc[s].kind = "Sending"
  PROVE  Grows
BY DEF Grows, TypeOK

LEMMA GrowsBy ==
  ASSUME TypeOK, NEW p \in Procs, sent' = [sent EXCEPT ![p] = @ + 1],
         \A s \in Procs \ {p} : ipc'[s].kind = "Sending" => ipc[s].kind = "Sending"
  PROVE  Grows
<1>1. sent \in [Procs -> Nat]
  BY Zenon DEF TypeOK
<1>2. \A s \in Procs : sent'[s] >= sent[s]
  BY <1>1
<1>3. sent'[p] > sent[p]
  BY <1>1
<1> QED BY <1>2, <1>3, Zenon DEF Grows

LEMMA GotTyped ==
  ASSUME TypeOK, NEW r \in Procs
  PROVE  Got(r) \subseteq Messages
<1>1. delivered[r] \in Seq(Receipts)
  BY Zenon DEF TypeOK
<1>2. \A i \in 1..Len(delivered[r]) : delivered[r][i] \in Receipts
  BY <1>1, ElementOfSeq, ZenonT(30)
<1> QED BY <1>2, Zenon DEF Got, Receipts

\* A step that delivers and deposits no message of a process.
LEMMA OrderQuiet ==
  ASSUME TypeOK, TypeOK', OrderInv, Grows, delivered' = delivered,
         \A r \in Procs : Deposited(r)' => \/ Deposited(r) /\ ipc'[r].msg = ipc[r].msg
                                           \/ ipc'[r].msg.source = Hardware
  PROVE  OrderInv'
<1>1. \A r \in Procs : Got(r)' = Got(r)
  BY Zenon DEF Got
<1>2. \A m \in Messages : Below(m) => Below(m)'
  BY StaysBelow, Zenon DEF TypeOK
<1>3. \A r \in Procs : \A m \in Got(r)' : Below(m)'
  BY <1>1, <1>2, GotTyped, ZenonT(30) DEF OrderInv
<1>4. ASSUME NEW r \in Procs PROVE DepositInOrder(r)'
  <2> SUFFICES ASSUME Deposited(r)' PROVE DepositInOrder(r)'
    BY Zenon DEF DepositInOrder
  <2>1. CASE ipc'[r].msg.source = Hardware
    BY <2>1, ConstantsAssumption, ZenonT(30) DEF DepositInOrder, Below
  <2>2. CASE Deposited(r) /\ ipc'[r].msg = ipc[r].msg /\ ipc[r].msg.source \in Procs
    <3>1. ipc[r].msg \in Messages
      BY ZenonT(30) DEF TypeOK, IpcStates
    <3>2. /\ Below(ipc[r].msg) /\ NewTo(r, ipc[r].msg)
          /\ \A r2 \in Procs \ {r} : Deposited(r2) => ipc[r2].msg # ipc[r].msg
      BY <2>2, ZenonT(30) DEF OrderInv, DepositInOrder
    <3>3. Below(ipc[r].msg)'
      <4>1. PICK m \in Messages : m = ipc[r].msg /\ m = ipc'[r].msg
        BY <2>2, <3>1, Zenon
      <4>2. Below(m)'
        BY <1>2, <3>2, <4>1, ZenonT(30)
      <4> QED BY <4>1, <4>2, ZenonT(30) DEF Below
    <3>4. NewTo(r, ipc[r].msg)'
      BY <1>1, <2>2, <3>2, ZenonT(30) DEF NewTo
    <3>5. \A r2 \in Procs \ {r} : Deposited(r2)' => ipc'[r2].msg # ipc'[r].msg
      BY <2>2, <3>2, ConstantsAssumption, ZenonT(30)
    <3> QED BY <3>3, <3>4, <3>5, ZenonT(30) DEF DepositInOrder, Below
  <2>3. CASE Deposited(r) /\ ipc'[r].msg = ipc[r].msg /\ ipc[r].msg.source \notin Procs
    BY <2>3, ZenonT(30) DEF DepositInOrder, Below
  <2> QED BY <2>1, <2>2, <2>3, Zenon
<1> QED BY <1>3, <1>4, ZenonT(30) DEF OrderInv

\* A step that deposits the next message of p with q.
LEMMA OrderDeposit ==
  ASSUME TypeOK, TypeOK', OrderInv, Grows, delivered' = delivered,
         NEW p \in Procs, NEW q \in Procs, sent'[p] = sent[p] + 1, ipc'[p].kind # "Sending",
         ipc'[q].msg = NewMsg(p),
         \A r \in Procs \ {q} : Deposited(r)' => Deposited(r) /\ ipc'[r].msg = ipc[r].msg
  PROVE  OrderInv'
<1>1. \A r \in Procs : Got(r)' = Got(r)
  BY ZenonT(30) DEF Got
<1>2. \A m \in Messages : Below(m) => Below(m)'
  BY StaysBelow, ZenonT(30) DEF TypeOK
<1>3. \A r \in Procs : \A m \in Got(r)' : Below(m)'
  BY <1>1, <1>2, GotTyped, Zenon DEF OrderInv
<1>s. sent[p] \in Nat
  BY Zenon DEF TypeOK
<1>g. NewMsg(p) \in Messages /\ NewMsg(p).source = p /\ NewMsg(p).n = sent[p] + 1
  BY <1>s DEF NewMsg, Messages
<1>n. PICK m \in Messages : m = NewMsg(p) /\ m.source = p /\ m.n = sent[p] + 1
  BY <1>g, ZenonT(30)
<1>f. \A m2 \in Messages : Below(m2) /\ m2.source = p => m2.n < m.n
  BY <1>s, <1>n DEF Below, Messages
<1>d. \A r \in Procs : ipc[r].msg \in Messages
  BY Zenon DEF TypeOK, IpcStates
<1>4. DepositInOrder(q)'
  <2>1. Below(m)' /\ ipc'[q].msg = m
    BY <1>s, <1>n DEF Below
  <2>2. NewTo(q, m)'
    <3>1. \A r \in Procs : \A m2 \in Got(r) : m2 \in Messages /\ Below(m2)
      BY GotTyped, ZenonT(30) DEF OrderInv
    <3>2. \A r \in Procs : \A m2 \in Got(r) : m2.source = p => m2.n < m.n
      BY <1>f, <3>1, ZenonT(30)
    <3>3. \A r \in Procs : m \notin Got(r)
      BY <1>n, <3>2 DEF Messages
    <3> QED BY <1>1, <1>n, <3>2, <3>3, Zenon DEF NewTo
  <2>3. \A r2 \in Procs \ {q} : Deposited(r2)' => ipc'[r2].msg # m
    <3>1. ASSUME NEW r2 \in Procs \ {q}, Deposited(r2), ipc[r2].msg = m PROVE FALSE
      <4>1. Below(m)
        BY <3>1, ZenonT(30) DEF OrderInv, DepositInOrder
      <4> QED BY <1>n, <1>f, <4>1 DEF Messages
    <3> QED BY <3>1, Zenon
  <2> QED BY <2>1, <2>2, <2>3, ZenonT(30) DEF DepositInOrder, Below, NewTo
<1>5. ASSUME NEW r \in Procs \ {q} PROVE DepositInOrder(r)'
  <2> SUFFICES ASSUME Deposited(r)' PROVE DepositInOrder(r)'
    BY ZenonT(30) DEF DepositInOrder
  <2>1. /\ Deposited(r) /\ ipc'[r].msg = ipc[r].msg /\ DepositInOrder(r)
    BY ZenonT(30) DEF OrderInv
  <2>2. Below(ipc[r].msg)
    BY <2>1, ZenonT(30) DEF DepositInOrder
  <2>3. PICK mr \in Messages : mr = ipc[r].msg /\ mr = ipc'[r].msg
    BY <1>d, <2>1, Zenon
  <2>4. Below(mr)' /\ mr # m
    BY <1>2, <1>n, <1>f, <2>2, <2>3 DEF Messages
  <2>5. mr.source \in Procs => NewTo(r, mr)' /\ \A r2 \in Procs \ {r} : Deposited(r2)' => ipc'[r2].msg # mr
    BY <1>1, <1>n, <2>1, <2>3, <2>4, Zenon DEF DepositInOrder, NewTo
  <2> QED BY <2>3, <2>4, <2>5, ZenonT(30) DEF DepositInOrder, Below, NewTo
<1> QED BY <1>3, <1>4, <1>5, ZenonT(30) DEF OrderInv

\* The receipts of p grow by one, the others' stay.
Adds(p, m, via, peer) ==
  LET k == Len(delivered[p]) + 1
  IN  /\ \A r \in Procs \ {p} : delivered'[r] = delivered[r]
      /\ Len(delivered[p]) \in Nat /\ Len(delivered'[p]) = k
      /\ \A i \in 1..Len(delivered[p]) : delivered'[p][i] = delivered[p][i]
      /\ delivered'[p][k].msg = m /\ delivered'[p][k].via = via /\ delivered'[p][k].peer = peer

LEMMA CopyAdds ==
  ASSUME TypeOK, NEW p \in Procs, NEW m, NEW via, NEW peer, Copy(p, m, via, peer)
  PROVE  Adds(p, m, via, peer)
<1>1. delivered \in [Procs -> Seq(Receipts)] /\ delivered[p] \in Seq(Receipts)
  BY Zenon DEF TypeOK
<1>2. /\ delivered'[p] = Append(delivered[p], [msg |-> m, via |-> via, peer |-> peer])
      /\ \A r \in Procs \ {p} : delivered'[r] = delivered[r]
  BY <1>1, Zenon DEF Copy
<1> QED BY <1>1, <1>2 DEF Adds

LEMMA GotAdds ==
  ASSUME TypeOK, NEW p \in Procs, NEW m, NEW via, NEW peer, Copy(p, m, via, peer)
  PROVE  \A r \in Procs : Got(r)' = IF r = p THEN Got(r) \cup {m} ELSE Got(r)
<1>a. Adds(p, m, via, peer)
  BY CopyAdds, ZenonT(30)
<1>c. /\ \A r \in Procs \ {p} : delivered'[r] = delivered[r]
      /\ Len(delivered[p]) \in Nat /\ Len(delivered'[p]) = Len(delivered[p]) + 1
      /\ \A i \in 1..Len(delivered[p]) : delivered'[p][i] = delivered[p][i]
      /\ delivered'[p][Len(delivered[p]) + 1].msg = m
  BY <1>a, Zenon DEF Adds
<1>1. ASSUME NEW r \in Procs \ {p} PROVE Got(r)' = Got(r)
  BY <1>c, ZenonT(30) DEF Got
<1>2. Got(p)' \subseteq Got(p) \cup {m}
  <2>1. ASSUME NEW i \in 1..Len(delivered'[p]) PROVE delivered'[p][i].msg \in Got(p) \cup {m}
    <3>1. i = Len(delivered[p]) + 1 \/ i \in 1..Len(delivered[p])
      BY <1>c
    <3> QED BY <1>c, <3>1, Zenon DEF Got
  <2> QED BY <2>1, Zenon DEF Got
<1>3. Got(p) \subseteq Got(p)'
  BY <1>c DEF Got
<1>4. m \in Got(p)'
  <2>1. Len(delivered[p]) + 1 \in 1..Len(delivered'[p]) /\ delivered'[p][Len(delivered[p]) + 1].msg = m
    BY <1>c
  <2> QED BY <2>1, Zenon DEF Got
<1> QED BY <1>1, <1>2, <1>3, <1>4, Zenon

\* A step that delivers m to p.
LEMMA OrderCopy ==
  ASSUME TypeOK, TypeOK', OrderInv, Grows,
         NEW p \in Procs, NEW m \in Messages, NEW via, NEW peer, Copy(p, m, via, peer),
         Below(m)', m.source \in Procs => NewTo(p, m),
         \A r \in Procs : Deposited(r)' =>
           \/ ipc'[r].msg.source = Hardware
           \/ r # p /\ Deposited(r) /\ ipc'[r].msg = ipc[r].msg /\ ipc[r].msg # m
  PROVE  OrderInv'
<1>1. \A r \in Procs : Got(r)' = IF r = p THEN Got(r) \cup {m} ELSE Got(r)
  BY GotAdds, ZenonT(30)
<1>2. \A m2 \in Messages : Below(m2) => Below(m2)'
  BY StaysBelow, ZenonT(30) DEF TypeOK
<1>3. \A r \in Procs : \A m2 \in Got(r)' : Below(m2)'
  BY <1>1, <1>2, GotTyped, ZenonT(30) DEF OrderInv
<1>d. \A r \in Procs : ipc[r].msg \in Messages
  BY ZenonT(30) DEF TypeOK, IpcStates
<1>4. ASSUME NEW r \in Procs PROVE DepositInOrder(r)'
  <2> SUFFICES ASSUME Deposited(r)' PROVE DepositInOrder(r)'
    BY ZenonT(30) DEF DepositInOrder
  <2>1. CASE ipc'[r].msg.source = Hardware
    BY <2>1, ConstantsAssumption, ZenonT(30) DEF DepositInOrder, Below
  <2>2. CASE r # p /\ Deposited(r) /\ ipc'[r].msg = ipc[r].msg /\ ipc[r].msg # m
    <3>1. PICK mr \in Messages : mr = ipc[r].msg /\ mr = ipc'[r].msg
      BY <1>d, <2>2, ZenonT(30)
    <3>2. Below(mr)' /\ mr # m
      BY <1>2, <2>2, <3>1, ZenonT(30) DEF OrderInv, DepositInOrder
    <3>3. ASSUME mr.source \in Procs
          PROVE  NewTo(r, mr)' /\ \A r2 \in Procs \ {r} : Deposited(r2)' => ipc'[r2].msg # mr
      <4>1. NewTo(r, mr) /\ \A r2 \in Procs \ {r} : Deposited(r2) => ipc[r2].msg # mr
        BY <2>2, <3>1, <3>3, ZenonT(30) DEF OrderInv, DepositInOrder
      <4>2. NewTo(r, mr)'
        BY <1>1, <2>2, <3>2, <4>1, ZenonT(30) DEF NewTo
      <4>3. \A r2 \in Procs \ {r} : Deposited(r2)' => ipc'[r2].msg # mr
        BY <3>3, <4>1, ConstantsAssumption, ZenonT(30)
      <4> QED BY <4>2, <4>3, ZenonT(30)
    <3> QED BY <3>1, <3>2, <3>3, ZenonT(30) DEF DepositInOrder, Below, NewTo
  <2> QED BY <2>1, <2>2, ZenonT(30)
<1> QED BY <1>3, <1>4, Zenon DEF OrderInv

LEMMA InOrderCopy ==
  ASSUME TypeOK, DeliveredInOrder, NEW p \in Procs, NEW m, NEW via, NEW peer, Copy(p, m, via, peer),
         m.source \in Procs => NewTo(p, m)
  PROVE  DeliveredInOrder'
<1>a. Adds(p, m, via, peer)
  BY CopyAdds, ZenonT(30)
<1>c. /\ \A r \in Procs \ {p} : delivered'[r] = delivered[r]
      /\ Len(delivered[p]) \in Nat /\ Len(delivered'[p]) = Len(delivered[p]) + 1
      /\ \A i \in 1..Len(delivered[p]) : delivered'[p][i] = delivered[p][i]
      /\ delivered'[p][Len(delivered[p]) + 1].msg = m
  BY <1>a, Zenon DEF Adds
<1>1. ASSUME NEW r \in Procs, NEW i \in 1..Len(delivered'[r]), delivered'[r][i].msg.source \in Procs
      PROVE  /\ \A j \in 1..(i - 1) : delivered'[r][j].msg.source = delivered'[r][i].msg.source
                                        => delivered'[r][j].msg.n < delivered'[r][i].msg.n
             /\ \A r2 \in Procs \ {r} : \A j \in 1..Len(delivered'[r2]) : delivered'[r2][j].msg # delivered'[r][i].msg
  <2> DEFINE k == Len(delivered[p]) + 1
  <2>k. k \in Nat \ {0} /\ Len(delivered'[p]) = k /\ delivered'[p][k].msg = m
    BY <1>c
  <2>o. \A j \in 1..(k - 1) : delivered'[p][j] = delivered[p][j] /\ j \in 1..Len(delivered[p])
    BY <1>c
  <2>p. \A r2 \in Procs \ {p} : delivered'[r2] = delivered[r2]
    BY <1>c, Zenon
  <2>g. \A r2 \in Procs : \A j \in 1..Len(delivered[r2]) : delivered[r2][j].msg \in Got(r2)
    BY Zenon DEF Got
  <2>l. Len(delivered[p]) = k - 1
    BY <2>k
  <2> HIDE DEF k
  <2>1. CASE r = p /\ i = k
    <3>1. delivered'[r][i].msg = m /\ NewTo(p, m)
      BY <1>1, <2>1, <2>k, ZenonT(30)
    <3>2. \A j \in 1..(i - 1) : delivered'[r][j].msg \in Got(p)
      BY <2>1, <2>o, <2>g, ZenonT(30)
    <3>3. \A r2 \in Procs \ {r} : \A j \in 1..Len(delivered'[r2]) : delivered'[r2][j].msg \in Got(r2)
      BY <2>1, <2>p, <2>g, ZenonT(30)
    <3> QED BY <3>1, <3>2, <3>3, ZenonT(30) DEF NewTo
  <2>2. CASE ~(r = p /\ i = k)
    <3>1. i \in 1..Len(delivered[r]) /\ delivered'[r][i] = delivered[r][i]
      BY <2>2, <2>k, <2>o, <2>p, <2>l
    <3>2. \A j \in 1..(i - 1) : delivered'[r][j] = delivered[r][j]
      BY <3>1, <2>o, <2>p, <2>l
    <3>3. /\ \A j \in 1..(i - 1) : delivered[r][j].msg.source = delivered[r][i].msg.source
                                     => delivered[r][j].msg.n < delivered[r][i].msg.n
          /\ \A r2 \in Procs \ {r} : \A j \in 1..Len(delivered[r2]) : delivered[r2][j].msg # delivered[r][i].msg
      BY <1>1, <3>1, ZenonT(30) DEF DeliveredInOrder
    <3>4. \A r2 \in Procs \ {r, p} : \A j \in 1..Len(delivered'[r2]) : delivered'[r2][j].msg # delivered'[r][i].msg
      BY <3>1, <3>3, <2>p, ZenonT(30)
    <3>5. ASSUME p # r, NEW j \in 1..Len(delivered'[p]) PROVE delivered'[p][j].msg # delivered'[r][i].msg
      <4>1. CASE j = k
        <5>1. delivered[r][i].msg \in Got(r)
          BY <2>g, <3>1, Zenon
        <5> QED BY <1>1, <2>k, <3>1, <4>1, <5>1, Zenon DEF NewTo
      <4>2. CASE j # k
        BY <2>k, <2>o, <3>1, <3>3, <3>5, <4>2
      <4> QED BY <4>1, <4>2, Zenon
    <3> QED BY <3>1, <3>2, <3>3, <3>4, <3>5, ZenonT(30)
  <2> QED BY <2>1, <2>2, ZenonT(30)
<1> QED BY <1>1, Zenon DEF DeliveredInOrder

\* A step that changes at most the IPC state of p, and delivers nothing.
LEMMA OrderQuietAt ==
  ASSUME TypeOK, TypeOK', OrderInv, DeliveredInOrder, delivered' = delivered, NEW p \in Procs,
         \A r \in Procs \ {p} : ipc'[r] = ipc[r],
         \/ ipc'[p] = ipc[p]
         \/ ipc'[p].kind # "MessageAvailable" \/ ipc'[p].msg.source = Hardware,
         \/ sent' = sent /\ (ipc'[p].kind = "Sending" => ipc[p].kind = "Sending")
         \/ sent' = [sent EXCEPT ![p] = @ + 1]
  PROVE  OrderInv' /\ DeliveredInOrder'
<1>1. Grows
  <2>1. CASE sent' = sent /\ (ipc'[p].kind = "Sending" => ipc[p].kind = "Sending")
    BY <2>1, GrowsQuietly, Zenon
  <2>2. CASE sent' = [sent EXCEPT ![p] = @ + 1]
    BY <2>2, GrowsBy, ZenonT(30)
  <2> QED BY <2>1, <2>2, Zenon
<1>2. \A r \in Procs : Deposited(r)' => \/ Deposited(r) /\ ipc'[r].msg = ipc[r].msg
                                        \/ ipc'[r].msg.source = Hardware
  BY Zenon DEF Deposited
<1>3. OrderInv'
  BY <1>1, <1>2, OrderQuiet, Zenon
<1> QED BY <1>3 DEF DeliveredInOrder

\* p takes what was deposited with it.
LEMMA OrderTake ==
  ASSUME TypeOK, TypeOK', OrderInv, DeliveredInOrder, NEW p \in Procs, NEW via, NEW peer,
         Deposited(p), Copy(p, ipc[p].msg, via, peer),
         \A r \in Procs \ {p} : ipc'[r] = ipc[r],
         ipc'[p].kind # "Sending", Deposited(p)' => ipc'[p].msg.source = Hardware,
         sent' = sent \/ sent' = [sent EXCEPT ![p] = @ + 1]
  PROVE  OrderInv' /\ DeliveredInOrder'
<1>1. Grows
  <2>1. CASE sent' = sent
    BY <2>1, GrowsQuietly, Zenon
  <2>2. CASE sent' = [sent EXCEPT ![p] = @ + 1]
    BY <2>2, GrowsBy, ZenonT(30)
  <2> QED BY <2>1, <2>2, ZenonT(30)
<1>d. \A r \in Procs : ipc[r].msg \in Messages
  BY Zenon DEF TypeOK, IpcStates
<1>2. PICK m \in Messages : m = ipc[p].msg
  BY <1>d, ZenonT(30)
<1>3. /\ Below(m) /\ (m.source \in Procs => NewTo(p, m))
      /\ m.source \in Procs => \A r2 \in Procs \ {p} : Deposited(r2) => ipc[r2].msg # m
  BY <1>2, ZenonT(30) DEF OrderInv, DepositInOrder
<1>4. Below(m)'
  BY <1>1, <1>3, StaysBelow, ZenonT(30) DEF TypeOK
<1>5. \A r \in Procs : Deposited(r)' =>
        \/ ipc'[r].msg.source = Hardware
        \/ r # p /\ Deposited(r) /\ ipc'[r].msg = ipc[r].msg /\ ipc[r].msg # m
  BY <1>d, <1>2, <1>3, ZenonT(30) DEF Deposited, Messages
<1>6. Copy(p, m, via, peer)
  BY <1>2, Zenon
<1>7. OrderInv'
  BY <1>1, <1>3, <1>4, <1>5, <1>6, OrderCopy, ZenonT(30)
<1>8. DeliveredInOrder'
  BY <1>3, <1>6, InOrderCopy, Zenon
<1> QED BY <1>7, <1>8, ZenonT(30)

\* p takes a queued interrupt.
LEMMA OrderIrq ==
  ASSUME TypeOK, TypeOK', OrderInv, DeliveredInOrder, NEW p \in Procs, NEW m \in Messages, NEW via, NEW peer,
         m.source = Hardware, ~Deposited(p), Copy(p, m, via, peer), ipc' = ipc, sent' = sent
  PROVE  OrderInv' /\ DeliveredInOrder'
<1>1. Grows
  BY GrowsQuietly, Zenon
<1>2. m.source \notin Procs
  BY ConstantsAssumption, Zenon
<1>3. Below(m)'
  BY <1>2, Zenon DEF Below
<1>4. \A r \in Procs : Deposited(r)' =>
        \/ ipc'[r].msg.source = Hardware
        \/ r # p /\ Deposited(r) /\ ipc'[r].msg = ipc[r].msg /\ ipc[r].msg # m
  BY Zenon DEF Deposited
<1>5. OrderInv'
  BY <1>1, <1>2, <1>3, <1>4, OrderCopy, ZenonT(30)
<1>6. DeliveredInOrder'
  BY <1>2, InOrderCopy, Zenon
<1> QED BY <1>5, <1>6, Zenon

\* p takes the message s is blocked with.
LEMMA OrderSender ==
  ASSUME TypeOK, TypeOK', OrderInv, DeliveredInOrder, NEW p \in Procs, NEW s \in Procs, NEW m, NEW via, NEW peer,
         ~Deposited(p), ipc[s].kind = "Sending", m = [source |-> s, n |-> sent[s]], Copy(p, m, via, peer),
         \A r \in Procs \ {s} : ipc'[r] = ipc[r],
         ipc'[s].kind \notin {"Sending", "MessageAvailable"}, sent' = sent
  PROVE  OrderInv' /\ DeliveredInOrder'
<1>1. Grows
  BY GrowsQuietly, ZenonT(30)
<1>s. sent[s] \in Nat
  BY Zenon DEF TypeOK
<1>2. m \in Messages /\ m.source = s /\ m.n = sent[s]
  BY <1>s, ZenonT(30) DEF Messages
<1>3. Below(m)'
  BY <1>s, <1>2 DEF Below
<1>f. \A m2 \in Messages : Below(m2) /\ m2.source = s => m2.n < m.n /\ m2 # m
  BY <1>s, <1>2 DEF Below, Messages
<1>4. NewTo(p, m)
  <2>1. \A r \in Procs : \A m2 \in Got(r) : m2 \in Messages /\ Below(m2)
    BY GotTyped, ZenonT(30) DEF OrderInv
  <2> QED BY <1>2, <1>f, <2>1, Zenon DEF NewTo
<1>5. ASSUME NEW r \in Procs, Deposited(r)'
      PROVE  r # p /\ Deposited(r) /\ ipc'[r].msg = ipc[r].msg /\ ipc[r].msg # m
  <2>1. r # s /\ ipc'[r] = ipc[r] /\ Deposited(r)
    BY <1>5, ZenonT(30) DEF Deposited
  <2>2. Below(ipc[r].msg) /\ ipc[r].msg \in Messages
    BY <2>1, ZenonT(30) DEF OrderInv, DepositInOrder, TypeOK, IpcStates
  <2> QED BY <1>2, <1>f, <2>1, <2>2, ZenonT(30)
<1>6. OrderInv'
  BY <1>1, <1>2, <1>3, <1>4, <1>5, OrderCopy, ZenonT(30)
<1>7. DeliveredInOrder'
  BY <1>4, InOrderCopy, Zenon
<1> QED BY <1>6, <1>7, ZenonT(30)

LEMMA OrderStep ==
  ASSUME TypeOK, TypeOK', CallInv, OrderInv, DeliveredInOrder, SomeStep
  PROVE  OrderInv' /\ DeliveredInOrder'
<1>t. /\ ipc \in [Procs -> IpcStates] /\ \A p \in Procs : SendMatches(p) /\ IrqsOnly(p)
  BY Zenon DEF TypeOK, CallInv
<1>k. /\ IpcNone.kind = "None" /\ SendDone.kind = "SendComplete"
      /\ (\A m \in Messages : MsgAvailable(m).kind = "MessageAvailable" /\ MsgAvailable(m).msg = m)
      /\ \A src \in Procs \cup {Any, Hardware} :
           Receiving(src).kind = "Receiving" /\ ReceivingReply(src).kind = "ReceivingReply"
  BY ConstructorsTyped, ZenonT(30) DEF MsgAvailable
<1>n. \A p \in Procs : NewMsg(p) \in Messages
  BY NewMsgTyped, Zenon DEF TypeOK
<1>1. ASSUME NEW p \in Procs, Fails(p) PROVE OrderInv' /\ DeliveredInOrder'
  BY <1>1, OrderQuietAt, ZenonT(30) DEF Fails, Issued
<1>2. ASSUME NEW p \in Procs, NEW q \in Procs, Completes(p, q) PROVE OrderInv' /\ DeliveredInOrder'
  <2>1. ipc'[p] = IpcNone /\ (\A r \in Procs \ {p} : ipc'[r] = ipc[r]) /\ sent' = sent /\ delivered' = delivered
    BY <1>t, <1>2, Zenon DEF Completes
  <2> QED BY <1>k, <2>1, OrderQuietAt, ZenonT(30)
<1>3. ASSUME NEW p \in Procs, NEW q \in Procs, Deposits(p, q) \/ DepositsAndWaits(p, q)
      PROVE  OrderInv' /\ DeliveredInOrder'
  <2>1. /\ p # q /\ ipc'[q] = MsgAvailable(NewMsg(p)) /\ delivered' = delivered
        /\ ipc'[p] = ipc[p] \/ ipc'[p] = ReceivingReply(q)
        /\ \A r \in Procs \ {p, q} : ipc'[r] = ipc[r]
    BY <1>t, <1>3, Zenon DEF Deposits, DepositsAndWaits
  <2>2. ipc[p].kind # "Sending" /\ sent' = [sent EXCEPT ![p] = @ + 1]
    BY <1>3, Zenon DEF Deposits, DepositsAndWaits, Issued
  <2>3. ipc'[q].kind = "MessageAvailable" /\ ipc'[q].msg = NewMsg(p) /\ ipc'[p].kind # "Sending"
    BY <1>k, <1>n, <2>1, <2>2, Zenon
  <2>4. Grows
    BY <2>1, <2>2, <2>3, GrowsBy, ZenonT(30)
  <2>5. \A r \in Procs \ {q} : Deposited(r)' => Deposited(r) /\ ipc'[r].msg = ipc[r].msg
    BY <1>k, <2>1, ZenonT(30) DEF Deposited
  <2>6. sent'[p] = sent[p] + 1
    BY <2>2, Zenon DEF TypeOK
  <2>7. OrderInv'
    BY <2>1, <2>3, <2>4, <2>5, <2>6, OrderDeposit, ZenonT(30)
  <2> QED BY <2>1, <2>7 DEF DeliveredInOrder
<1>4. ASSUME NEW p \in Procs, NEW q \in Procs, NEW op \in {"send", "sendrec"}, QueuesUp(p, q, op)
      PROVE  OrderInv' /\ DeliveredInOrder'
  <2>1. /\ ipc'[p].kind = "Sending" /\ (\A r \in Procs \ {p} : ipc'[r] = ipc[r])
        /\ sent' = [sent EXCEPT ![p] = @ + 1] /\ delivered' = delivered
    BY <1>t, <1>4, Zenon DEF QueuesUp, Issued, Sending
  <2> QED BY <2>1, OrderQuietAt, ZenonT(30)
<1>5. ASSUME NEW p \in Procs, NEW q \in Procs, TakesReply(p, q) PROVE OrderInv' /\ DeliveredInOrder'
  <2>1. /\ Deposited(p) /\ Copy(p, ipc[p].msg, "sendrec", q)
        /\ ipc'[p] = IpcNone /\ (\A r \in Procs \ {p} : ipc'[r] = ipc[r])
        /\ sent' = sent \/ sent' = [sent EXCEPT ![p] = @ + 1]
    BY <1>t, <1>5, Zenon DEF TakesReply, Deposited
  <2>2. ipc'[p].kind # "Sending" /\ ~Deposited(p)'
    BY <1>k, <2>1, Zenon DEF Deposited
  <2> QED BY <2>1, <2>2, OrderTake, ZenonT(30)
<1>6. ASSUME NEW p \in Procs, NEW src \in Sources, NEW ok \in PtrOutcomes, TakesDeposit(p, src, ok)
      PROVE  OrderInv' /\ DeliveredInOrder'
  <2>0. sent' = sent /\ ReceiveAvailable(p, src, ok)
    BY <1>6, Zenon DEF TakesDeposit
  <2>1. CASE ok
    <3>1. /\ Deposited(p) /\ Copy(p, ipc[p].msg, "receive", src) /\ (\A r \in Procs \ {p} : ipc'[r] = ipc[r])
          /\ \/ ipc'[p] = IpcNone
             \/ irqPending[p] # <<>> /\ ipc'[p] = MsgAvailable(Head(irqPending[p]))
      BY <1>t, <2>0, <2>1, Zenon DEF ReceiveAvailable, Deposited
    <3>2. irqPending[p] # <<>> => Head(irqPending[p]) \in Messages /\ Head(irqPending[p]).source = Hardware
      <4>1. irqPending[p] \in Seq(Messages) /\ IrqsOnly(p)
        BY <1>t, Zenon DEF TypeOK
      <4> QED BY <4>1, HeadTailProperties DEF IrqsOnly
    <3>3. ipc'[p].kind # "Sending" /\ (Deposited(p)' => ipc'[p].msg.source = Hardware)
      BY <1>k, <3>1, <3>2, ZenonT(30) DEF Deposited
    <3> QED BY <2>0, <3>1, <3>3, OrderTake, ZenonT(30)
  <2>2. CASE ~ok
    <3>1. ipc' = ipc /\ delivered' = delivered
      BY <2>0, <2>2, Zenon DEF ReceiveAvailable
    <3> QED BY <2>0, <3>1, OrderQuietAt, ZenonT(30)
  <2> QED BY <2>1, <2>2, Zenon
<1>7. ASSUME NEW p \in Procs, NEW src \in Sources, NEW ok \in PtrOutcomes, TakesIrq(p, src, ok)
      PROVE  OrderInv' /\ DeliveredInOrder'
  <2>1. /\ ipc' = ipc /\ sent' = sent /\ ~Deposited(p)
    BY <1>7, ZenonT(30) DEF TakesIrq, ReceiveIrq, Deposited
  <2>2. PICK i \in 1..Len(irqPending[p]) :
          IF ok THEN Copy(p, irqPending[p][i], "receive", src) ELSE UNCHANGED delivered
    BY <1>7, ZenonT(30) DEF TakesIrq, ReceiveIrq
  <2>3. CASE delivered' = delivered
    BY <2>1, <2>3, OrderQuietAt, Zenon
  <2>4. CASE Copy(p, irqPending[p][i], "receive", src)
    <3>1. irqPending[p][i] \in Messages /\ irqPending[p][i].source = Hardware
      BY <1>t, ElementOfSeq, ZenonT(30) DEF TypeOK, IrqsOnly
    <3> QED BY <2>1, <2>4, <3>1, OrderIrq, Zenon
  <2> QED BY <2>2, <2>3, <2>4, ZenonT(30)
<1>8. ASSUME NEW p \in Procs, NEW src \in Sources, NEW ok \in PtrOutcomes, TakesSender(p, src, ok)
      PROVE  OrderInv' /\ DeliveredInOrder'
  <2>1. sent' = sent /\ ~Deposited(p)
    BY <1>8, Zenon DEF TakesSender, ReceiveFromSender, Deposited
  <2>2. PICK i \in 1..Len(senders[p]) : TakeMessageOf(p, senders[p][i], src, ok)
    BY <1>8, ZenonT(30) DEF TakesSender, ReceiveFromSender
  <2>3. PICK s \in Procs : s = senders[p][i]
    BY ElementOfSeq, ZenonT(30) DEF TypeOK
  <2>4. CASE ipc' = ipc /\ delivered' = delivered
    BY <2>1, <2>4, OrderQuietAt, ZenonT(30)
  <2>5. CASE ~(ipc' = ipc /\ delivered' = delivered)
    <3>1. /\ ipc[s].kind = "Sending" /\ Copy(p, ipc[s].msg, "receive", src)
          /\ ipc'[s] \in {SendDone, ReceivingReply(p)} /\ \A r \in Procs \ {s} : ipc'[r] = ipc[r]
      BY <1>t, <2>2, <2>3, <2>5, ZenonT(30) DEF TakeMessageOf
    <3>2. ipc[s].msg = [source |-> s, n |-> sent[s]]
      BY <1>t, <3>1, ZenonT(30) DEF SendMatches
    <3>3. ipc'[s].kind \notin {"Sending", "MessageAvailable"}
      BY <1>k, <3>1, Zenon
    <3> QED BY <2>1, <3>1, <3>2, <3>3, OrderSender, ZenonT(30)
  <2> QED BY <2>4, <2>5, Zenon
<1>9. ASSUME NEW p \in Procs, NEW src \in Sources, Waits(p, src) PROVE OrderInv' /\ DeliveredInOrder'
  <2>1. ipc'[p] = Receiving(src) /\ (\A r \in Procs \ {p} : ipc'[r] = ipc[r]) /\ sent' = sent /\ delivered' = delivered
    BY <1>t, <1>9, Zenon DEF Waits, ReceiveBlock
  <2>2. ipc'[p].kind = "Receiving"
    BY <1>k, <2>1, ConstantsAssumption
  <2> QED BY <2>1, <2>2, OrderQuietAt, Zenon
<1>10. ASSUME Interrupted PROVE OrderInv' /\ DeliveredInOrder'
  <2>1. PICK m \in Messages : m.source = Hardware /\ KernelSendMsg(irqOwner, m)
    BY <1>10, Zenon DEF Interrupted
  <2>2. irqOwner \in Procs /\ sent' = sent /\ delivered' = delivered
    BY <1>10, Zenon DEF Interrupted
  <2>3. /\ ipc'[irqOwner] \in {ipc[irqOwner], MsgAvailable(m)}
        /\ \A r \in Procs \ {irqOwner} : ipc'[r] = ipc[r]
    BY <1>t, <2>1, <2>2, Zenon DEF KernelSendMsg
  <2>4. PICK o \in Procs : o = irqOwner
    BY <2>2, Zenon
  <2>5. \/ ipc'[o] = ipc[o]
        \/ ipc'[o].kind = "MessageAvailable" /\ ipc'[o].msg.source = Hardware
    BY <1>k, <2>1, <2>3, <2>4, ZenonT(30)
  <2> QED BY <2>2, <2>3, <2>4, <2>5, OrderQuietAt, Zenon
<1>11. ASSUME NEW p \in Procs, Dies(p) \/ Discard(p) PROVE OrderInv' /\ DeliveredInOrder'
  <2>1. ipc' = ipc /\ sent' = sent /\ delivered' = delivered
    BY <1>11, Zenon DEF Dies, Discard, history
  <2> QED BY <2>1, OrderQuietAt, Zenon
<1>12. ASSUME NEW p \in Procs, Reap(p) \/ \E q \in Procs : Released(q, p) PROVE OrderInv' /\ DeliveredInOrder'
  <2>1. ipc'[p] = IpcNone /\ (\A r \in Procs \ {p} : ipc'[r] = ipc[r]) /\ sent' = sent /\ delivered' = delivered
    BY <1>t, <1>12, ZenonT(30) DEF Reap, Released, history
  <2> QED BY <1>k, <2>1, OrderQuietAt, ZenonT(30)
<1>13. ASSUME Still PROVE OrderInv' /\ DeliveredInOrder'
  <2>1. ipc' = ipc /\ sent' = sent /\ delivered' = delivered
    BY <1>13, Zenon DEF Still
  <2>2. Grows
    BY <2>1, GrowsQuietly, Zenon
  <2>3. OrderInv'
    BY <2>1, <2>2, OrderQuiet, Zenon DEF Deposited
  <2> QED BY <2>1, <2>3 DEF DeliveredInOrder
<1> QED BY <1>1, <1>2, <1>3, <1>4, <1>5, <1>6, <1>7, <1>8, <1>9, <1>10, <1>11, <1>12, <1>13, ZenonT(30) DEF SomeStep, OtherStep

\* Messages of one process arrive in the order it sent them, at most once, and
\* never with two receivers: on whatever path (deposited with a waiting
\* receiver, fetched from a queued sender, returned as a reply), with whatever
\* errors and deaths in between.
THEOREM ArrivesInOrder == ASSUME PmServers = {} PROVE Spec => []DeliveredInOrder
<1>1. Init => OrderInv /\ DeliveredInOrder
  <2> SUFFICES ASSUME Init PROVE OrderInv /\ DeliveredInOrder
    BY Zenon
  <2>1. \A r \in Procs : delivered[r] = <<>> /\ ipc[r] = IpcNone /\ IpcNone.kind = "None"
    BY ConstructorsTyped, Zenon DEF Init
  <2>2. \A r \in Procs : Got(r) = {} /\ ~Deposited(r)
    <3>1. \A r \in Procs : 1..Len(delivered[r]) = {}
      <4>1. 1..Len(<<>>) = {}
        OBVIOUS
      <4> QED BY <2>1, <4>1, Zenon
    <3> QED BY <2>1, <3>1, Zenon DEF Got, Deposited
  <2> QED BY <2>1, <2>2 DEF OrderInv, DepositInOrder, DeliveredInOrder
<1>2. TypeOK /\ TypeOK' /\ CallInv /\ OrderInv /\ DeliveredInOrder /\ [Next]_vars => OrderInv' /\ DeliveredInOrder'
  BY Steps, OrderStep, Zenon
<1> QED BY <1>1, <1>2, TypeCorrect, CallHolds, PTL DEF Spec
=============================================================================
