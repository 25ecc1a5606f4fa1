----------------------------- MODULE VirtioNet -----------------------------
(***************************************************************************)
(* The virtio network driver of the kernel, src/src/net/virtio_mmio.rs:    *)
(* send and recv, called from several harts (net_send and net_recv of the  *)
(* network daemon, smoltcp's tokens in the kernel), over two virtqueues    *)
(* and the pages of the physical allocator.  A queue's lock is held in one *)
(* step and dropped between steps.  The device is external.                *)
(***************************************************************************)
EXTENDS Integers, Sequences, FiniteSets, SequencesExt

CONSTANTS
  NetPages,                     \* the pages the driver can get: 1..n
  RxBufCount,                   \* RX_BUF_COUNT
  NetSenders,                   \* harts that send
  NetQueueSize, NetIndexRange   \* the size of a queue, and its index width

Ring == INSTANCE VirtQueue WITH QueueSize <- NetQueueSize, IndexRange <- NetIndexRange

VARIABLES
  rxq, txq,  \* the queues
  pool,      \* free pages
  frame,     \* page -> the frame it holds
  snd,       \* sender -> where it is in send, and the pages it holds
  rcv,       \* the receiver: where it is in recv, its page, what it was given
  arrived    \* the frame the device delivers next (a bit)

netVars == <<rxq, txq, pool, frame, snd, rcv, arrived>>

\* The queues of src/src/net/virtqueue.rs: new, enqueue_chain with one buffer,
\* pop_used, pop_one_used and free_chain.
NetNewQueue == Ring!NewQueue
NetEnqueue(q, p) == Ring!EnqueueChain(q, <<<<"page", p>>>>)
NetPopUsed(q) == Ring!PopUsed(q)
NetPopOne(q) == Head(Ring!PopUsed(q))
NetFreeChain(q, d) == Ring!FreeChain(q, d)

\* read_chain, of a chain of one descriptor.
PageOf(q, d) == q.desc[d].buf[2]
PagesOf(q, heads) == [i \in DOMAIN heads |-> PageOf(q, heads[i])]

Quiet == [at |-> "out", page |-> 0, was |-> 0, got |-> 0]

\* init_device: the receive queue is filled.
NetInit ==
  /\ rxq = FoldLeft(LAMBDA q, p : NetEnqueue(q, p), NetNewQueue, [i \in 1..RxBufCount |-> i])
  /\ txq = NetNewQueue
  /\ pool = NetPages \ 1..RxBufCount
  /\ frame = [p \in NetPages |-> 0]
  /\ snd = [s \in NetSenders |-> [at |-> "out", pages |-> {}]]
  /\ rcv = Quiet /\ arrived = 0

-----------------------------------------------------------------------------
(* send *)

\* Chains the device has sent are taken back, under the queue's lock.
SendReclaim(s) ==
  /\ snd[s].at = "out"
  /\ LET popped == NetPopUsed(txq)
     IN /\ txq' = Ring!Popped(FoldLeft(NetFreeChain, txq, popped), Len(popped))
        /\ snd' = [snd EXCEPT ![s] = [at |-> "alloc", pages |-> Range(PagesOf(txq, popped))]]
  /\ UNCHANGED <<rxq, pool, frame, rcv, arrived>>

\* Their pages are freed; an oversized packet is dropped, for another one a page
\* is allocated, if there is one (which of the free pages makes no difference).
SendAlloc(s) ==
  /\ snd[s].at = "alloc"
  /\ LET free == pool \cup snd[s].pages
     IN \/ /\ pool' = free
           /\ snd' = [snd EXCEPT ![s] = [at |-> "out", pages |-> {}]]
        \/ /\ free # {}
           /\ pool' = free \ {Min(free)}
           /\ snd' = [snd EXCEPT ![s] = [at |-> "queue", pages |-> {Min(free)}]]
  /\ UNCHANGED <<rxq, txq, frame, rcv, arrived>>

\* The packet is queued, or its page freed when the queue is full.
SendQueue(s) ==
  /\ snd[s].at = "queue"
  /\ LET p == CHOOSE p \in snd[s].pages : TRUE
     IN IF Ring!CanEnqueue(txq, 1)
        THEN txq' = NetEnqueue(txq, p) /\ UNCHANGED pool
        ELSE pool' = pool \cup {p} /\ UNCHANGED txq
  /\ snd' = [snd EXCEPT ![s] = [at |-> "out", pages |-> {}]]
  /\ UNCHANGED <<rxq, frame, rcv, arrived>>

-----------------------------------------------------------------------------
(* recv *)

\* One finished buffer: its descriptor is freed and its page offered to the
\* device again, before it is read.
RecvPop ==
  /\ rcv.at = "out" /\ NetPopUsed(rxq) # <<>>
  /\ LET id   == NetPopOne(rxq)
         page == PageOf(rxq, id)
     IN /\ rxq' = NetEnqueue(NetFreeChain(Ring!Popped(rxq, 1), id), page)
        /\ rcv' = [at |-> "copy", page |-> page, was |-> frame[page], got |-> 0]
  /\ UNCHANGED <<txq, pool, frame, snd, arrived>>

\* The frame is copied to the caller.
RecvCopy ==
  /\ rcv.at = "copy"
  /\ rcv' = [rcv EXCEPT !.at = "done", !.got = frame[rcv.page]]
  /\ UNCHANGED <<rxq, txq, pool, frame, snd, arrived>>

RecvReturn ==
  /\ rcv.at = "done"
  /\ rcv' = Quiet
  /\ UNCHANGED <<rxq, txq, pool, frame, snd, arrived>>

-----------------------------------------------------------------------------
(* The device: external *)

DeviceSends ==
  /\ Ring!DeviceHasWork(txq)
  /\ txq' = Ring!DeviceUses(txq)
  /\ UNCHANGED <<rxq, pool, frame, snd, rcv, arrived>>

DeviceReceives ==
  /\ Ring!DeviceHasWork(rxq)
  /\ frame' = [frame EXCEPT ![PageOf(rxq, Ring!DeviceChain(rxq))] = arrived]
  /\ arrived' = 1 - arrived
  /\ rxq' = Ring!DeviceUses(rxq)
  /\ UNCHANGED <<txq, pool, snd, rcv>>

\* The two directions have nothing in common once the driver is initialised.
NetSendStep == DeviceSends \/ \E s \in NetSenders : SendReclaim(s) \/ SendAlloc(s) \/ SendQueue(s)
NetRecvStep == DeviceReceives \/ RecvPop \/ RecvCopy \/ RecvReturn

-----------------------------------------------------------------------------
\* No page of the driver is lost, free while it is queued, or in two places,
\* and every buffer of the receive queue goes back to the device: harts that
\* send at once take back each other's pages, queues are full and memory runs
\* out (send, recv, enqueue_chain, pop_used, free_chain).
PagesConserved ==
  LET queued(q) == PagesOf(q, Ring!Outstanding(q))
      held == SetToSeq(UNION {snd[s].pages : s \in NetSenders})
      all  == SetToSeq(pool) \o held \o queued(rxq) \o queued(txq)
  IN /\ Ring!Conserved(rxq, <<>>) /\ Ring!Conserved(txq, <<>>)
     /\ Len(all) = Cardinality(NetPages) /\ Range(all) = NetPages
     /\ Len(queued(rxq)) = RxBufCount

\* recv returns the frame that was in the buffer it took from the queue.  It
\* does not always: the buffer is the device's again before it is copied, and
\* the next frame may overwrite it.  No run checks it.
FrameIntact == rcv.at = "done" => rcv.got = rcv.was
=============================================================================
