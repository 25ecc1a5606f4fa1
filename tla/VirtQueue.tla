----------------------------- MODULE VirtQueue -----------------------------
(***************************************************************************)
(* A split virtqueue, as the block driver in user space                    *)
(* (src/user/virtio-blk-driver/src/virtqueue.rs) and the network driver in *)
(* the kernel (src/src/net/virtqueue.rs, the same code) use it.  A queue   *)
(* is a record:                                                            *)
(*   free           free_list, popped and pushed at its end                *)
(*   desc           descriptor -> [buf, next]; next is End at the end of   *)
(*                  a chain                                                *)
(*   avail, availIdx  the ring of chains offered to the device             *)
(*   seen           how far the device has read it (the device's own)      *)
(*   used, usedIdx  the ring of chains the device has finished             *)
(*   last           last_used_idx                                          *)
(* The indices count modulo IndexRange (2^16 in the code).                 *)
(***************************************************************************)
EXTENDS Integers, Sequences, FiniteSets, SequencesExt

CONSTANTS QueueSize, IndexRange

ASSUME QueueAssumption ==
  QueueSize \in Nat \ {0} /\ IndexRange \in Nat \ {0} /\ IndexRange % QueueSize = 0

Descriptors == 0..(QueueSize - 1)
End  == -1
NoDescriptor == [buf |-> <<"none", 0>>, next |-> End]

NewQueue ==
  [free |-> [i \in 1..QueueSize |-> i - 1],
   desc |-> [d \in Descriptors |-> NoDescriptor],
   avail |-> [k \in Descriptors |-> 0], availIdx |-> 0, seen |-> 0,
   used |-> [k \in Descriptors |-> 0], usedIdx |-> 0, last |-> 0]

CanEnqueue(q, n) == Len(q.free) >= n

\* The descriptor the next chain starts at.
NextHead(q) == Last(q.free)

\* enqueue_chain, once there are enough free descriptors.
EnqueueChain(q, bufs) ==
  LET n     == Len(bufs)
      id(i) == q.free[Len(q.free) + 1 - i]
      new   == [d \in {id(i) : i \in 1..n} |->
                  LET i == CHOOSE i \in 1..n : id(i) = d
                  IN [buf |-> bufs[i], next |-> IF i < n THEN id(i + 1) ELSE End]]
  IN [q EXCEPT !.free = SubSeq(@, 1, Len(@) - n),
               !.desc = new @@ @,
               !.avail[q.availIdx % QueueSize] = id(1),
               !.availIdx = (@ + 1) % IndexRange]

\* read_chain, free_chain: the descriptors from one on, following next.
RECURSIVE Chain(_, _)
Chain(q, d) == IF q.desc[d].next = End THEN <<d>> ELSE <<d>> \o Chain(q, q.desc[d].next)

\* Faulty variant: only the first descriptor is freed.
FreeHeadOnly(q, d) == [q EXCEPT !.free = Append(@, d), !.desc[d] = NoDescriptor]

\* What a free descriptor holds is never read again, and is not kept.
FreeChain(q, d) ==
  LET chain == Chain(q, d)
  IN [q EXCEPT !.free = @ \o chain,
               !.desc = [c \in Range(chain) |-> NoDescriptor] @@ @]

Between(from, to) == (to - from) % IndexRange
RingPart(ring, from, to) == [i \in 1..Between(from, to) |-> ring[(from + i - 1) % QueueSize]]

\* pop_used: the finished chains not looked at yet.
PopUsed(q) == RingPart(q.used, q.last, q.usedIdx)
Popped(q, n) == [q EXCEPT !.last = (@ + n) % IndexRange]

-----------------------------------------------------------------------------
(* The device: external *)

DeviceHasWork(q) == q.seen # q.availIdx
DeviceChain(q) == q.avail[q.seen % QueueSize]

\* It finishes the oldest chain on offer.
DeviceUses(q) ==
  [q EXCEPT !.seen = (@ + 1) % IndexRange,
            !.used[q.usedIdx % QueueSize] = DeviceChain(q),
            !.usedIdx = (@ + 1) % IndexRange]

-----------------------------------------------------------------------------
\* The descriptors the driver does not have: in chains on offer, finished, or
\* popped and not freed yet.
Outstanding(q) == RingPart(q.avail, q.seen, q.availIdx) \o PopUsed(q)

\* Every descriptor is in the free list or in exactly one such chain, once.
Conserved(q, popped) ==
  LET chains == Outstanding(q) \o popped
      all    == q.free \o FlattenSeq([i \in DOMAIN chains |-> Chain(q, chains[i])])
  IN Len(all) = QueueSize /\ Range(all) = Descriptors
=============================================================================
