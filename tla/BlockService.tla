---------------------------- MODULE BlockService ----------------------------
(***************************************************************************)
(* The block service: the reincarnation server (src/user/rs-server) starts *)
(* the drivers and starts them again when they crash, the virtio-blk       *)
(* driver (src/user/virtio-blk-driver) serves blocks from its virtqueue,   *)
(* and the file server calls it (VirtioBlkProxy and get_blockfs of         *)
(* src/user/vfs-server).  Rendezvous IPC, mailboxes, interrupts as         *)
(* messages, exit and waitpid do what the modules Rendezvous, Mailbox and  *)
(* WaitPid say, their windows included: a mailbox or a waitpid misses what *)
(* comes between its last look and its Stopped, and exit() takes a peer    *)
(* blocked in IPC out of its call without running it.  The device is       *)
(* external.                                                               *)
(***************************************************************************)
EXTENDS VirtQueue

CONSTANTS
  BlkNumbers, Written,   \* blocks of the device, and the values written to them
  BlkScenes          \* how many crashes, failing spawns, stray messages and
                     \* configuration changes there may be, and which blocks are used

Drivers == {"net", "blk"}
Values  == {0} \cup Written

VARIABLES
  rs,      \* rs-server: where it is, for which driver, and its pid map
  drv,     \* driver -> its process: state, incarnation (its pid), exit status,
           \* and the reply in its mailbox
  mail,    \* rs-server's mailbox: registrations and stray messages
  kern,    \* BLK_SERVER_PID, IRQ_HANDLERS and the PLIC's enable bit, for the driver
  irqs,    \* interrupt messages the driver has not received
  q,       \* the driver's virtqueue
  job,     \* do_rw: where it is, and for what
  mem,     \* the driver's bounce buffer and status byte
  dev,     \* the device: whether it exists, its ISR, its blocks
  vfs,     \* the file server's call, and the driver pid it has cached
  left     \* faults still to come

blkVars == <<rs, drv, mail, kern, irqs, q, job, mem, dev, vfs, left>>

Idle == [at |-> "idle", op |-> "read", blk |-> 0, head |-> 0, ok |-> FALSE]

NoCall(pid, last) ==
  [at |-> "idle", pid |-> pid, to |-> 0, op |-> "read", blk |-> 0, val |-> 0, ok |-> FALSE, last |-> last]

\* The boot; a scene in which blocks are used starts when net-smoltcp is up.
BlkInit ==
  /\ left \in BlkScenes
  /\ LET early == left.blocks = {}
         none  == [st |-> "none", n |-> 0, status |-> 0, told |-> "no"]
     IN /\ rs = [at |-> "spawn", of |-> IF early THEN "net" ELSE "blk", boot |-> TRUE,
                 pids |-> IF early THEN {} ELSE {"net"}]
        /\ drv = [d \in Drivers |-> IF early \/ d = "blk" THEN none
                                    ELSE [st |-> "up", n |-> 1, status |-> 0, told |-> "ok"]]
  /\ mail = <<>>
  /\ kern = [blkPid |-> 0, irqTo |-> 0, irqOn |-> FALSE]
  /\ irqs = 0 /\ q = NewQueue /\ job = Idle
  /\ mem = [bounce |-> 0, stat |-> "pending"]
  /\ \E p \in BOOLEAN : dev = [present |-> p, isr |-> FALSE, disk |-> [b \in BlkNumbers |-> 0]]
  /\ vfs = NoCall(0, [b \in BlkNumbers |-> {0}])

Alive(d) == drv[d].st \in {"start", "asks", "listens", "stopped", "up"}

-----------------------------------------------------------------------------
(* rs-server *)

\* Where main goes on after a driver: net-smoltcp, virtio-blk-driver, the loop.
RsContinues(r) ==
  IF r.boot /\ r.of = "net" THEN [r EXCEPT !.at = "spawn", !.of = "blk"]
  ELSE [r EXCEPT !.at = "wait", !.boot = FALSE]

Starts(d) == drv' = [drv EXCEPT ![d] = [st |-> "start", n |-> @.n + 1, status |-> 0, told |-> "no"]]

\* Faulty variant: the new pid is not entered in the map.
RsSpawnUnlisted ==
  /\ rs.at = "spawn"
  /\ Starts(rs.of)
  /\ rs' = [rs EXCEPT !.at = "await"]
  /\ UNCHANGED <<mail, kern, irqs, q, job, mem, dev, vfs, left>>

RsSpawn ==
  /\ rs.at = "spawn"
  /\ Starts(rs.of)
  /\ rs' = [rs EXCEPT !.at = "await", !.pids = @ \cup {rs.of}]
  /\ UNCHANGED <<mail, kern, irqs, q, job, mem, dev, vfs, left>>

\* spawn_with_caps returned no pid: nothing is awaited, nothing retried.
RsSpawnFails ==
  /\ rs.at = "spawn" /\ left.fails > 0
  /\ rs' = RsContinues(rs)
  /\ left' = [left EXCEPT !.fails = @ - 1, !.failed = TRUE]
  /\ UNCHANGED <<drv, mail, kern, irqs, q, job, mem, dev, vfs>>

\* A driver's reply goes to its mailbox, and wakes it if it has stopped there.
Told(d, reply) ==
  IF Alive(d)
  THEN [drv EXCEPT ![d].told = reply, ![d].st = IF @ = "stopped" THEN "asks" ELSE @]
  ELSE drv

\* await_registration: the next message, whoever sent it, is answered to the
\* driver just spawned; one that is short or has another opcode, to its sender.
AwaitRegistration ==
  /\ rs.at = "await" /\ mail # <<>>
  /\ mail' = Tail(mail)
  /\ drv' = CASE Head(mail) \in Drivers -> Told(rs.of, "ok")
              [] Head(mail) = "malformed" -> Told(rs.of, "err")
              [] Head(mail) = "short" -> drv
  /\ rs' = RsContinues(rs)
  /\ UNCHANGED <<kern, irqs, q, job, mem, dev, vfs, left>>

\* Nothing to receive, or no dead child: rs-server stops, two steps after it
\* has looked.
RsLooks ==
  /\ \/ rs.at = "await" /\ mail = <<>>
     \/ rs.at = "wait" /\ \E d \in Drivers : Alive(d)
  /\ \A d \in Drivers : rs.at = "wait" => drv[d].st # "zombie"
  /\ rs' = [rs EXCEPT !.at = IF @ = "await" THEN "listens" ELSE "armed"]
  /\ UNCHANGED <<drv, mail, kern, irqs, q, job, mem, dev, vfs, left>>

RsStops ==
  /\ rs.at \in {"listens", "armed"}
  /\ rs' = [rs EXCEPT !.at = IF @ = "listens" THEN "stopped" ELSE "asleep"]
  /\ UNCHANGED <<drv, mail, kern, irqs, q, job, mem, dev, vfs, left>>

\* waitpid(-1): a driver of the map that failed is spawned again.
RsReaps(d) ==
  /\ rs.at = "wait" /\ drv[d].st = "zombie"
  /\ drv' = [drv EXCEPT ![d].st = "none"]
  /\ rs' = [rs EXCEPT !.pids = @ \ {d}, !.of = d,
                      !.at = IF d \in rs.pids /\ drv[d].status # 0 THEN "spawn" ELSE "wait"]
  /\ UNCHANGED <<mail, kern, irqs, q, job, mem, dev, vfs, left>>

\* A message wakes a process that has stopped at its mailbox.
Mails(m) ==
  /\ mail' = Append(mail, m)
  /\ rs' = [rs EXCEPT !.at = IF @ = "stopped" THEN "await" ELSE @]

\* Another process writes to rs-server: no opcode, another opcode, or a
\* descriptor that cannot be read.
StrayMail(m) ==
  /\ left.strays > 0 /\ left' = [left EXCEPT !.strays = @ - 1]
  /\ Mails(m)
  /\ UNCHANGED <<drv, kern, irqs, q, job, mem, dev, vfs>>

-----------------------------------------------------------------------------
(* A driver's life *)

\* The driver's process ends: its interrupt handler goes, its parent is woken
\* if it has stopped, in waitpid or at its mailbox.  A caller blocked on it is
\* taken out of the call, but it is not Stopped, so nothing runs it again.
Exits(d, status) ==
  /\ drv' = [drv EXCEPT ![d].st = "zombie", ![d].status = status]
  /\ rs' = [rs EXCEPT !.at = CASE @ = "asleep" -> "wait"
                               [] @ = "stopped" -> "await"
                               [] @ \notin {"asleep", "stopped"} -> @]
  /\ IF d = "blk"
     THEN /\ kern' = [kern EXCEPT !.irqTo = 0]
          /\ irqs' = 0 /\ job' = Idle
          /\ vfs' = IF vfs.at \in {"calling", "served"} THEN [vfs EXCEPT !.at = "stranded"] ELSE vfs
     ELSE UNCHANGED <<kern, irqs, job, vfs>>

\* It probes, which resets the device and its queue, and asks to register.
DriverRegisters(d) ==
  /\ drv[d].st = "start"
  /\ Mails(d)
  /\ drv' = [drv EXCEPT ![d].st = "asks"]
  /\ IF d = "blk" /\ dev.present
     THEN q' = NewQueue /\ dev' = [dev EXCEPT !.isr = FALSE]
     ELSE UNCHANGED <<q, dev>>
  /\ UNCHANGED <<kern, irqs, job, mem, vfs, left>>

\* ipc_recv of the reply: no message yet, and Stopped a step later.
DriverWaits(d) ==
  /\ \/ drv[d].st = "asks" /\ drv[d].told = "no" /\ drv' = [drv EXCEPT ![d].st = "listens"]
     \/ drv[d].st = "listens" /\ drv' = [drv EXCEPT ![d].st = "stopped"]
  /\ UNCHANGED <<rs, mail, kern, irqs, q, job, mem, dev, vfs, left>>

\* Told, it takes the interrupt and announces itself; the block driver ends
\* without a device, or refused.  net-smoltcp goes on either way.
DriverReady(d) ==
  /\ drv[d].st = "asks" /\ drv[d].told # "no"
  /\ IF d = "blk" /\ (~dev.present \/ drv[d].told = "err")
     THEN Exits(d, IF dev.present THEN 1 ELSE 0)
     ELSE /\ drv' = [drv EXCEPT ![d].st = "up"]
          /\ kern' = IF d = "blk" THEN [blkPid |-> drv[d].n, irqTo |-> drv[d].n, irqOn |-> TRUE] ELSE kern
          /\ UNCHANGED <<rs, irqs, job, vfs>>
  /\ UNCHANGED <<mail, q, mem, dev, left>>

Crash(d) ==
  /\ left.crashes > 0 /\ Alive(d)
  /\ left' = [left EXCEPT !.crashes = @ - 1]
  /\ Exits(d, 1)
  /\ UNCHANGED <<mail, q, mem, dev>>

-----------------------------------------------------------------------------
(* The driver at work *)

\* main's loop outside a request: a stray interrupt is acknowledged.
SpuriousInterrupt ==
  /\ drv["blk"].st = "up" /\ job.at = "idle" /\ irqs > 0
  /\ irqs' = irqs - 1
  /\ dev' = [dev EXCEPT !.isr = FALSE]
  /\ kern' = [kern EXCEPT !.irqOn = TRUE]
  /\ UNCHANGED <<rs, drv, mail, q, job, mem, vfs, left>>

\* OP_BLOCK_READ, OP_BLOCK_WRITE, into do_rw: header, buffer and status byte go
\* on the queue as one chain, and the device is notified.
ServeRequest ==
  /\ drv["blk"].st = "up" /\ job.at = "idle"
  /\ vfs.at = "calling"
  /\ vfs' = [vfs EXCEPT !.at = "served"]
  /\ mem' = [bounce |-> IF vfs.op = "write" THEN vfs.val ELSE mem.bounce, stat |-> "pending"]
  /\ IF CanEnqueue(q, 3)
     THEN /\ q' = EnqueueChain(q, <<<<vfs.op, vfs.blk>>, <<"bounce", 0>>, <<"stat", 0>>>>)
          /\ job' = [at |-> "wait", op |-> vfs.op, blk |-> vfs.blk, head |-> NextHead(q), ok |-> FALSE]
     ELSE UNCHANGED q /\ job' = [Idle EXCEPT !.at = "done", !.op = vfs.op, !.blk = vfs.blk]
  /\ UNCHANGED <<rs, drv, mail, kern, irqs, dev, left>>

Goes(at) == job' = [job EXCEPT !.at = at]

\* Every finished chain is freed; the request is done if its own was among them.
PopAll(done, notYet) ==
  LET popped == PopUsed(q)
      freed  == FoldLeft(FreeChain, q, popped)
  IN /\ q' = Popped(freed, Len(popped))
     /\ Goes(IF job.head \in Range(popped) THEN done ELSE notYet)

\* do_rw waits: an interrupt is acknowledged at the device; then the queue is
\* looked at and the interrupt enabled again.
DoRw ==
  /\ \/ /\ job.at = "wait" /\ irqs > 0
        /\ irqs' = irqs - 1
        /\ dev' = [dev EXCEPT !.isr = FALSE]
        /\ Goes("acked")
        /\ UNCHANGED <<kern, q>>
     \/ /\ job.at = "acked"
        /\ PopAll("done", "wait")
        /\ kern' = [kern EXCEPT !.irqOn = TRUE]
        /\ UNCHANGED <<dev, irqs>>
  /\ UNCHANGED <<rs, drv, mail, mem, vfs, left>>

\* Faulty variant: the status byte is not looked at.
ReplyUnchecked ==
  /\ job.at = "done"
  /\ job' = Idle
  /\ vfs' = [vfs EXCEPT !.at = "done", !.ok = TRUE, !.val = IF job.op = "read" THEN mem.bounce ELSE @]
  /\ mem' = [mem EXCEPT !.stat = "pending"]
  /\ UNCHANGED <<rs, drv, mail, kern, irqs, q, dev, left>>

\* The answer: what the status byte says, and for a read the bounce buffer.
\* The status byte's page is freed.
Reply ==
  /\ job.at = "done"
  /\ job' = Idle
  /\ vfs' = [vfs EXCEPT !.at = "done", !.ok = (mem.stat = "ok"),
                        !.val = IF job.op = "read" THEN mem.bounce ELSE @]
  /\ mem' = [mem EXCEPT !.stat = "pending"]
  /\ UNCHANGED <<rs, drv, mail, kern, irqs, q, dev, left>>

-----------------------------------------------------------------------------
(* The device and the interrupt *)

DeviceDoes(ok) ==
  /\ dev.present /\ DeviceHasWork(q)
  /\ LET req == q.desc[DeviceChain(q)].buf
     IN /\ mem' = [bounce |-> IF ok /\ req[1] = "read" THEN dev.disk[req[2]] ELSE mem.bounce,
                   stat   |-> IF ok THEN "ok" ELSE "bad"]
        /\ dev' = [dev EXCEPT !.isr = TRUE,
                     !.disk = IF ok /\ req[1] = "write" THEN [@ EXCEPT ![req[2]] = mem.bounce] ELSE @]
  /\ q' = DeviceUses(q)
  /\ UNCHANGED <<rs, drv, mail, kern, irqs, job, vfs, left>>

\* The device reports a change of its configuration.
DeviceConfig ==
  /\ dev.present /\ left.configs > 0 /\ ~dev.isr
  /\ dev' = [dev EXCEPT !.isr = TRUE]
  /\ left' = [left EXCEPT !.configs = @ - 1]
  /\ UNCHANGED <<rs, drv, mail, kern, irqs, q, job, mem, vfs>>

\* The kernel masks the interrupt and sends it to the driver as a message.
Interrupt ==
  /\ dev.isr /\ kern.irqOn /\ kern.irqTo # 0
  /\ kern' = [kern EXCEPT !.irqOn = FALSE]
  /\ irqs' = irqs + 1
  /\ UNCHANGED <<rs, drv, mail, q, job, mem, dev, vfs, left>>

-----------------------------------------------------------------------------
(* The file server *)

Driver == IF vfs.pid # 0 THEN vfs.pid ELSE kern.blkPid

\* read_block, write_block.  The first call of a mount reads.  A call to a
\* driver that is gone fails at once and changes nothing; one to a driver that
\* is dead and not yet reaped joins its senders, whom nobody receives from.
VfsCalls(op, b, v) ==
  /\ vfs.at = "idle"
  /\ vfs.pid = 0 => op = "read"
  /\ Driver # 0 /\ Driver = drv["blk"].n /\ drv["blk"].st \in {"up", "zombie"}
  /\ vfs' = [vfs EXCEPT !.at = IF drv["blk"].st = "up" THEN "calling" ELSE "stranded",
                        !.to = Driver, !.op = op, !.blk = b, !.val = v]
  /\ UNCHANGED <<rs, drv, mail, kern, irqs, q, job, mem, dev, left>>

\* The call returns; a mount that succeeds keeps the driver's pid for good.
VfsReturns ==
  /\ vfs.at = "done"
  /\ vfs' = NoCall(IF vfs.ok THEN vfs.to ELSE vfs.pid,
                   [vfs.last EXCEPT ![vfs.blk] = IF vfs.op = "read" THEN @
                                                 ELSE IF vfs.ok THEN {vfs.val} ELSE @ \cup {vfs.val}])
  /\ UNCHANGED <<rs, drv, mail, kern, irqs, q, job, mem, dev, left>>

BlkStep ==
  \/ RsSpawn \/ RsSpawnFails \/ AwaitRegistration \/ RsLooks \/ RsStops
  \/ \E d \in Drivers : RsReaps(d) \/ DriverRegisters(d) \/ DriverWaits(d) \/ DriverReady(d) \/ Crash(d)
  \/ \E m \in {"short", "malformed"} : StrayMail(m)
  \/ SpuriousInterrupt \/ ServeRequest \/ DoRw \/ Reply
  \/ \E ok \in BOOLEAN : DeviceDoes(ok)
  \/ DeviceConfig \/ Interrupt \/ VfsReturns
  \/ \E b \in left.blocks : VfsCalls("read", b, 0) \/ \E v \in Written : VfsCalls("write", b, v)

\* What goes on by itself: processes that can run do, interrupts arrive, the
\* device finishes what it was given.
RsProgress     == RsSpawn \/ AwaitRegistration \/ RsLooks \/ RsStops \/ \E d \in Drivers : RsReaps(d)
LifeProgress(d) == DriverRegisters(d) \/ DriverWaits(d) \/ DriverReady(d)
DriverProgress == SpuriousInterrupt \/ DoRw \/ Reply
DeviceProgress == \E ok \in BOOLEAN : DeviceDoes(ok)

-----------------------------------------------------------------------------
BlkTypeOK ==
  /\ rs.at \in {"spawn", "await", "listens", "stopped", "wait", "armed", "asleep"} /\ rs.of \in Drivers /\ rs.pids \subseteq Drivers
  /\ mail \in Seq(Drivers \cup {"short", "malformed"})
  /\ \A d \in Drivers : drv[d].st \in {"none", "start", "asks", "listens", "stopped", "up", "zombie"}
  /\ irqs \in 0..1 /\ kern.irqOn \in BOOLEAN
  /\ job.at \in {"idle", "wait", "acked", "done"}
  /\ mem.bounce \in Values
  /\ vfs.at \in {"idle", "calling", "served", "done", "stranded"}

\* The driver loses no descriptor and none is in two chains, however often the
\* ring's indices wrap and wherever interrupts fall (enqueue_chain, pop_used,
\* free_chain).
DescriptorsConserved == Alive("blk") /\ drv["blk"].st # "start" => Conserved(q, <<>>)

\* A read that succeeds returns what the last successful write stored, or what
\* a write that failed since then may have stored: a stray interrupt never
\* ends a request early, nor does a crash of the driver mix two requests
\* (do_rw, OP_BLOCK_READ, OP_BLOCK_WRITE).
ReadsWhatWasWritten ==
  (vfs.at = "done" /\ vfs.op = "read" /\ vfs.ok) => vfs.val \in vfs.last[vfs.blk]

\* Every call of the file server to the driver returns while the driver lives:
\* no completion is missed between acknowledging an interrupt and enabling the
\* next (do_rw).  A call whose driver dies strands the file server.
CallsReturn == (vfs.at \in {"calling", "served"}) ~> (vfs.at \in {"idle", "stranded"})

\* rs-server waits for a registration that never comes: the driver it spawned
\* died before it sent it.
AwaitsForever == rs.at = "stopped" /\ mail = <<>> /\ drv[rs.of].st = "zombie"

\* A process is stopped beside what it waits for, which came in the window of
\* its call: a dead driver, a registration, a reply.
Missed ==
  \/ rs.at = "asleep" /\ \E d \in Drivers : drv[d].st = "zombie"
  \/ rs.at = "stopped" /\ mail # <<>>
  \/ \E d \in Drivers : drv[d].st = "stopped" /\ drv[d].told # "no"

\* A driver waits for the reply to a registration that rs-server did not take,
\* because a stray message came first.
Unanswered == \E d \in Drivers : drv[d].st = "stopped" /\ Contains(mail, d) /\ rs.at \in {"wait", "armed", "asleep"}

\* A driver that crashes is started again, every time, unless a spawn failed,
\* there is no device, or rs-server or the driver is held up in one of the ways
\* above (main, await_registration, register_with_rs).
DriverComesBack ==
  \A d \in Drivers :
    (drv[d].st = "zombie" /\ drv[d].status # 0)
      ~> (drv[d].st = "up" \/ left.failed \/ ~dev.present \/ AwaitsForever \/ Missed \/ Unanswered)
=============================================================================
