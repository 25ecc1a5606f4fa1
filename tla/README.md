# TLA+ models of openv

openv is a RISC-V 64 microkernel operating system in Rust: a multi-hart kernel
(`src/src`) with rendezvous IPC, channels and POSIX-like processes, and
user-space servers and drivers (`src/user`).  This directory holds TLA+ models
of its components, the TLC runs that check them on small instances, and TLAPS
proofs of the results that matter most.  `PROJECT.json` lists the runs, the
source lines behind every definition, the hazards and the theorems.

Paths below are relative to `src/src` (kernel) or `src/user` (user space).

## The system and its parts

| part | code | state it keeps | what makes it hard |
|---|---|---|---|
| Rendezvous IPC | `syscall/ipc.rs`, `posix/spawn.rs` | per process `ipc_state`, `senders`, `irq_pending` | a partner may exit, be killed or be interrupted at any point of the rendezvous |
| Scheduler | `posix/process.rs`, `trap/interrupt.rs` | `RUN_QUEUE`, `SLEEP_QUEUE`, `CURRENT_PIDS`, process states | harts pop, preempt, idle and kill concurrently; `schedule()` never returns |
| Process tree | `posix/spawn.rs`, `syscall/proc.rs` | `ppid`, `children`, `wait_result`, states | `exit()` and `waitpid` release the table between their phases |
| Channels, ports, wait_one | `ipc/channel.rs`, `ipc/port.rs` | message queue, waiter word, signal waiters, observers | register / look again / block against write, close and signals |
| Pipes, terminals, mailboxes, futexes | `syscall/fs.rs`, `ipc/handle.rs`, `tty.rs`, `trap/interrupt.rs`, `syscall/proc.rs` | data, waiter words, open-end counts | the same, with an interrupt handler as a writer |
| Epoll | `syscall/epoll.rs` | items, last states, waiter word, saved mask | readiness changes between the look and the sleep; stale timers |
| Kernel locks | `sync.rs`, `smp.rs` | the spin lock and its owner word | the owner word is written apart from the lock |
| Memory | `mm/`, `trap/page_fault.rs`, `syscall/vm.rs`, `smp.rs` | frames and counts, page tables, swap map, VMOs | copy-on-write and unmapping on several harts |
| Handles, file locks, signals, threads | `ipc/handle.rs`, `syscall/ipc.rs`, `syscall/proc.rs`, `trap/mod.rs` | tables per process and per system | inherited, transferred and released on several paths |
| OFS journal and files | `vfs-server/src/blockfs.rs` | journal, inodes, bitmaps, directories, inode cache | crashes and failed writes between any two block writes |
| VFS server | `vfs-server/src/main.rs` | directory trees, open table, mounts | requests over four kinds of file |
| devfs, procfs, component manager, init | `devfs-server/`, `procfs-server/`, `component-manager/`, `init/` | names, children | requests queue while a server waits for another |
| RS and the block driver | `rs-server/`, `virtio-blk-driver/` | driver registry, virtqueue, request in flight | a driver crashes while it is being restarted |
| PM server | `pm-server/`, `syscall/pm.rs` | a second process table | waits and exits arrive in either order |
| Network | `net/`, `syscall/net.rs`, `net-smoltcp/` | socket registry, proxies, virtqueues | device, driver, daemon and process each take a part |
| Trace points | `trace.rs` | programs, a ring | fired on several harts while programs come and go |
| Shell, nano, pkg | `sh/`, `pkg/` | descriptors, the line, the text, manifests | failures and kills between two steps |

How they interact.  A system call runs to completion on its hart under the
locks it takes.  A call that must wait stores its pid where a waker will find
it, rewinds `sepc` by one instruction and calls `schedule()`, which picks
another process and never returns to the caller; when the process is enqueued
again and popped it executes the call from the top.  Servers are ordinary
processes reached by rendezvous IPC.  Interrupts become messages to the
registered driver.  `exit()` and `kill` reach into the state of every other
part.

## Modules

A composition is one specification in which `scene`, chosen in the initial state,
says which part is at work; the others keep their initial states.  It is used for
parts that share no state the models have, and lets one run check several of them.

| module | models | composed by |
|---|---|---|
| `Rendezvous` | `sys_ipc_send`, `sys_ipc_receive`, `sys_ipc_sendrec`, `kernel_send_msg`, IRQ registration, the IPC phases of `exit()`, kill, EINTR, PM-driven fork and reap | |
| `Sched` | `schedule()`, both enqueue functions, `wake_sleepers`, timer path, yield, nanosleep, setpriority, exit, kill, reap | `MCProcesses` |
| `WaitPid` | fork, the table phases of `exit()`, every lock section of `sys_waitpid`, `reap_zombie` | `MCProcesses` |
| `PmServer` | fork, wait and exit requests of the process manager, its table beside the kernel's | `MCProcesses` |
| `KernelMutex` | `lock`, `try_lock`, the drop of a guard | `MCProcesses` |
| `Wakeups` | how a call blocks, is enqueued and is executed again | extended by the next six |
| `Epoll`, `Channel`, `Pipe`, `Futex`, `Mailbox`, `Tty` | one kernel object each | `BlockingIo` |
| `PrivateSpaces` | abstract: a private memory per address space | |
| `Memory` | frames, page tables, TLBs, faults, fork, clone, exec, reaping, datacopy, swap, memory objects; implements `PrivateSpaces` | |
| `PageCodec` | the run-length code of a swapped page | `MCUserland` |
| `HandlesAndLocks`, `Signals` | the operators on a handle table, on the locks of a file, on masks and pending signals | `Calls` |
| `Calls` | the system calls on them, with fork, exec, threads, exit, sleeping and waiting | `MCUserland` |
| `AtomicStore` | abstract: a store with a buffer, an atomic commit and crashes | |
| `OfsJournal` | `write_blk`, `read_blk`, `commit_txn`, `journal_replay`, mount; implements `AtomicStore` | `MCStorage` |
| `OfsFiles` | inodes, block maps, directories, paths, allocation, as operators on a disk; the cache of decoded inodes, with actions of its own | `Vfs`, `MCStorage` |
| `Vfs` | every request of the file server that changes state, on the tree, the initrd and OFS | `MCStorage` |
| `VirtQueue` | descriptors and rings with indices that wrap | `BlockService`, `VirtioNet` |
| `BlockService` | rs-server, the block driver, its device and the file server that calls it | `MCServices` |
| `Servers` | devfs, procfs, the component manager, and how the VFS server forwards to them; init | `MCServices` |
| `Sockets` | the socket registry, the socket calls, the network daemon | `MCUserland` |
| `VirtioNet` | initialisation, `send` and `recv` of the network driver | `MCUserland` |
| `Trace` | loading, attaching, firing and reading trace points | `MCUserland` |
| `Shell` | pipelines and redirection; expansion and parsing; the line editor; the text editor | `MCUserland` |
| `Pkg` | installing and removing packages; Huffman trees and the streaming decompressor | `MCUserland` |
| `RendezvousProofs`, `RendezvousQueues`, `SchedProofs`, `OfsJournalProofs` | theorems about `Rendezvous`, about `Sched` and `KernelMutex`, about `OfsJournal` | |
| `BlockingIoProofs`, `WakeupProofs`, `ChannelProofs` | theorems about `BlockingIo`: types, masks and sleepers; pipe, futex and terminal; channel, port and signals | |
| `ServersProofs` | theorems about `Servers`: the answers clients get, and init's shell | |
| `MC*` | sets and programs for TLC, and the compositions `MCProcesses`, `MCStorage`, `MCServices`, `MCUserland` | |

What is a step.  A step is a lock section or an access to an atomic.  The IPC
handlers hold `PROCESS_TABLE` from their first to their last access of shared
state, so each is one action.  `exit()`, `sys_waitpid`, `schedule()`,
`sys_nanosleep` and the register / look again / block calls release their locks
in between, so each section is an action and a program counter (`pc`, `dying`,
`exiting`) says how far a process or hart has come.  Block writes of the
journal are one request to the driver each, and one action each.

What is abstracted.  Messages are a source and a sequence number, bytes of a
pipe a count, characters one of three kinds, blocks one of a few values.  User
pointers are valid or not (`PtrOutcomes`).  Time is the order of events: a
deadline may pass at any moment after it was set.

### Rendezvous

`ipc`, `senders` and `irqPending` are the fields of `Process`; `tokens[p]`
counts the run-queue entries and harts that hold `p`; `call[p]` is the call a
blocked process executes again.  `delivered` and `acked` are history: what was
copied to whom, and which sends returned success.  A driver may register any pid of
`IrqPids` for the interrupt.  A zombie may be killed again once its first exit is over; two
exits of one process that overlap are left out.

### Sched

`at[h]` is the place of a hart, `on[h]` the process whose kernel stack it uses
(the code never switches stacks before it returns to user mode), `rq` the
run queue per priority, `asleep`, `due` and `todo` the entries of the sleep
queue before the deadline, after it, and in the hands of a `wake_sleepers`.  The timer's
look at the queue, its look at pending signals and the requeueing of the process are
three steps (`TimerReturns`, `TimerSignal`, `TimerPreempt`).

### WaitPid

`st`, `ppid`, `kids`, `waitResult`, `waitTarget` are fields of `Process`; `pc` and
`victim` the progress of a `waitpid`, `dying` that of an `exit()`.  `reports` is
history: what `waitpid` told whom, whether it came from the queue of results or from a
scan of the children, and how often the child was reported.

### BlockingIo and the objects

`may` is the program of a behaviour: the calls each process may make, picked
from `Programs` in the initial state, so that one run covers channel, pipe,
futex, terminal, mailbox and epoll scenarios.  `entries[p]` counts run-queue
entries, `stopped` holds the processes whose state is `Stopped`.  Of a channel
one direction is modelled, with every handle that keeps its endpoints alive
(`writers`, `readers`) and the references that a call leaves on a stack it never
unwinds (`leaked`).  Of epoll, `eintr` holds the processes a signal has taken out of
`epoll_pwait`, and `cut` (history) those whose last return left the mask of the call in force.

### OfsJournal

`disk`, `slots` and `hdr` are on the disk and survive a crash, `pending`, `pc`,
`targets` and `k` do not.  The refinement mapping takes `store` to what a mount
would recover from the disk, and `buffer` to `pending` until the commit marker
is written.

### Memory

`pmm` holds the counts, the free list and the contents of the frames, `table` and
`low` the leaves and lower levels below each root, `swap` the swap map, `shared`
the owners of a root (`SATP_REFCOUNT`), `tlb` and `ipi` what the harts have cached
and have been asked to flush.  Page tables have no lock, so a fault, an unmap, a
clone or a copy is a sequence of single accesses and `op[p]` says how far it has
come; `map_page` too looks at an entry and writes it in different steps (`MapWalk`,
`MapTable`, `MapWrite`), and `leaked` counts what such a write has overwritten.  A page table is its root, one frame for its lower levels and its leaves;
a page is one value, and a free frame holds `Poison`, so that a read through a
stale entry shows.  `may` is the program of a behaviour, as in `BlockingIo`.  The
refinement mapping takes a space to what its pages hold in memory, in the swap
map, or in a frame on its way back from there.

### KernelMutex

`inner` is the spin lock, `owner` the word beside it, `where[h]` how far a hart has
come with its use of the lock.  A hart may ask for a lock it holds, which is what
the owner word is for.  The other modules take the critical sections as atomic.

### PmServer

`tbl` is the server's table, `kproc` the kernel's, `asks` the requests on their way,
`client[p]` what a process is doing; `told` is history: the exits reported so far.
A kill ends a process in the kernel at any point and tells the server nothing.
The server handles one request a step, as its loop does.

### Calls

`sys` is one record with the fields of all processes that the calls read: handles,
locks and their queue, masks, pending signals, saved frames, threads, groups, parents.
`exit` is every phase of it but those of `Rendezvous` and `WaitPid`: the locks, the
cleared thread word, the children given to init, the hang-up of orphaned groups.  `waitpid` and
`mailbox_receive` step the program counter back before they sleep and are executed again;
nanosleep, futex and `F_SETLKW` do not.  `skipped` marks a process that a signal took out of one of
the latter, `shrunk` a file whose waiters nobody looked at when a lock of it was given up.
`may` is the program of a behaviour, one family of calls per program.

### Vfs and OfsFiles

`tree` holds the nodes of each namespace, `files` the open table, `mnt` the mounted
block file system: its inodes, bitmaps and directories on disk and, while a request
is served, what it has changed.  A request is one step that returns, fails, or
crashes after any of its commits; `last` is what it returned.  `bent` says what requests
have done to the tree of a namespace that the code permits and a file system should not:
`orphan`, when a directory with entries was removed or replaced, or something was renamed to a
path whose parent is missing; `twice`, when something was renamed onto a name that exists,
or a node was made at the path of a virtual directory; `moved`, when a directory with entries
was renamed, or the root was.  `TreeConsistent` has three clauses (what is listed is there, once, and
everything is listed), and each is given up only for the kinds that break it.  In the
cache an inode is a version number; the ring wraps.

### BlockService and Servers

In `BlockService` the driver's life, `do_rw`, the virtqueue and the device are
separate actors; `kern` holds the registrations the kernel keeps, `left` the crashes,
failed spawns and stray messages still to come.  The calls of rs-server and of the drivers
that wait (`waitpid`, the mailbox) look first and stop two steps later, so that an exit, a
registration or a reply in between is missed.  The file server that calls a driver which dies is
taken out of its call and never enqueued: it is `stranded`.  In `Servers`, `line[r]` is the queue
of senders that wait for receiver `r`, and `at[s]` what a server is doing; `asked` remembers
the state when a request was made, to compare its answer with.  Of init there are
the places of `main`, the children, some adopted, and the queue of results its `waitpid` takes
from, in the same windows.

### The parts of MCUserland

`Sockets` has the registry, the channels and the daemon's proxies, descriptors that are
used again and a process that may end between any two steps; bytes are numbered,
so that a lost, doubled or reordered one shows.  `VirtioNet` runs several senders and
one receiver over a bounded pool of pages.  `Trace` keeps every cell ever written as
history.  `PageCodec` fills a page.  `Shell` has four parts: a pipeline is composed
and compared with what the shell makes of its text; the descriptor tables of the shell and
of each child, with the queue of results its `waitpid` pops whatever child it names; the line editor's buffer beside what the terminal shows; nano's text and
cursor.  `Pkg` has the files and manifests on disk, the command under way, and the files that
nothing lists any more (`stray`), and for the
decompressor a tree under construction, or a stream beside the vector it should equal.

## Runs

| run | instance | shows |
|---|---|---|
| `ipc` | three processes, at most 2+1+1 sends, all sources; nobody exits | no wakeup, message or queue entry is lost, duplicated or misrouted; replies come from the callee |
| `ipc_faults` | a driver with one interrupt that may register another's pid, exit and be killed, also once dead; a PM clone that only receives, EINTR, bad pointers | a sender and a receiver that wait for each other still meet |
| `ipc_exit_strands` | one of three may exit | **violated**: a peer released by `exit()` is not enqueued |
| `processes` | two harts, two processes, two priorities, kills, a signal; init, parent and a child forked late, all targets; the PM server with up to two forked processes and one the kernel made; three harts on one lock | no live process drops out of the queues; zombies stay findable, orphans reach init, and a child is reported to its parent; one that `waitpid` finds by a scan is the one asked for and is reported for the first time (a queued result may be neither: `ReportedOnce`, `TargetRespected`); PM reports an exit once; the lock's deadlock report is right |
| `processes_fair` | two harts, three processes, two of which sleep, one priority; a family whose waits block, with a kill | nobody runs or is queued twice; everyone runs again and again; every zombie that is init's is eventually reaped, unless init's `waitpid` missed it |
| `waitpid_missed` | blocking waits | **violated**: a parent sleeps with the exit already reported |
| `storage` | three blocks, two slots, two values, failing writes before the marker, crashes anywhere; nine programs of requests; four cache entries | the journal implements `AtomicStore`; the tree and the disk stay consistent, a write changes the bytes it was asked to, what was reported done survives a crash; the cache returns current inodes until its ring wraps |
| `ofs_journal_error` | two blocks, failing writes after the marker | **violated**: a committed journal is overwritten by the next transaction |
| `blocking_io` | fifteen programs of up to three processes with three, two and one calls, three characters | no reader or waiter sleeps with its reason to wake present; no path out of `epoll_pwait` loses the caller's mask, and all but three put it back; sleepers are `Stopped` until they are enqueued |
| `memory` | thirteen programs of up to three processes, two pages, four to thirteen frames | counts match holders; write access is taken before a page is shared; no hart uses a stale translation; `Memory` implements `PrivateSpaces`.  Two threads that touch a page first at once may lose a frame, and nothing else does |
| `services` | a driver that crashes up to twice or serves two blocks, stray interrupts and messages; two clients with one or two requests; four children of init | descriptors are conserved, reads return what was written, answers fit their questions; a call returns while its driver lives; drivers and shells come back unless an exit, a registration or a reply fell into the window of a call, or a stray message took a registration's place |
| `userland` | seventeen programs of calls by three processes; a connection with bytes both ways, two connections to one or two sockets whose numbers are used again, an exit in the middle of an accept; two senders and five pages; three fires on two harts; pages of eight bytes; four command lines; lines of three words; two characters to edit; three packages; four symbols | the properties listed in `PROJECT.json` |

Bounds.  Three processes are needed for a queue of two, for a third party
acting between two others and for a child to change parents; no handler relates
more than three.  Two sends by one process are the least that can be reordered.
Two journal slots and three blocks give a transaction that fits, one that fills
the journal and one that does not fit.  Two harts show every race between a
running and another running hart; a third only repeats one of the two roles.
Three characters make a line, a character typed behind it and a backspace.
`MaxCalls` is 3 for the process that blocks, so that it can block, be woken by
an earlier call's waker and block again; the two calls of the second are the
least that write and then close, and the third interferes once.  Two pages are the least with a range, and
with one page mapped while another is not; the frames are enough for every call
to succeed in some behaviours and, but for exec, to fail for want of memory in
others.  The programs of `memory` leave out what "Observed outside the runs" lists.  Evictions
happen in programs with one thread per space, so that the flush of `try_evict_page`, which is
of its own hart only (`mm/swap.rs:209`), is not put to the test.

The third process of `processes_fair` never sleeps: it is the one that spins.

A program of `storage` has paths inside and outside a directory, through `..` and through
links; one direct block, two numbers per indirect block and five data blocks take a
file through all three levels and fill the disk; five journal slots run out in
the longest requests.  `QueueSize`, `IndexRange`, `RingSize`, `WindowSize` and `RunCap`
stand for the constants of the code and are small enough to wrap several times, with
the same divisibility (the index range is a multiple of the queue size, a count can
say one more than the longest run).  The queue of `services` has
four descriptors: the block driver makes one request of three at a time, and a chain it
left behind leaves too few for the next; that of the network driver wraps twice as often
as its indices.  The PM server's five pids leave two to fork, so
that a child outlives its parent and is adopted.  Four children are what init starts; each spawn
may fail, which leaves room for a second shell and for an orphan.  Two letters and two rows are
enough to split, join and scroll lines.  The packages form a cycle and share files.

Fairness.  `processes_fair` assumes that kernel code runs to completion (weak
fairness of `KernelStep`), that deadlines pass (weak fairness of `TimePasses`),
and that the 10 ms timer, which stays pending while interrupts are off, is taken
on one of the returns to user mode or stays in `wfi`, however short they are
(strong fairness of `TimerFires`); nothing is assumed of user code.  For the family
it assumes weak fairness of the steps of `exit()` and `waitpid` once they are under way,
and that init calls `waitpid(-1, 0)` again and again, as the loop of its `main` does
(init, the shell and rs-server all block, with options 0); no fairness is given to the
decision to exit, to fork, or of another process to wait.  `services` assumes that a server that can take a step
takes one, since the scheduler runs every process again and again, that the device
finishes what it was given, that interrupts arrive, and that an `exit()` under way notifies
the parent; crashes, stray interrupts and
exits have no fairness.  No other run uses fairness.

`CHECK_DEADLOCK FALSE` is set where a behaviour really ends: all processes
blocked or all bounded calls made.

## Proofs

Eight modules hold proofs.  "If" is a hypothesis of the theorem; where there is none the
statement holds for every value of the constants.

Rendezvous IPC (`RendezvousProofs`; from `NobodyIsStranded` on `RendezvousQueues`)

| theorem | statement | argument |
|---|---|---|
| `TypeCorrect` | `[]TypeOK` | one step per action; the typing of the IPC state constructors and queue operations are lemmas |
| `NoLostWakeup` | `[]NoMissedRendezvous` | inductive relative to `TypeOK`: an action leaves a receiver and its queues alone, ends its wait, or queues only what its filter rejects |
| `OneAtATime` | `[]OneActivity`, if nobody is cloned by PM | `CallInv`: the call a process executes again fits its IPC state, and it is on a hart or a queue at most once, and not while it is blocked.  Lemma `Steps` sums up every action as one of a dozen shapes (a call that fails, deposits, queues up, takes a deposit, ...), which the theorems below reuse |
| `ArrivesInOrder` | `[]DeliveredInOrder`, if nobody is cloned by PM | `OrderInv`: what is deposited or delivered was sent before what its sender still holds, and a deposit is newer than all its receiver got and in nobody else's hands |
| `NobodyIsStranded` | `[]UnblockedIsRunnable`, if nobody exits, is killed or cloned | `QueueInv` (each queued sender once, off the run queue), `Calm` (nobody starts to exit) and `RunInv` |
| `QueuesAgree` | `[]QueuesMatchStates`, if besides receivers pass good pointers | `AgreeInv`: queued at `q` exactly when `Sending` to `q` |
| `SendsArrive` | `[]SendHandedOver`, under the same | `HandInv`: besides what was acknowledged, what is about to be was handed over, and what lies in the IPC state of a process that is in no call is an interrupt at most |
| `RepliesAreTheCallees` | `[]ReplyFromCallee`, if nobody takes interrupts or is cloned, and pointers are good | `NoIrq` and `ReplyInv`: a deposit answers the call that is under way, and the answer to a `sendrec` is from the process it names |

Scheduler and locks (`SchedProofs`)

| theorem | statement | argument |
|---|---|---|
| `SchedTypeCorrect` | `[]SchedTypeOK` | one step per action |
| `NobodyIsForgotten` | `[]NotForgotten` | `HartInv` (an idle hart holds no pid, nothing is left over from the last `wake_sleepers`) and `ForgottenInv` (only what has exited is a zombie or gone, so `schedule()` drops nothing else) |
| `NobodyIsTwice` | `[]NoPhantomEntry`, if there are no signals | `OnceInv`: one queue entry, one sleep entry, one hart, one waker, and only one of these four |
| `LockIsRight` | `[]OnlyRecursionPanics` | the property says nothing of the owner word, so it is not inductive: `LockInv` adds that the word names a hart exactly between that hart's two writes of it |

Kernel objects (`BlockingIoProofs`, `WakeupProofs`, `ChannelProofs`)

| theorem | statement | argument |
|---|---|---|
| `TypeCorrect` | `[]TypeOK` | `FlowInv`, `BaseInv`: each place of a call belongs to that call, and a call to the program of its process; a step of one object moves only processes in that object's calls |
| `SleepersAreStopped` | `[]SleeperIsStopped` | inductive relative to `BaseInv`: who stores `Running` also enqueues |
| `MasksAreKept` | `[]PwaitMaskKept`, if one process at most waits on the epoll instance | `MaskInv`: a foreign mask is worn only inside `epoll_pwait` or after EINTR, EBADF or EFAULT, and then the own one is saved in the instance |
| `WaitersAreWoken` | `[]NoWaiterStranded`, if one process at most reads the pipe, and one the terminal | `PipeReaderInv`: between its look and its sleep the reader holds the lock or is in the waiter word; `FutexInv`: who sleeps is in the queue or in a waker's hands, and when all sleep on a word already set a waker is on its way; `TtyInv`: while a line is ready an interrupt handler that will wake the reader is under way |
| `ChannelWaitersAreWoken` | `[]NoChannelWaiterStranded`, if one process at most reads the channel, and one waits on the port | `ReaderInv`, `PortInv`, `SignalInv`: who has registered and is not enqueued is in the waiter word or the list, or in the hands of the writer that took it out; and if there is something to read, somebody is about to look at the word |

OFS journal (`OfsJournalProofs`)

| theorem | statement | argument |
|---|---|---|
| `TypeCorrect` | `[]TypeOK` | not inductive: `ProgressInv` adds that the targets of a commit list exactly the pending blocks and that `k` stays within them |
| `JournalIsAtomic` | `AtomicCommit`, if no write fails after the marker | `JournalInv` adds that the slots written so far hold the pending values, that a committed header lists distinct blocks, and that the blocks applied so far equal their slots; with it each step maps to a step or a stutter of `AtomicStore`, and the write of the marker is the commit |
| `ReadsAreRight` | `[]ReadsAreCurrent`, if no write fails after the marker | the refinement and `JournalInv`: what a mount would recover differs from the disk only in blocks that are still pending |

Servers and init (`ServersProofs`)

| theorem | statement | argument |
|---|---|---|
| `AnswersAreRight` | `[]AnswersTheQuestion` | `SrvInv`.  `FrontInv`: a message to the VFS server or the component manager is the request its sender waits for, or a backend's reply, and nobody has two there; `BackInv`: only the backend the VFS server waits for has work, and that is the request the VFS server forwarded, or a reply that is right for it; `SinceInv`: since a request was made processes have only exited and servers only registered, so what was right stays right while it queues |
| `ShellsAreOne` | `[]OneShell` | not inductive: `ShellInv` adds that a shell is the child the respawn loop waits for, that the dead are children, and that child numbers are not used again |

The theorems hold for any number of processes, sends, interrupts, harts, priorities, blocks
and slots, and any programs, under the `ASSUME`s of the modules (identifiers are distinct;
block 0 is not a data block; there is at least one slot; no more harts are started than
have a number; clients of the servers are not servers, ask each server only for what it
offers, and there are finitely many pids).  The hypotheses are what the code needs, and each is met by the run that
checks the same property:

- one waiter per object: a waiter word, and the saved mask of an epoll instance, have room
  for one, and a second process would overwrite the first;
- nobody exits, good pointers, no interrupts, no clones: without them the statements are
  false (`ipc_exit_strands`, and the first five entries of the next section); a PM clone
  starts both enqueued and waiting for its fork reply;
- no signals for `NobodyIsTwice`: see `NoPhantomEntry` in the next section;
- `apply` and `clear` writes do not fail: see `ofs_journal_error`.

Only model-checked:

- liveness (`EveryoneRuns`, `ZombiesReaped` and the parts of `ServicesGoOn`), which the prover
  does not reach;
- what recursive definitions and folds compute (the decompressor of `Pkg`, `PageCodec`, the
  parser of `Shell`, the paths and allocation of `OfsFiles`, hence `Vfs`; the chains of
  `VirtQueue`, hence `DescriptorsConserved`; the sums over tables in the frame counts of
  `Memory`; the filtered sequences of `WaitPid` and `PmServer`): it cannot do induction over data;
- the refinement of `PrivateSpaces` by `Memory`, and the properties of `Calls`, `Sockets`, `Trace` and
  the user programs, for which no proof has been written; `NameIsKept` of `Servers`, an action
  property that follows from one guard of the component manager.

## Observed outside the runs

The models show further disagreements between code and comments.  Each was
found by TLC as a violation of the named definition, under the constants of the
nearest run with the mentioned feature switched on.

- `SendingIsQueued` with bad pointers: `sys_ipc_receive` takes the sender off the
  queue before it validates the buffer (`syscall/ipc.rs:462`); `exit()` relies on
  "(a) Processes in IpcState::Sending { target: pid } — in the senders queue."
  (`posix/spawn.rs:206`).
- `InterruptsKept`: a blocking send overwrites an interrupt deposited in the
  driver's own state (`syscall/ipc.rs:372`); queueing exists "so we don't silently
  drop rapid back-to-back interrupts." (`syscall/ipc.rs:320`).
- `ReplyFromCallee` with interrupts: a fresh `sendrec` returns a deposited interrupt
  as its reply (`syscall/ipc.rs:524`).
- `QueuedSendersAreSending` with kills: a killed sender stays in its target's queue;
  after reaping the target's receive unwraps a missing entry (`syscall/ipc.rs:463`).
  `QueuesMatchStates` is violated with it.
- `SendHandedOver` with exits: `exit()` lists those stuck on it in one lock section and resets them
  in another (`posix/spawn.rs:231`).  A receiver that the killed process, still running on another
  hart, has answered in between loses the message that was deposited for it.
- `KernelStackExclusive`: a hart idles in `schedule()` on the stack of a process
  another hart already runs (`posix/process.rs:473`).
- `NoFreedStackInUse`: reaping frees the stack the dying hart still uses
  (`syscall/pm.rs:345`), although "reaping a running process would free its kernel
  stack while another HART may be executing on it" (`syscall/pm.rs:317`).
- `ZombiesStayDead`: `schedule()` tests for a zombie and stores `Running` in two lock
  sections (`posix/process.rs:453`), and `wake_sleepers` and `sys_nanosleep` store
  without a test (so do the queues of futexes and of file locks, which keep the pid of a process
  killed meanwhile): a kill in between is undone, against "**Lifecycle states:**
  `Running → Stopped (waitpid block) → Zombie(status) → reaped`" (`readme.md:324`).
- `NoPhantomEntry` with signals: `wake_with_eintr` leaves the sleep-queue entry
  (`syscall/proc.rs:922`).
- `ReportedOnce`: a zombie reaped between its mark and its notification is reported
  again (`posix/spawn.rs:141`).
- `TargetRespected`: `waitpid` pops `wait_result` whatever its target
  (`syscall/proc.rs:534`).  With it `LineIsOver` of `Shell`: a later stage of a pipeline exits before
  the shell sleeps, the wait for the first stage returns it, the wait for the later one finds no
  such child, and the prompt is back while the first stage runs; zombies may be left.
- `OrphansAdopted` with kills: a killed process can fork after its children were
  reparented (`posix/spawn.rs:179`).
- `PipeEofSeen`: `Drop` wakes the reader before the sentinel is released
  (`ipc/handle.rs:133`), though it means to "Wake any reader that is currently
  blocked so it can observe the EOF."
- `MailboxNotStranded`: no second look after registering (`syscall/ipc.rs:297`).
- `CtrlCSeen`: the flag is tested before the buffer's lock is taken
  (`syscall/fs.rs:126`).
- `EpollSleeperNotStranded`: `epoll_pwait` does not collect again after storing its
  waiter word (`syscall/epoll.rs:430`), and closing a channel wakes no epoll instance.
- `PwaitMaskKept` without `cut`: a signal takes a process out of `epoll_pwait` with EINTR and
  behind the call (`syscall/proc.rs:918`), so nobody puts its mask back, and it runs on with the mask
  of the call; so it does after EBADF and EFAULT.  Its pid is still in the waiter word, and the
  next `epoll_pwait` takes that for a timeout and returns 0 at once.
- `CloseIsSeen`: a call that hands over the hart never drops its reference
  (`syscall/ipc.rs:1035`), so the last close does not close.
- `EofAfterLastMessage`: a message and a close between the two looks of
  `sys_channel_read` read as end of file (`syscall/ipc.rs:1085`).
- `EvictedPagesOwned` with PM reaping: `sys_reap_process` does not call `evict_all`
  (`syscall/pm.rs:354`; nor does exec, `posix/spawn.rs:468`, by reading), although "When a process
  exits, [`evict_all`] removes all swap entries belonging to that process."
  (`mm/swap.rs:21`); the next owner of the root frame finds them.
- `SpacesArePrivate` with a fork while a page is swapped out: `clone_user_space` copies
  mapped pages only (`mm/vmm.rs:325`), and the child reads zeros.
- `FramesAccounted` with an exec that runs out of frames: nothing is given back
  (`posix/spawn.rs:452`).
- `FramesAccounted` with a memory object closed, or its process gone, while it is
  mapped: `Vmo::drop` frees its frames regardless of their count (`mm/vmo.rs:124`).
- `FramesAccounted` with two threads storing to one copy-on-write page, or unmapping
  one page: the reference is dropped twice (`mm/vmm.rs:422`, `mm/vmm.rs:721`).
- `FramesAccounted` and `OnlyWritesChange` without `leaked`: two threads that touch a page, or the
  region of a missing table, for the first time at once both find no entry, and the second writes
  over the first: `map_page` has no lock (`mm/vmm.rs:215`).  The frame is never freed, and a store
  that went into it is gone.
- `OnlyWritesChange` with a `sys_datacopy` of an evicted page when no frame is left: `swap_in`
  removes the compressed copy before it has a frame (`mm/swap.rs:267`), and the client lives on
  without the page.
- `WritersAreAlone` with a fork beside a second thread: only the forking hart flushes
  (`posix/spawn.rs:394`), though "stale TLB entries would let writes bypass the
  read-only PTE and defeat COW isolation."
- `OnlyWritesChange` with an unmap beside a storing thread: the frame is free before
  the entry is cleared and before the other hart flushes (`mm/vmm.rs:721`).
- `OnlyWritesChange` with a fork while a memory object is mapped: the mapping becomes
  copy-on-write and private in both processes.
- `SpacesArePrivate` with a `sys_datacopy` from or to a process that is not waiting for
  the copier: the frames it looked up may be replaced meanwhile (`syscall/ipc.rs:820`).
  A copy of a page onto itself behaves alike and is left out.

The following was read in the code while the later modules were written.  The models do
what the code does; their properties are stated for the cases beside it.

Handles, locks, signals
- Every handle that is given out has generation 1, since `insert` asks for the old entry of a slot that is
  free (`ipc/handle.rs:355`): a number kept over a close works again on the next object in its
  slot, which is what the generation was to prevent.
- A received handle is reported with a generation 1 more than that of its entry, and cannot be used
  (`syscall/ipc.rs:1152`); `dup` gives all rights, whatever the original has; a
  `channel_write` that fails loses the handles it was to carry.
- `F_DUPFD` overwrites a live entry of a later generation; close-on-exec marks outlive the
  handle they were set on.
- `F_SETLKW` tries and queues in two sections (`syscall/ipc.rs:739`), and an unlock in between leaves it
  asleep beside a free lock; turning a write lock into a read lock wakes nobody.
  `NoForgottenWaiter` is violated by both if `shrunk` is not exempted.
- An entry of a wait that a signal broke off stays queued, and is granted later
  (`syscall/ipc.rs:134`): the process gets a lock it no longer asks for or, if it waits for another lock by
  then, is told that it has that one.  `GrantedIsHeld` is violated without its exemption when two
  ranges apart are locked.
- `wake_with_eintr` adds 4 to `sepc` to undo the step back of a blocked call (`syscall/proc.rs:918`).
  nanosleep, futex, `F_SETLKW` and a stop by a signal have not stepped back: the process skips the
  instruction behind its call.  `ResumesExactly` is violated without `skipped`.
- `task_kill` of the root job kills every process it ever had, and the caller returns to user mode
  as a zombie.
- `tgkill` sets the bit of the signal before the one it names.

File server
- `rename` onto a name that exists lists it twice; renaming a directory leaves its entries behind
  under the old path; to a path whose parent is missing it makes a node nobody lists.
- `create` overwrites whatever node is there, `unlink` does not ask whether a directory
  is empty, `rename`, `link`, `symlink`, `readlink` and `getdents` work in namespace 1, `pread`
  moves the offset, a truncated initrd file loses its content, and `/mntx` counts as
  below `/mnt`.
- OFS: a transaction larger than the journal makes every later commit fail while
  `file_write` returns success; a crash between two commits leaks an inode; `rename` over a target
  removes it before the new link exists; `ftruncate` ignores the length.
- Once its ring has wrapped, the inode cache may return an older copy
  (`ReadsCurrentInode` without its bound).

Servers
- The file server keeps a driver's pid after the driver was restarted, and is never run again
  if a driver or a backend dies in the middle of its call (`UnblockedIsRunnable`, above); a request that reaches the block driver while
  `do_rw` waits for its interrupt is dropped (`virtio-blk-driver/src/main.rs:146`); rs-server waits for
  ever for a driver that dies before it registers, and takes the next message of whoever sends one
for the registration it awaits; the component manager keeps the
  names of dead components.
- PM: a wait without children, or for a pid that is no child, is never answered; a killed
  process stays running in PM's table; `handle_exec` replaces the image of the server
  itself; the library and the server use different message calls.

Network
- `recv` gives a buffer back to the device before it has copied it
  (`net/virtio_mmio.rs:320`: "this read does not race with the device").
- `AcceptsItsOwn`: a socket is found by its process and descriptor, the oldest first
  (`net/socket.rs:131`), so that after a close and the reuse of the descriptor a connection to one socket is
  accepted on another.
- `daemon_create_conn` for a process that is gone returns ESRCH, one instruction too far
  (`syscall/net.rs:81`), and the daemon takes that for a descriptor.
- Owners and proxies of sockets are never removed; `accept` polls, and notes the process
  again each time; what does not fit a buffer is cut off, at the daemon above 1499 bytes.

Programs
- The shell expands variables before it looks for quotes, and the expansion drops
  single quotes, though "single-quoted spans are left as-is." (`sh/src/main.rs:132`): `'a b'`
  is two words.  A quoted word that is just an operator acts as one, and a stage
  without a command (`a | | b`) is run.
- `exec_args` closes the files that redirection has just put in place; `open`, `create` and
  `dup` of libos install handles with a command number the kernel takes for `F_GETLK`.
- nano does not scroll after Ctrl-K; `HuffTree::decode` takes one bit more from the stream than the
  code of a symbol has, so that what follows is read one bit off (`CodesTakeTheirBits`).
- pkg installs a package before what it depends on, and twice in a cycle; a failed write, an
  installation that is killed and an unlink that fails during a removal leave files no manifest lists
  (`stray`); removing a package deletes files it shares.
- `fire` of the trace points has no caller.

## Not modelled

- Jobs and namespaces: no call puts a process into a job other than the root, so the
  limits of created jobs bind nothing; namespace ids are assigned once.
- The table of system calls, users and credentials: single assignments.
- The kernel's own network stack (headers, a checksum, a loopback buffer), its polled
  block driver, and the ext2 reader: superseded, or not reached on the disks the
  system makes.
- Libraries: they put arguments into registers and messages.
- Device registers, assembly entry code, start-up order, UART, PLIC and graphics.
- Parsing of ELF files, archives, control files and HTTP; formatting; the bytecode of
  trace programs, which is abstracted to the contexts a program selects.
- Of `Memory` the calls only PM uses on foreign spaces (`sys_destroy_user_space`,
  `sys_alloc_user_page`, `phys_map`), page protections other than copy-on-write and the
  memory limits of jobs; of the shell its assignments and simple builtins.
- Relaxed atomics are taken as sequentially consistent, and `spin::Mutex` as an atomic
  word.  The futex word, timers of unbounded `epoll_pwait` calls and the second direction
  of a channel are simplified as the modules say.
- smoltcp, the devices and the hosts on the network are external.
