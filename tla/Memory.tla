------------------------------- MODULE Memory -------------------------------
(***************************************************************************)
(* Virtual memory of the kernel: frames with reference counts (mm/pmm.rs), *)
(* page tables, copy-on-write and demand paging (mm/vmm.rs), compressed    *)
(* swap (mm/swap.rs), memory objects (mm/vmo.rs, syscall/vm.rs), and what  *)
(* fork, clone, exec, exit, reaping and datacopy do to address spaces.     *)
(*                                                                         *)
(* Every running process has a hart of its own with a TLB.  No lock guards *)
(* a page table: a handler is a sequence of steps, each one access to a    *)
(* table, a frame or a lock-protected counter, and op[p] says how far the  *)
(* handler of p has come.                                                  *)
(*                                                                         *)
(* A page table is named by its root frame.  Its lower levels are one      *)
(* further frame, allocated with the first mapping, and its leaves are     *)
(* Pages.  Frame number 0 stands for "none", as a zero entry does.         *)
(***************************************************************************)
EXTENDS Integers, Sequences, FiniteSets, SequencesExt

CONSTANTS
  NProcs,     \* processes are 1..NProcs, in the order of PROCESS_TABLE
  NFrames, NPages,
  Values,     \* contents of a page; 0 is a zeroed page
  Poison,     \* contents of a free frame
  Shared, Gone,  \* marks of the abstract specification
  Programs    \* what processes may do: [born, frames, pages, calls]

Procs  == 1..NProcs
Frames == 1..NFrames
Pages  == 0..NPages - 1

Calls ==
  {"load", "store", "fork", "clone", "pmclone", "thread", "unmap", "exec", "exit",
   "waitpid", "pmreap", "stop", "block", "datacopy", "any", "reply",
   "vmo", "vmomap", "vmoclose"}

ASSUME MemoryAssumption ==
  /\ NProcs \in Nat \ {0} /\ NFrames \in Nat \ {0} /\ NPages \in Nat \ {0}
  /\ 0 \in Values
  /\ \A g \in Programs : /\ g.born \subseteq Procs /\ g.frames <= NFrames /\ g.pages \subseteq Pages
                         /\ Cardinality(g.born) <= g.frames
                         /\ g.calls \in [Procs -> SUBSET Calls]

VARIABLES
  pmm,      \* [count, free, data]: PAGE_REF_COUNTS, FREE_LIST, contents of the frames
  table,    \* leaf entries below each root
  low,      \* the lower-level tables below each root, or 0
  swap,     \* SWAP_MAP: entries of evicted pages by root and page
  shared,   \* SATP_REFCOUNT by root; 0 where the map has no entry
  status,   \* of each process
  satp,     \* the root each process runs on, or 0
  vmo,      \* frame of the memory object each process has a handle to, or 0
  tlb,      \* translations cached by the hart of each process
  ipi,      \* processes whose hart has a flush request pending
  op,       \* progress of the handler each process is in
  leaked,   \* history: entries with a frame that map_page has overwritten, by frame
  may       \* the program of this behaviour

vars == <<pmm, table, low, swap, shared, status, satp, vmo, tlb, ipi, op, leaked, may>>

Entry == [frame : 0..NFrames, w : BOOLEAN, cow : BOOLEAN, vmo : BOOLEAN]

NoEntry == [frame |-> 0, w |-> FALSE, cow |-> FALSE, vmo |-> FALSE]

Valid(e) == e.frame # 0

EmptyTable == [pg \in Pages |-> NoEntry]

\* An evicted page: its flags and its contents.
Evicted == [in : BOOLEAN, value : Values, w : BOOLEAN, cow : BOOLEAN, vmo : BOOLEAN]

NotEvicted == [in |-> FALSE, value |-> 0, w |-> FALSE, cow |-> FALSE, vmo |-> FALSE]

NoSwap == [pg \in Pages |-> NotEvicted]

Places ==
  {"user", "store", "copy", "install", "drop", "flush", "fault", "swapin", "map", "table", "write", "die",
   "free", "clear", "tables", "clone", "deadlock", "load", "switch",
   "src", "src again", "dst", "dst again", "transfer", "evicted"}

\* root and page: where the handler works.  frame: the frame it has allocated
\* or is to fill.  old: the frame it will let go.  flags: of the entry to map.  last: the
\* end of a range.  to: where it goes on when a fault is served.  how: which call it is.
\* src, dst: the frame a copy comes from, the root and page it goes to.
\* lower: the lower-level tables map_page has allocated, or found.
InUser ==
  [pc |-> "user", root |-> 0, page |-> 0, frame |-> 0, old |-> 0, flags |-> NoEntry,
   last |-> 0, child |-> 0, to |-> "user", how |-> "none", src |-> 0, dst |-> <<0, 0>>, lower |-> 0]

TypeOK ==
  /\ pmm \in [count : [Frames -> Nat], free : Seq(Frames), data : [Frames -> Values \cup {Poison}]]
  /\ table \in [Frames -> [Pages -> Entry]]
  /\ low \in [Frames -> 0..NFrames]
  /\ swap \in [Frames -> [Pages -> Evicted]]
  /\ shared \in [Frames -> Nat]
  /\ status \in [Procs -> {"unborn", "new", "running", "stopped", "blocked", "zombie", "reaped"}]
  /\ satp \in [Procs -> 0..NFrames] /\ vmo \in [Procs -> 0..NFrames]
  /\ tlb \in [Procs -> [Pages -> Entry]]
  /\ ipi \subseteq Procs
  /\ \A p \in Procs : op[p].pc \in Places /\ DOMAIN op[p] = DOMAIN InUser
  /\ leaked \in [Frames -> Nat]
  /\ may \in Programs

-----------------------------------------------------------------------------
(* Frames *)

Some(m) == m.free # <<>>

alloc_frame(m) ==
  [count |-> [m.count EXCEPT ![Head(m.free)] = 1], free |-> Tail(m.free),
   data |-> [m.data EXCEPT ![Head(m.free)] = 0]]

free_page(m, f) ==
  [count |-> [m.count EXCEPT ![f] = 0], free |-> <<f>> \o m.free,
   data |-> [m.data EXCEPT ![f] = Poison]]

Filled(m, f, x) == [m EXCEPT !.data[f] = x]

incr_ref(m, f) == [m EXCEPT !.count[f] = @ + 1]

decr_ref_and_maybe_free(m, f) ==
  IF m.count[f] > 1 THEN [m EXCEPT !.count[f] = @ - 1] ELSE free_page(m, f)

\* destroy_user_space: every leaf is released, then the lower levels and the root are freed.
destroy_user_space(m, r) ==
  LET leaves == SelectSeq([i \in 1..NPages |-> table[r][i - 1].frame], LAMBDA f : f # 0)
      tables == IF low[r] = 0 THEN <<r>> ELSE <<low[r], r>>
  IN  FoldLeft(free_page, FoldLeft(decr_ref_and_maybe_free, m, leaves), tables)

-----------------------------------------------------------------------------
(* Processes *)

Can(p, call) == status[p] = "running" /\ op[p].pc = "user" /\ call \in may.calls[p]

Live(p) == status[p] \in {"running", "stopped", "blocked"}

\* NEXT_PID hands out the pids in order.
NextPid(c) == status[c] = "unborn" /\ \A q \in 1..c - 1 : status[q] # "unborn"

\* sys_fork and sys_clone_process keep PROCESS_TABLE locked while they clone.
TableFree ==
  \A p \in Procs : ~(op[p].pc \in {"tables", "clone", "deadlock"} /\ op[p].how # "clone")

\* The handler of p goes on at pc.
Goto(p, pc) == op' = [op EXCEPT ![p].pc = pc]

Return(p) == op' = [op EXCEPT ![p] = InUser]

\* A fault is served: back to the instruction, or to the call that asked for it.
Served(p) == IF op[p].to = "user" THEN Return(p) ELSE Goto(p, op[p].to)

\* A fault cannot be served: the process is killed, or the call fails.
Failed(p) == IF op[p].to = "user" THEN Goto(p, "die") ELSE Return(p)

Flushed(p) == tlb' = [tlb EXCEPT ![p] = EmptyTable]

Here(p) == table[op[p].root][op[p].page]

SetHere(p, e) == table' = [table EXCEPT ![op[p].root][op[p].page] = e]

-----------------------------------------------------------------------------
(* The hardware: loads and stores through the TLB *)

Translation(p, pg) == IF Valid(tlb[p][pg]) THEN tlb[p][pg] ELSE table[satp[p]][pg]

Cached(p, pg) == tlb' = [tlb EXCEPT ![p][pg] = Translation(p, pg)]

Trap(p, pg, pc) == op' = [op EXCEPT ![p] = [InUser EXCEPT !.pc = pc, !.root = satp[p], !.page = pg]]

Load(p, pg) ==
  /\ Can(p, "load")
  /\ IF Valid(Translation(p, pg))
     THEN Cached(p, pg) /\ UNCHANGED op
     ELSE Trap(p, pg, "fault") /\ UNCHANGED tlb
  /\ UNCHANGED <<pmm, table, low, swap, shared, status, satp, vmo, ipi, leaked, may>>

Store(p, pg, x) ==
  /\ Can(p, "store")
  /\ IF Translation(p, pg).w
     THEN /\ pmm' = Filled(pmm, Translation(p, pg).frame, x)
          /\ Cached(p, pg) /\ UNCHANGED op
     ELSE Trap(p, pg, "store") /\ UNCHANGED <<pmm, tlb>>
  /\ UNCHANGED <<table, low, swap, shared, status, satp, vmo, ipi, leaked, may>>

\* The flush request of another hart is taken.
TakeIpi(p) ==
  /\ p \in ipi /\ status[p] = "running" /\ op[p].pc = "user"
  /\ ipi' = ipi \ {p}
  /\ Flushed(p)
  /\ UNCHANGED <<pmm, table, low, swap, shared, status, satp, vmo, op, leaked, may>>

-----------------------------------------------------------------------------
(* Store faults: handle_store_page_fault *)

\* The entry is read; a copy-on-write page gets a frame.  Anything else, and
\* running out of frames, is an error: the trap handler then tries demand paging.
StoreFault(p) ==
  /\ op[p].pc = "store"
  /\ IF Here(p).cow /\ Some(pmm)
     THEN /\ pmm' = alloc_frame(pmm)
          /\ op' = [op EXCEPT ![p].pc = "copy", ![p].frame = Head(pmm.free), ![p].old = Here(p).frame]
     ELSE /\ IF op[p].to = "user" THEN Goto(p, "fault") ELSE Return(p)
          /\ UNCHANGED pmm
  /\ UNCHANGED <<table, low, swap, shared, status, satp, vmo, tlb, ipi, leaked, may>>

\* Mutant: the new frame is left zeroed.
CowCopyNothing(p) ==
  /\ op[p].pc = "copy"
  /\ Goto(p, "install")
  /\ UNCHANGED <<pmm, table, low, swap, shared, status, satp, vmo, tlb, ipi, leaked, may>>

CowCopy(p) ==
  /\ op[p].pc = "copy"
  /\ pmm' = Filled(pmm, op[p].frame, pmm.data[op[p].old])
  /\ Goto(p, "install")
  /\ UNCHANGED <<table, low, swap, shared, status, satp, vmo, tlb, ipi, leaked, may>>

CowInstall(p) ==
  /\ op[p].pc = "install"
  /\ SetHere(p, [frame |-> op[p].frame, w |-> TRUE, cow |-> FALSE, vmo |-> FALSE])
  /\ Goto(p, "drop")
  /\ UNCHANGED <<pmm, low, swap, shared, status, satp, vmo, tlb, ipi, leaked, may>>

CowDrop(p) ==
  /\ op[p].pc = "drop"
  /\ pmm' = decr_ref_and_maybe_free(pmm, op[p].old)
  /\ Goto(p, "flush")
  /\ UNCHANGED <<table, low, swap, shared, status, satp, vmo, tlb, ipi, leaked, may>>

\* Mutant: only the other harts are told to flush.
FlushOthers(p) ==
  /\ op[p].pc = "flush"
  /\ ipi' = ipi \cup {q \in Procs \ {p} : status[q] = "running"}
  /\ Served(p)
  /\ UNCHANGED <<pmm, table, low, swap, shared, status, satp, vmo, tlb, leaked, may>>

\* sfence.vma here, a software interrupt to every other hart; nobody waits for it.
Flush(p) ==
  /\ op[p].pc = "flush"
  /\ Flushed(p)
  /\ ipi' = ipi \cup {q \in Procs \ {p} : status[q] = "running"}
  /\ Served(p)
  /\ UNCHANGED <<pmm, table, low, swap, shared, status, satp, vmo, leaked, may>>

-----------------------------------------------------------------------------
(* Demand paging and swap: handle_user_page_fault, swap_in, try_evict_page *)

Swapped(p) == swap[op[p].root][op[p].page]

\* lookup_swap, or a zeroed frame for a page never touched.
UserFault(p) ==
  /\ op[p].pc = "fault"
  /\ \/ /\ Swapped(p).in
        /\ Goto(p, "swapin")
        /\ UNCHANGED pmm
     \/ /\ ~Swapped(p).in /\ Some(pmm)
        /\ pmm' = alloc_frame(pmm)
        /\ op' = [op EXCEPT ![p].pc = "map", ![p].frame = Head(pmm.free), ![p].how = "demand",
                                ![p].flags = [NoEntry EXCEPT !.w = TRUE]]
     \/ /\ ~Swapped(p).in /\ ~Some(pmm)
        /\ Failed(p)
        /\ UNCHANGED pmm
  /\ UNCHANGED <<table, low, swap, shared, status, satp, vmo, tlb, ipi, leaked, may>>

\* The entry is removed first; then a frame is asked for.
SwapIn(p) ==
  /\ op[p].pc = "swapin"
  /\ swap' = [swap EXCEPT ![op[p].root][op[p].page] = NotEvicted]
  /\ IF Swapped(p).in /\ Some(pmm)
     THEN LET s == Swapped(p)
              f == Head(pmm.free)
          IN  /\ pmm' = Filled(alloc_frame(pmm), f, s.value)
              /\ op' = [op EXCEPT ![p].pc = "map", ![p].frame = f, ![p].how = "swapin",
                                ![p].flags = [frame |-> 0, w |-> s.w, cow |-> s.cow, vmo |-> s.vmo]]
     ELSE Failed(p) /\ UNCHANGED pmm
  /\ UNCHANGED <<table, low, shared, status, satp, vmo, tlb, ipi, leaked, may>>

\* map_page at root r and page pg on the frames m, when no other thread works on r: it
\* allocates missing tables, and fails for want of a frame or because the page is mapped.
NeedsTables(r) == low[r] = 0

CanMap(m, r, pg) == (NeedsTables(r) => Some(m)) /\ ~Valid(table[r][pg])

MapPage(m, r, pg, e) ==
  /\ pmm' = IF NeedsTables(r) THEN alloc_frame(m) ELSE m
  /\ low' = IF NeedsTables(r) THEN [low EXCEPT ![r] = Head(m.free)] ELSE low
  /\ table' = [table EXCEPT ![r][pg] = e]

\* In a fault handler its tests and its writes are steps of their own: no lock is held.
\* The upper levels are read: tables are allocated, or the leaf is read below the ones found.
Walks(p) ==
  /\ NeedsTables(op[p].root) /\ Some(pmm)
  /\ pmm' = alloc_frame(pmm)
  /\ op' = [op EXCEPT ![p].pc = "table", ![p].lower = Head(pmm.free)]

FindsFree(p) ==
  /\ ~NeedsTables(op[p].root) /\ ~Valid(Here(p))
  /\ op' = [op EXCEPT ![p].pc = "write", ![p].lower = low[op[p].root]]
  /\ UNCHANGED pmm

CannotMap(p) == IF NeedsTables(op[p].root) THEN ~Some(pmm) ELSE Valid(Here(p))

\* Mutant: a frame that could not be mapped is not given back.
MapWalkKeeping(p) ==
  /\ op[p].pc = "map"
  /\ \/ Walks(p) \/ FindsFree(p)
     \/ /\ CannotMap(p)
        /\ IF op[p].how = "demand" THEN Goto(p, "flush") ELSE Failed(p)
        /\ UNCHANGED pmm
  /\ UNCHANGED <<table, low, swap, shared, status, satp, vmo, tlb, ipi, leaked, may>>

\* With no frame for the tables, or the page mapped already, the frame is given back.
MapWalk(p) ==
  /\ op[p].pc = "map"
  /\ \/ Walks(p) \/ FindsFree(p)
     \/ /\ CannotMap(p)
        /\ pmm' = decr_ref_and_maybe_free(pmm, op[p].frame)
        /\ IF op[p].how = "demand" THEN Goto(p, "flush") ELSE Failed(p)
  /\ UNCHANGED <<table, low, swap, shared, status, satp, vmo, tlb, ipi, leaked, may>>

Leaks(fs) == leaked' = [f \in Frames |-> IF f \in fs THEN leaked[f] + 1 ELSE leaked[f]]

\* The entry for the tables is written: over tables another thread has put there meanwhile,
\* which are lost with all they map.
MapTable(p) ==
  LET r == op[p].root
  IN  /\ op[p].pc = "table"
      /\ low' = [low EXCEPT ![r] = op[p].lower]
      /\ table' = [table EXCEPT ![r] = EmptyTable]
      /\ Leaks(({low[r]} \cup {table[r][pg].frame : pg \in Pages}) \ {0})
      /\ Goto(p, "map")
      /\ UNCHANGED <<pmm, swap, shared, status, satp, vmo, tlb, ipi, may>>

\* The leaf is written: over another thread's, or in tables that are lost by now (two
\* threads at most share a root).
MapWrite(p) ==
  /\ op[p].pc = "write"
  /\ IF low[op[p].root] = op[p].lower
     THEN SetHere(p, [op[p].flags EXCEPT !.frame = op[p].frame]) /\ Leaks({Here(p).frame} \ {0})
     ELSE Leaks({op[p].frame}) /\ UNCHANGED table
  /\ IF op[p].how = "demand"
     THEN Goto(p, "flush") /\ UNCHANGED tlb
     ELSE Served(p) /\ Flushed(p)
  /\ UNCHANGED <<pmm, low, swap, shared, status, satp, vmo, ipi, may>>

Victims == {<<q, pg>> \in Procs \X Pages : status[q] = "stopped" /\ Valid(table[satp[q]][pg])}

\* The first page of the first Stopped process, in the order of PROCESS_TABLE.
Victim ==
  CHOOSE v \in Victims :
     \A u \in Victims : v[1] < u[1] \/ (v[1] = u[1] /\ v[2] <= u[2])

\* try_evict_page, called by alloc_page when there is no free frame.
Evict ==
  LET r == satp[Victim[1]]
      e == table[r][Victim[2]]
  IN  /\ swap' = [swap EXCEPT ![r][Victim[2]] =
                    [in |-> TRUE, value |-> pmm.data[e.frame], w |-> e.w, cow |-> e.cow, vmo |-> e.vmo]]
      /\ table' = [table EXCEPT ![r][Victim[2]] = NoEntry]
      /\ pmm' = decr_ref_and_maybe_free(pmm, e.frame)

-----------------------------------------------------------------------------
(* Unmapping: sys_munmap, sys_vmo_unmap *)

Unmap(p, a, b) ==
  /\ Can(p, "unmap") /\ a <= b
  /\ op' = [op EXCEPT ![p] = [InUser EXCEPT !.pc = "free", !.root = satp[p], !.page = a, !.last = b]]
  /\ UNCHANGED <<pmm, table, low, swap, shared, status, satp, vmo, tlb, ipi, leaked, may>>

\* On to the next page of the range, or to the flush.
NextPage(p) ==
  op' = IF op[p].page = op[p].last THEN [op EXCEPT ![p].pc = "flush"]
        ELSE [op EXCEPT ![p].pc = "free", ![p].page = @ + 1]

\* unmap_range lets go of the frame first ...
UnmapFree(p) ==
  /\ op[p].pc = "free"
  /\ IF Valid(Here(p))
     THEN pmm' = decr_ref_and_maybe_free(pmm, Here(p).frame) /\ Goto(p, "clear")
     ELSE NextPage(p) /\ UNCHANGED pmm
  /\ UNCHANGED <<table, low, swap, shared, status, satp, vmo, tlb, ipi, leaked, may>>

\* ... and clears the entry afterwards.
UnmapClear(p) ==
  /\ op[p].pc = "clear"
  /\ SetHere(p, NoEntry)
  /\ NextPage(p)
  /\ UNCHANGED <<pmm, low, swap, shared, status, satp, vmo, tlb, ipi, leaked, may>>

-----------------------------------------------------------------------------
(* New address spaces: sys_fork, sys_clone, sys_clone_process *)

\* Process::new: a root for the child c, which inherits the handles of p.
Fork(p, src, c, how) ==
  /\ TableFree /\ NextPid(c) /\ Some(pmm)
  /\ IF how = "pmclone" THEN src # p /\ status[src] = "blocked" ELSE src = p
  /\ Can(p, how)
  /\ LET r == Head(pmm.free)
     IN  /\ pmm' = alloc_frame(pmm)
         /\ table' = [table EXCEPT ![r] = EmptyTable]
         /\ satp' = [satp EXCEPT ![c] = r]
  /\ status' = [status EXCEPT ![c] = "new"]
  /\ vmo' = [vmo EXCEPT ![c] = vmo[src]]
  /\ op' = [op EXCEPT ![p] =
       [InUser EXCEPT !.pc = "tables", !.root = satp[src], !.child = c, !.how = how]]
  /\ UNCHANGED <<low, swap, shared, tlb, ipi, leaked, may>>

\* Mutant: the parent's hart keeps its translations.
ClonedUnfenced(p) ==
  /\ status' = [status EXCEPT ![op[p].child] = IF op[p].how = "pmclone" THEN "stopped" ELSE "running"]
  /\ Return(p)
  /\ UNCHANGED tlb

\* The child is complete: sfence.vma on this hart, and the child may run.  A
\* clone made for PM is left Stopped.
Cloned(p) ==
  /\ Flushed(p)
  /\ status' = [status EXCEPT ![op[p].child] = IF op[p].how = "pmclone" THEN "stopped" ELSE "running"]
  /\ Return(p)

\* The lower levels of the child.  When no frame is left, sys_clone cleans up; the
\* other two callers still hold PROCESS_TABLE, which cleanup_process locks.
CloneTables(p) ==
  LET c == op[p].child
  IN  /\ op[p].pc = "tables"
      /\ \/ /\ low[op[p].root] = 0
            /\ Cloned(p)
            /\ UNCHANGED <<pmm, low, satp, vmo>>
         \/ /\ low[op[p].root] # 0 /\ Some(pmm)
            /\ pmm' = alloc_frame(pmm)
            /\ low' = [low EXCEPT ![satp[c]] = Head(pmm.free)]
            /\ Goto(p, "clone")
            /\ UNCHANGED <<status, satp, vmo, tlb>>
         \/ /\ low[op[p].root] # 0 /\ ~Some(pmm) /\ op[p].how = "clone"
            /\ pmm' = destroy_user_space(pmm, satp[c])
            /\ status' = [status EXCEPT ![c] = "reaped"]
            /\ satp' = [satp EXCEPT ![c] = 0]
            /\ vmo' = [vmo EXCEPT ![c] = 0]
            /\ Return(p)
            /\ UNCHANGED <<low, tlb>>
         \/ /\ low[op[p].root] # 0 /\ ~Some(pmm) /\ op[p].how # "clone"
            /\ Goto(p, "deadlock")
            /\ UNCHANGED <<pmm, low, status, satp, vmo, tlb>>
      /\ UNCHANGED <<table, swap, shared, ipi, leaked, may>>

\* Mutant: a page that is not writable, copy-on-write ones included, is not handed on.
ClonePageWritable(p) ==
  LET e == Here(p)
      f == [e EXCEPT !.w = FALSE, !.cow = TRUE]
  IN  /\ op[p].pc = "clone"
      /\ table' = IF e.w THEN [table EXCEPT ![op[p].root][op[p].page] = f,
                                            ![satp[op[p].child]][op[p].page] = f]
                  ELSE table
      /\ pmm' = IF e.w THEN incr_ref(pmm, e.frame) ELSE pmm
      /\ IF op[p].page = NPages - 1
         THEN Cloned(p)
         ELSE op' = [op EXCEPT ![p].page = @ + 1] /\ UNCHANGED <<status, tlb>>
      /\ UNCHANGED <<low, swap, shared, satp, vmo, ipi, leaked, may>>

\* clone_user_space, one leaf: a writable page becomes copy-on-write in both
\* tables, and every page mapped twice gets a reference more.
ClonePage(p) ==
  LET e == Here(p)
      f == IF e.w THEN [e EXCEPT !.w = FALSE, !.cow = TRUE] ELSE e
  IN  /\ op[p].pc = "clone"
      /\ table' = [table EXCEPT ![op[p].root][op[p].page] = f,
                                ![satp[op[p].child]][op[p].page] = f]
      /\ pmm' = IF Valid(e) THEN incr_ref(pmm, e.frame) ELSE pmm
      /\ IF op[p].page = NPages - 1
         THEN Cloned(p)
         ELSE op' = [op EXCEPT ![p].page = @ + 1] /\ UNCHANGED <<status, tlb>>
      /\ UNCHANGED <<low, swap, shared, satp, vmo, ipi, leaked, may>>

\* sys_clone with CLONE_VM: the root made by Process::new is thrown away again.
Thread(p, c) ==
  /\ Can(p, "thread") /\ TableFree /\ NextPid(c) /\ Some(pmm)
  /\ status' = [status EXCEPT ![c] = "running"]
  /\ satp' = [satp EXCEPT ![c] = satp[p]]
  /\ shared' = [shared EXCEPT ![satp[p]] = IF @ = 0 THEN 2 ELSE @ + 1]
  /\ vmo' = [vmo EXCEPT ![c] = vmo[p]]
  /\ UNCHANGED <<pmm, table, low, swap, tlb, ipi, op, leaked, may>>

-----------------------------------------------------------------------------
(* The end of an address space: sys_exec, exit, reap_zombie, sys_reap_process *)

\* satp_unshare: a root that is not in the map has one owner.
LastOwner(r) == shared[r] <= 1

\* Mutant: a root missing from the map is not noticed.
UnsharedUnchecked(r) == [shared EXCEPT ![r] = @ - 1]

Unshared(r) == [shared EXCEPT ![r] = IF @ <= 1 THEN 0 ELSE @ - 1]

\* p leaves root r, whose frames go with its last owner.
Leave(m, r) ==
  /\ shared' = Unshared(r)
  /\ pmm' = IF LastOwner(r) THEN destroy_user_space(m, r) ELSE m
  /\ low' = IF LastOwner(r) THEN [low EXCEPT ![r] = 0] ELSE low
  /\ table' = IF LastOwner(r) THEN [table EXCEPT ![r] = EmptyTable] ELSE table

Exec(p) ==
  /\ Can(p, "exec") /\ TableFree /\ Some(pmm)
  /\ LET r == Head(pmm.free)
     IN  /\ pmm' = alloc_frame(pmm)
         /\ table' = [table EXCEPT ![r] = EmptyTable]
         /\ op' = [op EXCEPT ![p] = [InUser EXCEPT !.pc = "load", !.root = r]]
  /\ UNCHANGED <<low, swap, shared, status, satp, vmo, tlb, ipi, leaked, may>>

\* load_elf and the stack: every page of the image.  On an error the call returns and
\* what was allocated so far stays allocated.
ExecLoad(p) ==
  LET f == Head(pmm.free)
      m == alloc_frame(pmm)
  IN  /\ op[p].pc = "load"
      /\ IF Some(pmm) /\ CanMap(m, op[p].root, op[p].page)
         THEN /\ MapPage(m, op[p].root, op[p].page, [NoEntry EXCEPT !.frame = f, !.w = TRUE])
              /\ op' = IF op[p].page = NPages - 1 THEN [op EXCEPT ![p].pc = "switch"]
                       ELSE [op EXCEPT ![p].page = @ + 1]
         ELSE Return(p) /\ UNCHANGED <<pmm, table, low>>
      /\ UNCHANGED <<swap, shared, status, satp, vmo, tlb, ipi, leaked, may>>

ExecSwitch(p) ==
  /\ op[p].pc = "switch"
  /\ satp' = [satp EXCEPT ![p] = op[p].root]
  /\ Flushed(p)
  /\ Leave(pmm, satp[p])
  /\ Return(p)
  /\ UNCHANGED <<swap, status, vmo, ipi, leaked, may>>

\* Vmo::drop with the last handle: its frame is freed.
DropVmo(p) ==
  /\ vmo' = [vmo EXCEPT ![p] = 0]
  /\ pmm' = IF vmo[p] # 0 /\ \A q \in Procs \ {p} : vmo[q] # vmo[p] THEN free_page(pmm, vmo[p]) ELSE pmm

\* exit: by a call, or because a fault could not be served.  The handles are closed;
\* the address space stays until the process is reaped.
Exit(p) ==
  /\ Can(p, "exit") \/ op[p].pc = "die"
  /\ TableFree
  /\ status' = [status EXCEPT ![p] = "zombie"]
  /\ DropVmo(p)
  /\ Flushed(p)
  /\ ipi' = ipi \ {p}
  /\ Return(p)
  /\ UNCHANGED <<table, low, swap, shared, satp, leaked, may>>

\* Mutant: evict_all is forgotten.
ReapKeepingSwap(q, p, how) ==
  /\ Can(q, how) /\ TableFree /\ status[p] = "zombie"
  /\ status' = [status EXCEPT ![p] = "reaped"]
  /\ satp' = [satp EXCEPT ![p] = 0]
  /\ Leave(pmm, satp[p])
  /\ UNCHANGED <<swap, vmo, tlb, ipi, op, leaked, may>>

\* evict_all is called by the waitpid path only.
Reap(q, p, how) ==
  /\ Can(q, how) /\ TableFree /\ status[p] = "zombie"
  /\ status' = [status EXCEPT ![p] = "reaped"]
  /\ satp' = [satp EXCEPT ![p] = 0]
  /\ Leave(pmm, satp[p])
  /\ swap' = IF how = "waitpid" /\ LastOwner(satp[p]) THEN [swap EXCEPT ![satp[p]] = NoSwap] ELSE swap
  /\ UNCHANGED <<vmo, tlb, ipi, op, leaked, may>>

-----------------------------------------------------------------------------
(* Blocking: a process that gives up its hart gets a flushed TLB with the next. *)

Pause(p, call, how) ==
  /\ Can(p, call)
  /\ status' = [status EXCEPT ![p] = how]
  /\ Flushed(p)
  /\ ipi' = ipi \ {p}
  /\ UNCHANGED <<pmm, table, low, swap, shared, satp, vmo, op, leaked, may>>

\* The server q answers its client p.
Reply(q, p) ==
  /\ Can(q, "reply") /\ status[p] = "blocked" /\ TableFree
  /\ status' = [status EXCEPT ![p] = "running"]
  /\ UNCHANGED <<pmm, table, low, swap, shared, satp, vmo, tlb, ipi, op, leaked, may>>

\* A wake-up takes PROCESS_TABLE, as schedule() does to look the process up.
Resume(p) ==
  /\ status[p] = "stopped" /\ TableFree
  /\ status' = [status EXCEPT ![p] = "running"]
  /\ UNCHANGED <<pmm, table, low, swap, shared, satp, vmo, tlb, ipi, op, leaked, may>>

-----------------------------------------------------------------------------
(* sys_datacopy, one chunk: the roots are read under PROCESS_TABLE, the tables *)
(* are walked and the bytes copied without it.  Its callers are servers; they  *)
(* copy from and to clients that wait for their reply, unless they may do so   *)
(* to "any" process, which nothing in the kernel forbids.                      *)

Datacopy(q, s, d, spg, dpg) ==
  /\ Can(q, "datacopy") /\ TableFree /\ <<s, spg>> # <<d, dpg>>
  /\ \A c \in {s, d} \ {q} : status[c] = "blocked" \/ (Live(c) /\ "any" \in may.calls[q])
  /\ op' = [op EXCEPT ![q] = [InUser EXCEPT !.pc = "src", !.root = satp[s], !.page = spg,
                                            !.dst = <<satp[d], dpg>>]]
  /\ UNCHANGED <<pmm, table, low, swap, shared, status, satp, vmo, tlb, ipi, leaked, may>>

\* The source page is there, is faulted in and looked up once more, or is an error.
CopySource(q) ==
  /\ op[q].pc \in {"src", "src again"}
  /\ op' = IF Valid(Here(q))
           THEN [op EXCEPT ![q] = [InUser EXCEPT !.pc = "dst", !.src = Here(q).frame,
                                     !.root = op[q].dst[1], !.page = op[q].dst[2], !.dst = op[q].dst]]
           ELSE IF op[q].pc = "src"
           THEN [op EXCEPT ![q].pc = "fault", ![q].to = "src again"]
           ELSE [op EXCEPT ![q] = InUser]
  /\ UNCHANGED <<pmm, table, low, swap, shared, status, satp, vmo, tlb, ipi, leaked, may>>

\* The destination page is writable, is made writable, or is faulted in.  After a fault its
\* frame is taken as it is.
CopyTarget(q) ==
  /\ op[q].pc \in {"dst", "dst again"}
  /\ LET e == Here(q)
     IN  op' = IF Valid(e) /\ (e.w \/ op[q].pc = "dst again")
               THEN [op EXCEPT ![q].pc = "transfer", ![q].frame = e.frame]
               ELSE IF op[q].pc = "dst again"
               THEN [op EXCEPT ![q] = InUser]
               ELSE [op EXCEPT ![q].pc = IF Valid(e) THEN "store" ELSE "fault", ![q].to = "dst again"]
  /\ UNCHANGED <<pmm, table, low, swap, shared, status, satp, vmo, tlb, ipi, leaked, may>>

Transfer(q) ==
  /\ op[q].pc = "transfer"
  /\ pmm' = Filled(pmm, op[q].frame, pmm.data[op[q].src])
  /\ Return(q)
  /\ UNCHANGED <<table, low, swap, shared, status, satp, vmo, tlb, ipi, leaked, may>>

-----------------------------------------------------------------------------
(* Memory objects of one page: sys_vmo_create, sys_vmo_map, sys_handle_close *)

GetVmo(p) ==
  /\ pmm' = alloc_frame(pmm)
  /\ vmo' = [vmo EXCEPT ![p] = Head(pmm.free)]

\* alloc_page: when there is no frame a page is evicted and the list tried once more.
VmoCreate(p) ==
  /\ Can(p, "vmo") /\ vmo[p] = 0
  /\ \/ Some(pmm) /\ GetVmo(p) /\ UNCHANGED <<op, swap, table>>
     \/ /\ ~Some(pmm) /\ TableFree /\ Victims # {}
        /\ Evict
        /\ Goto(p, "evicted")
        /\ UNCHANGED vmo
  /\ UNCHANGED <<low, shared, status, satp, tlb, ipi, leaked, may>>

VmoRetry(p) ==
  /\ op[p].pc = "evicted"
  /\ IF Some(pmm) THEN GetVmo(p) ELSE UNCHANGED <<pmm, vmo>>
  /\ Return(p)
  /\ UNCHANGED <<table, low, swap, shared, status, satp, tlb, ipi, leaked, may>>

\* The reference is taken before the page is mapped and given back if that fails.
VmoMap(p, pg) ==
  LET m == incr_ref(pmm, vmo[p])
  IN  /\ Can(p, "vmomap") /\ vmo[p] # 0
      /\ CanMap(m, satp[p], pg)
      /\ MapPage(m, satp[p], pg, [frame |-> vmo[p], w |-> TRUE, cow |-> FALSE, vmo |-> TRUE])
      /\ Flushed(p)
      /\ UNCHANGED <<swap, shared, status, satp, vmo, ipi, op, leaked, may>>

VmoClose(p) ==
  /\ Can(p, "vmoclose") /\ vmo[p] # 0
  /\ DropVmo(p)
  /\ UNCHANGED <<table, low, swap, shared, status, satp, tlb, ipi, op, leaked, may>>

-----------------------------------------------------------------------------
\* The processes of the program start with empty tables, each on a root of its own.
Init ==
  /\ may \in Programs
  /\ LET n == Cardinality(may.born)
     IN  /\ pmm = [count |-> [f \in Frames |-> IF f <= n THEN 1 ELSE 0],
                   free  |-> [i \in 1..may.frames - n |-> n + i],
                   data  |-> [f \in Frames |-> IF f <= n THEN 0 ELSE Poison]]
         /\ satp = [p \in Procs |-> IF p \in may.born
                                    THEN Cardinality({q \in may.born : q <= p}) ELSE 0]
  /\ table = [f \in Frames |-> EmptyTable] /\ low = [f \in Frames |-> 0]
  /\ swap = [f \in Frames |-> NoSwap] /\ shared = [f \in Frames |-> 0]
  /\ status = [p \in Procs |-> IF p \in may.born THEN "running" ELSE "unborn"]
  /\ vmo = [p \in Procs |-> 0] /\ tlb = [p \in Procs |-> EmptyTable]
  /\ ipi = {} /\ op = [p \in Procs |-> InUser]
  /\ leaked = [f \in Frames |-> 0]

UserStep(p) ==
  \/ \E pg \in may.pages : Load(p, pg) \/ VmoMap(p, pg)
  \/ \E pg \in may.pages, x \in Values : Store(p, pg, x)
  \/ \E a, b \in may.pages : Unmap(p, a, b)
  \/ \E c \in Procs : Thread(p, c) \/ Reply(p, c)
  \/ \E s, c \in Procs, how \in {"fork", "clone", "pmclone"} : Fork(p, s, c, how)
  \/ \E q \in Procs, how \in {"waitpid", "pmreap"} : Reap(p, q, how)
  \/ \E s, d \in Procs, a, b \in may.pages : Datacopy(p, s, d, a, b)
  \/ Exec(p) \/ Exit(p) \/ VmoCreate(p) \/ VmoClose(p)
  \/ Pause(p, "stop", "stopped") \/ Pause(p, "block", "blocked")

HandlerStep(p) ==
  \/ StoreFault(p) \/ CowCopy(p) \/ CowInstall(p) \/ CowDrop(p) \/ Flush(p)
  \/ UserFault(p) \/ SwapIn(p) \/ MapWalk(p) \/ MapTable(p) \/ MapWrite(p)
  \/ UnmapFree(p) \/ UnmapClear(p)
  \/ CloneTables(p) \/ ClonePage(p) \/ ExecLoad(p) \/ ExecSwitch(p)
  \/ CopySource(p) \/ CopyTarget(p) \/ Transfer(p) \/ VmoRetry(p)

Next == \E p \in Procs : UserStep(p) \/ HandlerStep(p) \/ TakeIpi(p) \/ Resume(p)

Spec == Init /\ [][Next]_vars

-----------------------------------------------------------------------------
(* Properties *)

BeingCleared(r, pg) == \E p \in Procs : op[p].pc = "clear" /\ op[p].root = r /\ op[p].page = pg

\* The address spaces there are: those of processes, and one exec is filling.
Roots ==
  ({satp[p] : p \in Procs} \cup {op[p].root : p \in {q \in Procs : op[q].pc \in {"load", "switch"}}}) \ {0}

\* Who holds frame f: leaf entries, a process as its root, a root as its tables, a memory
\* object, and handlers that have allocated it or still owe its release.
References(f) ==
    Cardinality({<<r, pg>> \in Roots \X Pages : table[r][pg].frame = f /\ ~BeingCleared(r, pg)})
  + (IF f \in Roots THEN 1 ELSE 0)
  + Cardinality({r \in Roots : low[r] = f})
  + (IF \E p \in Procs : vmo[p] = f THEN 1 ELSE 0)
  + Cardinality({p \in Procs : op[p].pc \in {"copy", "install", "map", "table", "write"} /\ op[p].frame = f})
  + Cardinality({p \in Procs : op[p].pc = "table" /\ op[p].lower = f})
  + Cardinality({p \in Procs : op[p].pc = "drop" /\ op[p].old = f})

\* Every frame's count is the number of its holders, and the free list holds each unheld
\* frame once: pages are neither leaked, nor freed twice, nor free while mapped, through
\* faults, forks, unmapping, eviction, exec and exit on several harts (pmm.rs: "Decrements the
\* reference count and, if it reaches zero, returns the page to the free list").  Two threads
\* that first touch a page, or the region of a missing table, at once may overwrite each
\* other's entry: map_page tests and writes without a lock.  What was overwritten is leaked,
\* and this says that such a frame is lost once and for good, never handed out again.
FramesAccounted ==
  \A f \in 1..may.frames :
     LET held == References(f) + leaked[f]
     IN  /\ pmm.count[f] = held
         /\ Cardinality({i \in DOMAIN pmm.free : pmm.free[i] = f}) = (IF held = 0 THEN 1 ELSE 0)

\* A page that can be written, through an entry or through a translation cached by a hart in
\* user mode, is mapped by no other address space: copy-on-write takes the right to write from
\* every table and every TLB before a second space maps the frame.
WritersAreAlone ==
  \A p \in Procs, pg \in Pages :
     LET e == Translation(p, pg)
     IN  Live(p) /\ op[p].pc = "user" /\ e.w /\ ~e.vmo =>
           \A r \in Roots \ {satp[p]}, q \in Pages : table[r][q].frame = e.frame => BeingCleared(r, q)

\* A hart in user mode translates as its page table says, unless a flush is on its way: a
\* request is pending, or the thread that changed the table has not sent it yet.
TlbCurrent ==
  \A p \in Procs, pg \in Pages :
     status[p] = "running" /\ op[p].pc = "user" /\ Valid(tlb[p][pg]) =>
        \/ tlb[p][pg] = table[satp[p]][pg]
        \/ p \in ipi
        \/ \E q \in Procs \ {p} : op[q].root = satp[p] /\ op[q].pc \in {"map", "write", "drop", "flush"}

\* An evicted page belongs to an address space that still exists and does not have it in memory
\* as well (swap.rs: "When a process exits, evict_all removes all swap entries belonging to that
\* process").
EvictedPagesOwned ==
  \A r \in Frames, pg \in Pages :
     swap[r][pg].in => r \in Roots /\ ~Valid(table[r][pg])

\* What a space holds: in memory, evicted, on its way back, or never touched.
Content(r, pg) ==
  LET back == {p \in Procs : /\ op[p].pc \in {"map", "table", "write"} /\ op[p].how = "swapin"
                             /\ op[p].root = r /\ op[p].page = pg}
      e == table[r][pg]
  IN  CASE Valid(e) /\ ~BeingCleared(r, pg) -> IF e.vmo THEN Shared ELSE pmm.data[e.frame]
        [] swap[r][pg].in -> swap[r][pg].value
        [] back # {} -> pmm.data[op[CHOOSE p \in back : TRUE].frame]
        [] OTHER -> 0

InUse(r) == \E p \in Procs : Live(p) /\ satp[p] = r

Making(p, c) == op[p].pc \in {"tables", "clone", "deadlock"} /\ op[p].child = c

Abstract == INSTANCE PrivateSpaces WITH
  Users <- Procs,
  Spaces <- Frames,
  home <- [p \in Procs |-> IF Live(p) THEN satp[p] ELSE Gone],
  from <- [c \in Procs |-> IF \E p \in Procs : Making(p, c) THEN op[CHOOSE p \in Procs : Making(p, c)].root
                           ELSE Gone],
  mem <- [r \in Frames |-> IF InUse(r) THEN [pg \in Pages |-> Content(r, pg)] ELSE Gone]

\* Copy-on-write, demand paging, swapping and copying between processes together implement
\* private memories: a step changes at most one page of one space, fork hands over exactly
\* the parent's contents, exec starts blank, and only threads see the same memory.
SpacesArePrivate == Abstract!Spec

\* The steps that are to change page pg of space r: a store by one of its processes, its
\* unmapping, the end of a datacopy, the mapping of a memory object.  A page that cannot be
\* swapped in is lost, and its process with it.  A second thread that maps the page, or its
\* tables, over the first one's puts a fresh page there.
Changes(p, r, pg) ==
  \/ satp[p] = r /\ \E x \in Values : Store(p, pg, x)
  \/ satp[p] = r /\ VmoMap(p, pg)
  \/ op[p].root = r /\ op[p].page = pg /\ (UnmapFree(p) \/ Transfer(p))
  \/ op[p].root = r /\ op[p].page = pg /\ op[p].pc = "swapin" /\ op'[p].pc = "die"
  \/ op[p].root = r /\ leaked' # leaked /\ (MapTable(p) \/ MapWrite(p))

\* What a process reads stays what it is until the page is written or given up: not the
\* copying and installing of a private copy (handle_store_page_fault), nor a fork, an eviction,
\* a swap_in or the end of another process ever changes it.  Only a thread's own twin does,
\* in the race of two first touches (map_page), and only in the steps that overwrite an entry.
OnlyWritesChange ==
  [][\A r \in Frames : InUse(r) /\ InUse(r)' =>
       \A pg \in Pages : Content(r, pg)' # Content(r, pg) => \E p \in Procs : Changes(p, r, pg)]_vars

\* A page is written through one mapping only, and no translation a hart has
\* cached is out of date: what fork shares and a write copies is seen by no
\* other process (fork, the copy-on-write fault, unmap, eviction).
MappingsSound == WritersAreAlone /\ TlbCurrent

\* Every frame is free, held as often as it is counted, or leaked by two threads that
\* mapped at once, and every page in the swap belongs to a space that is still there.
FramesAndSwapAccounted == TypeOK /\ FramesAccounted /\ EvictedPagesOwned

\* Each process has its address space to itself: the system implements private
\* memories, and only a store, or the racing first touch of a fellow thread, changes
\* what a process reads.  Evictions and copies between processes occur in
\* different programs: a page lost by a copy's swap_in is outside of this.
MemoryIsPrivate == SpacesArePrivate /\ OnlyWritesChange
=============================================================================
