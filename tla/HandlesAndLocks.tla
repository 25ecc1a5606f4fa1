-------------------------- MODULE HandlesAndLocks --------------------------
(***************************************************************************)
(* The handle table of a process (src/src/ipc/handle.rs), and the POSIX    *)
(* byte-range locks (the tables FILE_LOCKS and LOCK_WAITERS of             *)
(* src/src/syscall/ipc.rs).                                                *)
(*                                                                         *)
(* A handle is a pair <<id, generation>>.  A table is a record with        *)
(*   map      id -> [obj, rights, gen], for the ids in use                 *)
(*   cloexec  the handles marked FD_CLOEXEC                                *)
(***************************************************************************)
EXTENDS Integers, Sequences, FiniteSets, SequencesExt, Functions

CONSTANTS Ids   \* the ids of a table: 0..65535 in the code

Rights == {"READ", "WRITE", "DUPLICATE", "TRANSFER"}
Generations == 0..2   \* the generations the code assigns to a new entry: 0 or 1

EmptyTable == [map |-> <<>>, cloexec |-> {}]

Entry(obj, rights, gen) == [obj |-> obj, rights |-> rights, gen |-> gen]

\* A map with the entry e at id, whatever was there before.
Put(map, id, e) == [i \in DOMAIN map \cup {id} |-> IF i = id THEN e ELSE map[i]]
Without(map, ids) == Restrict(map, DOMAIN map \ ids)

FreeIds(t) == Ids \ DOMAIN t.map
LowestFree(t) == Min(FreeIds(t))

\* insert_with_rights: the id is free, so no entry is found there and the
\* generation is 1 every time.
InsertWithRights(t, obj, rights) ==
  LET id  == LowestFree(t)
      gen == IF id \in DOMAIN t.map THEN (t.map[id].gen + 1) % 2^16 ELSE 1
  IN [table |-> [t EXCEPT !.map = Put(t.map, id, Entry(obj, rights, gen))],
      handle |-> <<id, gen>>]

Insert(t, obj) == InsertWithRights(t, obj, Rights)

InsertHandleAt(t, h, obj) == [t EXCEPT !.map = Put(t.map, h[1], Entry(obj, Rights, h[2]))]

\* insert_entry keeps the generation of the entry, not that of the handle.
InsertEntry(t, h, e) == [t EXCEPT !.map = Put(t.map, h[1], e)]

\* get, get_entry: the handle's generation must be the entry's.
Has(t, h) == h[1] \in DOMAIN t.map /\ t.map[h[1]].gen = h[2]
Obj(t, h) == t.map[h[1]].obj
HasRights(t, h, required) == Has(t, h) /\ required \subseteq t.map[h[1]].rights

\* Faulty variant: the generation is not compared.
RemoveAnyGeneration(t, h) == [map |-> Without(t.map, {h[1]}), cloexec |-> t.cloexec \ {h}]

\* remove, remove_entry: the mark goes even if the entry stays.
RemoveHandle(t, h) ==
  [map     |-> IF Has(t, h) THEN Without(t.map, {h[1]}) ELSE t.map,
   cloexec |-> t.cloexec \ {h}]

SetCloexec(t, h, on) ==
  [t EXCEPT !.cloexec = IF on THEN @ \cup {h} ELSE @ \ {h}]

CloseOnExec(t) ==
  [map     |-> Without(t.map, {h[1] : h \in {g \in t.cloexec : Has(t, g)}}),
   cloexec |-> {}]

\* dup: any rights of the source, all rights for the copy.
Dup(t, src) == Insert(t, Obj(t, src))

\* dup2: the rights of the source, the generation of the destination.
Dup2(t, src, dst) ==
  [map     |-> Put(t.map, dst[1], [t.map[src[1]] EXCEPT !.gen = dst[2]]),
   cloexec |-> t.cloexec \ {dst}]

\* The table of a child: Process::new copies the entries and the marks.
Inherited(t) == t

\* The handles that resolve.
Valid(t) == {<<id, t.map[id].gen>> : id \in DOMAIN t.map}

-----------------------------------------------------------------------------
(***************************************************************************)
(* The tables of locks are a record: held and waiters give, for each file  *)
(* id, a sequence of requests [pid, type, lo, hi]; woken collects the      *)
(* processes that wake_lock_waiters makes runnable.                        *)
(***************************************************************************)
CONSTANTS FileIds,   \* file ids: the VFS server's descriptor numbers
          Eof        \* i64::MAX, the end of a lock that runs to the end of file

NoLocks == [held    |-> [f \in FileIds |-> <<>>],
            waiters |-> [f \in FileIds |-> <<>>],
            woken   |-> {}]

\* resolve_range: l_whence is ignored, a length of 0 means to the end of file.
ResolveRange(start, len) ==
  LET lo == IF start < 0 THEN 0 ELSE start
  IN <<lo, IF len = 0 \/ lo + len > Eof THEN Eof ELSE lo + len>>

Request(pid, type, start, len) ==
  LET range == ResolveRange(start, len)
  IN [pid |-> pid, type |-> type, lo |-> range[1], hi |-> range[2]]

Overlap(r, e) == r.lo < e.hi /\ e.lo < r.hi

\* Faulty variant: readers do not exclude writers.
ConflictsWritersOnly(r, e) == r.pid # e.pid /\ Overlap(r, e) /\ r.type = "write"

Conflicts(r, e) ==
  r.pid # e.pid /\ Overlap(r, e) /\ (r.type = "write" \/ e.type = "write")

Available(L, f, r) == \A i \in DOMAIN L.held[f] : ~Conflicts(r, L.held[f][i])

\* The locks of f without those of pid that overlap r.
WithoutOverlapping(L, f, r) ==
  SelectSeq(L.held[f], LAMBDA e : e.pid # r.pid \/ ~Overlap(r, e))

\* try_acquire when it succeeds: whole overlapping locks are replaced.
Acquire(L, f, r) ==
  [L EXCEPT !.held[f] = Append(WithoutOverlapping(L, f, r), r)]

\* Faulty variant: a waiter is woken and its lock left to it to take.
WakeLockWaitersOnly(L, f) ==
  FoldLeft(LAMBDA M, w : IF Available(M, f, w)
                         THEN [M EXCEPT !.woken = @ \cup {w.pid}]
                         ELSE [M EXCEPT !.waiters[f] = Append(@, w)],
           [L EXCEPT !.waiters[f] = <<>>], L.waiters[f])

\* wake_lock_waiters: in queue order, each waiter that can have its lock gets
\* it, whether or not its process still waits.
WakeLockWaiters(L, f) ==
  FoldLeft(LAMBDA M, w : IF Available(M, f, w)
                         THEN [Acquire(M, f, w) EXCEPT !.woken = @ \cup {w.pid}]
                         ELSE [M EXCEPT !.waiters[f] = Append(@, w)],
           [L EXCEPT !.waiters[f] = <<>>], L.waiters[f])

ReleaseRange(L, f, r) ==
  WakeLockWaiters([L EXCEPT !.held[f] = WithoutOverlapping(L, f, r)], f)

\* release_fd_locks: on the close of any descriptor of the file.
ReleaseFdLocks(L, f, pid) == ReleaseRange(L, f, Request(pid, "unlock", 0, 0))

\* release_all_locks, from exit.  A request of pid itself stays in the queue.
ReleaseAllLocks(L, pid) ==
  LET gone == [L EXCEPT !.held = [f \in FileIds |-> SelectSeq(@[f], LAMBDA e : e.pid # pid)]]
  IN FoldLeft(WakeLockWaiters, gone, SetToSortSeq(FileIds, LAMBDA f, g : f < g))

\* The requests that nothing held excludes any more.
Grantable(L, f) == {i \in DOMAIN L.waiters[f] : Available(L, f, L.waiters[f][i])}
=============================================================================
