------------------------------ MODULE OfsFiles ------------------------------
(***************************************************************************)
(* Inodes, block maps, directories and paths of OFS, the file system under *)
(* /mnt: src/user/vfs-server/src/blockfs.rs above its journal, and the     *)
(* operations of BlockFs in main.rs.  A commit is one step here: OfsJournal*)
(* implements AtomicStore.  The inode cache is modelled by itself, below.  *)
(*                                                                         *)
(* An operator maps a state of the file system to a state.  s is the view  *)
(* read_blk gives, with the home blocks that are pending (s.dirty), what   *)
(* the disk holds (s.disk), and the disks the request has gone through     *)
(* (s.snaps).  A block is a sequence of cells; a cell is <<>> (zero), a    *)
(* byte <<v>>, a pointer <<b>> or an entry <<name, inode, type>>.          *)
(***************************************************************************)
EXTENDS Naturals, Integers, Sequences, FiniteSets, SequencesExt

CONSTANTS
  DataBlks,        \* data blocks: 1..n
  Inodes,        \* 0..n; 0 is ROOT_INODE
  NDirect,       \* 12 in the code
  PerBlock,      \* cells in a block
  JournalRoom,  \* JOURNAL_SLOTS
  MaxFollow      \* symbolic links a lookup follows, 8 in the code

Zero == <<>>
ZeroBlock == [k \in 0..(PerBlock - 1) |-> Zero]
NoPtr == [k \in 0..(NDirect + 1) |-> 0]
FreeInode == [type |-> "free", size |-> 0, nlink |-> 0, ptr |-> NoPtr]
NewInode(type) == [type |-> type, size |-> 0, nlink |-> 1, ptr |-> NoPtr]

Image(s) == [bused |-> s.bused, iused |-> s.iused, ino |-> s.ino, blk |-> s.blk]
Mounted(d) == [bused |-> d.bused, iused |-> d.iused, ino |-> d.ino, blk |-> d.blk,
               dirty |-> {}, disk |-> d, snaps |-> <<>>, stuck |-> FALSE]

\* The disk mkfs leaves
Formatted ==
  [bused |-> {}, iused |-> {0},
   ino |-> [i \in Inodes |-> IF i = 0 THEN NewInode("dir") ELSE FreeInode],
   blk |-> [b \in DataBlks |-> ZeroBlock]]

Ok(s)  == [s |-> s, ok |-> TRUE]
Err(s) == [s |-> s, ok |-> FALSE]

-----------------------------------------------------------------------------
(* Blocks and inodes *)

\* commit_txn; stuck: more is pending than the journal holds, and stays so.
CommitFiles(s) ==
  CASE Cardinality(s.dirty) > JournalRoom -> Err([s EXCEPT !.stuck = TRUE])
    [] Cardinality(s.dirty) <= JournalRoom ->
         Ok([s EXCEPT !.dirty = {}, !.disk = Image(s), !.snaps = Append(@, Image(s))])

PendBlk(s, b, cells)   == [s EXCEPT !.blk[b] = cells, !.dirty = @ \cup {<<"data", b>>}]
WriteInode(s, i, inode) == [s EXCEPT !.ino[i] = inode, !.dirty = @ \cup {<<"table", 0>>}]

\* The first free one, or 0: bitmap_alloc
Lowest(free) == IF free = {} THEN 0 ELSE Min(free)

\* alloc_block and the zeros its callers write
TakeBlock(s, b) ==
  [s |-> IF b = 0 THEN s
         ELSE PendBlk([s EXCEPT !.bused = @ \cup {b}, !.dirty = @ \cup {<<"bitmap", 0>>}], b, ZeroBlock),
   b |-> b]
AllocBlock(s) == TakeBlock(s, Lowest(DataBlks \ s.bused))

\* What a free block or inode holds is never read again: it is reset here.
FreeBlocks(s, bs) ==
  IF bs = {} THEN s
  ELSE [s EXCEPT !.bused = @ \ bs, !.dirty = @ \cup {<<"bitmap", 0>>},
                 !.blk = [b \in bs |-> ZeroBlock] @@ s.blk]

FreeInodeBit(s, i) ==
  [s EXCEPT !.iused = @ \ {i}, !.dirty = @ \cup {<<"inodes", 0>>}, !.ino[i] = FreeInode]

\* create_inode and alloc_inode
TakeInode(s, i, type) ==
  [s |-> IF i = 0 THEN s
         ELSE WriteInode([s EXCEPT !.iused = @ \cup {i}, !.dirty = @ \cup {<<"inodes", 0>>}], i, NewInode(type)),
   i |-> i]
CreateInode(s, type) == TakeInode(s, Lowest((Inodes \ {0}) \ s.iused), type)

\* get_file_block: pointer k of an inode, and pointer k of the pointer block
\* g.b; what is missing is allocated (a) if it is asked for.
SetInodePtr(a, i, k) ==
  IF a.b = 0 THEN a ELSE [a EXCEPT !.s = WriteInode(a.s, i, [a.s.ino[i] EXCEPT !.ptr[k] = a.b])]
InodePtr(s, i, k, alloc) ==
  CASE s.ino[i].ptr[k] # 0 -> [s |-> s, b |-> s.ino[i].ptr[k]]
    [] s.ino[i].ptr[k] = 0 /\ ~alloc -> [s |-> s, b |-> 0]
    [] s.ino[i].ptr[k] = 0 /\ alloc -> SetInodePtr(AllocBlock(s), i, k)

SetBlockPtr(a, i, b, k) ==
  IF a.b = 0 THEN a
  ELSE [a EXCEPT !.s = WriteInode(PendBlk(a.s, b, [a.s.blk[b] EXCEPT ![k] = <<a.b>>]), i, a.s.ino[i])]
BlockPtr(g, i, k, alloc) ==
  CASE g.b = 0 -> g
    [] g.b # 0 /\ g.s.blk[g.b][k] # Zero -> [g EXCEPT !.b = g.s.blk[g.b][k][1]]
    [] g.b # 0 /\ g.s.blk[g.b][k] = Zero /\ ~alloc -> [g EXCEPT !.b = 0]
    [] g.b # 0 /\ g.s.blk[g.b][k] = Zero /\ alloc -> SetBlockPtr(AllocBlock(g.s), i, g.b, k)

GetFileBlock(s, i, idx, alloc) ==
  LET single == idx - NDirect
      double == single - PerBlock
  IN CASE single < 0 -> InodePtr(s, i, idx, alloc)
       [] single \in 0..(PerBlock - 1) -> BlockPtr(InodePtr(s, i, NDirect, alloc), i, single, alloc)
       [] double \in 0..(PerBlock * PerBlock - 1) ->
            BlockPtr(BlockPtr(InodePtr(s, i, NDirect + 1, alloc), i, double \div PerBlock, alloc),
                     i, double % PerBlock, alloc)
       [] double >= PerBlock * PerBlock -> [s |-> s, b |-> 0]

\* The blocks of an inode, pointer blocks included, each with the way to it
Pointees(s, way, b) ==
  IF b = 0 THEN {} ELSE {<<way \o <<k>>, s.blk[b][k][1]>> : k \in {k \in 0..(PerBlock - 1) : s.blk[b][k] # Zero}}
Walk(s, i) ==
  LET ptr   == s.ino[i].ptr
      outer == Pointees(s, <<NDirect + 1>>, ptr[NDirect + 1])
  IN {<< <<k>>, ptr[k]>> : k \in {k \in DOMAIN ptr : ptr[k] # 0}}
     \cup Pointees(s, <<NDirect>>, ptr[NDirect]) \cup outer \cup UNION {Pointees(s, o[1], o[2]) : o \in outer}
BlocksOf(s, i) == {w[2] : w \in Walk(s, i)}

\* file_truncate and free_indirect_blocks
FileTruncate(s, i) ==
  CommitFiles(WriteInode(FreeBlocks(s, BlocksOf(s, i)), i, [s.ino[i] EXCEPT !.ptr = NoPtr, !.size = 0])).s

-----------------------------------------------------------------------------
(* Files *)

\* The cell at position n, or Hole: file_read gives MissingBlock for it.
Hole == <<"hole">>
CellOf(g, n) == IF g.b = 0 THEN Hole ELSE g.s.blk[g.b][n % PerBlock]
FileCell(s, i, n) == CellOf(GetFileBlock(s, i, n \div PerBlock, FALSE), n)
FileRead(s, i) == [n \in 1..s.ino[i].size |-> FileCell(s, i, n - 1)]

PutCell(g, n, cell) ==
  IF g.b = 0 THEN Err(g.s) ELSE Ok(PendBlk(g.s, g.b, [g.s.blk[g.b] EXCEPT ![n % PerBlock] = cell]))
WriteCell(r, i, n, cell) ==
  IF r.ok THEN PutCell(GetFileBlock(r.s, i, n \div PerBlock, TRUE), n, cell) ELSE r

\* file_write: the result of its commit is not looked at.
Written(r, i, end) ==
  IF ~r.ok THEN r
  ELSE Ok(CommitFiles(IF end > r.s.ino[i].size THEN WriteInode(r.s, i, [r.s.ino[i] EXCEPT !.size = end]) ELSE r.s).s)
FileWrite(s, i, n, cells) ==
  IF s.ino[i].type \notin {"file", "link"} THEN Err(s)
  ELSE Written(FoldLeft(LAMBDA acc, k : WriteCell(acc, i, n + k - 1, cells[k]), Ok(s), [k \in DOMAIN cells |-> k]),
               i, n + Len(cells))

-----------------------------------------------------------------------------
(* Directories.  The cells of a directory are its entries, from 1 on. *)

NoEntry == [i |-> -1, type |-> "free"]
Slots(s, d) == 0..(s.ino[d].size - 1)
Named(cells, name) == {n \in DOMAIN cells : cells[n] # Zero /\ cells[n][1] = name}

EntryOf(cells, name) ==
  LET at == Named(cells, name)
  IN IF at = {} THEN NoEntry ELSE [i |-> cells[Min(at)][2], type |-> cells[Min(at)][3]]
DirLookup(s, d, name) == IF s.ino[d].type # "dir" THEN NoEntry ELSE EntryOf(FileRead(s, d), name)

Relinked(s, i, delta) ==
  WriteInode(s, i, [s.ino[i] EXCEPT !.nlink = IF @ + delta < 0 THEN 0 ELSE @ + delta])

\* dir_add_entry: a cleared slot, or the first slot of a new block; names are
\* not compared with the ones that are there.
NewBlock(g, d, idx, entry) ==
  IF g.b = 0 THEN Err(g.s)
  ELSE Ok(WriteInode(PendBlk(g.s, g.b, [ZeroBlock EXCEPT ![0] = entry]), d,
                     [g.s.ino[d] EXCEPT !.size = idx * PerBlock + 1]))
Placed(s, d, empty, entry) ==
  LET idx == (s.ino[d].size + PerBlock - 1) \div PerBlock
      at  == Min(empty)
  IN IF empty = {} THEN NewBlock(GetFileBlock(s, d, idx, TRUE), d, idx, entry)
     ELSE PutCell(GetFileBlock(s, d, at \div PerBlock, FALSE), at, entry)
Added(r, d, type) ==
  IF r.ok THEN CommitFiles(IF type = "dir" THEN Relinked(r.s, d, 1) ELSE r.s) ELSE r
DirAddEntry(s, d, name, i, type) ==
  IF s.ino[d].type # "dir" THEN Err(s)
  ELSE Added(Placed(s, d, {n \in Slots(s, d) : FileCell(s, d, n) = Zero}, <<name, i, type>>), d, type)

\* Faulty variant: the child does not count its new entry.
DirLinkUncounted(s, d, name, i, type) == DirAddEntry(s, d, name, i, type)

\* If the entry could not be added the child's inode is written back.
Counted(r, i, inode) == IF r.ok THEN r ELSE Err(WriteInode(r.s, i, inode))
DirLinkEntry(s, d, name, i, type) ==
  Counted(DirAddEntry(Relinked(s, i, 1), d, name, i, type), i, s.ino[i])

InitDir(s, i, parent) ==
  LET a == AllocBlock(s)
      cells == [k \in 0..(PerBlock - 1) |-> CASE k = 0 -> <<".", i, "dir">>
                                              [] k = 1 -> <<"..", parent, "dir">>
                                              [] k > 1 -> Zero]
  IN IF a.b = 0 THEN Err(s)
     ELSE Ok(CommitFiles(WriteInode(PendBlk(a.s, a.b, cells), i,
               [NewInode("dir") EXCEPT !.ptr[0] = a.b, !.size = 2, !.nlink = 2])).s)

\* dir_unlink: at the last link the child is truncated, which commits, and
\* freed.  A directory keeps the link of its "." and is never freed.
Uncounted(s, i) ==
  IF s.ino[i].nlink <= 1 THEN FreeInodeBit(FileTruncate(s, i), i) ELSE Relinked(s, i, -1)
ClearSlot(s, v, b, n) == Ok(CommitFiles(PendBlk(v, b, [s.blk[b] EXCEPT ![n % PerBlock] = Zero])).s)
UnlinkEntry(s, d, entry, n) ==
  LET u == Uncounted(s, entry[2])
  IN ClearSlot(s, IF entry[3] = "dir" THEN Relinked(u, d, -1) ELSE u, GetFileBlock(s, d, n \div PerBlock, FALSE).b, n)
UnlinkNamed(s, d, cells, name) ==
  LET at == Named(cells, name)
  IN IF at = {} THEN Err(s) ELSE UnlinkEntry(s, d, cells[Min(at)], Min(at) - 1)
DirUnlink(s, d, name) == UnlinkNamed(s, d, FileRead(s, d), name)

-----------------------------------------------------------------------------
(* Paths and the operations on them *)

Root == [i |-> 0, type |-> "dir"]

\* lookup_path_depth: the path from its component k on, below the entry cur.
\* The target of a symbolic link is a sequence of cells, <<"/">> first if it
\* is absolute; it is looked up from the root.
Spliced(path, k, names) ==
  (IF names # <<>> /\ names[1] = "/" THEN Tail(names) ELSE SubSeq(path, 1, k - 1) \o names)
    \o SubSeq(path, k + 1, Len(path))

RECURSIVE LookupFrom(_, _, _, _, _), LookupNext(_, _, _, _, _), Follow(_, _, _, _, _)
LookupFrom(s, path, k, cur, depth) ==
  IF k > Len(path) THEN cur
  ELSE IF cur.type # "dir" THEN NoEntry
  ELSE LookupNext(s, path, k, DirLookup(s, cur.i, path[k]), depth)

LookupNext(s, path, k, next, depth) ==
  CASE next = NoEntry -> NoEntry
    [] next.type = "link" -> IF depth = 0 THEN NoEntry ELSE Follow(s, path, k, FileRead(s, next.i), depth)
    [] next # NoEntry /\ next.type # "link" -> LookupFrom(s, path, k + 1, next, depth)

Follow(s, path, k, target, depth) ==
  IF Contains(target, Hole) THEN NoEntry
  ELSE LookupFrom(s, Spliced(path, k, [n \in DOMAIN target |-> target[n][1]]), 1, Root, depth - 1)

LookupPath(s, path) == LookupFrom(s, path, 1, Root, MaxFollow)
ParentOf(s, path) == IF path = <<>> THEN NoEntry ELSE LookupPath(s, Front(path))

\* The operations below take a path under /mnt.

\* The new inode i is given back if a later step fails.
OrFree(r, i) == IF r.ok THEN r ELSE Err(FreeInodeBit(r.s, i))
OrTruncate(r, i) == IF r.ok THEN r ELSE Err(FileTruncate(r.s, i))

NameDir(r, d, name, i) == IF r.ok THEN OrTruncate(DirAddEntry(r.s, d, name, i, "dir"), i) ELSE r
MkdirAt(s, dir, name, c) ==
  IF dir.type # "dir" \/ c.i = 0 THEN Err(s)
  ELSE OrFree(NameDir(InitDir(c.s, c.i, dir.i), dir.i, name, c.i), c.i)
OfsMkdir(s, path) == MkdirAt(s, ParentOf(s, path), Last(path), CreateInode(s, "dir"))

CreateAt(s, dir, name, old, c) ==
  CASE dir.type # "dir" -> Err(s)
    [] dir.type = "dir" /\ old # NoEntry -> IF old.type = "file" THEN Ok(FileTruncate(s, old.i)) ELSE Err(s)
    [] dir.type = "dir" /\ old = NoEntry ->
         IF c.i = 0 THEN Err(s) ELSE OrFree(DirAddEntry(c.s, dir.i, name, c.i, "file"), c.i)
OfsCreate(s, path) == CreateAt(s, ParentOf(s, path), Last(path), LookupPath(s, path), CreateInode(s, "file"))

OfsUnlink(s, path) ==
  LET dir == ParentOf(s, path) IN IF dir.type # "dir" THEN Err(s) ELSE DirUnlink(s, dir.i, Last(path))

OfsWrite(s, path, n, cells) ==
  LET e == LookupPath(s, path) IN IF e.type # "file" THEN Err(s) ELSE FileWrite(s, e.i, n, cells)

\* OP_FTRUNCATE under /mnt: the length asked for is not looked at.
OfsTruncate(s, path) ==
  LET e == LookupPath(s, path) IN IF e.type # "file" THEN Err(s) ELSE Ok(FileTruncate(s, e.i))

SymlinkAt(s, dir, name, c, w) ==
  IF dir.type # "dir" \/ c.i = 0 THEN Err(s)
  ELSE OrFree(IF w.ok THEN DirAddEntry(w.s, dir.i, name, c.i, "link") ELSE w, c.i)
OfsSymlink(s, path, target) ==
  LET c == CreateInode(s, "link")
  IN SymlinkAt(s, ParentOf(s, path), Last(path), c, FileWrite(c.s, c.i, 0, target))

LinkAt(s, dir, name, e) ==
  IF e = NoEntry \/ dir = NoEntry THEN Err(s) ELSE DirLinkEntry(s, dir.i, name, e.i, e.type)
OfsLink(s, old, new) == LinkAt(s, ParentOf(s, new), Last(new), LookupPath(s, old))

\* rename: three commits if the new name is taken, two otherwise.
Moved(l, from, name) == IF l.ok THEN DirUnlink(l.s, from.i, name) ELSE l
RenameEntry(s, from, old, to, new, e, over) ==
  CASE e = NoEntry -> Err(s)
    [] e # NoEntry /\ over.i = e.i -> Ok(s)
    [] e # NoEntry /\ over.i # e.i ->
         Moved(DirLinkEntry(IF over = NoEntry THEN s ELSE DirUnlink(s, to.i, new).s, to.i, new, e.i, e.type), from, old)
RenameAt(s, from, old, to, new) ==
  IF from = NoEntry \/ to = NoEntry THEN Err(s)
  ELSE RenameEntry(s, from, old, to, new, DirLookup(s, from.i, old), DirLookup(s, to.i, new))
OfsRename(s, old, new) == RenameAt(s, ParentOf(s, old), Last(old), ParentOf(s, new), Last(new))

-----------------------------------------------------------------------------
(* What the disk promises *)

\* No block has two uses and every block in use is marked in the bitmap; every
\* entry names an inode in use, of the type the entry says, that counts the
\* entry among its links.
Sound(d) ==
  LET uses == UNION {{<<i, w[1], w[2]>> : w \in Walk(d, i)} : i \in d.iused}
      dirs == {i \in d.iused : d.ino[i].type = "dir"}
      entries == UNION {{<<i, n, FileCell(d, i, n)>> : n \in {n \in Slots(d, i) : FileCell(d, i, n) # Zero}} : i \in dirs}
  IN /\ Cardinality({u[3] : u \in uses}) = Cardinality(uses)
     /\ \A u \in uses : u[3] \in d.bused
     /\ \A e \in entries :
          /\ e[3] # Hole /\ e[3][2] \in d.iused
          /\ d.ino[e[3][2]].type = e[3][3]
          /\ e[3][3] # "dir" => Cardinality({x \in entries : x[3][2] = e[3][2]}) <= d.ino[e[3][2]].nlink

-----------------------------------------------------------------------------
(***************************************************************************)
(* The inode cache: a ring of entries filled round and round, beside the   *)
(* inodes themselves.  An inode is its version: how often it was written.  *)
(***************************************************************************)
CONSTANTS CachedInodes, CacheSize, MaxWrites, MaxFills

VARIABLES
  onDisk,        \* inode -> its version on disk
  ring,        \* the entries: a key, and a version or none
  generation,  \* where the next entry goes
  returned     \* the version the last read returned, and the one on disk then

cacheVars == <<onDisk, ring, generation, returned>>

None == -1

CacheInit ==
  /\ onDisk = [i \in CachedInodes |-> 1]
  /\ ring = [k \in 0..(CacheSize - 1) |-> [key |-> 0, val |-> None]]
  /\ generation = 1 /\ returned = <<0, 0>>

\* The first entry with the key, whatever it holds.
CacheSlots(i) == {k \in DOMAIN ring : ring[k].key = i}
Get(i) == IF CacheSlots(i) = {} THEN None ELSE ring[Min(CacheSlots(i))].val

Insert(i, v) ==
  /\ ring' = [ring EXCEPT ![generation % CacheSize] = [key |-> i, val |-> v]]
  /\ generation' = generation + 1

Invalidate(i) ==
  ring' = IF CacheSlots(i) = {} THEN ring ELSE [ring EXCEPT ![Min(CacheSlots(i))].val = None]

\* read_inode.
ReadInode(i) ==
  /\ IF Get(i) # None THEN returned' = <<Get(i), onDisk[i]>> /\ UNCHANGED <<ring, generation>>
     ELSE generation <= MaxFills /\ returned' = <<onDisk[i], onDisk[i]>> /\ Insert(i, onDisk[i])
  /\ UNCHANGED onDisk

\* Faulty variant: the cached copy is left.
StoreInodeKeeps(i) ==
  /\ onDisk[i] < MaxWrites /\ onDisk' = [onDisk EXCEPT ![i] = @ + 1]
  /\ UNCHANGED <<ring, generation, returned>>

\* write_inode.
StoreInode(i) ==
  /\ onDisk[i] < MaxWrites /\ onDisk' = [onDisk EXCEPT ![i] = @ + 1]
  /\ Invalidate(i)
  /\ UNCHANGED <<generation, returned>>

\* free_inode.
ForgetInode(i) == Invalidate(i) /\ UNCHANGED <<onDisk, generation, returned>>

CacheStep == \E i \in CachedInodes : ReadInode(i) \/ StoreInode(i) \/ ForgetInode(i)

\* While the ring has not gone round, a read returns the inode as it is on
\* disk: write_inode leaves no older copy that a later read would find.
ReadsCurrentInode == generation <= CacheSize => returned[1] = returned[2]
=============================================================================
