-------------------------------- MODULE Vfs --------------------------------
(***************************************************************************)
(* The file server's tree in memory, one per mount namespace, its table of *)
(* open files, and the requests of its clients: src/user/vfs-server/src/   *)
(* main.rs.  The server handles one request at a time, so a request is one *)
(* action.  Paths under /mnt belong to the block file system (OfsFiles).   *)
(*                                                                         *)
(* A path is the sequence of its components, "." and ".." included.  A     *)
(* node is [kind, data]: the bytes of a file (kind tar: in the initrd, mem:*)
(* in memory), the child names of a directory, the target of a symlink.    *)
(***************************************************************************)
EXTENDS OfsFiles

CONSTANTS
  Archive,     \* the initrd: a sequence of [path, kind, data]
  BootDirs,    \* the directories main adds: /tmp and /home/guest
  Spaces,      \* the ids of mount namespaces; 1 is the root namespace
  Virtual,     \* the paths served by procfs and devfs
  Programs,    \* what clients do, one program per behaviour: [ops,
               \* spaces, paths, fds, mnt, writes, left]: fds bounds the numbers of
               \* open files, mnt are paths under /mnt, writes what is written there,
               \* left bounds the number of requests there
  Offsets, Bytes

VARIABLES
  tree,     \* namespaces: [Spaces -> [nodes, meta]]
  files,    \* OpenTable.files: fd -> [path, offset, ns]
  nextFd,   \* OpenTable.next_fd
  last,     \* the request just served, of those that return something
  bent,     \* what requests have done to the tree of each namespace: see Bends
  mnt,      \* STATE: the block file system
  may       \* the program

vfsVars == <<tree, files, nextFd, last, bent, mnt, may>>

-----------------------------------------------------------------------------
(* Paths and nodes *)

NormalizePath(path) ==
  FoldLeft(LAMBDA acc, c : CASE c = "."  -> acc
                             [] c = ".." -> IF acc = <<>> THEN acc ELSE Front(acc)
                             [] c \notin {".", ".."} -> Append(acc, c),
           <<>>, path)

Dir(children) == [kind |-> "dir", data |-> children]
Mem(bytes)    == [kind |-> "mem", data |-> bytes]
Tar(bytes)    == [kind |-> "tar", data |-> bytes]
Symlink(path) == [kind |-> "link", data |-> path]
DefaultMode(node) == node.kind

NewTree == [nodes |-> (<<>> :> Dir(<<>>)), meta |-> (<<>> :> "dir")]

Has(t, k)   == k \in DOMAIN t.nodes
IsDir(t, k) == Has(t, k) /\ t.nodes[k].kind = "dir"

\* exists: a virtual path is compared as it was written.
Exists(t, path) == path \in Virtual \/ Has(t, NormalizePath(path))

\* A path that names something in a directory that is there (parent_and_name).
HasParent(t, k) == k # <<>> /\ IsDir(t, Front(k))

PushChild(t, k)   == [t EXCEPT !.nodes[Front(k)].data = Append(@, Last(k))]
RetainOther(t, k) == [t EXCEPT !.nodes[Front(k)].data = SelectSeq(@, LAMBDA c : c # Last(k))]
SetNode(t, k, node) == [t EXCEPT !.nodes = (k :> node) @@ @]
DefaultMeta(t, k)   == [t EXCEPT !.meta = @ @@ (k :> DefaultMode(t.nodes[k]))]
Drop(f, k) == Restrict(f, DOMAIN f \ {k})

Fail(t)  == [ok |-> FALSE, tree |-> t]
Good(t)  == [ok |-> TRUE, tree |-> t]

Mkdir(t, path) ==
  LET k == NormalizePath(path) IN
  IF Exists(t, k) \/ ~HasParent(t, k) THEN Fail(t)
  ELSE Good(DefaultMeta(SetNode(PushChild(t, k), k, Dir(<<>>)), k))

\* Every ancestor that is missing, then the directory.
MkdirAll(t, path) ==
  FoldLeft(LAMBDA u, n : IF Exists(u, SubSeq(path, 1, n)) THEN u ELSE Mkdir(u, SubSeq(path, 1, n)).tree,
           t, [i \in 1..Len(path) |-> i])

\* Faulty variant: a file that is created again is listed again.
ReplaceRelists(t, path, node) ==
  LET k == NormalizePath(path) IN
  IF ~HasParent(t, k) THEN Fail(t)
  ELSE Good(DefaultMeta(SetNode(PushChild(t, k), k, node), k))

\* create and insert_tar_file: whatever is at the path is replaced.
Replace(t, path, node) ==
  LET k == NormalizePath(path) IN
  IF ~HasParent(t, k) THEN Fail(t)
  ELSE Good(DefaultMeta(SetNode(IF Has(t, k) THEN t ELSE PushChild(t, k), k, node), k))

\* scan_initrd, then the directories main adds
Scanned(t, e) ==
  CASE e.path[1] \in {"proc", "dev"} -> t
    [] e.path[1] \notin {"proc", "dev"} /\ e.kind = "dir" -> MkdirAll(t, e.path)
    [] e.path[1] \notin {"proc", "dev"} /\ e.kind = "file" ->
         Replace(MkdirAll(t, Front(e.path)), e.path, Tar(e.data)).tree
RootTree ==
  LET t == FoldLeft(MkdirAll, FoldLeft(Scanned, NewTree, Archive), BootDirs)
  IN [t EXCEPT !.nodes[<<>>].data =
        @ \o SelectSeq(<<"proc", "dev">>, LAMBDA c : ~Contains(t.nodes[<<>>].data, c))]

Unlink(t, path) ==
  LET k == NormalizePath(path) IN
  IF ~Has(t, k) \/ ~HasParent(t, k) THEN Fail(t)
  ELSE LET u == RetainOther(t, k) IN Good([nodes |-> Drop(u.nodes, k), meta |-> Drop(u.meta, k)])

MakeSymlink(t, path, target) ==
  LET k == NormalizePath(path) IN
  IF Exists(t, k) \/ ~HasParent(t, k) THEN Fail(t)
  ELSE Good(DefaultMeta(SetNode(PushChild(t, k), k, Symlink(target)), k))

\* link: a copy of the node, without metadata
Link(t, old, new) ==
  LET o == NormalizePath(old)
      k == NormalizePath(new)
  IN IF ~Has(t, o) \/ IsDir(t, o) \/ ~HasParent(t, k) \/ Has(t, k) THEN Fail(t)
     ELSE Good(SetNode(PushChild(t, k), k, t.nodes[o]))

\* OP_RENAME outside /mnt: the paths as they were written, the node alone, and
\* the new name pushed whether or not it is listed.
Rename(t, old, new) ==
  IF ~Has(t, old) THEN Fail(t)
  ELSE LET gone   == [t EXCEPT !.nodes = Drop(@, old)]
           left   == IF old # <<>> /\ IsDir(gone, Front(old)) THEN RetainOther(gone, old) ELSE gone
           joined == IF new # <<>> /\ IsDir(left, Front(new)) THEN PushChild(left, new) ELSE left
           moved  == SetNode(joined, new, t.nodes[old])
       IN Good([moved EXCEPT !.meta = IF old \in DOMAIN @ THEN (new :> @[old]) @@ Drop(@, old) ELSE @])

\* chmod, chown and utimens: an entry of meta is made if there is none.
Chmod(t, path, mode) ==
  LET k == NormalizePath(path) IN
  IF ~Has(t, k) THEN Fail(t) ELSE Good([DefaultMeta(t, k) EXCEPT !.meta[k] = mode])

\* The bytes d, zero-filled to length n
Resized(d, n) == [i \in 1..n |-> IF i <= Len(d) THEN d[i] ELSE 0]

\* Faulty variant: a file of the initrd is promoted without its content.
WriteForgets(t, path, offset, byte) ==
  LET k == NormalizePath(path) IN
  IF ~Has(t, k) \/ t.nodes[k].kind \notin {"mem", "tar"} THEN Fail(t)
  ELSE LET d == IF t.nodes[k].kind = "mem" THEN t.nodes[k].data ELSE <<>>
           n == IF Len(d) < offset + 1 THEN offset + 1 ELSE Len(d)
       IN Good(SetNode(t, k, Mem([Resized(d, n) EXCEPT ![offset + 1] = byte])))

\* write of one byte: a file of the initrd is copied first.
Write(t, path, offset, byte) ==
  LET k == NormalizePath(path) IN
  IF ~Has(t, k) \/ t.nodes[k].kind \notin {"mem", "tar"} THEN Fail(t)
  ELSE LET d == t.nodes[k].data
           n == IF Len(d) < offset + 1 THEN offset + 1 ELSE Len(d)
       IN Good(SetNode(t, k, Mem([Resized(d, n) EXCEPT ![offset + 1] = byte])))

\* truncate: a file of the initrd becomes zeros.
Truncate(t, path, n) ==
  LET k == NormalizePath(path) IN
  IF ~Has(t, k) \/ t.nodes[k].kind \notin {"mem", "tar"} THEN Fail(t)
  ELSE Good(SetNode(t, k, Mem(Resized(IF t.nodes[k].kind = "mem" THEN t.nodes[k].data ELSE <<>>, n))))

\* stat
Size(t, path) ==
  LET k == NormalizePath(path)
  IN IF path \in Virtual \/ ~Has(t, k) \/ IsDir(t, k) THEN 0 ELSE Len(t.nodes[k].data)

-----------------------------------------------------------------------------
(* Requests *)

Silent == [op |-> "-", ns |-> 1, ok |-> TRUE, path |-> <<>>, val |-> 0]

VfsInit ==
  /\ tree = [n \in Spaces |-> IF n = 1 THEN RootTree ELSE NewTree]
  /\ files = <<>> /\ nextFd = 1 /\ bent = [n \in Spaces |-> {}]
  /\ last = Silent /\ mnt = Mounted(Formatted)
  /\ may \in Programs

\* A bound: no more is asked of a tree that is bent in two ways, or that lists
\* two names too many.
Serves(op) ==
  /\ op \in may.ops /\ may.mnt = {}
  /\ \A n \in Spaces : Cardinality(bent[n]) <= 1
  /\ \A n \in Spaces : \A k \in DOMAIN tree[n].nodes :
       IsDir(tree[n], k) => Len(tree[n].nodes[k].data) <= 1 + Cardinality(Range(tree[n].nodes[k].data))
  /\ UNCHANGED <<mnt, may>>

Replies(op, n, ok, path, val) ==
  last' = IF op \in {"write", "open", "create", "getdents"}
          THEN [op |-> op, ns |-> n, ok |-> ok, path |-> path, val |-> val] ELSE Silent

\* History: the requests the code serves although they break the agreement of
\* nodes and lists.  orphan: a node is left, or put, where no directory lists
\* it; twice: a name that is listed is pushed again; moved: a directory with
\* entries, or the root, changes its path and its entries do not.
Bends(orphan, twice, moved) ==
  {b \in {"orphan", "twice", "moved"} :
     \/ b = "orphan" /\ orphan
     \/ b = "twice" /\ twice
     \/ b = "moved" /\ moved}

\* A request that changes the tree of namespace n
Changes(op, n, path, res, bends) ==
  /\ tree' = [tree EXCEPT ![n] = res.tree]
  /\ bent' = IF res.ok THEN [bent EXCEPT ![n] = @ \cup bends] ELSE bent
  /\ Replies(op, n, res.ok, path, 0)

InUse(t, k) == IsDir(t, k) /\ t.nodes[k].data # <<>>

\* OpenTable::open.  Past the bound on numbers the client closes the file at
\* once and its number is not counted.
Opens(path, n) ==
  IF nextFd <= may.fds
  THEN /\ files' = (nextFd :> [path |-> path, offset |-> 0, ns |-> n]) @@ files
       /\ nextFd' = nextFd + 1
  ELSE UNCHANGED <<files, nextFd>>

Open(n, path) ==
  /\ Serves("open")
  /\ IF Exists(tree[n], path)
     THEN Opens(path, n) /\ Replies("open", n, TRUE, path, nextFd)
     ELSE UNCHANGED <<files, nextFd>> /\ Replies("open", n, FALSE, path, 0)
  /\ UNCHANGED <<tree, bent>>

DupFd(fd) ==
  /\ Serves("dup") /\ nextFd <= may.fds
  /\ files' = (nextFd :> files[fd]) @@ files
  /\ nextFd' = nextFd + 1
  /\ Replies("dup", files[fd].ns, TRUE, files[fd].path, nextFd)
  /\ UNCHANGED <<tree, bent>>

Close(fd) ==
  /\ Serves("close")
  /\ files' = Drop(files, fd)
  /\ Replies("close", files[fd].ns, TRUE, files[fd].path, fd)
  /\ UNCHANGED <<tree, bent, nextFd>>

Here == -1

\* OP_READ of one byte; an offset given with the request moves the file's
\* offset as well.  Here, u64::MAX in the code, asks for that offset.
ReadOne(fd, at) ==
  LET f == files[fd]
      t == tree[f.ns]
      k == NormalizePath(f.path)
      o == IF at = Here THEN f.offset ELSE at
      ok == Has(t, k) /\ t.nodes[k].kind \in {"mem", "tar"}
      n  == IF o < Len(t.nodes[k].data) THEN 1 ELSE 0
  IN /\ Serves("read")
     /\ files' = IF ok THEN [files EXCEPT ![fd].offset = o + n] ELSE files
     /\ Replies("read", f.ns, ok, f.path, IF ok /\ n = 1 THEN t.nodes[k].data[o + 1] ELSE 0)
     /\ UNCHANGED <<tree, bent, nextFd>>

WriteOne(fd, at, byte) ==
  LET f == files[fd]
      o == IF at = Here THEN f.offset ELSE at
      res == Write(tree[f.ns], f.path, o, byte)
  IN /\ Serves("write") /\ o \in Offsets
     /\ Changes("write", f.ns, f.path, res, {})
     /\ files' = IF res.ok THEN [files EXCEPT ![fd].offset = o + 1] ELSE files
     /\ UNCHANGED nextFd

\* OP_LSEEK: SEEK_SET, SEEK_CUR, SEEK_END
Lseek(fd, delta, whence) ==
  LET f == files[fd]
      new == CASE whence = 0 -> delta
               [] whence = 1 -> f.offset + delta
               [] whence = 2 -> Size(tree[f.ns], f.path) + delta
  IN /\ Serves("lseek") /\ new \in Offsets \cup {-1}
     /\ files' = IF new < 0 THEN files ELSE [files EXCEPT ![fd].offset = new]
     /\ Replies("lseek", f.ns, new >= 0, f.path, new)
     /\ UNCHANGED <<tree, bent, nextFd>>

Ftruncate(fd, n) ==
  /\ Serves("ftruncate")
  /\ Changes("ftruncate", files[fd].ns, files[fd].path, Truncate(tree[files[fd].ns], files[fd].path, n), {})
  /\ UNCHANGED <<files, nextFd>>

Futimens(fd) ==
  /\ Serves("futimens")
  /\ Changes("futimens", files[fd].ns, files[fd].path, Chmod(tree[files[fd].ns], files[fd].path, "touched"), {})
  /\ UNCHANGED <<files, nextFd>>

\* OP_CREATE: the file is open afterwards.
Create(n, path) ==
  LET k == NormalizePath(path)
      res == Replace(tree[n], path, Mem(<<>>))
  IN /\ Serves("create")
     /\ Changes("create", n, path, res, Bends(InUse(tree[n], k), k \in Virtual, FALSE))
     /\ IF res.ok THEN Opens(path, n) ELSE UNCHANGED <<files, nextFd>>

OnPath(op, n, path, res, bends) ==
  /\ Serves(op) /\ Changes(op, n, path, res, bends) /\ UNCHANGED <<files, nextFd>>

MkdirRequest(n, path)  == OnPath("mkdir", n, path, Mkdir(tree[n], path), {})
UnlinkRequest(n, path) ==
  OnPath("unlink", n, path, Unlink(tree[n], path), Bends(InUse(tree[n], NormalizePath(path)), FALSE, FALSE))
ChmodRequest(n, path)  == OnPath("chmod", n, path, Chmod(tree[n], path, "changed"), {})

\* These requests carry no namespace and act on the root namespace.
SymlinkRequest(path, target) == OnPath("symlink", 1, path, MakeSymlink(tree[1], path, target), {})
LinkRequest(old, new) ==
  OnPath("link", 1, new, Link(tree[1], old, new), Bends(FALSE, NormalizePath(new) \in Virtual, FALSE))
RenameRequest(old, new) ==
  OnPath("rename", 1, new, Rename(tree[1], old, new),
         Bends(\/ InUse(tree[1], new) /\ new # old
               \/ ~HasParent(tree[1], new) \/ Front(new) = old,
               new # old /\ (Has(tree[1], new) \/ new \in Virtual),
               old # new /\ (InUse(tree[1], old) \/ <<>> \in {old, new})))

\* OP_GETDENTS outside /proc and /dev
Getdents(path) ==
  LET k == NormalizePath(path) IN
  /\ Serves("getdents")
  /\ Replies("getdents", 1, IsDir(tree[1], k), k, IF IsDir(tree[1], k) THEN tree[1].nodes[k].data ELSE <<>>)
  /\ UNCHANGED <<tree, files, nextFd, bent>>

\* A request under /mnt: done, or cut short by a crash that leaves one of the
\* disks it went through; the file system is then mounted again.  touched
\* is the file the request may write, and where.  A bound: a server that is
\* stuck is followed to the next crash only.
OnMnt(op, res, touched) ==
  /\ op \in may.ops /\ ~mnt.stuck /\ may.left > 0
  /\ may' = [may EXCEPT !.left = @ - 1]
  /\ \/ /\ mnt' = [res.s EXCEPT !.snaps = <<>>]
        /\ last' = [Silent EXCEPT !.op = "mnt", !.ok = res.ok, !.val = touched]
     \/ /\ \E d \in 0..Len(res.s.snaps) : mnt' = Mounted(IF d = 0 THEN mnt.disk ELSE res.s.snaps[d])
        /\ last' = [Silent EXCEPT !.op = "crash"]
  /\ UNCHANGED <<tree, files, nextFd, bent>>

MntCrash ==
  /\ mnt.stuck /\ mnt' = Mounted(mnt.disk) /\ last' = [Silent EXCEPT !.op = "crash"]
  /\ UNCHANGED <<tree, files, nextFd, bent, may>>

Nothing == <<-1, 0, 0>>
All(path) == <<LookupPath(mnt, path).i, 0, mnt.ino[0].size + 100>>

MntMkdir(path)  == OnMnt("mkdir", OfsMkdir(mnt, path), Nothing)
MntCreate(path) == OnMnt("create", OfsCreate(mnt, path), All(path))
MntUnlink(path) == OnMnt("unlink", OfsUnlink(mnt, path), Nothing)
MntWrite(path, n, len) ==
  OnMnt("write", OfsWrite(mnt, path, n, [k \in 1..len |-> <<1>>]), <<LookupPath(mnt, path).i, n, len>>)
MntFtruncate(path) == OnMnt("ftruncate", OfsTruncate(mnt, path), All(path))
MntSymlink(path, target) == OnMnt("symlink", OfsSymlink(mnt, path, [k \in DOMAIN target |-> <<target[k]>>]), Nothing)
MntLink(old, new)   == OnMnt("link", OfsLink(mnt, old, new), Nothing)
MntRename(old, new) == OnMnt("rename", OfsRename(mnt, old, new), Nothing)
MntFsync == OnMnt("fsync", CommitFiles(mnt), Nothing)

VfsStep ==
  \/ \E n \in may.spaces, path \in may.paths :
       Open(n, path) \/ Create(n, path) \/ MkdirRequest(n, path) \/ UnlinkRequest(n, path) \/ ChmodRequest(n, path)
  \/ \E fd \in DOMAIN files :
       \/ DupFd(fd) \/ Close(fd) \/ Futimens(fd)
       \/ \E at \in Offsets \cup {Here} : ReadOne(fd, at) \/ \E b \in Bytes : WriteOne(fd, at, b)
       \/ \E d \in {-1, 0, 1}, whence \in 0..2 : Lseek(fd, d, whence)
       \/ \E n \in Offsets : Ftruncate(fd, n)
  \/ \E old, new \in may.paths : SymlinkRequest(new, old) \/ LinkRequest(old, new) \/ RenameRequest(old, new)
  \/ \E path \in may.paths : Getdents(path)
  \/ \E path \in may.mnt : MntMkdir(path) \/ MntCreate(path) \/ MntUnlink(path) \/ MntFtruncate(path)
  \/ \E path \in may.mnt : \E w \in may.writes : MntWrite(path, w[1], w[2])
  \/ \E old, new \in may.mnt : MntSymlink(new, old) \/ MntLink(old, new) \/ MntRename(old, new)
  \/ MntFsync \/ MntCrash

-----------------------------------------------------------------------------
(* Properties *)

\* The trees map paths to nodes and metadata, and the open files have the
\* numbers below next_fd, which are never given out again.
VfsTypeOK ==
  /\ \A n \in Spaces :
       /\ \A k \in DOMAIN tree[n].nodes : tree[n].nodes[k].kind \in {"dir", "mem", "tar", "link"}
       /\ DOMAIN tree[n].meta \subseteq DOMAIN tree[n].nodes
  /\ DOMAIN files \subseteq 1..(nextFd - 1)
  /\ \A fd \in DOMAIN files : files[fd].ns \in Spaces /\ files[fd].offset \in Nat
  /\ bent \in [Spaces -> SUBSET {"orphan", "twice", "moved"}]

\* Directories and nodes agree, after any sequence of mkdir, create, unlink,
\* symlink, link and rename, as far as rename and the replacement of
\* directories leave them.  What a directory lists is there unless a directory
\* that has entries was renamed.  It is listed once unless something was
\* renamed onto a name that exists, which OP_RENAME pushes again, or a node
\* was made at the path of a virtual directory.  Everything is
\* listed by its parent unless a directory with entries was removed or
\* replaced, or something was renamed to a path whose parent is missing or is
\* written with dots.  Each of the three holds when only the others are lost.
TreeConsistent ==
  \A n \in Spaces :
    LET t == tree[n] IN
    /\ "moved" \notin bent[n] =>
         /\ IsDir(t, <<>>)
         /\ \A k \in DOMAIN t.nodes : t.nodes[k].kind = "dir" =>
              \A i \in DOMAIN t.nodes[k].data : Append(k, t.nodes[k].data[i]) \in DOMAIN t.nodes \cup Virtual
    /\ bent[n] \cap {"moved", "twice"} = {} =>
         \A k \in DOMAIN t.nodes : t.nodes[k].kind = "dir" => IsInjective(t.nodes[k].data)
    /\ bent[n] \cap {"moved", "orphan"} = {} =>
         \A k \in DOMAIN t.nodes \ {<<>>} : HasParent(t, k) /\ Contains(t.nodes[Front(k)].data, Last(k))

\* A write changes one byte of one file: the others keep their bytes, the file
\* the rest of its own, whether it was in the initrd or not, and what was past
\* its end reads as zero (write and the promotion of a TarFile).
WriteIsExact ==
  [][(last'.op = "write") =>
       \A n \in Spaces : \A k \in DOMAIN tree[n].nodes :
         LET old == tree[n].nodes[k]
             new == tree'[n].nodes[k]
         IN old.kind \in {"mem", "tar"} =>
              /\ DOMAIN old.data \subseteq DOMAIN new.data
              /\ Cardinality({i \in DOMAIN old.data : new.data[i] # old.data[i]}) <= 1
              /\ new.data # old.data => n = last'.ns /\ k = NormalizePath(last'.path)
              /\ \A i \in DOMAIN new.data \ DOMAIN old.data : i < Len(new.data) => new.data[i] = 0]_vfsVars

\* Every open file was there in the namespace its client named, under the
\* name the client gave: a file opened in one namespace never is a file of
\* another (OP_OPEN, OP_CREATE, OP_DUP).
OpenedWhereAsked ==
  [][(last'.op \in {"open", "create"} /\ last'.ok /\ nextFd <= may.fds)
       => \E fd \in DOMAIN files' \ DOMAIN files :
            files'[fd].ns = last'.ns /\ Exists(tree'[last'.ns], files'[fd].path)]_vfsVars

\* What GETDENTS lists can be opened by name in the root namespace, unless a
\* directory that has entries was renamed.
ListedOpens ==
  (last.op = "getdents" /\ "moved" \notin bent[1]) =>
    \A i \in DOMAIN last.val : Exists(tree[1], Append(last.path, last.val[i]))

\* At every moment the disk, and what the server makes of it, are sound: no
\* block has two uses, every block in use is marked, every entry names an
\* inode in use of its type that counts it.  This holds after a crash at any
\* commit of any request, when blocks or inodes run out in the middle of one,
\* and for the disk also once a transaction has outgrown the journal
\* (blockfs.rs and the /mnt branches of main.rs).
DiskSound == Sound(mnt.disk) /\ (mnt.stuck \/ Sound(Image(mnt)))

\* A request that succeeds has reached the disk, unless the journal was too
\* small for it: nothing it did waits for a later commit (commit_txn at the
\* end of file_write, file_truncate, dir_add_entry and dir_unlink).
SuccessIsDurable ==
  [][(last'.op = "mnt" /\ last'.ok /\ mnt' # mnt /\ ~mnt'.stuck) => mnt'.dirty = {}]_vfsVars

\* A request changes no cell of a file but the ones it writes: direct, indirect
\* and double indirect blocks never stand for the same cell, in one file or in
\* two (get_file_block, file_write, file_truncate).
CellsApart ==
  [][(last'.op = "mnt" /\ ~mnt'.stuck) =>
       \A i \in mnt.iused \cap mnt'.iused : (mnt.ino[i].type = "file") =>
         \A n \in Slots(mnt, i) :
           \/ i = last'.val[1] /\ last'.val[2] <= n /\ n < last'.val[2] + last'.val[3]
           \/ FileCell(mnt, i, n) = FileCell(mnt', i, n)
           \/ FileCell(mnt, i, n) = Hole /\ FileCell(mnt', i, n) = Zero]_vfsVars
=============================================================================
