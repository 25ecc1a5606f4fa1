------------------------------ MODULE MCStorage ------------------------------
(***************************************************************************)
(* Storage: the journal and its crashes (OfsJournal), the file server's    *)
(* tree and requests with the block file system's inodes and directories   *)
(* (Vfs, OfsFiles), and the cache of inodes (also OfsFiles).  A request is *)
(* served to its end before the next, its blocks reach the disk through    *)
(* the journal, and an inode is read through the cache; each of the three  *)
(* is modelled at the level where its hazards are, and a behaviour is one  *)
(* of them at work while the others rest.                                  *)
(***************************************************************************)
EXTENDS OfsJournal, Vfs

VARIABLES scene

storageVars == <<scene, vars, vfsVars, cacheVars>>

\* A part that rests is in one of its initial states.
StorageInit ==
  /\ scene \in {"journal", "vfs", "cache"}
  /\ Init /\ VfsInit /\ CacheInit
  /\ scene # "journal" => \A b \in Blocks, i \in 1..JournalSlots : disk[b] = slots[i]
  /\ scene # "journal" => slots[1] = CHOOSE v \in Values : TRUE
  /\ scene # "vfs" => may = CHOOSE m \in Programs : TRUE

\* The bounds of the last two let them stop; the journal never does.
StorageNext ==
  \/ scene = "journal" /\ Next /\ UNCHANGED <<scene, vfsVars, cacheVars>>
  \/ scene = "vfs" /\ VfsStep /\ UNCHANGED <<scene, vars, cacheVars>>
  \/ scene = "cache" /\ CacheStep /\ UNCHANGED <<scene, vars, vfsVars>>
  \/ scene # "journal" /\ UNCHANGED storageVars

StorageSpec == StorageInit /\ [][StorageNext]_storageVars

-----------------------------------------------------------------------------
\* The nodes of the file server and their parents' lists agree, and what a
\* listing shows can be opened, as far as TreeConsistent says: OP_RENAME checks
\* neither what it overwrites nor where it puts it, and create and unlink take
\* a directory with entries like a file (vfs-server).
TreeIsWhole == VfsTypeOK /\ TreeConsistent /\ ListedOpens

\* A request that reports success did what was asked and nothing else: the
\* bytes of a write, the file of an open, the cell of an inode, the blocks on
\* the disk (vfs-server and its block file system).
RequestsDoAsAsked == WriteIsExact /\ OpenedWhereAsked /\ SuccessIsDurable /\ CellsApart

-----------------------------------------------------------------------------
(* An instance of Storage: three blocks and two slots for the journal, each
   program one family of requests to the file server. *)
CONSTANTS v0, v1

ThreeBlocks == {1, 2, 3}
TwoBlocks   == {1, 2}
TwoValues   == {v0, v1}
BeforeMarker == {"slots", "header", "commit"}
AfterMarker  == {"apply", "clear"}
CrashAny    == {"any"}

TwoSpaces == {1, 2}
SmallArchive == <<[path |-> <<"a">>, kind |-> "dir", data |-> <<>>],
                  [path |-> <<"a", "f">>, kind |-> "file", data |-> <<1, 1>>],
                  [path |-> <<"dev">>, kind |-> "dir", data |-> <<>>]>>
TmpOnly == << <<"b">> >>
VirtualPaths == {<<"proc">>, <<"dev">>}
TreeProgram == [ops    |-> {"mkdir", "create", "unlink", "rename"},
                spaces |-> {1},
                paths  |-> {<<"a">>, <<"a", "f">>, <<"b">>, <<"a", "..", "b", "f">>},
                fds    |-> 0, mnt |-> {}, writes |-> {}, left |-> 0]
SymlinkProgram == [ops    |-> {"create", "unlink", "symlink", "link", "getdents"},
                   spaces |-> {1},
                   paths  |-> {<<"a", "f">>, <<"b", "f">>, <<"proc">>},
                   fds    |-> 0, mnt |-> {}, writes |-> {}, left |-> 0]
FileProgram == [ops    |-> {"open", "read", "write", "lseek", "ftruncate", "dup", "close"},
                spaces |-> {1},
                paths  |-> {<<"..", "a", ".", "f">>, <<"b">>},
                fds    |-> 2, mnt |-> {}, writes |-> {}, left |-> 0]
SpaceProgram == [ops    |-> {"open", "create", "write", "link"},
                 spaces |-> {1, 2},
                 paths  |-> {<<"a", "f">>, <<"f">>},
                 fds    |-> 1, mnt |-> {}, writes |-> {}, left |-> 0]
MetaProgram == [ops    |-> {"open", "create", "chmod", "futimens"},
                spaces |-> {1, 2},
                paths  |-> {<<"a", "f">>, <<"f">>},
                fds    |-> 1, mnt |-> {}, writes |-> {}, left |-> 0]
OpenProgram == [ops    |-> {"open", "create", "close"},
                spaces |-> {1, 2},
                paths  |-> {<<"a", "f">>, <<"f">>},
                fds    |-> 2, mnt |-> {}, writes |-> {}, left |-> 0]
BlockProgram == [ops    |-> {"create", "write", "unlink", "ftruncate", "fsync"},
                 spaces |-> {}, paths |-> {}, fds |-> 0,
                 mnt    |-> {<<"f">>, <<"g">>},
                 writes |-> {<<0, 1>>, <<5, 2>>, <<6, 1>>, <<0, 6>>}, left |-> 7]
DirProgram == [ops    |-> {"mkdir", "create", "unlink", "link", "rename"},
               spaces |-> {}, paths |-> {}, fds |-> 0,
               mnt    |-> {<<"f">>, <<"d">>, <<"d", "f">>},
               writes |-> {}, left |-> 5]
LinkProgram == [ops    |-> {"create", "symlink", "unlink", "write", "rename"},
                spaces |-> {}, paths |-> {}, fds |-> 0,
                mnt    |-> {<<"f">>, <<"g">>},
                writes |-> {<<0, 1>>}, left |-> 5]
DataBlocks == 1..5
FourInodes == 0..3
OnlyOpen == {OpenProgram}
AllPrograms == {TreeProgram, SymlinkProgram, FileProgram, SpaceProgram, MetaProgram, OpenProgram, BlockProgram, DirProgram, LinkProgram}
=============================================================================
