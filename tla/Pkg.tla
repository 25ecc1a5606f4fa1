--------------------------------- MODULE Pkg ---------------------------------
(***************************************************************************)
(* The package manager: src/user/pkg/src.                                  *)
(*                                                                         *)
(* main.rs: one command at a time installs (from a file or, with its       *)
(* dependencies, from the mirror) or removes a package; files are written  *)
(* one by one, writing a file may fail or stop short, a download and an    *)
(* unlink may fail, and the command may be killed between any two files.   *)
(* Parsing and HTTP are not modelled.                                      *)
(*                                                                         *)
(* gzip.rs, the decompressor: a behaviour either builds one Huffman tree,  *)
(* or streams literals and back references to a descriptor (gunzip_to_fd)  *)
(* next to the plain vector of gunzip.                                     *)
(***************************************************************************)
EXTENDS Integers, Sequences, FiniteSets, SequencesExt

CONSTANTS
  Packages,
  FilesOf,     \* package -> sequence of its files
  Depends,     \* package -> sequence of its dependencies
  Index,       \* the packages the cached index has
  MaxJobs      \* commands run

VARIABLES
  owner,      \* what is at a path: the package that wrote it, or None
  manifest,   \* package -> the files its manifest lists, or None
  job,        \* the command: [at, wanted, todo, listed, top]
  jobs,       \* commands started
  stray,      \* history: files that no manifest may list, of a write or an
              \* unlink that failed or an install cut short
  clean       \* history: nothing failed, was killed, was removed or was
              \* installed without its dependencies so far

pkgVars == <<owner, manifest, job, jobs, stray, clean>>

Absent == "none"
Partial == "partial"   \* a file a short write left
NotListed == <<Absent>>
NoJob == [at |-> "idle", wanted |-> <<>>, todo |-> <<>>, listed |-> <<>>, top |-> Absent]
Paths == UNION {ToSet(FilesOf[p]) : p \in Packages}

PkgInit ==
  /\ owner = [f \in Paths |-> Absent]
  /\ manifest = [p \in Packages |-> NotListed]
  /\ job = NoJob /\ jobs = 0 /\ stray = {} /\ clean = TRUE

\* read_file of the manifest returns nothing for an empty file.
Installed(p) == manifest[p] \notin {NotListed, <<>>}

\* resolve_deps: depth first, each name once, not below what is installed.
RECURSIVE ResolveDeps(_, _)
ResolveDeps(deps, wanted) ==
  IF deps = <<>> THEN wanted
  ELSE LET d == Head(deps)
           deeper == IF Contains(wanted, d) \/ Installed(d) THEN wanted
                     ELSE IF d \in Index THEN ResolveDeps(Depends[d], Append(wanted, d))
                     ELSE Append(wanted, d)
       IN ResolveDeps(Tail(deps), deeper)

Begins(p, at, wanted) ==
  /\ job = NoJob /\ jobs < MaxJobs
  /\ jobs' = jobs + 1
  /\ job' = [NoJob EXCEPT !.at = at, !.wanted = wanted, !.top = p]

\* cmd_install of a package file, which looks at no dependencies.
CmdInstall(p) ==
  /\ Begins(p, "unpack", <<p>>)
  /\ clean' = FALSE
  /\ UNCHANGED <<owner, manifest, stray>>

\* cmd_install_pkg: the package itself, then its dependencies.
CmdInstallPkg(p) ==
  /\ p \in Index
  /\ Begins(p, "fetch", <<p>> \o ResolveDeps(Depends[p], <<>>))
  /\ UNCHANGED <<owner, manifest, stray, clean>>

\* The download of the next package wanted.
Fetch(ok) ==
  /\ job.at = "fetch"
  /\ IF Head(job.wanted) \in Index /\ ok
     THEN job' = [job EXCEPT !.at = "unpack"] /\ UNCHANGED clean
     ELSE job' = NoJob /\ clean' = FALSE
  /\ UNCHANGED <<owner, manifest, jobs, stray>>

Unpack ==
  /\ job.at = "unpack"
  /\ job' = [job EXCEPT !.at = "files", !.todo = FilesOf[Head(job.wanted)], !.listed = <<>>]
  /\ UNCHANGED <<owner, manifest, jobs, stray, clean>>

\* write_file: created and written, created and written short, not created.
WriteFile(outcome) ==
  LET p == Head(job.wanted)
      f == Head(job.todo)
  IN /\ job.at = "files" /\ job.todo # <<>>
     /\ owner' = CASE outcome = "ok"    -> [owner EXCEPT ![f] = p]
                   [] outcome = "short" -> [owner EXCEPT ![f] = Partial]
                   [] outcome = "fails" -> owner
     /\ job' = [job EXCEPT !.todo = Tail(@),
                           !.listed = IF outcome = "ok" THEN Append(@, f) ELSE @]
     /\ stray' = IF outcome = "fails" /\ owner[f] = p THEN stray \cup {f} ELSE stray
     /\ clean' = (clean /\ outcome = "ok")
     /\ UNCHANGED <<manifest, jobs>>

\* The files of an install that the manifest does not list yet.
NotYetListed == ToSet(job.listed) \ ToSet(manifest[Head(job.wanted)])

\* The manifest lists what was written; whether it could be written itself
\* is not looked at.
WriteManifest(ok) ==
  LET p == Head(job.wanted) IN
  /\ job.at = "files" /\ job.todo = <<>>
  /\ manifest' = IF ok THEN [manifest EXCEPT ![p] = job.listed] ELSE manifest
  /\ stray' = IF ok THEN stray \ ToSet(job.listed) ELSE stray \cup NotYetListed
  /\ clean' = (clean /\ ok)
  /\ job' = IF Len(job.wanted) = 1 THEN [NoJob EXCEPT !.at = "installed", !.top = job.top]
            ELSE [job EXCEPT !.at = "fetch", !.wanted = Tail(@)]
  /\ UNCHANGED <<owner, jobs>>

\* The command returns 0.
PkgReturns ==
  /\ job.at = "installed"
  /\ job' = NoJob
  /\ UNCHANGED <<owner, manifest, jobs, stray, clean>>

CmdRemove(p) ==
  /\ Installed(p)
  /\ Begins(p, "remove", <<p>>)
  /\ clean' = FALSE
  /\ UNCHANGED <<owner, manifest, stray>>

StartRemoving ==
  /\ job.at = "remove"
  /\ job' = [job EXCEPT !.at = "unlink", !.todo = manifest[job.top]]
  /\ UNCHANGED <<owner, manifest, jobs, stray, clean>>

\* unlink of the files, then of the manifest; whether one fails is not
\* looked at.
RemoveFile(ok) ==
  LET f == Head(job.todo) IN
  /\ job.at = "unlink" /\ job.todo # <<>>
  /\ owner' = IF ok THEN [owner EXCEPT ![f] = Absent] ELSE owner
  /\ stray' = IF ok THEN stray \ {f} ELSE stray \cup {f}
  /\ job' = [job EXCEPT !.todo = Tail(@)]
  /\ UNCHANGED <<manifest, jobs, clean>>

RemoveManifest(ok) ==
  /\ job.at = "unlink" /\ job.todo = <<>>
  /\ manifest' = IF ok THEN [manifest EXCEPT ![job.top] = NotListed] ELSE manifest
  /\ job' = NoJob
  /\ UNCHANGED <<owner, jobs, stray, clean>>

\* The process is killed.
PkgKilled ==
  /\ job # NoJob
  /\ job' = NoJob /\ clean' = FALSE
  /\ stray' = IF job.at = "files" THEN stray \cup NotYetListed ELSE stray
  /\ UNCHANGED <<owner, manifest, jobs>>

PkgStep ==
  \/ \E p \in Packages : CmdInstall(p) \/ CmdInstallPkg(p) \/ CmdRemove(p)
  \/ \E ok \in BOOLEAN : Fetch(ok) \/ WriteManifest(ok) \/ RemoveFile(ok) \/ RemoveManifest(ok)
  \/ \E o \in {"ok", "short", "fails"} : WriteFile(o)
  \/ Unpack \/ PkgReturns \/ StartRemoving \/ PkgKilled

-----------------------------------------------------------------------------
\* Between commands, every file a package wrote is in its manifest, but for
\* the files of a failed write, of an install that was killed before its
\* manifest, and of a failed unlink, after which cmd_remove still unlinks the
\* manifest: those no later removal finds.  A removal killed half way leaves
\* none and can be repeated (cmd_remove unlinks the manifest last).
FilesAreListed ==
  job = NoJob =>
    \A p \in Packages, f \in Paths :
      owner[f] = p /\ f \notin stray => manifest[p] # NotListed /\ Contains(manifest[p], f)

\* As long as nothing failed, nothing was removed and every package came with
\* its dependencies, a package that was installed from the mirror has all it
\* depends on, directly or not, also over a cycle (resolve_deps skips what is wanted or installed already).
DependenciesInstalled ==
  LET Below[n \in 0..Cardinality(Packages)] ==
        IF n = 0 THEN ToSet(Depends[job.top])
        ELSE Below[n - 1] \cup UNION {ToSet(Depends[d]) : d \in Below[n - 1]}
  IN job.at = "installed" /\ clean /\ job.top \in Index
       => \A d \in Below[Cardinality(Packages)] : Installed(d)

-----------------------------------------------------------------------------
(* The decompressor *)

CONSTANTS
  Symbols,      \* 0..n
  MaxLen,       \* longest code: 15
  WindowSize,   \* RING_SIZE
  OutBufSize,   \* OUT_BUF_SIZE
  MaxOut        \* bytes streamed

VARIABLES
  lengths,   \* the code lengths of the tree, <<>> while streaming
  writer,    \* StreamWriter: [window, total, buf], and what was written: fd
  vec,       \* the same output as a Vec
  finished

gunzipVars == <<lengths, writer, vec, finished>>

GunzipInit ==
  /\ lengths = <<>> /\ vec = <<>> /\ finished = FALSE
  /\ writer = [window |-> [i \in 0..WindowSize - 1 |-> 0], total |-> 0, buf |-> <<>>, fd |-> <<>>]

-----------------------------------------------------------------------------
\* HuffTree::build.  A node is a pair: a child's index, or -1 - symbol in
\* both places of a leaf, or -1.
BlCount(ls, bits) == IF bits = 0 THEN 0 ELSE Cardinality({s \in Symbols : ls[s] = bits})

NextCode(ls) ==
  LET code[bits \in 0..MaxLen] ==
        IF bits = 0 THEN 0 ELSE 2 * (code[bits - 1] + BlCount(ls, bits - 1))
  IN code

CodeOf(ls, s) == NextCode(ls)[ls[s]] + Cardinality({t \in Symbols : t < s /\ ls[t] = ls[s]})

\* The bits of the code, the first one first.
CodeBits(ls, s) == [b \in 1..ls[s] |-> (CodeOf(ls, s) \div 2^(ls[s] - b)) % 2]

RECURSIVE Graft(_, _, _, _)
Graft(nodes, at, bits, s) ==
  IF bits = <<>> THEN [nodes EXCEPT ![at] = <<-1 - s, -1 - s>>]
  ELSE LET side  == Head(bits) + 1
           grown == IF nodes[at][side] >= 0 THEN nodes
                    ELSE Append([nodes EXCEPT ![at][side] = Len(nodes) + 1], <<-1, -1>>)
       IN Graft(grown, grown[at][side], Tail(bits), s)

Build(ls) ==
  FoldLeft(LAMBDA nodes, s : IF ls[s] = 0 THEN nodes ELSE Graft(nodes, 1, CodeBits(ls, s), s),
           <<<<-1, -1>>>>, [i \in 1..Cardinality(Symbols) |-> i - 1])

\* HuffTree::decode: a leaf is recognised only after read_bit has taken one
\* bit more than its code has.
RECURSIVE Decode(_, _, _, _)
Decode(nodes, at, bits, used) ==
  LET child == nodes[at][Head(bits) + 1]
  IN IF child < 0 THEN [symbol |-> -(child + 1), used |-> used + 1]
     ELSE Decode(nodes, child, Tail(bits), used + 1)

\* A set of lengths that a prefix code can have.
Kraft(ls) ==
  FoldLeft(LAMBDA sum, s : IF ls[s] = 0 THEN sum ELSE sum + 2^(MaxLen - ls[s]),
           0, [i \in 1..Cardinality(Symbols) |-> i - 1]) <= 2^MaxLen

ReadLengths(ls) ==
  /\ lengths = <<>> /\ vec = <<>> /\ Kraft(ls)
  /\ lengths' = ls
  /\ UNCHANGED <<writer, vec, finished>>

-----------------------------------------------------------------------------
Flush(w) == [w EXCEPT !.fd = @ \o w.buf, !.buf = <<>>]

PushByte(w, b) ==
  LET v == [w EXCEPT !.window = [@ EXCEPT ![w.total % WindowSize] = b],
                     !.total = @ + 1, !.buf = Append(@, b)]
  IN IF Len(v.buf) = OutBufSize THEN Flush(v) ELSE v

RECURSIVE CopyBackref(_, _, _)
CopyBackref(w, dist, len) ==
  IF len = 0 THEN w
  ELSE CopyBackref(PushByte(w, w.window[(w.total - dist) % WindowSize]), dist, len - 1)

RECURSIVE VecCopy(_, _, _)
VecCopy(v, from, len) ==
  IF len = 0 THEN v ELSE VecCopy(Append(v, v[from]), from + 1, len - 1)

\* decode_block, a literal and a back reference no longer than the window.
Streaming == lengths = <<>> /\ ~finished

Literal(b) ==
  /\ Streaming /\ Len(vec) < MaxOut
  /\ writer' = PushByte(writer, b) /\ vec' = Append(vec, b)
  /\ UNCHANGED <<lengths, finished>>

BackReference(dist, len) ==
  /\ Streaming /\ Len(vec) + len <= MaxOut
  /\ dist <= Len(vec)
  /\ writer' = CopyBackref(writer, dist, len)
  /\ vec' = VecCopy(vec, Len(vec) - dist + 1, len)
  /\ UNCHANGED <<lengths, finished>>

Finish ==
  /\ Streaming /\ vec # <<>>
  /\ writer' = Flush(writer) /\ finished' = TRUE
  /\ UNCHANGED <<lengths, vec>>

GunzipStep ==
  \/ \E ls \in [Symbols -> 0..MaxLen] : ReadLengths(ls)
  \/ \E b \in {1, 2} : Literal(b)
  \/ \E dist \in 1..WindowSize, len \in 1..3 : BackReference(dist, len)
  \/ Finish

-----------------------------------------------------------------------------
\* What reaches the descriptor, and is still in the output buffer, is what
\* gunzip collects in its vector, also for references that overlap their own
\* output or reach back over the whole window, and when they cross a flush
\* or the window's end (StreamWriter::copy_backref, push_byte, flush).
StreamSameAsVec ==
  /\ writer.fd \o writer.buf = vec
  /\ finished => writer.fd = vec

\* For any lengths a prefix code can have, the bits of a symbol's code lead
\* decode to that symbol, whatever bit follows (HuffTree::build and decode).
CodesLeadToSymbols ==
  lengths # <<>> =>
    \A s \in Symbols, b \in {0, 1} :
      lengths[s] > 0 => Decode(Build(lengths), 1, CodeBits(lengths, s) \o <<b>>, 0).symbol = s

\* Does NOT hold: decode takes the bits of the code and no more.  It takes the
\* first bit of what follows as well, so that the next code is read from its
\* second bit (HuffTree::decode).
CodesTakeTheirBits ==
  lengths # <<>> =>
    \A s \in Symbols, b \in {0, 1} :
      lengths[s] > 0 => Decode(Build(lengths), 1, CodeBits(lengths, s) \o <<b>>, 0).used = lengths[s]
=============================================================================
