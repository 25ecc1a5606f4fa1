--------------------------- MODULE ServersProofs ---------------------------
(***************************************************************************)
(* Proofs about Servers: init never has two shells, and a client gets the  *)
(* answer to its own request.                                              *)
(***************************************************************************)
EXTENDS Servers, TLAPS, FiniteSetTheorems

(* Init *)

\* A shell is a child that main waits for in the respawn loop; main comes
\* back to the spawn only when it has reaped it.
ShellInv ==
  /\ born \in Nat /\ DOMAIN kids \subseteq 1..born /\ dead \subseteq DOMAIN kids
  /\ \A k \in DOMAIN kids : kids[k] = "sh" => pc = "reap" /\ k = waits

LEMMA ShellInvInit ==
  InitInit => ShellInv
BY DEF InitInit, ShellInv

LEMMA ShellInvStep ==
  ASSUME ShellInv, [InitStep]_initVars
  PROVE  ShellInv'
<1> USE DEF ShellInv
<1>1. CASE VfsRegisters \/ WaitForVfs
  BY <1>1 DEF VfsRegisters, WaitForVfs
<1>2. CASE SpawnCm
  BY <1>2 DEF SpawnCm, Child
<1>3. CASE RunTest
  BY <1>3 DEF RunTest, Child, AfterTest
<1>4. CASE TestDone
  BY <1>4 DEF TestDone, Reaped, AfterTest
<1>5. CASE SpawnShell
  BY <1>5 DEF SpawnShell, Child
<1>6. CASE Reap
  BY <1>6 DEF Reap, Reaped
<1>7. CASE WaitBlocks
  BY <1>7 DEF WaitBlocks
<1>8. ASSUME NEW k \in DOMAIN kids, ChildExits(k) PROVE ShellInv'
  BY <1>8 DEF ChildExits
<1>9. ASSUME NEW k \in dying, Notify(k) PROVE ShellInv'
  BY <1>9 DEF Notify
<1>10. CASE Orphan
  BY <1>10 DEF Orphan, Child
<1>11. CASE UNCHANGED initVars
  BY <1>11 DEF initVars
<1> QED BY <1>1, <1>2, <1>3, <1>4, <1>5, <1>6, <1>7, <1>8, <1>9, <1>10, <1>11
        DEF InitStep, InitProgress, ExitProgress

LEMMA ShellInvOne ==
  ShellInv => OneShell
<1> SUFFICES ASSUME ShellInv PROVE OneShell
  OBVIOUS
<1> DEFINE S == {k \in DOMAIN kids : kids[k] = "sh"}
<1>1. S \subseteq {waits}
  BY DEF ShellInv
<1>2. IsFiniteSet({waits}) /\ Cardinality({waits}) = 1
  BY FS_Singleton
<1>3. Cardinality(S) <= 1
  BY <1>1, <1>2, FS_Subset
<1> QED BY <1>3 DEF OneShell

\* There is never more than one shell: init spawns the next one only after
\* it has reaped the one before, whatever orphans it is given meanwhile,
\* however many children it ever has, and although waitpid may return a child
\* it was not asked for or one that is long gone (main of init).
THEOREM ShellsAreOne ==
  InitInit /\ [][InitStep]_initVars => []OneShell
<1>1. InitInit => ShellInv
  BY ShellInvInit
<1>2. ShellInv /\ [InitStep]_initVars => ShellInv'
  BY ShellInvStep
<1>3. ShellInv => OneShell
  BY ShellInvOne
<1> QED BY <1>1, <1>2, <1>3, PTL

-----------------------------------------------------------------------------
(* The servers *)

Fronts  == {"vfs", "cm"}   \* the servers that clients ask
Senders == Clients \cup SrvNames
Reqs    == UNION {UNION {w[c] : c \in Clients} : w \in Questions}
Results == [ok : BOOLEAN, n : Nat \cup Clients]
Replies == [to : {"vfs"}, op : {"reply"}, arg : Results, off : {0}]
Msgs    == [from : Senders, req : Reqs \cup Replies]
Jobs    == [st : {"receive", "handle", "await"}, from : Senders \cup {"none"},
            req : Reqs \cup Replies \cup {<<>>}, ans : {<<>>}]
Asked   == [st : {"idle", "waits", "answered"}, req : Reqs \cup {<<>>},
            live : SUBSET Pids, up : SUBSET Backends, ans : Results \cup {<<>>}]

SrvTypes ==
  /\ live \subseteq Pids /\ up \subseteq Backends
  /\ line \in [SrvNames -> Seq(Msgs)] /\ at \in [SrvNames -> Jobs] /\ asked \in [Clients -> Asked]
  /\ DOMAIN todo = Clients /\ \A c \in Clients : todo[c] \subseteq Reqs
  /\ IsFiniteSet(DOMAIN registry) /\ \A n \in DOMAIN registry : registry[n] \in Clients

\* c waits for s to answer r.
Pending(c, r, s) == c \in Clients /\ asked[c].st = "waits" /\ asked[c].req = r /\ r.to = s

\* A message to a server of the front is the request its sender waits for, or
\* a reply to the VFS server; no sender has two messages there, and the one
\* that is being served has none.
FrontAt(s) ==
  /\ \A i \in 1..Len(line[s]) :
       /\ line[s][i].from \notin Backends => Pending(line[s][i].from, line[s][i].req, s)
       /\ at[s].st # "receive" => line[s][i].from # at[s].from
       /\ \A j \in 1..Len(line[s]) : line[s][i].from = line[s][j].from => i = j
  /\ at[s].st # "receive" => Pending(at[s].from, at[s].req, s)

FrontInv == \A s \in Fronts : FrontAt(s)

\* The VFS server waits for the answer of b.
Awaits(b) == at["vfs"].st = "await" /\ Backend(at["vfs"].req) = b /\ KnownPath(at["vfs"].req)

\* What the VFS server has forwarded is in one place: in the line of the
\* backend, in its hands, or as its reply in the line of the VFS server.
BackAt(b) ==
  /\ at[b].st # "receive" =>
       /\ Awaits(b) /\ at[b].st = "handle" /\ at[b].from = "vfs" /\ at[b].req = at["vfs"].req
       /\ line[b] = <<>>
  /\ line[b] # <<>> =>
       /\ Awaits(b) /\ Len(line[b]) = 1
       /\ line[b][1].from = "vfs" /\ line[b][1].req = at["vfs"].req
  /\ \A i \in 1..Len(line["vfs"]) : line["vfs"][i].from = b =>
       /\ Awaits(b) /\ at[b].st = "receive" /\ line[b] = <<>>
       /\ line["vfs"][i].req.arg \in Results \ {Local}
       /\ Right(at["vfs"].req, asked[at["vfs"].from].live, line["vfs"][i].req.arg)

BackInv == \A b \in Backends : BackAt(b)

\* The component manager waits for nobody, and gets no replies.
CmInv == at["cm"].st # "await" /\ \A i \in 1..Len(line["cm"]) : line["cm"][i].from \notin Backends

\* Since a request was made processes have only exited, and servers registered.
SinceInv ==
  \A c \in Clients :
    /\ asked[c].st # "idle" => asked[c].req \in Reqs /\ live \subseteq asked[c].live /\ asked[c].up \subseteq up
    /\ asked[c].st = "answered" => asked[c].ans \in Results

SrvInv == SrvTypes /\ FrontInv /\ BackInv /\ CmInv /\ SinceInv /\ AnswersTheQuestion

-----------------------------------------------------------------------------
(* Requests and answers *)

VfsOps == {"proc_list", "proc_read", "proc_stat", "dev_list", "dev_read", "dev_stat"}

LEMMA ReqFacts ==
  ASSUME NEW r \in Reqs
  PROVE  /\ r.to = "vfs" => r.op \in VfsOps
         /\ r.to \in Fronts /\ r.off \in Nat
BY ServersAssumption DEF Reqs, VfsOps, Fronts

LEMMA BackendFacts ==
  ASSUME NEW r
  PROVE  Backend(r) \in Backends
BY DEF Backend, Backends

LEMMA NameFacts ==
  /\ Fronts \subseteq SrvNames /\ Backends \subseteq SrvNames /\ Fronts \cap Backends = {}
  /\ SrvNames = Fronts \cup Backends /\ Clients \cap SrvNames = {}
BY ServersAssumption DEF Fronts, Backends, SrvNames

LEMMA FewerLive ==
  ASSUME NEW A, NEW B, A \subseteq B, B \subseteq Pids
  PROVE  Cardinality(A) \in Nat /\ Cardinality(B) \in Nat /\ Cardinality(A) <= Cardinality(B)
<1>1. IsFiniteSet(B)
  BY ServersAssumption, FS_Subset
<1>2. IsFiniteSet(A) /\ Cardinality(A) <= Cardinality(B)
  BY <1>1, FS_Subset
<1> QED BY <1>1, <1>2, FS_CardinalityType

\* An answer that is right stays right while processes exit.
LEMMA RightStays ==
  ASSUME NEW r, NEW before, NEW ans, r.op \in VfsOps, live \subseteq Pids, live' \subseteq live, ans \in Results,
         Right(r, before, ans)
  PROVE  Right(r, before, ans)'
<1>1. CASE r.op \in {"dev_list", "dev_read", "dev_stat"}
  BY <1>1 DEF Right, KnownPath, DevAnswer, SrvErr, SrvOk
<1>2. CASE r.op = "proc_stat"
  BY <1>2 DEF Right
<1>3. CASE r.op = "proc_read"
  BY <1>3 DEF Right
<1>4. CASE r.op = "proc_list"
  <2>1. Cardinality(live') \in Nat /\ Cardinality(live) \in Nat /\ Cardinality(live') <= Cardinality(live)
    BY FewerLive
  <2> QED BY <1>4, <2>1 DEF Right, Results
<1> QED BY <1>1, <1>2, <1>3, <1>4 DEF VfsOps

LEMMA RightSame ==
  ASSUME NEW r, NEW before, NEW ans, live' = live, Right(r, before, ans)
  PROVE  Right(r, before, ans)'
BY Zenon DEF Right, KnownPath, DevAnswer, SrvErr, SrvOk

LEMMA MaxOfTwo ==
  ASSUME NEW n \in Int
  PROVE  Max({n, 0}) = IF n > 0 THEN n ELSE 0
<1>1. \E x \in {n, 0} : \A y \in {n, 0} : x >= y
  OBVIOUS
<1>2. Max({n, 0}) \in {n, 0} /\ \A y \in {n, 0} : Max({n, 0}) >= y
  BY <1>1 DEF Max
<1> QED BY <1>2

Served(b, r) == IF b = "procfs" THEN ProcAnswer(r) ELSE DevAnswer(r)

\* What a backend answers is right at that moment.
LEMMA ServedIsRight ==
  ASSUME NEW r \in Reqs, NEW before, r.to = "vfs", KnownPath(r), live \subseteq before, before \subseteq Pids
  PROVE  Served(Backend(r), r) \in Results \ {Local} /\ Right(r, before, Served(Backend(r), r))
<1>r. r.op \in VfsOps /\ r.off \in Nat
  BY ReqFacts
<1>1. CASE r.op \in {"dev_list", "dev_read", "dev_stat"}
  BY <1>r, <1>1 DEF Right, Served, Backend, DevAnswer, SrvErr, SrvOk, Results, Local
<1>2. CASE r.op = "proc_stat"
  BY <1>2 DEF Right, Served, Backend, ProcAnswer, SrvErr, SrvOk, HasStatus, Results, Local
<1>3. CASE r.op = "proc_read"
  <2>1. StatusText(r.arg) \in Nat /\ StatusLen \in Nat
    BY ServersAssumption DEF StatusText
  <2>2. Served(Backend(r), r) = SrvOk(Max({StatusText(r.arg) - r.off, 0}))
    BY <1>3 DEF Served, Backend, ProcAnswer
  <2>3. Max({StatusText(r.arg) - r.off, 0}) = IF StatusText(r.arg) - r.off > 0 THEN StatusText(r.arg) - r.off ELSE 0
    BY <1>r, <2>1, MaxOfTwo
  <2> QED BY <1>3, <1>r, <2>1, <2>2, <2>3 DEF Right, SrvOk, StatusText, HasStatus, Results, Local
<1>4. CASE r.op = "proc_list"
  <2>1. Cardinality(live) \in Nat /\ Cardinality(before) \in Nat /\ Cardinality(live) <= Cardinality(before)
    BY FewerLive
  <2>2. Served(Backend(r), r) = SrvOk(Cardinality(live))
    BY <1>4 DEF Served, Backend, ProcAnswer, Listed
  <2> QED BY <1>4, <2>1, <2>2 DEF Right, SrvOk, Results, Local
<1> QED BY <1>r, <1>1, <1>2, <1>3, <1>4 DEF VfsOps

-----------------------------------------------------------------------------
(* Sequences *)

LEMMA SeqFacts ==
  ASSUME NEW S, NEW s \in Seq(S)
  PROVE  Len(s) \in Nat /\ (s # <<>> <=> Len(s) > 0) /\ \A i \in 1..Len(s) : s[i] \in S
OBVIOUS

LEMMA AppendFacts ==
  ASSUME NEW S, NEW s \in Seq(S), NEW x \in S
  PROVE  /\ Append(s, x) \in Seq(S) /\ Len(Append(s, x)) = Len(s) + 1
         /\ \A i \in 1..Len(s) : Append(s, x)[i] = s[i]
         /\ Append(s, x)[Len(s) + 1] = x
OBVIOUS

\* t is s without the element at position x.
Lacks(t, s, x) ==
  /\ Len(t) = Len(s) - 1
  /\ \A i \in 1..Len(t) : t[i] = s[IF i < x THEN i ELSE i + 1]

LEMMA TailLacks ==
  ASSUME NEW S, NEW s \in Seq(S), s # <<>>
  PROVE  Tail(s) \in Seq(S) /\ Lacks(Tail(s), s, 1) /\ Head(s) = s[1] /\ 1 \in 1..Len(s)
BY DEF Lacks

LEMMA ConcatFacts ==
  ASSUME NEW S, NEW a \in Seq(S), NEW b \in Seq(S)
  PROVE  /\ a \o b \in Seq(S) /\ Len(a \o b) = Len(a) + Len(b)
         /\ \A i \in 1..Len(a) : (a \o b)[i] = a[i]
         /\ \A i \in (Len(a) + 1)..(Len(a) + Len(b)) : (a \o b)[i] = b[i - Len(a)]
OBVIOUS

\* A line from which message x was taken.
Without(s, x) == SubSeq(s, 1, x - 1) \o SubSeq(s, x + 1, Len(s))

LEMMA WithoutLacks ==
  ASSUME NEW S, NEW s \in Seq(S), NEW x \in 1..Len(s)
  PROVE  Without(s, x) \in Seq(S) /\ Lacks(Without(s, x), s, x)
<1> DEFINE a == SubSeq(s, 1, x - 1)
           b == SubSeq(s, x + 1, Len(s))
<1>1. a \in Seq(S) /\ b \in Seq(S)
  OBVIOUS
<1>2. Len(a) = x - 1 /\ Len(b) = Len(s) - x /\ Len(s) \in Nat
  OBVIOUS
<1>3. (\A i \in 1..(x - 1) : a[i] = s[i]) /\ \A i \in 1..(Len(s) - x) : b[i] = s[x + i]
  OBVIOUS
<1>4. Without(s, x) = a \o b
  BY Zenon DEF Without
<1> HIDE DEF a, b
<1>5. /\ Without(s, x) \in Seq(S) /\ Len(Without(s, x)) = Len(a) + Len(b)
      /\ \A i \in 1..Len(a) : Without(s, x)[i] = a[i]
      /\ \A i \in (Len(a) + 1)..(Len(a) + Len(b)) : Without(s, x)[i] = b[i - Len(a)]
  <2>1. /\ a \o b \in Seq(S) /\ Len(a \o b) = Len(a) + Len(b)
        /\ \A i \in 1..Len(a) : (a \o b)[i] = a[i]
        /\ \A i \in (Len(a) + 1)..(Len(a) + Len(b)) : (a \o b)[i] = b[i - Len(a)]
    BY <1>1, ConcatFacts
  <2> QED BY <1>4, <2>1, Zenon
<1>6. ASSUME NEW i \in 1..(Len(s) - 1) PROVE Without(s, x)[i] = s[IF i < x THEN i ELSE i + 1]
  <2>1. CASE i < x
    <3>1. i \in 1..Len(a) /\ i \in 1..(x - 1)
      BY <1>2, <2>1
    <3>2. Without(s, x)[i] = a[i] /\ a[i] = s[i]
      BY <1>3, <1>5, <3>1, Zenon
    <3> QED BY <2>1, <3>2, Zenon
  <2>2. CASE ~(i < x)
    <3>1. i \in (Len(a) + 1)..(Len(a) + Len(b)) /\ i - Len(a) \in 1..(Len(s) - x) /\ x + (i - Len(a)) = i + 1
      BY <1>2, <2>2
    <3>2. Without(s, x)[i] = b[i - Len(a)] /\ b[i - Len(a)] = s[x + (i - Len(a))]
      BY <1>3, <1>5, <3>1, Zenon
    <3> QED BY <2>2, <3>1, <3>2
  <2> QED BY <2>1, <2>2
<1>7. Len(Without(s, x)) = Len(s) - 1
  BY <1>2, <1>5
<1> QED BY <1>5, <1>6, <1>7 DEF Lacks

\* The elements that are left come from elsewhere than position x, and from
\* different positions.
Skips(t, s, x) ==
  \A i, j \in 1..Len(t) :
    \E k, l \in (1..Len(s)) \ {x} : t[i] = s[k] /\ t[j] = s[l] /\ (k = l => i = j)

LEMMA LacksFacts ==
  ASSUME NEW t, NEW s, NEW x \in 1..Len(s), Len(s) \in Nat, Lacks(t, s, x)
  PROVE  Skips(t, s, x)
<1> SUFFICES ASSUME NEW i \in 1..Len(t), NEW j \in 1..Len(t)
             PROVE  \E k, l \in (1..Len(s)) \ {x} : t[i] = s[k] /\ t[j] = s[l] /\ (k = l => i = j)
  BY Zenon DEF Skips
<1>1. (IF i < x THEN i ELSE i + 1) \in (1..Len(s)) \ {x} /\ (IF j < x THEN j ELSE j + 1) \in (1..Len(s)) \ {x}
  BY DEF Lacks
<1>2. (IF i < x THEN i ELSE i + 1) = (IF j < x THEN j ELSE j + 1) => i = j
  OBVIOUS
<1> QED BY <1>1, <1>2 DEF Lacks

-----------------------------------------------------------------------------
(* What a step leaves alone *)

\* A client that is served or queued is waiting for an answer.
LEMMA ServedFacts ==
  ASSUME SrvInv, NEW s \in Fronts, at[s].st # "receive"
  PROVE  /\ Pending(at[s].from, at[s].req, s) /\ at[s].from \in Clients /\ at[s].req \in Reqs /\ at[s].req.to = s
         /\ live \subseteq asked[at[s].from].live /\ asked[at[s].from].live \subseteq Pids
         /\ asked[at[s].from].up \subseteq up
<1>1. Pending(at[s].from, at[s].req, s)
  BY Zenon DEF SrvInv, FrontInv, FrontAt
<1>2. at[s].from \in Clients /\ asked[at[s].from].st = "waits" /\ asked[at[s].from].req = at[s].req /\ at[s].req.to = s
  BY <1>1, Zenon DEF Pending
<1>3. asked[at[s].from] \in Asked
  BY <1>2, Zenon DEF SrvInv, SrvTypes
<1>4. asked[at[s].from].live \subseteq Pids
  BY <1>3 DEF Asked
<1> QED BY <1>1, <1>2, <1>4 DEF SrvInv, SinceInv

LEMMA FrontSame ==
  ASSUME NEW s, FrontAt(s), line'[s] = line[s], at'[s] = at[s], \A d, r : Pending(d, r, s) => Pending(d, r, s)'
  PROVE  FrontAt(s)'
<1>1. ASSUME NEW i \in 1..Len(line[s])
      PROVE  /\ line[s][i].from \notin Backends => Pending(line[s][i].from, line[s][i].req, s)'
             /\ at'[s].st # "receive" => line'[s][i].from # at'[s].from
             /\ \A j \in 1..Len(line'[s]) : line'[s][i].from = line'[s][j].from => i = j
  BY <1>1, Zenon DEF FrontAt
<1>2. at'[s].st # "receive" => Pending(at[s].from, at[s].req, s)'
  BY Zenon DEF FrontAt
<1> QED BY <1>1, <1>2, Zenon DEF FrontAt

LEMMA BackSame ==
  ASSUME SrvInv, NEW b \in Backends, at'["vfs"] = at["vfs"], at'[b] = at[b], line'[b] = line[b], live' \subseteq live,
         \A i \in 1..Len(line'["vfs"]) : line'["vfs"][i].from = b => \E k \in 1..Len(line["vfs"]) : line["vfs"][k] = line'["vfs"][i],
         \A d \in Clients : asked[d].st = "waits" => asked'[d].live = asked[d].live
  PROVE  BackAt(b)'
<1>0. BackAt(b)
  BY Zenon DEF SrvInv, BackInv
<1>1. Awaits(b) => Awaits(b)'
  BY Zenon DEF Awaits, Backend, KnownPath
<1>2. ASSUME NEW i \in 1..Len(line'["vfs"]), line'["vfs"][i].from = b
      PROVE  /\ Awaits(b)' /\ at'[b].st = "receive" /\ line'[b] = <<>>
             /\ line'["vfs"][i].req.arg \in Results \ {Local}
             /\ Right(at["vfs"].req, asked[at["vfs"].from].live, line["vfs"][i].req.arg)'
  <2>1. PICK k \in 1..Len(line["vfs"]) : line["vfs"][k] = line'["vfs"][i]
    BY <1>2, Zenon
  <2>2. /\ Awaits(b) /\ at[b].st = "receive" /\ line[b] = <<>>
        /\ line["vfs"][k].req.arg \in Results \ {Local}
        /\ Right(at["vfs"].req, asked[at["vfs"].from].live, line["vfs"][k].req.arg)
    BY <1>0, <1>2, <2>1, Zenon DEF BackAt
  <2>3. at["vfs"].st # "receive" /\ "vfs" \in Fronts
    BY <2>2 DEF Awaits, Fronts
  <2>4. /\ Pending(at["vfs"].from, at["vfs"].req, "vfs") /\ at["vfs"].req \in Reqs /\ at["vfs"].req.to = "vfs"
    BY <2>3, ServedFacts, Zenon
  <2>5. at["vfs"].req.op \in VfsOps /\ live \subseteq Pids /\ line["vfs"][k].req.arg \in Results
    BY <2>2, <2>4, ReqFacts, Zenon DEF SrvInv, SrvTypes
  <2>6. \A r, before, ans : r = at["vfs"].req /\ before = asked[at["vfs"].from].live /\ ans = line["vfs"][k].req.arg
                               => Right(r, before, ans)'
    BY <2>2, <2>5, RightStays, Zenon
  <2>7. /\ at'["vfs"].req = at["vfs"].req /\ asked'[at'["vfs"].from].live = asked[at["vfs"].from].live
        /\ line'["vfs"][i].req.arg = line["vfs"][k].req.arg
    BY <2>1, <2>4, Zenon DEF Pending
  <2>8. Right(at["vfs"].req, asked[at["vfs"].from].live, line["vfs"][i].req.arg)'
    BY <2>6, <2>7, Zenon
  <2> QED BY <1>1, <2>1, <2>2, <2>8, Zenon
<1> QED BY <1>0, <1>1, <1>2, Zenon DEF BackAt

LEMMA BackQuiet ==
  ASSUME NEW b, at'[b].st = "receive", line'[b] = <<>>, \A i \in 1..Len(line'["vfs"]) : line'["vfs"][i].from # b
  PROVE  BackAt(b)'
BY Zenon DEF BackAt

LEMMA BackWasQuiet ==
  ASSUME SrvInv, NEW b \in Backends, ~Awaits(b)
  PROVE  at[b].st = "receive" /\ line[b] = <<>> /\ \A i \in 1..Len(line["vfs"]) : line["vfs"][i].from # b
BY Zenon DEF SrvInv, BackInv, BackAt

AnswerOf(c) ==
  asked[c].st = "answered" /\ asked[c].req.to = "vfs" =>
    IF asked[c].ans = Local THEN Backend(asked[c].req) \notin asked[c].up
    ELSE Right(asked[c].req, asked[c].live, asked[c].ans)

LEMMA AnswerSame ==
  ASSUME SrvInv, NEW c \in Clients, asked'[c] = asked[c] \/ asked'[c].st # "answered", live' \subseteq live
  PROVE  AnswerOf(c)'
<1>1. AnswerOf(c) /\ asked[c] \in Asked /\ live \subseteq Pids
  BY Zenon DEF SrvInv, SrvTypes, AnswersTheQuestion, AnswerOf
<1> SUFFICES ASSUME asked'[c] = asked[c], asked[c].st = "answered", asked[c].req.to = "vfs"
             PROVE  IF asked[c].ans = Local THEN Backend(asked[c].req) \notin asked[c].up
                    ELSE Right(asked[c].req, asked[c].live, asked[c].ans)'
  BY Zenon DEF AnswerOf, Local, Backend
<1>2. CASE asked[c].ans = Local
  BY <1>1, <1>2, Zenon DEF AnswerOf
<1>3. CASE asked[c].ans # Local
  <2>1. asked[c].req \in Reqs
    BY Zenon DEF SrvInv, SinceInv
  <2>2. asked[c].req.op \in VfsOps
    BY <2>1, ReqFacts, Zenon
  <2>3. Right(asked[c].req, asked[c].live, asked[c].ans)
    BY <1>1, <1>3, Zenon DEF AnswerOf
  <2>4. asked[c].ans \in Results
    BY Zenon DEF SrvInv, SinceInv
  <2>5. Right(asked[c].req, asked[c].live, asked[c].ans)'
    BY <1>1, <2>2, <2>3, <2>4, RightStays, Zenon
  <2> QED BY <1>3, <2>5, Zenon
<1> QED BY <1>2, <1>3, Zenon

\* The server's reply to c.
LEMMA AnswersFacts ==
  ASSUME SrvInv, NEW c \in Clients, NEW ans \in Results, Answers(c, ans)
  PROVE  /\ asked' \in [Clients -> Asked] /\ \A d \in Clients \ {c} : asked'[d] = asked[d]
         /\ asked'[c].st = "answered" /\ asked'[c].ans = ans
         /\ asked'[c].req = asked[c].req /\ asked'[c].live = asked[c].live /\ asked'[c].up = asked[c].up
<1>1. asked \in [Clients -> Asked]
  BY Zenon DEF SrvInv, SrvTypes
<1>2. asked' = [asked EXCEPT ![c] = [asked[c] EXCEPT !.st = "answered", !.ans = ans]]
  BY <1>1 DEF Answers
<1>3. asked[c] \in Asked
  BY <1>1
<1>4. [asked[c] EXCEPT !.st = "answered", !.ans = ans] \in Asked
  BY <1>3 DEF Asked
<1> QED BY <1>1, <1>2, <1>3, <1>4 DEF Asked

-----------------------------------------------------------------------------
(* The actions *)

LEMMA AskKeeps ==
  ASSUME SrvInv, NEW c \in Clients, NEW r \in todo[c], Ask(c, r)
  PROVE  SrvInv'
<1>n. /\ c \notin SrvNames /\ r \in Reqs /\ r.to \in Fronts /\ "vfs" \in Fronts /\ "cm" \in Fronts
  BY NameFacts, ReqFacts, Zenon DEF SrvInv, SrvTypes, Fronts
<1>1. /\ UNCHANGED <<live, up, at, registry>> /\ asked[c].st = "idle"
      /\ DOMAIN todo' = Clients /\ todo'[c] = todo[c] \ {r} /\ \A d \in Clients \ {c} : todo'[d] = todo[d]
  BY DEF Ask, SrvInv, SrvTypes
<1>2. /\ asked' \in [Clients -> Asked] /\ \A d \in Clients \ {c} : asked'[d] = asked[d]
      /\ asked'[c].st = "waits" /\ asked'[c].req = r /\ asked'[c].live = live /\ asked'[c].up = up
  <2>1. [st |-> "waits", req |-> r, live |-> live, up |-> up, ans |-> <<>>] \in Asked
    BY <1>n, Zenon DEF Asked, SrvInv, SrvTypes
  <2>2. asked \in [Clients -> Asked] /\ asked' = [asked EXCEPT ![c] = [st |-> "waits", req |-> r, live |-> live, up |-> up, ans |-> <<>>]]
    BY Zenon DEF Ask, SrvInv, SrvTypes
  <2> QED BY <2>1, <2>2
<1>m. [from |-> c, req |-> r] \in Msgs
  BY <1>n, Zenon DEF Msgs, Senders
<1>3. /\ line' \in [SrvNames -> Seq(Msgs)]
      /\ \A s \in SrvNames \ {r.to} : line'[s] = line[s]
      /\ line'[r.to] = Append(line[r.to], [from |-> c, req |-> r])
  BY <1>n, <1>m, NameFacts, AppendFacts DEF Ask, SrvInv, SrvTypes
<1>4. SrvTypes'
  BY <1>1, <1>2, <1>3, Zenon DEF SrvInv, SrvTypes
<1>5. /\ Len(line'[r.to]) = Len(line[r.to]) + 1 /\ Len(line[r.to]) \in Nat
      /\ \A i \in 1..Len(line[r.to]) : line'[r.to][i] = line[r.to][i]
      /\ line'[r.to][Len(line[r.to]) + 1].from = c /\ line'[r.to][Len(line[r.to]) + 1].req = r
      /\ \A i \in 1..Len(line'[r.to]) : i \in 1..Len(line[r.to]) \/ i = Len(line[r.to]) + 1
  <2>1. line[r.to] \in Seq(Msgs)
    BY <1>n, NameFacts, Zenon DEF SrvInv, SrvTypes
  <2>2. /\ Len(line'[r.to]) = Len(line[r.to]) + 1 /\ Len(line[r.to]) \in Nat
        /\ \A i \in 1..Len(line[r.to]) : line'[r.to][i] = line[r.to][i]
        /\ line'[r.to][Len(line[r.to]) + 1] = [from |-> c, req |-> r]
    BY <1>m, <1>3, <2>1, AppendFacts, SeqFacts
  <2> QED BY <2>2
<1>6. \A d, q, s : Pending(d, q, s) => d # c /\ Pending(d, q, s)'
  BY <1>1, <1>2, Zenon DEF Pending
<1>7. ASSUME NEW s \in Fronts PROVE FrontAt(s)'
  <2>0. FrontAt(s)
    BY Zenon DEF SrvInv, FrontInv
  <2>1. CASE s # r.to
    BY <1>1, <1>3, <1>6, <2>0, <2>1, NameFacts, FrontSame, Zenon
  <2>2. CASE s = r.to
    <3>1. \A i \in 1..Len(line[s]) : line[s][i].from # c
      BY <1>n, <1>6, <2>0, NameFacts, Zenon DEF FrontAt
    <3>2. Pending(c, r, s)'
      BY <1>2, <2>2, Zenon DEF Pending
    <3>3. ASSUME NEW i \in 1..Len(line'[s])
          PROVE  /\ line'[s][i].from \notin Backends => Pending(line[s][i].from, line[s][i].req, s)'
                 /\ at'[s].st # "receive" => line'[s][i].from # at'[s].from
      <4>1. CASE i \in 1..Len(line[s])
        BY <1>1, <1>5, <1>6, <2>0, <2>2, <4>1, Zenon DEF FrontAt
      <4>2. CASE i = Len(line[s]) + 1
        BY <1>1, <1>5, <1>6, <2>0, <2>2, <3>2, <4>2, Zenon DEF FrontAt
      <4> QED BY <1>5, <2>2, <4>1, <4>2, Zenon
    <3>4. ASSUME NEW i \in 1..Len(line'[s]), NEW j \in 1..Len(line'[s]), line'[s][i].from = line'[s][j].from
          PROVE  i = j
      <4>1. CASE i \in 1..Len(line[s]) /\ j \in 1..Len(line[s])
        BY <1>5, <2>0, <2>2, <3>4, <4>1, Zenon DEF FrontAt
      <4>2. CASE i = Len(line[s]) + 1 \/ j = Len(line[s]) + 1
        BY <1>5, <2>2, <3>1, <3>4, <4>2, Zenon
      <4> QED BY <1>5, <2>2, <4>1, <4>2, Zenon
    <3>5. at'[s].st # "receive" => Pending(at[s].from, at[s].req, s)'
      BY <1>1, <1>6, <2>0, Zenon DEF FrontAt
    <3> QED BY <3>3, <3>4, <3>5, Zenon DEF FrontAt
  <2> QED BY <2>1, <2>2, Zenon
<1>8. ASSUME NEW b \in Backends PROVE BackAt(b)'
  <2>1. ASSUME NEW i \in 1..Len(line'["vfs"]), line'["vfs"][i].from = b
        PROVE  \E k \in 1..Len(line["vfs"]) : line["vfs"][k] = line'["vfs"][i]
    <3>1. CASE r.to # "vfs"
      BY <1>n, <1>3, <2>1, <3>1, NameFacts, Zenon
    <3>2. CASE r.to = "vfs"
      BY <1>5, <1>n, <2>1, <3>2, NameFacts, Zenon
    <3> QED BY <3>1, <3>2, Zenon
  <2>2. line'[b] = line[b] /\ at'[b] = at[b] /\ at'["vfs"] = at["vfs"] /\ live' \subseteq live
    BY <1>n, <1>1, <1>3, NameFacts, Zenon
  <2>3. \A d \in Clients : asked[d].st = "waits" => asked'[d].live = asked[d].live
    BY <1>1, <1>2
  <2> QED BY <2>1, <2>2, <2>3, BackSame, Zenon
<1>9. CmInv'
  <2>1. ASSUME NEW i \in 1..Len(line'["cm"]) PROVE line'["cm"][i].from \notin Backends
    <3>1. CASE r.to # "cm"
      BY <1>n, <1>3, <2>1, <3>1, NameFacts, Zenon DEF SrvInv, CmInv
    <3>2. CASE r.to = "cm"
      BY <1>5, <1>n, <2>1, <3>2, NameFacts, Zenon DEF SrvInv, CmInv
    <3> QED BY <3>1, <3>2, Zenon
  <2> QED BY <1>1, <2>1, Zenon DEF SrvInv, CmInv
<1>10. SinceInv'
  BY <1>n, <1>1, <1>2 DEF SrvInv, SinceInv
<1>11. \A d \in Clients : AnswerOf(d)'
  <2>1. \A d \in Clients : asked'[d] = asked[d] \/ asked'[d].st # "answered"
    BY <1>2
  <2> QED BY <1>1, <2>1, AnswerSame, Zenon
<1> QED BY <1>4, <1>7, <1>8, <1>9, <1>10, <1>11, Zenon DEF SrvInv, FrontInv, BackInv, AnswersTheQuestion, AnswerOf

\* Steps of clients and processes that touch no line and no server.
LEMMA QuietKeeps ==
  ASSUME SrvInv, UNCHANGED <<line, at, registry, todo>>, live' \subseteq live, up \subseteq up', up' \subseteq Backends,
         asked' \in [Clients -> Asked],
         \A d \in Clients : asked'[d] = asked[d] \/ (asked[d].st = "answered" /\ asked'[d].st = "idle")
  PROVE  SrvInv'
<1>1. SrvTypes'
  BY Zenon DEF SrvInv, SrvTypes
<1>2. \A d, q, s : Pending(d, q, s) => Pending(d, q, s)'
  BY DEF Pending
<1>3. ASSUME NEW s \in Fronts PROVE FrontAt(s)'
  BY <1>2, FrontSame, Zenon DEF SrvInv, FrontInv
<1>4. ASSUME NEW b \in Backends PROVE BackAt(b)'
  <2>1. \A d \in Clients : asked[d].st = "waits" => asked'[d].live = asked[d].live
    OBVIOUS
  <2>2. line' = line /\ at' = at
    OBVIOUS
  <2> QED BY <2>1, <2>2, BackSame, Zenon
<1>5. CmInv'
  BY Zenon DEF SrvInv, CmInv
<1>6. SinceInv'
  BY DEF SrvInv, SinceInv
<1>7. \A d \in Clients : AnswerOf(d)'
  <2>1. \A d \in Clients : asked'[d] = asked[d] \/ asked'[d].st # "answered"
    OBVIOUS
  <2> QED BY <2>1, AnswerSame, Zenon
<1> QED BY <1>1, <1>3, <1>4, <1>5, <1>6, <1>7, Zenon DEF SrvInv, FrontInv, BackInv, AnswersTheQuestion, AnswerOf

LEMMA QuietSteps ==
  ASSUME SrvInv,
         \/ \E c \in Clients : Continue(c)
         \/ \E p \in live : Exit(p)
         \/ \E s \in Backends : Registers(s)
         \/ UNCHANGED srvVars
  PROVE  SrvInv'
<1>t. asked \in [Clients -> Asked] /\ up \subseteq Backends
  BY Zenon DEF SrvInv, SrvTypes
<1>1. ASSUME NEW c \in Clients, Continue(c) PROVE SrvInv'
  <2>1. Quiet \in Asked /\ Quiet.st = "idle"
    BY DEF Quiet, Asked
  <2>2. asked' = [asked EXCEPT ![c] = Quiet] /\ asked[c].st = "answered"
    BY <1>1, Zenon DEF Continue
  <2>3. /\ asked' \in [Clients -> Asked]
        /\ \A d \in Clients : asked'[d] = asked[d] \/ (asked[d].st = "answered" /\ asked'[d].st = "idle")
    BY <1>t, <2>1, <2>2
  <2> QED BY <1>1, <1>t, <2>3, QuietKeeps, Zenon DEF Continue
<1>2. ASSUME NEW p \in live, Exit(p) PROVE SrvInv'
  <2>1. UNCHANGED <<line, at, registry, todo, up, asked>> /\ live' \subseteq live
    BY <1>2, Zenon DEF Exit
  <2> QED BY <1>t, <2>1, QuietKeeps, Zenon
<1>3. ASSUME NEW s \in Backends, Registers(s) PROVE SrvInv'
  <2>1. UNCHANGED <<line, at, registry, todo, live, asked>> /\ up \subseteq up' /\ up' \subseteq Backends
    BY <1>3, <1>t, Zenon DEF Registers
  <2> QED BY <1>t, <2>1, QuietKeeps, Zenon
<1>4. CASE UNCHANGED srvVars
  BY <1>4, <1>t, QuietKeeps, Zenon DEF srvVars
<1> QED BY <1>1, <1>2, <1>3, <1>4, Zenon

\* A server takes the oldest message of its line.
LEMMA ReceiveKeeps ==
  ASSUME SrvInv, NEW s \in SrvNames, Receive(s)
  PROVE  SrvInv'
<1>n. "vfs" \in Fronts /\ "cm" \in Fronts
  BY DEF Fronts
<1>0. line[s] \in Seq(Msgs) /\ at \in [SrvNames -> Jobs] /\ line \in [SrvNames -> Seq(Msgs)] /\ line[s] # <<>> /\ at[s].st = "receive"
  BY Zenon DEF Receive, SrvInv, SrvTypes
<1>1. /\ Tail(line[s]) \in Seq(Msgs) /\ Lacks(Tail(line[s]), line[s], 1) /\ Head(line[s]) = line[s][1]
      /\ 1 \in 1..Len(line[s]) /\ Len(line[s]) \in Nat /\ line[s][1] \in Msgs
  BY <1>0, TailLacks, SeqFacts
<1>2. /\ UNCHANGED <<live, up, registry, asked, todo>>
      /\ at' = [at EXCEPT ![s] = [st |-> "handle", from |-> line[s][1].from, req |-> line[s][1].req, ans |-> <<>>]]
      /\ line' = [line EXCEPT ![s] = Tail(line[s])]
  BY <1>1, Zenon DEF Receive
<1>3. line[s][1].from \in Senders /\ line[s][1].req \in Reqs \cup Replies
  BY <1>1 DEF Msgs
<1>4. /\ line' \in [SrvNames -> Seq(Msgs)] /\ line'[s] = Tail(line[s]) /\ \A u \in SrvNames \ {s} : line'[u] = line[u]
  BY <1>0, <1>1, <1>2
<1>5. /\ at' \in [SrvNames -> Jobs] /\ \A u \in SrvNames \ {s} : at'[u] = at[u]
      /\ at'[s].st = "handle" /\ at'[s].from = line[s][1].from /\ at'[s].req = line[s][1].req
  <2>1. [st |-> "handle", from |-> line[s][1].from, req |-> line[s][1].req, ans |-> <<>>] \in Jobs
    BY <1>3 DEF Jobs
  <2> QED BY <1>0, <1>2, <2>1
<1>6. SrvTypes'
  BY <1>2, <1>4, <1>5, Zenon DEF SrvInv, SrvTypes
<1>7. \A d, q, u : Pending(d, q, u) => Pending(d, q, u)'
  BY <1>2, Zenon DEF Pending
<1>8. Skips(line'[s], line[s], 1)
  BY <1>1, <1>4, LacksFacts, Zenon
<1>e. \A i \in 1..Len(line'[s]) : \E k \in 1..Len(line[s]) : line'[s][i] = line[s][k]
  BY <1>8, Zenon DEF Skips
<1>9. \A b \in Backends : at["vfs"].st = "receive" => ~Awaits(b)
  BY DEF Awaits
<1>10. s \in Fronts => line[s][1].from \notin Backends
  <2>1. CASE s = "vfs"
    BY <1>0, <1>1, <1>9, <2>1, BackWasQuiet, Zenon
  <2>2. CASE s = "cm"
    BY <1>1, <2>2, Zenon DEF SrvInv, CmInv
  <2> QED BY <2>1, <2>2, Zenon DEF Fronts
<1>11. ASSUME NEW u \in Fronts PROVE FrontAt(u)'
  <2>0. FrontAt(u)
    BY Zenon DEF SrvInv, FrontInv
  <2>1. CASE u # s
    BY <1>4, <1>5, <1>7, <2>0, <2>1, NameFacts, FrontSame, Zenon
  <2>2. CASE u = s
    <3>1. Pending(line[s][1].from, line[s][1].req, s)
      BY <1>1, <1>10, <2>0, <2>2, Zenon DEF FrontAt
    <3>2. Pending(at[s].from, at[s].req, s)'
      BY <1>5, <1>7, <3>1, Zenon
    <3>3. ASSUME NEW i \in 1..Len(line'[s]), NEW j \in 1..Len(line'[s])
          PROVE  /\ line'[s][i].from \notin Backends => Pending(line[s][i].from, line[s][i].req, s)'
                 /\ line'[s][i].from # at'[s].from
                 /\ line'[s][i].from = line'[s][j].from => i = j
      <4>1. PICK k, l \in (1..Len(line[s])) \ {1} : line'[s][i] = line[s][k] /\ line'[s][j] = line[s][l] /\ (k = l => i = j)
        BY <1>8, Zenon DEF Skips
      <4>2. /\ line[s][k].from \notin Backends => Pending(line[s][k].from, line[s][k].req, s)
            /\ line[s][k].from = line[s][l].from => k = l
            /\ line[s][k].from # line[s][1].from
        BY <1>1, <2>0, <2>2, <4>1, Zenon DEF FrontAt
      <4> QED BY <1>5, <1>7, <4>1, <4>2, Zenon
    <3> QED BY <2>2, <3>2, <3>3, Zenon DEF FrontAt
  <2> QED BY <2>1, <2>2, Zenon
<1>12. ASSUME NEW b \in Backends PROVE BackAt(b)'
  <2>1. CASE s = "vfs"
    <3>1. at[b].st = "receive" /\ line[b] = <<>> /\ \A i \in 1..Len(line["vfs"]) : line["vfs"][i].from # b
      BY <1>0, <1>9, <2>1, BackWasQuiet, Zenon
    <3>2. \A i \in 1..Len(line'["vfs"]) : line'["vfs"][i].from # b
      BY <1>e, <2>1, <3>1, Zenon
    <3> QED BY <1>4, <1>5, <1>n, <2>1, <3>1, <3>2, NameFacts, BackQuiet, Zenon
  <2>2. CASE s # "vfs" /\ s # b
    <3>1. at'["vfs"] = at["vfs"] /\ line'["vfs"] = line["vfs"] /\ at'[b] = at[b] /\ line'[b] = line[b]
      BY <1>4, <1>5, <1>n, <2>2, NameFacts, Zenon
    <3> QED BY <1>2, <3>1, BackSame, Zenon
  <2>3. CASE s = b
    <3>1. Awaits(b) /\ Len(line[b]) = 1 /\ line[b][1].from = "vfs" /\ line[b][1].req = at["vfs"].req
      BY <1>0, <2>3, Zenon DEF SrvInv, BackInv, BackAt
    <3>2. at'["vfs"] = at["vfs"] /\ line'["vfs"] = line["vfs"] /\ "vfs" # b
      BY <1>4, <1>5, <1>n, <2>3, NameFacts, Zenon
    <3>3. line'[b] = <<>>
      BY <1>1, <1>4, <2>3, <3>1, SeqFacts DEF Lacks
    <3>4. \A i \in 1..Len(line["vfs"]) : line["vfs"][i].from # b
      BY <1>0, <2>3, Zenon DEF SrvInv, BackInv, BackAt
    <3>5. Awaits(b)'
      BY <3>1, <3>2, Zenon DEF Awaits, Backend, KnownPath
    <3> QED BY <1>5, <2>3, <3>1, <3>2, <3>3, <3>4, <3>5, Zenon DEF BackAt
  <2> QED BY <2>1, <2>2, <2>3, Zenon
<1>13. CmInv'
  <2>1. CASE s = "cm"
    BY <1>5, <1>e, <2>1 DEF SrvInv, CmInv
  <2>2. CASE s # "cm"
    BY <1>4, <1>5, <1>n, <2>2, NameFacts, Zenon DEF SrvInv, CmInv
  <2> QED BY <2>1, <2>2, Zenon
<1>14. SinceInv'
  BY <1>2, Zenon DEF SrvInv, SinceInv
<1>15. \A d \in Clients : AnswerOf(d)'
  BY <1>2, AnswerSame, Zenon
<1> QED BY <1>6, <1>11, <1>12, <1>13, <1>14, <1>15, Zenon DEF SrvInv, FrontInv, BackInv, AnswersTheQuestion, AnswerOf

\* A server of the front answers its client and is free again; its line is
\* as it was, or has lost one message.
LEMMA ReplyFacts ==
  ASSUME SrvInv, NEW s \in Fronts, at[s].st # "receive", NEW ans \in Results, Answers(at[s].from, ans),
         at' = [at EXCEPT ![s] = Free], UNCHANGED <<live, up>>,
         \A u \in SrvNames \ {s} : line'[u] = line[u],
         line'[s] = line[s] \/ \E x : Skips(line'[s], line[s], x)
  PROVE  /\ at' \in [SrvNames -> Jobs] /\ at'[s].st = "receive" /\ \A u \in SrvNames \ {s} : at'[u] = at[u]
         /\ asked' \in [Clients -> Asked]
         /\ \A d \in Clients : asked[d].st = "waits" => asked'[d].live = asked[d].live
         /\ \A u \in Fronts : FrontAt(u)'
         /\ SinceInv'
         /\ \A d \in Clients \ {at[s].from} : AnswerOf(d)'
<1> DEFINE c == at[s].from
<1>c. Pending(c, at[s].req, s) /\ c \in Clients
  BY ServedFacts, Zenon
<1>1. /\ at' \in [SrvNames -> Jobs] /\ at'[s].st = "receive" /\ \A u \in SrvNames \ {s} : at'[u] = at[u]
  <2>1. Free \in Jobs /\ Free.st = "receive"
    BY DEF Free, Jobs
  <2>2. at \in [SrvNames -> Jobs] /\ s \in SrvNames
    BY NameFacts, Zenon DEF SrvInv, SrvTypes
  <2> QED BY <2>1, <2>2
<1>2. /\ asked' \in [Clients -> Asked] /\ \A d \in Clients \ {c} : asked'[d] = asked[d]
      /\ asked'[c].st = "answered" /\ asked'[c].ans = ans
      /\ asked'[c].req = asked[c].req /\ asked'[c].live = asked[c].live /\ asked'[c].up = asked[c].up
  BY <1>c, AnswersFacts, Zenon
<1> HIDE DEF c
<1>3. \A d, r, u : Pending(d, r, u) /\ d # c => Pending(d, r, u)'
  BY <1>2, Zenon DEF Pending
<1>4. ASSUME NEW u \in Fronts PROVE FrontAt(u)'
  <2>0. FrontAt(u)
    BY Zenon DEF SrvInv, FrontInv
  <2>1. CASE u # s
    <3>1. \A d, r : Pending(d, r, u) => d # c
      BY <1>c, <2>1, Zenon DEF Pending
    <3>2. \A d, r : Pending(d, r, u) => Pending(d, r, u)'
      BY <1>3, <3>1, Zenon
    <3> QED BY <1>1, <2>0, <2>1, <3>2, NameFacts, FrontSame, Zenon
  <2>2. CASE u = s
    <3>1. ASSUME NEW k \in 1..Len(line[s]), NEW l \in 1..Len(line[s])
          PROVE  /\ line[s][k].from \notin Backends => Pending(line[s][k].from, line[s][k].req, s)
                 /\ line[s][k].from # c
                 /\ line[s][k].from = line[s][l].from => k = l
      BY <2>0, <2>2, <3>1, Zenon DEF FrontAt, c
    <3>2. ASSUME NEW i \in 1..Len(line'[s]), NEW j \in 1..Len(line'[s])
          PROVE  \E k, l \in 1..Len(line[s]) : line'[s][i] = line[s][k] /\ line'[s][j] = line[s][l] /\ (k = l => i = j)
      <4>1. CASE line'[s] = line[s]
        BY <4>1, Zenon
      <4>2. ASSUME NEW x, Skips(line'[s], line[s], x)
            PROVE  \E k, l \in 1..Len(line[s]) : line'[s][i] = line[s][k] /\ line'[s][j] = line[s][l] /\ (k = l => i = j)
        <5>1. PICK k, l \in (1..Len(line[s])) \ {x} : line'[s][i] = line[s][k] /\ line'[s][j] = line[s][l] /\ (k = l => i = j)
          BY <4>2, ZenonT(30) DEF Skips
        <5> QED BY <5>1, ZenonT(30)
      <4> QED BY <4>1, <4>2, Zenon
    <3>3. ASSUME NEW i \in 1..Len(line'[s]), NEW j \in 1..Len(line'[s])
          PROVE  /\ line'[s][i].from \notin Backends => Pending(line[s][i].from, line[s][i].req, s)'
                 /\ line'[s][i].from = line'[s][j].from => i = j
      <4>1. PICK k, l \in 1..Len(line[s]) : line'[s][i] = line[s][k] /\ line'[s][j] = line[s][l] /\ (k = l => i = j)
        BY <3>2, ZenonT(30)
      <4> QED BY <1>3, <3>1, <4>1, Zenon
    <3> QED BY <1>1, <2>2, <3>3, Zenon DEF FrontAt
  <2> QED BY <2>1, <2>2, Zenon
<1>5. SinceInv'
  BY <1>c, <1>2 DEF SrvInv, SinceInv, Pending
<1>6. \A d \in Clients \ {c} : AnswerOf(d)'
  BY <1>2, AnswerSame, Zenon
<1>7. \A d \in Clients : asked[d].st = "waits" => asked'[d].live = asked[d].live
  BY <1>2, Zenon
<1> QED BY <1>1, <1>2, <1>4, <1>5, <1>6, <1>7, Zenon DEF c

\* dispatch, when there is nobody to forward to.
LEMMA RefuseKeeps ==
  ASSUME SrvInv, VfsForwards, ~(Backend(at["vfs"].req) \in up /\ KnownPath(at["vfs"].req))
  PROVE  SrvInv'
<1> DEFINE r == at["vfs"].req
           c == at["vfs"].from
           ans == IF Backend(r) \in up THEN SrvErr ELSE Local
<1>n. "vfs" \in Fronts /\ "vfs" \in SrvNames /\ "cm" \in SrvNames /\ "cm" # "vfs" /\ \A b \in Backends : b \in SrvNames \ {"vfs"}
  BY DEF Fronts, SrvNames, Backends
<1>1. /\ at["vfs"].st = "handle" /\ UNCHANGED <<live, up, registry, todo, line>>
      /\ at' = [at EXCEPT !["vfs"] = Free] /\ Answers(c, ans)
  BY Zenon DEF VfsForwards
<1>2. ans \in Results /\ at["vfs"].st # "receive"
  BY <1>1 DEF SrvErr, Local, Results
<1>3. /\ Pending(c, r, "vfs") /\ c \in Clients /\ r \in Reqs /\ r.to = "vfs" /\ asked[c].up \subseteq up
  BY <1>n, <1>2, ServedFacts, Zenon
<1>4. /\ asked' \in [Clients -> Asked] /\ asked'[c].st = "answered" /\ asked'[c].ans = ans
      /\ asked'[c].req = asked[c].req /\ asked'[c].live = asked[c].live /\ asked'[c].up = asked[c].up
  BY <1>1, <1>2, <1>3, AnswersFacts, Zenon
<1> HIDE DEF ans
<1>5. /\ at' \in [SrvNames -> Jobs] /\ at'["vfs"].st = "receive" /\ \A u \in SrvNames \ {"vfs"} : at'[u] = at[u]
      /\ \A u \in Fronts : FrontAt(u)'
      /\ SinceInv'
      /\ \A d \in Clients \ {c} : AnswerOf(d)'
  BY <1>n, <1>1, <1>2, ReplyFacts, Zenon
<1>6. SrvTypes'
  BY <1>1, <1>4, <1>5, Zenon DEF SrvInv, SrvTypes
<1>7. ASSUME NEW b \in Backends PROVE BackAt(b)'
  <2>1. ~Awaits(b)
    BY <1>1 DEF Awaits
  <2>2. at[b].st = "receive" /\ line[b] = <<>> /\ \A i \in 1..Len(line["vfs"]) : line["vfs"][i].from # b
    BY <2>1, BackWasQuiet, Zenon
  <2> QED BY <1>n, <1>1, <1>5, <2>2, BackQuiet, Zenon
<1>8. CmInv'
  BY <1>n, <1>1, <1>5, Zenon DEF SrvInv, CmInv
<1>9. ASSUME NEW d \in Clients, d = c PROVE AnswerOf(d)'
  <2>0. PICK q : q = r
    BY Zenon
  <2>1. asked'[d].req = q
    BY <1>3, <1>4, <1>9, <2>0, Zenon DEF Pending
  <2>2. CASE Backend(q) \notin up
    <3>1. asked'[d].ans = Local /\ Backend(q) \notin asked'[d].up
      BY <1>3, <1>4, <1>9, <2>0, <2>2, Zenon DEF ans
    <3> QED BY <2>1, <3>1, Zenon DEF AnswerOf, Local, Backend
  <2>3. CASE Backend(q) \in up
    <3>1. ~KnownPath(q) /\ asked'[d].ans = SrvErr
      BY <1>4, <1>9, <2>0, <2>3, Zenon DEF ans
    <3>2. q.op \in {"dev_read", "dev_stat"} /\ SrvErr # Local
      BY <3>1 DEF KnownPath, SrvErr, Local
    <3>3. \A before : Right(q, before, SrvErr)'
      BY <3>1, <3>2 DEF Right, KnownPath, SrvErr
    <3> QED BY <2>1, <3>1, <3>2, <3>3, Zenon DEF AnswerOf, SrvErr, Local
  <2> QED BY <2>2, <2>3, Zenon
<1>10. \A d \in Clients : AnswerOf(d)'
  BY <1>5, <1>9, Zenon
<1> QED BY <1>5, <1>6, <1>7, <1>8, <1>10, Zenon DEF SrvInv, FrontInv, BackInv, AnswersTheQuestion, AnswerOf

\* dispatch, when it forwards.
LEMMA ForwardKeeps ==
  ASSUME SrvInv, VfsForwards, Backend(at["vfs"].req) \in up /\ KnownPath(at["vfs"].req)
  PROVE  SrvInv'
<1> DEFINE r == at["vfs"].req
           to == Backend(r)
<1>n. /\ "vfs" \in Fronts /\ "vfs" \in SrvNames /\ "cm" \in SrvNames /\ "cm" # "vfs" /\ "cm" \notin Backends
      /\ \A b \in Backends : b \in SrvNames \ {"vfs"}
  BY DEF Fronts, SrvNames, Backends
<1>1. /\ at["vfs"].st = "handle" /\ UNCHANGED <<live, up, registry, todo, asked>>
      /\ at' = [at EXCEPT !["vfs"].st = "await"]
      /\ line' = [line EXCEPT ![to] = Append(line[to], [from |-> "vfs", req |-> r])]
  BY Zenon DEF VfsForwards
<1>2. to \in Backends
  BY BackendFacts, Zenon
<1>3. r \in Reqs /\ r.to = "vfs"
  BY <1>n, <1>1, ServedFacts
<1>q. \A b \in Backends : at[b].st = "receive" /\ line[b] = <<>> /\ \A i \in 1..Len(line["vfs"]) : line["vfs"][i].from # b
  <2>1. \A b \in Backends : ~Awaits(b)
    BY <1>1 DEF Awaits
  <2> QED BY <2>1, BackWasQuiet, Zenon
<1>4. /\ at' \in [SrvNames -> Jobs] /\ \A u \in SrvNames \ {"vfs"} : at'[u] = at[u]
      /\ at'["vfs"].st = "await" /\ at'["vfs"].from = at["vfs"].from /\ at'["vfs"].req = r
  <2>1. at \in [SrvNames -> Jobs]
    BY Zenon DEF SrvInv, SrvTypes
  <2>2. at["vfs"] \in Jobs /\ at' = [at EXCEPT !["vfs"] = [at["vfs"] EXCEPT !.st = "await"]]
    BY <1>n, <1>1, <2>1
  <2>3. [at["vfs"] EXCEPT !.st = "await"] \in Jobs
    BY <2>2 DEF Jobs
  <2> QED BY <1>n, <2>1, <2>2, <2>3 DEF Jobs
<1>5. /\ line' \in [SrvNames -> Seq(Msgs)] /\ \A u \in SrvNames \ {to} : line'[u] = line[u]
      /\ line'[to] # <<>> /\ Len(line'[to]) = 1 /\ line'[to][1].from = "vfs" /\ line'[to][1].req = r
  <2>1. [from |-> "vfs", req |-> r] \in Msgs
    BY <1>n, <1>3, Zenon DEF Msgs, Senders
  <2>2. line \in [SrvNames -> Seq(Msgs)] /\ to \in SrvNames /\ line[to] = <<>>
    BY <1>n, <1>2, <1>q, Zenon DEF SrvInv, SrvTypes
  <2>3. /\ Append(<<>>, [from |-> "vfs", req |-> r]) \in Seq(Msgs) /\ Len(Append(<<>>, [from |-> "vfs", req |-> r])) = 1
        /\ Append(<<>>, [from |-> "vfs", req |-> r])[1] = [from |-> "vfs", req |-> r]
        /\ Append(<<>>, [from |-> "vfs", req |-> r]) # <<>>
    BY <2>1
  <2> HIDE DEF to, r
  <2>4. line' \in [SrvNames -> Seq(Msgs)] /\ line'[to] = Append(<<>>, [from |-> "vfs", req |-> r]) /\ \A u \in SrvNames \ {to} : line'[u] = line[u]
    BY <1>1, <2>2, <2>3
  <2> QED BY <2>3, <2>4
<1>6. SrvTypes'
  BY <1>1, <1>4, <1>5, Zenon DEF SrvInv, SrvTypes
<1>7. ASSUME NEW u \in Fronts PROVE FrontAt(u)'
  <2>0. FrontAt(u) /\ u \in SrvNames \ {to} /\ \A d, q : Pending(d, q, u) <=> Pending(d, q, u)'
    BY <1>1, <1>2, NameFacts, Zenon DEF SrvInv, FrontInv, Pending
  <2>1. line'[u] = line[u] /\ at'[u].from = at[u].from /\ at'[u].req = at[u].req /\ (at'[u].st # "receive" <=> at[u].st # "receive")
    BY <1>1, <1>4, <1>5, <2>0
  <2>2. ASSUME NEW i \in 1..Len(line[u]), NEW j \in 1..Len(line[u])
        PROVE  /\ line[u][i].from \notin Backends => Pending(line[u][i].from, line[u][i].req, u)'
               /\ at'[u].st # "receive" => line'[u][i].from # at'[u].from
               /\ line'[u][i].from = line'[u][j].from => i = j
    BY <2>0, <2>1, <2>2, Zenon DEF FrontAt
  <2>3. at'[u].st # "receive" => Pending(at[u].from, at[u].req, u)'
    BY <2>0, <2>1, Zenon DEF FrontAt
  <2> QED BY <2>1, <2>2, <2>3, Zenon DEF FrontAt
<1>8. ASSUME NEW b \in Backends PROVE BackAt(b)'
  <2>0. at'[b].st = "receive" /\ line'["vfs"] = line["vfs"]
    BY <1>n, <1>2, <1>4, <1>5, <1>q, Zenon
  <2>1. CASE b # to
    BY <1>n, <1>5, <1>q, <2>0, <2>1, BackQuiet, ZenonT(30)
  <2>2. CASE b = to
    <3>1. Awaits(b)'
      BY <1>4, <2>2, Zenon DEF Awaits, Backend, KnownPath
    <3>2. \A i \in 1..Len(line'["vfs"]) : line'["vfs"][i].from # b
      BY <1>q, <2>0, Zenon
    <3>3. Len(line'[b]) = 1 /\ line'[b][1].from = "vfs" /\ line'[b][1].req = at'["vfs"].req
      BY <1>4, <1>5, <2>2, Zenon
    <3> QED BY <2>0, <3>1, <3>2, <3>3, Zenon DEF BackAt
  <2> QED BY <2>1, <2>2, Zenon
<1>9. CmInv'
  BY <1>n, <1>2, <1>4, <1>5, Zenon DEF SrvInv, CmInv
<1>10. SinceInv'
  BY <1>1, Zenon DEF SrvInv, SinceInv
<1>11. \A d \in Clients : AnswerOf(d)'
  BY <1>1, AnswerSame, Zenon
<1> QED BY <1>6, <1>7, <1>8, <1>9, <1>10, <1>11, Zenon DEF SrvInv, FrontInv, BackInv, AnswersTheQuestion, AnswerOf

LEMMA MinFacts ==
  ASSUME NEW x \in Nat
  PROVE  Min({x}) = x
BY DEF Min

\* The VFS server takes its backend's reply out of its line and passes it on.
LEMMA RelayKeeps ==
  ASSUME SrvInv, VfsRelays
  PROVE  SrvInv'
<1> DEFINE r == at["vfs"].req
           c == at["vfs"].from
           to == Backend(r)
           replies == {i \in DOMAIN line["vfs"] : line["vfs"][i].from = to}
<1>n. /\ "vfs" \in Fronts /\ "vfs" \in SrvNames /\ "cm" \in SrvNames /\ "cm" # "vfs"
      /\ \A b \in Backends : b \in SrvNames \ {"vfs"}
  BY DEF Fronts, SrvNames, Backends
<1>0. to \in Backends /\ line \in [SrvNames -> Seq(Msgs)] /\ line["vfs"] \in Seq(Msgs)
  BY <1>n, BackendFacts, Zenon DEF SrvInv, SrvTypes
<1>1. at["vfs"].st = "await" /\ replies # {} /\ UNCHANGED <<live, up, registry, todo>>
  BY Zenon DEF VfsRelays
<1>2. DOMAIN line["vfs"] = 1..Len(line["vfs"]) /\ Len(line["vfs"]) \in Nat
  BY <1>0
<1>3. PICK k \in 1..Len(line["vfs"]) : line["vfs"][k].from = to
  BY <1>1, <1>2, Zenon
<1>4. \A i \in 1..Len(line["vfs"]) : line["vfs"][i].from = to => i = k
  BY <1>n, <1>3, Zenon DEF SrvInv, FrontInv, FrontAt
<1>5. replies = {k}
  BY <1>2, <1>3, <1>4, Zenon
<1>6. Min(replies) = k
  BY <1>5, MinFacts
<1> DEFINE ans == line["vfs"][k].req.arg
<1>7. /\ Answers(c, ans) /\ at' = [at EXCEPT !["vfs"] = Free]
      /\ line' = [line EXCEPT !["vfs"] = Without(line["vfs"], k)]
  BY <1>6, Zenon DEF VfsRelays, Without
<1>8. /\ Awaits(to) /\ at[to].st = "receive" /\ line[to] = <<>> /\ ans \in Results \ {Local}
      /\ Right(r, asked[c].live, ans)
  BY <1>0, <1>3, Zenon DEF SrvInv, BackInv, BackAt
<1>9. Pending(c, r, "vfs") /\ c \in Clients /\ r \in Reqs /\ r.to = "vfs"
  BY <1>n, <1>1, ServedFacts
<1>10. /\ asked' \in [Clients -> Asked] /\ asked'[c].st = "answered" /\ asked'[c].ans = ans
       /\ asked'[c].req = asked[c].req /\ asked'[c].live = asked[c].live
  BY <1>7, <1>8, <1>9, AnswersFacts, Zenon
<1>11. Without(line["vfs"], k) \in Seq(Msgs) /\ Skips(Without(line["vfs"], k), line["vfs"], k)
  BY <1>0, <1>2, WithoutLacks, LacksFacts, Zenon
<1>12. /\ line' \in [SrvNames -> Seq(Msgs)] /\ Skips(line'["vfs"], line["vfs"], k) /\ \A u \in SrvNames \ {"vfs"} : line'[u] = line[u]
  <2>1. line' \in [SrvNames -> Seq(Msgs)] /\ line'["vfs"] = Without(line["vfs"], k) /\ \A u \in SrvNames \ {"vfs"} : line'[u] = line[u]
    BY <1>n, <1>0, <1>7, <1>11
  <2> QED BY <1>11, <2>1, Zenon
<1>13. /\ at' \in [SrvNames -> Jobs] /\ at'["vfs"].st = "receive" /\ \A u \in SrvNames \ {"vfs"} : at'[u] = at[u]
       /\ \A u \in Fronts : FrontAt(u)'
       /\ SinceInv'
       /\ \A d \in Clients \ {c} : AnswerOf(d)'
  <2>1. at["vfs"].st # "receive" /\ ans \in Results /\ UNCHANGED <<live, up>>
    BY <1>1, <1>8
  <2> QED BY <1>n, <1>7, <1>12, <2>1, ReplyFacts, Zenon
<1>14. SrvTypes'
  BY <1>1, <1>10, <1>12, <1>13, Zenon DEF SrvInv, SrvTypes
<1>15. ASSUME NEW b \in Backends PROVE BackAt(b)'
  <2>1. at[b].st = "receive" /\ line[b] = <<>>
    <3>1. CASE b = to
      BY <1>8, <3>1, Zenon
    <3>2. CASE b # to
      BY <3>2, BackWasQuiet, Zenon DEF Awaits
    <3> QED BY <3>1, <3>2, Zenon
  <2>2. \A i \in 1..Len(line["vfs"]) : line["vfs"][i].from = b => i = k
    <3>1. CASE b = to
      BY <1>4, <3>1, Zenon
    <3>2. CASE b # to
      BY <3>2, BackWasQuiet, Zenon DEF Awaits
    <3> QED BY <3>1, <3>2, Zenon
  <2>3. ASSUME NEW i \in 1..Len(line'["vfs"]) PROVE line'["vfs"][i].from # b
    <3>1. PICK m \in (1..Len(line["vfs"])) \ {k} : line'["vfs"][i] = line["vfs"][m]
      BY <1>12, ZenonT(30) DEF Skips
    <3> QED BY <2>2, <3>1, Zenon
  <2> QED BY <1>n, <1>12, <1>13, <2>1, <2>3, BackQuiet, Zenon
<1>16. CmInv'
  BY <1>n, <1>12, <1>13, Zenon DEF SrvInv, CmInv
<1>17. ASSUME NEW d \in Clients, d = c PROVE AnswerOf(d)'
  <2>1. PICK q, before, a : q = r /\ before = asked[c].live /\ a = ans
    BY Zenon
  <2>2. Right(q, before, a)'
    BY <1>1, <1>8, <2>1, RightSame, Zenon
  <2>3. asked'[d].req = q /\ asked'[d].live = before /\ asked'[d].ans = a /\ a # Local
    BY <1>8, <1>9, <1>10, <1>17, <2>1, Zenon DEF Pending
  <2> QED BY <2>2, <2>3, Zenon DEF AnswerOf, Local
<1>18. \A d \in Clients : AnswerOf(d)'
  BY <1>13, <1>17, Zenon
<1> QED BY <1>13, <1>14, <1>15, <1>16, <1>18, Zenon DEF SrvInv, FrontInv, BackInv, AnswersTheQuestion, AnswerOf

LEMMA BackendKeeps ==
  ASSUME SrvInv, NEW b \in Backends, BackendServes(b)
  PROVE  SrvInv'
<1> DEFINE r == at["vfs"].req
           c == at["vfs"].from
<1>n. /\ "vfs" \in Fronts /\ "vfs" \in SrvNames /\ "cm" \in SrvNames /\ "cm" # "vfs" /\ b \in SrvNames \ {"vfs", "cm"}
      /\ \A d \in Backends : d \in SrvNames \ {"vfs"}
  BY DEF Fronts, SrvNames, Backends
<1>0. at \in [SrvNames -> Jobs] /\ line \in [SrvNames -> Seq(Msgs)] /\ line["vfs"] \in Seq(Msgs) /\ live \subseteq Pids
  BY <1>n, Zenon DEF SrvInv, SrvTypes
<1>1. at[b].st = "handle" /\ UNCHANGED <<live, up, registry, asked, todo>> /\ at' = [at EXCEPT ![b] = Free]
  BY Zenon DEF BackendServes
<1>2. Awaits(b) /\ at[b].from = "vfs" /\ at[b].req = r /\ line[b] = <<>>
  BY <1>1 DEF SrvInv, BackInv, BackAt
<1>3. \A i \in 1..Len(line["vfs"]) : line["vfs"][i].from # b
  BY <1>1 DEF SrvInv, BackInv, BackAt
<1>4. /\ r \in Reqs /\ r.to = "vfs" /\ c \in Clients /\ live \subseteq asked[c].live /\ asked[c].live \subseteq Pids
  BY <1>n, <1>2, ServedFacts DEF Awaits
<1> DEFINE ans == Served(b, r)
           m == [from |-> b, req |-> Request("vfs", "reply", ans, 0)]
<1>5. ans \in Results \ {Local} /\ Right(r, asked[c].live, ans)
  BY <1>2, <1>4, ServedIsRight, Zenon DEF Awaits
<1>6. line' = [line EXCEPT !["vfs"] = Append(line["vfs"], m)]
  BY <1>2, Zenon DEF BackendServes, Served
<1> HIDE DEF ans
<1>7. m \in Msgs /\ m.from = b /\ m.req.arg = ans
  BY <1>5 DEF Request, Msgs, Replies, Senders, SrvNames
<1> HIDE DEF m
<1>8. /\ line' \in [SrvNames -> Seq(Msgs)] /\ \A u \in SrvNames \ {"vfs"} : line'[u] = line[u]
      /\ line'["vfs"] = Append(line["vfs"], m)
  BY <1>n, <1>0, <1>6, <1>7, AppendFacts
<1>9. /\ Len(line'["vfs"]) = Len(line["vfs"]) + 1 /\ Len(line["vfs"]) \in Nat
      /\ \A i \in 1..Len(line["vfs"]) : line'["vfs"][i] = line["vfs"][i]
      /\ line'["vfs"][Len(line["vfs"]) + 1] = m
  BY <1>0, <1>7, <1>8, AppendFacts, SeqFacts
<1>10. \A i \in 1..Len(line'["vfs"]) : i \in 1..Len(line["vfs"]) \/ i = Len(line["vfs"]) + 1
  BY <1>9
<1>11. at' \in [SrvNames -> Jobs] /\ at'[b].st = "receive" /\ \A u \in SrvNames \ {b} : at'[u] = at[u]
  <2>1. Free \in Jobs /\ Free.st = "receive"
    BY DEF Free, Jobs
  <2> QED BY <1>n, <1>0, <1>1, <2>1
<1>12. SrvTypes'
  BY <1>1, <1>8, <1>11, Zenon DEF SrvInv, SrvTypes
<1>13. ASSUME NEW u \in Fronts PROVE FrontAt(u)'
  <2>0. FrontAt(u) /\ u \in SrvNames \ {b} /\ \A d, q : Pending(d, q, u) => Pending(d, q, u)'
    BY <1>1, NameFacts, Zenon DEF SrvInv, FrontInv, Pending
  <2>1. CASE u # "vfs"
    BY <1>8, <1>11, <2>0, <2>1, FrontSame, Zenon
  <2>2. CASE u = "vfs"
    <3>1. ASSUME NEW i \in 1..Len(line'[u])
          PROVE  /\ line'[u][i].from \notin Backends => Pending(line[u][i].from, line[u][i].req, u)'
                 /\ at'[u].st # "receive" => line'[u][i].from # at'[u].from
      <4>1. CASE i \in 1..Len(line[u])
        BY <1>9, <1>11, <2>0, <2>2, <4>1, Zenon DEF FrontAt
      <4>2. CASE i = Len(line[u]) + 1
        <5>1. line'[u][i].from = b /\ at'[u].from = c /\ c # b
          BY <1>4, <1>7, <1>9, <1>11, <2>0, <2>2, <4>2, NameFacts, Zenon
        <5> QED BY <5>1, Zenon
      <4> QED BY <1>10, <2>2, <4>1, <4>2, Zenon
    <3>2. ASSUME NEW i \in 1..Len(line'[u]), NEW j \in 1..Len(line'[u]), line'[u][i].from = line'[u][j].from
          PROVE  i = j
      <4>1. CASE i \in 1..Len(line[u]) /\ j \in 1..Len(line[u])
        BY <1>9, <2>0, <2>2, <3>2, <4>1, Zenon DEF FrontAt
      <4>2. CASE i = Len(line[u]) + 1 \/ j = Len(line[u]) + 1
        BY <1>3, <1>7, <1>9, <1>10, <2>2, <3>2, <4>2, Zenon
      <4> QED BY <1>10, <2>2, <4>1, <4>2, Zenon
    <3>3. at'[u].st # "receive" => Pending(at[u].from, at[u].req, u)'
      BY <1>11, <2>0, Zenon DEF FrontAt
    <3> QED BY <3>1, <3>2, <3>3, Zenon DEF FrontAt
  <2> QED BY <2>1, <2>2, Zenon
<1>14. ASSUME NEW d \in Backends PROVE BackAt(d)'
  <2>0. at'["vfs"] = at["vfs"] /\ line'[d] = line[d]
    BY <1>n, <1>8, <1>11, Zenon
  <2>1. CASE d # b
    <3>1. at'[d] = at[d]
      BY <1>n, <1>11, <2>1, Zenon
    <3>2. ASSUME NEW i \in 1..Len(line'["vfs"]), line'["vfs"][i].from = d
          PROVE  \E k \in 1..Len(line["vfs"]) : line["vfs"][k] = line'["vfs"][i]
      BY <1>7, <1>9, <1>10, <2>1, <3>2, Zenon
    <3>3. live' \subseteq live /\ \A e \in Clients : asked[e].st = "waits" => asked'[e].live = asked[e].live
      BY <1>1, Zenon
    <3> QED BY <2>0, <3>1, <3>2, <3>3, BackSame, Zenon
  <2>2. CASE d = b
    <3>1. Awaits(d)'
      BY <1>2, <2>0, <2>2, Zenon DEF Awaits, Backend, KnownPath
    <3>2. ASSUME NEW i \in 1..Len(line'["vfs"]), line'["vfs"][i].from = d
          PROVE  /\ line'["vfs"][i].req.arg \in Results \ {Local}
                 /\ Right(at["vfs"].req, asked[at["vfs"].from].live, line["vfs"][i].req.arg)'
      <4>1. line'["vfs"][i].req.arg = ans
        BY <1>3, <1>7, <1>9, <1>10, <2>2, <3>2, Zenon
      <4>2. PICK q, before, a : q = r /\ before = asked[c].live /\ a = ans
        BY Zenon
      <4>3. Right(q, before, a)'
        BY <1>1, <1>5, <4>2, RightSame, Zenon
      <4>4. at'["vfs"].req = q /\ asked'[at'["vfs"].from].live = before /\ line'["vfs"][i].req.arg = a
        BY <1>1, <2>0, <4>1, <4>2, Zenon
      <4> QED BY <1>5, <4>1, <4>3, <4>4, Zenon
    <3> QED BY <1>2, <1>11, <2>0, <2>2, <3>1, <3>2, Zenon DEF BackAt
  <2> QED BY <2>1, <2>2, Zenon
<1>15. CmInv'
  BY <1>n, <1>8, <1>11, Zenon DEF SrvInv, CmInv
<1>16. SinceInv'
  BY <1>1, Zenon DEF SrvInv, SinceInv
<1>17. \A d \in Clients : AnswerOf(d)'
  BY <1>1, AnswerSame, Zenon
<1> QED BY <1>12, <1>13, <1>14, <1>15, <1>16, <1>17, Zenon DEF SrvInv, FrontInv, BackInv, AnswersTheQuestion, AnswerOf

\* Registering and giving up a name.
LEMMA RegistryFacts ==
  ASSUME SrvInv, NEW n
  PROVE  /\ IsFiniteSet(DOMAIN registry \cup {n}) /\ IsFiniteSet(DOMAIN registry \ {n})
         /\ \A m \in DOMAIN registry : registry[m] \in Clients
<1>1. IsFiniteSet(DOMAIN registry) /\ \A m \in DOMAIN registry : registry[m] \in Clients
  BY Zenon DEF SrvInv, SrvTypes
<1> QED BY <1>1, FS_AddElement, FS_RemoveElement

LEMMA CmKeeps ==
  ASSUME SrvInv, CmServes
  PROVE  SrvInv'
<1> DEFINE a == at["cm"]
           n == a.req.arg
           named == n \in DOMAIN registry
           mine == named /\ registry[n] = a.from
           ans == CASE a.req.op = "register" -> SrvOk(0)
                    [] a.req.op = "lookup" -> IF named THEN SrvOk(registry[n]) ELSE SrvErr
                    [] a.req.op = "list" -> SrvOk(Cardinality(DOMAIN registry))
                    [] a.req.op = "unregister" -> IF mine THEN SrvOk(0) ELSE SrvErr
<1>n. /\ "cm" \in Fronts /\ "vfs" \in SrvNames /\ "cm" \in SrvNames /\ "cm" # "vfs"
      /\ \A b \in Backends : b \in SrvNames \ {"cm"}
  BY DEF Fronts, SrvNames, Backends
<1>1. /\ a.st = "handle" /\ UNCHANGED <<live, up, line, todo>> /\ at' = [at EXCEPT !["cm"] = Free] /\ Answers(a.from, ans)
  BY ZenonT(30) DEF CmServes
<1>2. a.from \in Clients /\ a.req \in Reqs /\ a.req.to = "cm"
  BY <1>n, <1>1, ServedFacts
<1>3. a.req.op \in {"register", "lookup", "list", "unregister"}
  BY <1>2, ServersAssumption DEF Reqs
<1>4. IsFiniteSet(DOMAIN registry) /\ \A m \in DOMAIN registry : registry[m] \in Clients
  BY Zenon DEF SrvInv, SrvTypes
<1>5. ans \in Results
  <2>1. Cardinality(DOMAIN registry) \in Nat
    BY <1>4, FS_CardinalityType
  <2> QED BY <1>3, <1>4, <2>1 DEF Results, SrvOk, SrvErr
<1>6. IsFiniteSet(DOMAIN registry') /\ \A m \in DOMAIN registry' : registry'[m] \in Clients
  <2>1. CASE a.req.op = "register"
    <3>1. registry' = [m \in DOMAIN registry \cup {n} |-> IF m = n THEN a.from ELSE registry[m]]
      BY <2>1 DEF CmServes
    <3> QED BY <1>2, <1>4, <3>1, RegistryFacts, Zenon
  <2>2. CASE a.req.op = "unregister" /\ mine
    <3>1. registry' = [m \in DOMAIN registry \ {n} |-> registry[m]]
      BY <2>2 DEF CmServes
    <3> QED BY <1>2, <1>4, <3>1, RegistryFacts, Zenon
  <2>3. CASE ~(a.req.op = "register") /\ ~(a.req.op = "unregister" /\ mine)
    <3>1. registry' = registry
      BY <2>3 DEF CmServes
    <3> QED BY <1>4, <3>1, ZenonT(30)
  <2> QED BY <2>1, <2>2, <2>3, Zenon
<1> HIDE DEF ans
<1>7. asked' \in [Clients -> Asked] /\ asked'[a.from].req = asked[a.from].req
  BY <1>1, <1>2, <1>5, AnswersFacts, Zenon
<1>8. /\ at' \in [SrvNames -> Jobs] /\ at'["cm"].st = "receive" /\ \A u \in SrvNames \ {"cm"} : at'[u] = at[u]
      /\ \A d \in Clients : asked[d].st = "waits" => asked'[d].live = asked[d].live
      /\ \A u \in Fronts : FrontAt(u)'
      /\ SinceInv'
      /\ \A d \in Clients \ {a.from} : AnswerOf(d)'
  <2>1. a.st # "receive"
    BY <1>1
  <2> QED BY <1>n, <1>1, <1>5, <2>1, ReplyFacts, Zenon
<1>9. SrvTypes'
  BY <1>1, <1>6, <1>7, <1>8, Zenon DEF SrvInv, SrvTypes
<1>10. ASSUME NEW b \in Backends PROVE BackAt(b)'
  BY <1>n, <1>1, <1>8, BackSame, Zenon
<1>11. CmInv'
  BY <1>1, <1>8 DEF SrvInv, CmInv
<1>12. ASSUME NEW d \in Clients, d = a.from PROVE AnswerOf(d)'
  <2>1. asked'[d].req.to = "cm"
    BY <1>2, <1>7, <1>12, <1>n, <1>1, ServedFacts DEF Pending
  <2> QED BY <2>1 DEF AnswerOf
<1>13. \A d \in Clients : AnswerOf(d)'
  BY <1>8, <1>12, Zenon
<1> QED BY <1>8, <1>9, <1>10, <1>11, <1>13, Zenon DEF SrvInv, FrontInv, BackInv, AnswersTheQuestion, AnswerOf

-----------------------------------------------------------------------------
LEMMA SrvInvInit ==
  SrvInit => SrvInv
<1> SUFFICES ASSUME SrvInit PROVE SrvInv
  OBVIOUS
<1>1. line = [s \in SrvNames |-> <<>>] /\ at = [s \in SrvNames |-> Free] /\ asked = [c \in Clients |-> Quiet] /\ live = Pids /\ up = {} /\ registry = <<>>
  BY Zenon DEF SrvInit
<1>2. Free \in Jobs /\ Quiet \in Asked /\ Free.st = "receive" /\ Quiet.st = "idle"
  BY DEF Free, Quiet, Jobs, Asked
<1>3. DOMAIN todo = Clients /\ \A c \in Clients : todo[c] \subseteq Reqs
  BY ServersAssumption DEF SrvInit, Reqs
<1>4. DOMAIN registry = {} /\ IsFiniteSet({})
  BY <1>1, FS_EmptySet
<1>5. SrvTypes
  <2>1. line \in [SrvNames -> Seq(Msgs)]
    BY <1>1
  <2> QED BY <1>1, <1>2, <1>3, <1>4, <2>1 DEF SrvTypes
<1>6. \A s \in SrvNames : line[s] = <<>> /\ Len(line[s]) = 0 /\ at[s].st = "receive"
  BY <1>1, <1>2
<1>7. \A s \in SrvNames : 1..Len(line[s]) = {}
  BY <1>6
<1>8. FrontInv
  BY <1>6, <1>7, NameFacts, Zenon DEF FrontInv, FrontAt
<1>9. BackInv
  <2>1. "vfs" \in SrvNames
    BY DEF SrvNames
  <2> QED BY <1>6, <1>7, <2>1, NameFacts, Zenon DEF BackInv, BackAt
<1>10. CmInv
  <2>1. "cm" \in SrvNames
    BY DEF SrvNames
  <2>2. 1..Len(line["cm"]) = {} /\ at["cm"].st = "receive"
    BY <1>6, <1>7, <2>1, Zenon
  <2> QED BY <2>2 DEF CmInv
<1>11. \A c \in Clients : asked[c].st = "idle"
  BY <1>1, <1>2
<1>12. SinceInv /\ AnswersTheQuestion
  BY <1>11 DEF SinceInv, AnswersTheQuestion
<1> QED BY <1>5, <1>8, <1>9, <1>10, <1>12, Zenon DEF SrvInv

LEMMA SrvInvStep ==
  ASSUME SrvInv, [SrvStep]_srvVars
  PROVE  SrvInv'
<1>1. ASSUME NEW c \in Clients, NEW r \in todo[c], Ask(c, r) PROVE SrvInv'
  BY <1>1, AskKeeps, Zenon
<1>2. ASSUME NEW s \in SrvNames, Receive(s) PROVE SrvInv'
  BY <1>2, ReceiveKeeps, Zenon
<1>3. CASE VfsForwards
  BY <1>3, RefuseKeeps, ForwardKeeps, Zenon
<1>4. CASE VfsRelays
  BY <1>4, RelayKeeps, Zenon
<1>5. CASE CmServes
  BY <1>5, CmKeeps, Zenon
<1>6. ASSUME NEW b \in Backends, BackendServes(b) PROVE SrvInv'
  BY <1>6, BackendKeeps, Zenon
<1>7. ASSUME \/ \E c \in Clients : Continue(c)
             \/ \E p \in live : Exit(p)
             \/ \E s \in Backends : Registers(s)
             \/ UNCHANGED srvVars
      PROVE  SrvInv'
  BY <1>7, QuietSteps, Zenon
<1> QED BY <1>1, <1>2, <1>3, <1>4, <1>5, <1>6, <1>7, Zenon DEF SrvStep, ServerProgress

\* A client's answer is the answer to its own request, as of some moment
\* between the request and the reply, for any number of clients and requests
\* (dispatch, the forward_ functions, procfs-server, devfs-server).
THEOREM AnswersAreRight ==
  SrvInit /\ [][SrvStep]_srvVars => []AnswersTheQuestion
<1>1. SrvInit => SrvInv
  BY SrvInvInit
<1>2. SrvInv /\ [SrvStep]_srvVars => SrvInv'
  BY SrvInvStep
<1>3. SrvInv => AnswersTheQuestion
  BY Zenon DEF SrvInv
<1> QED BY <1>1, <1>2, <1>3, PTL
=============================================================================
