----------------------------- MODULE MCUserland ------------------------------
(***************************************************************************)
(* What processes do and what serves them: the calls on handles, locks,    *)
(* signals and threads (Calls), the sockets and the network driver         *)
(* (Sockets, VirtioNet), trace points (Trace), the code of swapped pages   *)
(* (PageCodec), the shell with its editor (Shell) and the package manager  *)
(* (Pkg).  They share no state in the code but what a module has already:  *)
(* a behaviour is one of them at work while the others rest.               *)
(***************************************************************************)
EXTENDS Calls, Sockets, VirtioNet, Trace, PageCodec, Shell, Pkg

VARIABLES scene

serverVars  == <<vars, sockVars, netVars, traceVars, codecVars>>
programVars == <<shellVars, parseVars, lineVars, nanoVars, pkgVars, gunzipVars>>
userVars    == <<scene, serverVars, programVars>>

Scenes == {"calls", "sockets", "send", "receive", "trace", "codec",
           "shell", "parse", "line", "nano", "pkg", "gunzip"}

\* A part that rests is in one of its initial states.
UserInit ==
  /\ scene \in Scenes
  /\ Init /\ SockInit /\ NetInit /\ TraceInit /\ CodecInit
  /\ ShellInit /\ ParseInit /\ LineInit /\ NanoInit /\ PkgInit /\ GunzipInit
  /\ scene # "calls" => may = CHOOSE m \in Programs : TRUE
  /\ scene # "sockets" => plan = CHOOSE m \in SockPlans : TRUE
  /\ scene # "codec" => old = CHOOSE f \in OldFrames : TRUE
  /\ scene # "nano" => lines = Load(<<>>)

ServerNext ==
  \/ scene = "calls" /\ Next /\ UNCHANGED <<sockVars, netVars, traceVars, codecVars>>
  \/ scene = "sockets" /\ SockStep /\ UNCHANGED <<vars, netVars, traceVars, codecVars>>
  \/ scene = "send" /\ NetSendStep /\ UNCHANGED <<vars, sockVars, traceVars, codecVars>>
  \/ scene = "receive" /\ NetRecvStep /\ UNCHANGED <<vars, sockVars, traceVars, codecVars>>
  \/ scene = "trace" /\ TraceStep /\ UNCHANGED <<vars, sockVars, netVars, codecVars>>
  \/ scene = "codec" /\ CodecStep /\ UNCHANGED <<vars, sockVars, netVars, traceVars>>

ProgramNext ==
  \/ scene = "shell" /\ ShellStep /\ UNCHANGED <<parseVars, lineVars, nanoVars, pkgVars, gunzipVars>>
  \/ scene = "parse" /\ ParseStep /\ UNCHANGED <<shellVars, lineVars, nanoVars, pkgVars, gunzipVars>>
  \/ scene = "line" /\ LineStep /\ UNCHANGED <<shellVars, parseVars, nanoVars, pkgVars, gunzipVars>>
  \/ scene = "nano" /\ NanoStep /\ UNCHANGED <<shellVars, parseVars, lineVars, pkgVars, gunzipVars>>
  \/ scene = "pkg" /\ PkgStep /\ UNCHANGED <<shellVars, parseVars, lineVars, nanoVars, gunzipVars>>
  \/ scene = "gunzip" /\ GunzipStep /\ UNCHANGED <<shellVars, parseVars, lineVars, nanoVars, pkgVars>>

UserNext ==
  /\ UNCHANGED scene
  /\ \/ ServerNext /\ UNCHANGED programVars
     \/ ProgramNext /\ UNCHANGED serverVars

UserSpec == UserInit /\ [][UserNext]_userVars

-----------------------------------------------------------------------------
\* Of a part at work; one that rests stays in its initial state.
At(parts) == scene \in parts

\* The variables of the parts keep their types.
UserTypeOK == (At({"calls"}) => TypeOK) /\ (At({"sockets"}) => SockTypeOK)

\* Record locks held at the same time are compatible, and who waits for one
\* that could be granted is woken (fcntl, close, exit).
LocksSound == UserTypeOK /\ (At({"calls"}) => LocksCompatible /\ NoForgottenWaiter)

\* A signal handler runs once per delivery, and sigreturn puts back the mask;
\* a program goes on where it was, unless a signal took it out of a sleep that
\* wake_with_eintr does not resume rightly (ResumesExactly says which).
HandlersResume == At({"calls"}) => NoReentry /\ MaskRestored /\ ResumesExactly

\* A byte stream arrives as it was sent, and a connection is handed over once,
\* on a handle of its own, from the port it was made to (StreamIntact and
\* AcceptedOnce say what is left out).
SocketsSound == At({"sockets"}) => StreamIntact /\ AcceptedOnce

\* What a table says is so: a handle a program holds names the object it was
\* made for and no other number names any (HandleStable), a page is in one of the
\* network driver's lists, a trace ring holds its last records.
TablesSound ==
  /\ At({"calls"}) => HandleStable
  /\ At({"send", "receive"}) => PagesConserved
  /\ At({"trace"}) => TraceReadsTail /\ OneRecordPerProgram

\* A pipeline of the shell: every end is where it belongs, the shell has its
\* own ends and the terminal back, no child is left if every waitpid returned
\* the one it named, and the words are those of the line (exec_pipeline).
PipelinesSound ==
  /\ At({"shell"}) => EndsWhereTheyBelong /\ ShellComesBack /\ ForegroundLeadsGroup
  /\ At({"parse"}) => LineUnderstood

\* The codecs and tools agree with what they stand for: a page decompresses to
\* itself, the screen shows the line, a saved text reloads, a stream inflates
\* to what the vector does, a code leads to its symbol, and the files a
\* package wrote are listed, but for the strays that FilesAreListed names.
ToolsAgree ==
  /\ At({"codec"}) => PageComesBack
  /\ At({"line"}) => ScreenShowsLine
  /\ At({"nano"}) => CursorInText /\ SavedReloads
  /\ At({"pkg"}) => FilesAreListed /\ DependenciesInstalled
  /\ At({"gunzip"}) => StreamSameAsVec /\ CodesLeadToSymbols

\* A step does what it is for and no more: who is told in F_SETLKW that it has
\* its lock holds it (wake_lock_waiters; GrantedIsHeld says who is left out), and
\* an edit of nano touches one character or one line break.
StepsAreExact == GrantedIsHeld /\ EditsOneCharacter

-----------------------------------------------------------------------------
(* An instance of Userland; each program of Calls is one family of calls. *)
TwoSigs == {1, 9, 15, 18, 20}
TwoActions == {<<15, Handler, {}>>, <<20, Handler, {15}>>, <<15, Ignore, {}>>}
TermMask == {{15}}
IdsDef == 0..4
P3 == {1, 2, 3}
Tree == (1 :> 0) @@ (2 :> 0) @@ (3 :> 2)

Program(one, two, three, sigs, sends, locks) ==
  [calls |-> (1 :> one) @@ (2 :> two) @@ (3 :> three),
   sigs |-> sigs, sends |-> sends, locks |-> locks]

WholeFile == {<<0, 0>>}

\* A range from the start and the whole file, the whole file and a range past
\* its end, and two ranges apart.
LockProgram     == Program({"locks", "close"}, {"locks"}, {}, {}, 0, {<<0, 1>>, <<0, 0>>})
LockPastEnd     == Program({"locks", "close", "fault"}, {"locks"}, {}, {}, 0, {<<0, 0>>, <<3, 2>>})
LockApart       == Program({"locks"}, {"locks"}, {}, {}, 0, {<<0, 1>>, <<3, 2>>})
LockSignals     == Program({"locks", "kill"}, {"locks", "reap"}, {}, {9, 18, 20}, 1, WholeFile)
SignalProgram   == Program({"kill"}, {"sigaction", "wait"}, {}, {15, 20}, 2, {})
MaskProgram     == Program({"kill"}, {"sigaction", "sigprocmask", "exec"}, {}, {15, 20}, 2, {})
SleepProgram    == Program({"kill", "futex", "reap"}, {"sleep", "futex", "mail"}, {}, {9, 18}, 2, {})
GroupProgram    == Program({"task_kill"}, {"kill", "clone", "exit_group", "setpgid"}, {"exit"}, {0, 9, 15}, 1, {})
ThreadProgram   == Program({"tgkill"}, {"fork", "tgkill"}, {"sigaction", "exit"}, {15, 20}, 2, {})
JoinProgram     == Program({"kill"}, {"clone", "futex"}, {"tid", "futex", "exit"}, {9}, 1, {})
OrphanProgram   == Program({"kill"}, {"setsid", "fork", "exit"}, {"sleep", "mail", "sigaction"}, {20}, 1, {})
HandleProgram   == Program({"pipe", "cloexec", "exec"}, {}, {}, {}, 0, {})
DupProgram      == Program({"close", "dup", "dup2"}, {}, {}, {}, 0, {})
RightsProgram   == Program({"close", "dup", "hdup"}, {}, {}, {}, 0, {})
ForkProgram     == Program({}, {"close", "fork", "setsid"}, {"close", "dup2", "exit"}, {}, 0, {})
DupFdProgram    == Program({"pipe", "close", "dupfd"}, {}, {}, {}, 0, {})
TransferProgram == Program({"send", "close"}, {"recv", "close", "exit"}, {}, {}, 0, {})

AllPrograms == {LockProgram, LockPastEnd, LockApart, LockSignals, SignalProgram, MaskProgram, SleepProgram,
                GroupProgram, ThreadProgram, JoinProgram, OrphanProgram, HandleProgram, DupProgram, RightsProgram, ForkProgram, DupFdProgram,
                TransferProgram}

\* Bytes both ways over one connection, made or accepted; two connections, to
\* one socket or to two that may have had the same number; and an exit in the
\* middle of an accept.
SockPlan(ports, sockets, conns, bytes, waits, connects, exits) ==
  [ports |-> ports, sockets |-> sockets, conns |-> conns, bytes |-> bytes, waits |-> waits,
   connects |-> connects, exits |-> exits]
ThreePlans == {SockPlan({1}, 1, 1, 2, 1, TRUE, FALSE), SockPlan({1, 2}, 2, 2, 0, 0, FALSE, FALSE),
               SockPlan({1}, 1, 2, 0, 1, FALSE, TRUE)}

Files == {1}
FivePages == 1..5
Texts == {<<"a", "b">>, <<"b", "b">>, <<"b", "a", "_">>}
History == <<<<"a">>, <<"b", "a">>>>

Stage(builtin, out, in) == [builtin |-> builtin, out |-> out, in |-> in]
Plain == Stage(FALSE, FALSE, FALSE)
ShellLines == {<<Stage(TRUE, TRUE, TRUE)>>, <<Stage(FALSE, TRUE, TRUE)>>,
               <<Stage(TRUE, FALSE, TRUE), Stage(FALSE, TRUE, FALSE)>>,
               <<Plain, Plain, Stage(TRUE, FALSE, FALSE)>>}

LineWord(kind, text) == [kind |-> kind, text |-> text]
LineWords == {LineWord("plain", <<"a">>), LineWord("quoted", <<"a", "|", " ">>),
              LineWord("single", <<"$", "v">>), LineWord("var", <<"v">>), LineWord("braced", <<"v">>)}
Environment == <<"v">> :> <<"b", " ", ">", ">">>

Filters == {{1, 2, 3}, {2, 3}}
ThreePackages == {"p", "q", "r"}
PackageFiles == [p |-> <<"f1", "f2">>, q |-> <<"f1">>, r |-> <<"f2">>]
Cycle == [p |-> <<"q">>, q |-> <<"r">>, r |-> <<"p">>]
FourSymbols == 0..3
=============================================================================
