-------------------------------- MODULE Shell --------------------------------
(***************************************************************************)
(* The shell: src/user/sh/src/main.rs, in four parts.                      *)
(*                                                                         *)
(* Editing the input line (read_line_raw): the line it edits, and the line *)
(* the terminal shows, which the shell never reads back.  The terminal's   *)
(* row begins after the prompt; writing overwrites and moves right.  "_"   *)
(* is a blank.                                                             *)
(*                                                                         *)
(* Understanding a line: expand_vars, then parse_pipeline.  A behaviour    *)
(* composes a pipeline word by word; the properties write it as a line and *)
(* parse that.  Characters are one-letter strings.                         *)
(*                                                                         *)
(* Running a line: exec_single and exec_pipeline with the redirections.    *)
(* Process 0 is the shell, the others are the children of the line that is *)
(* running, one per stage.  A descriptor table maps numbers to open ends:  *)
(* the terminal, a file, the read end <<"r", k>> or the write end          *)
(* <<"w", k>> of the pipe between the stages k and k + 1.  What a command  *)
(* does with its descriptors is not modelled, nor are dup and close        *)
(* failing.                                                                *)
(*                                                                         *)
(* Editing a text (NanoEditor): lines, a cursor, and the first line on the *)
(* screen.  A line is a sequence of characters, a file a sequence of       *)
(* characters and newlines.                                                *)
(***************************************************************************)
EXTENDS Integers, Sequences, SequencesExt

CONSTANTS
  Chars,       \* characters that are typed
  Words,       \* what a word can be completed to
  MaxLine,     \* a bound on the length of a line
  Past         \* the history when the line is begun, oldest first

VARIABLES
  buf, cursor, histIdx, saved,  \* the locals of read_line_raw
  row, col,                     \* what the terminal shows, and its cursor
  done                          \* the line was returned

lineVars == <<buf, cursor, histIdx, saved, row, col, done>>

LineInit ==
  /\ buf = <<>> /\ cursor = 0 /\ histIdx = Len(Past) /\ saved = <<>>
  /\ row = <<>> /\ col = 0 /\ done = FALSE

-----------------------------------------------------------------------------
(* The terminal: its row and column as a pair *)

Term == [row |-> row, col |-> col]

Wrt(t, s) ==
  [row |-> [i \in 1..Max({Len(t.row), t.col + Len(s)}) |->
              IF i \in (t.col + 1)..(t.col + Len(s)) THEN s[i - t.col] ELSE t.row[i]],
   col |-> t.col + Len(s)]

MoveLeft(t, n) == [t EXCEPT !.col = Max({@ - n, 0})]

Blanks(n) == [i \in 1..n |-> "_"]
From(s, i) == SubSeq(s, i + 1, Len(s))
UpTo(s, i) == SubSeq(s, 1, i)

Shows(t) == row' = t.row /\ col' = t.col
Edits(b, c) == buf' = b /\ cursor' = c
SameHistory == UNCHANGED <<histIdx, saved>>

-----------------------------------------------------------------------------
(* The keys *)

TypeChar(c) ==
  /\ Len(buf) < MaxLine
  /\ Edits(InsertAt(buf, cursor + 1, c), cursor + 1)
  /\ Shows(MoveLeft(Wrt(Term, <<c>> \o From(buf, cursor)), Len(buf) - cursor))
  /\ SameHistory

EraseLeft ==
  /\ cursor > 0
  /\ LET b == RemoveAt(buf, cursor)
     IN /\ Edits(b, cursor - 1)
        /\ Shows(MoveLeft(Wrt(Wrt(MoveLeft(Term, 1), From(b, cursor - 1)), Blanks(1)), Len(b) - cursor + 2))
  /\ SameHistory

EraseRight ==
  /\ cursor < Len(buf)
  /\ LET b == RemoveAt(buf, cursor + 1)
     IN /\ Edits(b, cursor)
        /\ Shows(MoveLeft(Wrt(Wrt(Term, From(b, cursor)), Blanks(1)), Len(b) - cursor + 1))
  /\ SameHistory

GoLeft  == cursor > 0 /\ Edits(buf, cursor - 1) /\ Shows(MoveLeft(Term, 1)) /\ SameHistory
GoRight == cursor < Len(buf) /\ Edits(buf, cursor + 1) /\ Shows(Wrt(Term, <<buf[cursor + 1]>>)) /\ SameHistory
GoHome  == cursor > 0 /\ Edits(buf, 0) /\ Shows(MoveLeft(Term, cursor)) /\ SameHistory
GoEnd   == cursor < Len(buf) /\ Edits(buf, Len(buf)) /\ Shows(Wrt(Term, From(buf, cursor))) /\ SameHistory

\* ^U.
KillLine ==
  /\ Edits(<<>>, 0)
  /\ Shows(MoveLeft(Wrt(MoveLeft(Term, cursor), Blanks(Len(buf))), Len(buf)))
  /\ SameHistory

\* replace_input.
ReplaceInput(entry) ==
  LET t == Wrt(MoveLeft(Term, cursor), entry)
      extra == Max({Len(buf) - Len(entry), 0})
  IN Shows(MoveLeft(Wrt(t, Blanks(extra)), extra)) /\ Edits(entry, Len(entry))

OlderLine ==
  /\ histIdx > 0 /\ histIdx' = histIdx - 1
  /\ saved' = IF histIdx = Len(Past) THEN buf ELSE saved
  /\ ReplaceInput(Past[histIdx])

NewerLine ==
  /\ histIdx < Len(Past) /\ histIdx' = histIdx + 1
  /\ ReplaceInput(IF histIdx + 1 = Len(Past) THEN saved ELSE Past[histIdx + 2])
  /\ UNCHANGED saved

\* tab_complete: the word up to the cursor; completed when there is one match,
\* redrawn below the candidates when there are several.
WordStart == Max({0} \cup {i \in 1..cursor : buf[i] = "_"})
Completions == {w \in Words : IsPrefix(SubSeq(buf, WordStart + 1, cursor), w)}

\* apply_completion.
ApplyCompletion(w) ==
  LET old == cursor - WordStart
      tail == From(buf, cursor)
  IN /\ WordStart + Len(w) + Len(tail) <= MaxLine
     /\ Edits(UpTo(buf, WordStart) \o w \o tail, WordStart + Len(w))
     /\ Shows(MoveLeft(Wrt(Wrt(MoveLeft(Term, old), w), tail), Len(tail)))

Complete ==
  /\ \/ Completions = {} /\ UNCHANGED <<buf, cursor, row, col>>
     \/ \E w \in Words : Completions = {w} /\ ApplyCompletion(w)
     \/ /\ \E w, x \in Completions : w # x
        /\ Shows(MoveLeft(Wrt([row |-> <<>>, col |-> 0], buf), Len(buf) - cursor))
        /\ UNCHANGED <<buf, cursor>>
  /\ SameHistory

LineKey ==
  \/ \E c \in Chars : TypeChar(c)
  \/ EraseLeft \/ EraseRight \/ GoLeft \/ GoRight \/ GoHome \/ GoEnd \/ KillLine \/ OlderLine \/ NewerLine \/ Complete

\* Return gives the line; ^C an empty one.
ReturnLine == done' = TRUE /\ UNCHANGED <<cursor, histIdx, saved, row, col>> /\ buf' \in {buf, <<>>}

LineStep == ~done /\ ((LineKey /\ UNCHANGED done) \/ ReturnLine)

-----------------------------------------------------------------------------
\* What the terminal shows is the line being edited, with blanks after it, and
\* its cursor stands where the next character goes: the shell sends the exact
\* moves and blanks for every key (read_line_raw, replace_input,
\* apply_completion).
ScreenShowsLine ==
  ~done => /\ col = cursor /\ cursor <= Len(buf) /\ Len(buf) <= Len(row)
           /\ row = buf \o Blanks(Len(row) - Len(buf))

-----------------------------------------------------------------------------
(* Understanding a line *)

CONSTANTS
  NameChars,  \* letters and _; digits, which no name starts with, are left out
  Env,        \* the environment: name -> value, both sequences of characters
  ShellWords, \* words to write: [kind, text]
  MaxWords    \* words of a line

VARIABLES meant, words   \* the pipeline, and how many words it has

parseVars == <<meant, words>>

NoFile == <<>>
EmptyStage == [args |-> <<>>, in |-> NoFile, out |-> NoFile]

ParseInit == meant = <<EmptyStage>> /\ words = 0

-----------------------------------------------------------------------------
(* Composing a pipeline *)

OneMoreWord == words < MaxWords /\ words' = words + 1

AddArg(w) == OneMoreWord /\ meant' = [meant EXCEPT ![Len(meant)].args = Append(@, w)]
AddIn(w)  == OneMoreWord /\ Last(meant).in = NoFile /\ meant' = [meant EXCEPT ![Len(meant)].in = w]
AddOut(w) == OneMoreWord /\ Last(meant).out = NoFile /\ meant' = [meant EXCEPT ![Len(meant)].out = w]
AddStage  == Last(meant).args # <<>> /\ words < MaxWords /\ meant' = Append(meant, EmptyStage) /\ UNCHANGED words

ParseStep == AddStage \/ \E w \in ShellWords : AddArg(w) \/ AddIn(w) \/ AddOut(w)

-----------------------------------------------------------------------------
(* expand_vars *)

First(line, from, chars) == Min({k \in from..Len(line) : line[k] \in chars} \cup {Len(line) + 1})

Value(name) == IF name \in DOMAIN Env THEN Env[name] ELSE <<>>

\* Faulty variant: the closing brace of a name is not skipped.
BracedKeeps(line, i) ==
  LET e == First(line, i + 2, {"}"})
  IN <<Value(SubSeq(line, i + 2, e - 1)), e>>

\* ${NAME} at i: its value, and where the line goes on.
Braced(line, i) ==
  LET e == First(line, i + 2, {"}"})
  IN <<Value(SubSeq(line, i + 2, e - 1)), Min({e + 1, Len(line) + 1})>>

\* $NAME at i; a $ before anything else is kept.
Named(line, i) ==
  LET e == Min({k \in i + 1..Len(line) : line[k] \notin NameChars} \cup {Len(line) + 1})
  IN IF e = i + 1 THEN <<<<"$">>, i + 1>> ELSE <<Value(SubSeq(line, i + 1, e - 1)), e>>

\* single: between single quotes, which are dropped.
ExpandVars(line) ==
  LET n == Len(line)
      from[i \in 1..n + 1, single \in BOOLEAN] ==
        IF i > n THEN <<>>
        ELSE IF line[i] = "'" THEN from[i + 1, ~single]
        ELSE IF single \/ line[i] # "$" \/ i = n THEN <<line[i]>> \o from[i + 1, single]
        ELSE LET ref == IF line[i + 1] = "{" THEN Braced(line, i) ELSE Named(line, i)
             IN ref[1] \o from[ref[2], single]
  IN from[1, FALSE]

-----------------------------------------------------------------------------
(* parse_pipeline *)

EndWord(s) == IF s.cur = <<>> THEN s ELSE [s EXCEPT !.toks = Append(@, s.cur), !.cur = <<>>]
Operator(s, op) == [EndWord(s) EXCEPT !.toks = Append(@, op)]

\* Phase 1 at position i: quote is the open quote, skip a > that is done.
Tokenise(line, s, i) ==
  LET b == line[i]
  IN IF s.skip THEN [s EXCEPT !.skip = FALSE]
     ELSE IF s.quote # "" THEN IF b = s.quote THEN [s EXCEPT !.quote = ""] ELSE [s EXCEPT !.cur = Append(@, b)]
     ELSE CASE b \in {"\"", "'"} -> [s EXCEPT !.quote = b]
            [] b \in {"|", "<"} -> Operator(s, <<b>>)
            [] b = ">" -> IF i < Len(line) /\ line[i + 1] = ">"
                          THEN [Operator(s, <<">", ">">>) EXCEPT !.skip = TRUE] ELSE Operator(s, <<">">>)
            [] b = " " -> EndWord(s)
            [] OTHER -> [s EXCEPT !.cur = Append(@, b)]

Tokens(line) ==
  EndWord(FoldLeft(LAMBDA s, i : Tokenise(line, s, i),
                   [toks |-> <<>>, cur |-> <<>>, quote |-> "", skip |-> FALSE],
                   [i \in DOMAIN line |-> i])).toks

\* Phase 2: the token after a redirection is its file, whatever it is.
AddToken(s, tok) ==
  CASE s.file = "in"  -> [s EXCEPT !.cur.in = tok, !.file = ""]
    [] s.file = "out" -> [s EXCEPT !.cur.out = tok, !.file = ""]
    [] s.file = "" /\ tok = <<"|">> -> [s EXCEPT !.stages = Append(@, s.cur), !.cur = EmptyStage]
    [] s.file = "" /\ tok = <<"<">> -> [s EXCEPT !.file = "in"]
    [] s.file = "" /\ tok \in {<<">">>, <<">", ">">>} -> [s EXCEPT !.file = "out"]
    [] OTHER -> [s EXCEPT !.cur.args = Append(@, tok)]

ParsePipeline(line) ==
  LET s == FoldLeft(AddToken, [stages |-> <<>>, cur |-> EmptyStage, file |-> ""], Tokens(line))
  IN IF s.cur.args = <<>> THEN s.stages ELSE Append(s.stages, s.cur)

-----------------------------------------------------------------------------
\* How a word is written, and the word it means: as it is, in quotes, or as a
\* variable in double quotes.
InLine(w) ==
  CASE w.kind = "plain"  -> w.text
    [] w.kind = "quoted" -> <<"\"">> \o w.text \o <<"\"">>
    [] w.kind = "single" -> <<"'">> \o w.text \o <<"'">>
    [] w.kind = "var"    -> <<"\"", "$">> \o w.text \o <<"\"">>
    [] w.kind = "braced" -> <<"\"", "$", "{">> \o w.text \o <<"}", "\"">>
Meaning(w) == IF w.kind \in {"var", "braced"} THEN Env[w.text] ELSE w.text

WrittenFile(op, w) == IF w = NoFile THEN <<>> ELSE op \o InLine(w)
MeantFile(w) == IF w = NoFile THEN NoFile ELSE Meaning(w)

\* A pipeline with a blank or none around its operators.
WrittenStage(st, blank) ==
  FlattenSeq([i \in DOMAIN st.args |-> (IF i = 1 THEN <<>> ELSE <<" ">>) \o InLine(st.args[i])])
  \o WrittenFile(blank \o <<"<">> \o blank, st.in) \o WrittenFile(blank \o <<">">> \o blank, st.out)
WrittenLine(blank) ==
  FlattenSeq([i \in DOMAIN meant |-> (IF i = 1 THEN <<>> ELSE blank \o <<"|">> \o blank) \o WrittenStage(meant[i], blank)])

MeantStages ==
  [i \in DOMAIN meant |-> [args |-> [k \in DOMAIN meant[i].args |-> Meaning(meant[i].args[k])],
                           in |-> MeantFile(meant[i].in), out |-> MeantFile(meant[i].out)]]

\* A pipeline in which every stage has a command is run as it was meant, with
\* or without blanks around the operators: a word in double quotes, or the
\* value of a variable in double quotes, is one word whatever blanks and
\* operators it has besides other characters (expand_vars, parse_pipeline).
LineUnderstood ==
  Last(meant).args # <<>> =>
    \A blank \in {<<>>, <<" ">>} : ParsePipeline(ExpandVars(WrittenLine(blank))) = MeantStages

-----------------------------------------------------------------------------
(* Running a line *)

CONSTANTS
  CommandLines,   \* sequences of stages [builtin, out, in]
  MaxCommands     \* how many lines are typed

VARIABLES
  sh,       \* the shell: [at, line, i, prev, made, pid, pids, saved]
  results,  \* wait_result of the shell: children whose exit was queued
  astray,   \* whether a waitpid returned another child than the one it named
  ftab,     \* descriptor tables
  kid,      \* the children: [at, stage, prev, made]
  pgid,     \* process group of each child
  fg,       \* FOREGROUND_PID
  raw,      \* raw mode of the terminal
  typed     \* lines typed so far

shellVars == <<sh, results, astray, ftab, kid, pgid, fg, raw, typed>>

\* A pid is used once: child i of line n is number (n - 1) * Width + i.
Width  == Max({Len(l) : l \in CommandLines})
Pids   == 1..(MaxCommands * Width)
NewPid == (typed - 1) * Width + sh.i
Terminal   == <<"tty", 0>>
VfsFd == <<"file", 0>>
NoFd  == -1
NoPipe == [r |-> NoFd, w |-> NoFd]
StdFds == [f \in 0..2 |-> Terminal]
NoKid == [at |-> "none", stage |-> <<>>, prev |-> NoFd, made |-> NoPipe]
Idle  == [at |-> "prompt", line |-> <<>>, i |-> 0, prev |-> NoFd, made |-> NoPipe,
          pid |-> 0, pids |-> <<>>, saved |-> <<NoFd, NoFd>>]

ShellInit ==
  /\ sh = Idle /\ typed = 0 /\ fg = NoFd /\ raw = TRUE
  /\ results = <<>> /\ astray = FALSE
  /\ ftab = [p \in {0} \cup Pids |-> IF p = 0 THEN StdFds ELSE <<>>]
  /\ kid = [c \in Pids |-> NoKid]
  /\ pgid = [c \in Pids |-> 0]

LowestFd(t) == Min(0..(Max({0} \cup DOMAIN t) + 1) \ DOMAIN t)
SetFd(t, f, end) == (f :> end) @@ t
Closed(t, fds) == [f \in DOMAIN t \ fds |-> t[f]]
DupOver(t, from, to) == Closed(SetFd(t, to, t[from]), {from})

\* apply_out_redir, apply_in_redir: the old end is saved whether or not the
\* file opens.
Redirected(t, f, wanted, opens) ==
  IF ~wanted THEN [tab |-> t, saved |-> NoFd]
  ELSE LET s == LowestFd(t)
           u == SetFd(t, s, t[f])
       IN [tab |-> IF opens THEN SetFd(u, f, VfsFd) ELSE u, saved |-> s]

UndoRedir(t, f, kept) == IF kept = NoFd THEN t ELSE DupOver(t, kept, f)

Redirections(t, stage, okOut, okIn) ==
  LET out == Redirected(t, 1, stage.out, okOut)
      in  == Redirected(out.tab, 0, stage.in, okIn)
  IN [tab |-> in.tab, saved |-> <<out.saved, in.saved>>]

\* A builtin alone on its line runs in the shell, between its redirections
\* and their undoing.
Builtin(l, okOut, okIn) ==
  LET r == Redirections(ftab[0], l[1], okOut, okIn) IN
  /\ sh.at = "prompt" /\ typed < MaxCommands
  /\ Len(l) = 1 /\ l[1].builtin
  /\ typed' = typed + 1
  /\ ftab' = [ftab EXCEPT ![0] = r.tab]
  /\ sh' = [Idle EXCEPT !.at = "dispatch", !.saved = r.saved]
  /\ UNCHANGED <<results, astray, kid, pgid, fg, raw>>

Dispatched ==
  /\ sh.at = "dispatch"
  /\ ftab' = [ftab EXCEPT ![0] = UndoRedir(UndoRedir(@, 1, sh.saved[1]), 0, sh.saved[2])]
  /\ sh' = Idle
  /\ UNCHANGED <<results, astray, kid, pgid, fg, raw, typed>>

\* Any other line: one child per stage.
Forks(l) ==
  /\ sh.at = "prompt" /\ typed < MaxCommands
  /\ ~(Len(l) = 1 /\ l[1].builtin)
  /\ typed' = typed + 1 /\ raw' = FALSE
  /\ sh' = [Idle EXCEPT !.at = "fork", !.line = l, !.i = 1]
  /\ UNCHANGED <<results, astray, ftab, kid, pgid, fg>>

\* pipe (not for the last stage) and fork, which may fail.
ForkStage(ok) ==
  LET t    == ftab[0]
      last == sh.i = Len(sh.line)
      r    == LowestFd(t)
      c    == NewPid
      w    == LowestFd(SetFd(t, r, <<"r", c>>))
      made == IF last THEN NoPipe ELSE [r |-> r, w |-> w]
      u    == IF last THEN t ELSE SetFd(SetFd(t, r, <<"r", c>>), w, <<"w", c>>)
  IN /\ sh.at = "fork"
     /\ sh' = [sh EXCEPT !.at = "parent", !.made = made, !.pid = IF ok THEN c ELSE NoFd]
     /\ ftab' = IF ok THEN [ftab EXCEPT ![0] = u, ![c] = u] ELSE [ftab EXCEPT ![0] = u]
     /\ kid' = IF ok THEN [kid EXCEPT ![c] = [at |-> "wire", stage |-> sh.line[sh.i],
                                                prev |-> sh.prev, made |-> made]] ELSE kid
     /\ UNCHANGED <<results, astray, pgid, fg, raw, typed>>

\* The parent closes the ends its child owns now and mirrors its setpgid.
ParentCloses ==
  /\ sh.at = "parent"
  /\ ftab' = [ftab EXCEPT ![0] = Closed(@, {sh.prev, sh.made.w})]
  /\ sh' = [sh EXCEPT !.prev = sh.made.r, !.i = @ + 1,
                      !.at = IF sh.i = Len(sh.line) THEN "wait" ELSE "fork",
                      !.pids = IF sh.pid > 0 THEN Append(@, sh.pid) ELSE @]
  /\ pgid' = IF sh.pid > 0 THEN [pgid EXCEPT ![sh.pid] = sh.pid] ELSE pgid
  /\ UNCHANGED <<results, astray, kid, fg, raw, typed>>

\* The terminal goes to the children in order, each until its waitpid returns.
HandOver ==
  /\ sh.at = "wait" /\ sh.pids # <<>>
  /\ fg' = Head(sh.pids)
  /\ sh' = [sh EXCEPT !.at = "waitpid"]
  /\ UNCHANGED <<results, astray, ftab, kid, pgid, raw, typed>>

\* sys_waitpid takes the first queued result, of whatever child; else the
\* child it names, dead or (ECHILD) no longer there; else it sleeps, and a
\* later exit of that child only wakes it.  Its checks are one step here, and
\* steps of their own in WaitPid.
WaitReturns(c) ==
  /\ astray' = (astray \/ c # Head(sh.pids))
  /\ kid' = [kid EXCEPT ![c] = NoKid]
  /\ sh' = [sh EXCEPT !.at = "wait", !.pids = Tail(@)]
  /\ UNCHANGED <<ftab, pgid, fg, raw, typed>>

Reaps ==
  /\ sh.at \in {"waitpid", "asleep"}
  /\ IF results # <<>> THEN WaitReturns(Head(results)) /\ results' = Tail(results)
     ELSE kid[Head(sh.pids)].at \in {"zombie", "none"} /\ WaitReturns(Head(sh.pids)) /\ UNCHANGED results

WaitSleeps ==
  /\ sh.at = "waitpid" /\ results = <<>> /\ kid[Head(sh.pids)].at \notin {"zombie", "none"}
  /\ sh' = [sh EXCEPT !.at = "asleep"]
  /\ UNCHANGED <<results, astray, ftab, kid, pgid, fg, raw, typed>>

TakeBack ==
  /\ sh.at = "wait" /\ sh.pids = <<>>
  /\ fg' = NoFd /\ raw' = TRUE
  /\ sh' = Idle
  /\ UNCHANGED <<results, astray, ftab, kid, pgid, typed>>

\* The child leads its own group and puts the pipes on 0 and 1.
Wire(c) ==
  LET k == kid[c]
      t == IF k.prev = NoFd THEN ftab[c] ELSE DupOver(ftab[c], k.prev, 0)
      u == IF k.made.w = NoFd THEN t ELSE DupOver(t, k.made.w, 1)
  IN /\ k.at = "wire"
     /\ ftab' = [ftab EXCEPT ![c] = Closed(u, {k.made.r})]
     /\ pgid' = [pgid EXCEPT ![c] = c]
     /\ kid' = [kid EXCEPT ![c].at = "redirect"]
     /\ UNCHANGED <<sh, results, astray, fg, raw, typed>>

\* Files override the pipes; the ends saved by the redirections stay open.
\* exec_args closes the descriptors of files, a builtin runs as it is.
ChildRuns(c, okOut, okIn) ==
  LET stage == kid[c].stage
      t     == Redirections(ftab[c], stage, okOut, okIn).tab
  IN /\ kid[c].at = "redirect"
     /\ ftab' = [ftab EXCEPT ![c] = IF stage.builtin THEN t
                                    ELSE Closed(t, {f \in DOMAIN t : t[f] = VfsFd})]
     /\ kid' = [kid EXCEPT ![c].at = "run"]
     /\ UNCHANGED <<sh, results, astray, pgid, fg, raw, typed>>

\* exit, then try_wake_parent: the result is queued unless the shell sleeps
\* for another child.
ChildExits(c) ==
  /\ kid[c].at = "run"
  /\ ftab' = [ftab EXCEPT ![c] = <<>>]
  /\ kid' = [kid EXCEPT ![c].at = "zombie"]
  /\ results' = IF sh.at = "asleep" /\ Head(sh.pids) # c THEN results ELSE Append(results, c)
  /\ UNCHANGED <<sh, astray, pgid, fg, raw, typed>>

ShellStep ==
  \/ \E l \in CommandLines : Forks(l) \/ \E a, b \in BOOLEAN : Builtin(l, a, b)
  \/ Dispatched \/ (\E ok \in BOOLEAN : ForkStage(ok)) \/ ParentCloses
  \/ HandOver \/ WaitSleeps \/ Reaps \/ TakeBack
  \/ \E c \in Pids : Wire(c) \/ ChildExits(c) \/ \E a, b \in BOOLEAN : ChildRuns(c, a, b)

-----------------------------------------------------------------------------
\* Once a stage runs, or the shell waits, the write end of pipe k is open in
\* stage k at most and its read end in stage k + 1 at most: no other process
\* keeps a reader from its end of file or a writer from EPIPE (the closes of
\* exec_pipeline in parent and child), whichever forks failed.
EndsWhereTheyBelong ==
  LET Settled(p) == IF p = 0 THEN sh.at \in {"wait", "waitpid", "asleep"} ELSE kid[p].at = "run"
  IN \A p \in DOMAIN ftab : Settled(p) =>
       \A f \in DOMAIN ftab[p] :
         LET end == ftab[p][f]
         IN (end[1] = "w" => p = end[2]) /\ (end[1] = "r" => p = end[2] + 1)

\* Back at the prompt the shell has the three descriptors it started with,
\* and its terminal in raw mode and in no child's foreground.  If every
\* waitpid returned the child it named, no child of the line is left over
\* (undo_redir, the closes and the waits).
ShellComesBack ==
  sh.at = "prompt" =>
    /\ ftab[0] = StdFds /\ raw /\ fg = NoFd
    /\ ~astray => results = <<>> /\ \A c \in Pids : kid[c].at = "none" /\ ftab[c] = <<>>

\* Does NOT hold: when a later stage exits before the shell sleeps, waitpid of
\* an earlier one returns the queued result of the later (sys_waitpid pops
\* wait_result before it looks at its target), and the prompt comes back
\* while the earlier stage runs.
LineIsOver ==
  sh.at = "prompt" => \A c \in Pids : kid[c].at = "none"

\* The process made the foreground one leads its own group, even if it has
\* not run yet ("mirror setpgid to close the race window", exec_single).
ForegroundLeadsGroup ==
  fg # NoFd => pgid[fg] = fg

-----------------------------------------------------------------------------
(* Editing a text: NanoEditor *)

CONSTANTS
  Letters,          \* characters that are typed
  ContentRows,      \* lines on the screen
  MaxText           \* a bound on the length of the text

VARIABLES
  lines, nrow, ncol, scroll, modified,  \* of NanoEditor; nrow and ncol from 0
  closed

nanoVars == <<lines, nrow, ncol, scroll, modified, closed>>

\* new: the lines of a file; a last line needs no newline.
Load(content) ==
  LET nls == SelectSeq([i \in DOMAIN content |-> i], LAMBDA i : content[i] = "nl")
      from(k) == IF k = 1 THEN 1 ELSE nls[k - 1] + 1
      full == [k \in DOMAIN nls |-> SubSeq(content, from(k), nls[k] - 1)]
      rest == SubSeq(content, from(Len(nls) + 1), Len(content))
      all == IF rest = <<>> THEN full ELSE Append(full, rest)
  IN IF all = <<>> THEN <<<<>>>> ELSE all

NanoInit ==
  /\ \E file \in {<<>>} \cup {<<c>> : c \in Letters \cup {"nl"}} : lines = Load(file)
  /\ nrow = 0 /\ ncol = 0 /\ scroll = 0 /\ modified = FALSE /\ closed = FALSE

Line(r) == lines[r + 1]

\* The text as one sequence, and the place of the cursor in it.
Text(t) == FlattenSeq([i \in DOMAIN t |-> IF i < Len(t) THEN t[i] \o <<"nl">> ELSE t[i]])
Place(t, r, c) == Len(Text([i \in 1..(r + 1) |-> IF i <= r THEN t[i] ELSE <<>>])) + c

-----------------------------------------------------------------------------
\* clamp_col, for the row r of the text t.
Clamped(t, r, c) == Min({c, Len(t[r + 1])})

\* adjust_scroll.
Scrolled(r) ==
  IF r < scroll THEN r ELSE IF r >= scroll + ContentRows THEN r + 1 - ContentRows ELSE scroll

\* The cursor in row r; a key that stays in its row does not scroll.
Cursor(r, c) == nrow' = r /\ ncol' = c /\ scroll' = IF r = nrow THEN scroll ELSE Scrolled(r)
Moves(r, c) == Cursor(r, c) /\ UNCHANGED <<lines, modified>>
Changes(t, r, c) == lines' = t /\ Cursor(r, c) /\ modified' = TRUE

Up    == nrow > 0 /\ Moves(nrow - 1, Clamped(lines, nrow - 1, ncol))
Down  == nrow + 1 < Len(lines) /\ Moves(nrow + 1, Clamped(lines, nrow + 1, ncol))
Left  == \/ ncol > 0 /\ Moves(nrow, ncol - 1)
         \/ ncol = 0 /\ nrow > 0 /\ Moves(nrow - 1, Len(Line(nrow - 1)))
Right == \/ ncol < Len(Line(nrow)) /\ Moves(nrow, ncol + 1)
         \/ ncol = Len(Line(nrow)) /\ nrow + 1 < Len(lines) /\ Moves(nrow + 1, 0)

Page(r) ==
  nrow' = r /\ ncol' = Clamped(lines, r, ncol) /\ scroll' = Scrolled(r) /\ UNCHANGED <<lines, modified>>

PageUp   == Page(Max({nrow - ContentRows, 0}))
PageDown == Page(Min({nrow + ContentRows, Len(lines) - 1}))

\* Home and End do not scroll.
HomeEnd == ncol' \in {0, Len(Line(nrow))} /\ UNCHANGED <<lines, nrow, scroll, modified>>

Char(c) ==
  /\ Len(Text(lines)) < MaxText
  /\ Changes([lines EXCEPT ![nrow + 1] = InsertAt(@, ncol + 1, c)], nrow, ncol + 1)

Enter ==
  /\ Len(Text(lines)) < MaxText
  /\ LET l == Line(nrow)
     IN Changes(InsertAt([lines EXCEPT ![nrow + 1] = SubSeq(l, 1, ncol)], nrow + 2, SubSeq(l, ncol + 1, Len(l))),
                nrow + 1, 0)

\* Line r and the one after it as one.
Joined(r) == RemoveAt([lines EXCEPT ![r + 1] = @ \o lines[r + 2]], r + 2)

Backspace ==
  \/ ncol > 0 /\ Changes([lines EXCEPT ![nrow + 1] = RemoveAt(@, ncol)], nrow, ncol - 1)
  \/ ncol = 0 /\ nrow > 0 /\ Changes(Joined(nrow - 1), nrow - 1, Len(Line(nrow - 1)))

Delete ==
  \/ ncol < Len(Line(nrow)) /\ Changes([lines EXCEPT ![nrow + 1] = RemoveAt(@, ncol + 1)], nrow, ncol)
  \/ ncol = Len(Line(nrow)) /\ nrow + 1 < Len(lines) /\ Changes(Joined(nrow), nrow, ncol)

\* ^K removes the line; it does not scroll.
CtrlK ==
  LET less == RemoveAt(lines, nrow + 1)
      t == IF less = <<>> THEN <<<<>>>> ELSE less
      r == Min({nrow, Len(t) - 1})
  IN lines' = t /\ nrow' = r /\ ncol' = Clamped(t, r, ncol) /\ modified' = TRUE /\ UNCHANGED scroll

\* What save writes: every line, with a newline after it.
Written == FlattenSeq([i \in DOMAIN lines |-> lines[i] \o <<"nl">>])

\* ^O: the file is written, or cannot be created.
Save ==
  /\ modified' \in {FALSE, modified}
  /\ UNCHANGED <<lines, nrow, ncol, scroll, closed>>

\* ^X.
CtrlX == closed' = TRUE /\ UNCHANGED <<lines, nrow, ncol, scroll, modified>>

NanoKey ==
  \/ Up \/ Down \/ Left \/ Right \/ PageUp \/ PageDown \/ HomeEnd
  \/ Enter \/ Backspace \/ Delete \/ CtrlK \/ \E c \in Letters : Char(c)

NanoStep == ~closed /\ ((NanoKey /\ UNCHANGED closed) \/ Save \/ CtrlX)

-----------------------------------------------------------------------------
\* Every index the editor uses is in range before the next key: the row is a
\* line, the column at most its length, so that no remove, insert or split_off
\* is past the end (handle).  The row is not below the screen; after ^K it may
\* be above it.
CursorInText ==
  /\ lines # <<>> /\ nrow \in 0..(Len(lines) - 1) /\ ncol \in 0..Len(Line(nrow))
  /\ nrow < scroll + ContentRows

\* Seen as one sequence of characters, every key but ^K inserts one character
\* at the cursor, removes one beside it, or changes nothing: splitting and
\* joining lines loses no character (handle).
EditsOneCharacter ==
  [][LET was == Text(lines)
         now == Text(lines')
         p == Place(lines, nrow, ncol)
     IN ~CtrlK =>
          \/ now = was
          \/ \E c \in Letters \cup {"nl"} : now = InsertAt(was, p + 1, c) /\ Place(lines', nrow', ncol') = p + 1
          \/ p > 0 /\ now = RemoveAt(was, p) /\ Place(lines', nrow', ncol') = p - 1
          \/ p < Len(was) /\ now = RemoveAt(was, p + 1) /\ Place(lines', nrow', ncol') = p]_nanoVars

\* Whatever the text is when it is written, opening the file again gives the
\* same lines (save, new).
SavedReloads == Load(Written) = lines
=============================================================================
