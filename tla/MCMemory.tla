------------------------------ MODULE MCMemory ------------------------------
(* TLC instances of Memory: up to three processes, two pages, four to thirteen frames. *)
EXTENDS Memory

Bit == {0, 1}

Program(born, frames, pages, one, two, three) ==
  [born |-> born, frames |-> frames, pages |-> pages, calls |-> <<one, two, three>>]

\* What may run together.  A process in no role but born, or that nothing can
\* create, only takes its frame.
MCPrograms == {
  Program({1}, 7, {0}, {"store", "fork"}, {"store"}, {}),
  Program({1, 3}, 8, {0}, {"store", "fork", "unmap"}, {"load", "store", "exit"}, {}),
  Program({1, 3}, 8, {0, 1}, {"store", "fork", "waitpid"}, {"exit"}, {}),
  Program({1}, 4, {0}, {"store", "clone"}, {"store", "exit"}, {}),
  Program({1, 2}, 8, {0}, {"store", "block"}, {"pmclone", "datacopy", "reply"}, {"store"}),
  Program({1, 2}, 8, {0}, {"store", "block"}, {"pmclone", "reply", "pmreap"}, {"store", "exit"}),
  Program({1}, 5, {0}, {"load", "store", "thread", "exit"}, {"store", "load", "exit"}, {}),
  Program({1, 3}, 5, {0, 1}, {"store", "thread"}, {"load", "exit"}, {}),
  Program({1, 3}, 13, {0}, {"thread", "waitpid"}, {"store", "exec", "exit"}, {}),
  Program({1, 3}, 13, {0}, {"store", "thread", "exec", "waitpid"}, {"exit"}, {}),
  Program({1, 2}, 5, {0, 1}, {"store", "stop", "exit"}, {"vmo", "vmoclose", "waitpid"}, {}),
  Program({1, 2}, 6, {0}, {"store", "fork", "stop"}, {"vmo"}, {}),
  Program({1}, 6, {0, 1}, {"vmo", "vmomap", "unmap", "store"}, {}, {}) }
=============================================================================
