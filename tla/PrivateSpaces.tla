--------------------------- MODULE PrivateSpaces ---------------------------
(***************************************************************************)
(* What virtual memory promises its users: every process lives in an       *)
(* address space that is a memory of its own, shared by threads only.  A   *)
(* write changes one page of one space, a fork copies a space, an exec     *)
(* moves its process to a blank one.  Pages of a memory object are marked  *)
(* Shared and their contents are not spoken of.                            *)
(***************************************************************************)
EXTENDS Naturals

CONSTANTS Users, Spaces, Pages, Values, Shared, Gone

VARIABLES
  home,       \* the space of each process, or Gone
  from,       \* the space a process that is being made is copied from, or Gone
  mem         \* what each space holds, or Gone when nobody lives there

Blank == [pg \in Pages |-> 0]

Init ==
  /\ home \in [Users -> Spaces \cup {Gone}] /\ from = [p \in Users |-> Gone]
  /\ mem = [s \in Spaces |-> IF \E p \in Users : home[p] = s THEN Blank ELSE Gone]

\* The steps, from contents m to contents n.
Write(m, n, s, pg, x) == m[s] # Gone /\ m[s][pg] # Shared /\ n = [m EXCEPT ![s][pg] = x]

MapShared(m, n, s, pg) == m[s] # Gone /\ m[s][pg] = 0 /\ n = [m EXCEPT ![s][pg] = Shared]

Discard(m, n, s, pg) == m[s] # Gone /\ n = [m EXCEPT ![s][pg] = 0]

Thread(m, n, p, c) ==
  /\ home[p] # Gone /\ home[c] = Gone /\ from[c] = Gone
  /\ home' = [home EXCEPT ![c] = home[p]] /\ n = m /\ UNCHANGED from

\* A fork takes time and may come to nothing.
StartFork(m, n, c, s) ==
  /\ home[c] = Gone /\ from[c] = Gone /\ m[s] # Gone
  /\ from' = [from EXCEPT ![c] = s] /\ n = m /\ UNCHANGED home

GiveUpFork(m, n, c) == from[c] # Gone /\ from' = [from EXCEPT ![c] = Gone] /\ n = m /\ UNCHANGED home

Fork(m, n, c, t) ==
  /\ from[c] # Gone /\ m[t] = Gone
  /\ home' = [home EXCEPT ![c] = t] /\ from' = [from EXCEPT ![c] = Gone]
  /\ n = [m EXCEPT ![t] = m[from[c]]]

\* A space without p is there for its other threads only.
Without(m, p) ==
  IF \E q \in Users \ {p} : home[q] = home[p] THEN m ELSE [m EXCEPT ![home[p]] = Gone]

Replace(m, n, p, t) ==
  /\ home[p] # Gone /\ m[t] = Gone
  /\ home' = [home EXCEPT ![p] = t]
  /\ n = [Without(m, p) EXCEPT ![t] = Blank]
  /\ UNCHANGED from

Leave(m, n, p) ==
  home[p] # Gone /\ home' = [home EXCEPT ![p] = Gone] /\ n = Without(m, p) /\ UNCHANGED from

Next ==
  \E m \in {mem}, n \in {mem'} :
     \/ /\ <<home, from>>' # <<home, from>>
        /\ \E p \in Users : \/ Leave(m, n, p) \/ GiveUpFork(m, n, p)
                            \/ \E c \in Users : Thread(m, n, p, c)
                            \/ \E t \in Spaces : Replace(m, n, p, t) \/ StartFork(m, n, p, t) \/ Fork(m, n, p, t)
     \/ /\ m # n /\ UNCHANGED <<home, from>>
        /\ \E s \in Spaces, pg \in Pages :
              \/ MapShared(m, n, s, pg) \/ Discard(m, n, s, pg)
              \/ \E x \in Values : Write(m, n, s, pg, x)

Spec == Init /\ [][Next]_<<home, from, mem>>
=============================================================================
