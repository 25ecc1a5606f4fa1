---------------------------- MODULE AtomicStore ----------------------------
(***************************************************************************)
(* What a journalled block store promises: updates collect in a buffer, a  *)
(* commit moves the whole buffer to the store in one step, a crash loses   *)
(* the buffer and nothing else.                                            *)
(***************************************************************************)
CONSTANTS Blocks, Values, NoValue

VARIABLES
  store,   \* durable contents
  buffer   \* updates not yet committed, NoValue where there is none

vars == <<store, buffer>>

Empty == [b \in Blocks |-> NoValue]

\* The store as seen through a buffer of updates.
Overlay(base, upd) ==
  [b \in Blocks |-> IF upd[b] = NoValue THEN base[b] ELSE upd[b]]

Init == store \in [Blocks -> Values] /\ buffer = Empty

Update(b, v) == buffer' = [buffer EXCEPT ![b] = v] /\ UNCHANGED store

Commit == store' = Overlay(store, buffer) /\ buffer' = Empty

Crash == buffer' = Empty /\ UNCHANGED store

Next == (\E b \in Blocks, v \in Values : Update(b, v)) \/ Commit \/ Crash

Spec == Init /\ [][Next]_vars
=============================================================================
