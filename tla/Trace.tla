-------------------------------- MODULE Trace --------------------------------
(***************************************************************************)
(* Trace points: src/src/trace.rs.  Programs are loaded and attached while *)
(* harts fire the trace point and a reader copies the ring.  A program is  *)
(* the set of the contexts for which it returns 1: the bytecode is not     *)
(* modelled.  A context is the number of the fire it belongs to; in the    *)
(* ring it takes a header cell, 0 - number, and RecordLen cells.           *)
(***************************************************************************)
EXTENDS Integers, FiniteSets, SequencesExt

CONSTANTS
  TraceHarts, TracePrograms,
  MaxProgs,     \* MAX_PROG_ID
  RingSize, RecordLen,
  PosRange,     \* the write position is a number below PosRange
  MaxFires

ASSUME TraceAssumption ==
  /\ RingSize \in Nat \ {0} /\ RecordLen \in Nat \ {0}
  /\ PosRange \in Nat \ {0} /\ PosRange % RingSize = 0

VARIABLES
  progs,     \* loaded programs, by id
  attached,  \* ids attached to the trace point, in order
  ring,      \* [cells, pos]
  firing,    \* per hart: [ctx, left], the programs still to run
  fires,     \* number of fires
  log        \* history: every cell ever written to the ring

traceVars == <<progs, attached, ring, firing, fires, log>>

TraceInit ==
  /\ progs = <<>> /\ attached = <<>> /\ fires = 0 /\ log = <<>>
  /\ ring = [cells |-> [i \in 0..RingSize - 1 |-> 0], pos |-> 0]
  /\ firing = [h \in TraceHarts |-> [ctx |-> 0, left |-> <<>>]]

\* sys_trace_load takes the first free slot; none is ever freed.
TraceLoad(p) ==
  /\ Len(progs) < MaxProgs
  /\ progs' = Append(progs, p)
  /\ UNCHANGED <<attached, ring, firing, fires, log>>

TraceAttach(id) ==
  /\ id \in 1..Len(progs)
  /\ attached' = IF Contains(attached, id) THEN attached ELSE Append(attached, id)
  /\ UNCHANGED <<progs, ring, firing, fires, log>>

\* fire: the attached programs are collected under the lock, then run
\* without it; each that returns 1 takes the lock for its record.
Fire(h) ==
  /\ firing[h].left = <<>> /\ fires < MaxFires
  /\ fires' = fires + 1
  /\ firing' = [firing EXCEPT ![h] =
       [ctx |-> fires + 1, left |-> [i \in DOMAIN attached |-> progs[attached[i]]]]]
  /\ UNCHANGED <<progs, attached, ring, log>>

Record(ctx) == <<0 - ctx>> \o [i \in 1..RecordLen |-> ctx]

RingPush(r, record) ==
  [cells |-> [i \in 0..RingSize - 1 |->
     LET at == {k \in DOMAIN record : (r.pos + k - 1) % RingSize = i}
     IN IF at = {} THEN r.cells[i] ELSE record[Max(at)]],
   pos |-> (r.pos + Len(record)) % PosRange]

RunProgram(h) ==
  LET f == firing[h] IN
  /\ f.left # <<>>
  /\ firing' = [firing EXCEPT ![h] =
       [ctx |-> IF Len(f.left) = 1 THEN 0 ELSE f.ctx, left |-> Tail(f.left)]]
  /\ IF f.ctx \in Head(f.left)
     THEN ring' = RingPush(ring, Record(f.ctx)) /\ log' = log \o Record(f.ctx)
     ELSE UNCHANGED <<ring, log>>
  /\ UNCHANGED <<progs, attached, fires>>

\* sys_trace_read: the last avail cells before the write position, in two
\* parts when they wrap.
TraceRead(len) ==
  LET avail == Min({len, RingSize})
      start == (ring.pos + PosRange - avail) % RingSize
      first == IF start + avail <= RingSize THEN avail ELSE RingSize - start
  IN [k \in 1..avail |-> IF k <= first THEN ring.cells[start + k - 1]
                         ELSE ring.cells[k - first - 1]]

TraceStep ==
  \/ \E p \in TracePrograms : TraceLoad(p)
  \/ \E id \in 1..MaxProgs : TraceAttach(id)
  \/ \E h \in TraceHarts : Fire(h) \/ RunProgram(h)

-----------------------------------------------------------------------------
\* A read of any length returns the end of everything the trace points wrote,
\* after zeros while the ring is not full, however the harts interleaved and
\* wherever the ring and its position wrapped (ring_push, sys_trace_read).
TraceReadsTail ==
  \A len \in 1..RingSize + 1 :
    LET all   == [i \in 1..RingSize |-> 0] \o log
        avail == Min({len, RingSize})
    IN TraceRead(len) = SubSeq(all, Len(all) - avail + 1, Len(all))

\* One fire leaves at most one record per loaded program that selects its
\* context, also when the program is attached again meanwhile (fire works on
\* a copy of the attachments, sys_trace_attach looks for the id first).
OneRecordPerProgram ==
  \A c \in 1..fires :
    Cardinality({i \in DOMAIN log : log[i] = 0 - c})
      <= Cardinality({id \in DOMAIN progs : c \in progs[id]})
=============================================================================
