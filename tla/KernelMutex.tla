----------------------------- MODULE KernelMutex -----------------------------
(***************************************************************************)
(* The lock of the kernel's shared state (src/src/sync.rs): a spin lock    *)
(* with the hart that owns it on the side, so that a hart that asks for a  *)
(* lock it holds panics instead of waiting for itself.  The other modules  *)
(* take what runs under a lock as one step; this one has every access to   *)
(* the two words of a lock as a step of its own.  No step of an interrupt  *)
(* comes between them: the kernel enables interrupts only around wfi.      *)
(* spin::Mutex is external: a word, taken atomically.                      *)
(***************************************************************************)
EXTENDS Integers

CONSTANTS
  LockHarts,  \* values of tp
  MaxHarts    \* MAX_HARTS

\* The harts that are started are the ones that have a stack (smp.rs).
ASSUME HartsAssumption == MaxHarts \in Nat \ {0} /\ LockHarts \subseteq 0..MaxHarts - 1

VARIABLES
  inner,  \* the spin lock: the hart that has it, or NoHart
  owner,  \* the owner field
  where   \* where each hart is in its use of the lock

lockVars == <<inner, owner, where>>

NoHart == -1   \* stands for usize::MAX

LockInit == inner = NoHart /\ owner = NoHart /\ where = [h \in LockHarts |-> "out"]

LockTypeOK ==
  /\ inner \in LockHarts \cup {NoHart} /\ owner \in 0..MaxHarts - 1 \cup {NoHart}
  /\ where \in [LockHarts -> {"out", "spin", "try", "taken", "held", "drop", "panic"}]

-----------------------------------------------------------------------------
\* current_hartid
HartId(h) == IF h < MaxHarts - 1 THEN h ELSE MaxHarts - 1

Go(h, to) == where' = [where EXCEPT ![h] = to]

\* lock up to the spin lock, from code that may hold the lock already.
Lock(h) ==
  /\ where[h] \in {"out", "held"}
  /\ IF owner = HartId(h) THEN Go(h, "panic") ELSE Go(h, "spin")
  /\ UNCHANGED <<inner, owner>>

SpinLock(h) ==
  /\ where[h] = "spin" /\ inner = NoHart
  /\ inner' = h /\ Go(h, "taken")
  /\ UNCHANGED owner

\* try_lock
TryLock(h) ==
  /\ where[h] \in {"out", "held"} /\ owner # HartId(h)
  /\ Go(h, "try") /\ UNCHANGED <<inner, owner>>

SpinTryLock(h) ==
  /\ where[h] = "try"
  /\ IF inner = NoHart THEN inner' = h /\ Go(h, "taken") ELSE Go(h, "out") /\ UNCHANGED inner
  /\ UNCHANGED owner

SetOwner(h) ==
  /\ where[h] = "taken"
  /\ owner' = HartId(h) /\ Go(h, "held")
  /\ UNCHANGED inner

\* Faulty variant: the owner is not reset.
DropGuardKeepsOwner(h) == where[h] = "held" /\ Go(h, "drop") /\ UNCHANGED <<inner, owner>>

\* Drop of MutexGuard: its body, then the spin lock's guard in it.
DropGuard(h) ==
  /\ where[h] = "held"
  /\ owner' = NoHart /\ Go(h, "drop")
  /\ UNCHANGED inner

DropInner(h) ==
  /\ where[h] = "drop"
  /\ inner' = NoHart /\ Go(h, "out")
  /\ UNCHANGED owner

LockStep ==
  \E h \in LockHarts :
    Lock(h) \/ SpinLock(h) \/ TryLock(h) \/ SpinTryLock(h) \/ SetOwner(h) \/ DropGuard(h) \/ DropInner(h)

LockSpec == LockInit /\ [][LockStep]_lockVars

-----------------------------------------------------------------------------
\* The hart has the spin lock.
Has(h) == where[h] \in {"taken", "held", "drop", "panic"}

\* The lock excludes, and its deadlock report is right both ways: only a hart
\* that holds the lock panics in lock, and a hart that holds it never spins on
\* it (the owner check of lock, and the order of the two writes in the drop).
OnlyRecursionPanics ==
  \A h \in LockHarts :
    /\ Has(h) => inner = h
    /\ where[h] = "spin" => inner # h

=============================================================================
