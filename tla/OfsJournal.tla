----------------------------- MODULE OfsJournal -----------------------------
(***************************************************************************)
(* The write-ahead journal of OFS, the on-disk file system of vfs-server   *)
(* (src/user/vfs-server/src/blockfs.rs): write_blk, read_blk, commit_txn,  *)
(* journal_replay and the mount that runs it.                              *)
(*                                                                         *)
(* Every block write is one request to the driver and one step.  It may    *)
(* fail, leaving the block as it was.  A crash loses the memory of         *)
(* vfs-server between any two steps, replay included.                      *)
(***************************************************************************)
EXTENDS Naturals, Sequences

CONSTANTS
  Blocks,       \* block numbers outside the journal, without block 0
  Values,       \* contents of a block
  NoValue,      \* "no entry" in the pending map
  JournalSlots, \* JOURNAL_SLOTS
  FailingWrites, \* the phases whose block writes may fail in this instance
  Crashes       \* {"never"}, or {"any"} if vfs-server may crash

ASSUME JournalAssumption ==
  /\ Blocks \subseteq Nat \ {0}
  /\ NoValue \notin Values
  /\ JournalSlots \in Nat \ {0}

VARIABLES
  disk,     \* the blocks outside the journal
  slots,    \* journal data blocks
  hdr,      \* journal header: committed flag and target list
  pending,  \* OfsState.pending
  pc,       \* where vfs-server is
  targets,  \* the targets of the commit or replay in progress, ascending
  k         \* the next slot or target to write

memVars == <<pending, pc, targets, k>>
vars == <<disk, slots, hdr, memVars>>

NoPending == [b \in Blocks |-> NoValue]
Headers == [committed : {"yes", "no"}, targets : Seq(Blocks)]
Cleared == [committed |-> "no", targets |-> <<>>]

Dirty == {b \in Blocks : pending[b] # NoValue}

\* s lists S in the order of BTreeMap::iter: each block once, ascending.
IsListing(s, S) ==
  /\ \A i \in 1..Len(s) : s[i] \in S
  /\ \A b \in S : \E i \in 1..Len(s) : s[i] = b
  /\ \A i, j \in 1..Len(s) : i < j => s[i] < s[j]

\* The lists commit_txn may see: one longer than the journal shows the bound.
Listings == UNION {[1..n -> Blocks] : n \in 1..(JournalSlots + 1)}

Init ==
  /\ disk \in [Blocks -> Values]
  /\ slots \in [1..JournalSlots -> Values]
  /\ hdr = Cleared
  /\ pending = NoPending
  /\ pc = "ready"
  /\ targets = <<>>
  /\ k = 1

\* The results a block write of a phase may have.
Results(phase) == IF phase \in FailingWrites THEN {"ok", "error"} ELSE {"ok"}

-----------------------------------------------------------------------------
(* Normal operation *)

\* Faulty variant: the disk block, whatever is pending.
ReadBlkUncached(b) == disk[b]

\* read_blk: the pending block or the disk block.
ReadBlk(b) == IF pending[b] # NoValue THEN pending[b] ELSE disk[b]

\* write_blk: only the pending map changes.
WriteBlk(b, v) ==
  /\ pc = "ready"
  /\ pending' = [pending EXCEPT ![b] = v]
  /\ UNCHANGED <<disk, slots, hdr, pc, targets, k>>

\* commit_txn, entry: with nothing pending, or more blocks pending than the
\* journal has slots, it returns at once; otherwise s lists the transaction.
CommitTxn(s) ==
  /\ pc = "ready" /\ Dirty # {}
  /\ IsListing(s, Dirty) /\ Len(s) <= JournalSlots
  /\ pc' = "slots" /\ targets' = s /\ k' = 1
  /\ UNCHANGED <<disk, slots, hdr, pending>>

\* A failed write makes commit_txn return false with pending as it is.
GiveUp ==
  /\ pc \in {"slots", "header", "commit", "apply"} \cap FailingWrites
  /\ pc' = "ready" /\ targets' = <<>> /\ k' = 1
  /\ UNCHANGED <<disk, slots, hdr, pending>>

\* Phase 1: one journal slot.
WriteSlot ==
  /\ pc = "slots"
  /\ slots' = [slots EXCEPT ![k] = pending[targets[k]]]
  /\ pc' = IF k = Len(targets) THEN "header" ELSE "slots"
  /\ k' = IF k = Len(targets) THEN 1 ELSE k + 1
  /\ UNCHANGED <<disk, hdr, pending, targets>>

\* Phase 2: header with committed = 0.
WriteHeader ==
  /\ pc = "header"
  /\ hdr' = [committed |-> "no", targets |-> targets]
  /\ pc' = "commit"
  /\ UNCHANGED <<disk, slots, pending, targets, k>>

\* Phase 3: the same header with committed = 1.
WriteCommit ==
  /\ pc = "commit"
  /\ hdr' = [committed |-> "yes", targets |-> targets]
  /\ pc' = "apply"
  /\ UNCHANGED <<disk, slots, pending, targets, k>>

\* Phase 4: one block to its place.
ApplyBlock ==
  /\ pc = "apply"
  /\ disk' = [disk EXCEPT ![targets[k]] = pending[targets[k]]]
  /\ pc' = IF k = Len(targets) THEN "clear" ELSE "apply"
  /\ k' = IF k = Len(targets) THEN 1 ELSE k + 1
  /\ UNCHANGED <<slots, hdr, pending, targets>>

\* Phase 5: clear the header; the result of this write is ignored.
ClearJournal ==
  /\ pc = "clear"
  /\ \E result \in Results("clear") : hdr' = IF result = "ok" THEN Cleared ELSE hdr
  /\ pending' = NoPending
  /\ pc' = "ready" /\ targets' = <<>> /\ k' = 1
  /\ UNCHANGED <<disk, slots>>

-----------------------------------------------------------------------------
(* Crash, mount and replay *)

Crash ==
  /\ "any" \in Crashes
  /\ pc' = "down"
  /\ pending' = NoPending /\ targets' = <<>> /\ k' = 1
  /\ UNCHANGED <<disk, slots, hdr>>

\* OfsState::new up to the header checks of journal_replay.
Mount ==
  /\ pc = "down"
  /\ IF hdr.committed = "yes" /\ hdr.targets # <<>>
     THEN pc' = "replay" /\ targets' = hdr.targets
     ELSE pc' = "ready" /\ UNCHANGED targets
  /\ UNCHANGED <<disk, slots, hdr, pending, k>>

\* Faulty variant: replay stops one entry early.
ReplayBlockShort ==
  /\ pc = "replay"
  /\ disk' = IF k < Len(targets)
             THEN [disk EXCEPT ![targets[k]] = slots[k]] ELSE disk
  /\ pc' = IF k = Len(targets) THEN "replayed" ELSE "replay"
  /\ k' = IF k = Len(targets) THEN 1 ELSE k + 1
  /\ UNCHANGED <<slots, hdr, pending, targets>>

\* One entry of the replay loop; a failed read or write is skipped.
ReplayBlock ==
  /\ pc = "replay"
  /\ \E result \in Results("replay") :
       disk' = IF result = "ok" THEN [disk EXCEPT ![targets[k]] = slots[k]] ELSE disk
  /\ pc' = IF k = Len(targets) THEN "replayed" ELSE "replay"
  /\ k' = IF k = Len(targets) THEN 1 ELSE k + 1
  /\ UNCHANGED <<slots, hdr, pending, targets>>

FinishReplay ==
  /\ pc = "replayed"
  /\ \E result \in Results("replayed") : hdr' = IF result = "ok" THEN Cleared ELSE hdr
  /\ pc' = "ready" /\ targets' = <<>>
  /\ UNCHANGED <<disk, slots, pending, k>>

Next ==
  \/ \E b \in Blocks, v \in Values : WriteBlk(b, v)
  \/ \E s \in Listings : CommitTxn(s)
  \/ WriteSlot \/ WriteHeader \/ WriteCommit \/ ApplyBlock \/ ClearJournal
  \/ GiveUp \/ Crash \/ Mount \/ ReplayBlock \/ FinishReplay

Spec == Init /\ [][Next]_vars

-----------------------------------------------------------------------------
(* Properties *)

Places == {"ready", "slots", "header", "commit", "apply", "clear",
           "down", "replay", "replayed"}

\* Every variable keeps its type; a commit in progress never has more targets
\* than journal slots.
TypeOK ==
  /\ disk \in [Blocks -> Values]
  /\ slots \in [1..JournalSlots -> Values]
  /\ hdr \in Headers /\ Len(hdr.targets) <= JournalSlots
  /\ pending \in [Blocks -> Values \cup {NoValue}]
  /\ pc \in Places
  /\ targets \in Seq(Blocks) /\ Len(targets) <= JournalSlots
  /\ k \in 1..JournalSlots

\* The contents a mount would end up with: the disk, with a committed
\* journal on top.
Journalled(b) ==
  IF \E i \in 1..Len(hdr.targets) : hdr.targets[i] = b
  THEN slots[CHOOSE i \in 1..Len(hdr.targets) : hdr.targets[i] = b]
  ELSE disk[b]

Logical == IF hdr.committed = "yes" THEN [b \in Blocks |-> Journalled(b)] ELSE disk

\* The updates a crash would lose: none once the commit marker is on disk.
Volatile == IF pc \in {"apply", "clear"} THEN NoPending ELSE pending

\* The journal implements an atomic store: a crash at any point, also in the
\* middle of replay, leaves either all or none of a transaction.
Store == INSTANCE AtomicStore WITH store <- Logical, buffer <- Volatile
AtomicCommit == Store!Spec

\* Reads see the caller's own writes and nothing else: at any point of a
\* commit, and after one that failed, read_blk returns the committed contents
\* with the uncommitted updates on top.
ReadsAreCurrent ==
  pc \notin {"down", "replay", "replayed"} =>
    \A b \in Blocks : ReadBlk(b) = Store!Overlay(Logical, Volatile)[b]

\* "On mount, OFS replays any committed-but-not-applied journal entry"
\* (docs/architecture/vfs.md): while the header on disk says committed, the
\* slots it covers keep the data they were committed with.
CommittedJournalKept ==
  [][hdr.committed = "yes" /\ hdr'.committed = "yes"
       => \A i \in 1..Len(hdr.targets) : slots'[i] = slots[i]]_vars
=============================================================================
