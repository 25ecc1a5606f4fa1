-------------------------- MODULE OfsJournalProofs --------------------------
(***************************************************************************)
(* Theorems about OfsJournal, for every set of blocks and values and every *)
(* journal size: type correctness whatever block writes fail, and, when    *)
(* block writes do not fail, that the journal implements AtomicStore.      *)
(***************************************************************************)
EXTENDS OfsJournal, TLAPS

InCommit == {"slots", "header", "commit", "apply", "clear"}

\* The index of the commit or replay in progress stays within its targets,
\* and the targets of a commit list the pending blocks.
ProgressInv ==
  /\ pc \in InCommit => IsListing(targets, Dirty) /\ targets # <<>>
  /\ pc \in {"slots", "apply", "replay"} => k \in 1..Len(targets)
  /\ pc \notin {"slots", "apply", "replay"} => k = 1
  /\ hdr.committed = "yes" => hdr.targets # <<>>

Inv == TypeOK /\ ProgressInv

LEMMA InitInv == Init => Inv
<1> SUFFICES ASSUME Init PROVE Inv
  OBVIOUS
<1> USE DEF Init
<1>1. TypeOK
  <2>1. Cleared \in Headers /\ Len(Cleared.targets) = 0
    BY DEF Cleared, Headers
  <2>2. NoPending \in [Blocks -> Values \cup {NoValue}]
    BY DEF NoPending
  <2>3. 1 \in 1..JournalSlots
    BY JournalAssumption
  <2> QED BY <2>1, <2>2, <2>3, JournalAssumption DEF TypeOK, Places
<1>2. ProgressInv
  BY DEF ProgressInv, InCommit, Cleared
<1> QED BY <1>1, <1>2 DEF Inv

\* What a listing of the pending blocks gives a commit.
LEMMA ListedAreDirty ==
  ASSUME Inv, pc \in InCommit, NEW i \in 1..Len(targets)
  PROVE  /\ targets[i] \in Blocks
         /\ pending[targets[i]] \in Values
         /\ pending[targets[i]] # NoValue
<1>1. targets[i] \in Blocks
  BY DEF Inv, TypeOK
<1>2. targets[i] \in Dirty
  BY DEF Inv, ProgressInv, IsListing
<1>3. pending[targets[i]] # NoValue
  BY <1>2 DEF Dirty
<1>4. pending[targets[i]] \in Values \cup {NoValue}
  BY <1>1 DEF Inv, TypeOK
<1> QED BY <1>1, <1>3, <1>4

LEMMA NextInv == Inv /\ [Next]_vars => Inv'
<1> SUFFICES ASSUME Inv, [Next]_vars PROVE Inv'
  OBVIOUS
<1>0. Cleared \in Headers /\ Len(Cleared.targets) = 0 /\ Cleared.committed = "no"
  BY DEF Cleared, Headers
<1>n. NoPending \in [Blocks -> Values \cup {NoValue}]
  BY DEF NoPending
<1>j. JournalSlots \in Nat /\ 1 \in 1..JournalSlots
  BY JournalAssumption
<1>1. ASSUME NEW b \in Blocks, NEW v \in Values, WriteBlk(b, v) PROVE Inv'
  <2>1. pending' \in [Blocks -> Values \cup {NoValue}]
    BY <1>1 DEF WriteBlk, Inv, TypeOK
  <2>2. TypeOK'
    BY <1>1, <2>1 DEF WriteBlk, Inv, TypeOK
  <2>3. ProgressInv'
    BY <1>1 DEF WriteBlk, Inv, ProgressInv, InCommit
  <2> QED BY <2>2, <2>3 DEF Inv
<1>2. ASSUME NEW s \in Listings, CommitTxn(s) PROVE Inv'
  <2>1. s \in Seq(Blocks)
    BY <1>2 DEF Listings
  <2>2. Len(s) <= JournalSlots
    BY <1>2 DEF CommitTxn
  <2>3. TypeOK'
    BY <1>2, <2>1, <2>2, <1>j DEF CommitTxn, Inv, TypeOK, Places
  <2>4. Dirty' = Dirty
    BY <1>2 DEF CommitTxn, Dirty
  <2>5. PICK b \in Dirty : TRUE
    BY <1>2 DEF CommitTxn
  <2>6. PICK i \in 1..Len(s) : s[i] = b
    BY <1>2, <2>5 DEF CommitTxn, IsListing
  <2>7. s # <<>> /\ 1 \in 1..Len(s)
    BY <2>1, <2>6
  <2>8. ProgressInv'
    BY <1>2, <2>4, <2>7 DEF CommitTxn, Inv, ProgressInv, InCommit, IsListing
  <2> QED BY <2>3, <2>8 DEF Inv
<1>3. CASE GiveUp
  <2>1. TypeOK'
    BY <1>3, <1>j DEF GiveUp, Inv, TypeOK, Places
  <2>2. ProgressInv'
    BY <1>3 DEF GiveUp, Inv, ProgressInv, InCommit
  <2> QED BY <2>1, <2>2 DEF Inv
<1>4. CASE WriteSlot
  <2>1. k \in 1..Len(targets) /\ k \in 1..JournalSlots
    BY <1>4 DEF WriteSlot, Inv, TypeOK, ProgressInv
  <2>2. pending[targets[k]] \in Values
    BY <1>4, <2>1, ListedAreDirty DEF WriteSlot, InCommit
  <2>3. slots' \in [1..JournalSlots -> Values]
    BY <1>4, <2>2 DEF WriteSlot, Inv, TypeOK
  <2>4. k' \in 1..JournalSlots
    BY <1>4, <2>1, <1>j DEF WriteSlot, Inv, TypeOK
  <2>5. TypeOK'
    BY <1>4, <2>3, <2>4 DEF WriteSlot, Inv, TypeOK, Places
  <2>6. Dirty' = Dirty
    BY <1>4 DEF WriteSlot, Dirty
  <2>7. ProgressInv'
    BY <1>4, <2>1, <2>6 DEF WriteSlot, Inv, ProgressInv, InCommit, TypeOK, IsListing
  <2> QED BY <2>5, <2>7 DEF Inv
<1>5. CASE WriteHeader
  <2>1. hdr' \in Headers /\ hdr'.targets = targets /\ hdr'.committed = "no"
    BY <1>5 DEF WriteHeader, Inv, TypeOK, Headers
  <2>2. TypeOK'
    BY <1>5, <2>1 DEF WriteHeader, Inv, TypeOK, Places
  <2>3. Dirty' = Dirty
    BY <1>5 DEF WriteHeader, Dirty
  <2>4. ProgressInv'
    BY <1>5, <2>1, <2>3 DEF WriteHeader, Inv, ProgressInv, InCommit, IsListing
  <2> QED BY <2>2, <2>4 DEF Inv
<1>6. CASE WriteCommit
  <2>1. hdr' \in Headers /\ hdr'.targets = targets
    BY <1>6 DEF WriteCommit, Inv, TypeOK, Headers
  <2>2. TypeOK'
    BY <1>6, <2>1 DEF WriteCommit, Inv, TypeOK, Places
  <2>3. Dirty' = Dirty
    BY <1>6 DEF WriteCommit, Dirty
  <2>4. targets # <<>> /\ k = 1 /\ 1 \in 1..Len(targets)
    BY <1>6 DEF WriteCommit, Inv, ProgressInv, InCommit, TypeOK
  <2>5. ProgressInv'
    BY <1>6, <2>1, <2>3, <2>4 DEF WriteCommit, Inv, ProgressInv, InCommit, IsListing
  <2> QED BY <2>2, <2>5 DEF Inv
<1>7. CASE ApplyBlock
  <2>1. k \in 1..Len(targets) /\ k \in 1..JournalSlots
    BY <1>7 DEF ApplyBlock, Inv, TypeOK, ProgressInv
  <2>2. pending[targets[k]] \in Values
    BY <1>7, <2>1, ListedAreDirty DEF ApplyBlock, InCommit
  <2>3. disk' \in [Blocks -> Values]
    BY <1>7, <2>2 DEF ApplyBlock, Inv, TypeOK
  <2>4. k' \in 1..JournalSlots
    BY <1>7, <2>1, <1>j DEF ApplyBlock, Inv, TypeOK
  <2>5. TypeOK'
    BY <1>7, <2>3, <2>4 DEF ApplyBlock, Inv, TypeOK, Places
  <2>6. Dirty' = Dirty
    BY <1>7 DEF ApplyBlock, Dirty
  <2>7. ProgressInv'
    BY <1>7, <2>1, <2>6 DEF ApplyBlock, Inv, ProgressInv, InCommit, TypeOK, IsListing
  <2> QED BY <2>5, <2>7 DEF Inv
<1>8. CASE ClearJournal
  <2>1. hdr' \in {hdr, Cleared}
    BY <1>8 DEF ClearJournal
  <2>2. TypeOK'
    BY <1>8, <2>1, <1>0, <1>n, <1>j DEF ClearJournal, Inv, TypeOK, Places
  <2>3. ProgressInv'
    BY <1>8, <2>1, <1>0 DEF ClearJournal, Inv, ProgressInv, InCommit
  <2> QED BY <2>2, <2>3 DEF Inv
<1>9. CASE Crash
  <2>1. TypeOK'
    BY <1>9, <1>n, <1>j DEF Crash, Inv, TypeOK, Places
  <2>2. ProgressInv'
    BY <1>9 DEF Crash, Inv, ProgressInv, InCommit
  <2> QED BY <2>1, <2>2 DEF Inv
<1>10. CASE Mount
  <2>1. TypeOK'
    BY <1>10 DEF Mount, Inv, TypeOK, Places, Headers
  <2>2. k = 1
    BY <1>10 DEF Mount, Inv, ProgressInv
  <2>3. hdr.targets # <<>> => 1 \in 1..Len(hdr.targets)
    BY DEF Inv, TypeOK, Headers
  <2>4. ProgressInv'
    BY <1>10, <2>2, <2>3 DEF Mount, Inv, ProgressInv, InCommit
  <2> QED BY <2>1, <2>4 DEF Inv
<1>11. CASE ReplayBlock
  <2>1. k \in 1..Len(targets) /\ k \in 1..JournalSlots
    BY <1>11 DEF ReplayBlock, Inv, TypeOK, ProgressInv
  <2>2. slots[k] \in Values
    BY <2>1 DEF Inv, TypeOK
  <2>3. disk' \in [Blocks -> Values]
    BY <1>11, <2>2 DEF ReplayBlock, Inv, TypeOK
  <2>4. k' \in 1..JournalSlots
    BY <1>11, <2>1, <1>j DEF ReplayBlock, Inv, TypeOK
  <2>5. TypeOK'
    BY <1>11, <2>3, <2>4 DEF ReplayBlock, Inv, TypeOK, Places
  <2>6. ProgressInv'
    BY <1>11, <2>1 DEF ReplayBlock, Inv, ProgressInv, InCommit, TypeOK
  <2> QED BY <2>5, <2>6 DEF Inv
<1>12. CASE FinishReplay
  <2>1. hdr' \in {hdr, Cleared}
    BY <1>12 DEF FinishReplay
  <2>2. TypeOK'
    BY <1>12, <2>1, <1>0, <1>j DEF FinishReplay, Inv, TypeOK, Places
  <2>3. ProgressInv'
    BY <1>12, <2>1, <1>0 DEF FinishReplay, Inv, ProgressInv, InCommit
  <2> QED BY <2>2, <2>3 DEF Inv
<1>13. CASE UNCHANGED vars
  <2>1. TypeOK'
    BY <1>13 DEF vars, memVars, Inv, TypeOK
  <2>2. Dirty' = Dirty
    BY <1>13 DEF vars, memVars, Dirty
  <2>3. ProgressInv'
    BY <1>13, <2>2 DEF vars, memVars, Inv, ProgressInv, IsListing
  <2> QED BY <2>1, <2>3 DEF Inv
<1> QED BY <1>1, <1>2, <1>3, <1>4, <1>5, <1>6, <1>7, <1>8, <1>9, <1>10,
           <1>11, <1>12, <1>13 DEF Next

\* Whatever block writes fail and wherever vfs-server crashes, every variable
\* of the journal keeps its type: commit_txn never indexes past its slots.
THEOREM TypeCorrect == Spec => []TypeOK
<1>1. Inv => TypeOK
  BY DEF Inv
<1> QED BY InitInv, NextInv, <1>1, PTL DEF Spec

-----------------------------------------------------------------------------
(* Atomicity, when block writes do not fail *)

Distinct(s) == \A i, j \in 1..Len(s) : s[i] = s[j] => i = j

\* How far the commit or the replay in progress has come on disk.
JournalInv ==
  /\ pc \in {"ready", "slots", "header", "commit"} => hdr.committed = "no"
  /\ pc \in {"apply", "clear", "replay", "replayed"}
       => hdr.committed = "yes" /\ targets = hdr.targets
  /\ hdr.committed = "yes" => Distinct(hdr.targets)
  /\ pc = "slots" => \A i \in 1..(k - 1) : slots[i] = pending[targets[i]]
  /\ pc \in {"header", "commit", "apply", "clear"}
       => \A i \in 1..Len(targets) : slots[i] = pending[targets[i]]
  /\ pc \in {"apply", "replay"} => \A i \in 1..(k - 1) : disk[targets[i]] = slots[i]
  /\ pc \in {"clear", "replayed"} => \A i \in 1..Len(targets) : disk[targets[i]] = slots[i]
  /\ pc \in {"down", "replay", "replayed"} => pending = NoPending

LEMMA ListingDistinct ==
  ASSUME NEW s \in Seq(Blocks), NEW S, IsListing(s, S)
  PROVE  Distinct(s)
<1> SUFFICES ASSUME NEW i \in 1..Len(s), NEW j \in 1..Len(s), s[i] = s[j]
             PROVE  i = j
  BY DEF Distinct
<1>1. s[i] \in Nat /\ s[j] \in Nat
  <2>1. s[i] \in Blocks /\ s[j] \in Blocks
    OBVIOUS
  <2> QED BY <2>1, JournalAssumption
<1>2. i < j => s[i] < s[j]
  BY DEF IsListing
<1>3. j < i => s[j] < s[i]
  BY DEF IsListing
<1> QED BY <1>1, <1>2, <1>3

LEMMA InitJournal == Init => JournalInv
BY DEF Init, JournalInv, Cleared

LEMMA NextJournal ==
  ASSUME FailingWrites \subseteq {"slots", "header", "commit"}
  PROVE  Inv /\ JournalInv /\ [Next]_vars => JournalInv'
<1> SUFFICES ASSUME Inv, JournalInv, [Next]_vars PROVE JournalInv'
  OBVIOUS
<1>c. Cleared.committed = "no"
  BY DEF Cleared
<1>k. k \in Nat /\ Len(targets) \in Nat /\ JournalSlots \in Nat /\ Len(targets) <= JournalSlots
  BY JournalAssumption DEF Inv, TypeOK
<1>1. ASSUME NEW b \in Blocks, NEW v \in Values, WriteBlk(b, v) PROVE JournalInv'
  BY <1>1 DEF WriteBlk, JournalInv
<1>2. ASSUME NEW s \in Listings, CommitTxn(s) PROVE JournalInv'
  BY <1>2 DEF CommitTxn, JournalInv
<1>3. CASE GiveUp
  BY <1>3 DEF GiveUp, JournalInv
<1>4. CASE WriteSlot
  <2>1. k \in 1..Len(targets) /\ k \in 1..JournalSlots
    BY <1>4 DEF WriteSlot, Inv, TypeOK, ProgressInv
  <2>2. \A i \in 1..JournalSlots :
          slots'[i] = IF i = k THEN pending[targets[k]] ELSE slots[i]
    BY <1>4, <2>1 DEF WriteSlot, Inv, TypeOK
  <2>3. \A i \in 1..k : slots'[i] = pending[targets[i]]
    BY <1>4, <1>k, <2>1, <2>2 DEF WriteSlot, JournalInv
  <2>4. CASE k = Len(targets)
    BY <1>4, <2>3, <2>4 DEF WriteSlot, JournalInv
  <2>5. CASE k # Len(targets)
    BY <1>4, <1>k, <2>3, <2>5 DEF WriteSlot, JournalInv
  <2> QED BY <2>4, <2>5
<1>5. CASE WriteHeader
  BY <1>5 DEF WriteHeader, JournalInv
<1>6. CASE WriteCommit
  <2>1. Distinct(targets)
    BY <1>6, ListingDistinct DEF WriteCommit, Inv, TypeOK, ProgressInv, InCommit
  <2>2. k = 1
    BY <1>6 DEF WriteCommit, Inv, ProgressInv
  <2>3. hdr'.committed = "yes" /\ hdr'.targets = targets
    BY <1>6 DEF WriteCommit
  <2> QED BY <1>6, <2>1, <2>2, <2>3 DEF WriteCommit, JournalInv, Distinct
<1>7. CASE ApplyBlock
  <2>1. k \in 1..Len(targets)
    BY <1>7 DEF ApplyBlock, Inv, ProgressInv
  <2>2. Distinct(targets) /\ \A i \in 1..Len(targets) : targets[i] \in Blocks
    BY <1>7 DEF ApplyBlock, JournalInv, Inv, TypeOK
  <2>3. \A i \in 1..Len(targets) :
          disk'[targets[i]] = IF i = k THEN pending[targets[k]] ELSE disk[targets[i]]
    BY <1>7, <2>1, <2>2 DEF ApplyBlock, Inv, TypeOK, Distinct
  <2>4. slots[k] = pending[targets[k]]
    BY <1>7, <2>1 DEF ApplyBlock, JournalInv
  <2>5. \A i \in 1..k : disk'[targets[i]] = slots[i]
    BY <1>7, <1>k, <2>1, <2>3, <2>4 DEF ApplyBlock, JournalInv
  <2>6. CASE k = Len(targets)
    BY <1>7, <2>5, <2>6 DEF ApplyBlock, JournalInv
  <2>7. CASE k # Len(targets)
    BY <1>7, <1>k, <2>5, <2>7 DEF ApplyBlock, JournalInv
  <2> QED BY <2>6, <2>7
<1>8. CASE ClearJournal
  <2>1. hdr' = Cleared
    BY <1>8 DEF ClearJournal, Results
  <2> QED BY <1>8, <1>c, <2>1 DEF ClearJournal, JournalInv
<1>9. CASE Crash
  BY <1>9 DEF Crash, JournalInv
<1>10. CASE Mount
  <2>1. k = 1
    BY <1>10 DEF Mount, Inv, ProgressInv
  <2>2. hdr.committed \in {"yes", "no"}
    BY DEF Inv, TypeOK, Headers
  <2>3. hdr.committed = "yes" => hdr.targets # <<>>
    BY DEF Inv, ProgressInv
  <2> QED BY <1>10, <2>1, <2>2, <2>3 DEF Mount, JournalInv
<1>11. CASE ReplayBlock
  <2>1. k \in 1..Len(targets)
    BY <1>11 DEF ReplayBlock, Inv, ProgressInv
  <2>2. Distinct(targets) /\ \A i \in 1..Len(targets) : targets[i] \in Blocks
    BY <1>11 DEF ReplayBlock, JournalInv, Inv, TypeOK
  <2>3. disk' = [disk EXCEPT ![targets[k]] = slots[k]]
    BY <1>11 DEF ReplayBlock, Results
  <2>4. \A i \in 1..Len(targets) :
          disk'[targets[i]] = IF i = k THEN slots[k] ELSE disk[targets[i]]
    BY <2>1, <2>2, <2>3 DEF Inv, TypeOK, Distinct
  <2>5. \A i \in 1..k : disk'[targets[i]] = slots[i]
    BY <1>11, <1>k, <2>1, <2>4 DEF ReplayBlock, JournalInv
  <2>6. CASE k = Len(targets)
    BY <1>11, <2>5, <2>6 DEF ReplayBlock, JournalInv
  <2>7. CASE k # Len(targets)
    BY <1>11, <1>k, <2>5, <2>7 DEF ReplayBlock, JournalInv
  <2> QED BY <2>6, <2>7
<1>12. CASE FinishReplay
  <2>1. hdr' = Cleared
    BY <1>12 DEF FinishReplay, Results
  <2> QED BY <1>12, <1>c, <2>1 DEF FinishReplay, JournalInv
<1>13. CASE UNCHANGED vars
  BY <1>13 DEF vars, memVars, JournalInv, Distinct, NoPending
<1> QED BY <1>1, <1>2, <1>3, <1>4, <1>5, <1>6, <1>7, <1>8, <1>9, <1>10,
           <1>11, <1>12, <1>13 DEF Next

\* The contents a mount recovers, block by block, under a committed header.
LEMMA RecoveredBlock ==
  ASSUME Inv, JournalInv, hdr.committed = "yes"
  PROVE  /\ \A i \in 1..Len(hdr.targets) : Journalled(hdr.targets[i]) = slots[i]
         /\ \A b \in Blocks : (\A i \in 1..Len(hdr.targets) : hdr.targets[i] # b)
                             => Journalled(b) = disk[b]
<1>1. ASSUME NEW i \in 1..Len(hdr.targets) PROVE Journalled(hdr.targets[i]) = slots[i]
  <2> DEFINE j == CHOOSE x \in 1..Len(hdr.targets) : hdr.targets[x] = hdr.targets[i]
  <2>1. j \in 1..Len(hdr.targets) /\ hdr.targets[j] = hdr.targets[i]
    OBVIOUS
  <2>2. j = i
    BY <2>1 DEF JournalInv, Distinct
  <2> QED BY <2>2 DEF Journalled
<1>2. ASSUME NEW b \in Blocks, \A i \in 1..Len(hdr.targets) : hdr.targets[i] # b
      PROVE  Journalled(b) = disk[b]
  BY <1>2 DEF Journalled
<1> QED BY <1>1, <1>2

\* Once every target is in its place the journal adds nothing to the disk.
LEMMA AppliedIsDisk ==
  ASSUME Inv, JournalInv, pc \in {"clear", "replayed"}
  PROVE  Logical = disk
<1>1. hdr.committed = "yes" /\ targets = hdr.targets
  BY DEF JournalInv
<1>2. ASSUME NEW b \in Blocks PROVE Journalled(b) = disk[b]
  <2>1. CASE \E i \in 1..Len(hdr.targets) : hdr.targets[i] = b
    <3>1. PICK i \in 1..Len(hdr.targets) : hdr.targets[i] = b
      BY <2>1
    <3>2. Journalled(b) = slots[i]
      BY <1>1, <3>1, RecoveredBlock
    <3>3. disk[b] = slots[i]
      BY <1>1, <3>1 DEF JournalInv
    <3> QED BY <3>2, <3>3
  <2>2. CASE \A i \in 1..Len(hdr.targets) : hdr.targets[i] # b
    BY <1>1, <2>2, RecoveredBlock
  <2> QED BY <2>1, <2>2
<1>3. Logical = [b \in Blocks |-> Journalled(b)]
  BY <1>1 DEF Logical
<1>4. disk = [b \in Blocks |-> disk[b]]
  BY DEF Inv, TypeOK
<1> QED BY <1>2, <1>3, <1>4

\* Writing a target in its place under a committed header changes nothing
\* that a mount would recover.
LEMMA ApplyKeepsLogical ==
  ASSUME Inv, JournalInv, Inv', JournalInv', hdr.committed = "yes", hdr' = hdr, slots' = slots,
         NEW i \in 1..Len(hdr.targets), NEW v, disk' = [disk EXCEPT ![hdr.targets[i]] = v]
  PROVE  Logical' = Logical
<1>1. ASSUME NEW b \in Blocks PROVE Journalled(b)' = Journalled(b)
  <2>1. CASE \E j \in 1..Len(hdr.targets) : hdr.targets[j] = b
    BY <2>1 DEF Journalled
  <2>2. CASE \A j \in 1..Len(hdr.targets) : hdr.targets[j] # b
    <3>1. disk'[b] = disk[b]
      BY <2>2 DEF Inv, TypeOK
    <3> QED BY <2>2, <3>1 DEF Journalled
  <2> QED BY <2>1, <2>2
<1>2. Logical = [b \in Blocks |-> Journalled(b)] /\ Logical' = [b \in Blocks |-> Journalled(b)']
  BY DEF Logical
<1> QED BY <1>1, <1>2

\* Writing the commit marker is the step that moves the whole transaction to
\* the store.
LEMMA MarkerCommits ==
  ASSUME Inv, JournalInv, Inv', JournalInv', WriteCommit
  PROVE  Logical' = Store!Overlay(Logical, pending)
<1>1. Logical = disk
  BY DEF WriteCommit, JournalInv, Logical
<1>2. hdr'.committed = "yes" /\ hdr'.targets = targets /\ slots' = slots /\ disk' = disk /\ targets' = targets
  BY DEF WriteCommit
<1>3. Logical' = [b \in Blocks |-> Journalled(b)']
  BY <1>2 DEF Logical
<1>4. ASSUME NEW b \in Blocks
      PROVE  Journalled(b)' = IF pending[b] = NoValue THEN disk[b] ELSE pending[b]
  <2>1. CASE \E i \in 1..Len(targets) : targets[i] = b
    <3>1. PICK i \in 1..Len(targets) : targets[i] = b
      BY <2>1
    <3> DEFINE j == CHOOSE x \in 1..Len(targets) : targets[x] = b
    <3>2. j \in 1..Len(targets) /\ targets[j] = b
      BY <3>1
    <3>3. Journalled(b)' = slots[j]
      BY <1>2, <2>1 DEF Journalled
    <3>4. slots[j] = pending[b]
      BY <3>2 DEF WriteCommit, JournalInv
    <3>5. pending[b] # NoValue
      BY <3>2, ListedAreDirty DEF WriteCommit, InCommit
    <3> HIDE DEF j
    <3> QED BY <3>3, <3>4, <3>5
  <2>2. CASE \A i \in 1..Len(targets) : targets[i] # b
    <3>1. b \notin Dirty
      BY <2>2 DEF WriteCommit, Inv, ProgressInv, InCommit, IsListing
    <3>2. pending[b] = NoValue
      BY <3>1 DEF Dirty
    <3>3. Journalled(b)' = disk[b]
      BY <1>2, <2>2 DEF Journalled
    <3> QED BY <3>2, <3>3
  <2> QED BY <2>1, <2>2
<1> QED BY <1>1, <1>3, <1>4 DEF Store!Overlay

LEMMA StepRefines ==
  ASSUME FailingWrites \subseteq {"slots", "header", "commit"}
  PROVE  Inv /\ Inv' /\ JournalInv /\ JournalInv' /\ [Next]_vars => [Store!Next]_(Store!vars)
<1> SUFFICES ASSUME Inv, Inv', JournalInv, JournalInv', [Next]_vars
             PROVE  Store!Next \/ (Logical' = Logical /\ Volatile' = Volatile)
  BY DEF Store!vars
<1>1. ASSUME NEW b \in Blocks, NEW v \in Values, WriteBlk(b, v) PROVE Store!Next
  <2>1. Logical' = Logical
    BY <1>1 DEF WriteBlk, JournalInv, Logical
  <2>2. Volatile = pending /\ Volatile' = pending'
    BY <1>1 DEF WriteBlk, Volatile
  <2>3. Store!Update(b, v)
    BY <1>1, <2>1, <2>2 DEF WriteBlk, Store!Update
  <2> QED BY <2>3 DEF Store!Next
<1>2. ASSUME NEW s \in Listings, CommitTxn(s) PROVE Logical' = Logical /\ Volatile' = Volatile
  BY <1>2 DEF CommitTxn, JournalInv, Logical, Volatile
<1>3. CASE GiveUp
  <2>1. Logical' = Logical
    BY <1>3 DEF GiveUp, Logical, Journalled
  <2>2. Volatile' = Volatile
    BY <1>3 DEF GiveUp, Volatile
  <2> QED BY <2>1, <2>2
<1>4. CASE WriteSlot
  <2>1. hdr.committed = "no" /\ hdr' = hdr /\ disk' = disk
    BY <1>4 DEF WriteSlot, JournalInv
  <2>2. Logical' = Logical
    BY <2>1 DEF Logical
  <2>3. Volatile' = Volatile
    BY <1>4 DEF WriteSlot, Volatile
  <2> QED BY <2>2, <2>3
<1>5. CASE WriteHeader
  <2>1. hdr.committed = "no" /\ hdr'.committed = "no" /\ disk' = disk
    BY <1>5 DEF WriteHeader, JournalInv
  <2>2. Logical' = Logical
    BY <2>1 DEF Logical
  <2>3. Volatile' = Volatile
    BY <1>5 DEF WriteHeader, Volatile
  <2> QED BY <2>2, <2>3
<1>6. CASE WriteCommit
  <2>1. Volatile = pending /\ Volatile' = NoPending
    BY <1>6 DEF WriteCommit, Volatile, NoPending
  <2>2. Store!Commit
    BY <1>6, <2>1, MarkerCommits DEF Store!Commit, Store!Empty, NoPending
  <2> QED BY <2>2 DEF Store!Next
<1>7. CASE ApplyBlock
  <2>1. hdr.committed = "yes" /\ targets = hdr.targets /\ k \in 1..Len(targets)
    BY <1>7 DEF ApplyBlock, JournalInv, Inv, ProgressInv
  <2>2. Logical' = Logical
    BY <1>7, <2>1, ApplyKeepsLogical DEF ApplyBlock
  <2>3. Volatile' = Volatile
    BY <1>7 DEF ApplyBlock, Volatile, NoPending
  <2> QED BY <2>2, <2>3
<1>8. CASE ClearJournal
  <2>1. hdr' = Cleared
    BY <1>8 DEF ClearJournal, Results
  <2>2. Logical' = disk
    BY <1>8, <2>1 DEF ClearJournal, Logical, Cleared
  <2>3. Logical = disk
    BY <1>8, AppliedIsDisk DEF ClearJournal
  <2>4. Volatile' = Volatile
    BY <1>8 DEF ClearJournal, Volatile, NoPending
  <2> QED BY <2>2, <2>3, <2>4
<1>9. CASE Crash
  <2>1. Logical' = Logical
    BY <1>9 DEF Crash, Logical, Journalled
  <2>2. Volatile' = NoPending
    BY <1>9 DEF Crash, Volatile, NoPending
  <2>3. Store!Crash
    BY <2>1, <2>2 DEF Store!Crash, Store!Empty, NoPending
  <2> QED BY <2>3 DEF Store!Next
<1>10. CASE Mount
  <2>1. Logical' = Logical
    BY <1>10 DEF Mount, Logical, Journalled
  <2>2. Volatile' = Volatile
    BY <1>10 DEF Mount, Volatile
  <2> QED BY <2>1, <2>2
<1>11. CASE ReplayBlock
  <2>1. hdr.committed = "yes" /\ targets = hdr.targets /\ k \in 1..Len(targets)
    BY <1>11 DEF ReplayBlock, JournalInv, Inv, ProgressInv
  <2>2. disk' = [disk EXCEPT ![targets[k]] = slots[k]]
    BY <1>11 DEF ReplayBlock, Results
  <2>3. Logical' = Logical
    BY <1>11, <2>1, <2>2, ApplyKeepsLogical DEF ReplayBlock
  <2>4. Volatile' = Volatile
    BY <1>11 DEF ReplayBlock, Volatile
  <2> QED BY <2>3, <2>4
<1>12. CASE FinishReplay
  <2>1. hdr' = Cleared
    BY <1>12 DEF FinishReplay, Results
  <2>2. Logical' = disk
    BY <1>12, <2>1 DEF FinishReplay, Logical, Cleared
  <2>3. Logical = disk
    BY <1>12, AppliedIsDisk DEF FinishReplay
  <2>4. Volatile' = Volatile
    BY <1>12 DEF FinishReplay, Volatile
  <2> QED BY <2>2, <2>3, <2>4
<1>13. CASE UNCHANGED vars
  BY <1>13 DEF vars, memVars, Logical, Journalled, Volatile, NoPending
<1> QED BY <1>1, <1>2, <1>3, <1>4, <1>5, <1>6, <1>7, <1>8, <1>9, <1>10,
           <1>11, <1>12, <1>13 DEF Next

LEMMA InitRefines == Init => Store!Init
<1> SUFFICES ASSUME Init PROVE Store!Init
  OBVIOUS
<1>1. Logical = disk
  BY DEF Init, Logical, Cleared
<1>2. Volatile = NoPending
  BY DEF Init, Volatile
<1> QED BY <1>1, <1>2 DEF Init, Store!Init, Store!Empty, NoPending

\* commit_txn and journal_replay implement an atomic store: when no block write
\* fails after the commit marker is on disk, a crash at any point, also during replay, leaves all or
\* nothing of a transaction, for any number of blocks and journal slots.
THEOREM JournalIsAtomic ==
  ASSUME FailingWrites \subseteq {"slots", "header", "commit"}
  PROVE  Spec => AtomicCommit
<1>1. Inv /\ JournalInv /\ [Next]_vars => Inv' /\ JournalInv'
  BY NextInv, NextJournal
<1>2. Inv /\ JournalInv /\ [Next]_vars => [Store!Next]_(Store!vars)
  BY <1>1, StepRefines
<1> QED BY InitInv, InitJournal, InitRefines, <1>1, <1>2, PTL
        DEF Spec, AtomicCommit, Store!Spec

-----------------------------------------------------------------------------
(* What read_blk returns *)

LEMMA ReadsOverlay ==
  ASSUME Inv, JournalInv
  PROVE  ReadsAreCurrent
<1> SUFFICES ASSUME pc \notin {"down", "replay", "replayed"}, NEW b \in Blocks
             PROVE  ReadBlk(b) = Store!Overlay(Logical, Volatile)[b]
  BY Zenon DEF ReadsAreCurrent
<1>1. Store!Overlay(Logical, Volatile)[b] = IF Volatile[b] = NoValue THEN Logical[b] ELSE Volatile[b]
  BY DEF Store!Overlay
<1>2. CASE pc \in {"ready", "slots", "header", "commit"}
  <2>1. Logical = disk /\ Volatile = pending
    BY <1>2 DEF JournalInv, Logical, Volatile
  <2> QED BY <1>1, <2>1 DEF ReadBlk
<1>3. CASE pc \in {"apply", "clear"}
  <2>1. /\ hdr.committed = "yes" /\ targets = hdr.targets /\ IsListing(targets, Dirty)
        /\ \A i \in 1..Len(targets) : slots[i] = pending[targets[i]]
    BY <1>3 DEF JournalInv, Inv, ProgressInv, InCommit
  <2>2. Volatile[b] = NoValue /\ Logical[b] = Journalled(b)
    BY <1>3, <2>1 DEF Volatile, NoPending, Logical
  <2>3. CASE pending[b] # NoValue
    <3>1. \E i \in 1..Len(targets) : targets[i] = b
      BY <2>1, <2>3 DEF IsListing, Dirty
    <3>2. Journalled(b) = pending[b]
      BY <2>1, <3>1, Zenon DEF Journalled
    <3> QED BY <1>1, <2>2, <2>3, <3>2 DEF ReadBlk
  <2>4. CASE pending[b] = NoValue
    <3>1. ~\E i \in 1..Len(targets) : targets[i] = b
      BY <2>1, <2>4 DEF IsListing, Dirty
    <3>2. Journalled(b) = disk[b]
      BY <2>1, <3>1 DEF Journalled
    <3> QED BY <1>1, <2>2, <2>4, <3>2 DEF ReadBlk
  <2> QED BY <2>3, <2>4
<1> QED BY <1>2, <1>3 DEF Inv, TypeOK, Places

\* Reads see the caller's own writes and nothing else: at any point of a commit,
\* after one that failed and after a crash and a replay, read_blk returns the
\* committed contents with the uncommitted updates on top, for any number of
\* blocks and journal slots, when no block write fails after the commit marker
\* is on disk.
THEOREM ReadsAreRight ==
  ASSUME FailingWrites \subseteq {"slots", "header", "commit"}
  PROVE  Spec => []ReadsAreCurrent
<1>1. Inv /\ JournalInv /\ [Next]_vars => Inv' /\ JournalInv'
  BY NextInv, NextJournal
<1>2. Inv /\ JournalInv => ReadsAreCurrent
  BY ReadsOverlay
<1> QED BY InitInv, InitJournal, <1>1, <1>2, PTL DEF Spec
=============================================================================
