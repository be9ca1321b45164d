--------------------------- MODULE Stores_proof ----------------------------
(***************************************************************************)
(* Theorems about what the station keeps on its disk: the message store    *)
(* with its archives (MessageStore) and its own program (SelfUpdate), for  *)
(* any messages, purgers, files, releases and any number of crashes and    *)
(* runs; and about the four services of MCServices together.               *)
(***************************************************************************)
EXTENDS MCServices, Services_proof, TLAPS

-----------------------------------------------------------------------------
(* The message store.  Once a message has a line in a file, or was given   *)
(* up, it stays accounted for; the inductive invariant says of each step   *)
(* of a purge which of its messages already are.                           *)

RowStates == {"absent", "live", "restored"}

Purge == [pc: {"idle", "select", "archive", "delete", "commit"},
          cut: SUBSET StoredMessages, cutRestored: SUBSET StoredMessages, rows: SUBSET StoredMessages]

Restore == [pc: {"idle", "inserting"}, todo: SUBSET StoredMessages, some: BOOLEAN]

StoreShape ==
    /\ row \in [StoredMessages -> RowStates]
    /\ committed \in [StoredMessages -> RowStates]
    /\ old \in SUBSET StoredMessages
    /\ restoredOld \in SUBSET StoredMessages
    /\ \A m \in restoredOld : row[m] = "restored"
    /\ purge \in [Purgers -> Purge]
    /\ saving \in SUBSET StoredMessages
    /\ lines \in [StoredMessages -> 0 .. 2]
    /\ restoring \in Restore
    /\ kept \in SUBSET StoredMessages
    /\ givenUp \in SUBSET StoredMessages

\* Safe for good: in a file, or given up.
Accounted(m) == lines[m] > 0 \/ m \in givenUp

\* What was restored has its line.
RestoredAccounted ==
    \A m \in StoredMessages : row[m] = "restored" \/ committed[m] = "restored" => Accounted(m)

OldAccounted == \A m \in old : Accounted(m) \/ row[m] = "live"

PurgeAccounted ==
    \A p \in Purgers :
      /\ purge[p].pc = "select"  => \A m \in purge[p].cut : Accounted(m) \/ row[m] = "live"
      /\ purge[p].pc = "archive" => \A m \in purge[p].cut : Accounted(m) \/ m \in purge[p].rows
      /\ purge[p].pc = "delete"  => \A m \in purge[p].cut : Accounted(m)

RestoreAccounted == \A m \in restoring.todo : Accounted(m)

KeptAccounted == \A m \in kept : Accounted(m) \/ (row[m] = "live" /\ committed[m] = "live")

StoreInv ==
    /\ StoreShape
    /\ RestoredAccounted
    /\ OldAccounted
    /\ PurgeAccounted
    /\ RestoreAccounted
    /\ KeptAccounted

\* A purge's cutoff takes no message whose restoration is recent.
CutoffsRespectRestores ==
    \A p \in Purgers : \A m \in purge[p].cutRestored : row[m] = "restored" => m \in restoredOld

\* Messages are saved and grow old.
LEMMA SaveStep ==
    ASSUME StoreInv, NEW m \in StoredMessages,
           SaveExecuted(m) \/ SaveCommitted(m) \/ GrowsOld(m)
    PROVE  StoreInv'
  <1> USE DEF StoreInv, StoreShape, Accounted
  <1>1. CASE SaveExecuted(m)
    <2> USE <1>1 DEF SaveExecuted, Present
    <2>1. StoreShape'
      BY DEF RowStates, Purge, Restore
    <2>2. RestoredAccounted'
      BY DEF RestoredAccounted
    <2>3. OldAccounted'
      BY DEF OldAccounted
    <2>4. PurgeAccounted'
      BY DEF PurgeAccounted
    <2>5. RestoreAccounted'
      BY DEF RestoreAccounted
    <2>6. KeptAccounted'
      BY DEF KeptAccounted
    <2> QED BY <2>1, <2>2, <2>3, <2>4, <2>5, <2>6 DEF StoreInv
  <1>2. CASE SaveCommitted(m)
    <2> USE <1>2 DEF SaveCommitted, Commit, Present
    <2>1. StoreShape'
      BY DEF RowStates, Purge, Restore
    <2>2. RestoredAccounted'
      BY DEF RestoredAccounted
    <2>3. OldAccounted'
      BY DEF OldAccounted
    <2>4. PurgeAccounted'
      BY DEF PurgeAccounted
    <2>5. RestoreAccounted'
      BY DEF RestoreAccounted
    <2>6. KeptAccounted'
      BY DEF KeptAccounted, RestoredAccounted, RowStates
    <2> QED BY <2>1, <2>2, <2>3, <2>4, <2>5, <2>6 DEF StoreInv
  <1>3. CASE GrowsOld(m)
    <2> USE <1>3 DEF GrowsOld, Present
    <2>1. StoreShape'
      BY DEF RowStates, Purge, Restore
    <2>2. RestoredAccounted'
      BY DEF RestoredAccounted
    <2>3. OldAccounted'
      BY DEF OldAccounted, RestoredAccounted, RowStates
    <2>4. PurgeAccounted'
      BY DEF PurgeAccounted
    <2>5. RestoreAccounted'
      BY DEF RestoreAccounted
    <2>6. KeptAccounted'
      BY DEF KeptAccounted
    <2> QED BY <2>1, <2>2, <2>3, <2>4, <2>5, <2>6 DEF StoreInv
  <1> QED BY <1>1, <1>2, <1>3

\* A purge takes its cutoff, selects, writes the file, deletes, commits.
LEMMA PurgeStep ==
    ASSUME StoreInv, NEW p \in Purgers,
           PurgeBegins(p) \/ PurgeSelects(p) \/ PurgeArchives(p) \/ PurgeDeletes(p) \/ PurgeCommits(p)
    PROVE  StoreInv'
  <1> USE DEF StoreInv, StoreShape, Accounted
  <1>1. CASE PurgeBegins(p)
    <2> USE <1>1 DEF PurgeBegins
    <2>0. /\ purge[p] \in Purge /\ purge'[p] \in Purge
          /\ purge'[p].pc = "select" /\ purge'[p].cut = old
          /\ purge' = [purge EXCEPT ![p] = purge'[p]]
      BY DEF Purge, NoPurge
    <2>1. StoreShape'
      BY <2>0 DEF RowStates
    <2>2. RestoredAccounted'
      BY DEF RestoredAccounted
    <2>3. OldAccounted'
      BY DEF OldAccounted
    <2>4. PurgeAccounted'
      BY <2>0 DEF PurgeAccounted, OldAccounted
    <2>5. RestoreAccounted'
      BY DEF RestoreAccounted
    <2>6. KeptAccounted'
      BY DEF KeptAccounted
    <2> QED BY <2>1, <2>2, <2>3, <2>4, <2>5, <2>6 DEF StoreInv
  <1>2. CASE PurgeSelects(p)
    <2> USE <1>2 DEF PurgeSelects, Live
    <2>0. /\ purge[p] \in Purge /\ purge'[p] \in Purge
          /\ purge'[p].pc = "archive" /\ purge'[p].cut = purge[p].cut /\ purge'[p].rows = purge[p].cut \intersect Live
          /\ purge' = [purge EXCEPT ![p] = purge'[p]]
      BY DEF Purge, NoPurge
    <2>1. StoreShape'
      BY <2>0 DEF RowStates
    <2>2. RestoredAccounted'
      BY DEF RestoredAccounted
    <2>3. OldAccounted'
      BY DEF OldAccounted
    <2>4. PurgeAccounted'
      BY <2>0 DEF PurgeAccounted, Purge
    <2>5. RestoreAccounted'
      BY DEF RestoreAccounted
    <2>6. KeptAccounted'
      BY DEF KeptAccounted
    <2> QED BY <2>1, <2>2, <2>3, <2>4, <2>5, <2>6 DEF StoreInv
  <1>3. CASE PurgeArchives(p)
    <2> USE <1>3 DEF PurgeArchives
    <2>0. /\ purge[p] \in Purge /\ purge'[p] \in Purge
          /\ purge'[p].pc = "delete" /\ purge'[p].cut = purge[p].cut
          /\ purge' = [purge EXCEPT ![p] = purge'[p]]
      BY DEF Purge, NoPurge
    <2>1. PICK written \in SUBSET purge[p].rows :
               /\ lines' = [m \in StoredMessages |->
                               IF m \in written /\ lines[m] < 2 THEN lines[m] + 1 ELSE lines[m]]
               /\ givenUp' = givenUp \union {m \in purge[p].rows \ written : lines[m] = 0}
      OBVIOUS
    <2>2. \A m \in StoredMessages : Accounted(m) => Accounted(m)'
      OBVIOUS
    <2>3. \A m \in purge[p].rows : Accounted(m)'
      BY <2>0, <2>1 DEF Purge
    <2>4. \A m \in purge[p].cut : Accounted(m)'
      BY <2>0, <2>2, <2>3 DEF Purge, PurgeAccounted
    <2>5. lines' \in [StoredMessages -> 0 .. 2] /\ givenUp' \in SUBSET StoredMessages
      BY <2>0, <2>1 DEF Purge
    <2>6. StoreShape'
      BY <2>0, <2>5 DEF RowStates
    <2>7. RestoredAccounted'
      BY <2>2 DEF RestoredAccounted
    <2>8. OldAccounted'
      BY <2>2 DEF OldAccounted
    <2>9. PurgeAccounted'
      BY <2>0, <2>2, <2>4 DEF PurgeAccounted, Purge
    <2>10. RestoreAccounted'
      BY <2>2 DEF RestoreAccounted, Restore
    <2>11. KeptAccounted'
      BY <2>2 DEF KeptAccounted
    <2> QED BY <2>6, <2>7, <2>8, <2>9, <2>10, <2>11 DEF StoreInv
  <1>4. CASE PurgeDeletes(p)
    <2> USE <1>4 DEF PurgeDeletes, Expired, CutOf
    <2>0. /\ purge[p] \in Purge /\ purge'[p] \in Purge
          /\ purge'[p].pc \in {"idle", "commit"}
          /\ purge' = [purge EXCEPT ![p] = purge'[p]]
      BY DEF Purge, NoPurge
    <2>1. StoreShape'
      BY <2>0 DEF RowStates
    <2>2. RestoredAccounted'
      BY DEF RestoredAccounted
    <2>3. OldAccounted'
      BY DEF OldAccounted, PurgeAccounted
    <2>4. PurgeAccounted'
      BY <2>0 DEF PurgeAccounted, Purge
    <2>5. RestoreAccounted'
      BY DEF RestoreAccounted
    <2>6. KeptAccounted'
      BY DEF KeptAccounted, PurgeAccounted
    <2> QED BY <2>1, <2>2, <2>3, <2>4, <2>5, <2>6 DEF StoreInv
  <1>5. CASE PurgeCommits(p)
    <2> USE <1>5 DEF PurgeCommits, Commit, Present
    <2>0. /\ purge[p] \in Purge /\ purge'[p] \in Purge
          /\ purge'[p].pc = "idle"
          /\ purge' = [purge EXCEPT ![p] = purge'[p]]
      BY DEF Purge, NoPurge
    <2>1. StoreShape'
      BY <2>0 DEF RowStates
    <2>2. RestoredAccounted'
      BY DEF RestoredAccounted
    <2>3. OldAccounted'
      BY DEF OldAccounted
    <2>4. PurgeAccounted'
      BY <2>0 DEF PurgeAccounted
    <2>5. RestoreAccounted'
      BY DEF RestoreAccounted
    <2>6. KeptAccounted'
      BY DEF KeptAccounted, RestoredAccounted, RowStates
    <2> QED BY <2>1, <2>2, <2>3, <2>4, <2>5, <2>6 DEF StoreInv
  <1> QED BY <1>1, <1>2, <1>3, <1>4, <1>5

\* One line of a file is inserted.
LEMMA RestoreStep ==
    ASSUME StoreInv, NEW m \in StoredMessages, RestoreInserts(m)
    PROVE  StoreInv'
  <1> USE DEF StoreInv, StoreShape, Accounted
  <1> USE DEF RestoreInserts
  <1>1. ASSUME NEW p \in Purgers
        PROVE  /\ purge'[p] \in Purge
               /\ purge'[p].pc = purge[p].pc /\ purge'[p].cut = purge[p].cut
               /\ purge'[p].rows = purge[p].rows
    <2>1. purge[p] \in Purge
      OBVIOUS
    <2>2. CASE row[m] = "absent"
      <3>1. purge'[p] = [purge[p] EXCEPT !.cutRestored = @ \ {m}]
        BY <2>2
      <3> QED BY <2>1, <3>1 DEF Purge
    <2> QED BY <2>1, <2>2
  <1>2. purge' \in [Purgers -> Purge]
    <2>1. CASE row[m] = "absent"
      <3>1. purge' = [p \in Purgers |-> [purge[p] EXCEPT !.cutRestored = @ \ {m}]]
        BY <2>1
      <3>2. purge' = [p \in Purgers |-> purge'[p]]
        BY <3>1
      <3> QED BY <1>1, <3>2
    <2> QED BY <2>1
  <1>3. restoring \in Restore /\ restoring' \in Restore /\ restoring'.todo = restoring.todo \ {m}
    <2>1. restoring' = IF row[m] = "absent" THEN [restoring EXCEPT !.todo = @ \ {m}, !.some = TRUE]
                                            ELSE [restoring EXCEPT !.todo = @ \ {m}]
      BY Zenon
    <2> QED BY <2>1 DEF Restore
  <1>4. /\ purge' \in [Purgers -> Purge]
        /\ \A p \in Purgers : /\ purge'[p].pc = purge[p].pc /\ purge'[p].cut = purge[p].cut
                               /\ purge'[p].rows = purge[p].rows
        /\ restoring' \in Restore /\ restoring'.todo = restoring.todo \ {m}
    BY <1>1, <1>2, <1>3
  <1>5. StoreShape'
    BY <1>4 DEF RowStates
  <1>6. RestoredAccounted'
    BY <1>4 DEF RestoredAccounted, RestoreAccounted
  <1>7. OldAccounted'
    BY <1>4 DEF OldAccounted
  <1>8. PurgeAccounted'
    BY <1>4 DEF PurgeAccounted, Purge
  <1>9. RestoreAccounted'
    BY <1>4 DEF RestoreAccounted
  <1>10. KeptAccounted'
    BY <1>4 DEF KeptAccounted
  <1> QED BY <1>5, <1>6, <1>7, <1>8, <1>9, <1>10 DEF StoreInv

\* A restore reads the files, and commits.
LEMMA RestoreBoundsStep ==
    ASSUME StoreInv, RestoreBegins \/ RestoreCommits
    PROVE  StoreInv'
  <1> USE DEF StoreInv, StoreShape, Accounted
  <1>1. CASE RestoreBegins
    <2> USE <1>1 DEF RestoreBegins
    <2>1. StoreShape'
      BY DEF RowStates, Purge, Restore
    <2>2. RestoredAccounted'
      BY DEF RestoredAccounted
    <2>3. OldAccounted'
      BY DEF OldAccounted
    <2>4. PurgeAccounted'
      BY DEF PurgeAccounted
    <2>5. RestoreAccounted'
      BY DEF RestoreAccounted, Restore
    <2>6. KeptAccounted'
      BY DEF KeptAccounted
    <2> QED BY <2>1, <2>2, <2>3, <2>4, <2>5, <2>6 DEF StoreInv
  <1>2. CASE RestoreCommits
    <2> USE <1>2 DEF RestoreCommits, Commit, Present, NoRestore
    <2>1. StoreShape'
      BY DEF RowStates, Purge, Restore
    <2>2. RestoredAccounted'
      BY DEF RestoredAccounted
    <2>3. OldAccounted'
      BY DEF OldAccounted
    <2>4. PurgeAccounted'
      BY DEF PurgeAccounted
    <2>5. RestoreAccounted'
      BY DEF RestoreAccounted
    <2>6. KeptAccounted'
      BY DEF KeptAccounted, RestoredAccounted, RowStates
    <2> QED BY <2>1, <2>2, <2>3, <2>4, <2>5, <2>6 DEF StoreInv
  <1> QED BY <1>1, <1>2

\* Files expire, the table is cleared, the process crashes.
LEMMA TableStep ==
    ASSUME StoreInv,
           ArchiveExpires \/ ClearMessages \/ StoreCrashes
    PROVE  StoreInv'
  <1> USE DEF StoreInv, StoreShape, Accounted
  <1>1. CASE ArchiveExpires
    <2> USE <1>1 DEF ArchiveExpires
    <2>0. \A m \in StoredMessages : Accounted(m) => Accounted(m)'
      OBVIOUS
    <2>1. StoreShape'
      BY <2>0 DEF RowStates, Purge, Restore
    <2>2. RestoredAccounted'
      BY <2>0 DEF RestoredAccounted
    <2>3. OldAccounted'
      BY <2>0 DEF OldAccounted
    <2>4. PurgeAccounted'
      BY <2>0 DEF PurgeAccounted, Purge
    <2>5. RestoreAccounted'
      BY <2>0 DEF RestoreAccounted, Restore
    <2>6. KeptAccounted'
      BY <2>0 DEF KeptAccounted
    <2> QED BY <2>1, <2>2, <2>3, <2>4, <2>5, <2>6 DEF StoreInv
  <1>2. CASE ClearMessages
    <2> USE <1>2 DEF ClearMessages, Present
    <2>1. StoreShape'
      BY DEF RowStates, Purge, Restore
    <2>2. RestoredAccounted'
      BY DEF RestoredAccounted
    <2>3. OldAccounted'
      BY DEF OldAccounted
    <2>4. PurgeAccounted'
      BY DEF PurgeAccounted, Purge
    <2>5. RestoreAccounted'
      BY DEF RestoreAccounted
    <2>6. KeptAccounted'
      BY DEF KeptAccounted
    <2> QED BY <2>1, <2>2, <2>3, <2>4, <2>5, <2>6 DEF StoreInv
  <1>3. CASE StoreCrashes
    <2> USE <1>3 DEF StoreCrashes, NoPurge, NoRestore
    <2>1. StoreShape'
      BY DEF RowStates, Purge, Restore
    <2>2. RestoredAccounted'
      BY DEF RestoredAccounted
    <2>3. OldAccounted'
      BY DEF OldAccounted, RestoredAccounted, KeptAccounted
    <2>4. PurgeAccounted'
      BY DEF PurgeAccounted, NoPurge
    <2>5. RestoreAccounted'
      BY DEF RestoreAccounted
    <2>6. KeptAccounted'
      BY DEF KeptAccounted
    <2> QED BY <2>1, <2>2, <2>3, <2>4, <2>5, <2>6 DEF StoreInv
  <1> QED BY <1>1, <1>2, <1>3

LEMMA StoreInvInit == StoreInit => StoreInv
  BY DEF StoreInit, StoreInv, StoreShape, RestoredAccounted, OldAccounted, PurgeAccounted,
         RestoreAccounted, KeptAccounted, NoPurge, NoRestore, RowStates, Purge, Restore

LEMMA StoreInvStep == StoreInv /\ [StoreNext]_storeVars => StoreInv'
  <1> SUFFICES ASSUME StoreInv, [StoreNext]_storeVars PROVE StoreInv'
    OBVIOUS
  <1>1. ASSUME NEW m \in StoredMessages,
               SaveExecuted(m) \/ SaveCommitted(m) \/ GrowsOld(m) \/ RestoreInserts(m)
        PROVE  StoreInv'
    BY <1>1, SaveStep, RestoreStep
  <1>2. ASSUME NEW p \in Purgers,
               PurgeBegins(p) \/ PurgeSelects(p) \/ PurgeArchives(p) \/ PurgeDeletes(p) \/ PurgeCommits(p)
        PROVE  StoreInv'
    BY <1>2, PurgeStep
  <1>3. CASE ArchiveExpires \/ ClearMessages \/ StoreCrashes
    BY <1>3, TableStep
  <1>4. CASE RestoreBegins \/ RestoreCommits
    BY <1>4, RestoreBoundsStep
  <1>5. CASE UNCHANGED storeVars
    BY <1>5 DEF storeVars, StoreInv, StoreShape, RestoredAccounted, OldAccounted, PurgeAccounted,
                RestoreAccounted, KeptAccounted, Accounted
  <1> QED BY <1>1, <1>2, <1>3, <1>4, <1>5 DEF StoreNext

LEMMA StoreInvAlways == StoreSpec => []StoreInv
  BY StoreInvInit, StoreInvStep, PTL DEF StoreSpec

\* The type invariant of the table, the files, the purges and the restore.
THEOREM StoreTypeCorrect == StoreSpec => []StoreTypeOK
  <1>1. StoreInv => StoreTypeOK
    BY DEF StoreInv, StoreShape, StoreTypeOK, RowStates, Purge, Restore
  <1> QED BY <1>1, StoreInvAlways, PTL

\* Whatever purges, restores and crashes overlap, a message that was committed
\* is in the table or in an archive file, but for what was given up.
THEOREM NoMessageLost == StoreSpec => []NothingLost
  <1>1. StoreInv => NothingLost
    BY DEF StoreInv, StoreShape, KeptAccounted, Accounted, NothingLost
  <1> QED BY <1>1, StoreInvAlways, PTL

-----------------------------------------------------------------------------
(* A restored message stays for its time.                                   *)

LEMMA CutoffsStep ==
    StoreInv /\ CutoffsRespectRestores /\ [StoreNext]_storeVars => CutoffsRespectRestores'
  <1> SUFFICES ASSUME StoreInv, CutoffsRespectRestores, [StoreNext]_storeVars,
                      NEW q \in Purgers, NEW k \in purge'[q].cutRestored, row'[k] = "restored"
               PROVE  k \in restoredOld'
    BY DEF CutoffsRespectRestores
  <1> USE DEF StoreInv, StoreShape, CutoffsRespectRestores, Purge
  <1>1. ASSUME NEW m \in StoredMessages, SaveExecuted(m) \/ SaveCommitted(m) \/ GrowsOld(m)
        PROVE  k \in restoredOld'
    BY <1>1 DEF SaveExecuted, SaveCommitted, GrowsOld, Present
  <1>2. ASSUME NEW p \in Purgers, PurgeBegins(p) \/ PurgeSelects(p) \/ PurgeArchives(p)
        PROVE  k \in restoredOld'
    <2>1. restoredOld' = restoredOld /\ row' = row
      BY <1>2 DEF PurgeBegins, PurgeSelects, PurgeArchives
    <2>2. k \in purge[q].cutRestored \/ k \in restoredOld
      BY <1>2 DEF PurgeBegins, PurgeSelects, PurgeArchives
    <2> QED BY <2>1, <2>2
  <1>3. ASSUME NEW p \in Purgers, PurgeDeletes(p) \/ PurgeCommits(p)
        PROVE  k \in restoredOld'
    <2>0. purge'[p].cutRestored = {} /\ (q # p => purge'[q] = purge[q])
      <3>1. CASE PurgeDeletes(p)
        BY <3>1 DEF PurgeDeletes, NoPurge
      <3>2. CASE PurgeCommits(p)
        BY <3>2 DEF PurgeCommits, NoPurge
      <3> QED BY <1>3, <3>1, <3>2
    <2>1. k \in purge[q].cutRestored /\ q # p
      BY <2>0
    <2>2. CASE PurgeDeletes(p)
      <3>1. k \in StoredMessages /\ k \notin Expired(p) /\ row[k] = "restored"
        BY <2>1, <2>2 DEF PurgeDeletes
      <3> QED BY <2>1, <2>2, <3>1 DEF PurgeDeletes
    <2>3. CASE PurgeCommits(p)
      BY <2>1, <2>3 DEF PurgeCommits
    <2> QED BY <1>3, <2>2, <2>3
  <1>4. ASSUME NEW m \in StoredMessages, RestoreInserts(m)
        PROVE  k \in restoredOld'
    <2>1. CASE row[m] = "absent"
      <3>1. purge'[q] = [purge[q] EXCEPT !.cutRestored = @ \ {m}]
        BY <1>4, <2>1 DEF RestoreInserts
      <3>2. k \in purge[q].cutRestored /\ k # m
        BY <3>1
      <3> QED BY <1>4, <2>1, <3>2 DEF RestoreInserts
    <2>2. CASE row[m] # "absent"
      BY <1>4, <2>2 DEF RestoreInserts
    <2> QED BY <2>1, <2>2
  <1>5. CASE RestoreBegins \/ RestoreCommits \/ ArchiveExpires
    BY <1>5 DEF RestoreBegins, RestoreCommits, ArchiveExpires
  <1>6. CASE ClearMessages \/ StoreCrashes
    BY <1>6 DEF ClearMessages, StoreCrashes, NoPurge
  <1>7. CASE UNCHANGED storeVars
    BY <1>7 DEF storeVars
  <1> QED BY <1>1, <1>2, <1>3, <1>4, <1>5, <1>6, <1>7 DEF StoreNext

\* No purge deletes a restored message before its restoration is older than
\* the retention, not even one that began before the restore.
THEOREM RestoredKept == StoreSpec => RestoredStay
  <1>1. StoreInit => CutoffsRespectRestores
    BY DEF StoreInit, CutoffsRespectRestores, NoPurge
  <1>2. ASSUME CutoffsRespectRestores
        PROVE  \A m \in StoredMessages, p \in Purgers :
                 PurgeDeletes(p) /\ row[m] = "restored" /\ row'[m] = "absent" => m \in restoredOld
    BY <1>2 DEF CutoffsRespectRestores, PurgeDeletes, Expired, CutOf
  <1> QED BY <1>1, <1>2, CutoffsStep, StoreInvAlways, PTL DEF StoreSpec, RestoredStay

-----------------------------------------------------------------------------
(* The self-update.  The invariant follows the one run that is at work:    *)
(* one is enough as start_update refuses while the flag is set, and the    *)
(* flag is cleared only when that run touches the tree no more.            *)

AtWork == {"download", "unpack", "copy", "remove", "sync"}

\* A run at work has the flag, and is alone.
OneAtWork ==
    /\ \A u \in Updates : update[u].pc \in AtWork => updating
    /\ \A u, w \in Updates : update[u].pc \in AtWork /\ update[w].pc \in AtWork => u = w

\* What is unpacked is a release.
KnownRelease ==
    \A u \in Updates :
       /\ update[u].pc = "unpack" => tarball \in 1 .. Releases
       /\ update[u].pc \in {"copy", "remove"} => update[u].release \in 1 .. Releases

\* The files a run has behind it are those of its release.
CopiedSoFar ==
    \A u \in Updates :
       /\ update[u].open \subseteq update[u].todo
       /\ update[u].pc = "copy" /\ ~update[u].failed =>
            \A f \in Ships[update[u].release] \ update[u].todo : tree[f] = update[u].release
       /\ update[u].pc = "remove" =>
            \A f \in Ships[update[u].release] : tree[f] = update[u].release

TreeInv == UpdateTypeOK /\ OneAtWork /\ KnownRelease /\ CopiedSoFar

\* Types.  The record of a run, and the values of a file.
RunRec == [pc : {"none", "download", "unpack", "copy", "remove", "sync", "restart"},
           release : 0 .. Releases, todo : SUBSET CodeFiles, open : SUBSET CodeFiles, failed : BOOLEAN]

LEMMA TypesAsRecords ==
    /\ UpdateTypeOK <=> /\ tip \in 1 .. Releases /\ label \in 1 .. Releases /\ tarball \in 0 .. Releases
                        /\ tree \in [CodeFiles -> -1 .. Releases] /\ updating \in BOOLEAN
                        /\ update \in [Updates -> RunRec]
    /\ UpdateTypeOK' <=> /\ tip' \in 1 .. Releases /\ label' \in 1 .. Releases /\ tarball' \in 0 .. Releases
                         /\ tree' \in [CodeFiles -> -1 .. Releases] /\ updating' \in BOOLEAN
                         /\ update' \in [Updates -> RunRec]
    BY Zenon DEF UpdateTypeOK, RunRec

LEMMA Ranges ==
    /\ \A n \in 1 .. Releases : n \in 0 .. Releases
    /\ \A n \in 0 .. Releases : n \in -1 .. Releases
    /\ 0 \in 0 .. Releases /\ Torn \in -1 .. Releases /\ 1 \in 1 .. Releases
    BY ReleasesAssumption, SMT DEF Torn

LEMMA NoUpdateIsRun == NoUpdate \in RunRec
    BY Ranges DEF NoUpdate, RunRec

LEMMA InitTreeInv == UpdateInit => TreeInv
<1> SUFFICES ASSUME UpdateInit PROVE TreeInv
    OBVIOUS
<1> USE ReleasesAssumption DEF UpdateInit
<1>1. UpdateTypeOK
  <2>1. update \in [Updates -> RunRec]
      BY NoUpdateIsRun
  <2>2. tree \in [CodeFiles -> -1 .. Releases]
      BY Ranges
  <2> QED
      BY <2>1, <2>2, Ranges, TypesAsRecords
<1>2. OneAtWork
    BY DEF OneAtWork, AtWork, NoUpdate
<1>3. KnownRelease
    BY DEF KnownRelease, NoUpdate
<1>4. CopiedSoFar
    BY DEF CopiedSoFar, NoUpdate
<1> QED
    BY <1>1, <1>2, <1>3, <1>4 DEF TreeInv

\* The runs keep their types: a run that fails is none, and the others change
\* a field to a value of its type.
LEMMA RunsStayTyped ==
    ASSUME update \in [Updates -> RunRec], NEW u \in Updates, NEW r \in RunRec,
           update' = [update EXCEPT ![u] = r]
    PROVE  update' \in [Updates -> RunRec]
    OBVIOUS

LEMMA RunFields ==
    ASSUME NEW r \in RunRec
    PROVE  /\ \A p \in {"none", "download", "unpack", "copy", "remove", "sync", "restart"} :
                 [r EXCEPT !.pc = p] \in RunRec
           /\ \A F \in SUBSET CodeFiles : [r EXCEPT !.open = F] \in RunRec
           /\ \A F, G \in SUBSET CodeFiles :
                 /\ [r EXCEPT !.open = F, !.todo = G] \in RunRec
                 /\ [r EXCEPT !.open = F, !.todo = G, !.failed = TRUE] \in RunRec
           /\ r.release \in 0 .. Releases /\ r.todo \subseteq CodeFiles /\ r.open \subseteq CodeFiles
    BY DEF RunRec

LEMMA StepTypes == UpdateTypeOK /\ KnownRelease /\ [UpdateNext]_updateVars => UpdateTypeOK'
<1> SUFFICES ASSUME UpdateTypeOK, KnownRelease, [UpdateNext]_updateVars
             PROVE  UpdateTypeOK'
    OBVIOUS
<1>a. /\ tip \in 1 .. Releases /\ label \in 1 .. Releases /\ tarball \in 0 .. Releases
      /\ tree \in [CodeFiles -> -1 .. Releases] /\ updating \in BOOLEAN
      /\ update \in [Updates -> RunRec]
    BY TypesAsRecords
<1>b. ASSUME NEW u \in Updates PROVE update[u] \in RunRec
    BY <1>a, <1>b
<1>c. ASSUME NEW u \in Updates, Fails(u)
      PROVE  update' \in [Updates -> RunRec] /\ updating' \in BOOLEAN
    BY <1>a, <1>c, NoUpdateIsRun, RunsStayTyped DEF Fails
<1>d. ASSUME NEW u \in Updates,
             NEW p \in {"none", "download", "unpack", "copy", "remove", "sync", "restart"},
             update' = [update EXCEPT ![u].pc = p]
      PROVE  update' \in [Updates -> RunRec]
  <2>1. [update[u] EXCEPT !.pc = p] \in RunRec
      BY <1>b, RunFields
  <2> QED
      BY <2>1, <1>a, <1>d
<1>1. ASSUME NEW u \in Updates, StartUpdate(u) PROVE UpdateTypeOK'
    BY <1>1, <1>a, <1>d, TypesAsRecords DEF StartUpdate
<1>2. ASSUME NEW u \in Updates, DownloadFails(u) PROVE UpdateTypeOK'
    BY <1>2, <1>a, <1>c, TypesAsRecords DEF DownloadFails
<1>3. ASSUME NEW u \in Updates, Downloaded(u) PROVE UpdateTypeOK'
    BY <1>3, <1>a, <1>d, Ranges, TypesAsRecords DEF Downloaded
<1>4. ASSUME NEW u \in Updates, Unpacks(u) PROVE UpdateTypeOK'
  <2>1. tarball \in 1 .. Releases /\ Ships[tarball] \subseteq CodeFiles
      BY <1>4, ReleasesAssumption DEF Unpacks, KnownRelease
  <2>2. [pc |-> "copy", release |-> tarball, todo |-> Ships[tarball], open |-> {}, failed |-> FALSE] \in RunRec
      BY <2>1, Ranges DEF RunRec
  <2> QED
      BY <1>4, <2>2, <1>a, RunsStayTyped, TypesAsRecords DEF Unpacks
<1>5. ASSUME NEW u \in Updates, NEW f \in CodeFiles, CopyOpens(u, f) PROVE UpdateTypeOK'
  <2>1. tree' \in [CodeFiles -> -1 .. Releases]
      BY <1>5, <1>a, Ranges DEF CopyOpens
  <2>2. [update[u] EXCEPT !.open = {f}] \in RunRec
      BY <1>b, RunFields
  <2>3. update' \in [Updates -> RunRec]
      BY <1>5, <2>2, <1>a DEF CopyOpens
  <2> QED
      BY <1>5, <2>1, <2>3, <1>a, TypesAsRecords DEF CopyOpens
<1>6. ASSUME NEW u \in Updates, NEW f \in CodeFiles, CopyCloses(u, f) PROVE UpdateTypeOK'
  <2>1. tree' \in [CodeFiles -> -1 .. Releases]
      BY <1>6, <1>a, <1>b, RunFields, Ranges DEF CopyCloses
  <2>2. [update[u] EXCEPT !.open = {}, !.todo = @ \ {f}] \in RunRec
    <3>1. update[u].todo \ {f} \in SUBSET CodeFiles
        BY <1>b, RunFields
    <3> QED
        BY <3>1, <1>b, RunFields
  <2>3. update' \in [Updates -> RunRec]
      BY <1>6, <2>2, <1>a DEF CopyCloses
  <2> QED
      BY <1>6, <2>1, <2>3, <1>a, TypesAsRecords DEF CopyCloses
<1>7. ASSUME NEW u \in Updates, NEW f \in CodeFiles, CopyMisses(u, f) PROVE UpdateTypeOK'
  <2>1. [update[u] EXCEPT !.open = {}, !.todo = @ \ {f}, !.failed = TRUE] \in RunRec
    <3>1. update[u].todo \ {f} \in SUBSET CodeFiles
        BY <1>b, RunFields
    <3> QED
        BY <3>1, <1>b, RunFields
  <2>2. update' \in [Updates -> RunRec]
      BY <1>7, <2>1, <1>a DEF CopyMisses
  <2> QED
      BY <1>7, <2>2, <1>a, TypesAsRecords DEF CopyMisses
<1>8. ASSUME NEW u \in Updates, CopyEnds(u) PROVE UpdateTypeOK'
  <2>1. CASE update[u].failed
      BY <1>8, <2>1, <1>a, <1>c, TypesAsRecords DEF CopyEnds
  <2>2. CASE ~update[u].failed
      BY <1>8, <2>2, <1>a, <1>d, TypesAsRecords DEF CopyEnds
  <2> QED
      BY <2>1, <2>2
<1>9. ASSUME NEW u \in Updates, NEW f \in CodeFiles, Removes(u, f) PROVE UpdateTypeOK'
    BY <1>9, <1>a, Ranges, TypesAsRecords DEF Removes
<1>10. ASSUME NEW u \in Updates, ApplyFails(u) PROVE UpdateTypeOK'
    BY <1>10, <1>a, <1>c, TypesAsRecords DEF ApplyFails
<1>11. ASSUME NEW u \in Updates, Relabels(u) PROVE UpdateTypeOK'
  <2>1. update[u].release \in 1 .. Releases
      BY <1>11 DEF Relabels, KnownRelease
  <2> QED
      BY <1>11, <2>1, <1>a, <1>d, TypesAsRecords DEF Relabels
<1>12. ASSUME NEW u \in Updates, SyncEnds(u) PROVE UpdateTypeOK'
    BY <1>12, <1>a, <1>d, TypesAsRecords DEF SyncEnds
<1>13. ASSUME NEW u \in Updates, RestartFails(u) PROVE UpdateTypeOK'
    BY <1>13, <1>a, NoUpdateIsRun, RunsStayTyped, TypesAsRecords DEF RestartFails
<1>14. CASE NewRelease
  <2>1. tip' \in 1 .. Releases
      BY <1>14, <1>a, ReleasesAssumption DEF NewRelease
  <2> QED
      BY <1>14, <2>1, <1>a, TypesAsRecords DEF NewRelease
<1>15. CASE ProcessEnds
    BY <1>15, <1>a, NoUpdateIsRun, TypesAsRecords DEF ProcessEnds
<1>16. CASE UNCHANGED updateVars
    BY <1>16, <1>a, TypesAsRecords DEF updateVars
<1> QED
    BY <1>1, <1>2, <1>3, <1>4, <1>5, <1>6, <1>7, <1>8, <1>9, <1>10, <1>11, <1>12, <1>13, <1>14,
       <1>15, <1>16 DEF UpdateNext

\* What a step does to the runs, as far as the other two invariants need it:
\* it moves one run u and leaves the others alone.
OnlyMoves(u) == \A w \in Updates \ {u} : update'[w] = update[w]

LEMMA OthersStay ==
    ASSUME UpdateTypeOK, NEW u \in Updates, NEW r, update' = [update EXCEPT ![u] = r]
    PROVE  OnlyMoves(u) /\ update'[u] = r
    BY DEF UpdateTypeOK, OnlyMoves

LEMMA StepOneAtWork == TreeInv /\ [UpdateNext]_updateVars => OneAtWork'
<1> SUFFICES ASSUME TreeInv, [UpdateNext]_updateVars PROVE OneAtWork'
    OBVIOUS
<1> USE DEF TreeInv, OneAtWork, AtWork, UpdateTypeOK
<1>1. ASSUME NEW u \in Updates, StartUpdate(u) PROVE OneAtWork'
    BY <1>1 DEF StartUpdate, Admits
<1>2. ASSUME NEW u \in Updates, DownloadFails(u) PROVE OneAtWork'
    BY <1>2 DEF DownloadFails, Fails, NoUpdate
<1>3. ASSUME NEW u \in Updates, Downloaded(u) PROVE OneAtWork'
    BY <1>3 DEF Downloaded
<1>4. ASSUME NEW u \in Updates, Unpacks(u) PROVE OneAtWork'
    BY <1>4 DEF Unpacks
<1>5. ASSUME NEW u \in Updates, NEW f \in CodeFiles, CopyOpens(u, f) PROVE OneAtWork'
    BY <1>5 DEF CopyOpens
<1>6. ASSUME NEW u \in Updates, NEW f \in CodeFiles, CopyCloses(u, f) PROVE OneAtWork'
    BY <1>6 DEF CopyCloses
<1>7. ASSUME NEW u \in Updates, NEW f \in CodeFiles, CopyMisses(u, f) PROVE OneAtWork'
    BY <1>7 DEF CopyMisses
<1>8. ASSUME NEW u \in Updates, CopyEnds(u) PROVE OneAtWork'
    BY <1>8 DEF CopyEnds, Fails, NoUpdate
<1>9. ASSUME NEW u \in Updates, NEW f \in CodeFiles, Removes(u, f) PROVE OneAtWork'
    BY <1>9 DEF Removes
<1>10. ASSUME NEW u \in Updates, ApplyFails(u) PROVE OneAtWork'
    BY <1>10 DEF ApplyFails, Fails, NoUpdate
<1>11. ASSUME NEW u \in Updates, Relabels(u) PROVE OneAtWork'
    BY <1>11 DEF Relabels
<1>12. ASSUME NEW u \in Updates, SyncEnds(u) PROVE OneAtWork'
    BY <1>12 DEF SyncEnds
<1>13. ASSUME NEW u \in Updates, RestartFails(u) PROVE OneAtWork'
    BY <1>13 DEF RestartFails, NoUpdate
<1>14. CASE NewRelease
    BY <1>14 DEF NewRelease
<1>15. CASE ProcessEnds
    BY <1>15 DEF ProcessEnds, NoUpdate
<1>16. CASE UNCHANGED updateVars
    BY <1>16 DEF updateVars
<1> QED
    BY <1>1, <1>2, <1>3, <1>4, <1>5, <1>6, <1>7, <1>8, <1>9, <1>10, <1>11, <1>12, <1>13, <1>14,
       <1>15, <1>16 DEF UpdateNext

LEMMA StepKnownRelease == TreeInv /\ [UpdateNext]_updateVars => KnownRelease'
<1> SUFFICES ASSUME TreeInv, [UpdateNext]_updateVars PROVE KnownRelease'
    OBVIOUS
<1>a. tip \in 1 .. Releases /\ update \in [Updates -> RunRec]
    BY TypesAsRecords DEF TreeInv
<1> USE DEF TreeInv, KnownRelease
<1>1. ASSUME NEW u \in Updates, StartUpdate(u) PROVE KnownRelease'
    BY <1>1, <1>a DEF StartUpdate, RunRec
<1>2. ASSUME NEW u \in Updates, DownloadFails(u) PROVE KnownRelease'
    BY <1>2, <1>a DEF DownloadFails, Fails, NoUpdate
<1>3. ASSUME NEW u \in Updates, Downloaded(u) PROVE KnownRelease'
    BY <1>3, <1>a DEF Downloaded, RunRec
<1>4. ASSUME NEW u \in Updates, Unpacks(u) PROVE KnownRelease'
    BY <1>4, <1>a DEF Unpacks
<1>5. ASSUME NEW u \in Updates, NEW f \in CodeFiles, CopyOpens(u, f) PROVE KnownRelease'
    BY <1>5, <1>a DEF CopyOpens, RunRec
<1>6. ASSUME NEW u \in Updates, NEW f \in CodeFiles, CopyCloses(u, f) PROVE KnownRelease'
    BY <1>6, <1>a DEF CopyCloses, RunRec
<1>7. ASSUME NEW u \in Updates, NEW f \in CodeFiles, CopyMisses(u, f) PROVE KnownRelease'
    BY <1>7, <1>a DEF CopyMisses, RunRec
<1>8. ASSUME NEW u \in Updates, CopyEnds(u) PROVE KnownRelease'
  <2>1. CASE update[u].failed
      BY <1>8, <2>1, <1>a DEF CopyEnds, Fails, NoUpdate
  <2>2. CASE ~update[u].failed
      BY <1>8, <2>2, <1>a DEF CopyEnds, RunRec
  <2> QED
      BY <2>1, <2>2
<1>9. ASSUME NEW u \in Updates, NEW f \in CodeFiles, Removes(u, f) PROVE KnownRelease'
    BY <1>9 DEF Removes
<1>10. ASSUME NEW u \in Updates, ApplyFails(u) PROVE KnownRelease'
    BY <1>10, <1>a DEF ApplyFails, Fails, NoUpdate
<1>11. ASSUME NEW u \in Updates, Relabels(u) PROVE KnownRelease'
    BY <1>11, <1>a DEF Relabels, RunRec
<1>12. ASSUME NEW u \in Updates, SyncEnds(u) PROVE KnownRelease'
    BY <1>12, <1>a DEF SyncEnds, RunRec
<1>13. ASSUME NEW u \in Updates, RestartFails(u) PROVE KnownRelease'
    BY <1>13, <1>a DEF RestartFails, NoUpdate
<1>14. CASE NewRelease
    BY <1>14 DEF NewRelease
<1>15. CASE ProcessEnds
    BY <1>15 DEF ProcessEnds, NoUpdate
<1>16. CASE UNCHANGED updateVars
    BY <1>16 DEF updateVars
<1> QED
    BY <1>1, <1>2, <1>3, <1>4, <1>5, <1>6, <1>7, <1>8, <1>9, <1>10, <1>11, <1>12, <1>13, <1>14,
       <1>15, <1>16 DEF UpdateNext

\* The record of a run that opened a file.
LEMMA OpenedRun ==
    ASSUME NEW r \in RunRec, NEW f, NEW s, s = [r EXCEPT !.open = {f}]
    PROVE  s.pc = r.pc /\ s.open = {f} /\ s.todo = r.todo /\ s.release = r.release /\ s.failed = r.failed
    BY DEF RunRec

\* Copying: the others that are at work have a record that does not change, and
\* where the tree changes no other run is at work.
Copied(u, r) ==
    /\ r[u].open \subseteq r[u].todo
    /\ r[u].pc = "copy" /\ ~r[u].failed => \A f \in Ships[r[u].release] \ r[u].todo : tree'[f] = r[u].release
    /\ r[u].pc = "remove" => \A f \in Ships[r[u].release] : tree'[f] = r[u].release

LEMMA StepCopiedSoFar == TreeInv /\ [UpdateNext]_updateVars => CopiedSoFar'
<1> SUFFICES ASSUME TreeInv, [UpdateNext]_updateVars PROVE CopiedSoFar'
    OBVIOUS
<1>a. /\ tree \in [CodeFiles -> -1 .. Releases] /\ update \in [Updates -> RunRec]
    BY TypesAsRecords DEF TreeInv
<1>b. SUFFICES \A w \in Updates : Copied(w, update')
    BY Zenon DEF CopiedSoFar, Copied
\* A run that does not move keeps what it had, when the tree keeps its files.
<1>c. ASSUME NEW w \in Updates, update'[w] = update[w], tree' = tree
      PROVE  Copied(w, update')
    BY <1>c DEF TreeInv, CopiedSoFar, Copied
<1>d. ASSUME NEW u \in Updates, OnlyMoves(u), tree' = tree, Copied(u, update')
      PROVE  \A w \in Updates : Copied(w, update')
    BY <1>c, <1>d DEF OnlyMoves
<1>e. ASSUME NEW u \in Updates, OnlyMoves(u), update[u].pc \in {"copy", "remove"}, Copied(u, update')
      PROVE  \A w \in Updates : Copied(w, update')
  <2> SUFFICES ASSUME NEW w \in Updates \ {u} PROVE Copied(w, update')
      BY <1>e
  <2>1. update'[w] = update[w] /\ update[w].pc \notin {"copy", "remove"}
      BY <1>e DEF OnlyMoves, TreeInv, OneAtWork, AtWork
  <2>2. update[w].open \subseteq update[w].todo
      BY DEF TreeInv, CopiedSoFar
  <2> QED
      BY <2>1, <2>2 DEF Copied
<1>f. ASSUME NEW u \in Updates, Fails(u) PROVE OnlyMoves(u) /\ update'[u] = NoUpdate
    BY <1>a, <1>f DEF Fails, OnlyMoves
<1>g. ASSUME NEW u \in Updates, update'[u] = NoUpdate PROVE Copied(u, update')
    BY <1>g DEF Copied, NoUpdate
<1>h. ASSUME NEW u \in Updates, NEW p \in {"none", "download", "unpack", "sync", "restart"},
             update' = [update EXCEPT ![u].pc = p]
      PROVE  OnlyMoves(u) /\ Copied(u, update')
  <2>1. OnlyMoves(u) /\ update'[u] = [update[u] EXCEPT !.pc = p]
      BY <1>a, <1>h DEF OnlyMoves
  <2>2. update[u].open \subseteq update[u].todo /\ update[u] \in RunRec
      BY <1>a DEF TreeInv, CopiedSoFar
  <2>3. update'[u].pc = p /\ update'[u].open = update[u].open /\ update'[u].todo = update[u].todo
      BY <2>1, <2>2 DEF RunRec
  <2> QED
      BY <2>1, <2>2, <2>3 DEF Copied
<1>1. ASSUME NEW u \in Updates, StartUpdate(u) PROVE \A w \in Updates : Copied(w, update')
    BY <1>1, <1>d, <1>h DEF StartUpdate
<1>2. ASSUME NEW u \in Updates, DownloadFails(u) PROVE \A w \in Updates : Copied(w, update')
    BY <1>2, <1>d, <1>f, <1>g DEF DownloadFails
<1>3. ASSUME NEW u \in Updates, Downloaded(u) PROVE \A w \in Updates : Copied(w, update')
    BY <1>3, <1>d, <1>h DEF Downloaded
<1>4. ASSUME NEW u \in Updates, Unpacks(u) PROVE \A w \in Updates : Copied(w, update')
  <2> DEFINE r == [pc |-> "copy", release |-> tarball, todo |-> Ships[tarball], open |-> {}, failed |-> FALSE]
  <2>1. OnlyMoves(u) /\ update'[u] = r
      BY <1>a, <1>4 DEF Unpacks, OnlyMoves
  <2>2. Copied(u, update')
      BY <2>1 DEF Copied
  <2>3. tree' = tree
      BY <1>4 DEF Unpacks
  <2> QED
      BY <2>1, <2>2, <2>3, <1>d
<1>5. ASSUME NEW u \in Updates, NEW f \in CodeFiles, CopyOpens(u, f)
      PROVE  \A w \in Updates : Copied(w, update')
  <2>1. /\ update[u].pc = "copy" /\ f \in update[u].todo
        /\ update' = [update EXCEPT ![u].open = {f}] /\ tree' = [tree EXCEPT ![f] = Torn]
      BY <1>5 DEF CopyOpens
  <2>2. OnlyMoves(u) /\ update'[u] = [update[u] EXCEPT !.open = {f}]
      BY <2>1, <1>a DEF OnlyMoves
  <2>3. update[u] \in RunRec
      BY <1>a
  <2>4. /\ update'[u].pc = "copy" /\ update'[u].open = {f} /\ update'[u].todo = update[u].todo
        /\ update'[u].release = update[u].release /\ update'[u].failed = update[u].failed
      BY <2>1, <2>2, <2>3, OpenedRun
  <2>5. \A g \in CodeFiles \ {f} : tree'[g] = tree[g]
      BY <2>1, <1>a
  <2>6. Ships[update[u].release] \subseteq CodeFiles
      BY <2>1, ReleasesAssumption DEF TreeInv, KnownRelease
  <2>7. ~update[u].failed => \A g \in Ships[update[u].release] \ update[u].todo : tree[g] = update[u].release
      BY <2>1 DEF TreeInv, CopiedSoFar
  <2>8. Copied(u, update')
      BY <2>1, <2>4, <2>5, <2>6, <2>7 DEF Copied
  <2> QED
      BY <2>1, <2>2, <2>8, <1>e
<1>6. ASSUME NEW u \in Updates, NEW f \in CodeFiles, CopyCloses(u, f)
      PROVE  \A w \in Updates : Copied(w, update')
  <2>1. /\ update[u].pc = "copy"
        /\ update' = [update EXCEPT ![u].open = {}, ![u].todo = @ \ {f}]
        /\ tree' = [tree EXCEPT ![f] = update[u].release]
      BY <1>6 DEF CopyCloses
  <2>2. OnlyMoves(u) /\ update'[u] = [update[u] EXCEPT !.open = {}, !.todo = update[u].todo \ {f}]
      BY <2>1, <1>a DEF OnlyMoves
  <2>3. update[u] \in RunRec
      BY <1>a
  <2>4. /\ update'[u].pc = "copy" /\ update'[u].open = {} /\ update'[u].todo = update[u].todo \ {f}
        /\ update'[u].release = update[u].release /\ update'[u].failed = update[u].failed
    <3>1. update[u].pc = "copy"
        BY <2>1
    <3> QED
        BY <2>2, <2>3, <3>1 DEF RunRec
  <2>5. tree'[f] = update[u].release /\ \A g \in CodeFiles \ {f} : tree'[g] = tree[g]
      BY <2>1, <1>a
  <2>6. Ships[update[u].release] \subseteq CodeFiles
      BY <2>1, ReleasesAssumption DEF TreeInv, KnownRelease
  <2>7. ~update[u].failed => \A g \in Ships[update[u].release] \ update[u].todo : tree[g] = update[u].release
      BY <2>1 DEF TreeInv, CopiedSoFar
  <2>8. Copied(u, update')
      BY <2>4, <2>5, <2>6, <2>7 DEF Copied
  <2> QED
      BY <2>1, <2>2, <2>8, <1>e
<1>7. ASSUME NEW u \in Updates, NEW f \in CodeFiles, CopyMisses(u, f)
      PROVE  \A w \in Updates : Copied(w, update')
  <2>1. /\ update' = [update EXCEPT ![u].open = {}, ![u].todo = @ \ {f}, ![u].failed = TRUE]
        /\ update[u].pc = "copy" /\ tree' = tree
      BY <1>7 DEF CopyMisses
  <2>2. OnlyMoves(u) /\ update'[u] = [update[u] EXCEPT !.open = {}, !.todo = update[u].todo \ {f}, !.failed = TRUE]
      BY <2>1, <1>a DEF OnlyMoves
  <2>3. update[u] \in RunRec
      BY <1>a
  <2>4. update'[u].pc = "copy" /\ update'[u].open = {} /\ update'[u].failed
    <3>1. update[u].pc = "copy"
        BY <2>1
    <3> QED
        BY <2>2, <2>3, <3>1 DEF RunRec
  <2>5. Copied(u, update')
      BY <2>4 DEF Copied
  <2> QED
      BY <2>1, <2>2, <2>5, <1>d
<1>8. ASSUME NEW u \in Updates, CopyEnds(u) PROVE \A w \in Updates : Copied(w, update')
  <2>1. tree' = tree /\ update[u].pc = "copy" /\ update[u].todo = {}
      BY <1>8 DEF CopyEnds
  <2>2. CASE update[u].failed
      BY <1>8, <2>1, <2>2, <1>d, <1>f, <1>g DEF CopyEnds
  <2>3. CASE ~update[u].failed
    <3>1. update' = [update EXCEPT ![u].pc = "remove"]
        BY <1>8, <2>3 DEF CopyEnds
    <3>2. OnlyMoves(u) /\ update'[u] = [update[u] EXCEPT !.pc = "remove"] /\ update[u] \in RunRec
        BY <3>1, <1>a DEF OnlyMoves
    <3>3. /\ update'[u].pc = "remove" /\ update'[u].release = update[u].release
          /\ update'[u].open = update[u].open /\ update'[u].todo = update[u].todo
        BY <3>2 DEF RunRec
    <3>4. update[u].open = {} /\ \A f \in Ships[update[u].release] : tree[f] = update[u].release
        BY <2>1, <2>3 DEF TreeInv, CopiedSoFar
    <3>5. Copied(u, update')
        BY <2>1, <3>3, <3>4 DEF Copied
    <3> QED
        BY <2>1, <3>2, <3>5, <1>d
  <2> QED
      BY <2>2, <2>3
<1>9. ASSUME NEW u \in Updates, NEW f \in CodeFiles, Removes(u, f)
      PROVE  \A w \in Updates : Copied(w, update')
  <2>1. /\ update[u].pc = "remove" /\ f \notin Ships[update[u].release]
        /\ tree' = [tree EXCEPT ![f] = 0] /\ update' = update
      BY <1>9 DEF Removes, Leftover
  <2>2. OnlyMoves(u) /\ Ships[update[u].release] \subseteq CodeFiles
      BY <2>1, ReleasesAssumption DEF OnlyMoves, TreeInv, KnownRelease
  <2>3. \A g \in CodeFiles \ {f} : tree'[g] = tree[g]
      BY <2>1, <1>a
  <2>4. /\ update[u].open \subseteq update[u].todo
        /\ \A g \in Ships[update[u].release] : tree[g] = update[u].release
      BY <2>1 DEF TreeInv, CopiedSoFar
  <2>5. Copied(u, update')
      BY <2>1, <2>2, <2>3, <2>4 DEF Copied
  <2> QED
      BY <2>1, <2>2, <2>5, <1>e
<1>10. ASSUME NEW u \in Updates, ApplyFails(u) PROVE \A w \in Updates : Copied(w, update')
    BY <1>10, <1>d, <1>f, <1>g DEF ApplyFails
<1>11. ASSUME NEW u \in Updates, Relabels(u) PROVE \A w \in Updates : Copied(w, update')
    BY <1>11, <1>d, <1>h DEF Relabels
<1>12. ASSUME NEW u \in Updates, SyncEnds(u) PROVE \A w \in Updates : Copied(w, update')
    BY <1>12, <1>d, <1>h DEF SyncEnds
<1>13. ASSUME NEW u \in Updates, RestartFails(u) PROVE \A w \in Updates : Copied(w, update')
  <2>1. OnlyMoves(u) /\ update'[u] = NoUpdate /\ tree' = tree
      BY <1>13, <1>a DEF RestartFails, OnlyMoves
  <2> QED
      BY <2>1, <1>d, <1>g
<1>14. CASE NewRelease
    BY <1>14, <1>c DEF NewRelease
<1>15. CASE ProcessEnds
    BY <1>15, <1>g DEF ProcessEnds
<1>16. CASE UNCHANGED updateVars
    BY <1>16, <1>c DEF updateVars
<1> QED
    BY <1>1, <1>2, <1>3, <1>4, <1>5, <1>6, <1>7, <1>8, <1>9, <1>10, <1>11, <1>12, <1>13, <1>14,
       <1>15, <1>16 DEF UpdateNext

\* Of all steps only the replacement of VERSION changes the label, and by then
\* the run has every file of its release and has removed the others.
LEMMA StepLabel == TreeInv /\ UpdateNext => (label' # label => Whole(tree', label'))
<1> SUFFICES ASSUME TreeInv, UpdateNext, label' # label PROVE Whole(tree', label')
    OBVIOUS
<1>1. PICK u \in Updates : Relabels(u)
    BY DEF UpdateNext, StartUpdate, DownloadFails, Downloaded, Unpacks, CopyOpens, CopyCloses, CopyMisses,
           CopyEnds, Removes, ApplyFails, SyncEnds, RestartFails, NewRelease, ProcessEnds
<1>2. update[u].pc = "remove" /\ Leftover(u) = {} /\ label' = update[u].release /\ tree' = tree
    BY <1>1 DEF Relabels
<1>3. \A f \in Ships[update[u].release] : tree[f] = update[u].release
    BY <1>2 DEF TreeInv, CopiedSoFar
<1>4. \A f \in CodeFiles : f \notin Ships[update[u].release] => tree[f] = 0
    BY <1>2 DEF Leftover
<1> QED
    BY <1>2, <1>3, <1>4 DEF Whole

LEMMA StepTreeInv == TreeInv /\ [UpdateNext]_updateVars => TreeInv'
    BY StepTypes, StepOneAtWork, StepKnownRelease, StepCopiedSoFar DEF TreeInv

LEMMA TreeInvAlways == UpdateSpec => []TreeInv
    BY InitTreeInv, StepTreeInv, PTL DEF UpdateSpec

\* Whatever is downloaded, copied, torn, removed or cut short, the state keeps
\* its types: the label always names a release, and a file is of a release,
\* absent or half written.
THEOREM UpdateTypeCorrect == UpdateSpec => []UpdateTypeOK
<1>1. TreeInv => UpdateTypeOK
    BY DEF TreeInv
<1> QED
    BY <1>1, TreeInvAlways, PTL

\* VERSION never names a release the tree does not hold: files that failed, a
\* run that was interrupted and another that was started meanwhile leave it as
\* it was, for any number of files, releases and runs.
THEOREM LabelsAreEarned == UpdateSpec => VersionIsEarned
<1>1. TreeInv /\ [UpdateNext]_updateVars => [label' # label => Whole(tree', label')]_updateVars
    BY StepLabel
<1> QED
    BY <1>1, TreeInvAlways, PTL DEF UpdateSpec, VersionIsEarned

-----------------------------------------------------------------------------
(* The services together.  A step of MCServices moves one of them, by a    *)
(* step of its own, and leaves the others where they are.                  *)

LEMMA BotMoves == [Next]_<<focus, botVars, storeVars, airVars, updateVars>> => [BotNext]_botVars
<1> SUFFICES ASSUME [Next]_<<focus, botVars, storeVars, airVars, updateVars>> PROVE [BotNext]_botVars
    OBVIOUS
<1>1. TriviaWords \subseteq Words /\ FormWords \union {"other"} \subseteq Words
    BY DEF Words, TriviaWords, FormWords
<1>2. ASSUME NEW words \in SUBSET Words, BotHears(words) PROVE BotHears(Words)
    BY <1>2 DEF BotHears
<1>3. BotNext \/ BotRest \/ UNCHANGED <<focus, botVars, storeVars, airVars, updateVars>>
    BY <1>1, <1>2, Zenon DEF Next, BotNext
<1> QED
    BY <1>3 DEF BotRest

LEMMA StoreMoves == [Next]_<<focus, botVars, storeVars, airVars, updateVars>> => [StoreNext]_storeVars
    BY Zenon DEF Next, StoreRest

LEMMA AirMoves == [Next]_<<focus, botVars, storeVars, airVars, updateVars>> => [AirNext]_airVars
    BY LoopPolls, Zenon DEF Next, AirRest, AirNext

LEMMA TreeMoves == [Next]_<<focus, botVars, storeVars, airVars, updateVars>> => [UpdateNext]_updateVars
    BY Zenon DEF Next, TreeRest

\* A behaviour of the four services together is one of each: what is proved of
\* the mesh bot, the store, the broadcasts and the self-update by itself holds
\* of them beside each other.
THEOREM ServicesAreTheirParts == Spec => BotSpec /\ StoreSpec /\ AirSpec /\ UpdateSpec
<1>1. Init => BotInit /\ StoreInit /\ AirInit /\ UpdateInit
    BY DEF Init
<1> QED
    BY <1>1, BotMoves, StoreMoves, AirMoves, TreeMoves, PTL DEF Spec, BotSpec, StoreSpec, AirSpec, UpdateSpec

\* The four keep their types beside each other, and the focus stays one of its
\* kind.
THEOREM ServicesTyped == Spec => []ServicesTypeOK
<1>1. Init => focus \in Foci
    BY DEF Init
<1>2. focus \in Foci /\ [Next]_<<focus, botVars, storeVars, airVars, updateVars>> => (focus \in Foci)'
    BY DEF Next, Foci
<1>3. Spec => [](focus \in Foci)
    BY <1>1, <1>2, PTL DEF Spec
<1>4. Spec => [](MeshBotTypeOK /\ StoreTypeOK /\ AirTypeOK /\ UpdateTypeOK)
    BY ServicesAreTheirParts, MeshBotTypeCorrect, StoreTypeCorrect, AirTypeCorrect, UpdateTypeCorrect, PTL
<1>5. focus \in Foci /\ MeshBotTypeOK /\ StoreTypeOK /\ AirTypeOK /\ UpdateTypeOK => ServicesTypeOK
    BY DEF ServicesTypeOK
<1> QED
    BY <1>3, <1>4, <1>5, PTL
=============================================================================
