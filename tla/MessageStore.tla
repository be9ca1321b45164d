----------------------------- MODULE MessageStore ----------------------------
(***************************************************************************)
(* The table of messages and its archive files (ech/core/database.py):     *)
(* messages are saved, purged into dated files when their retention is     *)
(* over, and restored from them.  All tasks share one connection, so that  *)
(* any task's commit also commits what the others have executed so far;    *)
(* the files are written outside of it.  A crash loses what is not         *)
(* committed and keeps the files.                                          *)
(*                                                                         *)
(* A message's timestamp is that of its arrival.                           *)
(***************************************************************************)
EXTENDS Integers, FiniteSets

CONSTANTS
    StoredMessages,
    Purgers,        \* the hourly loop, the API's "purge now"
    MaxRestores,    \* bound: restores of the archive
    MaxStoreCrashes \* bound: crashes

VARIABLES
    row,            \* message -> "absent", "live" or "restored", as executed
    committed,      \* the same, as committed
    old,            \* messages older than their retention
    restoredOld,    \* restored rows whose restoration is older than that
    purge,          \* purger -> [pc, cut, cutRestored, rows]
    saving,         \* messages inserted by a save that has not committed yet
    lines,          \* message -> its lines in the archive files
    restoring,      \* [pc, todo, some]: the restore under way
    kept,           \* messages that were committed once
    givenUp,        \* cleared, expired with their file, or not written to one
    restores, storeCrashes

storeVars == <<row, committed, old, restoredOld, purge, saving, lines, restoring, kept, givenUp,
               restores, storeCrashes>>

NoPurge   == [pc |-> "idle", cut |-> {}, cutRestored |-> {}, rows |-> {}]
NoRestore == [pc |-> "idle", todo |-> {}, some |-> FALSE]

Present == {m \in StoredMessages : row[m] # "absent"}
Live    == {m \in StoredMessages : row[m] = "live"}

\* Everything executed so far is durable.
Commit ==
    /\ committed' = row
    /\ kept' = kept \union Present

\* save_message: a message of a known id is ignored.
SaveExecuted(m) ==
    /\ m \notin kept \union Present
    /\ row' = [row EXCEPT ![m] = "live"]
    /\ saving' = saving \union {m}
    /\ UNCHANGED <<committed, old, restoredOld, purge, lines, restoring, kept, givenUp, restores, storeCrashes>>

SaveCommitted(m) ==
    /\ m \in saving
    /\ saving' = saving \ {m}
    /\ Commit
    /\ UNCHANGED <<row, old, restoredOld, purge, lines, restoring, givenUp, restores, storeCrashes>>

\* Time passes.
GrowsOld(m) ==
    \/ /\ m \in Present \ old
       /\ old' = old \union {m} /\ UNCHANGED restoredOld
       /\ UNCHANGED <<row, committed, purge, saving, lines, restoring, kept, givenUp, restores, storeCrashes>>
    \/ /\ row[m] = "restored" /\ m \notin restoredOld
       /\ restoredOld' = restoredOld \union {m} /\ UNCHANGED old
       /\ UNCHANGED <<row, committed, purge, saving, lines, restoring, kept, givenUp, restores, storeCrashes>>

\* purge_old_messages: one cutoff for the selection and the deletion.
PurgeBegins(p) ==
    /\ purge[p].pc = "idle"
    /\ purge' = [purge EXCEPT ![p] = [pc |-> "select", cut |-> old, cutRestored |-> restoredOld, rows |-> {}]]
    /\ UNCHANGED <<row, committed, old, restoredOld, saving, lines, restoring, kept, givenUp, restores, storeCrashes>>

\* _archive_messages: restored rows still have their lines.
PurgeSelects(p) ==
    /\ purge[p].pc = "select"
    /\ purge' = [purge EXCEPT ![p].pc = "archive", ![p].rows = purge[p].cut \intersect Live]
    /\ UNCHANGED <<row, committed, old, restoredOld, saving, lines, restoring, kept, givenUp, restores, storeCrashes>>

\* The file is appended to; after an OSError the rows are deleted all the same.
PurgeArchives(p) ==
    /\ purge[p].pc = "archive"
    /\ \E written \in SUBSET purge[p].rows :
         /\ lines'   = [m \in StoredMessages |-> IF m \in written /\ lines[m] < 2 THEN lines[m] + 1 ELSE lines[m]]
         /\ givenUp' = givenUp \union {m \in purge[p].rows \ written : lines[m] = 0}
    /\ purge' = [purge EXCEPT ![p].pc = "delete"]
    /\ UNCHANGED <<row, committed, old, restoredOld, saving, restoring, kept, restores, storeCrashes>>

\* Seeded fault: the cutoff is taken again for the deletion.
CutAnew(p) == old

CutOf(p) == purge[p].cut

\* Seeded fault: a restored row goes by its own age.
GoesByAge(p) == {m \in CutOf(p) : row[m] # "absent"}

Expired(p) ==
    {m \in CutOf(p) : row[m] = "live" \/ (row[m] = "restored" /\ m \in purge[p].cutRestored)}

PurgeDeletes(p) ==
    /\ purge[p].pc = "delete"
    /\ row' = [m \in StoredMessages |-> IF m \in Expired(p) THEN "absent" ELSE row[m]]
    /\ purge' = [purge EXCEPT ![p] = IF Expired(p) = {} THEN NoPurge ELSE [NoPurge EXCEPT !.pc = "commit"]]
    /\ restoredOld' = restoredOld \ Expired(p)
    /\ UNCHANGED <<committed, old, saving, lines, restoring, kept, givenUp, restores, storeCrashes>>

PurgeCommits(p) ==
    /\ purge[p].pc = "commit"
    /\ purge' = [purge EXCEPT ![p] = NoPurge]
    /\ Commit
    /\ UNCHANGED <<row, old, restoredOld, saving, lines, restoring, givenUp, restores, storeCrashes>>

\* purge_old_archive: a file goes as a whole, long after its messages.
ArchiveExpires ==
    /\ \E m \in StoredMessages : lines[m] > 0
    /\ lines'   = [m \in StoredMessages |-> 0]
    /\ givenUp' = givenUp \union {m \in StoredMessages : lines[m] > 0}
    /\ UNCHANGED <<row, committed, old, restoredOld, purge, saving, restoring, kept, restores, storeCrashes>>

\* restore_archived_messages: one insert per line, then a commit.
RestoreBegins ==
    /\ restoring.pc = "idle" /\ restores < MaxRestores
    /\ \E m \in StoredMessages : lines[m] > 0
    /\ restores' = restores + 1
    /\ restoring' = [pc |-> "inserting", todo |-> {m \in StoredMessages : lines[m] > 0}, some |-> FALSE]
    /\ UNCHANGED <<row, committed, old, restoredOld, purge, saving, lines, kept, givenUp, storeCrashes>>

\* A row that is there is left alone; a new one is dated now, after every cutoff.
RestoreInserts(m) ==
    /\ restoring.pc = "inserting" /\ m \in restoring.todo
    /\ IF row[m] = "absent"
       THEN /\ row'   = [row EXCEPT ![m] = "restored"]
            /\ purge' = [p \in Purgers |-> [purge[p] EXCEPT !.cutRestored = @ \ {m}]]
            /\ restoring' = [restoring EXCEPT !.todo = @ \ {m}, !.some = TRUE]
            /\ restoredOld' = restoredOld \ {m}
       ELSE /\ restoring' = [restoring EXCEPT !.todo = @ \ {m}]
            /\ UNCHANGED <<row, purge, restoredOld>>
    /\ UNCHANGED <<committed, old, saving, lines, kept, givenUp, restores, storeCrashes>>

RestoreCommits ==
    /\ restoring.pc = "inserting" /\ restoring.todo = {}
    /\ restoring' = NoRestore
    /\ IF restoring.some THEN Commit ELSE UNCHANGED <<committed, kept>>
    /\ UNCHANGED <<row, old, restoredOld, purge, saving, lines, givenUp, restores, storeCrashes>>

\* clear_messages, which keeps no copies.
ClearMessages ==
    /\ Present # {}
    /\ row' = [m \in StoredMessages |-> "absent"]
    /\ committed' = row'
    /\ kept' = kept \union Present
    /\ givenUp' = givenUp \union Present
    /\ restoredOld' = {}
    /\ UNCHANGED <<old, purge, saving, lines, restoring, restores, storeCrashes>>

StoreCrashes ==
    /\ storeCrashes < MaxStoreCrashes
    /\ storeCrashes' = storeCrashes + 1
    /\ row' = committed
    /\ restoredOld' = {m \in restoredOld : committed[m] = "restored"}
    /\ purge' = [p \in Purgers |-> NoPurge]
    /\ saving' = {}
    /\ restoring' = NoRestore
    /\ old' = old \intersect kept
    /\ UNCHANGED <<committed, lines, kept, givenUp, restores>>

StoreInit ==
    /\ row = [m \in StoredMessages |-> "absent"] /\ committed = row
    /\ old = {} /\ restoredOld = {} /\ saving = {} /\ kept = {} /\ givenUp = {}
    /\ purge = [p \in Purgers |-> NoPurge]
    /\ lines = [m \in StoredMessages |-> 0]
    /\ restoring = NoRestore
    /\ restores = 0 /\ storeCrashes = 0

StoreNext ==
    \/ \E m \in StoredMessages : SaveExecuted(m) \/ SaveCommitted(m) \/ GrowsOld(m) \/ RestoreInserts(m)
    \/ \E p \in Purgers : PurgeBegins(p) \/ PurgeSelects(p) \/ PurgeArchives(p) \/ PurgeDeletes(p) \/ PurgeCommits(p)
    \/ ArchiveExpires \/ RestoreBegins \/ RestoreCommits \/ ClearMessages \/ StoreCrashes

StoreSpec == StoreInit /\ [][StoreNext]_storeVars

-----------------------------------------------------------------------------
(* Properties.                                                              *)

StoreTypeOK ==
    /\ row \in [StoredMessages -> {"absent", "live", "restored"}]
    /\ committed \in [StoredMessages -> {"absent", "live", "restored"}]
    /\ restoredOld \subseteq {m \in StoredMessages : row[m] = "restored"}
    /\ lines \in [StoredMessages -> 0 .. 2]
    /\ \A p \in Purgers : purge[p].pc \in {"idle", "select", "archive", "delete", "commit"}
    /\ restoring.pc \in {"idle", "inserting"} /\ saving \subseteq StoredMessages

\* A message that was once durable is in the table or in an archive file,
\* whatever purges, restores and crashes overlapped -- unless a user cleared
\* it, its file's time was over, or the file could not be written.
NothingLost ==
    \A m \in kept \ givenUp : lines[m] > 0 \/ (row[m] # "absent" /\ committed[m] # "absent")

\* A restored message stays for a full window of its own: no purge, not one
\* that began before it was restored, takes it earlier.
RestoredStay ==
    [][\A m \in StoredMessages, p \in Purgers :
         PurgeDeletes(p) /\ row[m] = "restored" /\ row'[m] = "absent" => m \in restoredOld]_storeVars
=============================================================================
