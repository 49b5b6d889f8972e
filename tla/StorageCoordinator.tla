------------------------- MODULE StorageCoordinator -------------------------
(***************************************************************************)
(* The cross-store archive and delete operations of                        *)
(* src/src/storage/coordinator.py, with the parts of vault_paths.py and    *)
(* sqlite_store.py they drive, and the recovery of their journal.          *)
(*                                                                         *)
(* One operation writes a Markdown file, then one SQLite transaction that  *)
(* holds the row and the proof of the operation, with a journal record     *)
(* before and after each.  Every action below makes one durable change, so *)
(* that a crash (or the user, working on the vault with an editor) can     *)
(* come between any two of them.  The write lease lets one operation run   *)
(* at a time.                                                              *)
(*                                                                         *)
(* A file is its fingerprint (inode and digest): the file an archive       *)
(* published, or a version the user wrote.  A knowledge row is named by    *)
(* the archive that inserts it.                                            *)
(***************************************************************************)
EXTENDS Naturals, FiniteSets

CONSTANTS
    Archives,   \* operation ids of archive calls
    Deletes,    \* operation ids of delete calls
    target,     \* target[d]: the archive whose row d deletes
    Vectors,    \* the operations that carry a vector callback
    MaxPath,    \* bound: file names one title can take (stem, stem-1, ...)
    MaxEdits,   \* bound: changes the user makes in the vault
    Faults,     \* the kinds of I/O failure considered
    None        \* no file, no path, no operation

Ops == Archives \cup Deletes
Paths == 1..MaxPath
Versions == 1..MaxEdits
Files == Archives \cup Versions
FaultKinds == {"journal", "publish", "sqlite", "probe", "unlink", "move"}
Scanning == {"booting", "failing", "auditing"}

ASSUME StorageAssumption ==
    /\ Archives \cap Deletes = {}
    /\ target \in [Deletes -> Archives]
    /\ Vectors \subseteq Ops
    /\ MaxPath \in Nat \ {0}
    /\ MaxEdits \in Nat
    /\ Ops \cap Nat = {}
    /\ Faults \subseteq FaultKinds
    /\ None \notin Ops \cup Nat

VARIABLES
    vault,    \* vault[p]: the Markdown file at path p
    quar,     \* quar[d]: the file in the quarantine slot of d
    rows,     \* rows[a]: file_path of the knowledge row of a
    proof,    \* proof[o]: path in the storage_operation_commits row of o
    journal,  \* journal[o]: the journal record of o
    run,      \* the operation under way in memory
    result,   \* what the last operation returned to its caller
    boot,     \* the process: "down", "up", or scanning the journal
    todo,     \* records the scan has still to look at
    edits     \* changes the user has made so far

stores == <<vault, quar, rows, proof>>
memory == <<run, result, boot, todo>>
vars == <<stores, journal, memory, edits>>

Statuses == {"none", "in_progress", "ready", "degraded", "deleted",
             "rejected", "repair_required"}
Stages == {"preparing", "primary_committed", "index_committed", "compensating",
           "delete_planned", "delete_quarantined", "completed"}

\* A journal record: path is the planned or relative file path, file the
\* recorded primary fingerprint, restore the repair action that allows a
\* quarantined file to be put back, core the core_committed flag.
Records == [status : Statuses, stage : Stages, path : Paths \cup {None},
            file : Files \cup {None}, missing : BOOLEAN, restore : BOOLEAN,
            core : BOOLEAN]

NoRecord == [status |-> "none", stage |-> "preparing", path |-> None,
             file |-> None, missing |-> FALSE, restore |-> FALSE, core |-> FALSE]
JournalCreated == [NoRecord EXCEPT !.status = "in_progress"]

Idle == [op |-> None, at |-> "idle", rec |-> NoRecord]
NoResult == [op |-> None, status |-> "none", core |-> FALSE]

Steps == {"idle", "plan", "publish", "journal_primary", "index",
          "journal_compensating", "undo", "undo_unlink", "journal_index",
          "quarantine", "link", "unlink_original", "verify",
          "journal_quarantined", "remove", "restore", "restore_unlink", "purge",
          "finish", "recover_restore", "recover_unlink", "recover_write"}

TypeOK ==
    /\ vault \in [Paths -> Files \cup {None}]
    /\ quar \in [Deletes -> Files \cup {None}]
    /\ rows \in [Archives -> Paths \cup {None}]
    /\ proof \in [Ops -> Paths \cup {None}]
    /\ journal \in [Ops -> Records]
    /\ run \in [op : Ops \cup {None}, at : Steps, rec : Records]
    /\ result \in [op : Ops \cup {None}, status : Statuses, core : BOOLEAN]
    /\ boot \in {"down", "up"} \cup Scanning
    /\ todo \subseteq Ops
    /\ edits \in 0..MaxEdits

Init ==
    /\ vault = [p \in Paths |-> None]
    /\ quar = [d \in Deletes |-> None]
    /\ rows = [a \in Archives |-> None]
    /\ proof = [o \in Ops |-> None]
    /\ journal = [o \in Ops |-> NoRecord]
    /\ run = Idle
    /\ result = NoResult
    /\ boot = "up"
    /\ todo = {}
    /\ edits = 0

-----------------------------------------------------------------------------
(* Building blocks *)

At(o, step) == run.op = o /\ run.at = step

\* run.rec is the in-memory payload the operation has journaled so far.
Goto(o, step, rec) == run' = [op |-> o, at |-> step, rec |-> rec]

\* The operation has its outcome and is about to call _finish.
Finishing(o, rec, status, stage) ==
    Goto(o, "finish", [rec EXCEPT !.status = status, !.stage = stage,
                                  !.restore = FALSE])

FinishCommitted(o, rec, status, stage) ==
    Goto(o, "finish", [rec EXCEPT !.status = status, !.stage = stage,
                                  !.restore = FALSE, !.core = TRUE])

FinishRestorable(o, rec) ==
    Goto(o, "finish", [rec EXCEPT !.status = "repair_required",
                                  !.stage = "compensating", !.restore = TRUE])

Rejected(o, rec, stage) == Finishing(o, rec, "rejected", stage)

NeedsRepair(o, rec, stage) == Finishing(o, rec, "repair_required", stage)

Returns(o, status, core) ==
    /\ run' = Idle
    /\ result' = [op |-> o, status |-> status, core |-> core]

\* StorageOperationJournal.write publishes a record atomically.
JournalWritten(o, rec) == journal' = [journal EXCEPT ![o] = rec]

\* A write that raised left the old record, or failed after the replacement.
JournalFailed(o, rec) ==
    /\ "journal" \in Faults
    /\ \/ UNCHANGED journal
       \/ JournalWritten(o, rec)

Free(p) == vault[p] = None
RowAt(p) == \E a \in Archives : rows[a] = p
InVault(f) == \E p \in Paths : vault[p] = f
InQuarantine(f) == \E d \in Deletes : quar[d] = f

\* A move is a link followed by an unlink.  While both names exist the file has
\* two links, and every fingerprint check refuses it.
TwoNames(f) == f # None /\ InVault(f) /\ InQuarantine(f)
IsAt(f, p) == f # None /\ vault[p] = f /\ ~ TwoNames(f)

\* A move out of quarantine whose unlink failed takes the new name back if both
\* still name one file, or leaves both.
MoveUndone(d, p) ==
    /\ UNCHANGED quar
    /\ \/ UNCHANGED vault
       \/ vault[p] = quar[d] /\ vault' = [vault EXCEPT ![p] = None]

\* unique_markdown_path: stem, stem-1, ... up to the first free name.
FirstFree(p) == Free(p) /\ \A q \in 1..(p - 1) : ~ Free(q)

\* _probe_archive_commit and _probe_delete_commit, when their queries succeed.
ArchiveProbe(a, p) ==
    IF proof[a] = None
    THEN IF RowAt(p) THEN "ambiguous" ELSE "absent"
    ELSE IF proof[a] = p /\ rows[a] = p THEN "committed" ELSE "ambiguous"

DeleteProbe(d, p) ==
    IF proof[d] # None
    THEN IF proof[d] = p /\ rows[target[d]] = None THEN "committed" ELSE "ambiguous"
    ELSE IF rows[target[d]] = p THEN "absent" ELSE "ambiguous"

\* A query that fails leaves the commit state ambiguous.
Probed(o, p) ==
    {IF o \in Archives THEN ArchiveProbe(o, p) ELSE DeleteProbe(o, p)}
      \cup (IF "probe" \in Faults THEN {"ambiguous"} ELSE {})

-----------------------------------------------------------------------------
(* archive *)

\* The first record of an operation; its write failing ends the call at once.
Start(o) ==
    /\ boot = "up"
    /\ run.at = "idle"
    /\ \/ /\ JournalWritten(o, JournalCreated)
          /\ Goto(o, "plan", JournalCreated)
          /\ result' = NoResult
       \/ /\ JournalFailed(o, JournalCreated)
          /\ Returns(o, "rejected", FALSE)
    /\ UNCHANGED <<stores, boot, todo, edits>>

\* A caller that gives no operation id gets a new one.
Begin(o) == journal[o].status = "none" /\ Start(o)

\* plan_save picks a name nobody uses and archive_planned is journaled.
PlanArchive(a) ==
    /\ At(a, "plan")
    /\ \E p \in Paths :
          LET rec == [JournalCreated EXCEPT !.path = p]
          IN /\ FirstFree(p)
             /\ \/ /\ JournalWritten(a, rec)
                   /\ Goto(a, "publish", rec)
                \/ /\ JournalFailed(a, rec)
                   /\ Rejected(a, JournalCreated, "preparing")
    /\ UNCHANGED <<stores, result, boot, todo, edits>>

PlanArchiveFails(a) ==
    /\ At(a, "plan")
    /\ \A p \in Paths : ~ Free(p)
    /\ Rejected(a, JournalCreated, "preparing")
    /\ UNCHANGED <<stores, journal, result, boot, todo, edits>>

\* save_planned_record never replaces an existing file.  The published file
\* may fail its checks after it became visible.
PublishArchive(a) ==
    LET rec == run.rec
        p == rec.path
    IN /\ At(a, "publish")
       /\ \/ /\ Free(p) /\ ~ RowAt(p)
             /\ vault' = [vault EXCEPT ![p] = a]
             /\ \/ Goto(a, "journal_primary",
                        [rec EXCEPT !.file = a, !.stage = "primary_committed"])
                \/ /\ "publish" \in Faults
                   /\ NeedsRepair(a, rec, "primary_committed")
          \/ /\ RowAt(p) \/ ~ Free(p) \/ "publish" \in Faults
             /\ UNCHANGED vault
             /\ Rejected(a, rec, "preparing")
       /\ UNCHANGED <<quar, rows, proof, journal, result, boot, todo, edits>>

JournalPrimary(a) ==
    /\ At(a, "journal_primary")
    /\ \/ /\ JournalWritten(a, run.rec)
          /\ Goto(a, "index", run.rec)
       \/ /\ JournalFailed(a, run.rec)
          /\ Goto(a, "undo", run.rec)
    /\ UNCHANGED <<stores, result, boot, todo, edits>>

\* Mutant of IndexArchive: an exception is taken for a rollback.
IndexArchiveByException(a) ==
    LET p == run.rec.path
        rec == [run.rec EXCEPT !.stage = "compensating"]
    IN /\ At(a, "index")
       /\ \/ /\ ~ RowAt(p) /\ proof[a] = None
             /\ rows' = [rows EXCEPT ![a] = p]
             /\ proof' = [proof EXCEPT ![a] = p]
             /\ \/ Goto(a, "journal_index", run.rec)
                \/ "sqlite" \in Faults /\ Goto(a, "journal_compensating", rec)
          \/ /\ RowAt(p) \/ proof[a] # None \/ "sqlite" \in Faults
             /\ UNCHANGED <<rows, proof>>
             /\ Goto(a, "journal_compensating", rec)
       /\ UNCHANGED <<vault, quar, journal, result, boot, todo, edits>>

\* insert_entry_with_chunks: the row and the proof of the operation share one
\* transaction.  An exception is reconciled by the proof, never by the path.
IndexArchive(a) ==
    LET p == run.rec.path
        conflict == RowAt(p) \/ proof[a] # None
    IN /\ At(a, "index")
       /\ \/ /\ ~ conflict
             /\ rows' = [rows EXCEPT ![a] = p]
             /\ proof' = [proof EXCEPT ![a] = p]
             /\ \/ Goto(a, "journal_index", run.rec)
                \/ /\ {"sqlite", "probe"} \subseteq Faults
                   /\ NeedsRepair(a, run.rec, "primary_committed")
          \/ /\ conflict \/ "sqlite" \in Faults
             /\ UNCHANGED <<rows, proof>>
             /\ \E answer \in Probed(a, p) :
                   CASE answer = "committed" -> Goto(a, "journal_index", run.rec)
                     [] answer = "ambiguous" ->
                            NeedsRepair(a, run.rec, "primary_committed")
                     [] answer = "absent" ->
                            Goto(a, "journal_compensating",
                                 [run.rec EXCEPT !.stage = "compensating"])
       /\ UNCHANGED <<vault, quar, journal, result, boot, todo, edits>>

\* A failure to journal the compensation is ignored.
JournalCompensating(a) ==
    /\ At(a, "journal_compensating")
    /\ \/ JournalWritten(a, run.rec)
       \/ JournalFailed(a, run.rec)
    /\ Goto(a, "undo", run.rec)
    /\ UNCHANGED <<stores, result, boot, todo, edits>>

\* delete_if_identity: first it proves that the file at the path is the one
\* published, then it unlinks the path.
UndoPrimary(a) ==
    LET rec == run.rec
    IN /\ At(a, "undo")
       /\ \/ IsAt(rec.file, rec.path) /\ Goto(a, "undo_unlink", rec)
          \/ /\ ~ IsAt(rec.file, rec.path) \/ "unlink" \in Faults
             /\ NeedsRepair(a, rec, "compensating")
       /\ UNCHANGED <<stores, journal, result, boot, todo, edits>>

UndoUnlink(a) ==
    LET p == run.rec.path
    IN /\ At(a, "undo_unlink")
       /\ \/ /\ ~ Free(p)
             /\ vault' = [vault EXCEPT ![p] = None]
             /\ Rejected(a, run.rec, "compensating")
          \/ /\ Free(p) \/ "unlink" \in Faults
             /\ UNCHANGED vault
             /\ NeedsRepair(a, run.rec, "compensating")
       /\ UNCHANGED <<quar, rows, proof, journal, result, boot, todo, edits>>

\* index_committed, then the vector callback, whose failure only degrades.
JournalIndex(a) ==
    LET rec == [run.rec EXCEPT !.stage = "index_committed"]
    IN /\ At(a, "journal_index")
       /\ \/ /\ JournalWritten(a, rec)
             /\ \/ FinishCommitted(a, rec, "ready", "completed")
                \/ /\ a \in Vectors
                   /\ FinishCommitted(a, rec, "degraded", "index_committed")
          \/ /\ JournalFailed(a, rec)
             /\ FinishCommitted(a, run.rec, "repair_required", "index_committed")
       /\ UNCHANGED <<stores, result, boot, todo, edits>>

-----------------------------------------------------------------------------
(* delete *)

\* The row is read, the primary file fingerprinted, delete_planned journaled.
PlanDelete(d) ==
    LET p == rows[target[d]]
        rec == [JournalCreated EXCEPT !.stage = "delete_planned", !.path = p,
                                      !.file = vault[p], !.missing = Free(p)]
    IN /\ At(d, "plan")
       /\ p # None
       /\ ~ TwoNames(vault[p])
       /\ \/ /\ JournalWritten(d, rec)
             /\ Goto(d, IF rec.missing THEN "journal_quarantined" ELSE "quarantine",
                     rec)
          \/ /\ JournalFailed(d, rec)
             /\ Rejected(d, JournalCreated, "preparing")
       /\ UNCHANGED <<stores, result, boot, todo, edits>>

\* No row, or a primary file that cannot be fingerprinted.
PlanDeleteRefused(d) ==
    LET p == rows[target[d]]
    IN /\ At(d, "plan")
       /\ p = None \/ (p # None /\ TwoNames(vault[p]))
       /\ Rejected(d, JournalCreated, "preparing")
       /\ UNCHANGED <<stores, journal, result, boot, todo, edits>>

\* quarantine: check the fingerprint, link the new name, unlink the old one,
\* check what was moved.  The user can act between any two of these.
QuarantineCheck(d) ==
    LET rec == run.rec
    IN /\ At(d, "quarantine")
       /\ \/ /\ IsAt(rec.file, rec.path) /\ quar[d] = None
             /\ Goto(d, "link", rec)
          \/ /\ ~ IsAt(rec.file, rec.path) \/ quar[d] # None
             /\ Rejected(d, rec, "preparing")
       /\ UNCHANGED <<stores, journal, result, boot, todo, edits>>

QuarantineLink(d) ==
    LET p == run.rec.path
    IN /\ At(d, "link")
       /\ \/ /\ ~ Free(p)
             /\ quar' = [quar EXCEPT ![d] = vault[p]]
             /\ Goto(d, "unlink_original", run.rec)
          \/ /\ Free(p) \/ "move" \in Faults
             /\ UNCHANGED quar
             /\ Rejected(d, run.rec, "preparing")
       /\ UNCHANGED <<vault, rows, proof, journal, result, boot, todo, edits>>

\* An unlink that fails takes the new name back if both still name one file;
\* if it cannot, both names stay.  Its OSError is reported as a rejection.
UnlinkOriginal(d) ==
    LET p == run.rec.path
        back == [quar EXCEPT ![d] = None]
    IN /\ At(d, "unlink_original")
       /\ \/ /\ ~ Free(p)
             /\ vault' = [vault EXCEPT ![p] = None]
             /\ UNCHANGED quar
             /\ Goto(d, "verify", run.rec)
          \/ /\ Free(p) \/ "move" \in Faults
             /\ UNCHANGED vault
             /\ quar' \in {quar} \cup (IF quar[d] = vault[p] THEN {back} ELSE {})
             /\ Rejected(d, run.rec, "preparing")
       /\ UNCHANGED <<rows, proof, journal, result, boot, todo, edits>>

\* A moved file that fails its check goes back if it is still provable and its
\* name still free; otherwise it waits in quarantine for repair.
VerifyQuarantine(d) ==
    LET rec == run.rec
        moved == quar[d] = rec.file
    IN /\ At(d, "verify")
       /\ \/ /\ moved
             /\ UNCHANGED <<vault, quar>>
             /\ Goto(d, "journal_quarantined", rec)
          \/ /\ moved /\ "move" \in Faults
             /\ UNCHANGED <<vault, quar>>
             /\ Goto(d, "restore", rec)
          \/ /\ ~ moved \/ "move" \in Faults
             /\ UNCHANGED <<vault, quar>>
             /\ FinishRestorable(d, rec)
       /\ UNCHANGED <<rows, proof, journal, result, boot, todo, edits>>

JournalQuarantined(d) ==
    LET rec == [run.rec EXCEPT !.stage = "delete_quarantined"]
    IN /\ At(d, "journal_quarantined")
       /\ \/ JournalWritten(d, rec) /\ Goto(d, "remove", rec)
          \/ /\ JournalFailed(d, rec)
             /\ IF rec.missing THEN Rejected(d, rec, "compensating")
                               ELSE Goto(d, "restore", rec)
       /\ UNCHANGED <<stores, result, boot, todo, edits>>

\* delete_entry: the row goes and the proof comes in one transaction.
RemoveRow(d) ==
    LET p == run.rec.path
    IN /\ At(d, "remove")
       /\ \/ /\ rows[target[d]] = p /\ proof[d] = None
             /\ rows' = [rows EXCEPT ![target[d]] = None]
             /\ proof' = [proof EXCEPT ![d] = p]
             /\ \/ Goto(d, "purge", run.rec)
                \/ /\ {"sqlite", "probe"} \subseteq Faults
                   /\ NeedsRepair(d, run.rec, "delete_quarantined")
          \/ /\ rows[target[d]] # p \/ proof[d] # None \/ "sqlite" \in Faults
             /\ UNCHANGED <<rows, proof>>
             /\ \E answer \in Probed(d, p) :
                   CASE answer = "committed" -> Goto(d, "purge", run.rec)
                     [] answer = "ambiguous" ->
                            NeedsRepair(d, run.rec, "delete_quarantined")
                     [] answer = "absent" ->
                            IF run.rec.missing
                            THEN NeedsRepair(d, run.rec, "compensating")
                            ELSE Goto(d, "restore", run.rec)
       /\ UNCHANGED <<vault, quar, journal, result, boot, todo, edits>>

\* Mutant of Restore: the quarantined file replaces whatever has its name.
RestoreClobbers(d) ==
    /\ At(d, "restore")
    /\ vault' = [vault EXCEPT ![run.rec.path] = quar[d]]
    /\ Goto(d, "restore_unlink", run.rec)
    /\ UNCHANGED <<quar, rows, proof, journal, result, boot, todo, edits>>

\* restore: link the old name, never over another file, then unlink the
\* quarantine name and check what was put back.  A quarantine that failed its
\* own check is rolled back the same way, without that last check.
Restore(d) ==
    LET rec == run.rec
    IN /\ At(d, "restore")
       /\ \/ /\ Free(rec.path)
             /\ vault' = [vault EXCEPT ![rec.path] = quar[d]]
             /\ Goto(d, "restore_unlink", rec)
          \/ /\ ~ Free(rec.path) \/ "move" \in Faults
             /\ UNCHANGED vault
             /\ FinishRestorable(d, rec)
       /\ UNCHANGED <<quar, rows, proof, journal, result, boot, todo, edits>>

RestoreUnlink(d) ==
    LET rec == run.rec
        rollback == rec.stage = "delete_planned"
    IN /\ At(d, "restore_unlink")
       /\ \/ /\ quar' = [quar EXCEPT ![d] = None]
             /\ UNCHANGED vault
             /\ \/ rollback /\ Rejected(d, rec, "preparing")
                \/ /\ ~ rollback /\ vault[rec.path] = rec.file
                   /\ Rejected(d, rec, "compensating")
                \/ /\ ~ rollback /\ vault[rec.path] # rec.file
                   /\ FinishRestorable(d, rec)
          \/ /\ "move" \in Faults
             /\ MoveUndone(d, rec.path)
             /\ FinishRestorable(d, rec)
       /\ UNCHANGED <<rows, proof, journal, result, boot, todo, edits>>

\* The vector callback, then finalize_quarantine: a failure of either, like a
\* primary that was missing, only degrades the committed delete.
PurgeQuarantine(d) ==
    LET rec == run.rec
    IN /\ At(d, "purge")
       /\ \/ /\ ~ rec.missing
             /\ quar' = [quar EXCEPT ![d] = None]
             /\ \/ FinishCommitted(d, rec, "deleted", "completed")
                \/ /\ d \in Vectors
                   /\ FinishCommitted(d, rec, "degraded", "completed")
          \/ /\ rec.missing \/ "unlink" \in Faults
             /\ UNCHANGED quar
             /\ FinishCommitted(d, rec, "degraded", "completed")
       /\ UNCHANGED <<vault, rows, proof, journal, result, boot, todo, edits>>

-----------------------------------------------------------------------------
(* _finish *)

\* The outcome is merged into the record of the journal: what recovery needs
\* is kept, and a core_committed already recorded stays.
Merged(o) ==
    [journal[o] EXCEPT !.status = run.rec.status, !.stage = run.rec.stage,
                       !.restore = run.rec.restore, !.core = @ \/ run.rec.core]

Finish(o) ==
    /\ At(o, "finish")
    /\ \/ JournalWritten(o, Merged(o)) /\ Returns(o, run.rec.status, run.rec.core)
       \/ JournalFailed(o, Merged(o)) /\ Returns(o, "repair_required", run.rec.core)
    /\ UNCHANGED <<stores, boot, todo, edits>>

-----------------------------------------------------------------------------
(* recover_interrupted_operations *)

Interrupted(o) == journal[o].status \in {"in_progress", "repair_required"}

\* Mutants of ArchiveVerdict: the file is not looked for, or a row is supposed
\* to be there because the record has come so far.
ArchiveVerdictByProof(a, commit) ==
    LET rec == journal[a]
        late == rec.stage \in {"primary_committed", "index_committed"}
    IN CASE rec.path = None \/ commit = "absent" -> "rejected"
         [] late /\ IsAt(rec.file, rec.path) /\ commit = "committed" ->
                IF a \in Vectors THEN "degraded" ELSE "ready"
         [] OTHER -> "block"

ArchiveVerdictByFile(a, commit) ==
    LET rec == journal[a]
        late == rec.stage \in {"primary_committed", "index_committed"}
    IN CASE rec.path = None -> "rejected"
         [] ~ late /\ Free(rec.path) /\ commit = "absent" -> "rejected"
         [] late /\ IsAt(rec.file, rec.path) -> "ready"
         [] OTHER -> "block"

\* _resolve_interrupted_archive: the terminal status the record, the file and
\* the commit state prove, or "block".
ArchiveVerdict(a, commit) ==
    LET rec == journal[a]
        p == rec.path
        late == rec.stage \in {"primary_committed", "index_committed"}
    IN IF p = None THEN "rejected" ELSE
       CASE rec.stage = "preparing" /\ Free(p) /\ commit = "absent" -> "rejected"
         [] late /\ Free(p) /\ commit = "absent" -> "rejected"
         [] late /\ IsAt(rec.file, p) /\ commit = "committed" ->
                IF a \in Vectors THEN "degraded" ELSE "ready"
         [] OTHER -> "block"

\* What recovery sees at the recorded quarantine path and the original path.
QuarantineSeen(d) ==
    IF journal[d].missing \/ quar[d] = None THEN "no"
    ELSE IF quar[d] = journal[d].file /\ ~ TwoNames(quar[d]) THEN "yes" ELSE "other"

OriginalSeen(d) ==
    LET rec == journal[d]
    IN IF Free(rec.path) THEN "no"
       ELSE IF /\ ~ TwoNames(vault[rec.path])
               /\ rec.missing \/ vault[rec.path] = rec.file THEN "yes" ELSE "other"

\* delete_planned: nothing moved, or the move was never journaled.
PlannedVerdict(d, commit) ==
    LET q == QuarantineSeen(d)
        o == OriginalSeen(d)
    IN CASE q = "no" /\ o = "yes" /\ commit = "absent" -> "rejected"
         [] q = "yes" /\ o = "no" /\ commit = "absent" -> "restore"
         [] q = "no" /\ o = "no" /\ journal[d].missing ->
                IF commit = "committed" THEN "degraded" ELSE "rejected"
         [] OTHER -> "block"

QuarantinedVerdict(d, commit) ==
    LET q == QuarantineSeen(d)
        o == OriginalSeen(d)
        missing == journal[d].missing
    IN IF "other" \in {q, o} THEN "block" ELSE
       CASE q = "yes" -> IF commit = "absent" THEN "restore" ELSE "degraded"
         [] q = "no" /\ commit = "committed" ->
                IF missing \/ o = "yes" \/ d \in Vectors THEN "degraded" ELSE "deleted"
         [] q = "no" /\ commit = "absent" /\ (missing \/ o = "yes") -> "rejected"
         [] OTHER -> "block"

\* _resolve_interrupted_delete
DeleteVerdict(d, commit) ==
    LET rec == journal[d]
    IN IF rec.path = None THEN "rejected" ELSE
       CASE commit = "ambiguous" -> "block"
         [] rec.stage = "delete_planned" /\ commit # "ambiguous" ->
                PlannedVerdict(d, commit)
         [] rec.stage = "delete_quarantined" /\ commit # "ambiguous" ->
                QuarantinedVerdict(d, commit)
         [] rec.stage = "compensating" /\ rec.restore /\ commit = "absent"
              /\ QuarantineSeen(d) = "yes" -> "restore"
         [] OTHER -> "block"

Verdict(o, commit) ==
    IF o \in Archives THEN ArchiveVerdict(o, commit) ELSE DeleteVerdict(o, commit)

\* _terminal_record keeps every other field of the record.
Terminal(o, status) ==
    [journal[o] EXCEPT !.status = status,
                       !.stage = IF o \in Archives /\ status = "degraded"
                                 THEN "index_committed" ELSE "completed"]

\* A record that cannot be resolved fails the bootstrap; an audit of a running
\* process goes on without it.
Blocks(o) ==
    /\ run' = Idle
    /\ todo' = todo \ {o}
    /\ boot' = IF boot = "auditing" THEN boot ELSE "failing"

\* Mutant of Resolve: a record that cannot be resolved is terminated too.
ResolveAlways(o) ==
    /\ boot \in Scanning
    /\ run.at = "idle"
    /\ o \in todo
    /\ \E commit \in Probed(o, journal[o].path) :
          Goto(o, "recover_write", Terminal(o, Verdict(o, commit)))
    /\ UNCHANGED <<stores, journal, result, boot, todo, edits>>

Resolve(o) ==
    /\ boot \in Scanning
    /\ run.at = "idle"
    /\ o \in todo
    /\ \E commit \in Probed(o, journal[o].path) :
          LET verdict == Verdict(o, commit)
          IN \/ verdict = "block" /\ Blocks(o)
             \/ /\ verdict = "restore"
                /\ Goto(o, "recover_restore", Terminal(o, "rejected"))
                /\ UNCHANGED <<boot, todo>>
             \/ /\ verdict \notin {"block", "restore"}
                /\ Goto(o, "recover_write", Terminal(o, verdict))
                /\ UNCHANGED <<boot, todo>>
    /\ UNCHANGED <<stores, journal, result, edits>>

\* _restore_quarantine_and_reject
RecoverRestore(d) ==
    LET p == run.rec.path
    IN /\ At(d, "recover_restore")
       /\ \/ /\ Free(p)
             /\ vault' = [vault EXCEPT ![p] = quar[d]]
             /\ Goto(d, "recover_unlink", run.rec)
             /\ UNCHANGED <<boot, todo>>
          \/ /\ ~ Free(p) \/ "move" \in Faults
             /\ UNCHANGED vault
             /\ Blocks(d)
       /\ UNCHANGED <<quar, rows, proof, journal, result, edits>>

RecoverUnlink(d) ==
    LET rec == run.rec
    IN /\ At(d, "recover_unlink")
       /\ \/ /\ quar' = [quar EXCEPT ![d] = None]
             /\ UNCHANGED vault
             /\ IF vault[rec.path] = rec.file
                THEN Goto(d, "recover_write", rec) /\ UNCHANGED <<boot, todo>>
                ELSE Blocks(d)
          \/ /\ "move" \in Faults
             /\ MoveUndone(d, rec.path)
             /\ Blocks(d)
       /\ UNCHANGED <<rows, proof, journal, result, edits>>

RecoverWrite(o) ==
    /\ At(o, "recover_write")
    /\ \/ /\ JournalWritten(o, run.rec)
          /\ run' = Idle
          /\ todo' = todo \ {o}
          /\ UNCHANGED boot
       \/ JournalFailed(o, run.rec) /\ Blocks(o)
    /\ UNCHANGED <<stores, result, edits>>

\* bootstrap_runtime, and recover_and_drain in a running process.
StartScan ==
    /\ run.at = "idle"
    /\ \/ boot = "down" /\ boot' = "booting"
       \/ boot = "up" /\ boot' = "auditing"
    /\ todo' = {o \in Ops : Interrupted(o)}
    /\ UNCHANGED <<stores, journal, run, result, edits>>

EndScan ==
    /\ boot \in Scanning
    /\ run.at = "idle"
    /\ todo = {}
    /\ boot' = IF boot = "failing" THEN "down" ELSE "up"
    /\ UNCHANGED <<stores, journal, run, result, todo, edits>>

-----------------------------------------------------------------------------
(* The environment *)

\* An editor replaces files; it can remove them too.  The quarantine directory
\* is hidden and left alone.
UserEdits(p) ==
    /\ edits < MaxEdits
    /\ edits' = edits + 1
    /\ \/ vault' = [vault EXCEPT ![p] = edits + 1]
       \/ ~ Free(p) /\ vault' = [vault EXCEPT ![p] = None]
    /\ UNCHANGED <<quar, rows, proof, journal, memory>>

Crash ==
    /\ boot # "down"
    /\ boot' = "down"
    /\ run' = Idle
    /\ result' = NoResult
    /\ todo' = {}
    /\ UNCHANGED <<stores, journal, edits>>

ArchiveStep(a) ==
    \/ PlanArchive(a) \/ PlanArchiveFails(a) \/ PublishArchive(a)
    \/ JournalPrimary(a) \/ IndexArchive(a) \/ JournalCompensating(a)
    \/ UndoPrimary(a) \/ UndoUnlink(a) \/ JournalIndex(a)

DeleteStep(d) ==
    \/ PlanDelete(d) \/ PlanDeleteRefused(d) \/ QuarantineCheck(d)
    \/ QuarantineLink(d) \/ UnlinkOriginal(d) \/ VerifyQuarantine(d)
    \/ JournalQuarantined(d) \/ RemoveRow(d) \/ Restore(d) \/ RestoreUnlink(d)
    \/ PurgeQuarantine(d) \/ RecoverRestore(d) \/ RecoverUnlink(d)

Step ==
    \/ \E a \in Archives : ArchiveStep(a)
    \/ \E d \in Deletes : DeleteStep(d)
    \/ \E o \in Ops : Finish(o) \/ Resolve(o) \/ RecoverWrite(o)
    \/ StartScan
    \/ EndScan

Environment == Crash \/ \E p \in Paths : UserEdits(p)

Next == Step \/ Environment \/ \E o \in Ops : Begin(o)

Spec == Init /\ [][Next]_vars

-----------------------------------------------------------------------------
(* Properties *)

\* A file d holds in quarantine.  One being put back counts at its path only.
Holds(d) ==
    quar[d] # None /\ ~ At(d, "restore_unlink") /\ ~ At(d, "recover_unlink")

OnDisk(f) == InVault(f) \/ \E d \in Deletes : Holds(d) /\ quar[d] = f

\* What the journal says for good is true of the stores: a success or a
\* core_committed flag has its proof in SQLite, a rejection left neither proof
\* nor published file, and a delete reported complete left no quarantined
\* file -- whether _finish wrote the record or a recovery after a crash did.
JournalTellsTruth ==
    \A o \in Ops :
        LET rec == journal[o]
        IN /\ rec.core \/ rec.status \in {"ready", "degraded", "deleted"}
                 => proof[o] # None
           /\ rec.status = "rejected" => proof[o] = None /\ ~ InVault(o)
           /\ rec.status = "deleted" => quar[o] = None

\* retry_safe: a caller told "rejected, core not committed" may call again,
\* because nothing was committed and no file was left; a caller told that the
\* core is committed has its proof.
RetrySafeIsSafe ==
    LET o == result.op
    IN o # None =>
        /\ result.core => proof[o] # None
        /\ result.status = "rejected" /\ ~ result.core =>
               proof[o] = None /\ ~ InVault(o)

\* A published file whose row was never committed is never forgotten: the
\* journal of its archive is one that pending_repairs and the next bootstrap
\* still look at.
OrphansAreListed ==
    \A a \in Archives : InVault(a) /\ proof[a] = None => Interrupted(a)

\* What a caller, a later start and an operator may rely on after any crash.
JournalInv == JournalTellsTruth /\ RetrySafeIsSafe /\ OrphansAreListed

\* A row's Markdown file: at its path, or in the quarantine of its delete.
HasPrimary(a) == ~ Free(rows[a]) \/ \E d \in Deletes : target[d] = a /\ Holds(d)

\* While a knowledge row stays, no step of the program takes its Markdown file
\* away: not an undone archive, not a delete that is compensated, recovered or
\* given up half way.
PrimaryKept ==
    [][\A a \in Archives :
          rows[a] # None /\ rows'[a] = rows[a] /\ HasPrimary(a) /\ edits' = edits
            => HasPrimary(a)']_vars

\* What the user wrote disappears only when the user removes it, when a
\* committed delete purges the very file it fingerprinted, or in the instant
\* between a check and its unlink, which POSIX cannot close.
UserFilesSurvive ==
    [][\A v \in Versions :
          OnDisk(v) /\ ~ OnDisk(v)' =>
             \/ edits' # edits
             \/ run.at = "purge" /\ proof[run.op] # None /\ run.rec.file = v
             \/ run.at \in {"undo_unlink", "unlink_original"}]_vars

\* delete_if_identity: "Delete only the exact identity and content expected by
\* the caller."
DeletesOnlyExpected ==
    [][At(run.op, "undo_unlink") /\ vault' # vault /\ edits' = edits
         => vault[run.rec.path] = run.rec.file]_vars

\* _move_no_clobber keeps both names when it cannot undo a move, and "the caller
\* will surface a repair state": a quarantined file always has a record that
\* asks for repair.
LeftoverSurfaces ==
    \A d \in Deletes :
        quar[d] # None => journal[d].status \in {"in_progress", "repair_required",
                                               "degraded"}

\* recover_interrupted_operations terminates provable states "idempotently in
\* the journal": a recovery interrupted just before it writes the terminal
\* record can be run again and does not block on its own work.
RecoveryRestartable ==
    run.at = "recover_write" =>
        \E commit \in Probed(run.op, journal[run.op].path) :
            Verdict(run.op, commit) # "block"

=============================================================================
