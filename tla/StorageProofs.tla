---------------------------- MODULE StorageProofs ----------------------------
(***************************************************************************)
(* Theorems about the storage coordinator and the content queue, for any   *)
(* archives, deletes, paths, edits, faults, crashes and lengths of a drain.*)
(*                                                                         *)
(* First the coordinator: its types, then that the journal of operations   *)
(* tells the truth and that no file is lost.  Then the rows of the queue.  *)
(*                                                                         *)
(* A retry starts its operation again over the record of the last attempt, *)
(* so the invariant of the coordinator does not hold in the queue; what    *)
(* the queue relies on is weaker: a record that says core_committed has    *)
(* its proof, and only the operation under way can change its own record.  *)
(***************************************************************************)
EXTENDS MCQueues, SequenceTheorems, WellFoundedInduction, TLAPS

Runs == [op : Ops \cup {None}, at : Steps, rec : Records]
Results == [op : Ops \cup {None}, status : Statuses, core : BOOLEAN]

\* Type correctness is inductive once the path of a delete that moves a file is
\* known to be one.
PathKnown == run.at \in {"quarantine", "link"} => run.rec.path \in Paths

TypeInv == TypeOK /\ PathKnown

-----------------------------------------------------------------------------
(* Journal records and the building blocks of the actions *)

\* The two records the journal starts from are journal records.
LEMMA RecordsTyped ==
  /\ NoRecord \in Records
  /\ JournalCreated \in Records
  BY DEF NoRecord, JournalCreated, Records, Statuses, Stages

\* The record of a planned delete.
Planned(p, f, m) == [JournalCreated EXCEPT !.stage = "delete_planned", !.path = p,
                                           !.file = f, !.missing = m]

\* It is a journal record with the path it plans.
LEMMA PlannedTyped ==
  ASSUME NEW p \in Paths, NEW f \in Files \cup {None}, NEW m \in BOOLEAN
  PROVE  /\ Planned(p, f, m) \in Records /\ Planned(p, f, m).path = p
         /\ ~ Planned(p, f, m).core
  <1>1. JournalCreated \in Records /\ ~ JournalCreated.core
    BY RecordsTyped DEF JournalCreated, NoRecord
  <1>2. "delete_planned" \in Stages
    BY DEF Stages
  <1> QED
    BY <1>1, <1>2 DEF Records, Planned

\* A record keeps its type when its outcome is written into it.
LEMMA OutcomeTyped ==
  ASSUME NEW rec \in Records, NEW status \in Statuses, NEW stage \in Stages,
         NEW restore \in BOOLEAN, NEW core \in BOOLEAN
  PROVE  /\ [rec EXCEPT !.status = status, !.stage = stage] \in Records
         /\ [rec EXCEPT !.status = status, !.stage = stage,
                        !.restore = restore] \in Records
         /\ [rec EXCEPT !.status = status, !.stage = stage,
                        !.restore = restore, !.core = core] \in Records
  BY DEF Records

\* An operation that goes on to a step takes a typed record with it.
LEMMA GotoTyped ==
  ASSUME NEW o \in Ops, NEW step \in Steps, NEW rec \in Records,
         Goto(o, step, rec)
  PROVE  run' \in Runs /\ run'.at = step /\ run'.rec = rec
  BY DEF Goto, Runs

\* The state with no operation under way, and the result of none, are typed.
LEMMA IdleTyped ==
  /\ Idle \in Runs /\ Idle.at = "idle"
  /\ NoResult \in Results
  <1>1. "idle" \in Steps /\ "none" \in Statuses
    BY DEF Steps, Statuses
  <1>2. QED
    BY <1>1, RecordsTyped DEF Idle, NoResult, Runs, Results

\* An operation that returns leaves a typed result and no operation under way.
LEMMA ReturnsTyped ==
  ASSUME NEW o \in Ops, NEW status \in Statuses, NEW core \in BOOLEAN,
         Returns(o, status, core)
  PROVE  run' \in Runs /\ run'.at = "idle" /\ result' \in Results
  BY IdleTyped DEF Returns, Results

\* Every way to finish leaves a typed run that is about to call _finish.
LEMMA FinishingTyped ==
  ASSUME NEW o \in Ops, NEW rec \in Records,
         NEW status \in Statuses, NEW stage \in Stages,
         \/ Finishing(o, rec, status, stage)
         \/ FinishCommitted(o, rec, status, stage)
         \/ FinishRestorable(o, rec)
         \/ Rejected(o, rec, stage)
         \/ NeedsRepair(o, rec, stage)
  PROVE  run' \in Runs /\ run'.at = "finish"
  <1>1. "finish" \in Steps
    BY DEF Steps
  <1>2. {"repair_required", "rejected"} \subseteq Statuses /\ "compensating" \in Stages
    BY DEF Statuses, Stages
  <1>3. PICK final \in Records : Goto(o, "finish", final)
    BY <1>2, OutcomeTyped
       DEF Finishing, FinishCommitted, FinishRestorable, Rejected, NeedsRepair
  <1>4. QED
    BY <1>1, <1>3, GotoTyped DEF Goto

\* A journal write, done or failed, leaves typed records.
LEMMA JournalTyped ==
  ASSUME NEW o \in Ops, NEW rec \in Records, journal \in [Ops -> Records],
         JournalWritten(o, rec) \/ JournalFailed(o, rec)
  PROVE  journal' \in [Ops -> Records]
  BY DEF JournalWritten, JournalFailed

\* Recovery decides on a status of the journal, or to block, or to restore.
LEMMA VerdictTyped ==
  ASSUME NEW o \in Ops, NEW commit
  PROVE  Verdict(o, commit) \in Statuses \cup {"block", "restore"}
  <1>1. o \in Archives => ArchiveVerdict(o, commit) \in Statuses \cup {"block"}
    BY DEF ArchiveVerdict, Statuses
  <1>2. PlannedVerdict(o, commit) \in Statuses \cup {"block", "restore"}
    BY DEF PlannedVerdict, Statuses
  <1>3. QuarantinedVerdict(o, commit) \in Statuses \cup {"block", "restore"}
    BY DEF QuarantinedVerdict, Statuses
  <1>4. DeleteVerdict(o, commit) \in Statuses \cup {"block", "restore"}
    BY <1>2, <1>3 DEF DeleteVerdict, Statuses
  <1>5. QED
    BY <1>1, <1>4 DEF Verdict

-----------------------------------------------------------------------------
(* Archive *)

\* The first record of an operation, written or refused, keeps the types.
LEMMA StartTyped ==
  ASSUME TypeInv, NEW o \in Ops, Start(o)
  PROVE  TypeInv'
  <1> USE DEF TypeInv, TypeOK, PathKnown, Runs, Results, stores
  <1>1. journal' \in [Ops -> Records]
    BY RecordsTyped, JournalTyped DEF Start
  <1>2. /\ run' \in Runs /\ run'.at \notin {"quarantine", "link"}
        /\ result' \in Results
    <2>1. CASE Goto(o, "plan", JournalCreated) /\ result' = NoResult
      BY <2>1, RecordsTyped, IdleTyped, GotoTyped DEF Steps
    <2>2. CASE Returns(o, "rejected", FALSE)
      BY <2>2, ReturnsTyped DEF Statuses
    <2>3. QED
      BY <2>1, <2>2 DEF Start
  <1>3. QED
    BY <1>1, <1>2 DEF Start

\* Planning an archive, or finding no free name, keeps the types.
LEMMA PlanArchiveTyped ==
  ASSUME TypeInv, NEW a \in Archives, PlanArchive(a) \/ PlanArchiveFails(a)
  PROVE  TypeInv'
  <1> USE DEF TypeInv, TypeOK, PathKnown, Ops, Runs, Results, stores
  <1>1. CASE PlanArchiveFails(a)
    <2>1. run' \in Runs /\ run'.at = "finish"
      BY <1>1, RecordsTyped, FinishingTyped DEF PlanArchiveFails, Stages
    <2>2. QED
      BY <1>1, <2>1 DEF PlanArchiveFails
  <1>2. CASE PlanArchive(a)
    <2>1. PICK rec \in Records :
            \/ JournalWritten(a, rec) /\ Goto(a, "publish", rec)
            \/ JournalFailed(a, rec) /\ Rejected(a, JournalCreated, "preparing")
      BY <1>2, RecordsTyped DEF PlanArchive, Records
    <2>2. journal' \in [Ops -> Records]
      BY <2>1, JournalTyped
    <2>3. run' \in Runs /\ run'.at \in {"publish", "finish"}
      BY <2>1, RecordsTyped, FinishingTyped DEF Goto, Steps, Stages
    <2>4. QED
      BY <1>2, <2>2, <2>3 DEF PlanArchive
  <1>3. QED
    BY <1>1, <1>2

\* Publishing the Markdown file keeps the types.
LEMMA PublishArchiveTyped ==
  ASSUME TypeInv, NEW a \in Archives, PublishArchive(a)
  PROVE  TypeInv'
  <1> USE DEF TypeInv, TypeOK, PathKnown, Ops, Runs, Results
  <1>1. vault' \in [Paths -> Files \cup {None}]
    BY DEF PublishArchive, Files
  <1>2. run' \in Runs /\ run'.at \in {"journal_primary", "finish"}
    <2>1. [run.rec EXCEPT !.file = a, !.stage = "primary_committed"] \in Records
      BY DEF Records, Files, Stages
    <2>2. \/ Goto(a, "journal_primary",
                  [run.rec EXCEPT !.file = a, !.stage = "primary_committed"])
          \/ NeedsRepair(a, run.rec, "primary_committed")
          \/ Rejected(a, run.rec, "preparing")
      BY DEF PublishArchive
    <2>3. QED
      BY <2>1, <2>2, FinishingTyped, GotoTyped DEF Steps, Stages, Statuses
  <1>3. QED
    BY <1>1, <1>2 DEF PublishArchive

\* Journaling the published file, or its compensation, keeps the types.
LEMMA JournalPrimaryTyped ==
  ASSUME TypeInv, NEW a \in Archives, JournalPrimary(a) \/ JournalCompensating(a)
  PROVE  TypeInv'
  <1> USE DEF TypeInv, TypeOK, PathKnown, Ops, Runs, Results, stores
  <1>1. journal' \in [Ops -> Records]
    BY JournalTyped DEF JournalPrimary, JournalCompensating
  <1>2. run' \in Runs /\ run'.at \in {"index", "undo"}
    BY GotoTyped DEF JournalPrimary, JournalCompensating, Steps
  <1>3. QED
    BY <1>1, <1>2 DEF JournalPrimary, JournalCompensating

\* The insert transaction and its reconciliation keep the types.
LEMMA IndexArchiveTyped ==
  ASSUME TypeInv, NEW a \in Archives, IndexArchive(a)
  PROVE  TypeInv'
  <1> USE DEF TypeInv, TypeOK, PathKnown, Ops, Runs, Results
  <1>1. /\ rows' \in [Archives -> Paths \cup {None}]
        /\ proof' \in [Ops -> Paths \cup {None}]
    BY DEF IndexArchive, Records
  <1>2. run' \in Runs /\ run'.at \notin {"quarantine", "link"}
    <2>1. [run.rec EXCEPT !.stage = "compensating"] \in Records
      BY DEF Records, Stages
    <2>2. \/ Goto(a, "journal_index", run.rec)
          \/ NeedsRepair(a, run.rec, "primary_committed")
          \/ Goto(a, "journal_compensating", [run.rec EXCEPT !.stage = "compensating"])
      BY DEF IndexArchive, Probed, ArchiveProbe
    <2>3. QED
      BY <2>1, <2>2, FinishingTyped, GotoTyped DEF Steps, Stages
  <1>3. QED
    BY <1>1, <1>2 DEF IndexArchive

\* Undoing the published file keeps the types.
LEMMA UndoTyped ==
  ASSUME TypeInv, NEW a \in Archives, UndoPrimary(a) \/ UndoUnlink(a)
  PROVE  TypeInv'
  <1> USE DEF TypeInv, TypeOK, PathKnown, Ops, Runs, Results, stores
  <1>1. vault' \in [Paths -> Files \cup {None}]
    BY DEF UndoPrimary, UndoUnlink
  <1>2. run' \in Runs /\ run'.at \in {"undo_unlink", "finish"}
    <2>1. \/ Goto(a, "undo_unlink", run.rec)
          \/ NeedsRepair(a, run.rec, "compensating")
          \/ Rejected(a, run.rec, "compensating")
      BY DEF UndoPrimary, UndoUnlink
    <2>2. QED
      BY <2>1, FinishingTyped, GotoTyped DEF Steps, Stages
  <1>3. QED
    BY <1>1, <1>2 DEF UndoPrimary, UndoUnlink

\* Journaling the committed insert keeps the types.
LEMMA JournalIndexTyped ==
  ASSUME TypeInv, NEW a \in Archives, JournalIndex(a)
  PROVE  TypeInv'
  <1> USE DEF TypeInv, TypeOK, PathKnown, Ops, Runs, Results, stores
  <1>1. PICK rec \in Records :
          /\ JournalWritten(a, rec) \/ JournalFailed(a, rec)
          /\ \/ FinishCommitted(a, rec, "ready", "completed")
             \/ FinishCommitted(a, rec, "degraded", "index_committed")
             \/ FinishCommitted(a, run.rec, "repair_required", "index_committed")
    <2>1. [run.rec EXCEPT !.stage = "index_committed"] \in Records
      BY DEF Records, Stages
    <2>2. QED
      BY <2>1 DEF JournalIndex
  <1>2. journal' \in [Ops -> Records]
    BY <1>1, JournalTyped
  <1>3. run' \in Runs /\ run'.at = "finish"
    BY <1>1, FinishingTyped DEF Stages, Statuses
  <1>4. QED
    BY <1>2, <1>3 DEF JournalIndex

-----------------------------------------------------------------------------
(* Delete *)

\* Planning a delete keeps the types: the path it reads from a row that exists is
\* a path of the vault.
LEMMA PlanDeleteTyped ==
  ASSUME TypeInv, NEW d \in Deletes, PlanDelete(d) \/ PlanDeleteRefused(d)
  PROVE  TypeInv'
  <1> USE DEF TypeInv, TypeOK, PathKnown, Ops, Runs, Results, stores
  <1>1. CASE PlanDeleteRefused(d)
    <2>1. run' \in Runs /\ run'.at = "finish"
      BY <1>1, RecordsTyped, FinishingTyped DEF PlanDeleteRefused, Stages
    <2>2. QED
      BY <1>1, <2>1 DEF PlanDeleteRefused
  <1>2. CASE PlanDelete(d)
    <2> DEFINE p == rows[target[d]]
               rec == [JournalCreated EXCEPT !.stage = "delete_planned", !.path = p,
                                             !.file = vault[p], !.missing = Free(p)]
    <2>1. p \in Paths
      BY <1>2, StorageAssumption DEF PlanDelete
    <2>2. rec \in Records /\ rec.path \in Paths
      <3>1. vault[p] \in Files \cup {None} /\ Free(p) \in BOOLEAN
        BY <2>1 DEF Free
      <3>2. rec = Planned(p, vault[p], Free(p))
        BY DEF Planned
      <3> HIDE DEF rec, p
      <3> QED
        BY <2>1, <3>1, <3>2, PlannedTyped
    <2>3. \/ JournalWritten(d, rec) /\ Goto(d, "journal_quarantined", rec)
          \/ JournalWritten(d, rec) /\ Goto(d, "quarantine", rec)
          \/ JournalFailed(d, rec) /\ Rejected(d, JournalCreated, "preparing")
      BY <1>2 DEF PlanDelete
    <2> HIDE DEF p, rec
    <2>4. journal' \in [Ops -> Records]
      BY <2>2, <2>3, JournalTyped
    <2>5. run' \in Runs /\ PathKnown'
      <3>1. CASE Rejected(d, JournalCreated, "preparing")
        BY <3>1, RecordsTyped, FinishingTyped DEF Stages
      <3>2. CASE \E step \in {"journal_quarantined", "quarantine"} : Goto(d, step, rec)
        BY <2>2, <3>2, GotoTyped DEF Steps
      <3> QED
        BY <2>3, <3>1, <3>2
    <2>6. QED
      BY <1>2, <2>4, <2>5 DEF PlanDelete
  <1>3. QED
    BY <1>1, <1>2

\* The check and the link of the quarantine move keep the types: the link is made
\* from a path of the vault, so that what enters the slot is a file.
LEMMA QuarantineTyped ==
  ASSUME TypeInv, NEW d \in Deletes, QuarantineCheck(d) \/ QuarantineLink(d)
  PROVE  TypeInv'
  <1> USE DEF TypeInv, TypeOK, PathKnown, Ops, Runs, Results, stores
  <1>1. quar' \in [Deletes -> Files \cup {None}]
    BY DEF QuarantineCheck, QuarantineLink, At
  <1>2. run' \in Runs /\ PathKnown'
    <2>1. \/ At(d, "quarantine") /\ Goto(d, "link", run.rec)
          \/ Goto(d, "unlink_original", run.rec)
          \/ Rejected(d, run.rec, "preparing")
      BY DEF QuarantineCheck, QuarantineLink
    <2>2. QED
      BY <2>1, FinishingTyped, GotoTyped DEF Steps, Stages, At
  <1>3. QED
    BY <1>1, <1>2 DEF QuarantineCheck, QuarantineLink

\* The second half of the quarantine move keeps the types.
LEMMA UnlinkOriginalTyped ==
  ASSUME TypeInv, NEW d \in Deletes, UnlinkOriginal(d) \/ VerifyQuarantine(d)
  PROVE  TypeInv'
  <1> USE DEF TypeInv, TypeOK, PathKnown, Ops, Runs, Results
  <1>1. /\ vault' \in [Paths -> Files \cup {None}]
        /\ quar' \in [Deletes -> Files \cup {None}]
    BY DEF UnlinkOriginal, VerifyQuarantine
  <1>2. run' \in Runs
        /\ run'.at \in {"verify", "finish", "journal_quarantined", "restore"}
    <2>1. \/ Goto(d, "verify", run.rec)
          \/ Goto(d, "journal_quarantined", run.rec)
          \/ Goto(d, "restore", run.rec)
          \/ Rejected(d, run.rec, "preparing")
          \/ FinishRestorable(d, run.rec)
      BY DEF UnlinkOriginal, VerifyQuarantine
    <2>2. QED
      BY <2>1, FinishingTyped, GotoTyped DEF Steps, Stages, Statuses
  <1>3. QED
    BY <1>1, <1>2 DEF UnlinkOriginal, VerifyQuarantine

\* Journaling the quarantine keeps the types.
LEMMA JournalQuarantinedTyped ==
  ASSUME TypeInv, NEW d \in Deletes, JournalQuarantined(d)
  PROVE  TypeInv'
  <1> USE DEF TypeInv, TypeOK, PathKnown, Ops, Runs, Results, stores
  <1>1. PICK rec \in Records :
          /\ JournalWritten(d, rec) \/ JournalFailed(d, rec)
          /\ \/ Goto(d, "remove", rec)
             \/ Goto(d, "restore", rec)
             \/ Rejected(d, rec, "compensating")
    <2>1. [run.rec EXCEPT !.stage = "delete_quarantined"] \in Records
      BY DEF Records, Stages
    <2>2. QED
      BY <2>1 DEF JournalQuarantined
  <1>2. journal' \in [Ops -> Records]
    BY <1>1, JournalTyped
  <1>3. run' \in Runs /\ run'.at \in {"remove", "restore", "finish"}
    BY <1>1, FinishingTyped, GotoTyped DEF Steps, Stages
  <1>4. QED
    BY <1>2, <1>3 DEF JournalQuarantined

\* The delete transaction and its reconciliation keep the types.
LEMMA RemoveRowTyped ==
  ASSUME TypeInv, NEW d \in Deletes, RemoveRow(d)
  PROVE  TypeInv'
  <1> USE DEF TypeInv, TypeOK, PathKnown, Ops, Runs, Results
  <1>1. /\ rows' \in [Archives -> Paths \cup {None}]
        /\ proof' \in [Ops -> Paths \cup {None}]
    BY DEF RemoveRow, Records
  <1>2. run' \in Runs /\ run'.at \in {"purge", "restore", "finish"}
    <2>1. \/ Goto(d, "purge", run.rec)
          \/ Goto(d, "restore", run.rec)
          \/ NeedsRepair(d, run.rec, "delete_quarantined")
          \/ NeedsRepair(d, run.rec, "compensating")
      <3>1. \A answer \in Probed(d, run.rec.path) :
              answer \in {"committed", "ambiguous", "absent"}
        BY DEF Probed, ArchiveProbe, DeleteProbe
      <3>2. QED
        BY <3>1 DEF RemoveRow
    <2>2. QED
      BY <2>1, FinishingTyped, GotoTyped DEF Steps, Stages
  <1>3. QED
    BY <1>1, <1>2 DEF RemoveRow

\* Restoring the quarantined file, or purging it, keeps the types.
LEMMA RestoreTyped ==
  ASSUME TypeInv, NEW d \in Deletes,
         Restore(d) \/ RestoreUnlink(d) \/ PurgeQuarantine(d)
  PROVE  TypeInv'
  <1> USE DEF TypeInv, TypeOK, PathKnown, Ops, Runs, Results
  <1>1. /\ vault' \in [Paths -> Files \cup {None}]
        /\ quar' \in [Deletes -> Files \cup {None}]
    BY DEF Restore, RestoreUnlink, PurgeQuarantine, MoveUndone
  <1>2. run' \in Runs /\ run'.at \in {"restore_unlink", "finish"}
    <2>1. \/ Goto(d, "restore_unlink", run.rec)
          \/ FinishRestorable(d, run.rec)
          \/ Rejected(d, run.rec, "preparing")
          \/ Rejected(d, run.rec, "compensating")
          \/ FinishCommitted(d, run.rec, "deleted", "completed")
          \/ FinishCommitted(d, run.rec, "degraded", "completed")
      BY DEF Restore, RestoreUnlink, PurgeQuarantine
    <2>2. QED
      BY <2>1, FinishingTyped, GotoTyped DEF Steps, Stages, Statuses
  <1>3. QED
    BY <1>1, <1>2 DEF Restore, RestoreUnlink, PurgeQuarantine

-----------------------------------------------------------------------------
(* _finish and recovery *)

\* _finish merges a typed outcome into a typed record.
LEMMA FinishTyped ==
  ASSUME TypeInv, NEW o \in Ops, Finish(o)
  PROVE  TypeInv'
  <1> USE DEF TypeInv, TypeOK, PathKnown, Runs, Results, stores
  <1>1. Merged(o) \in Records
    BY DEF Merged, Records
  <1>2. journal' \in [Ops -> Records]
    BY <1>1, JournalTyped DEF Finish
  <1>3. run' \in Runs /\ run'.at = "idle" /\ result' \in Results
    <2>1. /\ run.rec.status \in Statuses /\ "repair_required" \in Statuses
          /\ run.rec.core \in BOOLEAN
      BY DEF Records, Statuses
    <2>2. QED
      BY <2>1, ReturnsTyped DEF Finish
  <1>4. QED
    BY <1>2, <1>3 DEF Finish

\* A record that blocks recovery leaves the process idle.
LEMMA BlocksTyped ==
  ASSUME TypeInv, NEW o \in Ops, Blocks(o)
  PROVE  /\ run' \in Runs /\ run'.at = "idle"
         /\ boot' \in {"down", "up"} \cup Scanning
         /\ todo' \subseteq Ops
  BY IdleTyped DEF Blocks, TypeInv, TypeOK, Scanning

\* Resolving an interrupted record keeps the types, whatever the probe answers.
LEMMA ResolveTyped ==
  ASSUME TypeInv, NEW o \in Ops, Resolve(o)
  PROVE  TypeInv'
  <1> USE DEF TypeInv, TypeOK, PathKnown, Runs, Results, stores
  <1>1. \A status \in Statuses : Terminal(o, status) \in Records
    BY DEF Terminal, Records, Stages
  <1>2. PICK commit \in Probed(o, journal[o].path) :
          LET verdict == Verdict(o, commit)
          IN \/ Blocks(o)
             \/ /\ Goto(o, "recover_restore", Terminal(o, "rejected"))
                /\ UNCHANGED <<boot, todo>>
             \/ /\ verdict \notin {"block", "restore"}
                /\ Goto(o, "recover_write", Terminal(o, verdict))
                /\ UNCHANGED <<boot, todo>>
    BY DEF Resolve
  <1>3. \/ Blocks(o)
        \/ \E rec \in Records :
              /\ \/ Goto(o, "recover_restore", rec)
                 \/ Goto(o, "recover_write", rec)
              /\ UNCHANGED <<boot, todo>>
    BY <1>1, <1>2, VerdictTyped DEF Statuses
  <1>4. /\ run' \in Runs /\ run'.at \notin {"quarantine", "link"}
        /\ boot' \in {"down", "up"} \cup Scanning
        /\ todo' \subseteq Ops
    BY <1>3, BlocksTyped, GotoTyped DEF Steps
  <1>5. QED
    BY <1>4 DEF Resolve

\* The restore of a recovery keeps the types.
LEMMA RecoverMoveTyped ==
  ASSUME TypeInv, NEW d \in Deletes, RecoverRestore(d) \/ RecoverUnlink(d)
  PROVE  TypeInv'
  <1> USE DEF TypeInv, TypeOK, PathKnown, Ops, Runs, Results
  <1>1. /\ vault' \in [Paths -> Files \cup {None}]
        /\ quar' \in [Deletes -> Files \cup {None}]
    BY DEF RecoverRestore, RecoverUnlink, MoveUndone
  <1>2. \/ Blocks(d)
        \/ /\ Goto(d, "recover_unlink", run.rec) \/ Goto(d, "recover_write", run.rec)
           /\ UNCHANGED <<boot, todo>>
    BY DEF RecoverRestore, RecoverUnlink
  <1>3. /\ run' \in Runs /\ run'.at \notin {"quarantine", "link"}
        /\ boot' \in {"down", "up"} \cup Scanning
        /\ todo' \subseteq Ops
    BY <1>2, BlocksTyped, GotoTyped DEF Steps
  <1>4. QED
    BY <1>1, <1>3 DEF RecoverRestore, RecoverUnlink

\* The terminal record of a recovery keeps the types.
LEMMA RecoverWriteTyped ==
  ASSUME TypeInv, NEW o \in Ops, RecoverWrite(o)
  PROVE  TypeInv'
  <1> USE DEF TypeInv, TypeOK, PathKnown, Runs, Results, stores
  <1>1. journal' \in [Ops -> Records]
    BY JournalTyped DEF RecoverWrite
  <1>2. /\ run' \in Runs /\ run'.at = "idle"
        /\ boot' \in {"down", "up"} \cup Scanning
        /\ todo' \subseteq Ops
    BY IdleTyped, BlocksTyped DEF RecoverWrite
  <1>3. QED
    BY <1>1, <1>2 DEF RecoverWrite

\* The start and the end of a journal scan keep the types.
LEMMA ScanTyped ==
  ASSUME TypeInv, StartScan \/ EndScan
  PROVE  TypeInv'
  BY DEF TypeInv, TypeOK, PathKnown, StartScan, EndScan, Scanning, stores

-----------------------------------------------------------------------------
(* The environment, and the theorem *)

\* Crashes and the user's edits keep the types.
LEMMA EnvironmentTyped ==
  ASSUME TypeInv, Environment
  PROVE  TypeInv'
  <1> USE DEF TypeInv, TypeOK, PathKnown
  <1>1. CASE Crash
    BY <1>1, IdleTyped DEF Crash, Runs, Results, stores
  <1>2. CASE \E p \in Paths : UserEdits(p)
    <2>1. PICK p \in Paths : UserEdits(p)
      BY <1>2
    <2>2. edits' \in 0..MaxEdits /\ edits + 1 \in Files
      BY <2>1, StorageAssumption DEF UserEdits, Files, Versions
    <2>3. vault' \in [Paths -> Files \cup {None}]
      BY <2>1, <2>2 DEF UserEdits
    <2>4. QED
      BY <2>1, <2>2, <2>3 DEF UserEdits, memory
  <1>3. QED
    BY <1>1, <1>2 DEF Environment

\* The empty vault and journal are typed.
LEMMA InitTyped ==
  ASSUME Init
  PROVE  TypeInv
  BY RecordsTyped, IdleTyped, StorageAssumption
     DEF Init, TypeInv, TypeOK, PathKnown, Runs, Results

\* Every step of the coordinator, of its recovery and of the environment keeps
\* the types, one lemma per operation.
LEMMA NextTyped ==
  ASSUME TypeInv, [Next]_vars
  PROVE  TypeInv'
  <1>1. CASE \E a \in Archives : ArchiveStep(a)
    BY <1>1, PlanArchiveTyped, PublishArchiveTyped, JournalPrimaryTyped,
       IndexArchiveTyped, UndoTyped, JournalIndexTyped DEF ArchiveStep
  <1>2. CASE \E d \in Deletes : DeleteStep(d)
    BY <1>2, PlanDeleteTyped, QuarantineTyped, UnlinkOriginalTyped,
       JournalQuarantinedTyped, RemoveRowTyped, RestoreTyped, RecoverMoveTyped
       DEF DeleteStep
  <1>3. CASE \E o \in Ops : Finish(o) \/ Resolve(o) \/ RecoverWrite(o)
    BY <1>3, FinishTyped, ResolveTyped, RecoverWriteTyped
  <1>4. CASE StartScan \/ EndScan
    BY <1>4, ScanTyped
  <1>5. CASE Environment
    BY <1>5, EnvironmentTyped
  <1>6. CASE \E o \in Ops : Begin(o)
    BY <1>6, StartTyped DEF Begin
  <1>7. CASE UNCHANGED vars
    BY <1>7 DEF vars, stores, memory, TypeInv, TypeOK, PathKnown
  <1>8. QED
    BY <1>1, <1>2, <1>3, <1>4, <1>5, <1>6, <1>7 DEF Next, Step

\* In every reachable state of the coordinator -- whatever faults, crashes and
\* edits came before -- the stores, the journal and the operation in memory hold
\* only values the program can give them; above all, what a delete moves to its
\* quarantine is a file and never what a missing path would read as.
THEOREM TypeCorrect == Spec => []TypeOK
  <1>1. Init => TypeInv
    BY InitTyped
  <1>2. TypeInv /\ [Next]_vars => TypeInv'
    BY NextTyped
  <1>3. TypeInv => TypeOK
    BY DEF TypeInv
  <1>4. QED
    BY <1>1, <1>2, <1>3, PTL DEF Spec

-----------------------------------------------------------------------------
(* The journal tells the truth *)

Recovering == {"recover_restore", "recover_unlink", "recover_write"}
Publishing == {"publish", "journal_primary", "index"}
Undoing == {"journal_compensating", "undo", "undo_unlink"}
Moving == {"quarantine", "link", "unlink_original", "verify"}
Putting == {"restore", "restore_unlink", "recover_restore", "recover_unlink"}
Removing == {"journal_quarantined", "remove"}

\* A published file is at the path its journal record plans.  A delete holds in
\* quarantine only what had a committed row, and from that same path.
FilesAtHome ==
  \A a \in Archives :
    /\ \A p \in Paths : vault[p] = a => journal[a].path = p
    /\ \A d \in Deletes : quar[d] = a => proof[a] # None /\ journal[a].path = journal[d].path

\* An operation without a journaled path has touched no store.
PathComesFirst ==
  \A o \in Ops :
    /\ journal[o].status = "none" => journal[o].path = None
    /\ journal[o].path = None => /\ proof[o] = None /\ ~ InVault(o)
                                 /\ o \in Deletes => quar[o] = None

\* A file at the path of a row is one whose own row was committed, or the user's;
\* no two rows share a path.
RowsApart ==
  /\ \A p \in Paths, a \in Archives : vault[p] = a /\ RowAt(p) => proof[a] # None
  /\ \A a, b \in Archives : rows[a] # None /\ rows[a] = rows[b] => a = b

\* What a record says of an operation is true of the stores.
Told(o, rec) ==
  /\ rec.core \/ rec.status \in {"ready", "degraded", "deleted"} => proof[o] # None
  /\ rec.status = "rejected" => proof[o] = None /\ ~ InVault(o)
  /\ rec.status = "deleted" => o \in Deletes /\ quar[o] = None

\* The operation in memory agrees with its journal record and its proof.
RunAgrees ==
  run.at # "idle" =>
    /\ run.op \in Ops
    /\ run.rec.core => proof[run.op] # None
    /\ run.at \notin Recovering => journal[run.op].status = "in_progress"
    /\ run.at \notin Recovering \cup {"finish"} => run.rec.status = "in_progress"
    /\ run.at \notin {"plan", "finish"} => run.rec.path = journal[run.op].path
    /\ run.at = "plan" => journal[run.op].path = None
    /\ run.at \in {"plan"} \cup Publishing \cup Undoing \cup Moving \cup Removing \cup Putting
         => proof[run.op] = None
    /\ run.at \in {"journal_index", "purge"} => proof[run.op] # None
    /\ run.at \in {"finish", "recover_write"} =>
         /\ Told(run.op, run.rec)
         /\ run.rec.status \notin {"none", "in_progress"}
    /\ run.at \in {"recover_restore", "recover_unlink"} => run.rec.status = "rejected"

\* What an archive in memory knows of its path.
ArchiveKnows ==
  /\ run.at \in Publishing \cup Undoing \cup {"journal_index"} =>
       run.op \in Archives /\ run.rec.path \in Paths
  /\ run.at = "publish" => ~ InVault(run.op)
  /\ run.at \in {"journal_primary", "index"} =>
       \A a \in Archives : vault[run.rec.path] = a => a = run.op \/ proof[a] # None
  /\ run.at \in {"journal_primary"} \cup Undoing => ~ RowAt(run.rec.path)

\* What a delete in memory knows of its row and of its quarantine slot.
DeleteKnows ==
  /\ run.at \in Moving \cup Removing \cup Putting \cup {"purge"} => run.op \in Deletes
  /\ run.at \in Moving \cup Removing \cup Putting =>
       run.rec.path \in Paths /\ rows[target[run.op]] = run.rec.path
  /\ run.at = "purge" => rows[target[run.op]] = None
  /\ run.at = "link" => quar[run.op] = None
  /\ run.at \in {"unlink_original", "verify"} \cup Putting => quar[run.op] # None
  /\ run.at \in Removing \cup {"purge"} /\ ~ run.rec.missing =>
       quar[run.op] # None /\ quar[run.op] = run.rec.file

\* A result is of a call that is over.
ResultIsLast == result.op # None => run.at \in {"idle"} \cup Recovering

\* No archive reports a deletion.
DeletedByDeletes == \A o \in Ops : journal[o].status = "deleted" => o \in Deletes

CoordinatorInv ==
  /\ TypeInv /\ FilesAtHome /\ PathComesFirst /\ RowsApart
  /\ RunAgrees /\ ArchiveKnows /\ DeleteKnows /\ ResultIsLast
  /\ DeletedByDeletes /\ JournalInv

\* Operations, paths, files and None are different things; a delete is no file.
LEMMA NamesApart ==
  /\ None \notin Paths \cup Files \cup Ops
  /\ Versions \cap Archives = {} /\ Archives \cap Deletes = {}
  /\ \A d \in Deletes : target[d] \in Archives
  /\ \A d \in Deletes : d \notin Files \cup {None}
  <1>1. Paths \subseteq Nat /\ Versions \subseteq Nat
    BY StorageAssumption DEF Paths, Versions
  <1> QED
    BY <1>1, StorageAssumption DEF Files, Ops

-----------------------------------------------------------------------------
(* What an action does, in the terms of the invariant *)

SameRecord(o) == /\ journal'[o].path = journal[o].path
                 /\ journal'[o].status = journal[o].status
                 /\ journal'[o].core = journal[o].core

\* The record of o is still in progress, with path q.
Written(o, q) == /\ \A other \in Ops \ {o} : SameRecord(other)
                 /\ journal'[o].path = q /\ journal'[o].status = "in_progress"
                 /\ journal'[o].core => proof[o] # None

\* The operation goes on to a step with the record it has.
Goes(o, step) == /\ run'.op = o /\ run'.at = step
                 /\ run'.rec.path = run.rec.path /\ run'.rec.status = run.rec.status
                 /\ run'.rec.core = run.rec.core

SameFile == run'.rec.missing = run.rec.missing /\ run'.rec.file = run.rec.file

\* The operation has its outcome.
Ends(o, status) == /\ run'.op = o /\ run'.at = "finish" /\ run'.rec.status = status
                   /\ run'.rec.core => run.rec.core \/ proof'[o] # None

Rests == run'.at = "idle" /\ run'.op = None

\* The stores as functions, before and after a step.
StoresTyped == /\ vault \in [Paths -> Files \cup {None}] /\ vault' \in [Paths -> Files \cup {None}]
               /\ quar \in [Deletes -> Files \cup {None}] /\ result.op \in Ops \cup {None}
               /\ rows \in [Archives -> Paths \cup {None}] /\ proof \in [Ops -> Paths \cup {None}]

\* A step between typed states has typed stores on both sides.
LEMMA TypedStores ==
  ASSUME TypeInv, TypeInv'
  PROVE  StoresTyped
  BY DEF TypeInv, TypeOK, Results, StoresTyped

\* Writing a record that is in progress, or failing to, leaves one in progress.
LEMMA WrittenHolds ==
  ASSUME CoordinatorInv, NEW o \in Ops, NEW rec \in Records,
         JournalWritten(o, rec) \/ JournalFailed(o, rec),
         journal[o].status = "in_progress", rec.status = "in_progress",
         rec.core => proof[o] # None
  PROVE  /\ \E q \in {journal[o].path, rec.path} : Written(o, q)
         /\ JournalWritten(o, rec) => Written(o, rec.path)
  BY DEF CoordinatorInv, JournalInv, JournalTellsTruth, TypeInv, TypeOK, Records,
     JournalWritten,
         JournalFailed, Written, SameRecord

\* An operation that goes on takes its record with it, to another stage perhaps.
LEMMA GoesHolds ==
  ASSUME run.rec \in Records, NEW o, NEW step, NEW stage, NEW file
  PROVE  /\ Goto(o, step, run.rec) => Goes(o, step) /\ SameFile
         /\ Goto(o, step, [run.rec EXCEPT !.stage = stage]) => Goes(o, step) /\ SameFile
         /\ Goto(o, step, [run.rec EXCEPT !.file = file, !.stage = stage]) => Goes(o, step)
  <1>1. Goto(o, step, run.rec) => Goes(o, step) /\ SameFile
    BY DEF Goto, Goes, SameFile
  <1>2. ASSUME Goto(o, step, [run.rec EXCEPT !.stage = stage]) PROVE Goes(o, step) /\ SameFile
    BY <1>2 DEF Goto, Goes, SameFile, Records
  <1>3. ASSUME Goto(o, step, [run.rec EXCEPT !.file = file, !.stage = stage]) PROVE Goes(o, step)
    BY <1>3 DEF Goto, Goes, Records
  <1> QED
    BY <1>1, <1>2, <1>3

\* Each way to finish writes its outcome into the record.
LEMMA EndsHolds ==
  ASSUME NEW o, NEW rec \in Records, rec.core => run.rec.core, NEW stage, NEW status
  PROVE  /\ Rejected(o, rec, stage) => Ends(o, "rejected")
         /\ NeedsRepair(o, rec, stage) => Ends(o, "repair_required")
         /\ FinishRestorable(o, rec) => Ends(o, "repair_required")
         /\ FinishCommitted(o, rec, status, stage) /\ proof'[o] # None => Ends(o, status)
  <1>1. ASSUME NEW s, Finishing(o, rec, s, stage) PROVE Ends(o, s)
    BY <1>1 DEF Finishing, Goto, Ends, Records
  <1>2. ASSUME FinishRestorable(o, rec) PROVE Ends(o, "repair_required")
    BY <1>2 DEF FinishRestorable, Goto, Ends, Records
  <1>3. ASSUME FinishCommitted(o, rec, status, stage), proof'[o] # None PROVE Ends(o, status)
    BY <1>3 DEF FinishCommitted, Goto, Ends, Records
  <1> QED
    BY <1>1, <1>2, <1>3 DEF Rejected, NeedsRepair

\* The first record of an operation is in progress and plans nothing.
LEMMA CreatedHolds ==
  /\ JournalCreated \in Records /\ JournalCreated.status = "in_progress"
  /\ ~ JournalCreated.core /\ JournalCreated.path = None
  BY RecordsTyped DEF JournalCreated, NoRecord

\* What a verdict of the recovery promises of the stores.
Proved(o, verdict) ==
  /\ verdict \in {"block", "restore", "rejected", "ready", "degraded", "deleted"}
  /\ verdict = "rejected" => proof[o] = None /\ ~ InVault(o)
  /\ verdict \in {"ready", "degraded", "deleted"} => proof[o] # None
  /\ verdict = "deleted" => o \in Deletes /\ quar[o] = None
  /\ verdict = "restore" => /\ o \in Deletes /\ proof[o] = None /\ quar[o] # None
                            /\ journal[o].path \in Paths /\ rows[target[o]] = journal[o].path

\* A verdict is given on the proof of the operation and the files as they are.
LEMMA VerdictProved ==
  ASSUME CoordinatorInv, NEW o \in Ops, NEW commit \in Probed(o, journal[o].path)
  PROVE  Proved(o, Verdict(o, commit))
  <1> DEFINE p == journal[o].path
  <1>1. /\ p \in Paths \cup {None} /\ (p = None => proof[o] = None /\ ~ InVault(o))
        /\ journal[o] \in Records
    BY DEF CoordinatorInv, TypeInv, TypeOK, PathComesFirst, Records
  <1>2. CASE o \in Archives
    <2>1. /\ commit = "committed" => proof[o] # None
          /\ commit = "absent" => proof[o] = None
          /\ commit \in {"committed", "absent", "ambiguous"}
      BY <1>2 DEF Probed, ArchiveProbe
    <2>2. p # None /\ Free(p) => ~ InVault(o)
      BY <1>2, NamesApart DEF CoordinatorInv, FilesAtHome, InVault, Free, Files
    <2>3. Verdict(o, commit) = ArchiveVerdict(o, commit)
      BY <1>2 DEF Verdict
    <2>4. CASE p = None
      BY <1>1, <2>3, <2>4 DEF ArchiveVerdict, Proved
    <2>5. CASE p # None
      BY <1>1, <2>1, <2>2, <2>3, <2>5 DEF ArchiveVerdict, Proved
    <2> QED
      BY <2>4, <2>5
  <1>3. CASE o \in Deletes
    <2>1. /\ commit = "committed" => proof[o] # None
          /\ commit = "absent" => proof[o] = None /\ rows[target[o]] = p
          /\ commit \in {"committed", "absent", "ambiguous"}
      BY <1>3, NamesApart DEF Probed, DeleteProbe
    <2>2. ~ InVault(o)
      BY <1>3, NamesApart DEF CoordinatorInv, TypeInv, TypeOK, InVault
    <2>3. /\ QuarantineSeen(o) = "yes" => quar[o] # None
          /\ QuarantineSeen(o) = "no" /\ ~ journal[o].missing => quar[o] = None
          /\ QuarantineSeen(o) \in {"yes", "no", "other"}
      BY DEF QuarantineSeen
    <2>4. CASE p = None
      BY <1>1, <1>3, <2>2, <2>4, NamesApart DEF Verdict, DeleteVerdict, Proved
    <2>5. CASE p # None
      <3>1. p # None /\ commit # "ambiguous" => Proved(o, PlannedVerdict(o, commit))
        BY <1>1, <1>3, <2>1, <2>2, <2>3 DEF PlannedVerdict, Proved
      <3>2. p # None /\ commit # "ambiguous" => Proved(o, QuarantinedVerdict(o, commit))
        BY <1>1, <1>3, <2>1, <2>2, <2>3 DEF QuarantinedVerdict, Proved
      <3>3. /\ Proved(o, "block")
            /\ commit = "absent" /\ QuarantineSeen(o) = "yes" => Proved(o, "restore")
        BY <1>1, <1>3, <2>1, <2>3, <2>5 DEF Proved
      <3>4. Verdict(o, commit) = DeleteVerdict(o, commit)
        BY <1>3, NamesApart DEF Verdict
      <3> QED
        BY <2>5, <3>1, <3>2, <3>3, <3>4 DEF DeleteVerdict
    <2> QED
      BY <2>4, <2>5
  <1> QED
    BY <1>2, <1>3 DEF Ops

\* Planning an archive keeps the invariant: the path is journaled before the file exists.
LEMMA PlanArchiveKeeps ==
  ASSUME CoordinatorInv, NEW a \in Archives, PlanArchive(a)
  PROVE  CoordinatorInv'
  <1>1. TypeInv'
    BY PlanArchiveTyped DEF CoordinatorInv
  <1>2. /\ run.op = a /\ run.rec \in Records
        /\ proof[a] = None /\ ~ run.rec.core
        /\ journal[a].status = "in_progress" /\ run.rec.status = "in_progress"
        /\ journal[a].path = None
    BY DEF CoordinatorInv, TypeInv, TypeOK, PlanArchive, At, Ops, RunAgrees, ArchiveKnows,
           DeleteKnows, Recovering, Publishing, Undoing, Moving, Removing, Putting
  <1>3. /\ run.op = a /\ run.at = "plan"
        /\ UNCHANGED <<stores, result>>
        /\ \E q \in Paths \cup {None} :
                 /\ Written(a, q)
                 /\ \/ Ends(a, "rejected")
                    \/ /\ q \in Paths /\ run'.op = a /\ run'.rec.path = q /\ ~ run'.rec.core
                       /\ run'.rec.status = "in_progress" /\ run'.at = "publish"
    <2>1. PICK p \in Paths :
            LET rec == [JournalCreated EXCEPT !.path = p]
            IN \/ JournalWritten(a, rec) /\ Goto(a, "publish", rec)
               \/ JournalFailed(a, rec) /\ Rejected(a, JournalCreated, "preparing")
      BY DEF PlanArchive
    <2> DEFINE rec == [JournalCreated EXCEPT !.path = p]
    <2>2. rec \in Records /\ rec.path = p /\ rec.status = "in_progress" /\ ~ rec.core
      BY CreatedHolds DEF Records
    <2> HIDE DEF rec
    <2>3. CASE JournalWritten(a, rec) /\ Goto(a, "publish", rec)
      BY <1>2, <2>2, <2>3, WrittenHolds DEF PlanArchive, At, Goto, Ops
    <2>4. CASE JournalFailed(a, rec) /\ Rejected(a, JournalCreated, "preparing")
      BY <1>2, <2>2, <2>4, WrittenHolds, EndsHolds, CreatedHolds DEF PlanArchive, At, Ops
    <2> QED
      BY <2>1, <2>3, <2>4 DEF rec
  <1>4. StoresTyped
    BY <1>1, TypedStores DEF CoordinatorInv
  <1>5. FilesAtHome' /\ PathComesFirst' /\ RowsApart'
    BY <1>2, <1>3, <1>4, NamesApart DEF CoordinatorInv, JournalInv, Ops, stores,
           StoresTyped, FilesAtHome, PathComesFirst, RowsApart, RowAt, InVault, Written,
           SameRecord
  <1>6. RunAgrees' /\ ArchiveKnows' /\ DeleteKnows' /\ ResultIsLast'
    BY <1>2, <1>3, <1>4, NamesApart DEF CoordinatorInv, JournalInv, Ops, stores,
           StoresTyped, RunAgrees, FilesAtHome, Told, InVault, ArchiveKnows, RowAt,
           RowsApart, PathComesFirst, DeleteKnows, ResultIsLast, Written, SameRecord,
           Recovering, Publishing, Undoing, Moving, Removing, Putting, Goes, Ends, Rests,
           SameFile
  <1>7. DeletedByDeletes' /\ JournalTellsTruth' /\ RetrySafeIsSafe' /\ OrphansAreListed'
    BY <1>2, <1>3, <1>4, NamesApart DEF CoordinatorInv, JournalInv, Ops, stores,
           StoresTyped, DeletedByDeletes, Told, JournalTellsTruth, FilesAtHome, InVault,
           RetrySafeIsSafe, Recovering, ResultIsLast, OrphansAreListed, Interrupted,
           Written, SameRecord
  <1> QED
    BY <1>1, <1>5, <1>6, <1>7 DEF CoordinatorInv, JournalInv

\* Giving up an archive for which no name is free keeps the invariant.
LEMMA PlanArchiveFailsKeeps ==
  ASSUME CoordinatorInv, NEW a \in Archives, PlanArchiveFails(a)
  PROVE  CoordinatorInv'
  <1>1. TypeInv'
    BY PlanArchiveTyped DEF CoordinatorInv
  <1>2. /\ run.op = a /\ run.rec \in Records
        /\ proof[a] = None /\ ~ run.rec.core
        /\ journal[a].status = "in_progress" /\ run.rec.status = "in_progress"
        /\ journal[a].path = None
    BY DEF CoordinatorInv, TypeInv, TypeOK, PlanArchiveFails, At, Ops, RunAgrees,
           ArchiveKnows, DeleteKnows, Recovering, Publishing, Undoing, Moving, Removing,
           Putting
  <1>3. /\ run.op = a /\ run.at = "plan"
        /\ UNCHANGED <<stores, journal, result>>
        /\ Ends(a, "rejected")
    BY <1>2, EndsHolds, CreatedHolds DEF PlanArchiveFails, At, stores
  <1>4. StoresTyped
    BY <1>1, TypedStores DEF CoordinatorInv
  <1>5. FilesAtHome' /\ PathComesFirst' /\ RowsApart'
    BY <1>2, <1>3, <1>4, NamesApart DEF CoordinatorInv, JournalInv, Ops, stores,
           StoresTyped, FilesAtHome, PathComesFirst, RowsApart, RowAt, InVault, Written,
           SameRecord
  <1>6. RunAgrees' /\ ArchiveKnows' /\ DeleteKnows' /\ ResultIsLast'
    BY <1>2, <1>3, <1>4, NamesApart DEF CoordinatorInv, JournalInv, Ops, stores,
           StoresTyped, RunAgrees, FilesAtHome, Told, InVault, ArchiveKnows, RowAt,
           RowsApart, PathComesFirst, DeleteKnows, ResultIsLast, Written, SameRecord,
           Recovering, Publishing, Undoing, Moving, Removing, Putting, Goes, Ends, Rests,
           SameFile
  <1>7. DeletedByDeletes' /\ JournalTellsTruth' /\ RetrySafeIsSafe' /\ OrphansAreListed'
    BY <1>2, <1>3, <1>4, NamesApart DEF CoordinatorInv, JournalInv, Ops, stores,
           StoresTyped, DeletedByDeletes, Told, JournalTellsTruth, FilesAtHome, InVault,
           RetrySafeIsSafe, Recovering, ResultIsLast, OrphansAreListed, Interrupted,
           Written, SameRecord
  <1> QED
    BY <1>1, <1>5, <1>6, <1>7 DEF CoordinatorInv, JournalInv

\* Publishing the file keeps the invariant: no row has its path.
LEMMA PublishArchiveKeeps ==
  ASSUME CoordinatorInv, NEW a \in Archives, PublishArchive(a)
  PROVE  CoordinatorInv'
  <1>1. TypeInv'
    BY PublishArchiveTyped DEF CoordinatorInv
  <1>2. /\ run.op = a /\ run.rec \in Records
        /\ proof[a] = None /\ ~ run.rec.core
        /\ journal[a].status = "in_progress" /\ run.rec.status = "in_progress"
        /\ run.rec.path = journal[a].path /\ run.rec.path \in Paths
        /\ ~ InVault(a)
    BY DEF CoordinatorInv, TypeInv, TypeOK, PublishArchive, At, Ops, RunAgrees,
           ArchiveKnows, DeleteKnows, Recovering, Publishing, Undoing, Moving, Removing,
           Putting
  <1>3. /\ run.op = a /\ run.at = "publish"
        /\ UNCHANGED <<quar, rows, proof, journal, result>>
        /\ \/ /\ vault[run.rec.path] = None /\ ~ RowAt(run.rec.path)
              /\ vault' = [vault EXCEPT ![run.rec.path] = a]
              /\ Goes(a, "journal_primary") \/ Ends(a, "repair_required")
           \/ vault' = vault /\ Ends(a, "rejected")
    BY <1>2, GoesHolds, EndsHolds DEF PublishArchive, At, Free, stores, Ops
  <1>4. StoresTyped
    BY <1>1, TypedStores DEF CoordinatorInv
  <1>5. FilesAtHome' /\ PathComesFirst' /\ RowsApart'
    BY <1>2, <1>3, <1>4, NamesApart DEF CoordinatorInv, JournalInv, Ops, stores,
           StoresTyped, FilesAtHome, PathComesFirst, RowsApart, RowAt, InVault, Written,
           SameRecord
  <1>6. RunAgrees' /\ ArchiveKnows' /\ DeleteKnows' /\ ResultIsLast'
    BY <1>2, <1>3, <1>4, NamesApart DEF CoordinatorInv, JournalInv, Ops, stores,
           StoresTyped, RunAgrees, FilesAtHome, Told, InVault, ArchiveKnows, RowAt,
           RowsApart, PathComesFirst, DeleteKnows, ResultIsLast, Written, SameRecord,
           Recovering, Publishing, Undoing, Moving, Removing, Putting, Goes, Ends, Rests,
           SameFile
  <1>7. DeletedByDeletes' /\ JournalTellsTruth' /\ RetrySafeIsSafe' /\ OrphansAreListed'
    BY <1>2, <1>3, <1>4, NamesApart DEF CoordinatorInv, JournalInv, Ops, stores,
           StoresTyped, DeletedByDeletes, Told, JournalTellsTruth, FilesAtHome, InVault,
           RetrySafeIsSafe, Recovering, ResultIsLast, OrphansAreListed, Interrupted,
           Written, SameRecord
  <1> QED
    BY <1>1, <1>5, <1>6, <1>7 DEF CoordinatorInv, JournalInv

\* Journaling the published file keeps the invariant.
LEMMA JournalPrimaryKeeps ==
  ASSUME CoordinatorInv, NEW a \in Archives, JournalPrimary(a)
  PROVE  CoordinatorInv'
  <1>1. TypeInv'
    BY JournalPrimaryTyped DEF CoordinatorInv
  <1>2. /\ run.op = a /\ run.rec \in Records
        /\ proof[a] = None /\ ~ run.rec.core
        /\ journal[a].status = "in_progress" /\ run.rec.status = "in_progress"
        /\ run.rec.path = journal[a].path /\ run.rec.path \in Paths
        /\ ~ RowAt(run.rec.path)
        /\ \A b \in Archives : vault[run.rec.path] = b => b = a \/ proof[b] # None
    BY DEF CoordinatorInv, TypeInv, TypeOK, JournalPrimary, At, Ops, RunAgrees,
           ArchiveKnows, DeleteKnows, Recovering, Publishing, Undoing, Moving, Removing,
           Putting
  <1>3. /\ run.op = a /\ run.at = "journal_primary"
        /\ UNCHANGED <<stores, result>> /\ Written(a, run.rec.path)
        /\ Goes(a, "index") \/ Goes(a, "undo")
    BY <1>2, GoesHolds, EndsHolds, WrittenHolds DEF JournalPrimary, At, stores, Ops
  <1>4. StoresTyped
    BY <1>1, TypedStores DEF CoordinatorInv
  <1>5. FilesAtHome' /\ PathComesFirst' /\ RowsApart'
    BY <1>2, <1>3, <1>4, NamesApart DEF CoordinatorInv, JournalInv, Ops, stores,
           StoresTyped, FilesAtHome, PathComesFirst, RowsApart, RowAt, InVault, Written,
           SameRecord
  <1>6. RunAgrees' /\ ArchiveKnows' /\ DeleteKnows' /\ ResultIsLast'
    BY <1>2, <1>3, <1>4, NamesApart DEF CoordinatorInv, JournalInv, Ops, stores,
           StoresTyped, RunAgrees, FilesAtHome, Told, InVault, ArchiveKnows, RowAt,
           RowsApart, PathComesFirst, DeleteKnows, ResultIsLast, Written, SameRecord,
           Recovering, Publishing, Undoing, Moving, Removing, Putting, Goes, Ends, Rests,
           SameFile
  <1>7. DeletedByDeletes' /\ JournalTellsTruth' /\ RetrySafeIsSafe' /\ OrphansAreListed'
    BY <1>2, <1>3, <1>4, NamesApart DEF CoordinatorInv, JournalInv, Ops, stores,
           StoresTyped, DeletedByDeletes, Told, JournalTellsTruth, FilesAtHome, InVault,
           RetrySafeIsSafe, Recovering, ResultIsLast, OrphansAreListed, Interrupted,
           Written, SameRecord
  <1> QED
    BY <1>1, <1>5, <1>6, <1>7 DEF CoordinatorInv, JournalInv

\* The insert transaction keeps the invariant: the row and the proof come together.
LEMMA IndexArchiveKeeps ==
  ASSUME CoordinatorInv, NEW a \in Archives, IndexArchive(a)
  PROVE  CoordinatorInv'
  <1>1. TypeInv'
    BY IndexArchiveTyped DEF CoordinatorInv
  <1>2. /\ run.op = a /\ run.rec \in Records
        /\ proof[a] = None /\ ~ run.rec.core
        /\ journal[a].status = "in_progress" /\ run.rec.status = "in_progress"
        /\ run.rec.path = journal[a].path /\ run.rec.path \in Paths
        /\ \A b \in Archives : vault[run.rec.path] = b => b = a \/ proof[b] # None
    BY DEF CoordinatorInv, TypeInv, TypeOK, IndexArchive, At, Ops, RunAgrees, ArchiveKnows,
           DeleteKnows, Recovering, Publishing, Undoing, Moving, Removing, Putting
  <1>3. /\ run.op = a /\ run.at = "index"
        /\ UNCHANGED <<vault, quar, journal, result>>
        /\ \/ /\ ~ RowAt(run.rec.path) /\ rows' = [rows EXCEPT ![a] = run.rec.path]
              /\ proof' = [proof EXCEPT ![a] = run.rec.path]
              /\ Goes(a, "journal_index") \/ Ends(a, "repair_required")
           \/ /\ UNCHANGED <<rows, proof>>
              /\ \/ Ends(a, "repair_required")
                 \/ ~ RowAt(run.rec.path) /\ Goes(a, "journal_compensating")
    BY <1>2, GoesHolds, EndsHolds DEF IndexArchive, At, Probed, ArchiveProbe, stores, Ops
  <1>4. StoresTyped
    BY <1>1, TypedStores DEF CoordinatorInv
  <1>5. FilesAtHome' /\ PathComesFirst' /\ RowsApart'
    BY <1>2, <1>3, <1>4, NamesApart DEF CoordinatorInv, JournalInv, Ops, stores,
           StoresTyped, FilesAtHome, PathComesFirst, RowsApart, RowAt, InVault, Written,
           SameRecord
  <1>6. RunAgrees' /\ ArchiveKnows' /\ DeleteKnows' /\ ResultIsLast'
    BY <1>2, <1>3, <1>4, NamesApart DEF CoordinatorInv, JournalInv, Ops, stores,
           StoresTyped, RunAgrees, FilesAtHome, Told, InVault, ArchiveKnows, RowAt,
           RowsApart, PathComesFirst, DeleteKnows, ResultIsLast, Written, SameRecord,
           Recovering, Publishing, Undoing, Moving, Removing, Putting, Goes, Ends, Rests,
           SameFile
  <1>7. DeletedByDeletes' /\ JournalTellsTruth' /\ RetrySafeIsSafe' /\ OrphansAreListed'
    BY <1>2, <1>3, <1>4, NamesApart DEF CoordinatorInv, JournalInv, Ops, stores,
           StoresTyped, DeletedByDeletes, Told, JournalTellsTruth, FilesAtHome, InVault,
           RetrySafeIsSafe, Recovering, ResultIsLast, OrphansAreListed, Interrupted,
           Written, SameRecord
  <1> QED
    BY <1>1, <1>5, <1>6, <1>7 DEF CoordinatorInv, JournalInv

\* Journaling the compensation keeps the invariant.
LEMMA JournalCompensatingKeeps ==
  ASSUME CoordinatorInv, NEW a \in Archives, JournalCompensating(a)
  PROVE  CoordinatorInv'
  <1>1. TypeInv'
    BY JournalPrimaryTyped DEF CoordinatorInv
  <1>2. /\ run.op = a /\ run.rec \in Records
        /\ proof[a] = None /\ ~ run.rec.core
        /\ journal[a].status = "in_progress" /\ run.rec.status = "in_progress"
        /\ run.rec.path = journal[a].path /\ run.rec.path \in Paths
        /\ ~ RowAt(run.rec.path)
    BY DEF CoordinatorInv, TypeInv, TypeOK, JournalCompensating, At, Ops, RunAgrees,
           ArchiveKnows, DeleteKnows, Recovering, Publishing, Undoing, Moving, Removing,
           Putting
  <1>3. /\ run.op = a /\ run.at = "journal_compensating"
        /\ UNCHANGED <<stores, result>> /\ Written(a, run.rec.path)
        /\ Goes(a, "undo")
    BY <1>2, GoesHolds, EndsHolds, WrittenHolds DEF JournalCompensating, At, stores, Ops
  <1>4. StoresTyped
    BY <1>1, TypedStores DEF CoordinatorInv
  <1>5. FilesAtHome' /\ PathComesFirst' /\ RowsApart'
    BY <1>2, <1>3, <1>4, NamesApart DEF CoordinatorInv, JournalInv, Ops, stores,
           StoresTyped, FilesAtHome, PathComesFirst, RowsApart, RowAt, InVault, Written,
           SameRecord
  <1>6. RunAgrees' /\ ArchiveKnows' /\ DeleteKnows' /\ ResultIsLast'
    BY <1>2, <1>3, <1>4, NamesApart DEF CoordinatorInv, JournalInv, Ops, stores,
           StoresTyped, RunAgrees, FilesAtHome, Told, InVault, ArchiveKnows, RowAt,
           RowsApart, PathComesFirst, DeleteKnows, ResultIsLast, Written, SameRecord,
           Recovering, Publishing, Undoing, Moving, Removing, Putting, Goes, Ends, Rests,
           SameFile
  <1>7. DeletedByDeletes' /\ JournalTellsTruth' /\ RetrySafeIsSafe' /\ OrphansAreListed'
    BY <1>2, <1>3, <1>4, NamesApart DEF CoordinatorInv, JournalInv, Ops, stores,
           StoresTyped, DeletedByDeletes, Told, JournalTellsTruth, FilesAtHome, InVault,
           RetrySafeIsSafe, Recovering, ResultIsLast, OrphansAreListed, Interrupted,
           Written, SameRecord
  <1> QED
    BY <1>1, <1>5, <1>6, <1>7 DEF CoordinatorInv, JournalInv

\* The check before the undo keeps the invariant.
LEMMA UndoPrimaryKeeps ==
  ASSUME CoordinatorInv, NEW a \in Archives, UndoPrimary(a)
  PROVE  CoordinatorInv'
  <1>1. TypeInv'
    BY UndoTyped DEF CoordinatorInv
  <1>2. /\ run.op = a /\ run.rec \in Records
        /\ proof[a] = None /\ ~ run.rec.core
        /\ journal[a].status = "in_progress" /\ run.rec.status = "in_progress"
        /\ run.rec.path = journal[a].path /\ run.rec.path \in Paths
        /\ ~ RowAt(run.rec.path)
    BY DEF CoordinatorInv, TypeInv, TypeOK, UndoPrimary, At, Ops, RunAgrees, ArchiveKnows,
           DeleteKnows, Recovering, Publishing, Undoing, Moving, Removing, Putting
  <1>3. /\ run.op = a /\ run.at = "undo"
        /\ UNCHANGED <<stores, journal, result>>
        /\ Goes(a, "undo_unlink") \/ Ends(a, "repair_required")
    BY <1>2, GoesHolds, EndsHolds DEF UndoPrimary, At, stores, Ops
  <1>4. StoresTyped
    BY <1>1, TypedStores DEF CoordinatorInv
  <1>5. FilesAtHome' /\ PathComesFirst' /\ RowsApart'
    BY <1>2, <1>3, <1>4, NamesApart DEF CoordinatorInv, JournalInv, Ops, stores,
           StoresTyped, FilesAtHome, PathComesFirst, RowsApart, RowAt, InVault, Written,
           SameRecord
  <1>6. RunAgrees' /\ ArchiveKnows' /\ DeleteKnows' /\ ResultIsLast'
    BY <1>2, <1>3, <1>4, NamesApart DEF CoordinatorInv, JournalInv, Ops, stores,
           StoresTyped, RunAgrees, FilesAtHome, Told, InVault, ArchiveKnows, RowAt,
           RowsApart, PathComesFirst, DeleteKnows, ResultIsLast, Written, SameRecord,
           Recovering, Publishing, Undoing, Moving, Removing, Putting, Goes, Ends, Rests,
           SameFile
  <1>7. DeletedByDeletes' /\ JournalTellsTruth' /\ RetrySafeIsSafe' /\ OrphansAreListed'
    BY <1>2, <1>3, <1>4, NamesApart DEF CoordinatorInv, JournalInv, Ops, stores,
           StoresTyped, DeletedByDeletes, Told, JournalTellsTruth, FilesAtHome, InVault,
           RetrySafeIsSafe, Recovering, ResultIsLast, OrphansAreListed, Interrupted,
           Written, SameRecord
  <1> QED
    BY <1>1, <1>5, <1>6, <1>7 DEF CoordinatorInv, JournalInv

\* The undo keeps the invariant: no row has the path it clears.
LEMMA UndoUnlinkKeeps ==
  ASSUME CoordinatorInv, NEW a \in Archives, UndoUnlink(a)
  PROVE  CoordinatorInv'
  <1>1. TypeInv'
    BY UndoTyped DEF CoordinatorInv
  <1>2. /\ run.op = a /\ run.rec \in Records
        /\ proof[a] = None /\ ~ run.rec.core
        /\ journal[a].status = "in_progress" /\ run.rec.status = "in_progress"
        /\ run.rec.path = journal[a].path /\ run.rec.path \in Paths
        /\ ~ RowAt(run.rec.path)
    BY DEF CoordinatorInv, TypeInv, TypeOK, UndoUnlink, At, Ops, RunAgrees, ArchiveKnows,
           DeleteKnows, Recovering, Publishing, Undoing, Moving, Removing, Putting
  <1>3. /\ run.op = a /\ run.at = "undo_unlink"
        /\ UNCHANGED <<quar, rows, proof, journal, result>>
        /\ \/ vault' = [vault EXCEPT ![run.rec.path] = None] /\ Ends(a, "rejected")
           \/ vault' = vault /\ Ends(a, "repair_required")
    BY <1>2, GoesHolds, EndsHolds DEF UndoUnlink, At, stores, Ops
  <1>4. StoresTyped
    BY <1>1, TypedStores DEF CoordinatorInv
  <1>5. FilesAtHome' /\ PathComesFirst' /\ RowsApart'
    BY <1>2, <1>3, <1>4, NamesApart DEF CoordinatorInv, JournalInv, Ops, stores,
           StoresTyped, FilesAtHome, PathComesFirst, RowsApart, RowAt, InVault, Written,
           SameRecord
  <1>6. RunAgrees' /\ ArchiveKnows' /\ DeleteKnows' /\ ResultIsLast'
    BY <1>2, <1>3, <1>4, NamesApart DEF CoordinatorInv, JournalInv, Ops, stores,
           StoresTyped, RunAgrees, FilesAtHome, Told, InVault, ArchiveKnows, RowAt,
           RowsApart, PathComesFirst, DeleteKnows, ResultIsLast, Written, SameRecord,
           Recovering, Publishing, Undoing, Moving, Removing, Putting, Goes, Ends, Rests,
           SameFile
  <1>7. DeletedByDeletes' /\ JournalTellsTruth' /\ RetrySafeIsSafe' /\ OrphansAreListed'
    BY <1>2, <1>3, <1>4, NamesApart DEF CoordinatorInv, JournalInv, Ops, stores,
           StoresTyped, DeletedByDeletes, Told, JournalTellsTruth, FilesAtHome, InVault,
           RetrySafeIsSafe, Recovering, ResultIsLast, OrphansAreListed, Interrupted,
           Written, SameRecord
  <1> QED
    BY <1>1, <1>5, <1>6, <1>7 DEF CoordinatorInv, JournalInv

\* Journaling the committed insert keeps the invariant.
LEMMA JournalIndexKeeps ==
  ASSUME CoordinatorInv, NEW a \in Archives, JournalIndex(a)
  PROVE  CoordinatorInv'
  <1>1. TypeInv'
    BY JournalIndexTyped DEF CoordinatorInv
  <1>2. /\ run.op = a /\ run.rec \in Records
        /\ proof[a] # None
        /\ journal[a].status = "in_progress" /\ run.rec.status = "in_progress"
        /\ run.rec.path = journal[a].path /\ run.rec.path \in Paths
    BY DEF CoordinatorInv, TypeInv, TypeOK, JournalIndex, At, Ops, RunAgrees, ArchiveKnows,
           DeleteKnows, Recovering, Publishing, Undoing, Moving, Removing, Putting
  <1>3. /\ run.op = a /\ run.at = "journal_index"
        /\ UNCHANGED <<stores, result>> /\ Written(a, run.rec.path)
        /\ \E s \in {"ready", "degraded", "repair_required"} : Ends(a, s)
    <2> DEFINE rec == [run.rec EXCEPT !.stage = "index_committed"]
    <2>1. /\ rec \in Records /\ rec.path = run.rec.path /\ rec.status = run.rec.status
          /\ rec.core = run.rec.core
      BY <1>2 DEF Records, Stages
    <2>2. /\ run.op = a /\ run.at = "journal_index" /\ UNCHANGED <<stores, result>>
          /\ JournalWritten(a, rec) \/ JournalFailed(a, rec)
          /\ \/ FinishCommitted(a, rec, "ready", "completed")
             \/ FinishCommitted(a, rec, "degraded", "index_committed")
             \/ FinishCommitted(a, run.rec, "repair_required", "index_committed")
      BY DEF JournalIndex, At
    <2> HIDE DEF rec
    <2>3. Written(a, run.rec.path)
      BY <1>2, <2>1, <2>2, WrittenHolds DEF Ops
    <2>4. proof'[a] # None
      BY <1>2, <2>2 DEF stores
    <2> QED
      BY <1>2, <2>1, <2>2, <2>3, <2>4, EndsHolds
  <1>4. StoresTyped
    BY <1>1, TypedStores DEF CoordinatorInv
  <1>5. FilesAtHome' /\ PathComesFirst' /\ RowsApart'
    BY <1>2, <1>3, <1>4, NamesApart DEF CoordinatorInv, JournalInv, Ops, stores,
           StoresTyped, FilesAtHome, PathComesFirst, RowsApart, RowAt, InVault, Written,
           SameRecord
  <1>6. RunAgrees' /\ ArchiveKnows' /\ DeleteKnows' /\ ResultIsLast'
    BY <1>2, <1>3, <1>4, NamesApart DEF CoordinatorInv, JournalInv, Ops, stores,
           StoresTyped, RunAgrees, FilesAtHome, Told, InVault, ArchiveKnows, RowAt,
           RowsApart, PathComesFirst, DeleteKnows, ResultIsLast, Written, SameRecord,
           Recovering, Publishing, Undoing, Moving, Removing, Putting, Goes, Ends, Rests,
           SameFile
  <1>7. DeletedByDeletes' /\ JournalTellsTruth' /\ RetrySafeIsSafe' /\ OrphansAreListed'
    BY <1>2, <1>3, <1>4, NamesApart DEF CoordinatorInv, JournalInv, Ops, stores,
           StoresTyped, DeletedByDeletes, Told, JournalTellsTruth, FilesAtHome, InVault,
           RetrySafeIsSafe, Recovering, ResultIsLast, OrphansAreListed, Interrupted,
           Written, SameRecord
  <1> QED
    BY <1>1, <1>5, <1>6, <1>7 DEF CoordinatorInv, JournalInv

\* Planning a delete keeps the invariant.
LEMMA PlanDeleteKeeps ==
  ASSUME CoordinatorInv, NEW d \in Deletes, PlanDelete(d)
  PROVE  CoordinatorInv'
  <1>1. TypeInv'
    BY PlanDeleteTyped DEF CoordinatorInv
  <1>2. /\ run.op = d /\ run.rec \in Records
        /\ proof[d] = None /\ ~ run.rec.core
        /\ journal[d].status = "in_progress" /\ run.rec.status = "in_progress"
        /\ journal[d].path = None
    BY DEF CoordinatorInv, TypeInv, TypeOK, PlanDelete, At, Ops, RunAgrees, ArchiveKnows,
           DeleteKnows, Recovering, Publishing, Undoing, Moving, Removing, Putting
  <1>3. /\ run.op = d /\ run.at = "plan"
        /\ UNCHANGED <<stores, result>>
        /\ \E q \in Paths \cup {None} :
                 /\ Written(d, q)
                 /\ \/ Ends(d, "rejected")
                    \/ /\ q \in Paths /\ run'.op = d /\ run'.rec.path = q /\ ~ run'.rec.core
                       /\ run'.rec.status = "in_progress" /\ rows[target[d]] = q
                       /\ \/ run'.at = "quarantine"
                          \/ run'.at = "journal_quarantined" /\ run'.rec.missing
    <2> DEFINE p == rows[target[d]]
               rec == [JournalCreated EXCEPT !.stage = "delete_planned", !.path = p,
                                             !.file = vault[p], !.missing = Free(p)]
    <2>1. p \in Paths
      BY StorageAssumption DEF PlanDelete, CoordinatorInv, TypeInv, TypeOK
    <2>2. /\ rec \in Records /\ rec.path = p /\ rec.status = "in_progress" /\ ~ rec.core
          /\ rec.missing = Free(p)
      BY <2>1, CreatedHolds DEF Records, Free, Stages, CoordinatorInv, TypeInv, TypeOK
    <2>3. /\ run.op = d /\ run.at = "plan" /\ UNCHANGED <<stores, result>>
          /\ \/ /\ JournalWritten(d, rec)
                /\ Goto(d, IF rec.missing THEN "journal_quarantined" ELSE "quarantine", rec)
             \/ JournalFailed(d, rec) /\ Rejected(d, JournalCreated, "preparing")
      BY DEF PlanDelete, At
    <2> HIDE DEF rec, p
    <2>4. CASE /\ JournalWritten(d, rec)
               /\ Goto(d, IF rec.missing THEN "journal_quarantined" ELSE "quarantine", rec)
      BY <1>2, <2>1, <2>2, <2>3, <2>4, WrittenHolds DEF Goto, Ops, p
    <2>5. CASE JournalFailed(d, rec) /\ Rejected(d, JournalCreated, "preparing")
      BY <1>2, <2>1, <2>2, <2>3, <2>5, WrittenHolds, EndsHolds, CreatedHolds DEF Ops
    <2> QED
      BY <2>3, <2>4, <2>5
  <1>4. StoresTyped
    BY <1>1, TypedStores DEF CoordinatorInv
  <1>5. FilesAtHome' /\ PathComesFirst' /\ RowsApart'
    BY <1>2, <1>3, <1>4, NamesApart DEF CoordinatorInv, JournalInv, Ops, stores,
           StoresTyped, FilesAtHome, PathComesFirst, RowsApart, RowAt, InVault, Written,
           SameRecord
  <1>6. RunAgrees' /\ ArchiveKnows' /\ DeleteKnows' /\ ResultIsLast'
    BY <1>2, <1>3, <1>4, NamesApart DEF CoordinatorInv, JournalInv, Ops, stores,
           StoresTyped, RunAgrees, FilesAtHome, Told, InVault, ArchiveKnows, RowAt,
           RowsApart, PathComesFirst, DeleteKnows, ResultIsLast, Written, SameRecord,
           Recovering, Publishing, Undoing, Moving, Removing, Putting, Goes, Ends, Rests,
           SameFile
  <1>7. DeletedByDeletes' /\ JournalTellsTruth' /\ RetrySafeIsSafe' /\ OrphansAreListed'
    BY <1>2, <1>3, <1>4, NamesApart DEF CoordinatorInv, JournalInv, Ops, stores,
           StoresTyped, DeletedByDeletes, Told, JournalTellsTruth, FilesAtHome, InVault,
           RetrySafeIsSafe, Recovering, ResultIsLast, OrphansAreListed, Interrupted,
           Written, SameRecord
  <1> QED
    BY <1>1, <1>5, <1>6, <1>7 DEF CoordinatorInv, JournalInv

\* Refusing a delete keeps the invariant.
LEMMA PlanDeleteRefusedKeeps ==
  ASSUME CoordinatorInv, NEW d \in Deletes, PlanDeleteRefused(d)
  PROVE  CoordinatorInv'
  <1>1. TypeInv'
    BY PlanDeleteTyped DEF CoordinatorInv
  <1>2. /\ run.op = d /\ run.rec \in Records
        /\ proof[d] = None /\ ~ run.rec.core
        /\ journal[d].status = "in_progress" /\ run.rec.status = "in_progress"
        /\ journal[d].path = None
    BY DEF CoordinatorInv, TypeInv, TypeOK, PlanDeleteRefused, At, Ops, RunAgrees,
           ArchiveKnows, DeleteKnows, Recovering, Publishing, Undoing, Moving, Removing,
           Putting
  <1>3. /\ run.op = d /\ run.at = "plan"
        /\ UNCHANGED <<stores, journal, result>>
        /\ Ends(d, "rejected")
    BY <1>2, EndsHolds, CreatedHolds DEF PlanDeleteRefused, At, stores
  <1>4. StoresTyped
    BY <1>1, TypedStores DEF CoordinatorInv
  <1>5. FilesAtHome' /\ PathComesFirst' /\ RowsApart'
    BY <1>2, <1>3, <1>4, NamesApart DEF CoordinatorInv, JournalInv, Ops, stores,
           StoresTyped, FilesAtHome, PathComesFirst, RowsApart, RowAt, InVault, Written,
           SameRecord
  <1>6. RunAgrees' /\ ArchiveKnows' /\ DeleteKnows' /\ ResultIsLast'
    BY <1>2, <1>3, <1>4, NamesApart DEF CoordinatorInv, JournalInv, Ops, stores,
           StoresTyped, RunAgrees, FilesAtHome, Told, InVault, ArchiveKnows, RowAt,
           RowsApart, PathComesFirst, DeleteKnows, ResultIsLast, Written, SameRecord,
           Recovering, Publishing, Undoing, Moving, Removing, Putting, Goes, Ends, Rests,
           SameFile
  <1>7. DeletedByDeletes' /\ JournalTellsTruth' /\ RetrySafeIsSafe' /\ OrphansAreListed'
    BY <1>2, <1>3, <1>4, NamesApart DEF CoordinatorInv, JournalInv, Ops, stores,
           StoresTyped, DeletedByDeletes, Told, JournalTellsTruth, FilesAtHome, InVault,
           RetrySafeIsSafe, Recovering, ResultIsLast, OrphansAreListed, Interrupted,
           Written, SameRecord
  <1> QED
    BY <1>1, <1>5, <1>6, <1>7 DEF CoordinatorInv, JournalInv

\* The check before the move keeps the invariant.
LEMMA QuarantineCheckKeeps ==
  ASSUME CoordinatorInv, NEW d \in Deletes, QuarantineCheck(d)
  PROVE  CoordinatorInv'
  <1>1. TypeInv'
    BY QuarantineTyped DEF CoordinatorInv
  <1>2. /\ run.op = d /\ run.rec \in Records
        /\ proof[d] = None /\ ~ run.rec.core
        /\ journal[d].status = "in_progress" /\ run.rec.status = "in_progress"
        /\ run.rec.path = journal[d].path /\ run.rec.path \in Paths
        /\ rows[target[d]] = run.rec.path
    BY DEF CoordinatorInv, TypeInv, TypeOK, QuarantineCheck, At, Ops, RunAgrees,
           ArchiveKnows, DeleteKnows, Recovering, Publishing, Undoing, Moving, Removing,
           Putting
  <1>3. /\ run.op = d /\ run.at = "quarantine"
        /\ UNCHANGED <<stores, journal, result>>
        /\ (quar[d] = None /\ Goes(d, "link")) \/ Ends(d, "rejected")
    BY <1>2, GoesHolds, EndsHolds DEF QuarantineCheck, At, stores, Ops
  <1>4. StoresTyped
    BY <1>1, TypedStores DEF CoordinatorInv
  <1>5. FilesAtHome' /\ PathComesFirst' /\ RowsApart'
    BY <1>2, <1>3, <1>4, NamesApart DEF CoordinatorInv, JournalInv, Ops, stores,
           StoresTyped, FilesAtHome, PathComesFirst, RowsApart, RowAt, InVault, Written,
           SameRecord
  <1>6. RunAgrees' /\ ArchiveKnows' /\ DeleteKnows' /\ ResultIsLast'
    BY <1>2, <1>3, <1>4, NamesApart DEF CoordinatorInv, JournalInv, Ops, stores,
           StoresTyped, RunAgrees, FilesAtHome, Told, InVault, ArchiveKnows, RowAt,
           RowsApart, PathComesFirst, DeleteKnows, ResultIsLast, Written, SameRecord,
           Recovering, Publishing, Undoing, Moving, Removing, Putting, Goes, Ends, Rests,
           SameFile
  <1>7. DeletedByDeletes' /\ JournalTellsTruth' /\ RetrySafeIsSafe' /\ OrphansAreListed'
    BY <1>2, <1>3, <1>4, NamesApart DEF CoordinatorInv, JournalInv, Ops, stores,
           StoresTyped, DeletedByDeletes, Told, JournalTellsTruth, FilesAtHome, InVault,
           RetrySafeIsSafe, Recovering, ResultIsLast, OrphansAreListed, Interrupted,
           Written, SameRecord
  <1> QED
    BY <1>1, <1>5, <1>6, <1>7 DEF CoordinatorInv, JournalInv

\* The link keeps the invariant: what it holds was at the path of a committed row.
LEMMA QuarantineLinkKeeps ==
  ASSUME CoordinatorInv, NEW d \in Deletes, QuarantineLink(d)
  PROVE  CoordinatorInv'
  <1>1. TypeInv'
    BY QuarantineTyped DEF CoordinatorInv
  <1>2. /\ run.op = d /\ run.rec \in Records
        /\ proof[d] = None /\ ~ run.rec.core
        /\ journal[d].status = "in_progress" /\ run.rec.status = "in_progress"
        /\ run.rec.path = journal[d].path /\ run.rec.path \in Paths
        /\ rows[target[d]] = run.rec.path
        /\ RowAt(run.rec.path)
        /\ quar[d] = None
    BY NamesApart DEF CoordinatorInv, TypeInv, TypeOK, QuarantineLink, At, Ops, RunAgrees,
           ArchiveKnows, DeleteKnows, Recovering, Publishing, Undoing, Moving, Removing,
           Putting, RowAt
  <1>3. /\ run.op = d /\ run.at = "link"
        /\ UNCHANGED <<vault, rows, proof, journal, result>>
        /\ \/ /\ vault[run.rec.path] # None /\ quar' = [quar EXCEPT ![d] = vault[run.rec.path]]
              /\ Goes(d, "unlink_original")
           \/ quar' = quar /\ Ends(d, "rejected")
    BY <1>2, GoesHolds, EndsHolds DEF QuarantineLink, At, Free, stores, Ops
  <1>4. StoresTyped
    BY <1>1, TypedStores DEF CoordinatorInv
  <1>5. FilesAtHome' /\ PathComesFirst' /\ RowsApart'
    BY <1>2, <1>3, <1>4, NamesApart DEF CoordinatorInv, JournalInv, Ops, stores,
           StoresTyped, FilesAtHome, PathComesFirst, RowsApart, RowAt, InVault, Written,
           SameRecord
  <1>6. RunAgrees' /\ ArchiveKnows' /\ DeleteKnows' /\ ResultIsLast'
    BY <1>2, <1>3, <1>4, NamesApart DEF CoordinatorInv, JournalInv, Ops, stores,
           StoresTyped, RunAgrees, FilesAtHome, Told, InVault, ArchiveKnows, RowAt,
           RowsApart, PathComesFirst, DeleteKnows, ResultIsLast, Written, SameRecord,
           Recovering, Publishing, Undoing, Moving, Removing, Putting, Goes, Ends, Rests,
           SameFile
  <1>7. DeletedByDeletes' /\ JournalTellsTruth' /\ RetrySafeIsSafe' /\ OrphansAreListed'
    BY <1>2, <1>3, <1>4, NamesApart DEF CoordinatorInv, JournalInv, Ops, stores,
           StoresTyped, DeletedByDeletes, Told, JournalTellsTruth, FilesAtHome, InVault,
           RetrySafeIsSafe, Recovering, ResultIsLast, OrphansAreListed, Interrupted,
           Written, SameRecord
  <1> QED
    BY <1>1, <1>5, <1>6, <1>7 DEF CoordinatorInv, JournalInv

\* The unlink of the original name keeps the invariant.
LEMMA UnlinkOriginalKeeps ==
  ASSUME CoordinatorInv, NEW d \in Deletes, UnlinkOriginal(d)
  PROVE  CoordinatorInv'
  <1>1. TypeInv'
    BY UnlinkOriginalTyped DEF CoordinatorInv
  <1>2. /\ run.op = d /\ run.rec \in Records
        /\ proof[d] = None /\ ~ run.rec.core
        /\ journal[d].status = "in_progress" /\ run.rec.status = "in_progress"
        /\ run.rec.path = journal[d].path /\ run.rec.path \in Paths
        /\ rows[target[d]] = run.rec.path
        /\ quar[d] # None
    BY DEF CoordinatorInv, TypeInv, TypeOK, UnlinkOriginal, At, Ops, RunAgrees,
           ArchiveKnows, DeleteKnows, Recovering, Publishing, Undoing, Moving, Removing,
           Putting
  <1>3. /\ run.op = d /\ run.at = "unlink_original"
        /\ UNCHANGED <<rows, proof, journal, result>>
        /\ \/ /\ vault' = [vault EXCEPT ![run.rec.path] = None] /\ quar' = quar
              /\ Goes(d, "verify")
           \/ /\ vault' = vault /\ quar' \in {quar, [quar EXCEPT ![d] = None]}
              /\ Ends(d, "rejected")
    BY <1>2, GoesHolds, EndsHolds DEF UnlinkOriginal, At, stores, Ops
  <1>4. StoresTyped
    BY <1>1, TypedStores DEF CoordinatorInv
  <1>5. FilesAtHome' /\ PathComesFirst' /\ RowsApart'
    BY <1>2, <1>3, <1>4, NamesApart DEF CoordinatorInv, JournalInv, Ops, stores,
           StoresTyped, FilesAtHome, PathComesFirst, RowsApart, RowAt, InVault, Written,
           SameRecord
  <1>6. RunAgrees' /\ ArchiveKnows' /\ DeleteKnows' /\ ResultIsLast'
    BY <1>2, <1>3, <1>4, NamesApart DEF CoordinatorInv, JournalInv, Ops, stores,
           StoresTyped, RunAgrees, FilesAtHome, Told, InVault, ArchiveKnows, RowAt,
           RowsApart, PathComesFirst, DeleteKnows, ResultIsLast, Written, SameRecord,
           Recovering, Publishing, Undoing, Moving, Removing, Putting, Goes, Ends, Rests,
           SameFile
  <1>7. DeletedByDeletes' /\ JournalTellsTruth' /\ RetrySafeIsSafe' /\ OrphansAreListed'
    BY <1>2, <1>3, <1>4, NamesApart DEF CoordinatorInv, JournalInv, Ops, stores,
           StoresTyped, DeletedByDeletes, Told, JournalTellsTruth, FilesAtHome, InVault,
           RetrySafeIsSafe, Recovering, ResultIsLast, OrphansAreListed, Interrupted,
           Written, SameRecord
  <1> QED
    BY <1>1, <1>5, <1>6, <1>7 DEF CoordinatorInv, JournalInv

\* The check of what was moved keeps the invariant.
LEMMA VerifyQuarantineKeeps ==
  ASSUME CoordinatorInv, NEW d \in Deletes, VerifyQuarantine(d)
  PROVE  CoordinatorInv'
  <1>1. TypeInv'
    BY UnlinkOriginalTyped DEF CoordinatorInv
  <1>2. /\ run.op = d /\ run.rec \in Records
        /\ proof[d] = None /\ ~ run.rec.core
        /\ journal[d].status = "in_progress" /\ run.rec.status = "in_progress"
        /\ run.rec.path = journal[d].path /\ run.rec.path \in Paths
        /\ rows[target[d]] = run.rec.path
        /\ quar[d] # None
    BY DEF CoordinatorInv, TypeInv, TypeOK, VerifyQuarantine, At, Ops, RunAgrees,
           ArchiveKnows, DeleteKnows, Recovering, Publishing, Undoing, Moving, Removing,
           Putting
  <1>3. /\ run.op = d /\ run.at = "verify"
        /\ UNCHANGED <<stores, journal, result>>
        /\ \/ /\ quar[d] = run.rec.file /\ SameFile
              /\ Goes(d, "journal_quarantined") \/ Goes(d, "restore")
           \/ Ends(d, "repair_required")
    BY <1>2, GoesHolds, EndsHolds DEF VerifyQuarantine, At, stores, Ops
  <1>4. StoresTyped
    BY <1>1, TypedStores DEF CoordinatorInv
  <1>5. FilesAtHome' /\ PathComesFirst' /\ RowsApart'
    BY <1>2, <1>3, <1>4, NamesApart DEF CoordinatorInv, JournalInv, Ops, stores,
           StoresTyped, FilesAtHome, PathComesFirst, RowsApart, RowAt, InVault, Written,
           SameRecord
  <1>6. RunAgrees' /\ ArchiveKnows' /\ DeleteKnows' /\ ResultIsLast'
    BY <1>2, <1>3, <1>4, NamesApart DEF CoordinatorInv, JournalInv, Ops, stores,
           StoresTyped, RunAgrees, FilesAtHome, Told, InVault, ArchiveKnows, RowAt,
           RowsApart, PathComesFirst, DeleteKnows, ResultIsLast, Written, SameRecord,
           Recovering, Publishing, Undoing, Moving, Removing, Putting, Goes, Ends, Rests,
           SameFile
  <1>7. DeletedByDeletes' /\ JournalTellsTruth' /\ RetrySafeIsSafe' /\ OrphansAreListed'
    BY <1>2, <1>3, <1>4, NamesApart DEF CoordinatorInv, JournalInv, Ops, stores,
           StoresTyped, DeletedByDeletes, Told, JournalTellsTruth, FilesAtHome, InVault,
           RetrySafeIsSafe, Recovering, ResultIsLast, OrphansAreListed, Interrupted,
           Written, SameRecord
  <1> QED
    BY <1>1, <1>5, <1>6, <1>7 DEF CoordinatorInv, JournalInv

\* Journaling the quarantine keeps the invariant.
LEMMA JournalQuarantinedKeeps ==
  ASSUME CoordinatorInv, NEW d \in Deletes, JournalQuarantined(d)
  PROVE  CoordinatorInv'
  <1>1. TypeInv'
    BY JournalQuarantinedTyped DEF CoordinatorInv
  <1>2. /\ run.op = d /\ run.rec \in Records
        /\ proof[d] = None /\ ~ run.rec.core
        /\ journal[d].status = "in_progress" /\ run.rec.status = "in_progress"
        /\ run.rec.path = journal[d].path /\ run.rec.path \in Paths
        /\ rows[target[d]] = run.rec.path
        /\ ~ run.rec.missing => quar[d] # None /\ quar[d] = run.rec.file
    BY DEF CoordinatorInv, TypeInv, TypeOK, JournalQuarantined, At, Ops, RunAgrees,
           ArchiveKnows, DeleteKnows, Recovering, Publishing, Undoing, Moving, Removing,
           Putting
  <1>3. /\ run.op = d /\ run.at = "journal_quarantined"
        /\ UNCHANGED <<stores, result>> /\ Written(d, run.rec.path)
        /\ \/ Goes(d, "remove") /\ SameFile
           \/ run.rec.missing /\ Ends(d, "rejected")
           \/ ~ run.rec.missing /\ Goes(d, "restore")
    <2> DEFINE rec == [run.rec EXCEPT !.stage = "delete_quarantined"]
    <2>1. /\ rec \in Records /\ rec.path = run.rec.path /\ rec.status = run.rec.status
          /\ rec.core = run.rec.core /\ rec.missing = run.rec.missing
      BY <1>2 DEF Records, Stages
    <2>2. /\ run.op = d /\ run.at = "journal_quarantined" /\ UNCHANGED <<stores, result>>
          /\ JournalWritten(d, rec) \/ JournalFailed(d, rec)
          /\ \/ Goto(d, "remove", rec)
             \/ rec.missing /\ Rejected(d, rec, "compensating")
             \/ ~ rec.missing /\ Goto(d, "restore", rec)
      BY DEF JournalQuarantined, At
    <2>3. \A step : Goto(d, step, rec) => Goes(d, step) /\ SameFile
      BY <1>2, GoesHolds
    <2> HIDE DEF rec
    <2>4. Written(d, run.rec.path)
      BY <1>2, <2>1, <2>2, WrittenHolds DEF Ops
    <2> QED
      BY <1>2, <2>1, <2>2, <2>3, <2>4, EndsHolds
  <1>4. StoresTyped
    BY <1>1, TypedStores DEF CoordinatorInv
  <1>5. FilesAtHome' /\ PathComesFirst' /\ RowsApart'
    BY <1>2, <1>3, <1>4, NamesApart DEF CoordinatorInv, JournalInv, Ops, stores,
           StoresTyped, FilesAtHome, PathComesFirst, RowsApart, RowAt, InVault, Written,
           SameRecord
  <1>6. RunAgrees' /\ ArchiveKnows' /\ DeleteKnows' /\ ResultIsLast'
    BY <1>2, <1>3, <1>4, NamesApart DEF CoordinatorInv, JournalInv, Ops, stores,
           StoresTyped, RunAgrees, FilesAtHome, Told, InVault, ArchiveKnows, RowAt,
           RowsApart, PathComesFirst, DeleteKnows, ResultIsLast, Written, SameRecord,
           Recovering, Publishing, Undoing, Moving, Removing, Putting, Goes, Ends, Rests,
           SameFile
  <1>7. DeletedByDeletes' /\ JournalTellsTruth' /\ RetrySafeIsSafe' /\ OrphansAreListed'
    BY <1>2, <1>3, <1>4, NamesApart DEF CoordinatorInv, JournalInv, Ops, stores,
           StoresTyped, DeletedByDeletes, Told, JournalTellsTruth, FilesAtHome, InVault,
           RetrySafeIsSafe, Recovering, ResultIsLast, OrphansAreListed, Interrupted,
           Written, SameRecord
  <1> QED
    BY <1>1, <1>5, <1>6, <1>7 DEF CoordinatorInv, JournalInv

\* The delete transaction keeps the invariant: the row goes and the proof comes together.
LEMMA RemoveRowKeeps ==
  ASSUME CoordinatorInv, NEW d \in Deletes, RemoveRow(d)
  PROVE  CoordinatorInv'
  <1>1. TypeInv'
    BY RemoveRowTyped DEF CoordinatorInv
  <1>2. /\ run.op = d /\ run.rec \in Records
        /\ proof[d] = None /\ ~ run.rec.core
        /\ journal[d].status = "in_progress" /\ run.rec.status = "in_progress"
        /\ run.rec.path = journal[d].path /\ run.rec.path \in Paths
        /\ rows[target[d]] = run.rec.path
        /\ ~ run.rec.missing => quar[d] # None /\ quar[d] = run.rec.file
    BY DEF CoordinatorInv, TypeInv, TypeOK, RemoveRow, At, Ops, RunAgrees, ArchiveKnows,
           DeleteKnows, Recovering, Publishing, Undoing, Moving, Removing, Putting
  <1>3. /\ run.op = d /\ run.at = "remove"
        /\ UNCHANGED <<vault, quar, journal, result>>
        /\ \/ /\ rows' = [rows EXCEPT ![target[d]] = None]
              /\ proof' = [proof EXCEPT ![d] = run.rec.path]
              /\ \/ Goes(d, "purge") /\ SameFile
                 \/ Ends(d, "repair_required")
           \/ /\ UNCHANGED <<rows, proof>>
              /\ Ends(d, "repair_required") \/ (~ run.rec.missing /\ Goes(d, "restore"))
    BY <1>2, GoesHolds, EndsHolds, NamesApart DEF RemoveRow, At, Probed, DeleteProbe,
           stores, Ops
  <1>4. StoresTyped
    BY <1>1, TypedStores DEF CoordinatorInv
  <1>5. FilesAtHome' /\ PathComesFirst' /\ RowsApart'
    BY <1>2, <1>3, <1>4, NamesApart DEF CoordinatorInv, JournalInv, Ops, stores,
           StoresTyped, FilesAtHome, PathComesFirst, RowsApart, RowAt, InVault, Written,
           SameRecord
  <1>6. RunAgrees' /\ ArchiveKnows' /\ DeleteKnows' /\ ResultIsLast'
    BY <1>2, <1>3, <1>4, NamesApart DEF CoordinatorInv, JournalInv, Ops, stores,
           StoresTyped, RunAgrees, FilesAtHome, Told, InVault, ArchiveKnows, RowAt,
           RowsApart, PathComesFirst, DeleteKnows, ResultIsLast, Written, SameRecord,
           Recovering, Publishing, Undoing, Moving, Removing, Putting, Goes, Ends, Rests,
           SameFile
  <1>7. DeletedByDeletes' /\ JournalTellsTruth' /\ RetrySafeIsSafe' /\ OrphansAreListed'
    BY <1>2, <1>3, <1>4, NamesApart DEF CoordinatorInv, JournalInv, Ops, stores,
           StoresTyped, DeletedByDeletes, Told, JournalTellsTruth, FilesAtHome, InVault,
           RetrySafeIsSafe, Recovering, ResultIsLast, OrphansAreListed, Interrupted,
           Written, SameRecord
  <1> QED
    BY <1>1, <1>5, <1>6, <1>7 DEF CoordinatorInv, JournalInv

\* Putting the file back keeps the invariant.
LEMMA RestoreKeeps ==
  ASSUME CoordinatorInv, NEW d \in Deletes, Restore(d)
  PROVE  CoordinatorInv'
  <1>1. TypeInv'
    BY RestoreTyped DEF CoordinatorInv
  <1>2. /\ run.op = d /\ run.rec \in Records
        /\ proof[d] = None /\ ~ run.rec.core
        /\ journal[d].status = "in_progress" /\ run.rec.status = "in_progress"
        /\ run.rec.path = journal[d].path /\ run.rec.path \in Paths
        /\ rows[target[d]] = run.rec.path
        /\ quar[d] # None
    BY DEF CoordinatorInv, TypeInv, TypeOK, Restore, At, Ops, RunAgrees, ArchiveKnows,
           DeleteKnows, Recovering, Publishing, Undoing, Moving, Removing, Putting
  <1>3. /\ run.op = d /\ run.at = "restore"
        /\ UNCHANGED <<quar, rows, proof, journal, result>>
        /\ \/ /\ vault[run.rec.path] = None /\ vault' = [vault EXCEPT ![run.rec.path] = quar[d]]
              /\ Goes(d, "restore_unlink")
           \/ vault' = vault /\ Ends(d, "repair_required")
    BY <1>2, GoesHolds, EndsHolds DEF Restore, At, Free, stores, Ops
  <1>4. StoresTyped
    BY <1>1, TypedStores DEF CoordinatorInv
  <1>5. FilesAtHome' /\ PathComesFirst' /\ RowsApart'
    BY <1>2, <1>3, <1>4, NamesApart DEF CoordinatorInv, JournalInv, Ops, stores,
           StoresTyped, FilesAtHome, PathComesFirst, RowsApart, RowAt, InVault, Written,
           SameRecord
  <1>6. RunAgrees' /\ ArchiveKnows' /\ DeleteKnows' /\ ResultIsLast'
    BY <1>2, <1>3, <1>4, NamesApart DEF CoordinatorInv, JournalInv, Ops, stores,
           StoresTyped, RunAgrees, FilesAtHome, Told, InVault, ArchiveKnows, RowAt,
           RowsApart, PathComesFirst, DeleteKnows, ResultIsLast, Written, SameRecord,
           Recovering, Publishing, Undoing, Moving, Removing, Putting, Goes, Ends, Rests,
           SameFile
  <1>7. DeletedByDeletes' /\ JournalTellsTruth' /\ RetrySafeIsSafe' /\ OrphansAreListed'
    BY <1>2, <1>3, <1>4, NamesApart DEF CoordinatorInv, JournalInv, Ops, stores,
           StoresTyped, DeletedByDeletes, Told, JournalTellsTruth, FilesAtHome, InVault,
           RetrySafeIsSafe, Recovering, ResultIsLast, OrphansAreListed, Interrupted,
           Written, SameRecord
  <1> QED
    BY <1>1, <1>5, <1>6, <1>7 DEF CoordinatorInv, JournalInv

\* Clearing the slot keeps the invariant.
LEMMA RestoreUnlinkKeeps ==
  ASSUME CoordinatorInv, NEW d \in Deletes, RestoreUnlink(d)
  PROVE  CoordinatorInv'
  <1>1. TypeInv'
    BY RestoreTyped DEF CoordinatorInv
  <1>2. /\ run.op = d /\ run.rec \in Records
        /\ proof[d] = None /\ ~ run.rec.core
        /\ journal[d].status = "in_progress" /\ run.rec.status = "in_progress"
        /\ run.rec.path = journal[d].path /\ run.rec.path \in Paths
        /\ rows[target[d]] = run.rec.path
        /\ quar[d] # None
    BY DEF CoordinatorInv, TypeInv, TypeOK, RestoreUnlink, At, Ops, RunAgrees, ArchiveKnows,
           DeleteKnows, Recovering, Publishing, Undoing, Moving, Removing, Putting
  <1>3. /\ run.op = d /\ run.at = "restore_unlink"
        /\ UNCHANGED <<rows, proof, journal, result>>
        /\ \/ /\ quar' = [quar EXCEPT ![d] = None] /\ vault' = vault
              /\ Ends(d, "rejected") \/ Ends(d, "repair_required")
           \/ /\ quar' = quar /\ vault' \in {vault, [vault EXCEPT ![run.rec.path] = None]}
              /\ Ends(d, "repair_required")
    BY <1>2, GoesHolds, EndsHolds DEF RestoreUnlink, At, MoveUndone, stores, Ops
  <1>4. StoresTyped
    BY <1>1, TypedStores DEF CoordinatorInv
  <1>5. FilesAtHome' /\ PathComesFirst' /\ RowsApart'
    BY <1>2, <1>3, <1>4, NamesApart DEF CoordinatorInv, JournalInv, Ops, stores,
           StoresTyped, FilesAtHome, PathComesFirst, RowsApart, RowAt, InVault, Written,
           SameRecord
  <1>6. RunAgrees' /\ ArchiveKnows' /\ DeleteKnows' /\ ResultIsLast'
    BY <1>2, <1>3, <1>4, NamesApart DEF CoordinatorInv, JournalInv, Ops, stores,
           StoresTyped, RunAgrees, FilesAtHome, Told, InVault, ArchiveKnows, RowAt,
           RowsApart, PathComesFirst, DeleteKnows, ResultIsLast, Written, SameRecord,
           Recovering, Publishing, Undoing, Moving, Removing, Putting, Goes, Ends, Rests,
           SameFile
  <1>7. DeletedByDeletes' /\ JournalTellsTruth' /\ RetrySafeIsSafe' /\ OrphansAreListed'
    BY <1>2, <1>3, <1>4, NamesApart DEF CoordinatorInv, JournalInv, Ops, stores,
           StoresTyped, DeletedByDeletes, Told, JournalTellsTruth, FilesAtHome, InVault,
           RetrySafeIsSafe, Recovering, ResultIsLast, OrphansAreListed, Interrupted,
           Written, SameRecord
  <1> QED
    BY <1>1, <1>5, <1>6, <1>7 DEF CoordinatorInv, JournalInv

\* The purge keeps the invariant: the row is gone.
LEMMA PurgeQuarantineKeeps ==
  ASSUME CoordinatorInv, NEW d \in Deletes, PurgeQuarantine(d)
  PROVE  CoordinatorInv'
  <1>1. TypeInv'
    BY RestoreTyped DEF CoordinatorInv
  <1>2. /\ run.op = d /\ run.rec \in Records
        /\ proof[d] # None
        /\ journal[d].status = "in_progress" /\ run.rec.status = "in_progress"
        /\ rows[target[d]] = None
        /\ run.rec.path = journal[d].path
    BY DEF CoordinatorInv, TypeInv, TypeOK, PurgeQuarantine, At, Ops, RunAgrees,
           ArchiveKnows, DeleteKnows, Recovering, Publishing, Undoing, Moving, Removing,
           Putting
  <1>3. /\ run.op = d /\ run.at = "purge"
        /\ UNCHANGED <<vault, rows, proof, journal, result>>
        /\ \/ /\ quar' = [quar EXCEPT ![d] = None]
              /\ Ends(d, "deleted") \/ Ends(d, "degraded")
           \/ quar' = quar /\ Ends(d, "degraded")
    BY <1>2, GoesHolds, EndsHolds DEF PurgeQuarantine, At, stores, Ops
  <1>4. StoresTyped
    BY <1>1, TypedStores DEF CoordinatorInv
  <1>5. FilesAtHome' /\ PathComesFirst' /\ RowsApart'
    BY <1>2, <1>3, <1>4, NamesApart DEF CoordinatorInv, JournalInv, Ops, stores,
           StoresTyped, FilesAtHome, PathComesFirst, RowsApart, RowAt, InVault, Written,
           SameRecord
  <1>6. RunAgrees' /\ ArchiveKnows' /\ DeleteKnows' /\ ResultIsLast'
    BY <1>2, <1>3, <1>4, NamesApart DEF CoordinatorInv, JournalInv, Ops, stores,
           StoresTyped, RunAgrees, FilesAtHome, Told, InVault, ArchiveKnows, RowAt,
           RowsApart, PathComesFirst, DeleteKnows, ResultIsLast, Written, SameRecord,
           Recovering, Publishing, Undoing, Moving, Removing, Putting, Goes, Ends, Rests,
           SameFile
  <1>7. DeletedByDeletes' /\ JournalTellsTruth' /\ RetrySafeIsSafe' /\ OrphansAreListed'
    BY <1>2, <1>3, <1>4, NamesApart DEF CoordinatorInv, JournalInv, Ops, stores,
           StoresTyped, DeletedByDeletes, Told, JournalTellsTruth, FilesAtHome, InVault,
           RetrySafeIsSafe, Recovering, ResultIsLast, OrphansAreListed, Interrupted,
           Written, SameRecord
  <1> QED
    BY <1>1, <1>5, <1>6, <1>7 DEF CoordinatorInv, JournalInv

\* The last record and the answer keep the invariant.
LEMMA FinishKeeps ==
  ASSUME CoordinatorInv, NEW o \in Ops, Finish(o)
  PROVE  CoordinatorInv'
  <1>1. TypeInv'
    BY FinishTyped DEF CoordinatorInv
  <1>2. run.rec \in Records /\ run.at = "finish" /\ Told(o, run.rec)
        /\ journal[o].status = "in_progress"
        /\ run.rec.status \in {"rejected", "ready", "degraded", "deleted", "repair_required"}
    BY DEF CoordinatorInv, TypeInv, TypeOK, Finish, At, Ops, RunAgrees, ArchiveKnows,
           DeleteKnows, Recovering, Publishing, Undoing, Moving, Removing, Putting, Records,
           Statuses
  <1>3. /\ run.op = o /\ run.at = "finish"
        /\ UNCHANGED stores /\ Rests
        /\ \A q \in Ops \ {o} : SameRecord(q)
        /\ \/ SameRecord(o)
           \/ /\ journal'[o].path = journal[o].path /\ journal'[o].status = run.rec.status
              /\ journal'[o].core = (journal[o].core \/ run.rec.core)
        /\ result'.op = o /\ result'.core = run.rec.core
        /\ result'.status \in {run.rec.status, "repair_required"}
    <2>1. journal[o] \in Records /\ journal \in [Ops -> Records]
      BY DEF CoordinatorInv, TypeInv, TypeOK
    <2>2. journal' \in {journal, [journal EXCEPT ![o] = Merged(o)]}
      BY DEF Finish, JournalWritten, JournalFailed
    <2>3. /\ Merged(o).path = journal[o].path /\ Merged(o).status = run.rec.status
          /\ Merged(o).core = (journal[o].core \/ run.rec.core)
      BY <2>1 DEF Merged, Records
    <2>4. /\ \A q \in Ops \ {o} : SameRecord(q)
          /\ \/ SameRecord(o)
             \/ /\ journal'[o].path = journal[o].path /\ journal'[o].status = run.rec.status
                /\ journal'[o].core = (journal[o].core \/ run.rec.core)
      BY <2>1, <2>2, <2>3 DEF SameRecord
    <2>5. \E status \in {run.rec.status, "repair_required"} : Returns(o, status, run.rec.core)
      BY DEF Finish
    <2> QED
      BY <2>4, <2>5 DEF Finish, At, Returns, Idle, Rests, stores
  <1>4. StoresTyped
    BY <1>1, TypedStores DEF CoordinatorInv
  <1>5. FilesAtHome' /\ PathComesFirst' /\ RowsApart'
    BY <1>2, <1>3, <1>4, NamesApart DEF CoordinatorInv, JournalInv, Ops, stores,
           StoresTyped, FilesAtHome, PathComesFirst, RowsApart, RowAt, InVault, Written,
           SameRecord
  <1>6. RunAgrees' /\ ArchiveKnows' /\ DeleteKnows' /\ ResultIsLast'
    BY <1>2, <1>3, <1>4, NamesApart DEF CoordinatorInv, JournalInv, Ops, stores,
           StoresTyped, RunAgrees, FilesAtHome, Told, InVault, ArchiveKnows, RowAt,
           RowsApart, PathComesFirst, DeleteKnows, ResultIsLast, Written, SameRecord,
           Recovering, Publishing, Undoing, Moving, Removing, Putting, Goes, Ends, Rests,
           SameFile
  <1>7. JournalTellsTruth'
    <2>1. \A q \in Ops : Told(q, journal[q])
      BY DEF CoordinatorInv, JournalInv, JournalTellsTruth, DeletedByDeletes, Told
    <2>2. ASSUME NEW q \in Ops PROVE Told(q, journal'[q])
      BY <1>2, <1>3, <2>1 DEF Told, SameRecord
    <2> QED
      BY <1>3, <2>2 DEF JournalTellsTruth, Told, InVault, stores
  <1>8. DeletedByDeletes' /\ RetrySafeIsSafe' /\ OrphansAreListed'
    BY <1>2, <1>3, <1>4, NamesApart DEF CoordinatorInv, JournalInv, Ops, stores,
           StoresTyped, DeletedByDeletes, Told, RetrySafeIsSafe, Recovering, ResultIsLast,
           FilesAtHome, InVault, OrphansAreListed, Interrupted, Written, SameRecord
  <1> QED
    BY <1>1, <1>5, <1>6, <1>7, <1>8 DEF CoordinatorInv, JournalInv

\* A recovery that puts the file back keeps the invariant.
LEMMA RecoverRestoreKeeps ==
  ASSUME CoordinatorInv, NEW d \in Deletes, RecoverRestore(d)
  PROVE  CoordinatorInv'
  <1>1. TypeInv'
    BY RecoverMoveTyped DEF CoordinatorInv
  <1>2. /\ run.op = d /\ run.rec \in Records
        /\ proof[d] = None
        /\ run.rec.path = journal[d].path /\ run.rec.path \in Paths
        /\ rows[target[d]] = run.rec.path
        /\ quar[d] # None
        /\ run.rec.status = "rejected" /\ ~ run.rec.core
    BY DEF CoordinatorInv, TypeInv, TypeOK, RecoverRestore, At, Ops, RunAgrees,
           ArchiveKnows, DeleteKnows, Recovering, Publishing, Undoing, Moving, Removing,
           Putting
  <1>3. /\ run.op = d /\ run.at = "recover_restore"
        /\ UNCHANGED <<quar, rows, proof, journal, result>>
        /\ \/ /\ vault[run.rec.path] = None /\ vault' = [vault EXCEPT ![run.rec.path] = quar[d]]
              /\ Goes(d, "recover_unlink")
           \/ vault' = vault /\ Rests
    <2>1. Blocks(d) => Rests
      BY DEF Blocks, Idle, Rests
    <2>2. \A step : Goto(d, step, run.rec) => Goes(d, step)
      BY <1>2, GoesHolds
    <2> QED
      BY <1>2, <2>1, <2>2 DEF RecoverRestore, At, Free
  <1>4. StoresTyped
    BY <1>1, TypedStores DEF CoordinatorInv
  <1>5. FilesAtHome' /\ PathComesFirst' /\ RowsApart'
    BY <1>2, <1>3, <1>4, NamesApart DEF CoordinatorInv, JournalInv, Ops, stores,
           StoresTyped, FilesAtHome, PathComesFirst, RowsApart, RowAt, InVault, Written,
           SameRecord
  <1>6. RunAgrees' /\ ArchiveKnows' /\ DeleteKnows' /\ ResultIsLast'
    BY <1>2, <1>3, <1>4, NamesApart DEF CoordinatorInv, JournalInv, Ops, stores,
           StoresTyped, RunAgrees, FilesAtHome, Told, InVault, ArchiveKnows, RowAt,
           RowsApart, PathComesFirst, DeleteKnows, ResultIsLast, Written, SameRecord,
           Recovering, Publishing, Undoing, Moving, Removing, Putting, Goes, Ends, Rests,
           SameFile
  <1>7. DeletedByDeletes' /\ JournalTellsTruth' /\ RetrySafeIsSafe' /\ OrphansAreListed'
    BY <1>2, <1>3, <1>4, NamesApart DEF CoordinatorInv, JournalInv, Ops, stores,
           StoresTyped, DeletedByDeletes, Told, JournalTellsTruth, FilesAtHome, InVault,
           RetrySafeIsSafe, Recovering, ResultIsLast, OrphansAreListed, Interrupted,
           Written, SameRecord
  <1> QED
    BY <1>1, <1>5, <1>6, <1>7 DEF CoordinatorInv, JournalInv

\* A recovery that clears the slot keeps the invariant.
LEMMA RecoverUnlinkKeeps ==
  ASSUME CoordinatorInv, NEW d \in Deletes, RecoverUnlink(d)
  PROVE  CoordinatorInv'
  <1>1. TypeInv'
    BY RecoverMoveTyped DEF CoordinatorInv
  <1>2. /\ run.op = d /\ run.rec \in Records
        /\ proof[d] = None
        /\ run.rec.path = journal[d].path /\ run.rec.path \in Paths
        /\ rows[target[d]] = run.rec.path
        /\ quar[d] # None
        /\ run.rec.status = "rejected" /\ ~ run.rec.core
    BY DEF CoordinatorInv, TypeInv, TypeOK, RecoverUnlink, At, Ops, RunAgrees, ArchiveKnows,
           DeleteKnows, Recovering, Publishing, Undoing, Moving, Removing, Putting
  <1>3. /\ run.op = d /\ run.at = "recover_unlink"
        /\ UNCHANGED <<rows, proof, journal, result>>
        /\ \/ /\ quar' = [quar EXCEPT ![d] = None] /\ vault' = vault
              /\ Goes(d, "recover_write") \/ Rests
           \/ /\ quar' = quar /\ vault' \in {vault, [vault EXCEPT ![run.rec.path] = None]}
              /\ Rests
    <2>1. Blocks(d) => Rests
      BY DEF Blocks, Idle, Rests
    <2>2. \A step : Goto(d, step, run.rec) => Goes(d, step)
      BY <1>2, GoesHolds
    <2> QED
      BY <1>2, <2>1, <2>2 DEF RecoverUnlink, At, MoveUndone
  <1>4. StoresTyped
    BY <1>1, TypedStores DEF CoordinatorInv
  <1>5. FilesAtHome' /\ PathComesFirst' /\ RowsApart'
    BY <1>2, <1>3, <1>4, NamesApart DEF CoordinatorInv, JournalInv, Ops, stores,
           StoresTyped, FilesAtHome, PathComesFirst, RowsApart, RowAt, InVault, Written,
           SameRecord
  <1>6. RunAgrees' /\ ArchiveKnows' /\ DeleteKnows' /\ ResultIsLast'
    BY <1>2, <1>3, <1>4, NamesApart DEF CoordinatorInv, JournalInv, Ops, stores,
           StoresTyped, RunAgrees, FilesAtHome, Told, InVault, ArchiveKnows, RowAt,
           RowsApart, PathComesFirst, DeleteKnows, ResultIsLast, Written, SameRecord,
           Recovering, Publishing, Undoing, Moving, Removing, Putting, Goes, Ends, Rests,
           SameFile
  <1>7. DeletedByDeletes' /\ JournalTellsTruth' /\ RetrySafeIsSafe' /\ OrphansAreListed'
    BY <1>2, <1>3, <1>4, NamesApart DEF CoordinatorInv, JournalInv, Ops, stores,
           StoresTyped, DeletedByDeletes, Told, JournalTellsTruth, FilesAtHome, InVault,
           RetrySafeIsSafe, Recovering, ResultIsLast, OrphansAreListed, Interrupted,
           Written, SameRecord
  <1> QED
    BY <1>1, <1>5, <1>6, <1>7 DEF CoordinatorInv, JournalInv

\* The terminal record of a recovery keeps the invariant.
LEMMA RecoverWriteKeeps ==
  ASSUME CoordinatorInv, NEW o \in Ops, RecoverWrite(o)
  PROVE  CoordinatorInv'
  <1>1. TypeInv'
    BY RecoverWriteTyped DEF CoordinatorInv
  <1>2. run.rec \in Records /\ Told(o, run.rec) /\ run.rec.path = journal[o].path
        /\ run.rec.status \in {"rejected", "ready", "degraded", "deleted", "repair_required"}
    BY DEF CoordinatorInv, TypeInv, TypeOK, RecoverWrite, At, Ops, RunAgrees, ArchiveKnows,
           DeleteKnows, Recovering, Publishing, Undoing, Moving, Removing, Putting, Records,
           Statuses
  <1>3. /\ run.op = o /\ run.at = "recover_write"
        /\ UNCHANGED <<stores, result>> /\ Rests
        /\ \A q \in Ops \ {o} : SameRecord(q)
        /\ \/ SameRecord(o)
           \/ /\ journal'[o].path = journal[o].path /\ journal'[o].status = run.rec.status
              /\ journal'[o].core = run.rec.core
    <2>1. journal \in [Ops -> Records] /\ journal' \in {journal, [journal EXCEPT ![o] = run.rec]}
      BY DEF CoordinatorInv, TypeInv, TypeOK, RecoverWrite, JournalWritten, JournalFailed
    <2>2. /\ \A q \in Ops \ {o} : SameRecord(q)
          /\ \/ SameRecord(o)
             \/ /\ journal'[o].path = journal[o].path /\ journal'[o].status = run.rec.status
                /\ journal'[o].core = run.rec.core
      BY <1>2, <2>1 DEF SameRecord
    <2> QED
      BY <2>2 DEF RecoverWrite, At, Blocks, Idle, Rests, stores
  <1>4. StoresTyped
    BY <1>1, TypedStores DEF CoordinatorInv
  <1>5. FilesAtHome' /\ PathComesFirst' /\ RowsApart'
    BY <1>2, <1>3, <1>4, NamesApart DEF CoordinatorInv, JournalInv, Ops, stores,
           StoresTyped, FilesAtHome, PathComesFirst, RowsApart, RowAt, InVault, Written,
           SameRecord
  <1>6. RunAgrees' /\ ArchiveKnows' /\ DeleteKnows' /\ ResultIsLast'
    BY <1>2, <1>3, <1>4, NamesApart DEF CoordinatorInv, JournalInv, Ops, stores,
           StoresTyped, RunAgrees, FilesAtHome, Told, InVault, ArchiveKnows, RowAt,
           RowsApart, PathComesFirst, DeleteKnows, ResultIsLast, Written, SameRecord,
           Recovering, Publishing, Undoing, Moving, Removing, Putting, Goes, Ends, Rests,
           SameFile
  <1>7. DeletedByDeletes' /\ JournalTellsTruth' /\ RetrySafeIsSafe' /\ OrphansAreListed'
    BY <1>2, <1>3, <1>4, NamesApart DEF CoordinatorInv, JournalInv, Ops, stores,
           StoresTyped, DeletedByDeletes, Told, JournalTellsTruth, FilesAtHome, InVault,
           RetrySafeIsSafe, Recovering, ResultIsLast, OrphansAreListed, Interrupted,
           Written, SameRecord
  <1> QED
    BY <1>1, <1>5, <1>6, <1>7 DEF CoordinatorInv, JournalInv

\* Beginning an operation keeps the invariant: its record comes before anything else.
LEMMA BeginKeeps ==
  ASSUME CoordinatorInv, NEW o \in Ops, Begin(o)
  PROVE  CoordinatorInv'
  <1>1. TypeInv'
    BY StartTyped DEF CoordinatorInv, Begin
  <1>2. journal[o].status = "none" /\ journal[o].path = None /\ proof[o] = None /\ ~ InVault(o)
        /\ ~ journal[o].core
    BY NamesApart DEF CoordinatorInv, TypeInv, TypeOK, Begin, At, Ops, RunAgrees,
       ArchiveKnows,
           DeleteKnows, Recovering, Publishing, Undoing, Moving, Removing, Putting, Start,
           PathComesFirst, JournalInv, JournalTellsTruth
  <1>3. /\ run.at = "idle"
        /\ UNCHANGED stores
        /\ \A q \in Ops \ {o} : SameRecord(q)
        /\ \/ SameRecord(o)
           \/ /\ journal'[o].path = None /\ journal'[o].status = "in_progress"
              /\ ~ journal'[o].core
        /\ \/ /\ run'.op = o /\ run'.at = "plan" /\ result'.op = None
              /\ run'.rec.path = None /\ run'.rec.status = "in_progress" /\ ~ run'.rec.core
              /\ journal'[o].status = "in_progress" /\ journal'[o].path = None
           \/ Rests /\ result'.op = o /\ result'.status = "rejected" /\ ~ result'.core
    <2>1. journal' \in {journal, [journal EXCEPT ![o] = JournalCreated]}
      BY DEF Begin, Start, JournalWritten, JournalFailed
    <2>2. journal \in [Ops -> Records]
      BY DEF CoordinatorInv, TypeInv, TypeOK
    <2>3. /\ \A q \in Ops \ {o} : SameRecord(q)
          /\ \/ SameRecord(o)
             \/ /\ journal'[o].path = None /\ journal'[o].status = "in_progress"
                /\ ~ journal'[o].core
      BY <2>1, <2>2, CreatedHolds DEF SameRecord
    <2>4. \/ /\ JournalWritten(o, JournalCreated)
             /\ Goto(o, "plan", JournalCreated) /\ result' = NoResult
          \/ Returns(o, "rejected", FALSE)
      BY DEF Begin, Start
    <2>5. CASE /\ JournalWritten(o, JournalCreated)
               /\ Goto(o, "plan", JournalCreated) /\ result' = NoResult
      <3>1. journal'[o].status = "in_progress" /\ journal'[o].path = None
        BY <2>2, <2>5, CreatedHolds DEF JournalWritten
      <3> QED
        BY <2>3, <2>5, <3>1, CreatedHolds DEF Begin, Start, Goto, NoResult
    <2>6. CASE Returns(o, "rejected", FALSE)
      BY <2>3, <2>6 DEF Begin, Start, Returns, Idle, Rests
    <2> QED
      BY <2>4, <2>5, <2>6
  <1>4. StoresTyped
    BY <1>1, TypedStores DEF CoordinatorInv
  <1>5. FilesAtHome' /\ PathComesFirst' /\ RowsApart'
    BY <1>2, <1>3, <1>4, NamesApart DEF CoordinatorInv, JournalInv, Ops, stores,
           StoresTyped, FilesAtHome, PathComesFirst, RowsApart, RowAt, InVault, Written,
           SameRecord
  <1>6. RunAgrees' /\ ArchiveKnows' /\ DeleteKnows' /\ ResultIsLast'
    BY <1>2, <1>3, <1>4, NamesApart DEF CoordinatorInv, JournalInv, Ops, stores,
           StoresTyped, RunAgrees, FilesAtHome, Told, InVault, ArchiveKnows, RowAt,
           RowsApart, PathComesFirst, DeleteKnows, ResultIsLast, Written, SameRecord,
           Recovering, Publishing, Undoing, Moving, Removing, Putting, Goes, Ends, Rests,
           SameFile
  <1>7. DeletedByDeletes' /\ JournalTellsTruth' /\ RetrySafeIsSafe' /\ OrphansAreListed'
    BY <1>2, <1>3, <1>4, NamesApart DEF CoordinatorInv, JournalInv, Ops, stores,
           StoresTyped, DeletedByDeletes, Told, JournalTellsTruth, FilesAtHome, InVault,
           RetrySafeIsSafe, Recovering, ResultIsLast, OrphansAreListed, Interrupted,
           Written, SameRecord
  <1> QED
    BY <1>1, <1>5, <1>6, <1>7 DEF CoordinatorInv, JournalInv

\* A verdict of the recovery keeps the invariant: what it says is proved by the stores.
LEMMA ResolveKeeps ==
  ASSUME CoordinatorInv, NEW o \in Ops, Resolve(o)
  PROVE  CoordinatorInv'
  <1>1. TypeInv'
    BY ResolveTyped DEF CoordinatorInv
  <1>2. journal[o] \in Records /\ (journal[o].core => proof[o] # None)
    BY DEF CoordinatorInv, TypeInv, TypeOK, Resolve, At, Ops, RunAgrees, ArchiveKnows,
           DeleteKnows, Recovering, Publishing, Undoing, Moving, Removing, Putting,
           JournalInv, JournalTellsTruth
  <1>3. /\ run.at = "idle"
        /\ UNCHANGED <<stores, journal, result>>
        /\ \/ Rests
           \/ /\ run'.op = o /\ run'.rec.path = journal[o].path /\ run'.rec.core = journal[o].core
              /\ \/ /\ run'.at = "recover_restore" /\ run'.rec.status = "rejected"
                    /\ o \in Deletes /\ proof[o] = None /\ quar[o] # None
                    /\ journal[o].path \in Paths /\ rows[target[o]] = journal[o].path
                 \/ /\ run'.at = "recover_write" /\ Told(o, run'.rec)
                    /\ run'.rec.status \in {"rejected", "ready", "degraded", "deleted"}
    <2>1. PICK commit \in Probed(o, journal[o].path) :
            \/ Verdict(o, commit) = "block" /\ Blocks(o)
            \/ Verdict(o, commit) = "restore" /\ Goto(o, "recover_restore", Terminal(o, "rejected"))
            \/ /\ Verdict(o, commit) \notin {"block", "restore"}
               /\ Goto(o, "recover_write", Terminal(o, Verdict(o, commit)))
      BY DEF Resolve
    <2>2. \A status : /\ Terminal(o, status).path = journal[o].path
                      /\ Terminal(o, status).core = journal[o].core
                      /\ Terminal(o, status).status = status
      BY <1>2 DEF Terminal, Records
    <2>3. Proved(o, Verdict(o, commit))
      BY VerdictProved
    <2>4. journal[o].core => proof[o] # None
      BY DEF CoordinatorInv, JournalInv, JournalTellsTruth
    <2>5. run.at = "idle" /\ UNCHANGED <<stores, journal, result>>
      BY DEF Resolve
    <2>6. CASE Blocks(o)
      BY <2>5, <2>6 DEF Blocks, Idle, Rests
    <2>7. CASE Verdict(o, commit) = "restore" /\ Goto(o, "recover_restore", Terminal(o, "rejected"))
      BY <2>2, <2>3, <2>5, <2>7 DEF Goto, Proved
    <2>8. CASE /\ Verdict(o, commit) \notin {"block", "restore"}
               /\ Goto(o, "recover_write", Terminal(o, Verdict(o, commit)))
      BY <2>2, <2>3, <2>4, <2>5, <2>8 DEF Goto, Proved, Told
    <2> QED
      BY <2>1, <2>6, <2>7, <2>8
  <1>4. StoresTyped
    BY <1>1, TypedStores DEF CoordinatorInv
  <1>5. FilesAtHome' /\ PathComesFirst' /\ RowsApart'
    BY <1>2, <1>3, <1>4, NamesApart DEF CoordinatorInv, JournalInv, Ops, stores,
           StoresTyped, FilesAtHome, PathComesFirst, RowsApart, RowAt, InVault, Written,
           SameRecord
  <1>6. RunAgrees' /\ ArchiveKnows' /\ DeleteKnows' /\ ResultIsLast'
    BY <1>2, <1>3, <1>4, NamesApart DEF CoordinatorInv, JournalInv, Ops, stores,
           StoresTyped, RunAgrees, FilesAtHome, Told, InVault, ArchiveKnows, RowAt,
           RowsApart, PathComesFirst, DeleteKnows, ResultIsLast, Written, SameRecord,
           Recovering, Publishing, Undoing, Moving, Removing, Putting, Goes, Ends, Rests,
           SameFile
  <1>7. DeletedByDeletes' /\ JournalTellsTruth' /\ RetrySafeIsSafe' /\ OrphansAreListed'
    BY <1>2, <1>3, <1>4, NamesApart DEF CoordinatorInv, JournalInv, Ops, stores,
           StoresTyped, DeletedByDeletes, Told, JournalTellsTruth, FilesAtHome, InVault,
           RetrySafeIsSafe, Recovering, ResultIsLast, OrphansAreListed, Interrupted,
           Written, SameRecord
  <1> QED
    BY <1>1, <1>5, <1>6, <1>7 DEF CoordinatorInv, JournalInv

\* Starting a recovery keeps the invariant.
LEMMA StartScanKeeps ==
  ASSUME CoordinatorInv, StartScan
  PROVE  CoordinatorInv'
  <1>1. TypeInv'
    BY ScanTyped DEF CoordinatorInv
  <1>2. run.at = "idle"
    BY DEF CoordinatorInv, TypeInv, TypeOK, StartScan, At, Ops, RunAgrees, ArchiveKnows,
           DeleteKnows, Recovering, Publishing, Undoing, Moving, Removing, Putting
  <1>3. /\ run.at = "idle"
        /\ UNCHANGED <<stores, journal, run, result>>
    BY DEF StartScan
  <1>4. StoresTyped
    BY <1>1, TypedStores DEF CoordinatorInv
  <1>5. FilesAtHome' /\ PathComesFirst' /\ RowsApart'
    BY <1>2, <1>3, <1>4, NamesApart DEF CoordinatorInv, JournalInv, Ops, stores,
           StoresTyped, FilesAtHome, PathComesFirst, RowsApart, RowAt, InVault, Written,
           SameRecord
  <1>6. RunAgrees' /\ ArchiveKnows' /\ DeleteKnows' /\ ResultIsLast'
    BY <1>2, <1>3, <1>4, NamesApart DEF CoordinatorInv, JournalInv, Ops, stores,
           StoresTyped, RunAgrees, FilesAtHome, Told, InVault, ArchiveKnows, RowAt,
           RowsApart, PathComesFirst, DeleteKnows, ResultIsLast, Written, SameRecord,
           Recovering, Publishing, Undoing, Moving, Removing, Putting, Goes, Ends, Rests,
           SameFile
  <1>7. DeletedByDeletes' /\ JournalTellsTruth' /\ RetrySafeIsSafe' /\ OrphansAreListed'
    BY <1>2, <1>3, <1>4, NamesApart DEF CoordinatorInv, JournalInv, Ops, stores,
           StoresTyped, DeletedByDeletes, Told, JournalTellsTruth, FilesAtHome, InVault,
           RetrySafeIsSafe, Recovering, ResultIsLast, OrphansAreListed, Interrupted,
           Written, SameRecord
  <1> QED
    BY <1>1, <1>5, <1>6, <1>7 DEF CoordinatorInv, JournalInv

\* Ending a recovery keeps the invariant.
LEMMA EndScanKeeps ==
  ASSUME CoordinatorInv, EndScan
  PROVE  CoordinatorInv'
  <1>1. TypeInv'
    BY ScanTyped DEF CoordinatorInv
  <1>2. run.at = "idle"
    BY DEF CoordinatorInv, TypeInv, TypeOK, EndScan, At, Ops, RunAgrees, ArchiveKnows,
           DeleteKnows, Recovering, Publishing, Undoing, Moving, Removing, Putting
  <1>3. /\ run.at = "idle"
        /\ UNCHANGED <<stores, journal, run, result>>
    BY DEF EndScan
  <1>4. StoresTyped
    BY <1>1, TypedStores DEF CoordinatorInv
  <1>5. FilesAtHome' /\ PathComesFirst' /\ RowsApart'
    BY <1>2, <1>3, <1>4, NamesApart DEF CoordinatorInv, JournalInv, Ops, stores,
           StoresTyped, FilesAtHome, PathComesFirst, RowsApart, RowAt, InVault, Written,
           SameRecord
  <1>6. RunAgrees' /\ ArchiveKnows' /\ DeleteKnows' /\ ResultIsLast'
    BY <1>2, <1>3, <1>4, NamesApart DEF CoordinatorInv, JournalInv, Ops, stores,
           StoresTyped, RunAgrees, FilesAtHome, Told, InVault, ArchiveKnows, RowAt,
           RowsApart, PathComesFirst, DeleteKnows, ResultIsLast, Written, SameRecord,
           Recovering, Publishing, Undoing, Moving, Removing, Putting, Goes, Ends, Rests,
           SameFile
  <1>7. DeletedByDeletes' /\ JournalTellsTruth' /\ RetrySafeIsSafe' /\ OrphansAreListed'
    BY <1>2, <1>3, <1>4, NamesApart DEF CoordinatorInv, JournalInv, Ops, stores,
           StoresTyped, DeletedByDeletes, Told, JournalTellsTruth, FilesAtHome, InVault,
           RetrySafeIsSafe, Recovering, ResultIsLast, OrphansAreListed, Interrupted,
           Written, SameRecord
  <1> QED
    BY <1>1, <1>5, <1>6, <1>7 DEF CoordinatorInv, JournalInv

\* An edit of the user keeps the invariant: what it writes is no published file.
LEMMA UserEditsKeeps ==
  ASSUME CoordinatorInv, NEW p \in Paths, UserEdits(p)
  PROVE  CoordinatorInv'
  <1>1. TypeInv'
    BY EnvironmentTyped DEF CoordinatorInv, Environment
  <1>2. edits + 1 \in Versions
    BY NamesApart, StorageAssumption DEF CoordinatorInv, TypeInv, TypeOK, UserEdits, At,
       Ops, RunAgrees, ArchiveKnows,
           DeleteKnows, Recovering, Publishing, Undoing, Moving, Removing, Putting, Versions
  <1>3.
        /\ UNCHANGED <<quar, rows, proof, journal, run, result>>
        /\ \E v \in Versions \cup {None} : vault' = [vault EXCEPT ![p] = v]
    BY <1>2 DEF UserEdits, memory
  <1>4. StoresTyped
    BY <1>1, TypedStores DEF CoordinatorInv
  <1>5. FilesAtHome' /\ PathComesFirst' /\ RowsApart'
    BY <1>2, <1>3, <1>4, NamesApart DEF CoordinatorInv, JournalInv, Ops, stores,
           StoresTyped, FilesAtHome, PathComesFirst, RowsApart, RowAt, InVault, Written,
           SameRecord
  <1>6. RunAgrees' /\ ArchiveKnows' /\ DeleteKnows' /\ ResultIsLast'
    BY <1>2, <1>3, <1>4, NamesApart DEF CoordinatorInv, JournalInv, Ops, stores,
           StoresTyped, RunAgrees, FilesAtHome, Told, InVault, ArchiveKnows, RowAt,
           RowsApart, PathComesFirst, DeleteKnows, ResultIsLast, Written, SameRecord,
           Recovering, Publishing, Undoing, Moving, Removing, Putting, Goes, Ends, Rests,
           SameFile
  <1>7. DeletedByDeletes' /\ JournalTellsTruth' /\ RetrySafeIsSafe' /\ OrphansAreListed'
    BY <1>2, <1>3, <1>4, NamesApart DEF CoordinatorInv, JournalInv, Ops, stores,
           StoresTyped, DeletedByDeletes, Told, JournalTellsTruth, FilesAtHome, InVault,
           RetrySafeIsSafe, Recovering, ResultIsLast, OrphansAreListed, Interrupted,
           Written, SameRecord
  <1> QED
    BY <1>1, <1>5, <1>6, <1>7 DEF CoordinatorInv, JournalInv

\* A crash keeps the invariant: what is in memory is lost.
LEMMA CrashKeeps ==
  ASSUME CoordinatorInv, Crash
  PROVE  CoordinatorInv'
  <1>1. TypeInv'
    BY EnvironmentTyped DEF CoordinatorInv, Environment
  <1>2. TRUE
    BY DEF CoordinatorInv, TypeInv, TypeOK, Crash, At, Ops, RunAgrees, ArchiveKnows,
           DeleteKnows, Recovering, Publishing, Undoing, Moving, Removing, Putting
  <1>3.
        /\ UNCHANGED <<stores, journal>> /\ Rests /\ result'.op = None
    BY DEF Crash, Idle, NoResult, Rests
  <1>4. StoresTyped
    BY <1>1, TypedStores DEF CoordinatorInv
  <1>5. FilesAtHome' /\ PathComesFirst' /\ RowsApart'
    BY <1>2, <1>3, <1>4, NamesApart DEF CoordinatorInv, JournalInv, Ops, stores,
           StoresTyped, FilesAtHome, PathComesFirst, RowsApart, RowAt, InVault, Written,
           SameRecord
  <1>6. RunAgrees' /\ ArchiveKnows' /\ DeleteKnows' /\ ResultIsLast'
    BY <1>2, <1>3, <1>4, NamesApart DEF CoordinatorInv, JournalInv, Ops, stores,
           StoresTyped, RunAgrees, FilesAtHome, Told, InVault, ArchiveKnows, RowAt,
           RowsApart, PathComesFirst, DeleteKnows, ResultIsLast, Written, SameRecord,
           Recovering, Publishing, Undoing, Moving, Removing, Putting, Goes, Ends, Rests,
           SameFile
  <1>7. DeletedByDeletes' /\ JournalTellsTruth' /\ RetrySafeIsSafe' /\ OrphansAreListed'
    BY <1>2, <1>3, <1>4, NamesApart DEF CoordinatorInv, JournalInv, Ops, stores,
           StoresTyped, DeletedByDeletes, Told, JournalTellsTruth, FilesAtHome, InVault,
           RetrySafeIsSafe, Recovering, ResultIsLast, OrphansAreListed, Interrupted,
           Written, SameRecord
  <1> QED
    BY <1>1, <1>5, <1>6, <1>7 DEF CoordinatorInv, JournalInv

-----------------------------------------------------------------------------
(* The invariant holds *)

\* In the empty vault nothing is journaled and nothing is in memory.
LEMMA CoordinatorInvInit ==
  ASSUME Init
  PROVE  CoordinatorInv
  <1>1. /\ \A p \in Paths : vault[p] = None
        /\ \A d \in Deletes : quar[d] = None
        /\ \A a \in Archives : rows[a] = None
        /\ \A o \in Ops : /\ proof[o] = None /\ journal[o].path = None
                          /\ journal[o].status = "none" /\ ~ journal[o].core
        /\ run.at = "idle" /\ result.op = None
    BY DEF Init, NoRecord, Idle, NoResult
  <1>2. \A o \in Ops : ~ InVault(o)
    BY <1>1, NamesApart DEF InVault
  <1>3. FilesAtHome /\ PathComesFirst /\ RowsApart
    BY <1>1, <1>2, NamesApart DEF FilesAtHome, PathComesFirst, RowsApart, Ops
  <1>4. RunAgrees /\ ArchiveKnows /\ DeleteKnows /\ ResultIsLast
    BY <1>1 DEF RunAgrees, ArchiveKnows, DeleteKnows, ResultIsLast, Publishing,
       Undoing, Moving, Removing, Putting
  <1>5. DeletedByDeletes /\ JournalInv
    BY <1>1, <1>2 DEF DeletedByDeletes, JournalInv, JournalTellsTruth,
       RetrySafeIsSafe, OrphansAreListed, Ops
  <1> QED
    BY <1>3, <1>4, <1>5, InitTyped DEF CoordinatorInv

\* Every step keeps the invariant, one lemma per operation.
LEMMA CoordinatorInvStep ==
  ASSUME CoordinatorInv, [Next]_vars
  PROVE  CoordinatorInv'
  <1>1. CASE \E a \in Archives : ArchiveStep(a)
    BY <1>1, PlanArchiveKeeps, PlanArchiveFailsKeeps, PublishArchiveKeeps,
       JournalPrimaryKeeps, IndexArchiveKeeps, JournalCompensatingKeeps,
       UndoPrimaryKeeps, UndoUnlinkKeeps, JournalIndexKeeps DEF ArchiveStep
  <1>2. CASE \E d \in Deletes : DeleteStep(d)
    BY <1>2, PlanDeleteKeeps, PlanDeleteRefusedKeeps, QuarantineCheckKeeps,
       QuarantineLinkKeeps, UnlinkOriginalKeeps, VerifyQuarantineKeeps,
       JournalQuarantinedKeeps, RemoveRowKeeps, RestoreKeeps, RestoreUnlinkKeeps,
       PurgeQuarantineKeeps, RecoverRestoreKeeps, RecoverUnlinkKeeps DEF DeleteStep
  <1>3. CASE \E o \in Ops : Finish(o) \/ Resolve(o) \/ RecoverWrite(o)
    BY <1>3, FinishKeeps, ResolveKeeps, RecoverWriteKeeps
  <1>4. CASE StartScan \/ EndScan
    BY <1>4, StartScanKeeps, EndScanKeeps
  <1>5. CASE Environment
    BY <1>5, UserEditsKeeps, CrashKeeps DEF Environment
  <1>6. CASE \E o \in Ops : Begin(o)
    BY <1>6, BeginKeeps
  <1>7. CASE UNCHANGED vars
    <2> USE <1>7 DEF vars, stores, memory
    <2>1. TypeInv' /\ FilesAtHome' /\ PathComesFirst' /\ RowsApart'
      BY DEF CoordinatorInv, TypeInv, TypeOK, PathKnown, FilesAtHome, PathComesFirst,
         RowsApart, RowAt, InVault
    <2>2. RunAgrees' /\ ArchiveKnows' /\ DeleteKnows' /\ ResultIsLast' /\ DeletedByDeletes'
      BY DEF CoordinatorInv, RunAgrees, Told, ArchiveKnows, DeleteKnows, ResultIsLast,
         DeletedByDeletes, RowAt, InVault
    <2>3. JournalInv'
      BY DEF CoordinatorInv, JournalInv, JournalTellsTruth, RetrySafeIsSafe,
         OrphansAreListed, InVault, Interrupted
    <2> QED
      BY <2>1, <2>2, <2>3 DEF CoordinatorInv
  <1> QED
    BY <1>1, <1>2, <1>3, <1>4, <1>5, <1>6, <1>7 DEF Next, Step

\* The invariant holds in every reachable state.
LEMMA CoordinatorInvHolds == Spec => []CoordinatorInv
  <1>1. Init => CoordinatorInv
    BY CoordinatorInvInit
  <1>2. CoordinatorInv /\ [Next]_vars => CoordinatorInv'
    BY CoordinatorInvStep
  <1> QED
    BY <1>1, <1>2, PTL DEF Spec

\* What a caller, a later start and an operator may rely on holds after any
\* faults, crashes and edits: success and core_committed are proved in SQLite, a
\* rejection left nothing and may be retried, no published orphan is forgotten.
THEOREM JournalInvHolds == Spec => []JournalInv
  <1>1. CoordinatorInv => JournalInv
    BY DEF CoordinatorInv
  <1> QED
    BY <1>1, CoordinatorInvHolds, PTL

-----------------------------------------------------------------------------
(* No step takes a row's file or a user's file away *)

\* A path that loses its file has no row, or its file is held by the delete of
\* its row.
ClearedIsHeld ==
  \A p \in Paths : vault[p] # None /\ vault'[p] = None =>
     ~ RowAt(p) \/ \E d \in Deletes : rows[target[d]] = p /\ Holds(d)'

\* A delete that gives a file up purges it after its row, or its file is at the
\* path of its row.
GivenUpIsBack ==
  \A d \in Deletes : Holds(d) /\ ~ Holds(d)' =>
     (rows[target[d]] # None => vault'[rows[target[d]]] # None)

\* What a user wrote leaves the disk by the purge of a committed delete, or in
\* the instant between a check and its unlink.
UserFilesStay ==
  \A v \in Versions : OnDisk(v) /\ ~ OnDisk(v)' =>
     \/ run.at = "purge" /\ proof[run.op] # None /\ run.rec.file = v
     \/ run.at \in {"undo_unlink", "unlink_original"}

FilesStay == ClearedIsHeld /\ GivenUpIsBack /\ UserFilesStay

\* A file is published at a free path only.
LEMMA PublishArchiveStays ==
  ASSUME CoordinatorInv, NEW a \in Archives, PublishArchive(a)
  PROVE  FilesStay
  <1>1. /\ vault \in [Paths -> Files \cup {None}] /\ quar \in [Deletes -> Files \cup {None}]
        /\ run.op = a
    BY DEF CoordinatorInv, TypeInv, TypeOK, PublishArchive, At, RunAgrees, ArchiveKnows,
       DeleteKnows,
       Recovering, Publishing, Undoing, Moving, Removing, Putting
  <1>2. /\ UNCHANGED quar /\ run.at = "publish"
        /\ \/ vault' = vault
           \/ vault[run.rec.path] = None /\ vault' = [vault EXCEPT ![run.rec.path] = a]
        /\ run'.at \in {"journal_primary", "finish"}
    BY DEF PublishArchive, At, Free, Goto, Finishing, FinishRestorable, FinishCommitted,
       Rejected, NeedsRepair
  <1>3. ClearedIsHeld
    BY <1>1, <1>2, NamesApart DEF ClearedIsHeld, Files
  <1>4. GivenUpIsBack
    BY <1>1, <1>2, NamesApart DEF GivenUpIsBack, Holds, At
  <1>5. UserFilesStay
    BY <1>1, <1>2, NamesApart DEF UserFilesStay, OnDisk, InVault, Holds, At, Files
  <1> QED
    BY <1>3, <1>4, <1>5 DEF FilesStay

\* The undo of an archive clears a path that has no row.
LEMMA UndoUnlinkStays ==
  ASSUME CoordinatorInv, NEW a \in Archives, UndoUnlink(a)
  PROVE  FilesStay
  <1>1. /\ vault \in [Paths -> Files \cup {None}] /\ quar \in [Deletes -> Files \cup {None}]
        /\ run.op = a /\ run.rec.path \in Paths /\ ~ RowAt(run.rec.path)
    BY DEF CoordinatorInv, TypeInv, TypeOK, UndoUnlink, At, RunAgrees, ArchiveKnows,
       DeleteKnows,
       Recovering, Publishing, Undoing, Moving, Removing, Putting
  <1>2. /\ UNCHANGED quar /\ run.at = "undo_unlink" /\ run'.at = "finish"
        /\ vault' = vault \/ vault' = [vault EXCEPT ![run.rec.path] = None]
    BY DEF UndoUnlink, At, Goto, Finishing, FinishRestorable, FinishCommitted, Rejected,
       NeedsRepair
  <1>3. ClearedIsHeld
    BY <1>1, <1>2, NamesApart DEF ClearedIsHeld, Holds, At, RowAt
  <1>4. GivenUpIsBack
    BY <1>1, <1>2, NamesApart DEF GivenUpIsBack, Holds, At
  <1>5. UserFilesStay
    BY <1>1, <1>2, NamesApart DEF UserFilesStay, OnDisk, InVault, Holds, At, Files
  <1> QED
    BY <1>3, <1>4, <1>5 DEF FilesStay

\* A link adds a name and takes none away.
LEMMA QuarantineLinkStays ==
  ASSUME CoordinatorInv, NEW d \in Deletes, QuarantineLink(d)
  PROVE  FilesStay
  <1>1. /\ vault \in [Paths -> Files \cup {None}] /\ quar \in [Deletes -> Files \cup {None}]
        /\ run.op = d /\ quar[d] = None
    BY DEF CoordinatorInv, TypeInv, TypeOK, QuarantineLink, At, RunAgrees, ArchiveKnows,
       DeleteKnows,
       Recovering, Publishing, Undoing, Moving, Removing, Putting
  <1>2. /\ UNCHANGED vault /\ run.at = "link" /\ run'.at \in {"unlink_original", "finish"}
        /\ \E f : quar' = [quar EXCEPT ![d] = f] \/ quar' = quar
    BY DEF QuarantineLink, At, Goto, Finishing, FinishRestorable, FinishCommitted, Rejected,
       NeedsRepair
  <1>3. ClearedIsHeld
    BY <1>1, <1>2, NamesApart DEF ClearedIsHeld, Holds, At, RowAt
  <1>4. GivenUpIsBack
    BY <1>1, <1>2, NamesApart DEF GivenUpIsBack, Holds, At
  <1>5. UserFilesStay
    BY <1>1, <1>2, NamesApart DEF UserFilesStay, OnDisk, InVault, Holds, At, Files
  <1> QED
    BY <1>3, <1>4, <1>5 DEF FilesStay

\* The unlink of the first name leaves the second, or takes the second back.
LEMMA UnlinkOriginalStays ==
  ASSUME CoordinatorInv, NEW d \in Deletes, UnlinkOriginal(d)
  PROVE  FilesStay
  <1>1. /\ vault \in [Paths -> Files \cup {None}] /\ quar \in [Deletes -> Files \cup {None}]
        /\ run.op = d
        /\ quar[d] # None /\ run.rec.path \in Paths /\ rows[target[d]] = run.rec.path
    BY DEF CoordinatorInv, TypeInv, TypeOK, UnlinkOriginal, At, RunAgrees, ArchiveKnows,
       DeleteKnows,
       Recovering, Publishing, Undoing, Moving, Removing, Putting
  <1>2. /\ run.at = "unlink_original" /\ run'.at \in {"verify", "finish"}
        /\ \/ vault' = [vault EXCEPT ![run.rec.path] = None] /\ quar' = quar
           \/ vault' = vault /\ quar' = quar
           \/ vault' = vault /\ quar[d] = vault[run.rec.path] /\ quar' = [quar EXCEPT ![d] = None]
    BY DEF UnlinkOriginal, At, Goto, Finishing, FinishRestorable, FinishCommitted, Rejected,
       NeedsRepair
  <1>3. ClearedIsHeld
    BY <1>1, <1>2, NamesApart DEF ClearedIsHeld, Holds, At, RowAt
  <1>4. GivenUpIsBack
    BY <1>1, <1>2, NamesApart DEF GivenUpIsBack, Holds, At
  <1>5. UserFilesStay
    BY <1>1, <1>2, NamesApart DEF UserFilesStay, OnDisk, InVault, Holds, At, Files
  <1> QED
    BY <1>3, <1>4, <1>5 DEF FilesStay

\* A file that goes back keeps its name in quarantine until it has the other.
LEMMA RestoreStays ==
  ASSUME CoordinatorInv, NEW d \in Deletes, Restore(d)
  PROVE  FilesStay
  <1>1. /\ vault \in [Paths -> Files \cup {None}] /\ quar \in [Deletes -> Files \cup {None}]
        /\ run.op = d
        /\ quar[d] # None /\ run.rec.path \in Paths /\ rows[target[d]] = run.rec.path
    BY DEF CoordinatorInv, TypeInv, TypeOK, Restore, At, RunAgrees, ArchiveKnows,
       DeleteKnows,
       Recovering, Publishing, Undoing, Moving, Removing, Putting
  <1>2. /\ UNCHANGED quar
        /\ \/ /\ vault[run.rec.path] = None /\ vault' = [vault EXCEPT ![run.rec.path] = quar[d]]
              /\ run'.op = d
           \/ vault' = vault /\ run'.at = "finish"
        /\ run.at = "restore"
    BY DEF Restore, At, Free, Goto, Finishing, FinishRestorable, FinishCommitted, Rejected,
       NeedsRepair
  <1>3. ClearedIsHeld
    BY <1>1, <1>2, NamesApart DEF ClearedIsHeld, Holds, At, RowAt
  <1>4. GivenUpIsBack
    BY <1>1, <1>2, NamesApart DEF GivenUpIsBack, Holds, At
  <1>5. UserFilesStay
    BY <1>1, <1>2, NamesApart DEF UserFilesStay, OnDisk, InVault, Holds, At, Files
  <1> QED
    BY <1>3, <1>4, <1>5 DEF FilesStay

\* A file that goes back keeps its name in quarantine until it has the other.
LEMMA RecoverRestoreStays ==
  ASSUME CoordinatorInv, NEW d \in Deletes, RecoverRestore(d)
  PROVE  FilesStay
  <1>1. /\ vault \in [Paths -> Files \cup {None}] /\ quar \in [Deletes -> Files \cup {None}]
        /\ run.op = d
        /\ quar[d] # None /\ run.rec.path \in Paths /\ rows[target[d]] = run.rec.path
    BY DEF CoordinatorInv, TypeInv, TypeOK, RecoverRestore, At, RunAgrees, ArchiveKnows,
       DeleteKnows,
       Recovering, Publishing, Undoing, Moving, Removing, Putting
  <1>2. /\ UNCHANGED quar
        /\ \/ /\ vault[run.rec.path] = None /\ vault' = [vault EXCEPT ![run.rec.path] = quar[d]]
              /\ run'.op = d
           \/ vault' = vault /\ run'.at = "idle"
        /\ run.at = "recover_restore"
    BY DEF RecoverRestore, At, Free, Goto, Blocks, Idle
  <1>3. ClearedIsHeld
    BY <1>1, <1>2, NamesApart DEF ClearedIsHeld, Holds, At, RowAt
  <1>4. GivenUpIsBack
    BY <1>1, <1>2, NamesApart DEF GivenUpIsBack, Holds, At
  <1>5. UserFilesStay
    BY <1>1, <1>2, NamesApart DEF UserFilesStay, OnDisk, InVault, Holds, At, Files
  <1> QED
    BY <1>3, <1>4, <1>5 DEF FilesStay

\* Taking the quarantine name away leaves the other; a failure leaves the first.
LEMMA RestoreUnlinkStays ==
  ASSUME CoordinatorInv, NEW d \in Deletes, RestoreUnlink(d)
  PROVE  FilesStay
  <1>1. /\ vault \in [Paths -> Files \cup {None}] /\ quar \in [Deletes -> Files \cup {None}]
        /\ run.op = d
        /\ quar[d] # None /\ run.rec.path \in Paths /\ rows[target[d]] = run.rec.path
    BY DEF CoordinatorInv, TypeInv, TypeOK, RestoreUnlink, At, RunAgrees, ArchiveKnows,
       DeleteKnows,
       Recovering, Publishing, Undoing, Moving, Removing, Putting
  <1>2. /\ \/ vault' = vault /\ quar' = [quar EXCEPT ![d] = None]
           \/ vault' = vault /\ quar' = quar
           \/ /\ vault[run.rec.path] = quar[d] /\ vault' = [vault EXCEPT ![run.rec.path] = None]
              /\ quar' = quar
        /\ run.at = "restore_unlink" /\ run'.at \in {"finish"}
    BY DEF RestoreUnlink, At, MoveUndone, Goto, Finishing, FinishRestorable,
       FinishCommitted, Rejected, NeedsRepair
  <1>3. ClearedIsHeld
    BY <1>1, <1>2, NamesApart DEF ClearedIsHeld, Holds, At, RowAt
  <1>4. GivenUpIsBack
    BY <1>1, <1>2, NamesApart DEF GivenUpIsBack, Holds, At
  <1>5. UserFilesStay
    BY <1>1, <1>2, NamesApart DEF UserFilesStay, OnDisk, InVault, Holds, At, Files
  <1> QED
    BY <1>3, <1>4, <1>5 DEF FilesStay

\* Taking the quarantine name away leaves the other; a failure leaves the first.
LEMMA RecoverUnlinkStays ==
  ASSUME CoordinatorInv, NEW d \in Deletes, RecoverUnlink(d)
  PROVE  FilesStay
  <1>1. /\ vault \in [Paths -> Files \cup {None}] /\ quar \in [Deletes -> Files \cup {None}]
        /\ run.op = d
        /\ quar[d] # None /\ run.rec.path \in Paths /\ rows[target[d]] = run.rec.path
    BY DEF CoordinatorInv, TypeInv, TypeOK, RecoverUnlink, At, RunAgrees, ArchiveKnows,
       DeleteKnows,
       Recovering, Publishing, Undoing, Moving, Removing, Putting
  <1>2. /\ \/ vault' = vault /\ quar' = [quar EXCEPT ![d] = None]
           \/ vault' = vault /\ quar' = quar
           \/ /\ vault[run.rec.path] = quar[d] /\ vault' = [vault EXCEPT ![run.rec.path] = None]
              /\ quar' = quar
        /\ run.at = "recover_unlink" /\ run'.at \in {"recover_write", "idle"}
    BY DEF RecoverUnlink, At, MoveUndone, Goto, Blocks, Idle
  <1>3. ClearedIsHeld
    BY <1>1, <1>2, NamesApart DEF ClearedIsHeld, Holds, At, RowAt
  <1>4. GivenUpIsBack
    BY <1>1, <1>2, NamesApart DEF GivenUpIsBack, Holds, At
  <1>5. UserFilesStay
    BY <1>1, <1>2, NamesApart DEF UserFilesStay, OnDisk, InVault, Holds, At, Files
  <1> QED
    BY <1>3, <1>4, <1>5 DEF FilesStay

\* The purge takes away the file whose row is gone, and the file it fingerprinted.
LEMMA PurgeQuarantineStays ==
  ASSUME CoordinatorInv, NEW d \in Deletes, PurgeQuarantine(d)
  PROVE  FilesStay
  <1>1. /\ vault \in [Paths -> Files \cup {None}] /\ quar \in [Deletes -> Files \cup {None}]
        /\ run.op = d /\ proof[d] # None /\ rows[target[d]] = None
        /\ ~ run.rec.missing => quar[d] = run.rec.file
    BY DEF CoordinatorInv, TypeInv, TypeOK, PurgeQuarantine, At, RunAgrees, ArchiveKnows,
       DeleteKnows,
       Recovering, Publishing, Undoing, Moving, Removing, Putting
  <1>2. /\ UNCHANGED vault /\ run.at = "purge" /\ run'.at = "finish"
        /\ quar' = quar \/ (~ run.rec.missing /\ quar' = [quar EXCEPT ![d] = None])
    BY DEF PurgeQuarantine, At, Goto, Finishing, FinishRestorable, FinishCommitted,
       Rejected, NeedsRepair
  <1>3. ClearedIsHeld
    BY <1>1, <1>2, NamesApart DEF ClearedIsHeld, Holds, At, RowAt
  <1>4. GivenUpIsBack
    BY <1>1, <1>2, NamesApart DEF GivenUpIsBack, Holds, At
  <1>5. UserFilesStay
    BY <1>1, <1>2, NamesApart DEF UserFilesStay, OnDisk, InVault, Holds, At, Files
  <1> QED
    BY <1>3, <1>4, <1>5 DEF FilesStay

\* Every other step of the program moves no file and begins no move back.
LEMMA OthersStay ==
  ASSUME CoordinatorInv, UNCHANGED <<vault, quar>>,
         run'.at \notin {"restore_unlink", "recover_unlink"}
  PROVE  FilesStay
  BY NamesApart DEF FilesStay, ClearedIsHeld, GivenUpIsBack, UserFilesStay, OnDisk, InVault,
     Holds, At, CoordinatorInv, TypeInv, TypeOK

\* An operation that goes to a step is at that step.
LEMMA GotoArrives ==
  ASSUME NEW o, NEW step, NEW rec
  PROVE  /\ Goto(o, step, rec) => run'.at = step
         /\ NeedsRepair(o, rec, step) => run'.at = "finish"
  BY DEF Goto, NeedsRepair, Finishing

\* Only the actions above move files.
LEMMA ProgramStays ==
  ASSUME CoordinatorInv, Step \/ Crash \/ \E o \in Ops : Begin(o)
  PROVE  FilesStay
  <1>1. ASSUME NEW a \in Archives, ArchiveStep(a) PROVE FilesStay
    <2>1. CASE PublishArchive(a) \/ UndoUnlink(a)
      BY <2>1, PublishArchiveStays, UndoUnlinkStays
    <2>2. CASE PlanArchive(a)
      BY <2>2, OthersStay DEF PlanArchive, stores, Goto, Finishing, FinishRestorable,
         FinishCommitted, Rejected, NeedsRepair
    <2>3. CASE PlanArchiveFails(a)
      BY <2>3, OthersStay DEF PlanArchiveFails, stores, Goto, Finishing,
         FinishRestorable, FinishCommitted, Rejected, NeedsRepair
    <2>4. CASE JournalPrimary(a)
      BY <2>4, OthersStay DEF JournalPrimary, stores, Goto, Finishing,
         FinishRestorable, FinishCommitted, Rejected, NeedsRepair
    <2>5. CASE IndexArchive(a)
      <3>1. \A answer \in Probed(a, run.rec.path) : answer \in {"committed", "absent", "ambiguous"}
        BY NamesApart DEF Probed, ArchiveProbe
      <3>2. run'.at \in {"journal_index", "journal_compensating", "finish"}
        BY <2>5, <3>1, GotoArrives DEF IndexArchive
      <3> QED
        BY <2>5, <3>2, OthersStay DEF IndexArchive
    <2>6. CASE JournalCompensating(a)
      BY <2>6, OthersStay DEF JournalCompensating, stores, Goto, Finishing,
         FinishRestorable, FinishCommitted, Rejected, NeedsRepair
    <2>7. CASE UndoPrimary(a)
      BY <2>7, OthersStay DEF UndoPrimary, stores, Goto, Finishing, FinishRestorable,
         FinishCommitted, Rejected, NeedsRepair
    <2>8. CASE JournalIndex(a)
      BY <2>8, OthersStay DEF JournalIndex, stores, Goto, Finishing, FinishRestorable,
         FinishCommitted, Rejected, NeedsRepair
    <2> QED
      BY <1>1, <2>1, <2>2, <2>3, <2>4, <2>5, <2>6, <2>7, <2>8 DEF ArchiveStep
  <1>2. ASSUME NEW d \in Deletes, DeleteStep(d) PROVE FilesStay
    <2>1. CASE \/ QuarantineLink(d) \/ UnlinkOriginal(d) \/ Restore(d) \/ RestoreUnlink(d)
               \/ PurgeQuarantine(d) \/ RecoverRestore(d) \/ RecoverUnlink(d)
      BY <2>1, QuarantineLinkStays, UnlinkOriginalStays, RestoreStays, RestoreUnlinkStays,
         PurgeQuarantineStays, RecoverRestoreStays, RecoverUnlinkStays
    <2>2. CASE PlanDelete(d)
      BY <2>2, OthersStay DEF PlanDelete, stores, Goto, Finishing, Rejected
    <2>3. CASE PlanDeleteRefused(d)
      BY <2>3, OthersStay DEF PlanDeleteRefused, stores, Goto, Finishing,
         FinishRestorable, FinishCommitted, Rejected, NeedsRepair
    <2>4. CASE QuarantineCheck(d)
      BY <2>4, OthersStay DEF QuarantineCheck, stores, Goto, Finishing,
         FinishRestorable, FinishCommitted, Rejected, NeedsRepair
    <2>5. CASE VerifyQuarantine(d)
      BY <2>5, OthersStay DEF VerifyQuarantine, stores, Goto, Finishing,
         FinishRestorable, FinishCommitted, Rejected, NeedsRepair
    <2>6. CASE JournalQuarantined(d)
      BY <2>6, OthersStay DEF JournalQuarantined, stores, Goto, Finishing,
         FinishRestorable, FinishCommitted, Rejected, NeedsRepair
    <2>7. CASE RemoveRow(d)
      <3>1. \A answer \in Probed(d, run.rec.path) : answer \in {"committed", "absent", "ambiguous"}
        BY NamesApart DEF Probed, DeleteProbe
      <3>2. run'.at \in {"purge", "restore", "finish"}
        BY <2>7, <3>1, GotoArrives DEF RemoveRow
      <3> QED
        BY <2>7, <3>2, OthersStay DEF RemoveRow
    <2> QED
      BY <1>2, <2>1, <2>2, <2>3, <2>4, <2>5, <2>6, <2>7 DEF DeleteStep
  <1>3. ASSUME NEW o \in Ops, Finish(o) \/ Resolve(o) \/ RecoverWrite(o) \/ Begin(o)
        PROVE  FilesStay
    <2>1. CASE Finish(o)
      BY <2>1, OthersStay DEF Finish, Returns, Idle, stores
    <2>2. CASE Resolve(o)
      BY <2>2, OthersStay DEF Resolve, Blocks, Goto, Idle, stores
    <2>3. CASE RecoverWrite(o)
      BY <2>3, OthersStay DEF RecoverWrite, Blocks, Idle, stores
    <2>4. CASE Begin(o)
      BY <2>4, OthersStay DEF Begin, Start, Returns, Goto, Idle, stores
    <2> QED
      BY <1>3, <2>1, <2>2, <2>3, <2>4
  <1>4. CASE StartScan \/ EndScan
    BY <1>4, OthersStay DEF StartScan, EndScan, CoordinatorInv, stores
  <1>5. CASE Crash
    BY <1>5, OthersStay DEF Crash, Idle, stores
  <1> QED
    BY <1>1, <1>2, <1>3, <1>4, <1>5 DEF Step

\* While a knowledge row stays, no step of the program takes its Markdown file
\* away: whichever step of whichever operation it is, and after any crash.
THEOREM PrimaryKeptHolds == Spec => PrimaryKept
  <1> DEFINE Kept(a) == rows[a] # None /\ rows'[a] = rows[a] /\ HasPrimary(a)
                          /\ edits' = edits => HasPrimary(a)'
  <1>1. ASSUME CoordinatorInv, [Next]_vars, NEW a \in Archives, rows[a] # None,
               rows'[a] = rows[a], HasPrimary(a), edits' = edits
        PROVE  HasPrimary(a)'
    <2>1. CASE UNCHANGED vars
      BY <1>1, <2>1 DEF HasPrimary, Holds, At, Free, vars, stores, memory
    <2>2. CASE Next /\ ~ UNCHANGED vars
      <3>1. ASSUME NEW p \in Paths, UserEdits(p) PROVE FALSE
        BY <1>1, <3>1, StorageAssumption DEF UserEdits, CoordinatorInv, TypeInv, TypeOK
      <3>2. FilesStay
        BY <1>1, <2>2, <3>1, ProgramStays DEF Next, Environment
      <3>3. rows[a] \in Paths /\ (\A b \in Archives : rows[b] = rows[a] => b = a)
        BY <1>1 DEF CoordinatorInv, TypeInv, TypeOK, RowsApart
      <3>4. CASE vault[rows[a]] # None
        <4>1. CASE vault'[rows[a]] = None
          BY <1>1, <3>2, <3>3, <3>4, <4>1, NamesApart
             DEF FilesStay, ClearedIsHeld, RowAt, HasPrimary
        <4>2. CASE vault'[rows[a]] # None
          BY <1>1, <4>2 DEF HasPrimary, Free
        <4> QED
          BY <4>1, <4>2
      <3>5. CASE \E d \in Deletes : target[d] = a /\ Holds(d)
        BY <1>1, <3>2, <3>5 DEF FilesStay, GivenUpIsBack, HasPrimary, Free
      <3> QED
        BY <1>1, <3>4, <3>5 DEF HasPrimary, Free
    <2> QED
      BY <1>1, <2>1, <2>2
  <1>2. CoordinatorInv /\ [Next]_vars => [\A a \in Archives : Kept(a)]_vars
    BY <1>1
  <1> QED
    BY <1>2, CoordinatorInvHolds, PTL DEF Spec, PrimaryKept

\* No text of the user is lost: it goes only by the user's own hand, by the purge
\* of a committed delete that fingerprinted it, or in the instant between a check
\* and its unlink.
THEOREM UserFilesSurviveHolds == Spec => UserFilesSurvive
  <1>1. ASSUME CoordinatorInv, [Next]_vars, NEW v \in Versions, OnDisk(v), ~ OnDisk(v)',
               edits' = edits
        PROVE  \/ run.at = "purge" /\ proof[run.op] # None /\ run.rec.file = v
               \/ run.at \in {"undo_unlink", "unlink_original"}
    <2>1. CASE UNCHANGED vars
      BY <1>1, <2>1 DEF OnDisk, InVault, Holds, At, vars, stores, memory
    <2>2. CASE Next
      <3>1. ASSUME NEW p \in Paths, UserEdits(p) PROVE FALSE
        BY <1>1, <3>1, StorageAssumption DEF UserEdits, CoordinatorInv, TypeInv, TypeOK
      <3> QED
        BY <1>1, <2>2, <3>1, ProgramStays DEF Next, Environment, FilesStay, UserFilesStay
    <2> QED
      BY <1>1, <2>1, <2>2
  <1>2. CoordinatorInv /\ [Next]_vars =>
          [\A v \in Versions :
              OnDisk(v) /\ ~ OnDisk(v)' =>
                 \/ edits' # edits
                 \/ run.at = "purge" /\ proof[run.op] # None /\ run.rec.file = v
                 \/ run.at \in {"undo_unlink", "unlink_original"}]_vars
    BY <1>1
  <1> QED
    BY <1>2, CoordinatorInvHolds, PTL DEF Spec, UserFilesSurvive


-----------------------------------------------------------------------------
(* The rows of the content queue *)

\* The steps at which the operation has a path it was planned with.
Placed == {"publish", "journal_primary", "index", "quarantine", "link",
           "unlink_original", "verify", "journal_quarantined", "remove"}

\* An operation called by the drain, not one a scan terminates, is under way.
Busy == run.at \notin Recovering \cup {"idle"}

\* A record in the journal or in memory that says the core is committed has its
\* proof in SQLite.
CoreIsProved ==
  /\ \A o \in Ops : journal[o].core => proof[o] # None
  /\ run.at # "idle" => run.op \in Ops /\ (run.rec.core => proof[run.op] # None)
  /\ run.at \in Placed => run.rec.path \in Paths
  /\ run.at \in {"journal_index", "purge"} => proof[run.op] # None
  /\ run.at \in Recovering => (journal[run.op].core => run.rec.core)

StorageKnows == TypeInv /\ CoreIsProved

\* What a step of the coordinator leaves to the queue: proofs stay, a record
\* keeps its flag unless its operation is under way, and none comes to be so.
LeavesCore ==
  /\ \A o \in Ops : proof[o] # None => proof'[o] # None
  /\ \A o \in Ops : o # run.op \/ ~ Busy => (journal[o].core => journal'[o].core)
  /\ Busy' => Busy /\ run'.op = run.op

-----------------------------------------------------------------------------
(* The coordinator *)

\* What a step of the operation o under way does to the facts above.
Moves(o) ==
  /\ \A p \in Ops : proof[p] # None => proof'[p] # None
  /\ \A p \in Ops \ {o} : journal[p].core = journal'[p].core
  /\ journal'[o].core => journal[o].core \/ run.rec.core
  /\ \/ run'.at = "idle"
     \/ /\ run'.op = o /\ run'.at \notin Recovering
        /\ run'.rec.core => run.rec.core \/ proof'[o] # None
        /\ run'.at \in Placed => run'.rec.path \in Paths
        /\ run'.at \in {"journal_index", "purge"} => proof'[o] # None

\* Such a step leaves the core of every other operation as it was.
LEMMA MovesLeave ==
  ASSUME StorageKnows, TypeInv', NEW o \in Ops, run.op = o, Busy, Moves(o)
  PROVE  StorageKnows' /\ LeavesCore
  BY DEF StorageKnows, CoreIsProved, LeavesCore, Moves, Busy, Recovering, Placed

\* A write of the journal that succeeded or failed.
LEMMA WrittenCore ==
  ASSUME TypeInv, NEW o \in Ops, NEW rec, JournalWritten(o, rec) \/ JournalFailed(o, rec)
  PROVE  /\ \A p \in Ops \ {o} : journal[p].core = journal'[p].core
         /\ journal'[o].core => journal[o].core \/ rec.core
  BY DEF TypeInv, TypeOK, JournalWritten, JournalFailed

\* A planned archive starts with no core commit in its record.
LEMMA PlanArchiveLeaves ==
  ASSUME StorageKnows, NEW a \in Archives, PlanArchive(a)
  PROVE  StorageKnows' /\ LeavesCore
  <1>1. TypeInv'
    BY PlanArchiveTyped DEF StorageKnows
  <1>2. /\ a \in Ops /\ run.op = a /\ run.at = "plan" /\ run.rec \in Records
        /\ TypeInv /\ proof \in [Ops -> Paths \cup {None}] /\ None \notin Paths
    BY StorageAssumption DEF StorageKnows, TypeInv, TypeOK, PlanArchive, At, Ops, Paths
  <1>3. PICK p \in Paths :
          LET rec == [JournalCreated EXCEPT !.path = p]
          IN \/ JournalWritten(a, rec) /\ Goto(a, "publish", rec)
             \/ JournalFailed(a, rec) /\ Rejected(a, JournalCreated, "preparing")
    BY DEF PlanArchive
  <1> DEFINE rec == [JournalCreated EXCEPT !.path = p]
  <1>4. rec \in Records /\ rec.path = p /\ ~ rec.core /\ proof' = proof
    BY CreatedHolds DEF Records, PlanArchive, stores
  <1>5. \/ run'.op = a /\ run'.at = "publish" /\ run'.rec = rec
        \/ Ends(a, "rejected")
    <2>1. Rejected(a, JournalCreated, "preparing") => Ends(a, "rejected")
      BY CreatedHolds, EndsHolds
    <2>2. Goto(a, "publish", rec) => run'.op = a /\ run'.at = "publish" /\ run'.rec = rec
      BY DEF Goto
    <2> QED
      BY <1>3, <2>1, <2>2
  <1>6. /\ \A o \in Ops \ {a} : journal[o].core = journal'[o].core
        /\ journal'[a].core => journal[a].core
    <2> HIDE DEF rec
    <2> QED
      BY <1>2, <1>3, <1>4, WrittenCore DEF rec
  <1> HIDE DEF rec
  <1>7. Moves(a)
    BY <1>2, <1>4, <1>5, <1>6 DEF Moves, Ends, Placed, Recovering
  <1> QED
    BY <1>1, <1>2, <1>7, MovesLeave DEF Busy, Recovering

\* An archive refused for its plan leaves the cores as they were.
LEMMA PlanArchiveFailsLeaves ==
  ASSUME StorageKnows, NEW a \in Archives, PlanArchiveFails(a)
  PROVE  StorageKnows' /\ LeavesCore
  <1>1. TypeInv'
    BY PlanArchiveTyped DEF StorageKnows
  <1>2. a \in Ops /\ run.op = a /\ run.at = "plan" /\ run.rec \in Records
    BY DEF StorageKnows, TypeInv, TypeOK, PlanArchiveFails, At, Ops
  <1>3. UNCHANGED <<proof, journal>>
    BY DEF PlanArchiveFails, stores
  <1>4. Ends(a, "rejected")
    BY <1>2, <1>3, GoesHolds, EndsHolds, CreatedHolds DEF PlanArchiveFails, At
  <1> QED
    BY <1>1, <1>2, <1>3, <1>4, MovesLeave
       DEF Goes, Ends, Moves, Busy, Placed, Recovering, StorageKnows, CoreIsProved

\* The publication of the Markdown leaves every record to the journal steps.
LEMMA PublishArchiveLeaves ==
  ASSUME StorageKnows, NEW a \in Archives, PublishArchive(a)
  PROVE  StorageKnows' /\ LeavesCore
  <1>1. TypeInv'
    BY PublishArchiveTyped DEF StorageKnows
  <1>2. a \in Ops /\ run.op = a /\ run.at = "publish" /\ run.rec \in Records
    BY DEF StorageKnows, TypeInv, TypeOK, PublishArchive, At, Ops
  <1>3. UNCHANGED <<proof, journal>>
    BY DEF PublishArchive, stores
  <1>4. Goes(a, "journal_primary") \/ Ends(a, "rejected") \/ Ends(a, "repair_required")
    BY <1>2, <1>3, GoesHolds, EndsHolds DEF PublishArchive, At
  <1> QED
    BY <1>1, <1>2, <1>3, <1>4, MovesLeave
       DEF Goes, Ends, Moves, Busy, Placed, Recovering, StorageKnows, CoreIsProved

\* The record of the primary phase carries the core of the operation under way.
LEMMA JournalPrimaryLeaves ==
  ASSUME StorageKnows, NEW a \in Archives, JournalPrimary(a)
  PROVE  StorageKnows' /\ LeavesCore
  <1>1. TypeInv'
    BY JournalPrimaryTyped DEF StorageKnows
  <1>2. /\ a \in Ops /\ run.op = a /\ run.at = "journal_primary" /\ run.rec \in Records
        /\ TypeInv /\ run.rec.path \in Paths
    BY DEF StorageKnows, TypeInv, TypeOK, CoreIsProved, Placed, JournalPrimary, At, Ops
  <1>3. proof' = proof /\ (JournalWritten(a, run.rec) \/ JournalFailed(a, run.rec))
    BY DEF JournalPrimary, stores
  <1>4. Goes(a, "index") \/ Goes(a, "undo")
    BY <1>2, GoesHolds DEF JournalPrimary
  <1>5. /\ \A p \in Ops \ {a} : journal[p].core = journal'[p].core
        /\ journal'[a].core => journal[a].core \/ run.rec.core
    BY <1>2, <1>3, WrittenCore
  <1>6. Moves(a)
    BY <1>2, <1>3, <1>4, <1>5 DEF Moves, Goes, Placed, Recovering
  <1> QED
    BY <1>1, <1>2, <1>6, MovesLeave DEF Busy, Recovering

\* The commit in SQLite brings the proof before the record says so.
LEMMA IndexArchiveLeaves ==
  ASSUME StorageKnows, NEW a \in Archives, IndexArchive(a)
  PROVE  StorageKnows' /\ LeavesCore
  <1>1. TypeInv'
    BY IndexArchiveTyped DEF StorageKnows
  <1>2. /\ a \in Ops /\ run.op = a /\ run.at = "index" /\ run.rec \in Records
        /\ TypeInv /\ proof \in [Ops -> Paths \cup {None}] /\ None \notin Paths
    BY StorageAssumption DEF StorageKnows, TypeInv, TypeOK, IndexArchive, At, Ops, Paths
  <1>3. run.rec.path \in Paths /\ run.rec.path # None /\ UNCHANGED journal
    BY <1>2 DEF IndexArchive, StorageKnows, CoreIsProved, Placed
  <1>4. \/ /\ proof' = [proof EXCEPT ![a] = run.rec.path]
           /\ Goes(a, "journal_index") \/ Ends(a, "repair_required")
        \/ /\ proof' = proof /\ proof[a] # None /\ Goes(a, "journal_index")
        \/ /\ proof' = proof
           /\ Ends(a, "repair_required") \/ Goes(a, "journal_compensating")
    BY <1>2, <1>3, GoesHolds, EndsHolds DEF IndexArchive, Probed, ArchiveProbe
  <1> QED
    BY <1>1, <1>2, <1>3, <1>4, MovesLeave
       DEF Goes, Ends, Moves, Busy, Placed, Recovering, StorageKnows, CoreIsProved

\* The record of a compensation carries no core but the one the operation has.
LEMMA JournalCompensatingLeaves ==
  ASSUME StorageKnows, NEW a \in Archives, JournalCompensating(a)
  PROVE  StorageKnows' /\ LeavesCore
  <1>1. TypeInv'
    BY JournalPrimaryTyped DEF StorageKnows
  <1>2. /\ a \in Ops /\ run.op = a /\ run.at = "journal_compensating" /\ run.rec \in Records
        /\ TypeInv
    BY DEF StorageKnows, TypeInv, TypeOK, JournalCompensating, At, Ops
  <1>3. proof' = proof /\ (JournalWritten(a, run.rec) \/ JournalFailed(a, run.rec))
    BY DEF JournalCompensating, stores
  <1>4. Goes(a, "undo")
    BY <1>2, GoesHolds DEF JournalCompensating
  <1>5. /\ \A p \in Ops \ {a} : journal[p].core = journal'[p].core
        /\ journal'[a].core => journal[a].core \/ run.rec.core
    BY <1>2, <1>3, WrittenCore
  <1>6. Moves(a)
    BY <1>2, <1>3, <1>4, <1>5 DEF Moves, Goes, Placed, Recovering
  <1> QED
    BY <1>1, <1>2, <1>6, MovesLeave DEF Busy, Recovering

\* The check before an undo moves no record.
LEMMA UndoPrimaryLeaves ==
  ASSUME StorageKnows, NEW a \in Archives, UndoPrimary(a)
  PROVE  StorageKnows' /\ LeavesCore
  <1>1. TypeInv'
    BY UndoTyped DEF StorageKnows
  <1>2. a \in Ops /\ run.op = a /\ run.at = "undo" /\ run.rec \in Records
    BY DEF StorageKnows, TypeInv, TypeOK, UndoPrimary, At, Ops
  <1>3. UNCHANGED <<proof, journal>>
    BY DEF UndoPrimary, stores
  <1>4. Goes(a, "undo_unlink") \/ Ends(a, "repair_required")
    BY <1>2, <1>3, GoesHolds, EndsHolds DEF UndoPrimary, At
  <1> QED
    BY <1>1, <1>2, <1>3, <1>4, MovesLeave
       DEF Goes, Ends, Moves, Busy, Placed, Recovering, StorageKnows, CoreIsProved

\* The unlink of an undo moves no record and no proof.
LEMMA UndoUnlinkLeaves ==
  ASSUME StorageKnows, NEW a \in Archives, UndoUnlink(a)
  PROVE  StorageKnows' /\ LeavesCore
  <1>1. TypeInv'
    BY UndoTyped DEF StorageKnows
  <1>2. a \in Ops /\ run.op = a /\ run.at = "undo_unlink" /\ run.rec \in Records
    BY DEF StorageKnows, TypeInv, TypeOK, UndoUnlink, At, Ops
  <1>3. UNCHANGED <<proof, journal>>
    BY DEF UndoUnlink, stores
  <1>4. Ends(a, "rejected") \/ Ends(a, "repair_required")
    BY <1>2, <1>3, GoesHolds, EndsHolds DEF UndoUnlink, At
  <1> QED
    BY <1>1, <1>2, <1>3, <1>4, MovesLeave
       DEF Goes, Ends, Moves, Busy, Placed, Recovering, StorageKnows, CoreIsProved

\* The record of the index phase is written once the proof is there.
LEMMA JournalIndexLeaves ==
  ASSUME StorageKnows, NEW a \in Archives, JournalIndex(a)
  PROVE  StorageKnows' /\ LeavesCore
  <1>1. TypeInv'
    BY JournalIndexTyped DEF StorageKnows
  <1>2. /\ a \in Ops /\ run.op = a /\ run.at = "journal_index" /\ run.rec \in Records
        /\ TypeInv /\ proof \in [Ops -> Paths \cup {None}] /\ None \notin Paths
    BY StorageAssumption DEF StorageKnows, TypeInv, TypeOK, JournalIndex, At, Ops, Paths
  <1> DEFINE rec == [run.rec EXCEPT !.stage = "index_committed"]
  <1>3. rec \in Records /\ rec.core = run.rec.core /\ proof' = proof /\ proof[a] # None
    BY <1>2 DEF Records, Stages, JournalIndex, stores, StorageKnows, CoreIsProved
  <1>4. /\ JournalWritten(a, rec) \/ JournalFailed(a, rec)
        /\ \/ FinishCommitted(a, rec, "ready", "completed")
           \/ FinishCommitted(a, rec, "degraded", "index_committed")
           \/ FinishCommitted(a, run.rec, "repair_required", "index_committed")
    BY DEF JournalIndex
  <1> HIDE DEF rec
  <1>5. \E status \in {"ready", "degraded", "repair_required"} : Ends(a, status)
    BY <1>2, <1>3, <1>4, EndsHolds
  <1>6. /\ \A o \in Ops \ {a} : journal[o].core = journal'[o].core
        /\ journal'[a].core => journal[a].core \/ run.rec.core
    BY <1>2, <1>3, <1>4, WrittenCore
  <1>7. Moves(a)
    BY <1>3, <1>5, <1>6 DEF Moves, Ends, Placed, Recovering
  <1> QED
    BY <1>1, <1>2, <1>7, MovesLeave DEF Busy, Recovering

\* A planned delete starts with no core commit in its record.
LEMMA PlanDeleteLeaves ==
  ASSUME StorageKnows, NEW d \in Deletes, PlanDelete(d)
  PROVE  StorageKnows' /\ LeavesCore
  <1>1. TypeInv'
    BY PlanDeleteTyped DEF StorageKnows
  <1>2. /\ d \in Ops /\ run.op = d /\ run.at = "plan" /\ run.rec \in Records
        /\ TypeInv /\ proof \in [Ops -> Paths \cup {None}] /\ None \notin Paths
    BY StorageAssumption DEF StorageKnows, TypeInv, TypeOK, PlanDelete, At, Ops, Paths
  <1> DEFINE p == rows[target[d]]
             rec == [JournalCreated EXCEPT !.stage = "delete_planned", !.path = p,
                                           !.file = vault[p], !.missing = Free(p)]
  <1>3. p \in Paths
    BY <1>2, StorageAssumption DEF PlanDelete, TypeInv, TypeOK
  <1>4. rec \in Records /\ rec.path = p /\ ~ rec.core /\ proof' = proof
    <2>1. proof' = proof
      BY DEF PlanDelete, stores
    <2>2. vault[p] \in Files \cup {None} /\ Free(p) \in BOOLEAN
      BY <1>2, <1>3 DEF Free, TypeInv, TypeOK
    <2>3. rec = Planned(p, vault[p], Free(p))
      BY DEF Planned
    <2> HIDE DEF rec, p
    <2> QED
      BY <1>3, <2>1, <2>2, <2>3, PlannedTyped
  <1>5. \/ /\ JournalWritten(d, rec)
           /\ Goto(d, IF rec.missing THEN "journal_quarantined" ELSE "quarantine", rec)
        \/ JournalFailed(d, rec) /\ Rejected(d, JournalCreated, "preparing")
    BY DEF PlanDelete
  <1> HIDE DEF rec, p
  <1>6. \/ /\ run'.op = d /\ run'.at \in {"quarantine", "journal_quarantined"}
           /\ run'.rec = rec
        \/ Ends(d, "rejected")
    <2>1. Rejected(d, JournalCreated, "preparing") => Ends(d, "rejected")
      BY CreatedHolds, EndsHolds
    <2>2. \A step : Goto(d, step, rec) => run'.op = d /\ run'.at = step /\ run'.rec = rec
      BY DEF Goto
    <2> QED
      BY <1>5, <2>1, <2>2
  <1>7. /\ \A o \in Ops \ {d} : journal[o].core = journal'[o].core
        /\ journal'[d].core => journal[d].core
    BY <1>2, <1>4, <1>5, WrittenCore
  <1>8. Moves(d)
    BY <1>2, <1>3, <1>4, <1>6, <1>7 DEF Moves, Ends, Placed, Recovering
  <1> QED
    BY <1>1, <1>2, <1>8, MovesLeave DEF Busy, Recovering

\* A delete refused for its plan leaves the cores as they were.
LEMMA PlanDeleteRefusedLeaves ==
  ASSUME StorageKnows, NEW d \in Deletes, PlanDeleteRefused(d)
  PROVE  StorageKnows' /\ LeavesCore
  <1>1. TypeInv'
    BY PlanDeleteTyped DEF StorageKnows
  <1>2. d \in Ops /\ run.op = d /\ run.at = "plan" /\ run.rec \in Records
    BY DEF StorageKnows, TypeInv, TypeOK, PlanDeleteRefused, At, Ops
  <1>3. UNCHANGED <<proof, journal>>
    BY DEF PlanDeleteRefused, stores
  <1>4. Ends(d, "rejected")
    BY <1>2, <1>3, GoesHolds, EndsHolds, CreatedHolds DEF PlanDeleteRefused, At
  <1> QED
    BY <1>1, <1>2, <1>3, <1>4, MovesLeave
       DEF Goes, Ends, Moves, Busy, Placed, Recovering, StorageKnows, CoreIsProved

\* The check before the quarantine moves no record.
LEMMA QuarantineCheckLeaves ==
  ASSUME StorageKnows, NEW d \in Deletes, QuarantineCheck(d)
  PROVE  StorageKnows' /\ LeavesCore
  <1>1. TypeInv'
    BY QuarantineTyped DEF StorageKnows
  <1>2. d \in Ops /\ run.op = d /\ run.at = "quarantine" /\ run.rec \in Records
    BY DEF StorageKnows, TypeInv, TypeOK, QuarantineCheck, At, Ops
  <1>3. UNCHANGED <<proof, journal>>
    BY DEF QuarantineCheck, stores
  <1>4. Goes(d, "link") \/ Ends(d, "rejected")
    BY <1>2, <1>3, GoesHolds, EndsHolds DEF QuarantineCheck, At
  <1> QED
    BY <1>1, <1>2, <1>3, <1>4, MovesLeave
       DEF Goes, Ends, Moves, Busy, Placed, Recovering, StorageKnows, CoreIsProved

\* The link into the quarantine moves no record.
LEMMA QuarantineLinkLeaves ==
  ASSUME StorageKnows, NEW d \in Deletes, QuarantineLink(d)
  PROVE  StorageKnows' /\ LeavesCore
  <1>1. TypeInv'
    BY QuarantineTyped DEF StorageKnows
  <1>2. d \in Ops /\ run.op = d /\ run.at = "link" /\ run.rec \in Records
    BY DEF StorageKnows, TypeInv, TypeOK, QuarantineLink, At, Ops
  <1>3. UNCHANGED <<proof, journal>>
    BY DEF QuarantineLink, stores
  <1>4. Goes(d, "unlink_original") \/ Ends(d, "rejected")
    BY <1>2, <1>3, GoesHolds, EndsHolds DEF QuarantineLink, At
  <1> QED
    BY <1>1, <1>2, <1>3, <1>4, MovesLeave
       DEF Goes, Ends, Moves, Busy, Placed, Recovering, StorageKnows, CoreIsProved

\* The unlink of the original moves no record.
LEMMA UnlinkOriginalLeaves ==
  ASSUME StorageKnows, NEW d \in Deletes, UnlinkOriginal(d)
  PROVE  StorageKnows' /\ LeavesCore
  <1>1. TypeInv'
    BY UnlinkOriginalTyped DEF StorageKnows
  <1>2. d \in Ops /\ run.op = d /\ run.at = "unlink_original" /\ run.rec \in Records
    BY DEF StorageKnows, TypeInv, TypeOK, UnlinkOriginal, At, Ops
  <1>3. UNCHANGED <<proof, journal>>
    BY DEF UnlinkOriginal, stores
  <1>4. Goes(d, "verify") \/ Ends(d, "rejected")
    BY <1>2, <1>3, GoesHolds, EndsHolds DEF UnlinkOriginal, At
  <1> QED
    BY <1>1, <1>2, <1>3, <1>4, MovesLeave
       DEF Goes, Ends, Moves, Busy, Placed, Recovering, StorageKnows, CoreIsProved

\* The check after the move leaves every record.
LEMMA VerifyQuarantineLeaves ==
  ASSUME StorageKnows, NEW d \in Deletes, VerifyQuarantine(d)
  PROVE  StorageKnows' /\ LeavesCore
  <1>1. TypeInv'
    BY UnlinkOriginalTyped DEF StorageKnows
  <1>2. d \in Ops /\ run.op = d /\ run.at = "verify" /\ run.rec \in Records
    BY DEF StorageKnows, TypeInv, TypeOK, VerifyQuarantine, At, Ops
  <1>3. UNCHANGED <<proof, journal>>
    BY DEF VerifyQuarantine, stores
  <1>4. Goes(d, "journal_quarantined") \/ Goes(d, "restore") \/ Ends(d, "repair_required")
    BY <1>2, <1>3, GoesHolds, EndsHolds DEF VerifyQuarantine, At
  <1> QED
    BY <1>1, <1>2, <1>3, <1>4, MovesLeave
       DEF Goes, Ends, Moves, Busy, Placed, Recovering, StorageKnows, CoreIsProved

\* The record of the quarantine carries the core of the operation under way.
LEMMA JournalQuarantinedLeaves ==
  ASSUME StorageKnows, NEW d \in Deletes, JournalQuarantined(d)
  PROVE  StorageKnows' /\ LeavesCore
  <1>1. TypeInv'
    BY JournalQuarantinedTyped DEF StorageKnows
  <1>2. /\ d \in Ops /\ run.op = d /\ run.at = "journal_quarantined" /\ run.rec \in Records
        /\ TypeInv /\ proof \in [Ops -> Paths \cup {None}] /\ None \notin Paths
    BY StorageAssumption
       DEF StorageKnows, TypeInv, TypeOK, JournalQuarantined, At, Ops, Paths
  <1> DEFINE rec == [run.rec EXCEPT !.stage = "delete_quarantined"]
  <1>3. rec \in Records /\ rec.core = run.rec.core /\ proof' = proof
    BY <1>2 DEF Records, Stages, JournalQuarantined, stores
  <1>4. /\ JournalWritten(d, rec) \/ JournalFailed(d, rec)
        /\ \/ Goto(d, "remove", rec)
           \/ Rejected(d, rec, "compensating")
           \/ Goto(d, "restore", rec)
    BY DEF JournalQuarantined
  <1>5. \A step : Goto(d, step, rec) => Goes(d, step)
    BY <1>2, GoesHolds
  <1> HIDE DEF rec
  <1>6. Goes(d, "remove") \/ Goes(d, "restore") \/ Ends(d, "rejected")
    BY <1>2, <1>3, <1>4, <1>5, EndsHolds
  <1>7. /\ \A o \in Ops \ {d} : journal[o].core = journal'[o].core
        /\ journal'[d].core => journal[d].core \/ run.rec.core
    BY <1>2, <1>3, <1>4, WrittenCore
  <1>8. Moves(d)
    BY <1>2, <1>3, <1>6, <1>7
       DEF Moves, Goes, Ends, Placed, Recovering, StorageKnows, CoreIsProved
  <1> QED
    BY <1>1, <1>2, <1>8, MovesLeave DEF Busy, Recovering

\* The commit that removes the row brings the proof before the record says so.
LEMMA RemoveRowLeaves ==
  ASSUME StorageKnows, NEW d \in Deletes, RemoveRow(d)
  PROVE  StorageKnows' /\ LeavesCore
  <1>1. TypeInv'
    BY RemoveRowTyped DEF StorageKnows
  <1>2. /\ d \in Ops /\ run.op = d /\ run.at = "remove" /\ run.rec \in Records
        /\ TypeInv /\ proof \in [Ops -> Paths \cup {None}] /\ None \notin Paths
    BY StorageAssumption DEF StorageKnows, TypeInv, TypeOK, RemoveRow, At, Ops, Paths
  <1>3. run.rec.path \in Paths /\ run.rec.path # None /\ UNCHANGED journal
    BY <1>2 DEF RemoveRow, StorageKnows, CoreIsProved, Placed
  <1>4. \/ /\ proof' = [proof EXCEPT ![d] = run.rec.path]
           /\ Goes(d, "purge") \/ Ends(d, "repair_required")
        \/ /\ proof' = proof /\ proof[d] # None /\ Goes(d, "purge")
        \/ /\ proof' = proof
           /\ Ends(d, "repair_required") \/ Goes(d, "restore")
    BY <1>2, <1>3, GoesHolds, EndsHolds, NamesApart DEF RemoveRow, Probed, DeleteProbe
  <1> QED
    BY <1>1, <1>2, <1>3, <1>4, MovesLeave
       DEF Goes, Ends, Moves, Busy, Placed, Recovering, StorageKnows, CoreIsProved

\* The check before a restore moves no record.
LEMMA RestoreLeaves ==
  ASSUME StorageKnows, NEW d \in Deletes, Restore(d)
  PROVE  StorageKnows' /\ LeavesCore
  <1>1. TypeInv'
    BY RestoreTyped DEF StorageKnows
  <1>2. d \in Ops /\ run.op = d /\ run.at = "restore" /\ run.rec \in Records
    BY DEF StorageKnows, TypeInv, TypeOK, Restore, At, Ops
  <1>3. UNCHANGED <<proof, journal>>
    BY DEF Restore, stores
  <1>4. Goes(d, "restore_unlink") \/ Ends(d, "repair_required")
    BY <1>2, <1>3, GoesHolds, EndsHolds DEF Restore, At
  <1> QED
    BY <1>1, <1>2, <1>3, <1>4, MovesLeave
       DEF Goes, Ends, Moves, Busy, Placed, Recovering, StorageKnows, CoreIsProved

\* A restore gives the delete up: its record keeps no core it had not.
LEMMA RestoreUnlinkLeaves ==
  ASSUME StorageKnows, NEW d \in Deletes, RestoreUnlink(d)
  PROVE  StorageKnows' /\ LeavesCore
  <1>1. TypeInv'
    BY RestoreTyped DEF StorageKnows
  <1>2. d \in Ops /\ run.op = d /\ run.at = "restore_unlink" /\ run.rec \in Records
    BY DEF StorageKnows, TypeInv, TypeOK, RestoreUnlink, At, Ops
  <1>3. UNCHANGED <<proof, journal>>
    BY DEF RestoreUnlink, stores
  <1>4. Ends(d, "rejected") \/ Ends(d, "repair_required")
    BY <1>2, <1>3, GoesHolds, EndsHolds DEF RestoreUnlink, At
  <1> QED
    BY <1>1, <1>2, <1>3, <1>4, MovesLeave
       DEF Goes, Ends, Moves, Busy, Placed, Recovering, StorageKnows, CoreIsProved

\* The purge runs only after the proof, and its record says so.
LEMMA PurgeQuarantineLeaves ==
  ASSUME StorageKnows, NEW d \in Deletes, PurgeQuarantine(d)
  PROVE  StorageKnows' /\ LeavesCore
  <1>1. TypeInv'
    BY RestoreTyped DEF StorageKnows
  <1>2. d \in Ops /\ run.op = d /\ run.at = "purge" /\ run.rec \in Records
    BY DEF StorageKnows, TypeInv, TypeOK, PurgeQuarantine, At, Ops
  <1>3. UNCHANGED <<proof, journal>>
    BY DEF PurgeQuarantine, stores
  <1>4. Ends(d, "deleted") \/ Ends(d, "degraded")
    BY <1>2, <1>3, GoesHolds, EndsHolds, StorageAssumption
       DEF PurgeQuarantine, At, StorageKnows, CoreIsProved
  <1> QED
    BY <1>1, <1>2, <1>3, <1>4, MovesLeave
       DEF Goes, Ends, Moves, Busy, Placed, Recovering, StorageKnows, CoreIsProved

\* The check of a restore under a scan leaves the record the scan read.
LEMMA RecoverRestoreLeaves ==
  ASSUME StorageKnows, NEW d \in Deletes, RecoverRestore(d)
  PROVE  StorageKnows' /\ LeavesCore
  <1>1. TypeInv'
    BY RecoverMoveTyped DEF StorageKnows
  <1>2. TypeInv /\ CoreIsProved
    BY DEF StorageKnows
  <1>3. CoreIsProved' /\ LeavesCore
    BY <1>1, <1>2, StorageAssumption
       DEF TypeInv, TypeOK, Records, stores, RecoverRestore, Ops, Busy, CoreIsProved,
           LeavesCore, Placed, Recovering, At, Goto, Finishing, FinishCommitted,
           FinishRestorable, Rejected, NeedsRepair, JournalWritten, JournalFailed,
           JournalCreated, NoRecord, Blocks, Idle
  <1>4. QED
    BY <1>1, <1>3 DEF StorageKnows

\* The unlink of a restore under a scan leaves the record the scan read.
LEMMA RecoverUnlinkLeaves ==
  ASSUME StorageKnows, NEW d \in Deletes, RecoverUnlink(d)
  PROVE  StorageKnows' /\ LeavesCore
  <1>1. TypeInv'
    BY RecoverMoveTyped DEF StorageKnows
  <1>2. TypeInv /\ CoreIsProved
    BY DEF StorageKnows
  <1>3. CoreIsProved' /\ LeavesCore
    BY <1>1, <1>2, StorageAssumption
       DEF TypeInv, TypeOK, Records, stores, RecoverUnlink, Ops, Busy, CoreIsProved,
           LeavesCore, Placed, Recovering, At, Goto, Finishing, FinishCommitted,
           FinishRestorable, Rejected, NeedsRepair, JournalWritten, JournalFailed,
           JournalCreated, NoRecord, Blocks, Idle
  <1>4. QED
    BY <1>1, <1>3 DEF StorageKnows

\* An operation that returns takes its record with it.
LEMMA FinishLeaves ==
  ASSUME StorageKnows, NEW o \in Ops, Finish(o)
  PROVE  StorageKnows' /\ LeavesCore
  <1>1. TypeInv'
    BY FinishTyped DEF StorageKnows
  <1>2. /\ run.op = o /\ run.at = "finish" /\ run'.at = "idle" /\ UNCHANGED stores
        /\ JournalWritten(o, Merged(o)) \/ JournalFailed(o, Merged(o))
    BY DEF Finish, At, Returns, Idle
  <1>3. Merged(o).core => journal[o].core \/ run.rec.core
    BY DEF StorageKnows, TypeInv, TypeOK, Merged, Records
  <1>4. Moves(o)
    BY <1>2, <1>3, WrittenCore DEF Moves, StorageKnows, stores
  <1> QED
    BY <1>1, <1>2, <1>4, MovesLeave DEF Busy, Recovering


\* A scan reads the record it will write back, and loses no core by it.
LEMMA ResolveLeaves ==
  ASSUME StorageKnows, NEW o \in Ops, Resolve(o)
  PROVE  StorageKnows' /\ LeavesCore
  <1>1. TypeInv'
    BY ResolveTyped DEF StorageKnows
  <1>2. /\ journal[o] \in Records /\ run.at = "idle"
        /\ UNCHANGED <<stores, journal, result>>
    BY DEF StorageKnows, TypeInv, TypeOK, Resolve
  <1>3. PICK commit \in Probed(o, journal[o].path) :
          \/ Blocks(o)
          \/ Goto(o, "recover_restore", Terminal(o, "rejected"))
          \/ Goto(o, "recover_write", Terminal(o, Verdict(o, commit)))
    BY DEF Resolve
  <1>4. \A status : Terminal(o, status).core = journal[o].core
    BY <1>2 DEF Terminal, Records
  <1>5. \/ run'.at = "idle"
        \/ /\ run'.op = o /\ run'.at \in {"recover_restore", "recover_write"}
           /\ run'.rec.core = journal[o].core
    BY <1>3, <1>4 DEF Blocks, Idle, Goto
  <1> QED
    BY <1>1, <1>2, <1>5
       DEF StorageKnows, CoreIsProved, LeavesCore, Busy, Recovering, Placed, stores


\* A scan writes back a record that keeps the core it read.
LEMMA RecoverWriteLeaves ==
  ASSUME StorageKnows, NEW o \in Ops, RecoverWrite(o)
  PROVE  StorageKnows' /\ LeavesCore
  <1>1. TypeInv'
    BY RecoverWriteTyped DEF StorageKnows
  <1>2. /\ run.op = o /\ run.at = "recover_write" /\ run'.at = "idle" /\ UNCHANGED stores
        /\ journal \in [Ops -> Records]
        /\ journal' \in {journal, [journal EXCEPT ![o] = run.rec]}
    BY DEF StorageKnows, TypeInv, TypeOK, RecoverWrite, At, Blocks, Idle, JournalWritten,
           JournalFailed
  <1>3. journal[o].core => run.rec.core
    BY <1>2 DEF StorageKnows, CoreIsProved, Recovering
  <1> QED
    BY <1>1, <1>2, <1>3
       DEF StorageKnows, CoreIsProved, LeavesCore, Busy, Recovering, Placed, stores

-----------------------------------------------------------------------------
(* What the queue knows *)

WorkerRecs == [at : WorkerSteps, op : Ops \cup {None}, own : Ops \cup {None},
               left : 0..MaxTasks, list : SUBSET Ops]

\* Every task has its place in the order of creation.
Listed(o) == \E i \in 1..Len(order) : order[i] = o
OrderKnows == \A o \in Ops : task[o] # "none" => Listed(o)

\* What the drain in memory may rely on between two of its transactions: its
\* list names tasks, and no one else moves the task it works on.
WorkerKnows ==
  /\ worker.at # "idle" => worker.left # 0
  /\ \A o \in worker.list : task[o] # "none"
  /\ worker.at = "recover" => worker.list # {}
  /\ worker.at \in {"execute", "storage"} =>
       worker.op \in Ops /\ task[worker.op] = "processing"
  /\ worker.at \in {"supersede", "handoff"} =>
       worker.op \in Ops /\ task[worker.op] \in {"core_committed", "ai_handoff_pending"}
  /\ worker.at \in {"binding", "activate"} =>
       worker.op \in Ops /\ task[worker.op] = "ai_handoff_pending"

\* The operation under way is the one the drain waits for.
RunIsQueued == Busy => worker.at = "storage" /\ worker.op = run.op

RowsTyped == /\ task \in [Ops -> TaskStates] /\ live \subseteq Ops /\ order \in Seq(Ops)
             /\ handoff \in [Ops -> HandoffStates] /\ deriv \in [Ops -> DerivationStates]
             /\ crashes \in 0..MaxCrashes

\* The inductive invariant of the queue: of the stores, of the rows, and of the
\* drain in memory.
RowsKnow == /\ RowsTyped /\ OrderKnows
            /\ NoEarlyDerivation /\ CoreStatesAreProven /\ OutboxFollowsTask
DrainKnows == worker \in WorkerRecs /\ WorkerKnows /\ RunIsQueued
QueueKnows == StorageKnows /\ RowsKnow /\ DrainKnows

-----------------------------------------------------------------------------
(* The first of a set of tasks *)

\* Of a set with a number for each element, one has the least.
LEMMA LeastExists ==
  ASSUME NEW S, S # {}, NEW f, \A s \in S : f[s] \in Nat
  PROVE  \E s \in S : \A t \in S : f[s] <= f[t]
  <1> DEFINE T == {f[s] : s \in S}
             R == {ss \in Nat \X Nat : ss[1] < ss[2]}
  <1>1. IsWellFoundedOn(R, Nat)
    BY NatLessThanWellFounded DEF OpToRel
  <1>2. T \subseteq Nat /\ T # {}
    OBVIOUS
  <1> HIDE DEF T
  <1>3. \E x \in T : \A y \in T : ~ (<<y, x>> \in R)
    <2> HIDE DEF R
    <2> QED
      BY <1>1, <1>2, WFMin
  <1>4. PICK x \in T : \A y \in T : ~ (y < x)
    BY <1>2, <1>3
  <1>5. PICK s \in S : x = f[s]
    BY <1>4 DEF T
  <1>6. \A t \in S : f[s] <= f[t]
    BY <1>4, <1>5 DEF T
  <1> QED
    BY <1>6

\* ORDER BY created_at LIMIT 1 finds one of the tasks it is asked for.
LEMMA FirstIsOne ==
  ASSUME NEW S, S # {}, order \in Seq(Ops), \A o \in S : Listed(o)
  PROVE  FirstOf(S) \in S
  <1> DEFINE f == [o \in S |-> Position(o)]
  <1>1. \A o \in S : f[o] \in Nat
    <2> SUFFICES ASSUME NEW o \in S PROVE Position(o) \in Nat
      OBVIOUS
    <2>1. \E i \in 1..Len(order) : order[i] = o
      BY DEF Listed
    <2>2. Position(o) \in 1..Len(order)
      BY <2>1 DEF Position
    <2> QED
      BY <2>2
  <1> HIDE DEF f
  <1>2. \E s \in S : \A t \in S : f[s] <= f[t]
    BY <1>1, LeastExists
  <1>3. \E s \in S : \A t \in S : Position(s) <= Position(t)
    BY <1>2 DEF f
  <1> QED
    BY <1>3 DEF FirstOf

Inserted(s, o, i) == SubSeq(s, 1, i) \o <<o>> \o SubSeq(s, i + 1, Len(s))
Grows(s, t, o) == /\ \E k \in 1..Len(t) : t[k] = o
                  /\ \A j \in 1..Len(s) : \E k \in 1..Len(t) : t[k] = s[j]

\* An element put into a sequence is in it, with all that was there before.
LEMMA InsertFacts ==
  ASSUME NEW S, NEW s \in Seq(S), NEW o \in S, NEW i \in 0..Len(s)
  PROVE  Inserted(s, o, i) \in Seq(S) /\ Grows(s, Inserted(s, o, i), o)
  <1> DEFINE n == Len(s)
             front == SubSeq(s, 1, i)
             back == SubSeq(s, i + 1, n)
             half == front \o <<o>>
             t == half \o back
  <1>1. n \in Nat /\ i \in Nat /\ i <= n /\ \A j \in 1..n : s[j] \in S
    BY LenProperties, ElementOfSeq
  <1>2. /\ front \in Seq(S) /\ Len(front) = i
        /\ \A j \in 1..i : front[j] = s[j]
    <2>1. \A j \in 1..i : s[j] \in S
      BY <1>1
    <2>2. /\ front \in Seq(S) /\ Len(front) = IF 1 <= i THEN i - 1 + 1 ELSE 0
          /\ \A j \in 1..(i - 1 + 1) : front[j] = s[1 + j - 1]
      BY <1>1, <2>1, SubSeqProperties
    <2> QED
      BY <1>1, <2>2
  <1>3. /\ back \in Seq(S) /\ Len(back) = n - i
        /\ \A j \in 1..(n - i) : back[j] = s[i + j]
    <2>1. \A j \in (i + 1)..n : s[j] \in S
      BY <1>1
    <2>2. /\ back \in Seq(S) /\ Len(back) = IF i + 1 <= n THEN n - (i + 1) + 1 ELSE 0
          /\ \A j \in 1..(n - (i + 1) + 1) : back[j] = s[(i + 1) + j - 1]
      BY <1>1, <2>1, SubSeqProperties
    <2> QED
      BY <1>1, <2>2
  <1> HIDE DEF front, back
  <1>4. <<o>> \in Seq(S) /\ Len(<<o>>) = 1 /\ <<o>>[1] = o
    OBVIOUS
  <1>5. /\ half \in Seq(S) /\ Len(half) = i + 1 /\ half[i + 1] = o
        /\ \A j \in 1..i : half[j] = s[j]
    <2>1. /\ half \in Seq(S) /\ Len(half) = Len(front) + Len(<<o>>)
          /\ \A j \in 1..(Len(front) + Len(<<o>>)) :
               half[j] = IF j <= Len(front) THEN front[j] ELSE <<o>>[j - Len(front)]
      BY <1>2, <1>4, ConcatProperties
    <2> QED
      BY <1>1, <1>2, <1>4, <2>1
  <1> HIDE DEF half
  <1>6. /\ t \in Seq(S) /\ Len(t) = n + 1
        /\ \A j \in 1..(n + 1) : t[j] = IF j <= i + 1 THEN half[j] ELSE back[j - (i + 1)]
    <2>1. /\ t \in Seq(S) /\ Len(t) = Len(half) + Len(back)
          /\ \A j \in 1..(Len(half) + Len(back)) :
               t[j] = IF j <= Len(half) THEN half[j] ELSE back[j - Len(half)]
      BY <1>3, <1>5, ConcatProperties
    <2>2. Len(half) = i + 1 /\ Len(half) + Len(back) = n + 1
      BY <1>1, <1>3, <1>5
    <2> HIDE DEF t, n
    <2> QED
      BY <2>1, <2>2
  <1> HIDE DEF t, n
  <1>7. t[i + 1] = o /\ i + 1 \in 1..(n + 1)
    BY <1>1, <1>5, <1>6
  <1>8. ASSUME NEW j \in 1..n PROVE \E k \in 1..(n + 1) : t[k] = s[j]
    <2>1. CASE j <= i
      <3>1. t[j] = s[j] /\ j \in 1..(n + 1)
        BY <1>1, <1>5, <1>6, <2>1
      <3> QED
        BY <3>1
    <2>2. CASE j > i
      <3>1. /\ j + 1 \in 1..(n + 1) /\ ~ (j + 1 <= i + 1) /\ (j + 1) - (i + 1) = j - i
            /\ j - i \in 1..(n - i) /\ i + (j - i) = j
        BY <1>1, <2>2
      <3>2. t[j + 1] = back[j - i] /\ back[j - i] = s[j]
        BY <1>3, <1>6, <3>1
      <3> QED
        BY <3>1, <3>2
    <2> QED
      BY <1>1, <2>1, <2>2
  <1>9. \E k \in 1..Len(t) : t[k] = o
    BY <1>6, <1>7
  <1>10. \A j \in 1..n : \E k \in 1..Len(t) : t[k] = s[j]
    BY <1>6, <1>8
  <1> QED
    BY <1>6, <1>9, <1>10 DEF t, half, front, back, n, Inserted, Grows

\* A new task takes its place, and no other loses its own.
LEMMA InsertKeeps ==
  ASSUME order \in Seq(Ops), NEW o \in Ops, NEW i \in 0..Len(order),
         order' = SubSeq(order, 1, i) \o <<o>> \o SubSeq(order, i + 1, Len(order))
  PROVE  order' \in Seq(Ops) /\ Listed(o)' /\ \A p : Listed(p) => Listed(p)'
  <1>1. order' = Inserted(order, o, i)
    BY DEF Inserted
  <1>2. Inserted(order, o, i) \in Seq(Ops) /\ Grows(order, Inserted(order, o, i), o)
    BY InsertFacts
  <1>3. order' \in Seq(Ops) /\ Grows(order, order', o)
    BY <1>1, <1>2
  <1>4. Listed(o)'
    BY <1>3 DEF Listed, Grows
  <1>5. ASSUME NEW p, Listed(p) PROVE Listed(p)'
    BY <1>3, <1>5 DEF Listed, Grows
  <1> QED
    BY <1>3, <1>4, <1>5

-----------------------------------------------------------------------------
(* Rows and drain, one at a time *)

\* A step that leaves the coordinator alone leaves what is known of it.
LEMMA SameStorage ==
  ASSUME StorageKnows, UNCHANGED vars
  PROVE  StorageKnows' /\ UNCHANGED <<proof, journal, run>> /\ Busy' = Busy
  BY
     DEF StorageKnows, TypeInv, TypeOK, PathKnown, CoreIsProved, Busy, vars, stores,
         memory

\* Rows nobody writes keep their promise while proofs and flags stay.
LEMMA SameRows ==
  ASSUME RowsKnow, UNCHANGED <<task, order, handoff, deriv>>, live' \subseteq Ops,
         crashes' \in 0..MaxCrashes,
         \A o \in Ops : proof[o] # None => proof'[o] # None,
         \A o \in Ops : task[o] \in {"core_committed", "ai_handoff_pending", "completed"} =>
                          (journal[o].core => journal'[o].core)
  PROVE  RowsKnow'
  BY DEF RowsKnow, RowsTyped, OrderKnows, Listed, NoEarlyDerivation, CoreStatesAreProven,
         OutboxFollowsTask

\* A claimed task goes back, is rejected, or records a core commit the journal
\* proves.
LEMMA ProcessedRows ==
  ASSUME StorageKnows, RowsKnow,
         UNCHANGED <<proof, journal, order, handoff, deriv, crashes>>,
         live' \subseteq Ops, NEW o \in Ops, task[o] = "processing",
         NEW state \in {"retry_required", "rejected", "core_committed"},
         state = "core_committed" => journal[o].core,
         task' = [task EXCEPT ![o] = state]
  PROVE  RowsKnow'
  <1>1. RowsTyped' /\ OrderKnows'
    BY DEF RowsKnow, RowsTyped, OrderKnows, Listed, TaskStates
  <1>2. state = "core_committed" => proof[o] # None
    BY DEF StorageKnows, CoreIsProved
  <1>3. NoEarlyDerivation' /\ CoreStatesAreProven' /\ OutboxFollowsTask'
    BY <1>2 DEF RowsKnow, RowsTyped, NoEarlyDerivation, CoreStatesAreProven,
                OutboxFollowsTask
  <1> QED
    BY <1>1, <1>3 DEF RowsKnow

\* The drain is back with its caller, or about to claim or to recover a task.
Resting == /\ worker' \in WorkerRecs /\ worker'.at \in {"idle", "claim", "recover"}
           /\ worker'.at # "idle" => worker'.left # 0
           /\ worker'.list \subseteq worker.list
           /\ worker'.at = "recover" => worker'.list # {}

\* Both ways to leave a task bring the drain to rest.
LEMMA RaiseRests ==
  ASSUME Raise
  PROVE  Resting
  BY QueueAssumption DEF Raise, Asleep, Resting, WorkerRecs, WorkerSteps

\* The drain that goes on rests or claims, with one task less to do.
LEMMA OnwardRests ==
  ASSUME worker \in WorkerRecs, worker.left # 0, Onward
  PROVE  Resting
  <1> DEFINE rest == worker.left - 1
             next == [worker EXCEPT !.op = None, !.left = rest,
                                    !.at = IF worker.list = {} THEN "claim" ELSE "recover"]
  <1>1. rest \in 0..MaxTasks
    BY QueueAssumption DEF WorkerRecs
  <1>2. /\ next \in WorkerRecs /\ next.left = rest /\ next.list = worker.list
        /\ next.at = IF worker.list = {} THEN "claim" ELSE "recover"
    BY <1>1 DEF WorkerRecs, WorkerSteps
  <1>3. Raise \/ (rest # 0 /\ worker' = next)
    <2> HIDE DEF next
    <2>1. \/ worker' = (IF rest = 0 THEN Asleep ELSE next)
          \/ Raise
          \/ rest > 0 /\ worker' = next
      BY DEF Onward, next
    <2> QED
      BY <1>1, <2>1 DEF Raise
  <1> HIDE DEF next, rest
  <1> QED
    BY <1>2, <1>3, RaiseRests DEF Resting

\* A drain at rest knows what it needs, as tasks are never forgotten.
LEMMA RestKnows ==
  ASSUME DrainKnows, Resting, ~ Busy',
         \A o \in Ops : task[o] # "none" => task'[o] # "none"
  PROVE  DrainKnows'
  BY DEF DrainKnows, WorkerRecs, Resting, WorkerKnows, RunIsQueued

-----------------------------------------------------------------------------
(* The coordinator in the hands of the queue *)

\* A first or a repeated call may overwrite the record of its own operation.
LEMMA StartLeaves ==
  ASSUME StorageKnows, NEW o \in Ops, Start(o)
  PROVE  /\ StorageKnows' /\ UNCHANGED proof /\ (Busy' => run'.op = o)
         /\ \A p \in Ops \ {o} : journal[p].core => journal'[p].core
  <1>1. TypeInv' /\ UNCHANGED <<proof, boot>> /\ boot = "up"
    BY StartTyped DEF StorageKnows, Start, stores
  <1>2. JournalWritten(o, JournalCreated) \/ JournalFailed(o, JournalCreated)
    BY DEF Start
  <1>3. /\ \A p \in Ops \ {o} : journal[p].core = journal'[p].core
        /\ journal'[o].core => journal[o].core
    BY <1>2, WrittenCore, CreatedHolds DEF StorageKnows
  <1>4. \/ run'.op = o /\ run'.at = "plan" /\ ~ run'.rec.core
        \/ run'.at = "idle"
    BY CreatedHolds DEF Start, Goto, Returns, Idle
  <1> QED
    BY <1>1, <1>3, <1>4
       DEF StorageKnows, CoreIsProved, Busy, Recovering, Placed

\* Scans and crashes leave stores and records alone.
LEMMA ScanLeaves ==
  ASSUME StorageKnows, StartScan \/ EndScan \/ Crash
  PROVE  StorageKnows' /\ UNCHANGED <<proof, journal>> /\ ~ Busy'
  <1>1. TypeInv'
    BY ScanTyped, EnvironmentTyped DEF StorageKnows, Environment
  <1>2. UNCHANGED <<proof, journal>> /\ run'.at = "idle"
    BY DEF StartScan, EndScan, Crash, Idle, stores
  <1> QED
    BY <1>1, <1>2 DEF StorageKnows, CoreIsProved, Busy, Recovering, Placed

\* Every step of an operation or of a recovery leaves the queue what it needs.
LEMMA StorageStepLeaves ==
  ASSUME StorageKnows, StorageStep
  PROVE  StorageKnows' /\ LeavesCore
  <1>1. CASE \E a \in Archives : ArchiveStep(a)
    BY <1>1, PlanArchiveLeaves, PlanArchiveFailsLeaves, PublishArchiveLeaves,
       JournalPrimaryLeaves, IndexArchiveLeaves, JournalCompensatingLeaves,
       UndoPrimaryLeaves, UndoUnlinkLeaves, JournalIndexLeaves DEF ArchiveStep
  <1>2. CASE \E d \in Deletes : DeleteStep(d)
    BY <1>2, PlanDeleteLeaves, PlanDeleteRefusedLeaves, QuarantineCheckLeaves,
       QuarantineLinkLeaves, UnlinkOriginalLeaves, VerifyQuarantineLeaves,
       JournalQuarantinedLeaves, RemoveRowLeaves, RestoreLeaves, RestoreUnlinkLeaves,
       PurgeQuarantineLeaves, RecoverRestoreLeaves, RecoverUnlinkLeaves DEF DeleteStep
  <1>3. CASE \E o \in Ops : Finish(o) \/ Resolve(o) \/ RecoverWrite(o)
    BY <1>3, FinishLeaves, ResolveLeaves, RecoverWriteLeaves
  <1> QED
    BY <1>1, <1>2, <1>3 DEF StorageStep

-----------------------------------------------------------------------------
(* Submission and claims *)

\* A new task is accepted with a derivation that waits for its handoff.
LEMMA SubmitKeeps ==
  ASSUME QueueKnows, NEW o \in Ops, Submit(o)
  PROVE  QueueKnows'
  <1>1. StorageKnows' /\ UNCHANGED <<proof, journal, run>> /\ Busy' = Busy
    BY SameStorage DEF QueueKnows, Submit
  <1>2. order' \in Seq(Ops) /\ Listed(o)' /\ \A p : Listed(p) => Listed(p)'
    BY InsertKeeps DEF Submit, QueueKnows, RowsKnow, RowsTyped
  <1>3. /\ task[o] = "none" /\ task' = [task EXCEPT ![o] = "accepted"]
        /\ deriv' = [deriv EXCEPT ![o] = "blocked_handoff"]
        /\ UNCHANGED <<live, handoff, crashes>> /\ worker.at = "idle"
        /\ worker' = [Asleep EXCEPT !.at = "claim", !.own = o, !.left = MaxTasks]
    BY DEF Submit, SetTask, Working
  <1>4. RowsTyped' /\ OrderKnows'
    BY <1>2, <1>3 DEF QueueKnows, RowsKnow, RowsTyped, OrderKnows, TaskStates,
                      DerivationStates
  <1>5. NoEarlyDerivation' /\ CoreStatesAreProven' /\ OutboxFollowsTask'
    BY <1>1, <1>3 DEF QueueKnows, RowsKnow, RowsTyped, NoEarlyDerivation,
                      CoreStatesAreProven, OutboxFollowsTask
  <1>6. ~ Busy'
    BY <1>1, <1>3 DEF QueueKnows, DrainKnows, RunIsQueued
  <1>7. DrainKnows'
    <2>1. /\ worker' \in WorkerRecs /\ worker'.at = "claim" /\ worker'.left = MaxTasks
          /\ worker'.list = {}
      <3>1. worker' = [at |-> "claim", op |-> None, own |-> o,
                       left |-> MaxTasks, list |-> {}]
        BY <1>3 DEF Asleep
      <3>2. MaxTasks \in 0..MaxTasks
        BY QueueAssumption
      <3>3. o \in Ops
        OBVIOUS
      <3> QED
        BY <3>1, <3>2, <3>3 DEF WorkerRecs, WorkerSteps
    <2> QED
      BY <1>6, <2>1, QueueAssumption DEF DrainKnows, WorkerKnows, RunIsQueued
  <1> QED
    BY <1>1, <1>4, <1>5, <1>7 DEF QueueKnows, RowsKnow

\* The claim takes the first task that waits.
LEMMA ClaimNextKeeps ==
  ASSUME QueueKnows, ClaimNext
  PROVE  QueueKnows'
  <1> DEFINE o == FirstOf(Claimable)
  <1>1. StorageKnows' /\ UNCHANGED <<proof, journal, run>> /\ Busy' = Busy
    BY SameStorage DEF QueueKnows, ClaimNext
  <1>2. o \in Claimable
    BY FirstIsOne DEF ClaimNext, Claimable, QueueKnows, RowsKnow, RowsTyped, OrderKnows
  <1>3. /\ task' = [task EXCEPT ![o] = "processing"] /\ live' = live \cup {o}
        /\ worker' = [worker EXCEPT !.at = "execute", !.op = o] /\ worker.at = "claim"
        /\ UNCHANGED <<order, handoff, deriv, crashes>>
    BY DEF ClaimNext, SetTask, Working
  <1> HIDE DEF o
  <1>4. o \in Ops /\ task[o] \in {"accepted", "retry_required"}
    BY <1>2 DEF Claimable
  <1>5. RowsTyped' /\ OrderKnows'
    BY <1>3, <1>4 DEF QueueKnows, RowsKnow, RowsTyped, OrderKnows, Listed, TaskStates
  <1>6. NoEarlyDerivation' /\ CoreStatesAreProven' /\ OutboxFollowsTask'
    BY <1>1, <1>3, <1>4 DEF QueueKnows, RowsKnow, RowsTyped, NoEarlyDerivation,
                      CoreStatesAreProven, OutboxFollowsTask
  <1>7. ~ Busy'
    BY <1>1, <1>3 DEF QueueKnows, DrainKnows, RunIsQueued
  <1>8. DrainKnows'
    BY <1>3, <1>4, <1>7 DEF QueueKnows, RowsKnow, RowsTyped, DrainKnows, WorkerRecs,
                            WorkerSteps, WorkerKnows, RunIsQueued
  <1> QED
    BY <1>1, <1>5, <1>6, <1>8 DEF QueueKnows, RowsKnow

\* With nothing to claim the drain returns.
LEMMA NothingToClaimKeeps ==
  ASSUME QueueKnows, NothingToClaim
  PROVE  QueueKnows'
  <1>1. StorageKnows' /\ UNCHANGED <<proof, journal, run>> /\ Busy' = Busy
    BY SameStorage DEF QueueKnows, NothingToClaim
  <1>2. /\ UNCHANGED <<task, live, order, handoff, deriv, crashes>>
        /\ worker.at = "claim" /\ Raise
    BY DEF NothingToClaim, tables, Working
  <1>3. RowsKnow'
    BY <1>1, <1>2, SameRows DEF QueueKnows, RowsKnow, RowsTyped
  <1>4. DrainKnows'
    BY <1>1, <1>2, RaiseRests, RestKnows DEF QueueKnows, DrainKnows, RunIsQueued
  <1> QED
    BY <1>1, <1>3, <1>4 DEF QueueKnows

\* A claim that runs out changes no state of a task.
LEMMA ClaimExpiresKeeps ==
  ASSUME QueueKnows, NEW o \in Ops, ClaimExpires(o)
  PROVE  QueueKnows'
  <1>1. StorageKnows' /\ UNCHANGED <<proof, journal, run>> /\ Busy' = Busy
    BY SameStorage DEF QueueKnows, ClaimExpires
  <1>2. UNCHANGED <<task, order, handoff, deriv, crashes, worker>> /\ live' \subseteq live
    BY DEF ClaimExpires
  <1>3. RowsKnow'
    BY <1>1, <1>2, SameRows DEF QueueKnows, RowsKnow, RowsTyped
  <1>4. DrainKnows'
    BY <1>1, <1>2 DEF QueueKnows, DrainKnows, WorkerKnows, RunIsQueued
  <1> QED
    BY <1>1, <1>3, <1>4 DEF QueueKnows

-----------------------------------------------------------------------------
(* Execution of a claimed task *)

\* The operation of the task in processing starts, at every attempt anew.
LEMMA ExecuteKeeps ==
  ASSUME QueueKnows, NEW o \in Ops, Execute(o)
  PROVE  QueueKnows'
  <1>1. /\ worker.at = "execute" /\ worker.op = o /\ Start(o)
        /\ worker' = [worker EXCEPT !.at = "storage"]
        /\ UNCHANGED <<task, live, order, handoff, deriv, crashes>>
    BY DEF Execute, Working, Proceed, tables
  <1>2. /\ StorageKnows' /\ UNCHANGED proof /\ (Busy' => run'.op = o)
        /\ \A p \in Ops \ {o} : journal[p].core => journal'[p].core
    BY <1>1, StartLeaves DEF QueueKnows
  <1>3. task[o] = "processing"
    BY <1>1 DEF QueueKnows, DrainKnows, WorkerKnows
  <1>4. RowsKnow'
    BY <1>1, <1>2, <1>3, SameRows DEF QueueKnows, RowsKnow, RowsTyped
  <1>5. DrainKnows'
    BY <1>1, <1>2, <1>3 DEF QueueKnows, DrainKnows, WorkerRecs, WorkerSteps, WorkerKnows,
                            RunIsQueued
  <1> QED
    BY <1>2, <1>4, <1>5 DEF QueueKnows

\* A processed task is finished or its core commit recorded; what is true of
\* both branches of the code that read the journal.
LEMMA ProcessedKeeps ==
  ASSUME QueueKnows, NEW o \in Ops, task[o] = "processing", worker.at # "idle",
         worker.op = o, ~ Busy,
         UNCHANGED <<vars, order, handoff, deriv, crashes>>,
         NEW state \in {"retry_required", "rejected"},
         RecordCore(o) \/ FinishClaim(o, state)
  PROVE  QueueKnows'
  <1>1. StorageKnows' /\ UNCHANGED <<proof, journal, run>> /\ ~ Busy'
    BY SameStorage DEF QueueKnows
  <1>2. \/ /\ task' = [task EXCEPT ![o] = "core_committed"] /\ live' = live \ {o}
           /\ worker' = [worker EXCEPT !.at = HandoffStep(o), !.op = o]
           /\ journal[o].core
        \/ task' = [task EXCEPT ![o] = state] /\ live' = live \ {o} /\ Onward
        \/ UNCHANGED <<task, live>> /\ Raise
    BY DEF RecordCore, FinishClaim, SetTask, JournalProves
  <1>3. CASE /\ task' = [task EXCEPT ![o] = "core_committed"] /\ live' = live \ {o}
             /\ worker' = [worker EXCEPT !.at = HandoffStep(o), !.op = o]
             /\ journal[o].core
    <2>1. RowsKnow'
      BY <1>1, <1>3, ProcessedRows DEF QueueKnows, RowsKnow, RowsTyped
    <2>2. DrainKnows'
      BY <1>1, <1>3 DEF QueueKnows, RowsKnow, RowsTyped, DrainKnows, WorkerRecs,
                        WorkerSteps, WorkerKnows, RunIsQueued, HandoffStep
    <2> QED
      BY <1>1, <2>1, <2>2 DEF QueueKnows
  <1>4. CASE task' = [task EXCEPT ![o] = state] /\ live' = live \ {o} /\ Onward
    <2>1. RowsKnow'
      BY <1>1, <1>4, ProcessedRows DEF QueueKnows, RowsKnow, RowsTyped
    <2>2. Resting
      BY <1>4, OnwardRests DEF QueueKnows, DrainKnows, WorkerKnows
    <2>3. DrainKnows'
      BY <1>1, <1>4, <2>2, RestKnows DEF QueueKnows, RowsKnow, RowsTyped
    <2> QED
      BY <1>1, <2>1, <2>3 DEF QueueKnows
  <1>5. CASE UNCHANGED <<task, live>> /\ Raise
    <2>1. RowsKnow'
      BY <1>1, <1>5, SameRows DEF QueueKnows, RowsKnow, RowsTyped
    <2>2. DrainKnows'
      BY <1>1, <1>5, RaiseRests, RestKnows DEF QueueKnows
    <2> QED
      BY <1>1, <2>1, <2>2 DEF QueueKnows
  <1> QED
    BY <1>2, <1>3, <1>4, <1>5

\* An unreadable payload is a retry, unless an earlier attempt committed.
LEMMA PayloadUnreadableKeeps ==
  ASSUME QueueKnows, NEW o \in Ops, PayloadUnreadable(o)
  PROVE  QueueKnows'
  <1>1. /\ worker.at = "execute" /\ worker.op = o /\ task[o] = "processing" /\ ~ Busy
        /\ UNCHANGED <<vars, order, handoff, deriv, crashes>>
        /\ RecordCore(o) \/ FinishClaim(o, "retry_required")
    BY DEF PayloadUnreadable, Working, QueueKnows, DrainKnows, WorkerKnows, RunIsQueued
  <1> QED
    BY <1>1, ProcessedKeeps

\* The answer of the operation decides on the task it was called for.
LEMMA StorageReturnedKeeps ==
  ASSUME QueueKnows, NEW o \in Ops, StorageReturned(o)
  PROVE  QueueKnows'
  <1>1. /\ worker.at = "storage" /\ worker.op = o /\ task[o] = "processing" /\ ~ Busy
        /\ UNCHANGED <<vars, order, handoff, deriv, crashes>>
        /\ RecordCore(o) \/ FinishClaim(o, "rejected")
    BY DEF StorageReturned, Working, QueueKnows, DrainKnows, WorkerKnows, Busy
  <1> QED
    BY <1>1, ProcessedKeeps

-----------------------------------------------------------------------------
(* _advance_handoff *)

\* Retired derivations were released before, and stay released.
LEMMA SupersedeDerivationsKeeps ==
  ASSUME QueueKnows, NEW o \in Ops, SupersedeDerivations(o)
  PROVE  QueueKnows'
  <1>1. StorageKnows' /\ UNCHANGED <<proof, journal, run>> /\ Busy' = Busy
    BY SameStorage DEF QueueKnows, SupersedeDerivations
  <1>2. /\ worker.at = "supersede" /\ worker.op = o
        /\ worker' = [worker EXCEPT !.at = "handoff"]
        /\ UNCHANGED <<task, live, order, handoff, crashes>>
        /\ \A p \in Ops : deriv'[p] = deriv[p]
                            \/ (deriv'[p] = "superseded"
                                /\ deriv[p] \in {"pending", "authorization_required"})
        /\ deriv' \in [Ops -> DerivationStates]
    BY DEF SupersedeDerivations, Working, Proceed, QueueKnows, RowsKnow, RowsTyped,
           DerivationStates
  <1>3. RowsTyped' /\ OrderKnows'
    BY <1>2 DEF QueueKnows, RowsKnow, RowsTyped, OrderKnows, Listed
  <1>4. NoEarlyDerivation' /\ CoreStatesAreProven' /\ OutboxFollowsTask'
    BY <1>1, <1>2 DEF QueueKnows, RowsKnow, NoEarlyDerivation, CoreStatesAreProven,
                      OutboxFollowsTask
  <1>5. DrainKnows'
    BY <1>1, <1>2 DEF QueueKnows, DrainKnows, WorkerRecs, WorkerSteps, WorkerKnows,
                      RunIsQueued
  <1> QED
    BY <1>1, <1>3, <1>4, <1>5 DEF QueueKnows, RowsKnow

\* The outbox row is inserted once, with the task.
LEMMA EnsureHandoffKeeps ==
  ASSUME QueueKnows, NEW o \in Ops, EnsureHandoff(o)
  PROVE  QueueKnows'
  <1>1. StorageKnows' /\ UNCHANGED <<proof, journal, run>> /\ Busy' = Busy
    BY SameStorage DEF QueueKnows, EnsureHandoff
  <1>2. /\ worker.at = "handoff" /\ worker.op = o
        /\ worker' = [worker EXCEPT !.at = IF handoff[o] = "binding_published"
                                           THEN "activate" ELSE "binding"]
        /\ UNCHANGED <<live, order, deriv, crashes>>
        /\ \/ /\ handoff[o] = "none" /\ handoff' = [handoff EXCEPT ![o] = "pending"]
              /\ task' = [task EXCEPT ![o] = "ai_handoff_pending"]
           \/ handoff[o] # "none" /\ UNCHANGED <<handoff, task>>
    BY DEF EnsureHandoff, Working, Proceed, SetTask, QueueKnows, RowsKnow, RowsTyped
  <1>3. task[o] \in {"core_committed", "ai_handoff_pending"}
    BY <1>2 DEF QueueKnows, DrainKnows, WorkerKnows
  <1>4. RowsTyped' /\ OrderKnows'
    <2>1. task' \in [Ops -> TaskStates]
      BY <1>2 DEF QueueKnows, RowsKnow, RowsTyped, TaskStates
    <2>2. handoff' \in [Ops -> HandoffStates]
      BY <1>2 DEF QueueKnows, RowsKnow, RowsTyped, HandoffStates
    <2>3. \A p \in Ops : task'[p] # "none" => task[p] # "none"
      BY <1>2, <1>3 DEF QueueKnows, RowsKnow, RowsTyped
    <2> QED
      BY <1>2, <2>1, <2>2, <2>3 DEF QueueKnows, RowsKnow, RowsTyped, OrderKnows, Listed
  <1>5. NoEarlyDerivation' /\ CoreStatesAreProven' /\ OutboxFollowsTask'
    BY <1>1, <1>2, <1>3 DEF QueueKnows, RowsKnow, RowsTyped, NoEarlyDerivation,
                            CoreStatesAreProven, OutboxFollowsTask
  <1>6. task'[o] = "ai_handoff_pending"
    BY <1>2, <1>3 DEF QueueKnows, RowsKnow, RowsTyped, OutboxFollowsTask
  <1>7. DrainKnows'
    <2>1. worker'.at \in {"activate", "binding"} /\ worker'.op = o /\ ~ Busy
      BY <1>2 DEF QueueKnows, DrainKnows, RunIsQueued, WorkerRecs
    <2>2. worker' \in WorkerRecs
      BY <1>2 DEF QueueKnows, DrainKnows, WorkerRecs, WorkerSteps
    <2>3. \A p \in Ops : task[p] # "none" => task'[p] # "none"
      BY <1>2 DEF QueueKnows, RowsKnow, RowsTyped
    <2>4. WorkerKnows'
      BY <1>2, <1>6, <2>1, <2>3 DEF QueueKnows, DrainKnows, WorkerKnows, WorkerRecs
    <2>5. RunIsQueued'
      BY <1>1, <2>1 DEF RunIsQueued
    <2> QED
      BY <2>2, <2>4, <2>5 DEF DrainKnows
  <1> QED
    BY <1>1, <1>4, <1>5, <1>7 DEF QueueKnows, RowsKnow

\* The binding is published for a row that exists.
LEMMA PublishBindingKeeps ==
  ASSUME QueueKnows, NEW o \in Ops, PublishBinding(o)
  PROVE  QueueKnows'
  <1>1. StorageKnows' /\ UNCHANGED <<proof, journal, run>> /\ Busy' = Busy
    BY SameStorage DEF QueueKnows, PublishBinding
  <1>2. /\ worker.at = "binding" /\ worker.op = o
        /\ worker' = [worker EXCEPT !.at = "activate"]
        /\ UNCHANGED <<task, live, order, deriv, crashes>>
        /\ handoff' = [handoff EXCEPT ![o] = "binding_published"]
    BY DEF PublishBinding, Working, Proceed
  <1>3. task[o] = "ai_handoff_pending"
    BY <1>2 DEF QueueKnows, DrainKnows, WorkerKnows
  <1>4. RowsTyped' /\ OrderKnows'
    BY <1>2, <1>3 DEF QueueKnows, RowsKnow, RowsTyped, OrderKnows, Listed, HandoffStates
  <1>5. NoEarlyDerivation' /\ CoreStatesAreProven' /\ OutboxFollowsTask'
    BY <1>1, <1>2, <1>3 DEF QueueKnows, RowsKnow, RowsTyped, NoEarlyDerivation,
                            CoreStatesAreProven, OutboxFollowsTask
  <1>6. DrainKnows'
    BY <1>1, <1>2 DEF QueueKnows, DrainKnows, WorkerRecs, WorkerSteps, WorkerKnows,
                      RunIsQueued
  <1> QED
    BY <1>1, <1>4, <1>5, <1>6 DEF QueueKnows, RowsKnow

\* The derivation is released together with the last state of handoff and task.
LEMMA ActivateDerivationKeeps ==
  ASSUME QueueKnows, NEW o \in Ops, ActivateDerivation(o)
  PROVE  QueueKnows'
  <1>1. StorageKnows' /\ UNCHANGED <<proof, journal, run>> /\ Busy' = Busy
    BY SameStorage DEF QueueKnows, ActivateDerivation
  <1>2. PICK state \in {"pending", "authorization_required"} :
          /\ worker.at = "activate" /\ worker.op = o /\ Onward
          /\ task' = [task EXCEPT ![o] = "completed"]
          /\ UNCHANGED <<live, order, crashes>>
          /\ handoff' = [handoff EXCEPT ![o] = "q2_activated"]
          /\ deriv' = [deriv EXCEPT ![o] = state]
    BY DEF ActivateDerivation, Working, SetTask
  <1>3. task[o] = "ai_handoff_pending"
    BY <1>2 DEF QueueKnows, DrainKnows, WorkerKnows
  <1>4. RowsTyped' /\ OrderKnows'
    BY <1>2, <1>3 DEF QueueKnows, RowsKnow, RowsTyped, OrderKnows, Listed, HandoffStates,
                      TaskStates, DerivationStates
  <1>5. NoEarlyDerivation' /\ CoreStatesAreProven' /\ OutboxFollowsTask'
    BY <1>1, <1>2, <1>3 DEF QueueKnows, RowsKnow, RowsTyped, NoEarlyDerivation,
                            CoreStatesAreProven, OutboxFollowsTask
  <1>6. Resting
    BY <1>2, OnwardRests DEF QueueKnows, DrainKnows, WorkerKnows
  <1>7. ~ Busy'
    BY <1>1, <1>2 DEF QueueKnows, DrainKnows, RunIsQueued
  <1>8. DrainKnows'
    BY <1>2, <1>6, <1>7, RestKnows DEF QueueKnows, RowsKnow, RowsTyped
  <1> QED
    BY <1>1, <1>4, <1>5, <1>8 DEF QueueKnows, RowsKnow

\* A handoff that failed is marked for retry; its task keeps its state.
LEMMA HandoffFailsKeeps ==
  ASSUME QueueKnows, NEW o \in Ops, HandoffFails(o)
  PROVE  QueueKnows'
  <1>1. StorageKnows' /\ UNCHANGED <<proof, journal, run>> /\ Busy' = Busy
    BY SameStorage DEF QueueKnows, HandoffFails
  <1>2. /\ worker.at \in {"binding", "activate"} /\ worker.op = o /\ Onward
        /\ UNCHANGED <<task, live, order, deriv, crashes>>
        /\ handoff' = [handoff EXCEPT ![o] = "retry_required"]
    BY DEF HandoffFails, Working
  <1>3. task[o] = "ai_handoff_pending"
    BY <1>2 DEF QueueKnows, DrainKnows, WorkerKnows
  <1>4. RowsTyped' /\ OrderKnows'
    BY <1>2, <1>3 DEF QueueKnows, RowsKnow, RowsTyped, OrderKnows, Listed, HandoffStates
  <1>5. NoEarlyDerivation' /\ CoreStatesAreProven' /\ OutboxFollowsTask'
    BY <1>1, <1>2, <1>3 DEF QueueKnows, RowsKnow, RowsTyped, NoEarlyDerivation,
                            CoreStatesAreProven, OutboxFollowsTask
  <1>6. Resting
    BY <1>2, OnwardRests DEF QueueKnows, DrainKnows, WorkerKnows
  <1>7. ~ Busy'
    BY <1>1, <1>2 DEF QueueKnows, DrainKnows, RunIsQueued
  <1>8. DrainKnows'
    BY <1>2, <1>6, <1>7, RestKnows DEF QueueKnows
  <1> QED
    BY <1>1, <1>4, <1>5, <1>8 DEF QueueKnows, RowsKnow

\* An exception leaves the rows as they are.
LEMMA HandoffRaisesKeeps ==
  ASSUME QueueKnows, NEW o \in Ops, HandoffRaises(o)
  PROVE  QueueKnows'
  <1>1. StorageKnows' /\ UNCHANGED <<proof, journal, run>> /\ Busy' = Busy
    BY SameStorage DEF QueueKnows, HandoffRaises
  <1>2. /\ worker.at \in {"supersede", "handoff", "binding", "activate"} /\ Raise
        /\ UNCHANGED <<task, live, order, handoff, deriv, crashes>>
    BY DEF HandoffRaises, Working, tables
  <1>3. RowsKnow'
    BY <1>1, <1>2, SameRows DEF QueueKnows, RowsKnow, RowsTyped
  <1>4. DrainKnows'
    BY <1>1, <1>2, RaiseRests, RestKnows DEF QueueKnows, DrainKnows, RunIsQueued
  <1> QED
    BY <1>1, <1>3, <1>4 DEF QueueKnows

-----------------------------------------------------------------------------
(* recover_and_drain and the process *)

\* A trigger starts a scan of the journal.
LEMMA RecoverAndDrainKeeps ==
  ASSUME QueueKnows, RecoverAndDrain
  PROVE  QueueKnows'
  <1>1. /\ StartScan /\ worker' = [Asleep EXCEPT !.at = "scan", !.left = MaxTasks]
        /\ UNCHANGED <<task, live, order, handoff, deriv, crashes>>
    BY DEF RecoverAndDrain, tables
  <1>2. StorageKnows' /\ UNCHANGED <<proof, journal>> /\ ~ Busy'
    BY <1>1, ScanLeaves DEF QueueKnows
  <1>3. RowsKnow'
    BY <1>1, <1>2, SameRows DEF QueueKnows, RowsKnow, RowsTyped
  <1>4. DrainKnows'
    <2>1. /\ worker' \in WorkerRecs /\ worker'.at = "scan" /\ worker'.left = MaxTasks
          /\ worker'.list = {}
      <3>1. worker' = [at |-> "scan", op |-> None, own |-> None,
                       left |-> MaxTasks, list |-> {}]
        BY <1>1 DEF Asleep
      <3>2. MaxTasks \in 0..MaxTasks
        BY QueueAssumption
      <3> QED
        BY <3>1, <3>2 DEF WorkerRecs, WorkerSteps
    <2> QED
      BY <1>2, <2>1, QueueAssumption DEF DrainKnows, WorkerKnows, RunIsQueued
  <1> QED
    BY <1>2, <1>3, <1>4 DEF QueueKnows

\* The list of a recovery names tasks.
LEMMA JournalAuditedKeeps ==
  ASSUME QueueKnows, JournalAudited
  PROVE  QueueKnows'
  <1>1. /\ EndScan /\ worker.at = "scan"
        /\ worker' = [worker EXCEPT !.list = Recoverable,
                        !.at = IF Recoverable = {} THEN "claim" ELSE "recover"]
        /\ UNCHANGED <<task, live, order, handoff, deriv, crashes>>
    BY DEF JournalAudited, tables
  <1>2. StorageKnows' /\ UNCHANGED <<proof, journal>> /\ ~ Busy'
    BY <1>1, ScanLeaves DEF QueueKnows
  <1>3. RowsKnow'
    BY <1>1, <1>2, SameRows DEF QueueKnows, RowsKnow, RowsTyped
  <1>4. Recoverable \subseteq Ops /\ \A o \in Recoverable : task[o] # "none"
    BY DEF Recoverable
  <1>5. DrainKnows'
    BY <1>1, <1>2, <1>4 DEF QueueKnows, DrainKnows, WorkerRecs, WorkerSteps, WorkerKnows,
                            RunIsQueued
  <1> QED
    BY <1>2, <1>3, <1>5 DEF QueueKnows

\* One task of the list is advanced, sent back, or left to its claim.
LEMMA RecoverOneKeeps ==
  ASSUME QueueKnows, RecoverOne
  PROVE  QueueKnows'
  <1> DEFINE o == FirstOf(worker.list)
             rest == worker.list \ {o}
             step == IF rest = {} THEN "claim" ELSE "recover"
  <1>1. StorageKnows' /\ UNCHANGED <<proof, journal, run>> /\ Busy' = Busy
    BY SameStorage DEF QueueKnows, RecoverOne
  <1>2. worker.at = "recover" /\ UNCHANGED <<order, handoff, deriv, crashes>>
    BY DEF RecoverOne, Working
  <1>3. ~ Busy' /\ worker.left # 0 /\ worker \in WorkerRecs
    BY <1>1, <1>2 DEF QueueKnows, DrainKnows, RunIsQueued, WorkerKnows
  <1>4. o \in worker.list /\ o \in Ops
    <2>1. /\ worker.list # {} /\ worker.list \subseteq Ops
          /\ order \in Seq(Ops) /\ \A p \in worker.list : Listed(p)
      BY <1>2 DEF QueueKnows, DrainKnows, WorkerKnows, WorkerRecs, RowsKnow, RowsTyped,
                  OrderKnows
    <2> QED
      BY <2>1, FirstIsOne
  <1>5. \/ /\ task[o] = "processing" /\ journal[o].core /\ live' = live \ {o}
           /\ task' = [task EXCEPT ![o] = "core_committed"]
           /\ worker' = [worker EXCEPT !.at = HandoffStep(o), !.op = o, !.list = rest]
        \/ UNCHANGED <<task, live>> /\ Raise
        \/ /\ task[o] = "processing" /\ live' = live \ {o}
           /\ task' = [task EXCEPT ![o] = "retry_required"]
           /\ worker' = IF worker.left = 1 THEN Asleep
                        ELSE [worker EXCEPT !.left = @ - 1, !.list = rest, !.at = step]
        \/ /\ task[o] \in {"core_committed", "ai_handoff_pending"}
           /\ UNCHANGED <<task, live>>
           /\ worker' = [worker EXCEPT !.at = HandoffStep(o), !.op = o, !.list = rest]
        \/ /\ UNCHANGED <<task, live>>
           /\ worker' = [worker EXCEPT !.list = rest, !.at = step]
    BY DEF RecoverOne, SetTask, JournalProves
  <1> HIDE DEF o
  <1>6. CASE /\ task[o] = "processing" /\ journal[o].core /\ live' = live \ {o}
             /\ task' = [task EXCEPT ![o] = "core_committed"]
             /\ worker' = [worker EXCEPT !.at = HandoffStep(o), !.op = o, !.list = rest]
    <2>1. RowsKnow'
      BY <1>1, <1>2, <1>4, <1>6, ProcessedRows DEF QueueKnows, RowsKnow, RowsTyped
    <2>2. DrainKnows'
      BY <1>3, <1>4, <1>6 DEF QueueKnows, RowsKnow, RowsTyped, DrainKnows, WorkerRecs,
                        WorkerSteps, WorkerKnows, RunIsQueued, HandoffStep
    <2> QED
      BY <1>1, <2>1, <2>2 DEF QueueKnows
  <1>7. CASE UNCHANGED <<task, live>> /\ Raise
    <2>1. RowsKnow'
      BY <1>1, <1>2, <1>7, SameRows DEF QueueKnows, RowsKnow, RowsTyped
    <2>2. DrainKnows'
      BY <1>3, <1>7, RaiseRests, RestKnows DEF QueueKnows
    <2> QED
      BY <1>1, <2>1, <2>2 DEF QueueKnows
  <1>8. CASE /\ task[o] = "processing" /\ live' = live \ {o}
             /\ task' = [task EXCEPT ![o] = "retry_required"]
             /\ worker' = IF worker.left = 1 THEN Asleep
                          ELSE [worker EXCEPT !.left = @ - 1, !.list = rest, !.at = step]
    <2>1. RowsKnow'
      BY <1>1, <1>2, <1>4, <1>8, ProcessedRows DEF QueueKnows, RowsKnow, RowsTyped
    <2>2. Resting
      <3>1. CASE worker.left = 1
        BY <1>8, <3>1, RaiseRests DEF Raise
      <3>2. CASE worker.left # 1
        <4>1. worker' = [worker EXCEPT !.left = worker.left - 1, !.list = rest, !.at = step]
          BY <1>8, <3>2
        <4>2. worker.left - 1 \in 0..MaxTasks /\ worker.left - 1 # 0
          BY <1>3, <3>2, QueueAssumption DEF WorkerRecs
        <4> QED
          BY <1>3, <4>1, <4>2 DEF Resting, WorkerRecs, WorkerSteps
      <3> QED
        BY <3>1, <3>2
    <2>3. DrainKnows'
      BY <1>3, <1>4, <1>8, <2>2, RestKnows DEF QueueKnows, RowsKnow, RowsTyped
    <2> QED
      BY <1>1, <2>1, <2>3 DEF QueueKnows
  <1>9. CASE /\ task[o] \in {"core_committed", "ai_handoff_pending"}
             /\ UNCHANGED <<task, live>>
             /\ worker' = [worker EXCEPT !.at = HandoffStep(o), !.op = o, !.list = rest]
    <2>1. RowsKnow'
      BY <1>1, <1>2, <1>9, SameRows DEF QueueKnows, RowsKnow, RowsTyped
    <2>2. DrainKnows'
      BY <1>3, <1>4, <1>9
         DEF QueueKnows, DrainKnows, WorkerRecs, WorkerSteps, WorkerKnows,
                              RunIsQueued, HandoffStep
    <2> QED
      BY <1>1, <2>1, <2>2 DEF QueueKnows
  <1>10. CASE /\ UNCHANGED <<task, live>>
              /\ worker' = [worker EXCEPT !.list = rest, !.at = step]
    <2>1. RowsKnow'
      BY <1>1, <1>2, <1>10, SameRows DEF QueueKnows, RowsKnow, RowsTyped
    <2>2. Resting
      BY <1>3, <1>10 DEF Resting, WorkerRecs, WorkerSteps
    <2>3. DrainKnows'
      BY <1>3, <1>10, <2>2, RestKnows DEF QueueKnows
    <2> QED
      BY <1>1, <2>1, <2>3 DEF QueueKnows
  <1> QED
    BY <1>5, <1>6, <1>7, <1>8, <1>9, <1>10

\* The coordinator works under the drain that called it, or scans.
LEMMA StorageStepKeeps ==
  ASSUME QueueKnows, StorageStep
  PROVE  QueueKnows'
  <1>1. UNCHANGED <<task, live, order, handoff, deriv, crashes, worker>>
    BY DEF StorageStep, queue, tables
  <1>2. StorageKnows' /\ LeavesCore
    BY StorageStepLeaves DEF QueueKnows
  <1>3. \A o \in Ops : task[o] # "processing" => o # run.op \/ ~ Busy
    BY DEF QueueKnows, DrainKnows, RunIsQueued, WorkerKnows
  <1>4. RowsKnow'
    BY <1>1, <1>2, <1>3, SameRows DEF QueueKnows, RowsKnow, RowsTyped, LeavesCore
  <1>5. DrainKnows'
    BY <1>1, <1>2 DEF QueueKnows, DrainKnows, WorkerKnows, RunIsQueued, LeavesCore
  <1> QED
    BY <1>2, <1>4, <1>5 DEF QueueKnows

\* A start of the process scans the journal and touches no row.
LEMMA BootKeeps ==
  ASSUME QueueKnows, Boot
  PROVE  QueueKnows'
  <1>1. UNCHANGED <<task, live, order, handoff, deriv, crashes, worker>>
    BY DEF Boot, queue, tables
  <1>2. StorageKnows' /\ UNCHANGED <<proof, journal>> /\ ~ Busy'
    BY ScanLeaves DEF QueueKnows, Boot
  <1>3. RowsKnow'
    BY <1>1, <1>2, SameRows DEF QueueKnows, RowsKnow, RowsTyped
  <1>4. DrainKnows'
    BY <1>1, <1>2 DEF QueueKnows, DrainKnows, WorkerKnows, RunIsQueued
  <1> QED
    BY <1>2, <1>3, <1>4 DEF QueueKnows

\* A crash takes the drain and the operation with it, and no row.
LEMMA ProcessCrashKeeps ==
  ASSUME QueueKnows, ProcessCrash
  PROVE  QueueKnows'
  <1>1. /\ UNCHANGED <<task, live, order, handoff, deriv>> /\ Crash /\ Raise
        /\ crashes < MaxCrashes /\ crashes' = crashes + 1
    BY DEF ProcessCrash, tables, Raise
  <1>2. StorageKnows' /\ UNCHANGED <<proof, journal>> /\ ~ Busy'
    BY <1>1, ScanLeaves DEF QueueKnows
  <1>3. live' \subseteq Ops /\ crashes' \in 0..MaxCrashes
    BY <1>1, QueueAssumption DEF QueueKnows, RowsKnow, RowsTyped
  <1>4. RowsKnow'
    BY <1>1, <1>2, <1>3, SameRows DEF QueueKnows
  <1>5. DrainKnows'
    BY <1>1, <1>2, RaiseRests, RestKnows DEF QueueKnows
  <1> QED
    BY <1>2, <1>4, <1>5 DEF QueueKnows

\* Q2 finishes a derivation that was released.
LEMMA DerivationDoneKeeps ==
  ASSUME QueueKnows, NEW o \in Ops, DerivationDone(o)
  PROVE  QueueKnows'
  <1>1. StorageKnows' /\ UNCHANGED <<proof, journal, run>> /\ Busy' = Busy
    BY SameStorage DEF QueueKnows, DerivationDone
  <1>2. /\ UNCHANGED <<task, live, order, handoff, worker, crashes>>
        /\ deriv[o] = "pending" /\ deriv' = [deriv EXCEPT ![o] = "completed"]
    BY DEF DerivationDone
  <1>3. RowsTyped' /\ OrderKnows'
    BY <1>2 DEF QueueKnows, RowsKnow, RowsTyped, OrderKnows, Listed, DerivationStates
  <1>4. NoEarlyDerivation' /\ CoreStatesAreProven' /\ OutboxFollowsTask'
    BY <1>1, <1>2 DEF QueueKnows, RowsKnow, RowsTyped, NoEarlyDerivation,
                      CoreStatesAreProven, OutboxFollowsTask
  <1>5. DrainKnows'
    BY <1>1, <1>2 DEF QueueKnows, DrainKnows, WorkerKnows, RunIsQueued
  <1> QED
    BY <1>1, <1>3, <1>4, <1>5 DEF QueueKnows, RowsKnow

-----------------------------------------------------------------------------
(* The theorem *)

\* The empty queue over empty stores satisfies the invariant.
LEMMA QueueKnowsInit ==
  ASSUME QInit
  PROVE  QueueKnows
  <1>1. TypeInv /\ Init
    BY InitTyped DEF QInit
  <1>2. StorageKnows
    BY <1>1 DEF StorageKnows, Init, CoreIsProved, Idle, Placed, Recovering, NoRecord
  <1>3. /\ task = [o \in Ops |-> "none"] /\ live = {} /\ order = <<>> /\ worker = Asleep
        /\ handoff = [o \in Ops |-> "none"] /\ deriv = [o \in Ops |-> "none"]
        /\ crashes = 0 /\ ~ Busy
    BY DEF QInit, Init, Busy, Idle
  <1>4. <<>> \in Seq(Ops)
    OBVIOUS
  <1>5. RowsKnow
    BY <1>3, <1>4, QueueAssumption DEF RowsKnow, RowsTyped, OrderKnows, NoEarlyDerivation,
       CoreStatesAreProven, OutboxFollowsTask, TaskStates, HandoffStates, DerivationStates
  <1>6. DrainKnows
    BY <1>3, QueueAssumption DEF DrainKnows, WorkerRecs, WorkerSteps, WorkerKnows,
                                 RunIsQueued, Asleep
  <1> QED
    BY <1>2, <1>5, <1>6 DEF QueueKnows

\* Every step of a drain, of the coordinator and of the process keeps it.
LEMMA QueueKnowsStep ==
  ASSUME QueueKnows, [QNext]_qvars
  PROVE  QueueKnows'
  <1>1. CASE WorkerStep
    BY <1>1, ClaimNextKeeps, NothingToClaimKeeps, JournalAuditedKeeps, RecoverOneKeeps,
       ExecuteKeeps, PayloadUnreadableKeeps, StorageReturnedKeeps,
       SupersedeDerivationsKeeps, EnsureHandoffKeeps, PublishBindingKeeps,
       ActivateDerivationKeeps, HandoffFailsKeeps, HandoffRaisesKeeps
       DEF WorkerStep, TaskStep
  <1>2. CASE StorageStep \/ Boot \/ RecoverAndDrain \/ ProcessCrash
    BY <1>2, StorageStepKeeps, BootKeeps, RecoverAndDrainKeeps, ProcessCrashKeeps
  <1>3. CASE \E o \in Ops : Submit(o) \/ ClaimExpires(o) \/ DerivationDone(o)
    BY <1>3, SubmitKeeps, ClaimExpiresKeeps, DerivationDoneKeeps
  <1>4. CASE UNCHANGED qvars
    <2>1. StorageKnows' /\ UNCHANGED <<proof, journal, run>> /\ Busy' = Busy
      BY <1>4, SameStorage DEF QueueKnows, qvars
    <2>2. UNCHANGED <<task, live, order, handoff, deriv, crashes, worker>>
      BY <1>4 DEF qvars, queue, tables
    <2>3. RowsKnow'
      BY <2>1, <2>2, SameRows DEF QueueKnows, RowsKnow, RowsTyped
    <2>4. DrainKnows'
      BY <2>1, <2>2 DEF QueueKnows, DrainKnows, WorkerKnows, RunIsQueued
    <2> QED
      BY <2>1, <2>3, <2>4 DEF QueueKnows
  <1> QED
    BY <1>1, <1>2, <1>3, <1>4 DEF QNext

\* Whatever crashes, expired claims, unreadable payloads and failed writes come
\* between the transactions of a task: Q2 is released only for an entry SQLite
\* proves, a recorded core commit is one the journal and SQLite prove, and the
\* outbox row is there exactly when the state of its task says so.
THEOREM QueueInvHolds == QSpec => []QueueInv
  <1>1. QInit => QueueKnows
    BY QueueKnowsInit
  <1>2. QueueKnows /\ [QNext]_qvars => QueueKnows'
    BY QueueKnowsStep
  <1>3. QueueKnows => QueueInv
    BY DEF QueueKnows, RowsKnow, RowsTyped, DrainKnows, WorkerRecs, QueueInv, QTypeOK
  <1> QED
    BY <1>1, <1>2, <1>3, PTL DEF QSpec

-----------------------------------------------------------------------------
(* The ingress queue of the run *)

\* The theorems about the two queues, for the instances of the run.
QP == INSTANCE QueueProofs WITH
  Docs <- {e1}, Workers <- IF ForLiveness THEN {w1} ELSE {w1, w2}, MaxAttempts <- 2,
  Cap <- IF ForLiveness THEN 6 ELSE 3, MaxPolicies <- 2,
  MaxDays <- IF ForLiveness THEN 1 ELSE 2, MaxCrashes <- IF ForLiveness THEN 1 ELSE 0,
  Deletes <- ~ForLiveness, Slow <- ~ForLiveness,
  doc <- d_doc, task <- d_task, order <- d_order, q1p <- d_q1p, resv <- d_resv,
  binding <- d_binding, policy <- d_policy, day <- d_day, lease <- d_lease,
  job <- d_job, crashes <- d_crashes,
  Requests <- {r1}, Callers <- {w1, w2}, MaxTasks <- 1,
  MaxCallCrashes <- IF ForLiveness THEN 0 ELSE 2, Denials <- TRUE,
  OtherTriggers <- ~ForLiveness,
  q_row <- i_row, q_order <- i_order, q_raw <- i_raw, q_space <- i_space,
  q_attempts <- i_attempts, q_docs <- i_docs, q_q1 <- i_q1, q_lease <- i_lease,
  q_job <- i_job, q_crashes <- i_crashes

\* Every behaviour of the run is a behaviour of the ingress queue.
LEMMA RunIsIngress == MCSpec => Q0!Spec
  <1>1. MCInit => Q0!Init
    BY DEF MCInit
  <1>2. [MCNext]_mcvars => [Q0!Next]_(Q0!vars)
    BY DEF MCNext, InContent, InIngress, InDerivation, ingress, mcvars, Q0!vars, Q0!store
  <1> QED
    BY <1>1, <1>2, PTL DEF MCSpec, Q0!Spec

\* The ingress queue of the run is the one the theorems are about.
LEMMA IngressIsQP == Q0!Spec => QP!I!Spec
  <1>1. Q0!Init => QP!I!Init
    BY DEF Q0!Init, QP!I!Init, Q0!Idle, QP!I!Idle
  <1>2. Q0!Next => QP!I!Next
    <2>1. \A w : Q0!Enqueue(w) => QP!I!Enqueue(w)
      BY DEF Q0!Enqueue, QP!I!Enqueue, Q0!At, QP!I!At, Q0!Goto, QP!I!Goto
    <2>2. \A w : Q0!EnsureTask(w) => QP!I!EnsureTask(w)
      BY DEF Q0!EnsureTask, QP!I!EnsureTask, Q0!At, QP!I!At, Q0!Goto, QP!I!Goto, Q0!Release,
             QP!I!Release
    <2>3. \A w : Q0!RecoverExpired(w) => QP!I!RecoverExpired(w)
      BY DEF Q0!RecoverExpired, QP!I!RecoverExpired, Q0!At, QP!I!At, Q0!RowsRecovered,
             QP!I!RowsRecovered, Q0!Expired, QP!I!Expired, Q0!Unclaimed, QP!I!Unclaimed,
             Q0!Goto, QP!I!Goto
    <2>4. \A w : Q0!ListRecoverable(w) => QP!I!ListRecoverable(w)
      BY DEF Q0!ListRecoverable, QP!I!ListRecoverable, Q0!At, QP!I!At, Q0!Recoverable,
             QP!I!Recoverable, Q0!store, QP!I!store
    <2>5. \A w : Q0!Visit(w) => QP!I!Visit(w)
      BY DEF Q0!Visit, QP!I!Visit, Q0!At, QP!I!At, Q0!Before, QP!I!Before, Q0!store, QP!I!store
    <2>a. Q0!Q1Advances => QP!I!Q1Advances
      BY DEF Q0!Q1Advances, QP!I!Q1Advances, Q0!Q1States, QP!I!Q1States, Q0!Q1Next,
             QP!I!Q1Next
    <2>b. Q0!RowsRecovered = QP!I!RowsRecovered
      BY DEF Q0!RowsRecovered, QP!I!RowsRecovered, Q0!Expired, QP!I!Expired,
             Q0!Unclaimed, QP!I!Unclaimed
    <2>6. \A w : Q0!SweepCommitted(w) => QP!I!SweepCommitted(w)
      BY <2>a DEF Q0!SweepCommitted, QP!I!SweepCommitted, Q0!Cardinality,
                  QP!I!Cardinality, Q0!Before, QP!I!Before, Q0!At,
                  QP!I!At, Q0!Idle, QP!I!Idle
    <2>7. \A w : Q0!Claim(w) => QP!I!Claim(w)
      BY <2>b DEF Q0!Claim, QP!I!Claim, Q0!At, QP!I!At, Q0!Acquire, QP!I!Acquire, Q0!Goto,
                  QP!I!Goto
    <2>8. \A w : Q0!NothingToDrain(w) => QP!I!NothingToDrain(w)
      BY <2>b DEF Q0!NothingToDrain, QP!I!NothingToDrain, Q0!At, QP!I!At, Q0!Return,
                  QP!I!Return, Q0!Release, QP!I!Release, Q0!Idle, QP!I!Idle
    <2>9. \A w : Q0!Rejoin(w) => QP!I!Rejoin(w)
      BY <2>b DEF Q0!Rejoin, QP!I!Rejoin, Q0!At, QP!I!At, Q0!Acquire, QP!I!Acquire, Q0!Goto,
                  QP!I!Goto
    <2>10. \A w : Q0!PrepareAttempt(w) => QP!I!PrepareAttempt(w)
      BY DEF Q0!PrepareAttempt, QP!I!PrepareAttempt, Q0!At, QP!I!At, Q0!Active, QP!I!Active,
             Q0!Goto, QP!I!Goto, Q0!Release, QP!I!Release, Q0!Raise, QP!I!Raise, Q0!Idle,
             QP!I!Idle, Q0!Disowned, QP!I!Disowned
    <2>11. \A w : Q0!ParseSucceeds(w) => QP!I!ParseSucceeds(w)
      BY DEF Q0!ParseSucceeds, QP!I!ParseSucceeds, Q0!At, QP!I!At, Q0!Goto, QP!I!Goto,
             Q0!store, QP!I!store
    <2>12. \A w : Q0!ParseFails(w) => QP!I!ParseFails(w)
      BY DEF Q0!ParseFails, QP!I!ParseFails, Q0!At, QP!I!At, Q0!Goto, QP!I!Goto, Q0!store,
             QP!I!store
    <2>13. \A w : Q0!WriteDocument(w) => QP!I!WriteDocument(w)
      BY DEF Q0!WriteDocument, QP!I!WriteDocument, Q0!At, QP!I!At, Q0!Acquire, QP!I!Acquire,
             Q0!Goto, QP!I!Goto
    <2>14. \A w : Q0!MarkPrepared(w) => QP!I!MarkPrepared(w)
      BY DEF Q0!MarkPrepared, QP!I!MarkPrepared, Q0!At, QP!I!At, Q0!Active, QP!I!Active,
             Q0!Unclaimed, QP!I!Unclaimed, Q0!Goto, QP!I!Goto, Q0!ClaimLost, QP!I!ClaimLost,
             Q0!Raise, QP!I!Raise, Q0!Idle, QP!I!Idle, Q0!Disowned, QP!I!Disowned
    <2>15. \A w : Q0!MarkRetry(w) => QP!I!MarkRetry(w)
      BY DEF Q0!MarkRetry, QP!I!MarkRetry, Q0!At, QP!I!At, Q0!Active, QP!I!Active,
             Q0!Unclaimed, QP!I!Unclaimed, Q0!Return, QP!I!Return, Q0!Release, QP!I!Release,
             Q0!Idle, QP!I!Idle, Q0!ClaimLost, QP!I!ClaimLost, Q0!Raise, QP!I!Raise,
             Q0!Disowned, QP!I!Disowned
    <2>16. \A w : Q0!MarkRejected(w) => QP!I!MarkRejected(w)
      BY DEF Q0!MarkRejected, QP!I!MarkRejected, Q0!At, QP!I!At, Q0!Acquire, QP!I!Acquire,
             Q0!Active, QP!I!Active, Q0!Unclaimed, QP!I!Unclaimed, Q0!Goto, QP!I!Goto,
             Q0!ClaimLost, QP!I!ClaimLost, Q0!Raise, QP!I!Raise, Q0!Idle, QP!I!Idle,
             Q0!Disowned, QP!I!Disowned
    <2>17. \A w : Q0!HandOver(w) => QP!I!HandOver(w)
      BY DEF Q0!HandOver, QP!I!HandOver, Q0!At, QP!I!At, Q0!Goto, QP!I!Goto, Q0!Raise,
             QP!I!Raise, Q0!Idle, QP!I!Idle, Q0!store, QP!I!store
    <2>18. \A w : Q0!MarkSubmitted(w) => QP!I!MarkSubmitted(w)
      BY DEF Q0!MarkSubmitted, QP!I!MarkSubmitted, Q0!At, QP!I!At, Q0!Goto, QP!I!Goto
    <2>19. \A w : Q0!DiscardRaw(w) => QP!I!DiscardRaw(w)
      BY DEF Q0!DiscardRaw, QP!I!DiscardRaw, Q0!At, QP!I!At, Q0!Goto, QP!I!Goto
    <2>20. \A w : Q0!DrainQ1(w) => QP!I!DrainQ1(w)
      BY <2>a DEF Q0!DrainQ1, QP!I!DrainQ1, Q0!At, QP!I!At, Q0!Goto, QP!I!Goto, Q0!Return,
                  QP!I!Return, Q0!Release, QP!I!Release, Q0!Idle, QP!I!Idle, Q0!Raise,
                  QP!I!Raise
    <2>21. \A w : Q0!DiscardTask(w) => QP!I!DiscardTask(w)
      BY DEF Q0!DiscardTask, QP!I!DiscardTask, Q0!At, QP!I!At, Q0!Return, QP!I!Return,
             Q0!Release, QP!I!Release, Q0!Idle, QP!I!Idle
    <2>22. \A w : Q0!WriteBusy(w) => QP!I!WriteBusy(w)
      BY DEF Q0!WriteBusy, QP!I!WriteBusy, Q0!Raise, QP!I!Raise, Q0!Idle, QP!I!Idle,
             Q0!Disowned, QP!I!Disowned
    <2>23. \A w : Q0!LaterCall(w) => QP!I!LaterCall(w)
      BY DEF Q0!LaterCall, QP!I!LaterCall, Q0!At, QP!I!At, Q0!Idle, QP!I!Idle, Q0!store,
             QP!I!store
    <2>24. \A w : Q0!Crash(w) => QP!I!Crash(w)
      BY DEF Q0!Crash, QP!I!Crash, Q0!At, QP!I!At, Q0!Raise, QP!I!Raise, Q0!Idle, QP!I!Idle,
             Q0!Disowned, QP!I!Disowned
    <2>25. \A w, r : Q0!Admit(w, r) => QP!I!Admit(w, r)
      BY DEF Q0!Admit, QP!I!Admit, Q0!At, QP!I!At, Q0!Acquire, QP!I!Acquire, Q0!Idle, QP!I!Idle
    <2>26. \A r : Q0!ClaimExpires(r) => QP!I!ClaimExpires(r)
      BY DEF Q0!ClaimExpires, QP!I!ClaimExpires
    <2>27. \A r : Q0!BackoffEnds(r) => QP!I!BackoffEnds(r)
      BY DEF Q0!BackoffEnds, QP!I!BackoffEnds
    <2>28. Q0!DeleteDrainsQ1 => QP!I!DeleteDrainsQ1
      BY <2>a DEF Q0!DeleteDrainsQ1, QP!I!DeleteDrainsQ1
    <2>29. \A w : Q0!Step(w) => QP!I!Step(w)
      BY <2>1, <2>2, <2>3, <2>4, <2>5, <2>6, <2>7, <2>8, <2>9, <2>10, <2>11, <2>12,
         <2>13, <2>14, <2>15, <2>16, <2>17, <2>18, <2>19, <2>20, <2>21, <2>22
      DEF Q0!Step, QP!I!Step
    <2> QED
      BY <2>23, <2>24, <2>25, <2>26, <2>27, <2>28, <2>29
      DEF Q0!Next, QP!I!Next
  <1>3. [Q0!Next]_(Q0!vars) => [QP!I!Next]_(QP!I!vars)
    BY <1>2 DEF Q0!vars, QP!I!vars, Q0!store, QP!I!store
  <1> QED
    BY <1>1, <1>3, PTL DEF Q0!Spec, QP!I!Spec

\* The constants of the run satisfy the assumption.
LEMMA IngressAssumed == QP!I!IngressAssumption
  BY QueuesAssumption DEF Q0!IngressAssumption, QP!I!IngressAssumption

\* In the run an accepted request is never lost, and is archived from one document.
THEOREM IngressInvLift == MCSpec => []IngressInv
  <1>1. QP!I!Spec => []QP!I!IngressInv
    BY QP!IngressInvHolds, IngressAssumed
  <1>2. QP!I!IngressInv => IngressInv
    BY DEF IngressInv, Q0!IngressInv, QP!I!IngressInv, Q0!ITypeOK, QP!I!ITypeOK,
       Q0!NothingLost, QP!I!NothingLost, Q0!OneDocument, QP!I!OneDocument,
       Q0!AttemptIsAlone, QP!I!AttemptIsAlone, Q0!Active, QP!I!Active, Q0!At, QP!I!At,
       Q0!RowStates, QP!I!RowStates, Q0!Q1States, QP!I!Q1States, Q0!Jobs, QP!I!Jobs,
       Q0!JobSteps, QP!I!JobSteps
  <1> QED
    BY RunIsIngress, IngressIsQP, <1>1, <1>2, PTL

\* No step of the run reopens what was settled.
THEOREM NoLateReopeningLift == MCSpec => NoLateReopening
  <1>1. QP!I!Spec => QP!I!NoLateReopening
    BY QP!NoLateReopeningHolds, IngressAssumed
  <1>2. QP!I!NoLateReopening => NoLateReopening
    BY DEF NoLateReopening, Q0!NoLateReopening, QP!I!NoLateReopening, Q0!vars, QP!I!vars,
       Q0!store, QP!I!store
  <1> QED
    BY RunIsIngress, IngressIsQP, <1>1, <1>2, PTL

-----------------------------------------------------------------------------
(* The derivations of the run *)

\* Every behaviour of the run is a behaviour of the derivations.
LEMMA RunIsDerivation == MCSpec => Q2!Spec
  <1>1. MCInit => Q2!Init
    BY DEF MCInit
  <1>2. [MCNext]_mcvars => [Q2!Next]_(Q2!vars)
    BY DEF MCNext, InContent, InIngress, InDerivation, derivation, mcvars, Q2!vars, Q2!rows
  <1> QED
    BY <1>1, <1>2, PTL DEF MCSpec, Q2!Spec

\* The derivations of the run are those the theorems are about.
LEMMA DerivationIsQP == Q2!Spec => QP!Spec
  <1>1. Q2!Init => QP!Init
    BY DEF Q2!Init, QP!Init, Q2!Tasks, QP!Tasks, Q2!NewTask, QP!NewTask, Q2!NoPatch,
           QP!NoPatch, Q2!Attempts, QP!Attempts, Q2!Unused, QP!Unused, Q2!Idle, QP!Idle
  <1>2. Q2!Next => QP!Next
    <2>a. Q2!Tasks = QP!Tasks
      BY DEF Q2!Tasks, QP!Tasks
    <2>b. Q2!Idle = QP!Idle
      BY DEF Q2!Idle, QP!Idle, Q2!NewTask, QP!NewTask, Q2!NoPatch, QP!NoPatch
    <2>c. Q2!Swept = QP!Swept
      BY DEF Q2!Swept, QP!Swept, Q2!Tasks, QP!Tasks, Q2!Ceiling, QP!Ceiling,
             Q2!Exhausted, QP!Exhausted, Q2!Recovered, QP!Recovered, Q2!Expired,
             QP!Expired
    <2>d. \A fp, d : Q2!Spent(fp, d) = QP!Spent(fp, d)
      BY DEF Q2!Spent, QP!Spent, Q2!Cardinality, QP!Cardinality, Q2!Counted, QP!Counted,
             Q2!Tasks, QP!Tasks, Q2!Attempts, QP!Attempts, Q2!Calls, QP!Calls
    <2>1. \A d : Q2!Archive(d) => QP!Archive(d)
      BY DEF Q2!Archive, QP!Archive
    <2>2. \A d : Q2!Delete(d) => QP!Delete(d)
      BY DEF Q2!Delete, QP!Delete
    <2>3. \A d : Q2!Q1Drains(d) => QP!Q1Drains(d)
      BY DEF Q2!Q1Drains, QP!Q1Drains, Q2!PatchDrained, QP!PatchDrained, Q2!rows, QP!rows
    <2>4. \A t : Q2!Handoff(t) => QP!Handoff(t)
      BY DEF Q2!Handoff, QP!Handoff, Q2!NonReady, QP!NonReady, Q2!Fenced, QP!Fenced,
          Q2!Tasks, QP!Tasks, Q2!IsArchive, QP!IsArchive, Q2!Doc, QP!Doc, Q2!Terminal,
          QP!Terminal
    <2>5. \A t : Q2!ClaimExpires(t) => QP!ClaimExpires(t)
      BY DEF Q2!ClaimExpires, QP!ClaimExpires, Q2!Abandoned, QP!Abandoned
    <2>6. \A t : Q2!BackoffEnds(t) => QP!BackoffEnds(t)
      BY DEF Q2!BackoffEnds, QP!BackoffEnds
    <2>7. Q2!SweepFirst => QP!SweepFirst
      BY <2>c DEF Q2!SweepFirst, QP!SweepFirst
    <2>8. \A w, t : Q2!Trigger(w, t) => QP!Trigger(w, t)
      BY <2>b DEF Q2!Trigger, QP!Trigger, Q2!At, QP!At, Q2!Waiting, QP!Waiting, Q2!rows,
               QP!rows
    <2>9. \A w : Q2!DrainOwnPatch(w) => QP!DrainOwnPatch(w)
      BY <2>b DEF Q2!DrainOwnPatch, QP!DrainOwnPatch, Q2!Doc, QP!Doc, Q2!At, QP!At,
               Q2!PatchDrained, QP!PatchDrained, Q2!Waiting, QP!Waiting, Q2!rows,
               QP!rows
    <2>10. \A w : Q2!Refresh(w) => QP!Refresh(w)
      BY <2>b DEF Q2!Refresh, QP!Refresh, Q2!Refreshed, QP!Refreshed, Q2!Replanned,
               QP!Replanned, Q2!PatchWaitsForAck, QP!PatchWaitsForAck, Q2!Doc, QP!Doc,
               Q2!Superseded, QP!Superseded, Q2!At, QP!At, Q2!Goto, QP!Goto
    <2>11. \A w : Q2!Claim(w) => QP!Claim(w)
      BY DEF Q2!Claim, QP!Claim, Q2!Tasks, QP!Tasks, Q2!Eligible, QP!Eligible,
             Q2!At, QP!At, Q2!Before, QP!Before, Q2!Replanned, QP!Replanned,
             Q2!Swept, QP!Swept, Q2!Ceiling, QP!Ceiling, Q2!Exhausted,
             QP!Exhausted, Q2!Recovered, QP!Recovered, Q2!Expired, QP!Expired,
             Q2!Idle, QP!Idle, Q2!NewTask, QP!NewTask, Q2!NoPatch, QP!NoPatch
    <2>12. \A w : Q2!CheckClaim(w) => QP!CheckClaim(w)
      BY DEF Q2!CheckClaim, QP!CheckClaim, Q2!NeedsPatch, QP!NeedsPatch,
             Q2!IsArchive, QP!IsArchive, Q2!Doc, QP!Doc, Q2!At, QP!At,
             Q2!MarkState, QP!MarkState, Q2!Live, QP!Live, Q2!Finished,
             QP!Finished, Q2!Done, QP!Done, Q2!PatchWaitsForAck,
             QP!PatchWaitsForAck, Q2!Acknowledged, QP!Acknowledged, Q2!Goto,
             QP!Goto, Q2!Idle, QP!Idle, Q2!NewTask, QP!NewTask, Q2!NoPatch,
             QP!NoPatch
    <2>13. \A w : Q2!RetryClaimed(w) => QP!RetryClaimed(w)
      BY <2>b DEF Q2!RetryClaimed, QP!RetryClaimed, Q2!At, QP!At, Q2!NonReady, QP!NonReady,
               Q2!MarkState, QP!MarkState, Q2!Live, QP!Live, Q2!Finished, QP!Finished,
               Q2!Done, QP!Done
    <2>14. \A w : Q2!Reserve(w) => QP!Reserve(w)
      BY DEF Q2!Reserve, QP!Reserve, Q2!Spent, QP!Spent, Q2!Cardinality,
             QP!Cardinality, Q2!Counted, QP!Counted, Q2!Tasks, QP!Tasks,
             Q2!Attempts, QP!Attempts, Q2!NeedsLLM, QP!NeedsLLM,
             Q2!NeedsPatch, QP!NeedsPatch, Q2!IsArchive, QP!IsArchive,
             Q2!Calls, QP!Calls, Q2!At, QP!At, Q2!Live, QP!Live, Q2!Done,
             QP!Done, Q2!NonReady, QP!NonReady, Q2!MarkState, QP!MarkState,
             Q2!Finished, QP!Finished, Q2!Unused, QP!Unused, Q2!Goto, QP!Goto,
             Q2!Idle, QP!Idle, Q2!NewTask, QP!NewTask, Q2!NoPatch, QP!NoPatch
    <2>15. \A w : Q2!CallLLM(w) => QP!CallLLM(w)
      BY <2>b DEF Q2!CallLLM, QP!CallLLM, Q2!At, QP!At, Q2!Goto, QP!Goto, Q2!GotoFail,
               QP!GotoFail, Q2!rows, QP!rows
    <2>16. \A w : Q2!RecordPatch(w) => QP!RecordPatch(w)
      BY <2>b DEF Q2!RecordPatch, QP!RecordPatch, Q2!At, QP!At, Q2!Live, QP!Live,
               Q2!GotoFail, QP!GotoFail
    <2>17. \A w : Q2!SubmitPatch(w) => QP!SubmitPatch(w)
      BY <2>b DEF Q2!SubmitPatch, QP!SubmitPatch, Q2!Doc, QP!Doc, Q2!At, QP!At,
               Q2!PatchDrained, QP!PatchDrained, Q2!Goto, QP!Goto, Q2!GotoFail,
               QP!GotoFail, Q2!rows, QP!rows
    <2>18. \A w : Q2!AckPatch(w) => QP!AckPatch(w)
      BY <2>b DEF Q2!AckPatch, QP!AckPatch, Q2!At, QP!At, Q2!Acknowledged, QP!Acknowledged,
               Q2!Live, QP!Live, Q2!Doc, QP!Doc, Q2!Goto, QP!Goto, Q2!GotoFail,
               QP!GotoFail
    <2>19. \A w : Q2!Embed(w) => QP!Embed(w)
      BY <2>b DEF Q2!Embed, QP!Embed, Q2!At, QP!At, Q2!IndexReady, QP!IndexReady, Q2!Goto,
               QP!Goto, Q2!GotoFail, QP!GotoFail, Q2!rows, QP!rows
    <2>20. \A w : Q2!Publish(w) => QP!Publish(w)
      BY <2>b DEF Q2!Publish, QP!Publish, Q2!At, QP!At, Q2!Live, QP!Live, Q2!Goto, QP!Goto,
               Q2!GotoFail, QP!GotoFail, Q2!rows, QP!rows
    <2>21. \A w : Q2!Settle(w) => QP!Settle(w)
      BY <2>b DEF Q2!Settle, QP!Settle, Q2!At, QP!At, Q2!Live, QP!Live,
               Q2!CloseReservation, QP!CloseReservation, Q2!Closed, QP!Closed,
               Q2!Started, QP!Started, Q2!Reservation, QP!Reservation, Q2!Goto, QP!Goto,
               Q2!GotoFail, QP!GotoFail, Q2!rows, QP!rows
    <2>22. \A w : Q2!MarkCompleted(w) => QP!MarkCompleted(w)
      BY <2>b DEF Q2!MarkCompleted, QP!MarkCompleted, Q2!At, QP!At, Q2!MarkState,
               QP!MarkState, Q2!Live, QP!Live, Q2!Finished, QP!Finished, Q2!Done,
               QP!Done
    <2>23. \A w : Q2!Fail(w) => QP!Fail(w)
      BY <2>b DEF Q2!Fail, QP!Fail, Q2!At, QP!At, Q2!Reservation, QP!Reservation,
               Q2!CloseReservation, QP!CloseReservation, Q2!Closed, QP!Closed,
               Q2!Started, QP!Started, Q2!Live, QP!Live, Q2!Goto, QP!Goto, Q2!rows,
               QP!rows
    <2>24. \A w : Q2!FailMark(w) => QP!FailMark(w)
      BY <2>b DEF Q2!FailMark, QP!FailMark, Q2!At, QP!At, Q2!IndexReady, QP!IndexReady,
               Q2!NonReady, QP!NonReady, Q2!MarkState, QP!MarkState, Q2!Live, QP!Live,
               Q2!Finished, QP!Finished, Q2!Done, QP!Done
    <2>25. \A w : Q2!WriteBusy(w) => QP!WriteBusy(w)
      BY <2>b DEF Q2!WriteBusy, QP!WriteBusy, Q2!GotoFail, QP!GotoFail, Q2!rows, QP!rows
    <2>26. \A w : Q2!Crash(w) => QP!Crash(w)
      BY <2>b DEF Q2!Crash, QP!Crash, Q2!At, QP!At, Q2!Done, QP!Done, Q2!rows, QP!rows
    <2>27. Q2!ChangePolicy => QP!ChangePolicy
      BY DEF Q2!ChangePolicy, QP!ChangePolicy, Q2!rows, QP!rows
    <2>28. Q2!Approve => QP!Approve
      BY DEF Q2!Approve, QP!Approve, Q2!rows, QP!rows
    <2>29. Q2!NextDay => QP!NextDay
      BY DEF Q2!NextDay, QP!NextDay, Q2!rows, QP!rows
    <2>30. \A w : Q2!Step(w) => QP!Step(w)
      BY <2>9, <2>10, <2>11, <2>12, <2>13, <2>14, <2>15, <2>16, <2>17, <2>18, <2>19,
         <2>20, <2>21, <2>22, <2>23, <2>24, <2>25
      DEF Q2!Step, QP!Step
    <2> QED
      BY <2>a, <2>1, <2>2, <2>3, <2>4, <2>5, <2>6, <2>7, <2>8, <2>26, <2>27, <2>28,
         <2>29, <2>30
      DEF Q2!Next, QP!Next
  <1>3. [Q2!Next]_(Q2!vars) => [QP!Next]_(QP!vars)
    BY <1>2 DEF Q2!vars, QP!vars, Q2!rows, QP!rows
  <1> QED
    BY <1>1, <1>3, PTL DEF Q2!Spec, QP!Spec

\* The constants of the run satisfy the assumption.
LEMMA DerivationAssumed == QP!DerivationAssumption
  BY QueuesAssumption
  DEF Q2!DerivationAssumption, QP!DerivationAssumption, Q2!IsFiniteSet, QP!IsFiniteSet

\* In the run no day exceeds its cap, and completed archives carry their summary.
THEOREM DerivationInvLift == MCSpec => []DerivationInv
  <1>1. QP!Spec => []QP!DerivationInv
    BY QP!DerivationInvHolds, DerivationAssumed
  <1>2. QP!DerivationInv => DerivationInv
    <2>1. QP!DTypeOK => Q2!DTypeOK
      BY DEF Q2!DTypeOK, QP!DTypeOK, Q2!Revisions, QP!Revisions, Q2!Tasks, QP!Tasks,
             Q2!TaskStates, QP!TaskStates, Q2!Attempts, QP!Attempts, Q2!Policies,
             QP!Policies, Q2!JobSteps, QP!JobSteps
    <2>2. QP!ChargesWithinCap => Q2!ChargesWithinCap
      BY DEF Q2!ChargesWithinCap, QP!ChargesWithinCap, Q2!Policies, QP!Policies,
             Q2!Cardinality, QP!Cardinality, Q2!Made, QP!Made, Q2!Tasks, QP!Tasks,
             Q2!Attempts, QP!Attempts, Q2!Calls, QP!Calls
    <2>3. QP!CompletedIsDerived => Q2!CompletedIsDerived
      BY DEF Q2!CompletedIsDerived, QP!CompletedIsDerived, Q2!Tasks, QP!Tasks,
             Q2!IsArchive, QP!IsArchive, Q2!Doc, QP!Doc
    <2> QED
      BY <2>1, <2>2, <2>3 DEF DerivationInv, Q2!DerivationInv, QP!DerivationInv
  <1> QED
    BY RunIsDerivation, DerivationIsQP, <1>1, <1>2, PTL

\* In the run a live claim is its worker's alone, and what it publishes is final.
THEOREM ClaimsAreFencedLift == MCSpec => ClaimsAreFenced
  <1>1. QP!Spec => QP!ClaimsAreFenced
    BY QP!ClaimsAreFencedHolds, DerivationAssumed
  <1>2. QP!ClaimsAreFenced => ClaimsAreFenced
    BY DEF ClaimsAreFenced, Q2!ClaimsAreFenced, QP!ClaimsAreFenced, Q2!LiveClaimIsExclusive,
           QP!LiveClaimIsExclusive, Q2!Tasks, QP!Tasks, Q2!Doc, QP!Doc,
           Q2!FinalSourceOnly, QP!FinalSourceOnly, Q2!At, QP!At, Q2!IsArchive,
           QP!IsArchive, Q2!vars, QP!vars, Q2!rows, QP!rows
  <1> QED
    BY RunIsDerivation, DerivationIsQP, <1>1, <1>2, PTL

=============================================================================
