----------------------------- MODULE PatchSaga -----------------------------
(***************************************************************************)
(* The third operation of src/storage/coordinator.py: apply_ai_patch       *)
(* replaces the Markdown primary of an entry by a patched one and moves    *)
(* its SQLite row to the patched revision.  The old primary waits in a     *)
(* quarantine slot of the operation until both halves are committed; a     *)
(* journal record is written before and after every effect, and recovery   *)
(* after a crash decides from the record, the files and the proof.         *)
(*                                                                         *)
(* One entry is modelled.  A file is its fingerprint: the Base file, the   *)
(* file patch o published (named o), or a version the user wrote.  The     *)
(* revision of a row is named by the patch that produced it.               *)
(***************************************************************************)
EXTENDS Naturals, FiniteSets

CONSTANTS Patches, Base, None,
          Faults,      \* the kinds of failure considered
          Peers,       \* TRUE: Q1' drains past a record recovery left blocked
          MaxEdits, MaxCrashes, MaxFaults, MaxCalls

FaultKinds == {"journal", "moved", "published", "sqlite", "probe", "purge"}

\* What an instance must satisfy; the modules that instantiate it assume it.
PSAssumption ==
  /\ Base \notin Patches /\ None \notin Patches \cup {Base}
  /\ (Patches \cup {Base, None}) \cap Nat = {}
  /\ Faults \subseteq FaultKinds /\ Peers \in BOOLEAN
  /\ \A n \in {MaxEdits, MaxCrashes, MaxFaults, MaxCalls} : n \in Nat

VARIABLES primary,   \* the file at the path of the entry
          slot,      \* slot[o]: the file in the quarantine slot of o
          row,       \* the revision of the SQLite row
          proof,     \* patches with a row in r4_content_operation_commits
          journal, run, blocked,
          expected,  \* the revision each patch was derived from
          count

vars == <<primary, slot, row, proof, journal, run, blocked, expected, count>>
stores == <<primary, slot, row, proof>>

Versions == 1 .. MaxEdits
Files == {Base} \cup Patches \cup Versions
Checkpoints == {"none", "created", "planned", "quarantined", "primary",
                "compensating", "index"}
NoRecord == [status |-> "none", cp |-> "none", prev |-> None, core |-> FALSE]
Idle == [op |-> None, at |-> "idle", status |-> "none"]

Init == /\ primary = Base /\ slot = [o \in Patches |-> None]
        /\ row = Base /\ proof = {}
        /\ journal = [o \in Patches |-> NoRecord]
        /\ run = Idle /\ blocked = {}
        /\ expected \in [Patches -> {Base} \cup Patches]
        /\ \A o \in Patches : expected[o] # o
        /\ count = [edits |-> 0, crashes |-> 0, faults |-> 0, calls |-> 0]

At(o, step) == run.op = o /\ run.at = step
Goto(o, step) == run' = [op |-> o, at |-> step, status |-> "none"]
Ends(o, status) == run' = [op |-> o, at |-> "finish", status |-> status]
Once(e) == count' = [count EXCEPT ![e] = @ + 1]
Fault(kind) == kind \in Faults /\ count.faults < MaxFaults /\ Once("faults")
Writes(o, rec) == journal' = [journal EXCEPT ![o] = rec]
Rec(o) == journal[o]

\* The revision a Markdown file projects to; the user's never match one.
Rev(f) == IF f \in Versions THEN None ELSE f

Interrupted(o) == Rec(o).status \in {"in_progress", "repair_required"}

-----------------------------------------------------------------------------
(* apply_ai_patch                                                          *)

\* A task is drained again under its operation id while its journal record
\* proves no commit; the first record of the call replaces the old one.
Start(o) ==
  /\ run = Idle /\ count.calls < MaxCalls /\ Once("calls")
  /\ ~ Rec(o).core
  /\ \A q \in Patches : Interrupted(q) => Peers /\ q \in blocked
  /\ Writes(o, [NoRecord EXCEPT !.status = "in_progress", !.cp = "created"])
  /\ Goto(o, "plan")
  /\ blocked' = blocked \ {o}
  /\ UNCHANGED <<stores, expected>>

\* A commit proved before is reported again; a row, or a Markdown file, of
\* another revision than the patch was derived from refuses it.
Plan(o) ==
  /\ At(o, "plan")
  /\ IF o \in proof
       THEN /\ Ends(o, "ready") /\ Writes(o, [Rec(o) EXCEPT !.core = TRUE])
     ELSE IF row = expected[o] /\ Rev(primary) = expected[o]
       THEN /\ Writes(o, [Rec(o) EXCEPT !.cp = "planned", !.prev = primary])
            /\ Goto(o, "quarantine")
     ELSE Ends(o, "rejected") /\ UNCHANGED journal
  /\ UNCHANGED <<stores, blocked, expected, count>>

\* The plan could not be recorded: nothing was touched yet.
PlanUnrecorded(o) ==
  /\ At(o, "plan") /\ Fault("journal") /\ o \notin proof
  /\ Ends(o, "rejected")
  /\ UNCHANGED <<stores, journal, blocked, expected>>

\* Only the planned file is moved, and only into an empty slot.
Quarantine(o) ==
  /\ At(o, "quarantine")
  /\ IF primary = Rec(o).prev /\ slot[o] = None
       THEN /\ slot' = [slot EXCEPT ![o] = primary] /\ primary' = None
            /\ Goto(o, "record_quarantine")
       ELSE Ends(o, "rejected") /\ UNCHANGED <<primary, slot>>
  /\ UNCHANGED <<row, proof, journal, blocked, expected, count>>

\* The check after the move failed and the file could not be moved back; the
\* call has no quarantined file to speak of and takes it for a refusal.
QuarantineStuck(o) ==
  /\ At(o, "quarantine") /\ Fault("moved")
  /\ primary = Rec(o).prev /\ slot[o] = None
  /\ slot' = [slot EXCEPT ![o] = primary] /\ primary' = None
  /\ Ends(o, "rejected")
  /\ UNCHANGED <<row, proof, journal, blocked, expected>>

RecordQuarantine(o) ==
  /\ At(o, "record_quarantine")
  /\ Writes(o, [Rec(o) EXCEPT !.cp = "quarantined"])
  /\ Goto(o, "publish")
  /\ UNCHANGED <<stores, blocked, expected, count>>

\* Nothing is ever published over a file that appeared meanwhile.
Publish(o) ==
  /\ At(o, "publish")
  /\ IF primary = None THEN primary' = o /\ Goto(o, "record_primary")
     ELSE Goto(o, "restore") /\ UNCHANGED primary
  /\ UNCHANGED <<slot, row, proof, journal, blocked, expected, count>>

\* Published, but not verified: the call does not know its own file.
PublishUnverified(o) ==
  /\ At(o, "publish") /\ Fault("published") /\ primary = None
  /\ primary' = o /\ Goto(o, "restore")
  /\ UNCHANGED <<slot, row, proof, journal, blocked, expected>>

RecordPrimary(o) ==
  /\ At(o, "record_primary")
  /\ Writes(o, [Rec(o) EXCEPT !.cp = "primary"])
  /\ Goto(o, "sqlite")
  /\ UNCHANGED <<stores, blocked, expected, count>>

\* One transaction: the row at its new revision, and the proof.
Commit(o) ==
  /\ At(o, "sqlite")
  /\ IF row = expected[o]
       THEN row' = o /\ proof' = proof \cup {o} /\ Goto(o, "record_index")
       ELSE Goto(o, "record_compensating") /\ UNCHANGED <<row, proof>>
  /\ UNCHANGED <<primary, slot, journal, blocked, expected, count>>

\* The commit raised: the probe finds the proof, or finds the predecessor.
CommitRaises(o) ==
  /\ At(o, "sqlite") /\ Fault("sqlite") /\ row = expected[o]
  /\ \/ row' = o /\ proof' = proof \cup {o} /\ Goto(o, "record_index")
     \/ UNCHANGED <<row, proof>> /\ Goto(o, "record_compensating")
  /\ UNCHANGED <<primary, slot, journal, blocked, expected>>

\* The commit raised, and so did the probe: nothing is touched.
CommitUnknown(o) ==
  /\ At(o, "sqlite") /\ Fault("probe") /\ row = expected[o]
  /\ \/ row' = o /\ proof' = proof \cup {o}
     \/ UNCHANGED <<row, proof>>
  /\ Ends(o, "repair_required")
  /\ UNCHANGED <<primary, slot, journal, blocked, expected>>

RecordCompensating(o) ==
  /\ At(o, "record_compensating")
  /\ \/ Writes(o, [Rec(o) EXCEPT !.cp = "compensating"])
     \/ "journal" \in Faults /\ UNCHANGED journal
  /\ Goto(o, "undo")
  /\ UNCHANGED <<stores, blocked, expected, count>>

\* A journal write before the commit failed: what was done is undone.
RecordFails(o) ==
  /\ Fault("journal")
  /\ \/ At(o, "record_quarantine") /\ Goto(o, "restore")
     \/ At(o, "record_primary") /\ Goto(o, "undo")
  /\ \/ UNCHANGED journal
     \/ Writes(o, [Rec(o) EXCEPT !.cp = IF run.at = "record_primary"
                                        THEN "primary" ELSE "quarantined"])
  /\ UNCHANGED <<stores, blocked, expected>>

\* Mutant of Undo: whatever is at the path is removed.
UndoAnyFile(o) ==
  /\ At(o, "undo")
  /\ primary' = None /\ Goto(o, "restore")
  /\ UNCHANGED <<slot, row, proof, journal, blocked, expected, count>>

\* Only the file this call published is removed; where nothing is left to
\* remove, the compensation of a failed commit gives up.
Undo(o) ==
  /\ At(o, "undo")
  /\ CASE primary = o -> primary' = None /\ Goto(o, "restore")
       [] primary = None /\ Rec(o).cp # "compensating" ->
            UNCHANGED primary /\ Goto(o, "restore")
       [] OTHER -> UNCHANGED primary /\ Ends(o, "repair_required")
  /\ UNCHANGED <<slot, row, proof, journal, blocked, expected, count>>

Restore(o) ==
  /\ At(o, "restore")
  /\ IF primary = None /\ slot[o] = Rec(o).prev
       THEN /\ primary' = slot[o] /\ slot' = [slot EXCEPT ![o] = None]
            /\ Ends(o, "rejected")
       ELSE UNCHANGED <<primary, slot>> /\ Ends(o, "repair_required")
  /\ UNCHANGED <<row, proof, journal, blocked, expected, count>>

\* The core is committed; when its record cannot be written, repair follows.
RecordIndex(o) ==
  /\ At(o, "record_index")
  /\ Writes(o, [Rec(o) EXCEPT !.cp = "index", !.core = TRUE])
  /\ Goto(o, "purge")
  /\ UNCHANGED <<stores, blocked, expected, count>>

RecordIndexFails(o) ==
  /\ At(o, "record_index") /\ Fault("journal")
  /\ Ends(o, "repair_required")
  /\ UNCHANGED <<stores, journal, blocked, expected>>

Purge(o) ==
  /\ At(o, "purge")
  /\ IF slot[o] = Rec(o).prev
       THEN slot' = [slot EXCEPT ![o] = None] /\ Ends(o, "ready")
       ELSE UNCHANGED slot /\ Ends(o, "degraded")
  /\ UNCHANGED <<primary, row, proof, journal, blocked, expected, count>>

PurgeFails(o) ==
  /\ At(o, "purge") /\ Fault("purge")
  /\ Ends(o, "degraded")
  /\ UNCHANGED <<stores, journal, blocked, expected>>

\* The terminal status joins the facts of the record.
Finish(o) ==
  /\ At(o, "finish")
  /\ Writes(o, [Rec(o) EXCEPT !.status = run.status,
                  !.core = @ \/ run.status \in {"ready", "degraded"}])
  /\ run' = Idle
  /\ UNCHANGED <<stores, blocked, expected, count>>

FinishFails(o) ==
  /\ At(o, "finish") /\ Fault("journal")
  /\ run' = Idle
  /\ UNCHANGED <<stores, journal, blocked, expected>>

-----------------------------------------------------------------------------
(* Recovery of an interrupted record.                                      *)

Probe(o) == IF o \in proof
              THEN IF row = o THEN "committed" ELSE "ambiguous"
              ELSE IF row = expected[o] THEN "absent" ELSE "ambiguous"

\* Mutant of Verdict: a patched file at the path means it was committed.
VerdictByFile(o) ==
  LET r == Rec(o) held == slot[o] = r.prev /\ slot[o] # None
  IN CASE r.cp = "created" -> "rejected"
       [] r.cp # "created" /\ Rev(primary) = o ->
            IF held THEN "degraded" ELSE "ready"
       [] r.cp # "created" /\ Rev(primary) # o /\ held /\ primary = None -> "restore"
       [] OTHER -> "block"

\* Every verdict rests on the recorded identities and on the proof alone.
Verdict(o) ==
  LET r == Rec(o)
      held == slot[o] = r.prev /\ slot[o] # None
      early == r.cp \in {"planned", "quarantined"}
  IN IF r.cp = "created" THEN "rejected"
     ELSE CASE Probe(o) = "ambiguous" -> "block"
            [] Probe(o) = "absent" ->
                 CASE held /\ primary = None -> "restore"
                   [] held /\ primary = o /\ ~early -> "undo"
                   [] ~held /\ Rev(primary) = expected[o] -> "rejected"
                   [] OTHER -> "block"
            [] Probe(o) = "committed" ->
                 CASE Rev(primary) # o \/ (early /\ held) -> "block"
                   [] OTHER -> IF held THEN "degraded" ELSE "ready"

\* Mutant of Resolve: a record nothing can be proved of is not reported.
ResolveSilently(o) ==
  /\ run = Idle /\ Interrupted(o) /\ o \notin blocked
  /\ Verdict(o) \in {"rejected", "ready", "degraded"}
  /\ run' = [op |-> o, at |-> "recover_write", status |-> Verdict(o)]
  /\ UNCHANGED <<stores, journal, blocked, expected, count>>

\* A record nothing can be proved of is left as it is and reported.
Resolve(o) ==
  /\ run = Idle /\ Interrupted(o) /\ o \notin blocked
  /\ LET v == Verdict(o) IN
       IF v = "block" THEN blocked' = blocked \cup {o} /\ UNCHANGED run
       ELSE /\ run' = IF v \in {"restore", "undo"}
                      THEN [op |-> o, status |-> "none",
                            at |-> IF v = "undo" THEN "recover_undo"
                                   ELSE "recover_restore"]
                      ELSE [op |-> o, at |-> "recover_write", status |-> v]
            /\ UNCHANGED blocked
  /\ UNCHANGED <<stores, journal, expected, count>>

RecoverUndo(o) ==
  /\ At(o, "recover_undo")
  /\ IF primary = o THEN /\ primary' = None /\ Goto(o, "recover_restore")
                         /\ UNCHANGED blocked
     ELSE run' = Idle /\ blocked' = blocked \cup {o} /\ UNCHANGED primary
  /\ UNCHANGED <<slot, row, proof, journal, expected, count>>

RecoverRestore(o) ==
  /\ At(o, "recover_restore")
  /\ IF primary = None /\ slot[o] = Rec(o).prev
       THEN /\ primary' = slot[o] /\ slot' = [slot EXCEPT ![o] = None]
            /\ run' = [op |-> o, at |-> "recover_write", status |-> "rejected"]
            /\ UNCHANGED blocked
       ELSE /\ run' = Idle /\ blocked' = blocked \cup {o}
            /\ UNCHANGED <<primary, slot>>
  /\ UNCHANGED <<row, proof, journal, expected, count>>

RecoverWrite(o) ==
  /\ At(o, "recover_write")
  /\ Writes(o, [Rec(o) EXCEPT !.status = run.status,
                  !.core = @ \/ run.status \in {"ready", "degraded"}])
  /\ run' = Idle
  /\ UNCHANGED <<stores, blocked, expected, count>>

-----------------------------------------------------------------------------
(* The user and crashes.                                                   *)

\* The user saves the file with an editor, or deletes it.
UserWrites == /\ count.edits < MaxEdits /\ Once("edits")
              /\ primary' \in {count.edits + 1, None} /\ primary' # primary
              /\ UNCHANGED <<slot, row, proof, journal, run, blocked, expected>>

Crash == /\ run # Idle /\ count.crashes < MaxCrashes /\ Once("crashes")
         /\ run' = Idle /\ blocked' = {}
         /\ UNCHANGED <<stores, journal, expected>>

-----------------------------------------------------------------------------
Runs(o) == \/ Plan(o) \/ PlanUnrecorded(o)
           \/ Quarantine(o) \/ QuarantineStuck(o)
           \/ RecordQuarantine(o) \/ Publish(o) \/ PublishUnverified(o)
           \/ RecordPrimary(o) \/ Commit(o) \/ CommitRaises(o)
           \/ CommitUnknown(o) \/ RecordCompensating(o) \/ RecordFails(o)
           \/ Undo(o) \/ Restore(o) \/ RecordIndex(o) \/ RecordIndexFails(o)
           \/ Purge(o) \/ PurgeFails(o) \/ Finish(o) \/ FinishFails(o)

Recovers(o) == \/ Resolve(o) \/ RecoverUndo(o) \/ RecoverRestore(o)
               \/ RecoverWrite(o)

Next == \/ \E o \in Patches : Start(o) \/ Runs(o) \/ Recovers(o)
        \/ UserWrites \/ Crash

Spec == Init /\ [][Next]_vars

\* A call and a recovery once begun run on, and recovery looks at each record.
FairSpec == /\ Spec
            /\ \A o \in Patches : WF_vars(Runs(o)) /\ WF_vars(Recovers(o))

-----------------------------------------------------------------------------
(* Properties.                                                             *)

\* Stores, records and the run have their types.
TypeOK ==
  /\ primary \in Files \cup {None}
  /\ slot \in [Patches -> Files \cup {None}]
  /\ row \in {Base} \cup Patches /\ proof \subseteq Patches
  /\ \A o \in Patches :
       /\ Rec(o).status \in {"none", "in_progress", "ready", "degraded",
                             "rejected", "repair_required"}
       /\ Rec(o).cp \in Checkpoints /\ Rec(o).prev \in Files \cup {None}
  /\ blocked \subseteq Patches

\* A refusal that permits a plain retry left nothing behind: no commit, and
\* nothing in the slot of the operation that its record no longer speaks of.
RejectedIsRetrySafe ==
  \A o \in Patches : Rec(o).status = "rejected" => o \notin proof /\ slot[o] = None

\* A reported commit has its proof, and an unproved one is never reported,
\* neither by the call nor by a recovery.
CommitsAreProved ==
  \A o \in Patches : Rec(o).core \/ Rec(o).status \in {"ready", "degraded"}
                       => o \in proof

\* While no call runs and no record is open, the Markdown file and the row
\* are of one revision, unless the user changed the file.
StoresAgreeAtRest ==
  (run = Idle /\ count.edits = 0 /\ \A o \in Patches : ~Interrupted(o))
    => Rev(primary) = row

\* The file at the path goes away only into a slot, by the hand of the user,
\* or as the unproved publication of a patch whose slot holds the old file.
NoFileIsLost ==
  [][primary # None /\ primary' # primary =>
       \/ count'.edits # count.edits
       \/ \E o \in Patches : \/ slot[o] = None /\ slot'[o] = primary
                             \/ /\ primary = o /\ o \notin proof
                                /\ slot[o] \notin {None, o}]_vars

\* A slot gives its file back to the path or keeps it until the patch that
\* filled it is proved.
OldPrimaryIsKept ==
  [][\A o \in Patches :
       slot[o] # None /\ slot'[o] = None => primary' = slot[o] \/ o \in proof]_vars

\* A patch is applied to the very revision it was derived from, and no two
\* patches of one revision are both applied, also after retries.
OneOfARevision ==
  \A o, q \in proof : expected[o] = expected[q] => o = q

\* Crashes alone leave one undecidable window: the patched file is in place
\* and its record is not.
OnlyPublicationBlocks ==
  (count.edits = 0 /\ count.faults = 0) =>
    \A o \in blocked : primary = o /\ Rec(o).cp = "quarantined"

\* What records, proofs and stores say of one another, with their types.
PatchInv == /\ TypeOK /\ CommitsAreProved /\ StoresAgreeAtRest /\ OneOfARevision
            /\ OnlyPublicationBlocks
\* Nothing of a file is lost on the way into a slot or out of it.
FilesAreKept == NoFileIsLost /\ OldPrimaryIsKept

\* An open record is decided, or reported as blocking.
RecordsAreDecided ==
  \A o \in Patches : Interrupted(o) ~> (~Interrupted(o) \/ o \in blocked)
=============================================================================
