------------------------ MODULE EmbeddingGeneration ------------------------
(***************************************************************************)
(* Generations of the embedding index:                                     *)
(* src/src/runtime/embedding_lifecycle.py and runtime_snapshot.py.         *)
(*                                                                         *)
(* A rebuild is planned from an inspection, confirmed, and executed under  *)
(* the write lease: it builds a private stage, moves it into a directory   *)
(* of its own and flips the pointer in the runtime snapshot by compare and *)
(* swap.  Commits of the source, the user's editor, other writers of the   *)
(* snapshot and readers run beside it, and any of them may die.            *)
(*                                                                         *)
(* The source digest is the number of the last commit; a document that the *)
(* user edits by hand makes the projection drift, and it cannot be read.   *)
(* A contract is provider, endpoint, model and dimension; a generation id  *)
(* is drawn at random, and a collision is a draw of a used one.            *)
(***************************************************************************)
EXTENDS Naturals, FiniteSets

CONSTANTS
    Writers,      \* processes that commit, rebuild and initialise
    Readers,
    Gens,         \* generation ids
    Contracts,
    MaxCommits,   \* bound: commits of the source
    MaxEdits,     \* bound: edits of config.yaml and of a document by hand
    MaxFailures,  \* bound: steps of a rebuild that fail
    MaxCrashes,   \* bound: deaths of a writer
    Forced,       \* the values of force a caller plans with
    Collisions,   \* whether a used generation id may be drawn
    None

Commits == 0..MaxCommits

\* What the snapshot can say of the index, once it says something.
Extensions == [state : {"nonready", "ready"}, digest : Commits, contract : Contracts,
               active : Gens \cup {None}, previous : Gens \cup {None},
               retained : SUBSET Gens]

\* What an instance must satisfy; the modules that instantiate it assume it.
EmbeddingAssumption ==
    /\ {MaxCommits, MaxEdits, MaxFailures, MaxCrashes} \subseteq Nat
    /\ Collisions \in BOOLEAN /\ Forced \subseteq BOOLEAN
    /\ Contracts # {} /\ None \notin Writers \cup Gens \cup Contracts
    /\ None \notin Extensions

VARIABLES
    source,    \* number of the last commit
    drift,     \* Markdown and SQLite disagree: capture raises
    config,    \* config.yaml: its revision and the contract it configures
    snapshot,  \* local.yaml: the contract of the R2 base, and the extension
    gens,      \* gens[g]: the directory of generation g
    lease,
    job,       \* job[w]: what a writer is doing
    reader,    \* reader[r]: what a reader is doing
    intents,   \* generations with an activation_intent in the audit log
    ever,      \* history: generations the pointer has named
    refused,   \* history: generations whose execution reported a failure
    edits, failures, crashes

budgets == <<edits, failures, crashes>>
vars == <<source, drift, config, snapshot, gens, lease, job, reader, intents,
          ever, refused, budgets>>

IndexStates == {"repair_required", "rebuild_required", "initial", "nonready", "ready"}
JobSteps == {"idle", "planned", "checked", "build", "recheck", "reserve", "move",
             "intent", "flip", "complete", "failed", "nonready"}

NoDirectory == [state |-> "absent", source |-> 0, contract |-> None]
\* A written extension; the fields of the pointer keep None until a rebuild.
NewExtension == [state |-> "nonready", digest |-> 0, contract |-> None,
                 active |-> None, previous |-> None, retained |-> {}]

-----------------------------------------------------------------------------
(* Inspection *)

\* _validate_manifest
ValidGeneration(g, contract) ==
    /\ g # None
    /\ gens[g].state = "whole" /\ gens[g].contract = contract

\* The answer of inspect_embedding_index, for a configuration, a snapshot and a
\* captured source.  Two answers have one revision when they are equal.
Answer(state, snap, src, cfg, pointer) ==
    [state |-> state, snapshot |-> snap, source |-> src, config |-> cfg,
     active |-> IF pointer THEN snap.ext.active ELSE None,
     previous |-> IF pointer THEN snap.ext.previous ELSE None]

InspectedAs(snap, src, cfg) ==
    LET ext == snap.ext
        ready == ext # None /\ ext.state = "ready"
    IN CASE snap.base # cfg.contract -> Answer("rebuild_required", snap, src, cfg, FALSE)
         [] snap.base = cfg.contract /\ ext = None ->
              Answer(IF src = 0 THEN "initial" ELSE "rebuild_required", snap, src, cfg, FALSE)
         [] snap.base = cfg.contract /\ ext # None /\ ~ ready ->
              Answer(IF ext.contract # cfg.contract \/ ext.digest # src
                     THEN "rebuild_required" ELSE "nonready", snap, src, cfg, FALSE)
         [] snap.base = cfg.contract /\ ready ->
              IF ext.contract # cfg.contract \/ ext.digest # src
              THEN Answer("rebuild_required", snap, src, cfg, TRUE)
              ELSE IF ~ ValidGeneration(ext.active, cfg.contract)
              THEN Answer("repair_required", snap, src, cfg, FALSE)
              ELSE IF gens[ext.active].source # src
              THEN Answer("rebuild_required", snap, src, cfg, TRUE)
              ELSE Answer("ready", snap, src, cfg, TRUE)

\* The contract is that of the Config object a process has loaded, the revision
\* is that of the file as it is now.
Loaded(contract) == [rev |-> config.rev, contract |-> contract]
Inspection(contract) ==
    IF drift THEN Answer("repair_required", snapshot, None, Loaded(contract), FALSE)
    ELSE InspectedAs(snapshot, source, Loaded(contract))

-----------------------------------------------------------------------------
Idle == [at |-> "idle", plan |-> None, current |-> None, id |-> None, stage |-> NoDirectory]
IdleReader == [at |-> "idle", contract |-> None, snap |-> None, source |-> 0, bound |-> None]

EGTypeOK ==
    /\ source \in Commits /\ drift \in BOOLEAN
    /\ config \in [rev : 0..MaxEdits, contract : Contracts]
    /\ snapshot.base \in Contracts \cup {None}
    /\ snapshot.ext \in Extensions \cup {None}
    /\ \A g \in Gens : gens[g].state \in {"absent", "partial", "whole"}
    /\ lease \in Writers \cup {None}
    /\ \A w \in Writers :
          /\ job[w].at \in JobSteps
          /\ (lease = w) <=> job[w].at \notin {"idle", "planned", "checked"}
    /\ \A r \in Readers : reader[r].at \in {"idle", "read", "captured", "bound"}
    /\ intents \cup ever \cup refused \subseteq Gens

Init ==
    /\ source = 0 /\ drift = FALSE
    /\ config \in [rev : {0}, contract : Contracts]
    /\ snapshot = [base |-> None, ext |-> None]
    /\ gens = [g \in Gens |-> NoDirectory]
    /\ lease = None
    /\ job = [w \in Writers |-> Idle]
    /\ reader = [r \in Readers |-> IdleReader]
    /\ intents = {} /\ ever = {} /\ refused = {}
    /\ edits = 0 /\ failures = 0 /\ crashes = 0

At(w, step) == job[w].at = step
Goto(w, step) == job' = [job EXCEPT ![w].at = step]
GoIdle(w) == job' = [job EXCEPT ![w] = Idle]
\* A failure that ends in the audit of the operation.
Failing(w) == failures < MaxFailures /\ failures' = failures + 1 /\ Goto(w, "failed")
\* A failure before there is a directory of its own.
GiveUp(w) == job' = [job EXCEPT ![w].at = "failed", ![w].id = None]
world == <<source, drift, config>>
history == <<intents, ever, refused>>

-----------------------------------------------------------------------------
(* The world around a rebuild *)

\* The user edits config.yaml: another contract, or only a key.
EditConfig ==
    /\ edits < MaxEdits
    /\ edits' = edits + 1
    /\ config' \in [rev : {config.rev + 1}, contract : Contracts]
    /\ UNCHANGED <<source, drift, snapshot, gens, lease, job, reader, history,
                   failures, crashes>>

\* The user edits a document by hand, and a repair or a second edit undoes it.
EditDocument ==
    /\ \/ ~ drift /\ edits < MaxEdits /\ edits' = edits + 1
       \/ drift /\ UNCHANGED edits
    /\ drift' = ~ drift
    /\ UNCHANGED <<source, config, snapshot, gens, lease, job, reader, history,
                   failures, crashes>>

\* The R2 lifecycle publishes its base once, merged into what is there.
WriteBase(w) ==
    /\ At(w, "idle") /\ lease = None
    /\ snapshot.base = None
    /\ snapshot' = [snapshot EXCEPT !.base = config.contract]
    /\ UNCHANGED <<world, gens, lease, job, reader, history, budgets>>

\* Q1' commits under the lease and publishes a binding that is not ready.
Commit(w) ==
    /\ At(w, "idle") /\ lease = None
    /\ ~ drift /\ source < MaxCommits
    /\ source' = source + 1
    /\ lease' = w
    /\ Goto(w, "nonready")
    /\ UNCHANGED <<drift, config, snapshot, gens, reader, history, budgets>>

\* Mutant of MergedNonReady: the extension is replaced instead of merged.
ReplacedNonReady(ext, contract) ==
    [NewExtension EXCEPT !.digest = source, !.contract = contract]

\* snapshot.merged: what the new extension does not name stays.
MergedNonReady(ext, contract) ==
    [(IF ext = None THEN NewExtension ELSE ext) EXCEPT
        !.state = "nonready", !.digest = source, !.contract = contract]

\* publish_embedding_nonready_binding, which raises without a base or a source.
PublishNonReady(w) ==
    /\ At(w, "nonready")
    /\ IF snapshot.base = config.contract /\ ~ drift
       THEN snapshot' = [snapshot EXCEPT !.ext = MergedNonReady(@, config.contract)]
       ELSE UNCHANGED snapshot
    /\ lease' = None
    /\ GoIdle(w)
    /\ UNCHANGED <<world, gens, reader, history, budgets>>

-----------------------------------------------------------------------------
(* A rebuild *)

\* Mutant of Plannable: only what is missing is planned for.
PlannableMissing(answer, force) ==
    \/ answer.state \in {"initial", "rebuild_required"}
    \/ answer.state = "ready" /\ force

\* plan_embedding_rebuild
Plannable(answer, force) ==
    /\ answer.state # "repair_required"
    /\ answer.snapshot.base = answer.config.contract
    /\ answer.state = "ready" => force

Plan(w) ==
    \E force \in Forced :
        LET answer == Inspection(config.contract)
        IN /\ At(w, "idle")
           /\ Plannable(answer, force)
           /\ job' = [job EXCEPT ![w] = [Idle EXCEPT !.at = "planned",
                         !.plan = [answer |-> answer, force |-> force]]]
           /\ UNCHANGED <<world, snapshot, gens, lease, reader, history, budgets>>

PlannedContract(w) == job[w].plan.answer.config.contract

\* Mutant of PlanMatches: an index that can be planned for is good enough.
PlannableStill(w) ==
    Plannable(Inspection(PlannedContract(w)), job[w].plan.force)

\* _canonical_plan_matches
PlanMatches(w) == Inspection(PlannedContract(w)) = job[w].plan.answer

\* execute_embedding_rebuild: once before the lease ...
CheckPlan(w) ==
    /\ At(w, "planned")
    /\ IF PlanMatches(w) THEN Goto(w, "checked") ELSE GoIdle(w)
    /\ UNCHANGED <<world, snapshot, gens, lease, reader, history, budgets>>

\* ... and once under it; a lease that is taken is write_busy.
TakeLease(w) ==
    /\ At(w, "checked")
    /\ IF lease = None /\ PlanMatches(w)
       THEN /\ lease' = w
            /\ job' = [job EXCEPT ![w].at = "build",
                                  ![w].current = Inspection(PlannedContract(w))]
       ELSE GoIdle(w) /\ UNCHANGED lease
    /\ UNCHANGED <<world, snapshot, gens, reader, history, budgets>>

\* The vectors of the captured records, the manifest, a fresh id and the strict
\* readonly open; the provider or the stage may fail.
Build(w) ==
    /\ At(w, "build")
    /\ \/ \E g \in Gens :
             /\ Collisions \/ gens[g].state = "absent"
             /\ job' = [job EXCEPT ![w].at = "recheck", ![w].id = g,
                           ![w].stage = [state |-> "whole",
                                         source |-> job[w].current.source,
                                         contract |-> PlannedContract(w)]]
             /\ UNCHANGED failures
       \/ Failing(w)
    /\ UNCHANGED <<world, snapshot, gens, lease, reader, history, edits, crashes>>

\* Source, configuration or pointer changed while the provider was at work?
Recheck(w) ==
    /\ At(w, "recheck")
    /\ IF Inspection(PlannedContract(w)) = job[w].current
       THEN Goto(w, "reserve") ELSE GiveUp(w)
    /\ UNCHANGED <<world, snapshot, gens, lease, reader, history, budgets>>

\* mkdir without exist_ok: a collision is stale.
Reserve(w) ==
    /\ At(w, "reserve")
    /\ IF gens[job[w].id].state = "absent"
       THEN /\ gens' = [gens EXCEPT ![job[w].id] = [NoDirectory EXCEPT !.state = "partial"]]
            /\ Goto(w, "move")
       ELSE GiveUp(w) /\ UNCHANGED gens
    /\ UNCHANGED <<world, snapshot, lease, reader, history, budgets>>

\* The leaves are moved one by one and the whole is validated again.
Move(w) ==
    /\ At(w, "move")
    /\ \/ /\ gens' = [gens EXCEPT ![job[w].id] = job[w].stage]
          /\ Goto(w, "intent")
          /\ UNCHANGED failures
       \/ Failing(w) /\ UNCHANGED gens
    /\ UNCHANGED <<world, snapshot, lease, reader, history, edits, crashes>>

\* The durable record before the irreversible step.
Intent(w) ==
    /\ At(w, "intent")
    /\ \/ /\ intents' = intents \cup {job[w].id}
          /\ Goto(w, "flip")
          /\ UNCHANGED failures
       \/ Failing(w) /\ UNCHANGED intents
    /\ UNCHANGED <<world, snapshot, gens, lease, reader, ever, refused, edits, crashes>>

\* _pointer_update
Flipped(w) ==
    LET old == IF snapshot.ext = None THEN NewExtension ELSE snapshot.ext
        previous == job[w].current.active
    IN [state |-> "ready", digest |-> job[w].current.source,
        contract |-> PlannedContract(w), active |-> job[w].id, previous |-> previous,
        retained |-> old.retained \cup {job[w].id}
                     \cup (IF previous = None THEN {} ELSE {previous})]

\* RuntimeSnapshotStore.publish: the bytes are compared right before the
\* replacement; the checks and the read after it may fail.
Flip(w) ==
    /\ At(w, "flip")
    /\ \/ /\ snapshot = job[w].current.snapshot
          /\ snapshot' = [snapshot EXCEPT !.ext = Flipped(w)]
          /\ ever' = ever \cup {job[w].id}
          /\ \/ Goto(w, "complete") /\ UNCHANGED failures
             \/ Failing(w)
       \/ /\ snapshot # job[w].current.snapshot
          /\ Goto(w, "failed")
          /\ UNCHANGED <<snapshot, ever, failures>>
    /\ UNCHANGED <<world, gens, lease, reader, intents, refused, edits, crashes>>

\* The terminal audit record, or the mark that it is pending: a success.
Complete(w) ==
    /\ At(w, "complete")
    /\ lease' = None
    /\ GoIdle(w)
    /\ UNCHANGED <<world, snapshot, gens, reader, history, budgets>>

\* audit.fail_runtime_error, and the typed error for the caller.
ReportFailure(w) ==
    /\ At(w, "failed")
    /\ refused' = refused \cup ({job[w].id} \ {None})
    /\ lease' = None
    /\ GoIdle(w)
    /\ UNCHANGED <<world, snapshot, gens, reader, intents, ever, budgets>>

Crash(w) ==
    /\ crashes < MaxCrashes
    /\ crashes' = crashes + 1
    /\ ~ At(w, "idle")
    /\ GoIdle(w)
    /\ lease' = IF lease = w THEN None ELSE lease
    /\ UNCHANGED <<world, snapshot, gens, reader, history, edits, failures>>

-----------------------------------------------------------------------------
(* resolve_embedding_index_binding, without the lease, and the read that keeps *)
(* its binding                                                                 *)

ReadSnapshot(r) ==
    /\ reader[r].at = "idle"
    /\ reader' = [reader EXCEPT ![r] = [IdleReader EXCEPT !.at = "read",
                     !.contract = config.contract, !.snap = snapshot]]
    /\ UNCHANGED <<world, snapshot, gens, lease, job, history, budgets>>

Capture(r) ==
    /\ reader[r].at = "read"
    /\ reader' = [reader EXCEPT ![r] =
          IF drift THEN IdleReader ELSE [@ EXCEPT !.at = "captured", !.source = source]]
    /\ UNCHANGED <<world, snapshot, gens, lease, job, history, budgets>>

Bindable(r) ==
    InspectedAs(reader[r].snap, reader[r].source, Loaded(reader[r].contract)).state = "ready"

Resolve(r) ==
    /\ reader[r].at = "captured"
    /\ reader' = [reader EXCEPT ![r] =
          IF Bindable(r) THEN [@ EXCEPT !.at = "bound", !.bound = reader[r].snap.ext.active]
          ELSE IdleReader]
    /\ UNCHANGED <<world, snapshot, gens, lease, job, history, budgets>>

FinishRead(r) ==
    /\ reader[r].at = "bound"
    /\ reader' = [reader EXCEPT ![r] = IdleReader]
    /\ UNCHANGED <<world, snapshot, gens, lease, job, history, budgets>>

Rebuilding(w) ==
    \/ CheckPlan(w) \/ TakeLease(w) \/ Build(w) \/ Recheck(w) \/ Reserve(w) \/ Move(w)
    \/ Intent(w) \/ Flip(w) \/ Complete(w) \/ ReportFailure(w) \/ PublishNonReady(w)

Next ==
    \/ \E w \in Writers :
          WriteBase(w) \/ Commit(w) \/ Plan(w) \/ Rebuilding(w) \/ Crash(w)
    \/ \E r \in Readers : ReadSnapshot(r) \/ Capture(r) \/ Resolve(r) \/ FinishRead(r)
    \/ EditConfig \/ EditDocument

Spec == Init /\ [][Next]_vars

\* Whoever has a plan executes it, and an index that is not ready is planned for
\* again by the next call.
Fairness ==
    /\ \A w \in Writers : WF_vars(Rebuilding(w)) /\ WF_vars(WriteBase(w))
    /\ SF_vars(\E w \in Writers : TakeLease(w) /\ lease = None)
    /\ SF_vars(\E w \in Writers : Plan(w) /\ Inspection(config.contract).state # "ready")
    /\ WF_vars(drift /\ EditDocument)

FairSpec == Spec /\ Fairness

-----------------------------------------------------------------------------
(* Properties *)

\* A pointer that says ready names a whole generation of its own source digest
\* and contract, after any crash, collision or failed move.
PointerIsWhole ==
    snapshot.ext # None /\ snapshot.ext.state = "ready" =>
        gens[snapshot.ext.active] = [state |-> "whole", source |-> snapshot.ext.digest,
                                     contract |-> snapshot.ext.contract]

\* "the previous generation remains in retained_generations": no binding that is
\* not ready and no later rebuild forgets a generation that has been active.
EverActiveIsRetained == ever # {} => ever \subseteq snapshot.ext.retained

\* The activation_intent is in the audit log of every generation that has been
\* active, so that what a dead writer did can be reconciled.
ActiveHasIntent == ever \subseteq intents

\* A read serves a whole generation of the source it captured, until it ends,
\* whatever is built, activated or hidden meanwhile.
BoundIsWhole ==
    \A r \in Readers :
        reader[r].at = "bound" =>
            gens[reader[r].bound] = [state |-> "whole", source |-> reader[r].source,
                                     contract |-> reader[r].contract]

\* Whole pointers, retained generations, logged intents and whole reads.
GenerationInv == /\ EGTypeOK /\ PointerIsWhole /\ EverActiveIsRetained
                 /\ ActiveHasIntent /\ BoundIsWhole

\* What is activated is what was confirmed: the source of the plan, over the
\* pointer of the plan, and not older than the last commit.
ConfirmedIsActivated ==
    [][\A w \in Writers :
          At(w, "flip") /\ snapshot' # snapshot =>
              /\ job[w].plan.answer.source = snapshot'.ext.digest
              /\ job[w].plan.answer.snapshot = snapshot
              /\ snapshot'.ext.digest = source]_vars

\* "leave the active pointer ... unchanged": an execution that reports a failure
\* has not activated its generation.
FailureMeansNoActivation ==
    ever \cap refused = {}

\* Once commits, edits, failures and deaths are over the index becomes ready
\* again, unless the configured contract is not that of the base.
IndexBecomesReady ==
    []<>(Inspection(config.contract).state = "ready" \/ config.contract # snapshot.base)

=============================================================================
