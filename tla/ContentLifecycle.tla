-------------------------- MODULE ContentLifecycle --------------------------
(***************************************************************************)
(* The Q1' content queue: the durable tasks of                             *)
(* src/src/storage/content_lifecycle.py, drained by                        *)
(* src/src/application/r4_lifecycle.py through the StorageCoordinator.     *)
(*                                                                         *)
(* A request is an accepted task in SQLite.  A drain claims it, runs the   *)
(* storage operation under the operation id of the task, records the core  *)
(* commit the journal proves, and hands the entry over to Q2: an outbox    *)
(* row, a published embedding binding, an activated derivation.  Each of   *)
(* these is a transaction of its own, and a crash can come between any     *)
(* two; the next trigger recovers from the task and the journal.           *)
(*                                                                         *)
(* The task of an operation is named by its operation id.  The caller      *)
(* holds the write lease, so one drain runs at a time.                     *)
(***************************************************************************)
EXTENDS StorageCoordinator, Sequences

CONSTANTS
    MaxTasks,      \* max_tasks: results after which a drain returns
    MaxCrashes,    \* bound: crashes of the process
    ClaimsExpire,  \* whether a claim may run past its 120 seconds
    PayloadFails   \* whether a prepared document may be unreadable

ASSUME QueueAssumption ==
    /\ MaxTasks \in Nat \ {0}
    /\ MaxCrashes \in Nat
    /\ ClaimsExpire \in BOOLEAN
    /\ PayloadFails \in BOOLEAN

VARIABLES
    task,     \* task[o]: state of the content_mutation_tasks row
    live,     \* operations whose claim has not expired: claimed_until > now
    order,    \* the tasks in the order of created_at
    handoff,  \* handoff[o]: state of the content_ai_handoffs row
    deriv,    \* deriv[o]: state of the ai_derivation_tasks row
    worker,   \* the drain under way in memory
    crashes   \* crashes so far

tables == <<task, live, order, handoff, deriv>>
queue == <<tables, worker, crashes>>
qvars == <<vars, queue>>

TaskStates == {"none", "accepted", "processing", "core_committed",
               "ai_handoff_pending", "completed", "retry_required", "rejected"}
HandoffStates == {"none", "pending", "binding_published", "q2_activated",
                  "retry_required"}
DerivationStates == {"none", "blocked_handoff", "pending",
                     "authorization_required", "completed", "superseded"}
WorkerSteps == {"idle", "scan", "recover", "claim", "execute", "storage",
                "record", "supersede", "handoff", "binding", "activate"}

\* own is the task a submission drains for (None in recover_and_drain), left the
\* results it may still produce, list the recoverable tasks still to visit.
Asleep == [at |-> "idle", op |-> None, own |-> None, left |-> 0, list |-> {}]

QTypeOK ==
    /\ task \in [Ops -> TaskStates]
    /\ live \subseteq Ops
    /\ order \in Seq(Ops)
    /\ handoff \in [Ops -> HandoffStates]
    /\ deriv \in [Ops -> DerivationStates]
    /\ worker \in [at : WorkerSteps, op : Ops \cup {None}, own : Ops \cup {None},
                   left : 0..MaxTasks, list : SUBSET Ops]
    /\ crashes \in 0..MaxCrashes

QInit ==
    /\ Init
    /\ task = [o \in Ops |-> "none"]
    /\ live = {}
    /\ order = <<>>
    /\ handoff = [o \in Ops |-> "none"]
    /\ deriv = [o \in Ops |-> "none"]
    /\ worker = Asleep
    /\ crashes = 0

-----------------------------------------------------------------------------
(* Building blocks *)

Working(step) == boot = "up" /\ worker.at = step
Proceed(step) == worker' = [worker EXCEPT !.at = step]

SetTask(o, state) == task' = [task EXCEPT ![o] = state]

\* An exception leaves the drain: the rows stay as they are.
Raise == worker' = Asleep

\* One result more: on to the next task, or back to the caller.
Onward ==
    LET rest == worker.left - 1
        next == [worker EXCEPT !.op = None, !.left = rest,
                               !.at = IF worker.list = {} THEN "claim" ELSE "recover"]
    IN IF worker.own = None
       THEN worker' = IF rest = 0 THEN Asleep ELSE next
       ELSE \/ Raise
            \/ worker.op # worker.own /\ rest > 0 /\ worker' = next

\* ORDER BY created_at: the first of a set of tasks.
Position(o) == CHOOSE i \in 1..Len(order) : order[i] = o
FirstOf(S) == CHOOSE o \in S : \A p \in S : Position(o) <= Position(p)

Claimable == {o \in Ops : task[o] \in {"accepted", "retry_required"}}

\* Mutant of Recoverable: a claim its worker lost is nobody's concern.
UnclaimedOnly == {o \in Ops : task[o] \in {"accepted", "retry_required",
                                           "core_committed", "ai_handoff_pending"}}

Recoverable == {o \in Ops : task[o] \in {"accepted", "processing", "retry_required",
                                         "core_committed", "ai_handoff_pending"}}

\* _journal_proves_core_commit
JournalProves(o) == journal[o].core

\* The first handoff step of a task whose core commit is recorded.
HandoffStep(o) == IF o \in Deletes THEN "supersede" ELSE "handoff"

\* target_knowledge_id of the derivation of o
EntryOf(o) == IF o \in Archives THEN o ELSE target[o]

-----------------------------------------------------------------------------
(* Submission and claims *)

\* enqueue_prepared, then the drain of the new task.  created_at has a
\* resolution of one second and a random task id breaks ties.
Submit(o) ==
    /\ Working("idle")
    /\ task[o] = "none"
    /\ o \in Deletes => rows[target[o]] # None
    /\ SetTask(o, "accepted")
    /\ deriv' = [deriv EXCEPT ![o] = "blocked_handoff"]
    /\ \E i \in 0..Len(order) :
          order' = SubSeq(order, 1, i) \o <<o>> \o SubSeq(order, i + 1, Len(order))
    /\ worker' = [Asleep EXCEPT !.at = "claim", !.own = o, !.left = MaxTasks]
    /\ UNCHANGED <<vars, live, handoff, crashes>>

\* claim_next
ClaimNext ==
    LET o == FirstOf(Claimable)
    IN /\ Working("claim")
       /\ Claimable # {}
       /\ SetTask(o, "processing")
       /\ live' = live \cup {o}
       /\ worker' = [worker EXCEPT !.at = "execute", !.op = o]
       /\ UNCHANGED <<vars, order, handoff, deriv, crashes>>

NothingToClaim ==
    /\ Working("claim")
    /\ Claimable = {}
    /\ Raise
    /\ UNCHANGED <<vars, tables, crashes>>

\* The claim of a task that is still processing runs out.
ClaimExpires(o) ==
    /\ ClaimsExpire
    /\ task[o] = "processing"
    /\ o \in live
    /\ live' = live \ {o}
    /\ UNCHANGED <<vars, task, order, handoff, deriv, worker, crashes>>

\* _finish_claim: a claim that ran out raises instead.
FinishClaim(o, state) ==
    \/ /\ o \in live
       /\ SetTask(o, state)
       /\ live' = live \ {o}
       /\ Onward
    \/ /\ o \notin live
       /\ Raise
       /\ UNCHANGED <<task, live>>

\* Mutant of RecordCore: the result in memory is enough.
RecordCoreOnTrust(o) ==
    IF o \in live
    THEN /\ SetTask(o, "core_committed")
         /\ live' = live \ {o}
         /\ worker' = [worker EXCEPT !.at = HandoffStep(o), !.op = o]
    ELSE /\ Raise
         /\ UNCHANGED <<task, live>>

\* _record_core_from_journal and record_core_committed for a processing task
RecordCore(o) ==
    IF JournalProves(o) /\ o \in live
    THEN /\ SetTask(o, "core_committed")
         /\ live' = live \ {o}
         /\ worker' = [worker EXCEPT !.at = HandoffStep(o), !.op = o]
    ELSE /\ Raise
         /\ UNCHANGED <<task, live>>

-----------------------------------------------------------------------------
(* Execution of a claimed task *)

\* The payload is read and the coordinator called with the operation id of the
\* task: the same one at every attempt.
Execute(o) ==
    /\ Working("execute") /\ worker.op = o
    /\ Start(o)
    /\ Proceed("storage")
    /\ UNCHANGED <<tables, crashes>>

PayloadUnreadable(o) ==
    /\ PayloadFails
    /\ Working("execute") /\ worker.op = o
    /\ IF JournalProves(o) THEN RecordCore(o) ELSE FinishClaim(o, "retry_required")
    /\ UNCHANGED <<vars, order, handoff, deriv, crashes>>

\* The operation returned: rejected unless it says the core is committed.
StorageReturned(o) ==
    /\ Working("storage") /\ worker.op = o
    /\ run.at = "idle" /\ result.op = o
    /\ IF result.core THEN RecordCore(o) ELSE FinishClaim(o, "rejected")
    /\ UNCHANGED <<vars, order, handoff, deriv, crashes>>

-----------------------------------------------------------------------------
(* _advance_handoff *)

\* A committed delete retires the derivations of the entry it removed.
SupersedeDerivations(o) ==
    /\ Working("supersede") /\ worker.op = o
    /\ deriv' = [p \in Ops |->
                   IF p # o /\ EntryOf(p) = EntryOf(o)
                        /\ deriv[p] \in {"pending", "authorization_required"}
                   THEN "superseded" ELSE deriv[p]]
    /\ Proceed("handoff")
    /\ UNCHANGED <<vars, task, live, order, handoff, crashes>>

\* ensure_handoff inserts the outbox row once.
EnsureHandoff(o) ==
    /\ Working("handoff") /\ worker.op = o
    /\ handoff' = [handoff EXCEPT ![o] = IF @ = "none" THEN "pending" ELSE @]
    /\ SetTask(o, IF handoff[o] = "none" THEN "ai_handoff_pending" ELSE task[o])
    /\ Proceed(IF handoff[o] = "binding_published" THEN "activate" ELSE "binding")
    /\ UNCHANGED <<vars, live, order, deriv, crashes>>

\* The non-ready embedding binding is published, then mark_binding_published.
PublishBinding(o) ==
    /\ Working("binding") /\ worker.op = o
    /\ handoff' = [handoff EXCEPT ![o] = "binding_published"]
    /\ Proceed("activate")
    /\ UNCHANGED <<vars, task, live, order, deriv, crashes>>

\* activate_derivation; the automation policy decides whether Q2 may start.
ActivateDerivation(o) ==
    /\ Working("activate") /\ worker.op = o
    /\ \E state \in {"pending", "authorization_required"} :
          deriv' = [deriv EXCEPT ![o] = state]
    /\ handoff' = [handoff EXCEPT ![o] = "q2_activated"]
    /\ SetTask(o, "completed")
    /\ Onward
    /\ UNCHANGED <<vars, live, order, crashes>>

\* mark_handoff_retry: reading the policy, publishing or activating failed.
HandoffFails(o) ==
    /\ Working("binding") \/ Working("activate")
    /\ worker.op = o
    /\ handoff' = [handoff EXCEPT ![o] = "retry_required"]
    /\ Onward
    /\ UNCHANGED <<vars, task, live, order, deriv, crashes>>

\* Any other exception, a busy database for one, leaves the drain at once.
HandoffRaises(o) ==
    /\ \E step \in {"supersede", "handoff", "binding", "activate"} : Working(step)
    /\ worker.op = o
    /\ Raise
    /\ UNCHANGED <<vars, tables, crashes>>

-----------------------------------------------------------------------------
(* recover_and_drain *)

RecoverAndDrain ==
    /\ Working("idle")
    /\ StartScan
    /\ worker' = [Asleep EXCEPT !.at = "scan", !.left = MaxTasks]
    /\ UNCHANGED <<tables, crashes>>

\* The journal is audited; the recoverable tasks are listed.
JournalAudited ==
    /\ worker.at = "scan"
    /\ EndScan
    /\ worker' = [worker EXCEPT !.list = Recoverable,
                                !.at = IF Recoverable = {} THEN "claim" ELSE "recover"]
    /\ UNCHANGED <<tables, crashes>>

\* _recover_one, for the first task of the list
RecoverOne ==
    LET o == FirstOf(worker.list)
        rest == worker.list \ {o}
    IN /\ Working("recover")
       /\ \/ /\ task[o] = "processing" /\ JournalProves(o)
             /\ IF o \in live
                THEN /\ SetTask(o, "core_committed")
                     /\ live' = live \ {o}
                     /\ worker' = [worker EXCEPT !.at = HandoffStep(o), !.op = o,
                                                 !.list = rest]
                ELSE Raise /\ UNCHANGED <<task, live>>
          \/ /\ task[o] = "processing" /\ ~ JournalProves(o)
             /\ SetTask(o, "retry_required")
             /\ live' = live \ {o}
             /\ worker' = IF worker.left = 1 THEN Asleep
                          ELSE [worker EXCEPT !.left = @ - 1, !.list = rest,
                                  !.at = IF rest = {} THEN "claim" ELSE "recover"]
          \/ /\ task[o] \in {"core_committed", "ai_handoff_pending"}
             /\ worker' = [worker EXCEPT !.at = HandoffStep(o), !.op = o,
                                         !.list = rest]
             /\ UNCHANGED <<task, live>>
          \/ /\ task[o] \in {"accepted", "retry_required"}
             /\ worker' = [worker EXCEPT !.list = rest,
                             !.at = IF rest = {} THEN "claim" ELSE "recover"]
             /\ UNCHANGED <<task, live>>
       /\ UNCHANGED <<vars, order, handoff, deriv, crashes>>

-----------------------------------------------------------------------------
(* The process *)

StorageStep ==
    /\ \/ \E a \in Archives : ArchiveStep(a)
       \/ \E d \in Deletes : DeleteStep(d)
       \/ \E o \in Ops : Finish(o) \/ Resolve(o) \/ RecoverWrite(o)
    /\ UNCHANGED queue

\* bootstrap_runtime
Boot ==
    /\ \/ boot = "down" /\ StartScan
       \/ boot \in {"booting", "failing"} /\ EndScan
    /\ UNCHANGED queue

ProcessCrash ==
    /\ crashes < MaxCrashes
    /\ crashes' = crashes + 1
    /\ Crash
    /\ worker' = Asleep
    /\ UNCHANGED tables

\* Q2 finishes a derivation it was allowed to start.
DerivationDone(o) ==
    /\ deriv[o] = "pending"
    /\ deriv' = [deriv EXCEPT ![o] = "completed"]
    /\ UNCHANGED <<vars, task, live, order, handoff, worker, crashes>>

TaskStep(o) ==
    \/ Execute(o) \/ PayloadUnreadable(o) \/ StorageReturned(o)
    \/ SupersedeDerivations(o) \/ EnsureHandoff(o) \/ PublishBinding(o)
    \/ ActivateDerivation(o) \/ HandoffFails(o) \/ HandoffRaises(o)

WorkerStep ==
    \/ ClaimNext \/ NothingToClaim \/ JournalAudited \/ RecoverOne
    \/ \E o \in Ops : TaskStep(o)

QNext ==
    \/ WorkerStep \/ StorageStep \/ Boot \/ RecoverAndDrain \/ ProcessCrash
    \/ \E o \in Ops : Submit(o) \/ ClaimExpires(o) \/ DerivationDone(o)

QSpec == QInit /\ [][QNext]_qvars

\* A running process takes its steps, the user restarts one that is down,
\* requests keep coming (each is a trigger of recover_and_drain), and a handoff
\* step that is tried again and again succeeds in the end.
QFairness ==
    /\ WF_qvars(WorkerStep)
    /\ WF_qvars(StorageStep)
    /\ WF_qvars(Boot)
    /\ SF_qvars(RecoverAndDrain)
    /\ SF_qvars(\E o \in Ops : SupersedeDerivations(o))
    /\ SF_qvars(\E o \in Ops : EnsureHandoff(o))
    /\ SF_qvars(\E o \in Ops : PublishBinding(o))
    /\ SF_qvars(\E o \in Ops : ActivateDerivation(o))

QFairSpec == QSpec /\ QFairness

-----------------------------------------------------------------------------
(* Properties *)

\* Q2 never sees an entry before it is there: a derivation is released only
\* after its operation is proven in SQLite and its handoff and task are
\* recorded as done, whatever crashed and was retried on the way.
NoEarlyDerivation ==
    \A o \in Ops :
        deriv[o] \notin {"none", "blocked_handoff"} =>
            proof[o] # None /\ handoff[o] = "q2_activated" /\ task[o] = "completed"

\* A task says its core is committed only when SQLite proves it and the journal
\* record that recovery reads says so too.
CoreStatesAreProven ==
    \A o \in Ops :
        task[o] \in {"core_committed", "ai_handoff_pending", "completed"} =>
            proof[o] # None /\ journal[o].core

\* The outbox row follows the task: it exists exactly once the task has passed
\* on its core commit, and its last state is reached together with the task's.
OutboxFollowsTask ==
    \A o \in Ops :
        /\ handoff[o] # "none" <=> task[o] \in {"ai_handoff_pending", "completed"}
        /\ handoff[o] = "q2_activated" <=> task[o] = "completed"

\* What the rows of the queue promise, together with their types.
QueueInv == QTypeOK /\ NoEarlyDerivation /\ CoreStatesAreProven /\ OutboxFollowsTask

\* Every accepted request is settled in the end, as long as the process comes
\* up again and again.
QueueDrains ==
    []<>(boot = "up") =>
        \A o \in Ops : task[o] = "accepted" ~> task[o] \in {"completed", "rejected"}

\* recover_processing_task: "a proven core commit is advanced instead of
\* retried".
CommittedIsNotRetried ==
    [][\A o \in Ops :
          task[o] = "processing" /\ task'[o] = "retry_required"
            => journal[o].status \notin {"ready", "deleted"}]_qvars

\* _advance_handoff: after a delete, "any prior archive derivation for the
\* removed target loses its claim/fence before it can publish".
DeletedTargetHasNoWork ==
    \A d \in Deletes :
        task[d] = "completed" => deriv[target[d]] # "pending"

=============================================================================
