------------------------ MODULE DerivationLifecycle ------------------------
(***************************************************************************)
(* Q2, the queue of AI derivations:                                        *)
(* src/src/application/r4_derivation_lifecycle.py, the derivation part of  *)
(* src/src/storage/content_lifecycle.py, derivation_ledger.py and          *)
(* derivation_patch.py.                                                    *)
(*                                                                         *)
(* Every committed archive or delete leaves a derivation task.  A worker   *)
(* claims it under the write lease, reserves its budget, calls the         *)
(* provider without the lease, hands a summary patch to Q1', and publishes *)
(* an embedding generation of the final source.  Claims run out, the       *)
(* policy changes and documents go while the provider is at work.          *)
(*                                                                         *)
(* The source digest is the revision of every document.  An attempt is     *)
(* named by the attempt_count of its claim: claim_next_derivation raises   *)
(* it with every claim, so it stands for the claim token and the fence.    *)
(***************************************************************************)
EXTENDS Naturals, Sequences, FiniteSets

CONSTANTS
    Docs,           \* documents, each archived once and perhaps deleted
    Workers,        \* processes that drain Q2
    MaxAttempts,    \* retry.max_attempts of the policy
    Cap,            \* token hard cap of a day, in units of one call
    MaxPolicies,    \* bound: policies the user writes
    MaxDays,        \* bound: days
    MaxCrashes,     \* bound: deaths of a worker
    Deletes,        \* whether documents are deleted
    Slow,           \* whether a claim may run out while its worker is at work
    None

\* What an instance must satisfy; the modules that instantiate it assume it.
DerivationAssumption ==
    /\ {MaxAttempts, Cap, MaxDays, MaxCrashes} \subseteq Nat
    /\ MaxPolicies \in Nat \ {0}
    /\ {Deletes, Slow} \subseteq BOOLEAN
    /\ IsFiniteSet(Docs)
    /\ None \notin Docs \cup Workers

Tasks == Docs \X {"archive", "delete"}
Doc(t) == t[1]
IsArchive(t) == t[2] = "archive"
Attempts == 1..MaxAttempts
Policies == 1..MaxPolicies

VARIABLES
    doc,      \* doc[d]: the revision of a document
    task,     \* task[t]: the ai_derivation_tasks row
    order,    \* the tasks in the order of created_at
    q1p,      \* q1p[d]: the apply_ai_patch task of Q1' for the patch of d
    resv,     \* resv[t][n]: the reservation of attempt n, and what it called
    binding,  \* the embedding_index binding: its state and source digest
    policy,   \* the automation policy: fingerprint and approval
    day,
    lease,
    job,      \* job[w]: what a worker is doing
    crashes

rows == <<task, order>>
vars == <<doc, rows, q1p, resv, binding, policy, day, lease, job, crashes>>

Revisions == {"none", "archived", "patched", "deleted"}
TaskStates == {"none", "blocked", "pending", "processing", "completed",
               "retry_required", "budget_paused", "authorization_required",
               "superseded"}
Terminal == {"completed", "superseded"}
Waiting == {"pending", "retry_required", "budget_paused", "authorization_required"}
JobSteps == {"idle", "first", "refresh", "claim", "check", "reserve", "hide",
             "hidden", "llm", "record", "submit", "ack", "embed", "publish",
             "settle", "mark", "fail", "failmark"}

Calls == {"llm", "embedding"}

NoPatch == [policy |-> 0, attempt |-> 0, input |-> [d \in Docs |-> "none"]]
NewTask == [state |-> "none", attempts |-> 0, live |-> FALSE, backoff |-> FALSE,
            digest |-> NoPatch.input, policy |-> 0, patch |-> NoPatch,
            applied |-> FALSE]
\* covers: the calls whose tokens are reserved; made: those that were made.
Unused == [state |-> "none", policy |-> 0, day |-> 0, covers |-> {}, made |-> {}]
\* t and n: the task and the attempt; seen: the row as it was read; policy: the
\* policy that was read; source, base: source and binding an inspection captured.
Idle == [at |-> "idle", t |-> None, n |-> 0, seen |-> NewTask,
         policy |-> [fp |-> 0, approved |-> FALSE], source |-> NoPatch.input,
         base |-> [state |-> "none", digest |-> NoPatch.input]]

DTypeOK ==
    /\ doc \in [Docs -> Revisions]
    /\ \A t \in Tasks :
          /\ task[t].state \in TaskStates
          /\ task[t].attempts \in 0..MaxAttempts
          /\ task[t].live => task[t].state = "processing"
          /\ task[t].policy \in 0..MaxPolicies
          /\ \A n \in Attempts : resv[t][n].state \in
                {"none", "reserved", "settled", "released"}
    /\ q1p \in [Docs -> {"none", "accepted", "completed", "rejected"}]
    /\ binding.state \in {"none", "nonready", "ready"}
    /\ policy \in [fp : Policies, approved : BOOLEAN]
    /\ lease \in Workers \cup {None}
    /\ \A w \in Workers : job[w].at \in JobSteps

Init ==
    /\ doc = [d \in Docs |-> "none"]
    /\ task = [t \in Tasks |-> NewTask]
    /\ order = <<>>
    /\ q1p = [d \in Docs |-> "none"]
    /\ resv = [t \in Tasks |-> [n \in Attempts |-> Unused]]
    /\ binding = [state |-> "none", digest |-> doc]
    /\ policy = [fp |-> 1, approved |-> TRUE]
    /\ day = 1
    /\ lease = None
    /\ job = [w \in Workers |-> Idle]
    /\ crashes = 0

-----------------------------------------------------------------------------
(* Building blocks *)

\* ORDER BY created_at
Before(s, t) == \E i, j \in 1..Len(order) : i < j /\ order[i] = s /\ order[j] = t

At(w, step) == job[w].at = step
Goto(w, step) == job' = [job EXCEPT ![w].at = step]
\* What a failed attempt still needs: its task and its number.
GotoFail(w) ==
    job' = [job EXCEPT ![w] = [Idle EXCEPT !.at = "fail", !.t = job[w].t, !.n = job[w].n]]
Done(w) == job' = [job EXCEPT ![w] = Idle] /\ lease' = IF lease = w THEN None ELSE lease

\* inspect_embedding_index
IndexReady == binding.state = "ready" /\ binding.digest = doc
NonReady(source) == [state |-> "nonready", digest |-> source]

\* The claim of worker w is on its row and has not run out.
Live(w) ==
    LET row == task[job[w].t]
    IN row.state = "processing" /\ row.live /\ row.attempts = job[w].n

\* recover_expired_derivation_claims and mark_retry_exhausted
Expired(row) == row.state = "processing" /\ ~ row.live

Exhausted(row) == row.state \in {"pending", "retry_required"} /\ row.attempts >= MaxAttempts
\* Mutant of Recovered: nobody takes the claims of the dead back.
RecoveredNever(row) == row

Recovered(row) == IF Expired(row) THEN [row EXCEPT !.state = "retry_required"] ELSE row
Ceiling(row) ==
    IF Exhausted(row) THEN [row EXCEPT !.state = "retry_required", !.backoff = FALSE]
    ELSE row
Swept == [t \in Tasks |-> Ceiling(Recovered(task[t]))]

Finished(row, state) ==
    [row EXCEPT !.state = state, !.live = FALSE, !.backoff = state = "retry_required"]

\* replan_derivation and supersede_derivation: any row but a processing one.
Replanned(row, digest, fp, state) ==
    [row EXCEPT !.digest = digest, !.policy = fp, !.state = state, !.backoff = FALSE]
Superseded(row) == [row EXCEPT !.state = "superseded", !.backoff = FALSE]

\* What the ledger counts against the cap: reserve sums reserved_tokens of the
\* reservations of the policy and the day that are reserved or settled.
Counted(fp, d) ==
    {c \in Tasks \X Attempts \X Calls :
        LET row == resv[c[1]][c[2]]
        IN row.policy = fp /\ row.day = d /\ row.state \in {"reserved", "settled"}
           /\ c[3] \in row.covers}
Spent(fp, d) == Cardinality(Counted(fp, d))

-----------------------------------------------------------------------------
(* Q1': commits, handoffs, and the drain of patches *)

Archive(d) ==
    /\ lease = None
    /\ doc[d] = "none"
    /\ doc' = [doc EXCEPT ![d] = "archived"]
    /\ task' = [task EXCEPT ![<<d, "archive">>].state = "blocked"]
    /\ order' = Append(order, <<d, "archive">>)
    /\ UNCHANGED <<q1p, resv, binding, policy, day, lease, job, crashes>>

Delete(d) ==
    /\ Deletes
    /\ lease = None
    /\ doc[d] \in {"archived", "patched"}
    /\ doc' = [doc EXCEPT ![d] = "deleted"]
    /\ task' = [task EXCEPT ![<<d, "delete">>].state = "blocked"]
    /\ order' = Append(order, <<d, "delete">>)
    /\ UNCHANGED <<q1p, resv, binding, policy, day, lease, job, crashes>>

\* supersede_derivations_for_target: the target of a task that is still blocked
\* is not on its row yet.
Fenced(t) ==
    [o \in Tasks |->
        IF ~ IsArchive(t) /\ o # t /\ Doc(o) = Doc(t)
           /\ task[o].state \notin Terminal \cup {"none", "blocked"}
        THEN [task[o] EXCEPT !.state = "superseded", !.live = FALSE, !.backoff = FALSE]
        ELSE task[o]]

\* _advance_handoff: fence, publish a binding that is not ready, activate.
Handoff(t) ==
    /\ lease = None
    /\ task[t].state = "blocked"
    /\ binding' = NonReady(doc)
    /\ task' = [Fenced(t) EXCEPT
          ![t].state = IF policy.approved THEN "pending" ELSE "authorization_required",
          ![t].digest = doc, ![t].policy = policy.fp]
    /\ UNCHANGED <<doc, order, q1p, resv, policy, day, lease, job, crashes>>

\* One drain of Q1' that reaches the patch task of d: an older task goes first
\* or the attempt is to be retried; or coordinator.apply_ai_patch commits it to
\* the revision it was made for; or it is rejected.
PatchDrained(d, state) ==
    \/ q1p' = [q1p EXCEPT ![d] = state] /\ UNCHANGED doc
    \/ /\ state = "accepted" /\ doc[d] = "archived"
       /\ q1p' = [q1p EXCEPT ![d] = "completed"]
       /\ doc' = [doc EXCEPT ![d] = "patched"]
    \/ /\ state = "accepted" /\ doc[d] # "archived"
       /\ q1p' = [q1p EXCEPT ![d] = "rejected"]
       /\ UNCHANGED doc

\* recover_and_drain of Q1' by any other call.
Q1Drains(d) ==
    /\ lease = None
    /\ q1p[d] = "accepted"
    /\ PatchDrained(d, q1p[d])
    /\ UNCHANGED <<rows, resv, binding, policy, day, lease, job, crashes>>

-----------------------------------------------------------------------------
(* drain_task, until a claim *)

\* recover_and_drain takes expired claims back and applies the ceiling first.
SweepFirst ==
    /\ lease = None
    /\ Swept # task
    /\ task' = Swept
    /\ UNCHANGED <<doc, order, q1p, resv, binding, policy, day, lease, job, crashes>>

\* Then it lists the tasks that wait and drains one after the other;
\* drain_for_operation starts here.
Trigger(w, t) ==
    /\ At(w, "idle")
    /\ task[t].state \in Waiting
    /\ job' = [job EXCEPT ![w] = [Idle EXCEPT !.at = "first", !.t = t]]
    /\ UNCHANGED <<doc, rows, q1p, resv, binding, policy, day, lease, crashes>>

\* A recorded patch that waits in Q1' is drained first; then the row, the policy
\* and the source are read, without the lease.
DrainOwnPatch(w) ==
    LET t == job[w].t
        patching == task[t].patch.attempt # 0 /\ ~ task[t].applied
                    /\ q1p[Doc(t)] \in {"accepted", "rejected"}
    IN /\ At(w, "first")
       /\ IF patching THEN lease = None /\ PatchDrained(Doc(t), q1p[Doc(t)])
          ELSE UNCHANGED <<q1p, doc>>
       /\ job' = [job EXCEPT ![w] =
             IF task[t].state \in Waiting
             THEN [@ EXCEPT !.at = "refresh", !.seen = task[t], !.policy = policy,
                            !.source = doc']
             ELSE Idle]
       /\ UNCHANGED <<rows, resv, binding, policy, day, lease, crashes>>

PatchWaitsForAck(w) ==
    /\ job[w].seen.patch.attempt # 0 /\ ~ job[w].seen.applied
    /\ q1p[Doc(job[w].t)] = "completed"

\* What _refresh_unclaimed makes of the row, from what it read before.
Refreshed(w) ==
    LET seen == job[w].seen
        row == task[job[w].t]
        fp == job[w].policy.fp
    IN CASE ~ job[w].policy.approved ->
              Replanned(row, seen.digest, fp, "authorization_required")
         [] seen.digest # job[w].source /\ ~ PatchWaitsForAck(w) -> Superseded(row)
         [] seen.policy # fp /\ seen.patch.attempt # 0 -> Superseded(row)
         [] seen.policy # fp \/ seen.state \in {"budget_paused", "authorization_required"} ->
              Replanned(row, job[w].source, fp, "pending")
         [] OTHER -> row

\* Mutant of Refresh: the row is written whoever holds it.
RefreshAlways(w) ==
    LET t == job[w].t
        row == Refreshed(w)
    IN /\ At(w, "refresh")
       /\ lease = None
       /\ task' = [task EXCEPT ![t] = [row EXCEPT !.live = FALSE]]
       /\ IF row.state \in {"pending", "retry_required"} THEN Goto(w, "claim")
          ELSE job' = [job EXCEPT ![w] = Idle]
       /\ UNCHANGED <<doc, order, q1p, resv, binding, policy, day, lease, crashes>>

\* The write takes the lease; a row somebody claimed meanwhile raises.
Refresh(w) ==
    LET t == job[w].t
        row == Refreshed(w)
    IN /\ At(w, "refresh")
       /\ lease = None
       /\ IF task[t].state = "processing"
          THEN UNCHANGED task /\ job' = [job EXCEPT ![w] = Idle]
          ELSE /\ task' = [task EXCEPT ![t] = row]
               /\ IF row.state \in {"pending", "retry_required"} THEN Goto(w, "claim")
                  ELSE job' = [job EXCEPT ![w] = Idle]
       /\ UNCHANGED <<doc, order, q1p, resv, binding, policy, day, lease, crashes>>

Eligible(t) ==
    /\ Swept[t].state \in {"pending", "retry_required"}
    /\ Swept[t].attempts < MaxAttempts
    /\ ~ Swept[t].backoff

\* The policy again, the expired claims, the ceiling of retries, and the oldest
\* task that may run: not always the one that was refreshed.
Claim(w) ==
    LET ready == {t \in Tasks : Eligible(t)}
    IN /\ At(w, "claim")
       /\ lease = None
       /\ \/ /\ policy.approved
             /\ \E t \in ready :
                   /\ \A s \in ready \ {t} : Before(t, s)
                   /\ task' = [Swept EXCEPT ![t].state = "processing", ![t].live = TRUE,
                                            ![t].attempts = @ + 1]
                   /\ job' = [job EXCEPT ![w] = [Idle EXCEPT !.at = "check", !.t = t,
                                 !.n = task'[t].attempts, !.seen = task'[t],
                                 !.policy = policy]]
          \/ /\ policy.approved
             /\ ready = {}
             /\ task' = Swept
             /\ job' = [job EXCEPT ![w] = Idle]
          \/ /\ ~ policy.approved
             /\ task' = [task EXCEPT ![job[w].t] =
                   IF @.state = "processing" THEN @
                   ELSE Replanned(@, job[w].seen.digest, policy.fp,
                                  "authorization_required")]
             /\ job' = [job EXCEPT ![w] = Idle]
       /\ UNCHANGED <<doc, order, q1p, resv, binding, policy, day, lease, crashes>>

-----------------------------------------------------------------------------
(* _execute_claimed *)

\* mark_derivation_state with the token and the fence of the claim: a row whose
\* claim was lost is left alone, and the call raises.
MarkState(w, state) ==
    /\ task' = IF Live(w) THEN [task EXCEPT ![job[w].t] = Finished(@, state)] ELSE task
    /\ Done(w)

NeedsPatch(w) == IsArchive(job[w].t) /\ ~ job[w].seen.applied

\* The patch that Q1' has applied meanwhile is acknowledged: the row takes the
\* digest of the final source.  Needs the claim, and the target as patched.
Acknowledged(w) ==
    LET t == job[w].t
    IN /\ Live(w) /\ doc[Doc(t)] = "patched"
       /\ task' = [task EXCEPT ![t].applied = TRUE, ![t].digest = doc]

CheckClaim(w) ==
    LET t == job[w].t
        seen == job[w].seen
        foreign == seen.policy # job[w].policy.fp
        stale == seen.digest # doc \/ (NeedsPatch(w) /\ doc[Doc(t)] # "archived")
    IN /\ At(w, "check")
       /\ \/ foreign /\ lease = None /\ MarkState(w, "authorization_required")
          \/ /\ ~ foreign /\ PatchWaitsForAck(w) /\ lease = None
             /\ \/ /\ Acknowledged(w)
                   /\ job' = [job EXCEPT ![w].seen = task'[t]]
                   /\ UNCHANGED lease
                \/ /\ ~ (Live(w) /\ doc[Doc(t)] = "patched")
                   /\ MarkState(w, "superseded")
          \/ /\ ~ foreign /\ ~ PatchWaitsForAck(w) /\ stale
             /\ lease = None
             /\ MarkState(w, "superseded")
          \/ /\ ~ foreign /\ ~ PatchWaitsForAck(w) /\ ~ stale
             /\ Goto(w, "reserve") \/ Goto(w, "hide")
             /\ UNCHANGED <<task, lease>>
       /\ UNCHANGED <<doc, order, q1p, resv, binding, policy, day, crashes>>

\* _retry_claimed, when the source or the plan cannot be read: the binding is
\* published first, and only then the claim is looked at.
RetryClaimed(w) ==
    /\ At(w, "hide")
    /\ lease = None
    /\ binding' = NonReady(doc)
    /\ MarkState(w, "retry_required")
    /\ UNCHANGED <<doc, order, q1p, resv, policy, day, crashes>>

NeedsLLM(w) == NeedsPatch(w) /\ job[w].seen.patch.attempt = 0

\* One reservation covers the whole attempt, before any provider is built.
Reserve(w) ==
    LET t == job[w].t
        n == job[w].n
        fp == job[w].policy.fp
        needs == IF NeedsLLM(w) THEN Calls ELSE {"embedding"}
    IN /\ At(w, "reserve")
       /\ lease = None
       /\ \/ /\ ~ (Live(w) /\ task[t].policy = fp)
             /\ Done(w)
             /\ UNCHANGED <<task, resv, binding>>
          \/ /\ Live(w) /\ task[t].policy = fp
             /\ Spent(fp, day) + Cardinality(needs) > Cap
             /\ binding' = NonReady(doc)
             /\ MarkState(w, "budget_paused")
             /\ UNCHANGED resv
          \/ /\ Live(w) /\ task[t].policy = fp
             /\ Spent(fp, day) + Cardinality(needs) <= Cap
             /\ resv' = [resv EXCEPT ![t][n] =
                   [Unused EXCEPT !.state = "reserved", !.policy = fp, !.day = day,
                                  !.covers = needs]]
             /\ Goto(w, IF NeedsLLM(w) THEN "llm"
                        ELSE IF NeedsPatch(w) THEN "submit" ELSE "embed")
             /\ UNCHANGED <<task, binding, lease>>
       /\ UNCHANGED <<doc, order, q1p, policy, day, crashes>>

\* Summary and tags, without the lease.  A call that fails may have been charged.
CallLLM(w) ==
    /\ At(w, "llm")
    /\ \/ /\ resv' = [resv EXCEPT ![job[w].t][job[w].n].made = @ \cup {"llm"}]
          /\ Goto(w, "record") \/ GotoFail(w)
       \/ GotoFail(w) /\ UNCHANGED resv
    /\ UNCHANGED <<doc, rows, q1p, binding, policy, day, lease, crashes>>

RecordPatch(w) ==
    LET t == job[w].t
        patch == [policy |-> job[w].policy.fp, attempt |-> job[w].n,
                  input |-> job[w].seen.digest]
    IN /\ At(w, "record")
       /\ lease = None
       /\ \/ /\ Live(w)
             /\ task' = [task EXCEPT ![t].patch = patch]
             /\ job' = [job EXCEPT ![w].at = "submit", ![w].seen.patch = patch]
          \/ ~ Live(w) /\ GotoFail(w) /\ UNCHANGED task
       /\ UNCHANGED <<doc, order, q1p, resv, binding, policy, day, lease, crashes>>

\* submit_patch_and_drain compares target and input with the row, not the claim.
SubmitPatch(w) ==
    LET t == job[w].t
        d == Doc(t)
        known == task[t].applied \/ task[t].digest = job[w].seen.patch.input
    IN /\ At(w, "submit")
       /\ lease = None
       /\ \/ /\ known
             /\ PatchDrained(d, IF q1p[d] = "none" THEN "accepted" ELSE q1p[d])
             /\ IF q1p'[d] = "completed" THEN Goto(w, "ack") /\ lease' = w
                ELSE GotoFail(w) /\ UNCHANGED lease
          \/ ~ known /\ GotoFail(w) /\ UNCHANGED <<q1p, doc, lease>>
       /\ UNCHANGED <<rows, resv, binding, policy, day, crashes>>

AckPatch(w) ==
    /\ At(w, "ack")
    /\ \/ Acknowledged(w) /\ Goto(w, "embed")
       \/ /\ ~ (Live(w) /\ doc[Doc(job[w].t)] = "patched")
          /\ GotoFail(w) /\ UNCHANGED task
    /\ lease' = None
    /\ UNCHANGED <<doc, order, q1p, resv, binding, policy, day, crashes>>

\* _execute_generation: the vectors of the source as it is now, without the lease.
Embed(w) ==
    /\ At(w, "embed")
    /\ \/ /\ IndexReady
          /\ Goto(w, "settle")
          /\ UNCHANGED resv
       \/ /\ ~ IndexReady
          /\ resv' = [resv EXCEPT ![job[w].t][job[w].n].made = @ \cup {"embedding"}]
          /\ \/ job' = [job EXCEPT ![w] = [@ EXCEPT !.at = "publish", !.source = doc,
                                                      !.base = binding]]
             \/ GotoFail(w)
       \/ ~ IndexReady /\ GotoFail(w) /\ UNCHANGED resv
    /\ UNCHANGED <<doc, rows, q1p, binding, policy, day, lease, crashes>>

\* The claim, then execute_embedding_rebuild: nothing may have changed since the
\* plan.  The activation may be followed by a failure all the same.
Publish(w) ==
    /\ At(w, "publish")
    /\ lease = None
    /\ \/ /\ Live(w) /\ doc = job[w].source /\ binding = job[w].base
          /\ binding' = [state |-> "ready", digest |-> doc]
          /\ Goto(w, "settle") \/ GotoFail(w)
       \/ /\ ~ (Live(w) /\ doc = job[w].source /\ binding = job[w].base)
          /\ GotoFail(w)
          /\ UNCHANGED binding
    /\ UNCHANGED <<doc, rows, q1p, resv, policy, day, lease, crashes>>

Reservation(w) == resv[job[w].t][job[w].n]
Started(w) == Reservation(w).made # {}
\* Mutant of Closed: what is not finished is released.
ClosedLate(w) == IF Started(w) /\ Live(w) THEN "settled" ELSE "released"

Closed(w) == IF Started(w) THEN "settled" ELSE "released"

CloseReservation(w) == resv' = [resv EXCEPT ![job[w].t][job[w].n].state = Closed(w)]

\* Completion: the ledger, then the row, under one lease.
Settle(w) ==
    /\ At(w, "settle")
    /\ lease = None
    /\ \/ Live(w) /\ CloseReservation(w) /\ Goto(w, "mark") /\ lease' = w
       \/ ~ Live(w) /\ GotoFail(w) /\ UNCHANGED <<resv, lease>>
    /\ UNCHANGED <<doc, rows, q1p, binding, policy, day, crashes>>

MarkCompleted(w) ==
    /\ At(w, "mark")
    /\ MarkState(w, "completed")
    /\ UNCHANGED <<doc, order, q1p, resv, binding, policy, day, crashes>>

\* _retry_after_provider: settle or release under the claim, or detached from it.
Fail(w) ==
    /\ At(w, "fail")
    /\ lease = None
    /\ \/ /\ Reservation(w).state = "reserved"
          /\ CloseReservation(w)
          /\ IF Live(w) THEN Goto(w, "failmark") /\ lease' = w
             ELSE job' = [job EXCEPT ![w] = Idle] /\ UNCHANGED lease
       \/ /\ Reservation(w).state # "reserved"
          /\ job' = [job EXCEPT ![w] = Idle]
          /\ UNCHANGED <<resv, lease>>
    /\ UNCHANGED <<doc, rows, q1p, binding, policy, day, crashes>>

\* A generation that fits the source is kept.
FailMark(w) ==
    /\ At(w, "failmark")
    /\ binding' = IF IndexReady THEN binding ELSE NonReady(doc)
    /\ MarkState(w, "retry_required")
    /\ UNCHANGED <<doc, order, q1p, resv, policy, day, crashes>>

-----------------------------------------------------------------------------
(* The environment *)

\* write_busy: inside the attempt it is a failure like another, outside it ends
\* the call.
WriteBusy(w) ==
    /\ lease \notin {None, w}
    /\ \/ job[w].at \in {"first", "refresh", "claim", "check", "reserve", "hide", "fail"}
          /\ job' = [job EXCEPT ![w] = Idle]
       \/ job[w].at \in {"record", "submit", "publish", "settle"} /\ GotoFail(w)
    /\ UNCHANGED <<doc, rows, q1p, resv, binding, policy, day, lease, crashes>>

Crash(w) ==
    /\ crashes < MaxCrashes
    /\ crashes' = crashes + 1
    /\ ~ At(w, "idle")
    /\ Done(w)
    /\ UNCHANGED <<doc, rows, q1p, resv, binding, policy, day>>

\* Nobody works on the claim of t any more.
Abandoned(t) ==
    ~ \E w \in Workers : job[w].t = t /\ job[w].n = task[t].attempts
                         /\ ~ (job[w].at \in {"idle", "first", "refresh", "claim"})

ClaimExpires(t) ==
    /\ task[t].live
    /\ Slow \/ Abandoned(t)
    /\ task' = [task EXCEPT ![t].live = FALSE]
    /\ UNCHANGED <<doc, order, q1p, resv, binding, policy, day, lease, job, crashes>>

BackoffEnds(t) ==
    /\ task[t].backoff
    /\ task' = [task EXCEPT ![t].backoff = FALSE]
    /\ UNCHANGED <<doc, order, q1p, resv, binding, policy, day, lease, job, crashes>>

\* The user changes provider, model, prices or quota; the approval is given with
\* the change or later.
ChangePolicy ==
    /\ policy.fp < MaxPolicies
    /\ policy' \in [fp : {policy.fp + 1}, approved : BOOLEAN]
    /\ UNCHANGED <<doc, rows, q1p, resv, binding, day, lease, job, crashes>>

Approve ==
    /\ ~ policy.approved
    /\ policy' = [policy EXCEPT !.approved = TRUE]
    /\ UNCHANGED <<doc, rows, q1p, resv, binding, day, lease, job, crashes>>

NextDay ==
    /\ day < MaxDays
    /\ day' = day + 1
    /\ UNCHANGED <<doc, rows, q1p, resv, binding, policy, lease, job, crashes>>

Step(w) ==
    \/ DrainOwnPatch(w) \/ Refresh(w) \/ Claim(w) \/ CheckClaim(w)
    \/ RetryClaimed(w) \/ Reserve(w) \/ CallLLM(w) \/ RecordPatch(w)
    \/ SubmitPatch(w) \/ AckPatch(w) \/ Embed(w) \/ Publish(w) \/ Settle(w)
    \/ MarkCompleted(w) \/ Fail(w) \/ FailMark(w) \/ WriteBusy(w)

Next ==
    \/ \E d \in Docs : Archive(d) \/ Delete(d) \/ Q1Drains(d)
    \/ \E t \in Tasks : Handoff(t) \/ ClaimExpires(t) \/ BackoffEnds(t)
    \/ SweepFirst
    \/ \E w \in Workers, t \in Tasks : Trigger(w, t)
    \/ \E w \in Workers : Step(w) \/ Crash(w)
    \/ ChangePolicy \/ Approve \/ NextDay

Spec == Init /\ [][Next]_vars

\* A call that meets the lease of another comes back: a new trigger follows.
\* The user approves a changed policy.
Fairness ==
    /\ WF_vars(Approve)
    /\ \A w \in Workers :
          /\ WF_vars(Step(w))
          /\ SF_vars(Refresh(w)) /\ SF_vars(Claim(w))
          /\ SF_vars(\E t \in Tasks : Trigger(w, t))
    /\ SF_vars(SweepFirst)
    /\ \A t \in Tasks :
          WF_vars(Handoff(t)) /\ WF_vars(ClaimExpires(t)) /\ WF_vars(BackoffEnds(t))

FairSpec == Spec /\ Fairness

-----------------------------------------------------------------------------
(* Properties *)

Made(fp, d) ==
    {c \in Tasks \X Attempts \X Calls :
        LET row == resv[c[1]][c[2]]
        IN row.policy = fp /\ row.day = d /\ c[3] \in row.made}

\* No day costs more than its cap: whatever dies, runs out, is fenced or answers
\* late, a call that was made stays in the ledger of its day and policy.
ChargesWithinCap ==
    \A fp \in Policies, d \in 1..MaxDays : Cardinality(Made(fp, d)) <= Cap

\* A patch that is recorded is paid once: no attempt claimed after the one that
\* recorded it calls the LLM again.
RecordedPatchIsReused ==
    \A t \in Tasks, n \in Attempts :
        "llm" \in resv[t][n].made /\ task[t].patch.attempt # 0 => n <= task[t].patch.attempt

\* An archive is completed only when its summary is in the document, through
\* Q1' and acknowledged on its row.
CompletedIsDerived ==
    \A t \in Tasks :
        IsArchive(t) /\ task[t].state = "completed" =>
            task[t].applied /\ q1p[Doc(t)] = "completed"

\* What the ledger and the rows of Q2 promise, with their types.
DerivationInv == DTypeOK /\ ChargesWithinCap /\ CompletedIsDerived

\* A generation an archive publishes is of the final source: its own patch is
\* part of what was embedded, or the document is gone.
FinalSourceOnly ==
    [][\A w \in Workers :
          At(w, "publish") /\ binding' # binding /\ IsArchive(job[w].t)
          /\ job'[w] # job[w] =>
              /\ binding'.digest[Doc(job[w].t)] # "archived"
              /\ binding'.digest = job[w].source]_vars

\* While a claim is live nobody but its worker changes the row, and nobody but
\* a delete of its target takes it away.
LiveClaimIsExclusive ==
    [][\A t \in Tasks :
          task[t].state = "processing" /\ task[t].live /\ task'[t] # task[t] =>
              \/ task'[t] = [task[t] EXCEPT !.live = FALSE]
              \/ task'[t].state = "superseded" /\ doc[Doc(t)] = "deleted"
              \/ \E w \in Workers : /\ job[w].t = t /\ job[w].n = task[t].attempts
                                    /\ job'[w] # job[w]]_vars

\* Nobody interferes with a live claim, and what it publishes is final.
ClaimsAreFenced == LiveClaimIsExclusive /\ FinalSourceOnly

\* "an expired or superseded worker cannot publish a patch": the document of a
\* task that is superseded is not patched any more.
SupersededNeverPatches ==
    [][\A d \in Docs :
          task[<<d, "archive">>].state = "superseded" => ~ (doc[d] = "archived" /\ doc'[d] = "patched")]_vars

\* "A patch produced under an old policy must not silently survive a
\* provider/model/pricing change": what is acknowledged as applied was made
\* under the policy the row runs under.
PatchFitsPolicy ==
    \A t \in Tasks : task[t].applied => task[t].patch.policy = task[t].policy

\* A late worker "is not allowed to publish a retry binding": a generation that
\* fits the source is only hidden by a commit, a budget pause or a live claim.
LateWorkerHidesNothing ==
    [][IndexReady /\ binding'.state = "nonready" =>
          \A w \in Workers : At(w, "hide") /\ job'[w] # job[w] => Live(w)]_vars

\* "Retire unclaimed stale Q2 work without granting it another attempt."
RetiredStaysRetired ==
    [][\A t \in Tasks : task[t].state = "superseded" => task'[t].state = "superseded"]_vars

\* A pause only when settled tokens, reserved tokens and the estimate exceed the
\* cap: what an attempt never used does not count.
Needed(c) ==
    LET row == resv[c[1]][c[2]] IN row.state = "settled" => c[3] \in row.made
PauseIsNeeded ==
    [][\A t \in Tasks :
          task[t].state = "processing" /\ task'[t].state = "budget_paused" =>
              Cardinality({c \in Counted(task[t].policy, day) : Needed(c)})
              + (IF IsArchive(t) /\ task[t].patch.attempt = 0 THEN 2 ELSE 1) > Cap]_vars

\* Every derivation that waits comes to an end, or stays where the ceiling of
\* retries or a budget keeps it.
TasksSettle ==
    \A t \in Tasks :
        task[t].state = "pending" ~>
            task[t].state \in Terminal \cup {"budget_paused"} \/ Exhausted(task[t])

=============================================================================
