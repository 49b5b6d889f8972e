-------------------------- MODULE IngressLifecycle --------------------------
(***************************************************************************)
(* Q0, the ingress queue: src/src/storage/ingress_lifecycle.py and         *)
(* src/src/application/r4_ingress_lifecycle.py.                            *)
(*                                                                         *)
(* A request is admitted under the write lease (its raw payload in a       *)
(* private spool, a row, a workspace).  Parsing runs without the lease,    *)
(* under a claim that can run out while the parser is still at work.  The  *)
(* prepared document is handed to Q1' under the lease again.  Several      *)
(* processes do this at once; any of them can die or be cancelled between  *)
(* two durable changes.                                                    *)
(*                                                                         *)
(* A claim, its fence and its attempt directory are named by the worker    *)
(* that made it: a worker has one claim at a time, and nobody holds the    *)
(* token of a worker that died.  Q1' is the part of ContentLifecycle that  *)
(* Q0 sees: the state of the task with its operation id.                   *)
(***************************************************************************)
EXTENDS Naturals, Sequences, FiniteSets

CONSTANTS
    Requests,      \* ingress requests
    Workers,       \* processes
    MaxTasks,      \* max_tasks: visits of one recovery, spaces of one sweep
    MaxCrashes,    \* bound: deaths and cancellations
    Denials,       \* whether the parser may deny a request for good
    Slow,          \* whether a claim may run out while its worker is at work
    OtherTriggers, \* whether a delete in another process drains Q1' too
    None

\* What an instance must satisfy; the modules that instantiate it assume it.
IngressAssumption ==
    /\ MaxTasks \in Nat \ {0}
    /\ MaxCrashes \in Nat
    /\ {Denials, Slow, OtherTriggers} \subseteq BOOLEAN
    /\ None \notin Requests \cup Workers

VARIABLES
    row,      \* row[r]: the ingress_tasks row
    order,    \* the rows in the order of created_at
    raw,      \* requests whose payload is in the request spool
    space,    \* task workspaces, as requests
    attempts, \* attempt directories, as <<request, worker>>
    docs,     \* prepared documents in their spool, as <<request, worker>>
    q1,       \* q1[r]: the content task of the operation, and its document
    lease,    \* the process that holds the write lease
    job,      \* job[w]: the call under way in a process
    crashes

store == <<row, order, raw, space, attempts, docs>>
vars == <<store, q1, lease, job, crashes>>

RowStates == {"none", "accepted", "processing", "prepared", "submitted",
              "retry_required", "rejected"}
Q1States == {"none", "queued", "core_committed", "completed", "rejected"}
JobSteps == {"idle", "enqueue", "workspace", "recover", "list", "visit", "drain",
             "attempt", "parse", "write", "mark", "retry", "deny", "handover",
             "submitted", "discard", "q1", "release", "sweep"}

\* own is the request the call admitted, cur the one it works on, list the
\* recoverable tasks it has still to visit, left the visits it may still make.
Idle == [at |-> "idle", own |-> None, cur |-> None, list |-> {}, left |-> 0,
         done |-> FALSE]
Jobs == [at : JobSteps, own : Requests \cup {None}, cur : Requests \cup {None},
         list : SUBSET Requests, left : Nat, done : BOOLEAN]

ITypeOK ==
    /\ row \in [Requests -> [state : RowStates, by : Workers \cup {None},
                             live : BOOLEAN, backoff : BOOLEAN,
                             doc : Workers \cup {None}]]
    /\ order \in Seq(Requests)
    /\ raw \subseteq Requests
    /\ space \subseteq Requests
    /\ attempts \subseteq Requests \X Workers
    /\ docs \subseteq Requests \X Workers
    /\ q1 \in [Requests -> [state : Q1States, doc : Workers \cup {None}]]
    /\ lease \in Workers \cup {None}
    /\ job \in [Workers -> Jobs]
    /\ crashes \in 0..MaxCrashes

Init ==
    /\ row = [r \in Requests |-> [state |-> "none", by |-> None, live |-> FALSE,
                                  backoff |-> FALSE, doc |-> None]]
    /\ order = <<>>
    /\ raw = {}
    /\ space = {}
    /\ attempts = {}
    /\ docs = {}
    /\ q1 = [r \in Requests |-> [state |-> "none", doc |-> None]]
    /\ lease = None
    /\ job = [w \in Workers |-> Idle]
    /\ crashes = 0

-----------------------------------------------------------------------------
(* Building blocks *)

\* ORDER BY created_at
Before(r, s) == \E i, j \in 1..Len(order) : i < j /\ order[i] = r /\ order[j] = s

At(w, step) == job[w].at = step
Goto(w, step) == job' = [job EXCEPT ![w].at = step]

\* An exception leaves the call, and every lease it holds.
Raise(w) ==
    /\ job' = [job EXCEPT ![w] = Idle]
    /\ lease' = IF lease = w THEN None ELSE lease

Acquire(w) == lease = None /\ lease' = w
Release(w) == lease' = None

\* drain_task returned: on to the next visit, or the call is over.
Return(w) ==
    /\ Release(w)
    /\ job' = [job EXCEPT ![w] =
                  IF @.done THEN Idle
                  ELSE [@ EXCEPT !.at = "visit", !.cur = None,
                                 !.own = IF job[w].own = job[w].cur THEN None
                                         ELSE job[w].own]]

\* require_active_claim: the claim of w is on the row and has not run out.
Active(w, r) == row[r].state = "processing" /\ row[r].by = w /\ row[r].live

\* recover_expired_claims
Expired(r) == row[r].state = "processing" /\ ~ row[r].live
Unclaimed(r) == [row[r] EXCEPT !.by = None, !.live = FALSE]

RowsRecovered ==
    [r \in Requests |->
        IF Expired(r) THEN [Unclaimed(r) EXCEPT !.state = "retry_required"]
        ELSE row[r]]

\* Anybody who holds the token of a row that is no longer processing, or whose
\* claim is another one, fails its check; the row keeps no token of the dead.
Disowned(w) ==
    [r \in Requests |-> IF row[r].by = w THEN [row[r] EXCEPT !.by = None] ELSE row[r]]

-----------------------------------------------------------------------------
(* Admission: IngressRequestSpool.write, IngressTaskStore.enqueue and          *)
(* IngressTaskSpool.ensure_task under one lease                                *)

Admit(w, r) ==
    /\ At(w, "idle")
    /\ row[r].state = "none" /\ r \notin raw
    /\ Acquire(w)
    /\ raw' = raw \cup {r}
    /\ job' = [job EXCEPT ![w] = [Idle EXCEPT !.at = "enqueue", !.own = r]]
    /\ UNCHANGED <<row, order, space, attempts, docs, q1, crashes>>

Enqueue(w) ==
    /\ At(w, "enqueue")
    /\ row' = [row EXCEPT ![job[w].own].state = "accepted"]
    /\ order' = Append(order, job[w].own)
    /\ Goto(w, "workspace")
    /\ UNCHANGED <<raw, space, attempts, docs, q1, lease, crashes>>

EnsureTask(w) ==
    /\ At(w, "workspace")
    /\ space' = space \cup {job[w].own}
    /\ Goto(w, "recover")
    /\ Release(w)
    /\ UNCHANGED <<row, order, raw, attempts, docs, q1, crashes>>

\* A later call, for a request beyond the instance, recovers the queue as well.
LaterCall(w) ==
    /\ At(w, "idle")
    /\ job' = [job EXCEPT ![w] = [Idle EXCEPT !.at = "recover"]]
    /\ UNCHANGED <<store, q1, lease, crashes>>

-----------------------------------------------------------------------------
(* recover_and_drain *)

RecoverExpired(w) ==
    /\ At(w, "recover")
    /\ lease = None
    /\ row' = RowsRecovered
    /\ Goto(w, "list")
    /\ UNCHANGED <<order, raw, space, attempts, docs, q1, lease, crashes>>

\* Mutant of Recoverable: a request that failed once is not listed again.
RecoverableOnce(r) == row[r].state \in {"accepted", "processing", "prepared"}

Recoverable(r) ==
    row[r].state \in {"accepted", "processing", "prepared", "retry_required"}

\* list_recoverable reads without the lease.
ListRecoverable(w) ==
    /\ At(w, "list")
    /\ job' = [job EXCEPT ![w] = [@ EXCEPT !.at = "visit", !.left = MaxTasks,
                                           !.list = {r \in Requests : Recoverable(r)}]]
    /\ UNCHANGED <<store, q1, lease, crashes>>

\* The oldest of the listed tasks comes next, until max_tasks are visited.
Visit(w) ==
    /\ At(w, "visit")
    /\ \/ /\ job[w].list = {} \/ job[w].left = 0
          /\ job' = [job EXCEPT ![w] = [@ EXCEPT !.at = "sweep", !.list = {}]]
       \/ /\ job[w].left # 0
          /\ \E r \in job[w].list :
                /\ \A s \in job[w].list \ {r} : Before(r, s)
                /\ job' = [job EXCEPT ![w] =
                             [@ EXCEPT !.at = "drain", !.cur = r,
                                       !.list = job[w].list \ {r},
                                       !.left = job[w].left - 1]]
    /\ UNCHANGED <<store, q1, lease, crashes>>

\* What one drain of Q1' may do to a content task it reaches: keep it, commit
\* it, hand it over (which discards the document), or reject it.
Q1Next(state) ==
    CASE state = "queued" -> {"queued", "core_committed", "completed", "rejected"}
      [] state = "core_committed" -> {"core_committed", "completed"}
      [] OTHER -> {state}

Q1Advances ==
    \E r \in Requests, state \in Q1States :
        /\ state \in Q1Next(q1[r].state)
        /\ q1' = [q1 EXCEPT ![r].state = state]
        /\ docs' = IF state = "completed" THEN docs \ {<<r, q1[r].doc>>} ELSE docs

Committed(r) == q1[r].state \in {"core_committed", "completed"}

\* Q1' recovers, then the workspaces of the oldest committed tasks go; a call
\* whose own request was not visited drains it now.
SweepCommitted(w) ==
    LET submitted == {r \in Requests : row[r].state = "submitted"}
        oldest == {r \in submitted :
                      Cardinality({s \in submitted : Before(s, r)}) < MaxTasks}
        swept == {r \in oldest : q1'[r].state \in {"core_committed", "completed"}}
    IN /\ At(w, "sweep")
       /\ lease = None
       /\ Q1Advances
       /\ space' = space \ swept
       /\ attempts' = {a \in attempts : a[1] \notin swept}
       /\ job' = [job EXCEPT ![w] =
                     IF @.own = None THEN Idle
                     ELSE [@ EXCEPT !.at = "drain", !.cur = job[w].own, !.done = TRUE]]
       /\ UNCHANGED <<row, order, raw, lease, crashes>>

\* A delete runs the Q1' queue and no part of Q0.
DeleteDrainsQ1 ==
    /\ OtherTriggers
    /\ lease = None
    /\ Q1Advances
    /\ UNCHANGED <<row, order, raw, space, attempts, lease, job, crashes>>

-----------------------------------------------------------------------------
(* drain_task *)

\* claim_task, for a task that waits and is not backing off.
Claim(w) ==
    LET r == job[w].cur
        rec == RowsRecovered[r]
    IN /\ At(w, "drain")
       /\ Acquire(w)
       /\ rec.state \in {"accepted", "retry_required"}
       /\ ~ rec.backoff
       /\ row' = [RowsRecovered EXCEPT ![r].state = "processing", ![r].by = w,
                                       ![r].live = TRUE]
       /\ Goto(w, "attempt")
       /\ UNCHANGED <<order, raw, space, attempts, docs, q1, crashes>>

\* A live claim, a task that backs off or one that is rejected: nothing to do.
NothingToDrain(w) ==
    LET rec == RowsRecovered[job[w].cur]
    IN /\ At(w, "drain")
       /\ lease = None
       /\ \/ rec.state \in {"processing", "rejected"}
          \/ rec.state \in {"accepted", "retry_required"} /\ rec.backoff
       /\ row' = RowsRecovered
       /\ Return(w)
       /\ UNCHANGED <<order, raw, space, attempts, docs, q1, crashes>>

\* A prepared or submitted task goes on from where it stopped.
Rejoin(w) ==
    LET rec == RowsRecovered[job[w].cur]
    IN /\ At(w, "drain")
       /\ Acquire(w)
       /\ \/ rec.state = "prepared" /\ Goto(w, "handover")
          \/ rec.state = "submitted" /\ Goto(w, "q1")
       /\ row' = RowsRecovered
       /\ UNCHANGED <<order, raw, space, attempts, docs, q1, crashes>>

\* prepare_attempt: a live claim clears the attempts of lower fences.
PrepareAttempt(w) ==
    LET r == job[w].cur
    IN /\ At(w, "attempt")
       /\ \/ /\ Active(w, r)
             /\ attempts' = {a \in attempts : a[1] # r} \cup {<<r, w>>}
             /\ space' = space \cup {r}
             /\ Goto(w, "parse")
             /\ Release(w)
             /\ UNCHANGED row
          \/ /\ ~ Active(w, r)
             /\ Raise(w)
             /\ row' = Disowned(w)
             /\ UNCHANGED <<space, attempts>>
       /\ UNCHANGED <<order, raw, docs, q1, crashes>>

\* The slow part: no lease, only the claim.
ParseSucceeds(w) ==
    /\ At(w, "parse")
    /\ job[w].cur \in raw
    /\ Goto(w, "write")
    /\ UNCHANGED <<store, q1, lease, crashes>>

ParseFails(w) ==
    /\ At(w, "parse")
    /\ \/ Goto(w, "retry")
       \/ Denials /\ job[w].cur \in raw /\ Goto(w, "deny")
    /\ UNCHANGED <<store, q1, lease, crashes>>

WriteDocument(w) ==
    /\ At(w, "write")
    /\ Acquire(w)
    /\ docs' = docs \cup {<<job[w].cur, w>>}
    /\ Goto(w, "mark")
    /\ UNCHANGED <<row, order, raw, space, attempts, q1, crashes>>

\* Mutant of MarkRetry: the row is addressed by its id alone.
MarkRetryById(w) ==
    LET r == job[w].cur
    IN /\ At(w, "retry")
       /\ lease = None
       /\ row' = [row EXCEPT ![r] = [Unclaimed(r) EXCEPT !.state = "retry_required",
                                                         !.backoff = TRUE]]
       /\ Return(w)
       /\ UNCHANGED <<order, raw, space, attempts, docs, q1, crashes>>

\* The claim was lost on the way: RUNTIME_PLAN_STALE.
ClaimLost(w) ==
    /\ ~ Active(w, job[w].cur)
    /\ Raise(w)
    /\ row' = Disowned(w)
    /\ UNCHANGED <<order, raw, space, attempts, docs, q1, crashes>>

MarkPrepared(w) ==
    LET r == job[w].cur
    IN /\ At(w, "mark")
       /\ \/ /\ Active(w, r)
             /\ row' = [row EXCEPT ![r] = [Unclaimed(r) EXCEPT !.state = "prepared",
                                                               !.doc = w]]
             /\ Goto(w, "handover")
             /\ UNCHANGED <<order, raw, space, attempts, docs, q1, lease, crashes>>
          \/ ClaimLost(w)

MarkRetry(w) ==
    LET r == job[w].cur
    IN /\ At(w, "retry")
       /\ lease = None
       /\ \/ /\ Active(w, r)
             /\ row' = [row EXCEPT ![r] = [Unclaimed(r) EXCEPT !.state = "retry_required",
                                                               !.backoff = TRUE]]
             /\ Return(w)
             /\ UNCHANGED <<order, raw, space, attempts, docs, q1, crashes>>
          \/ ClaimLost(w)

MarkRejected(w) ==
    LET r == job[w].cur
    IN /\ At(w, "deny")
       /\ \/ /\ Acquire(w)
             /\ Active(w, r)
             /\ row' = [row EXCEPT ![r] = [Unclaimed(r) EXCEPT !.state = "rejected"]]
             /\ Goto(w, "discard")
             /\ UNCHANGED <<order, raw, space, attempts, docs, q1, crashes>>
          \/ lease = None /\ ClaimLost(w)

-----------------------------------------------------------------------------
(* _submit_prepared_under_lease *)

\* Mutant of HandOver: the worker hands over what it parsed itself.
HandOverOwn(w) ==
    LET r == job[w].cur
        doc == IF <<r, w>> \in docs THEN w ELSE row[r].doc
    IN /\ At(w, "handover")
       /\ <<r, doc>> \in docs
       /\ q1' = IF q1[r].state = "none"
                THEN [q1 EXCEPT ![r] = [state |-> "queued", doc |-> doc]] ELSE q1
       /\ Goto(w, "submitted")
       /\ UNCHANGED <<store, lease, crashes>>

\* The document is read and enqueued in Q1' under the operation id of the row;
\* an existing task with the same document is taken as it is.
HandOver(w) ==
    LET r == job[w].cur
        doc == row[r].doc
    IN /\ At(w, "handover")
       /\ \/ /\ <<r, doc>> \in docs
             /\ q1[r].state = "none" \/ q1[r].doc = doc
             /\ q1' = IF q1[r].state = "none"
                      THEN [q1 EXCEPT ![r] = [state |-> "queued", doc |-> doc]]
                      ELSE q1
             /\ Goto(w, "submitted")
             /\ UNCHANGED lease
          \/ /\ <<r, doc>> \notin docs \/ (q1[r].state # "none" /\ q1[r].doc # doc)
             /\ Raise(w)
             /\ UNCHANGED q1
       /\ UNCHANGED <<store, crashes>>

MarkSubmitted(w) ==
    /\ At(w, "submitted")
    /\ row' = [row EXCEPT ![job[w].cur].state = "submitted"]
    /\ Goto(w, "discard")
    /\ UNCHANGED <<order, raw, space, attempts, docs, q1, lease, crashes>>

DiscardRaw(w) ==
    LET r == job[w].cur
    IN /\ At(w, "discard")
       /\ raw' = raw \ {r}
       /\ Goto(w, IF row[r].state = "rejected" THEN "release" ELSE "q1")
       /\ UNCHANGED <<row, order, space, attempts, docs, q1, lease, crashes>>

DrainQ1(w) ==
    LET r == job[w].cur
    IN /\ At(w, "q1")
       /\ \/ /\ q1[r].state # "none"
             /\ Q1Advances
             /\ IF q1'[r].state \in {"core_committed", "completed"}
                THEN Goto(w, "release") /\ UNCHANGED lease
                ELSE Return(w)
          \/ /\ q1[r].state = "none"
             /\ Raise(w)
             /\ UNCHANGED <<q1, docs>>
       /\ UNCHANGED <<row, order, raw, space, attempts, crashes>>

\* discard_task: after the core commit, or a rejection.
DiscardTask(w) ==
    LET r == job[w].cur
    IN /\ At(w, "release")
       /\ space' = space \ {r}
       /\ attempts' = {a \in attempts : a[1] # r}
       /\ Return(w)
       /\ UNCHANGED <<row, order, raw, docs, q1, crashes>>

-----------------------------------------------------------------------------
(* The environment *)

\* A call that meets another holder of the lease gets write_busy and ends.
WriteBusy(w) ==
    /\ job[w].at \in {"recover", "drain", "write", "retry", "deny", "sweep"}
    /\ lease \notin {None, w}
    /\ Raise(w)
    /\ row' = Disowned(w)
    /\ UNCHANGED <<order, raw, space, attempts, docs, q1, crashes>>

Crash(w) ==
    /\ crashes < MaxCrashes
    /\ crashes' = crashes + 1
    /\ ~ At(w, "idle")
    /\ Raise(w)
    /\ row' = Disowned(w)
    /\ UNCHANGED <<order, raw, space, attempts, docs, q1>>

ClaimExpires(r) ==
    /\ row[r].state = "processing" /\ row[r].live
    /\ Slow \/ row[r].by = None
    /\ row' = [row EXCEPT ![r].live = FALSE]
    /\ UNCHANGED <<order, raw, space, attempts, docs, q1, lease, job, crashes>>

BackoffEnds(r) ==
    /\ row[r].backoff
    /\ row' = [row EXCEPT ![r].backoff = FALSE]
    /\ UNCHANGED <<order, raw, space, attempts, docs, q1, lease, job, crashes>>

Step(w) ==
    \/ Enqueue(w) \/ EnsureTask(w) \/ RecoverExpired(w) \/ ListRecoverable(w)
    \/ Visit(w) \/ SweepCommitted(w) \/ Claim(w) \/ NothingToDrain(w) \/ Rejoin(w)
    \/ PrepareAttempt(w) \/ ParseSucceeds(w) \/ ParseFails(w) \/ WriteDocument(w)
    \/ MarkPrepared(w) \/ MarkRetry(w) \/ MarkRejected(w) \/ HandOver(w)
    \/ MarkSubmitted(w) \/ DiscardRaw(w) \/ DrainQ1(w) \/ DiscardTask(w)
    \/ WriteBusy(w)

Next ==
    \/ \E w \in Workers : Step(w) \/ LaterCall(w) \/ Crash(w)
    \/ \E w \in Workers, r \in Requests : Admit(w, r)
    \/ \E r \in Requests : ClaimExpires(r) \/ BackoffEnds(r)
    \/ DeleteDrainsQ1

Spec == Init /\ [][Next]_vars

\* Processes take their steps, time passes, calls keep coming, and a parser that
\* is tried again and again succeeds and finds the lease free in the end.  That
\* a request settles also needs attempts that end within their claim (not Slow).
Fairness ==
    /\ \A w \in Workers : WF_vars(Step(w)) /\ WF_vars(LaterCall(w))
    /\ SF_vars(\E w \in Workers : RecoverExpired(w))
    /\ SF_vars(\E w \in Workers : Claim(w))
    /\ SF_vars(\E w \in Workers : Rejoin(w))
    /\ SF_vars(\E w \in Workers : ParseSucceeds(w))
    /\ SF_vars(\E w \in Workers : WriteDocument(w))
    /\ SF_vars(\E w \in Workers : MarkRejected(w))
    /\ \A r \in Requests : WF_vars(ClaimExpires(r)) /\ WF_vars(BackoffEnds(r))

FairSpec == Spec /\ Fairness

-----------------------------------------------------------------------------
(* Properties *)

\* An accepted request is never lost, whatever dies or runs out on the way: as
\* long as it has to be parsed its raw source is there, a prepared one has its
\* document or Q1' is done with it, a submitted one has its content task, and
\* only what was never handed over is rejected.
NothingLost ==
    \A r \in Requests :
        /\ row[r].state \in {"accepted", "processing", "retry_required"} => r \in raw
        /\ row[r].state = "prepared" =>
               <<r, row[r].doc>> \in docs \/ q1[r].state = "completed"
        /\ row[r].state = "submitted" => q1[r].state # "none"
        /\ row[r].state = "rejected" => q1[r].state = "none"

\* Q1' archives a request from one document only, the one on the row: a worker
\* that comes back after its claim was given to another never replaces it.
OneDocument ==
    \A r \in Requests :
        q1[r].state # "none" =>
            /\ row[r].state \in {"prepared", "submitted"}
            /\ q1[r].doc = row[r].doc


\* What is settled stays settled: no late answer of a parser reopens a request
\* that was prepared, submitted or rejected.
NoLateReopening ==
    [][\A r \in Requests :
          /\ row[r].state \in {"submitted", "rejected"} => row'[r] = row[r]
          /\ row[r].state = "prepared" =>
                 row'[r].state \in {"prepared", "submitted"} /\ row'[r].doc = row[r].doc]_vars

\* The attempt directory a live claim parses into is there, and it is the only
\* one of its task: neither a cleanup nor an older attempt interferes with it.
AttemptIsAlone ==
    \A w \in Workers :
        At(w, "parse") /\ Active(w, job[w].cur) =>
            {a \in attempts : a[1] = job[w].cur} = {<<job[w].cur, w>>}

\* What an accepted request can rely on, with the types of the rows.
IngressInv == ITypeOK /\ NothingLost /\ OneDocument /\ AttemptIsAlone

\* The sweep of finished Q1' documents "can sweep only objects no longer needed
\* by recovery": a row that recovery will hand over still has its document.
PreparedIsReadable ==
    \A r \in Requests : row[r].state = "prepared" => <<r, row[r].doc>> \in docs

\* Every accepted request is submitted or rejected in the end.
RequestsSettle ==
    \A r \in Requests :
        row[r].state = "accepted" ~> row[r].state \in {"submitted", "rejected"}

=============================================================================
