----------------------------- MODULE WriteLease -----------------------------
(***************************************************************************)
(* The data-root write lease (src/src/runtime/write_lease.py).             *)
(*                                                                         *)
(* A write scope is admitted by two layers taken in order: a gate local to *)
(* the process and an advisory lock of the operating system.  At most one  *)
(* VaultWriteLease instance of a process passes its gate, so the fields of *)
(* that instance are variables indexed by the process.  A refused attempt  *)
(* changes nothing and is not a step, except where it gives back the gate. *)
(*                                                                         *)
(* A task here is an "owner" of the code, a thread or an asyncio task.  A  *)
(* worker is an executor thread that runs one durable operation under a    *)
(* capability its owner issued; it may outlive the scope that started it.  *)
(***************************************************************************)
EXTENDS Naturals, FiniteSets

CONSTANTS
    Procs,     \* processes that open the data root
    Tasks,     \* owners (thread, asyncio task) of a process
    Workers,   \* tracked executor workers of a process
    NoProc,    \* the advisory lock is free
    NoTask,    \* no owner
    MaxDepth   \* bound: how deep one actor nests its scopes

ASSUME ActorAssumption ==
    /\ Tasks \cap Workers = {}
    /\ NoProc \notin Procs
    /\ NoTask \notin Tasks
    /\ MaxDepth \in Nat \ {0}

VARIABLES
    os,         \* the process that holds the advisory lock on write.lease
    gate,       \* the processes whose local gate is taken
    acquiring,  \* acquiring[p]: the task that took the gate and not yet the lock
    owner,      \* owner[p]: _owner of the admitted lease
    depth,      \* depth[p]: _depth of the admitted lease
    caps,       \* caps[p]: _worker_capabilities of the admitted lease
    pending,    \* the processes whose admitted lease has _release_pending
    ctx,        \* ctx[p][t]: the lease the ContextVar of t shows
    scopes,     \* scopes[p][a]: nested write_lease_scope blocks a is inside
    work        \* work[p][w]: progress of worker w

vars == <<os, gate, acquiring, owner, depth, caps, pending, ctx, scopes, work>>
leaseVars == <<owner, depth, caps, pending>>

Actors == Tasks \cup Workers

\* "stale" is an inherited context that shows a lease already given back.
Views == {"none", "live", "stale"}
WorkStates == {"none", "issued", "active", "returned"}

TypeOK ==
    /\ os \in Procs \cup {NoProc}
    /\ gate \subseteq Procs
    /\ acquiring \in [Procs -> Tasks \cup {NoTask}]
    /\ owner \in [Procs -> Tasks \cup {NoTask}]
    /\ depth \in [Procs -> 0..MaxDepth]
    /\ caps \in [Procs -> SUBSET Workers]
    /\ pending \subseteq Procs
    /\ ctx \in [Procs -> [Tasks -> Views]]
    /\ scopes \in [Procs -> [Actors -> 0..MaxDepth]]
    /\ work \in [Procs -> [Workers -> WorkStates]]

Init ==
    /\ os = NoProc
    /\ gate = {}
    /\ acquiring = [p \in Procs |-> NoTask]
    /\ owner = [p \in Procs |-> NoTask]
    /\ depth = [p \in Procs |-> 0]
    /\ caps = [p \in Procs |-> {}]
    /\ pending = {}
    /\ ctx = [p \in Procs |-> [t \in Tasks |-> "none"]]
    /\ scopes = [p \in Procs |-> [a \in Actors |-> 0]]
    /\ work = [p \in Procs |-> [w \in Workers |-> "none"]]

held(p) == depth[p] > 0 \/ p \in pending

-----------------------------------------------------------------------------
(* Taking the lease *)

\* An outermost scope: the context shows no lease, and the gate is free.
TakeGate(p, t) ==
    /\ ctx[p][t] = "none"
    /\ acquiring[p] # t
    /\ p \notin gate
    /\ gate' = gate \cup {p}
    /\ acquiring' = [acquiring EXCEPT ![p] = t]
    /\ UNCHANGED <<os, leaseVars, ctx, scopes, work>>

\* Mutant of TakeLock: a lock that is not granted goes unnoticed.
TakeLockUngranted(p, t) ==
    /\ acquiring[p] = t
    /\ os' = p
    /\ acquiring' = [acquiring EXCEPT ![p] = NoTask]
    /\ owner' = [owner EXCEPT ![p] = t]
    /\ depth' = [depth EXCEPT ![p] = 1]
    /\ ctx' = [ctx EXCEPT ![p][t] = "live"]
    /\ scopes' = [scopes EXCEPT ![p][t] = 1]
    /\ UNCHANGED <<gate, caps, pending, work>>

\* The advisory lock is granted and the scope is entered.
TakeLock(p, t) ==
    /\ acquiring[p] = t
    /\ os = NoProc
    /\ os' = p
    /\ acquiring' = [acquiring EXCEPT ![p] = NoTask]
    /\ owner' = [owner EXCEPT ![p] = t]
    /\ depth' = [depth EXCEPT ![p] = 1]
    /\ ctx' = [ctx EXCEPT ![p][t] = "live"]
    /\ scopes' = [scopes EXCEPT ![p][t] = 1]
    /\ UNCHANGED <<gate, caps, pending, work>>

\* Contention, or a lock file that fails its safety checks: the gate is given
\* back and the caller sees write_busy or data_root_unsafe.
LockRefused(p, t) ==
    /\ acquiring[p] = t
    /\ gate' = gate \ {p}
    /\ acquiring' = [acquiring EXCEPT ![p] = NoTask]
    /\ UNCHANGED <<os, leaseVars, ctx, scopes, work>>

\* A nested scope: the context shows the admitted lease and its owner asks.
Reenter(p, t) ==
    /\ ctx[p][t] = "live"
    /\ depth[p] \in 1..(MaxDepth - 1)
    /\ owner[p] = t
    /\ depth' = [depth EXCEPT ![p] = @ + 1]
    /\ scopes' = [scopes EXCEPT ![p][t] = depth[p] + 1]
    /\ UNCHANGED <<os, gate, acquiring, owner, caps, pending, ctx, work>>

\* A child task or a copied context inherits the view of its parent; a task
\* that ended makes room for one with a context of its own.
InheritContext(p, t, u) ==
    /\ t # u
    /\ scopes[p][u] = 0
    /\ acquiring[p] # u
    /\ ctx' = [ctx EXCEPT ![p][u] = ctx[p][t]]
    /\ UNCHANGED <<os, gate, acquiring, leaseVars, scopes, work>>

FreshContext(p, t) ==
    /\ scopes[p][t] = 0
    /\ ctx' = [ctx EXCEPT ![p][t] = "none"]
    /\ UNCHANGED <<os, gate, acquiring, leaseVars, scopes, work>>

-----------------------------------------------------------------------------
(* Giving the lease back *)

\* The views of p once its lease is finalized: t restores what it had before
\* its outermost scope, contexts copied from it keep showing the old lease.
Restored(p, t) ==
    [u \in Tasks |-> IF u = t THEN "none"
                     ELSE IF ctx[p][u] = "live" THEN "stale" ELSE ctx[p][u]]

\* Mutant of FinalizeRelease: the owner is not reset.
FinalizeKeepsOwner(p) ==
    /\ os' = NoProc
    /\ pending' = pending \ {p}
    /\ UNCHANGED owner

\* The lock is dropped first; the gate follows in DropGate.
FinalizeRelease(p) ==
    /\ os' = NoProc
    /\ owner' = [owner EXCEPT ![p] = NoTask]
    /\ pending' = pending \ {p}

ReleaseInner(p, t) ==
    /\ owner[p] = t
    /\ depth[p] > 1
    /\ depth' = [depth EXCEPT ![p] = @ - 1]
    /\ scopes' = [scopes EXCEPT ![p][t] = depth[p] - 1]
    /\ UNCHANGED <<os, gate, acquiring, owner, caps, pending, ctx, work>>

\* Mutant of ReleaseOuter: a cancelled owner does not wait for its workers.
ReleaseOuterAtOnce(p, t) ==
    /\ owner[p] = t
    /\ depth[p] = 1
    /\ depth' = [depth EXCEPT ![p] = 0]
    /\ scopes' = [scopes EXCEPT ![p][t] = 0]
    /\ ctx' = [ctx EXCEPT ![p] = Restored(p, t)]
    /\ FinalizeRelease(p)
    /\ UNCHANGED <<gate, acquiring, caps, work>>

\* The outermost scope ends, by return, exception or cancellation.  A worker
\* still under way defers the physical release.
ReleaseOuter(p, t) ==
    /\ owner[p] = t
    /\ depth[p] = 1
    /\ depth' = [depth EXCEPT ![p] = 0]
    /\ scopes' = [scopes EXCEPT ![p][t] = 0]
    /\ ctx' = [ctx EXCEPT ![p] =
                  IF caps[p] = {} THEN Restored(p, t)
                                  ELSE [ctx[p] EXCEPT ![t] = "none"]]
    /\ IF caps[p] = {}
       THEN FinalizeRelease(p)
       ELSE /\ pending' = pending \cup {p}
            /\ UNCHANGED <<os, owner>>
    /\ UNCHANGED <<gate, acquiring, caps, work>>

\* The last statement of _finalize_release.
DropGate(p) ==
    /\ p \in gate
    /\ acquiring[p] = NoTask
    /\ ~ held(p)
    /\ gate' = gate \ {p}
    /\ UNCHANGED <<os, acquiring, leaseVars, ctx, scopes, work>>

-----------------------------------------------------------------------------
(* Tracked workers *)

IssueCapability(p, t, w) ==
    /\ owner[p] = t
    /\ depth[p] > 0
    /\ work[p][w] = "none"
    /\ caps' = [caps EXCEPT ![p] = @ \cup {w}]
    /\ work' = [work EXCEPT ![p][w] = "issued"]
    /\ UNCHANGED <<os, gate, acquiring, owner, depth, pending, ctx, scopes>>

\* The executor thread starts, possibly after its owner left.
ActivateCapability(p, w) ==
    /\ work[p][w] = "issued"
    /\ w \in caps[p]
    /\ held(p)
    /\ work' = [work EXCEPT ![p][w] = "active"]
    /\ UNCHANGED <<os, gate, acquiring, leaseVars, ctx, scopes>>

WorkerEnter(p, w) ==
    /\ work[p][w] = "active"
    /\ w \in caps[p]
    /\ held(p)
    /\ scopes[p][w] < MaxDepth
    /\ scopes' = [scopes EXCEPT ![p][w] = @ + 1]
    /\ UNCHANGED <<os, gate, acquiring, leaseVars, ctx, work>>

WorkerExit(p, w) ==
    /\ scopes[p][w] > 0
    /\ scopes' = [scopes EXCEPT ![p][w] = @ - 1]
    /\ UNCHANGED <<os, gate, acquiring, leaseVars, ctx, work>>

\* The operation returns or raises: its executor future settles.
WorkerReturn(p, w) ==
    /\ work[p][w] = "active"
    /\ scopes[p][w] = 0
    /\ work' = [work EXCEPT ![p][w] = "returned"]
    /\ UNCHANGED <<os, gate, acquiring, leaseVars, ctx, scopes>>

\* Mutant of CompleteCapability: the last worker does not finish the release.
CompleteWithoutRelease(p, w) ==
    /\ work[p][w] = "returned"
    /\ w \in caps[p]
    /\ caps' = [caps EXCEPT ![p] = @ \ {w}]
    /\ work' = [work EXCEPT ![p][w] = "none"]
    /\ UNCHANGED <<os, gate, acquiring, owner, depth, pending, ctx, scopes>>

\* The done callback consumes the capability and, when it was the last one of
\* a lease whose owner has left, performs the deferred release.
CompleteCapability(p, w) ==
    /\ work[p][w] = "returned"
    /\ w \in caps[p]
    /\ caps' = [caps EXCEPT ![p] = @ \ {w}]
    /\ work' = [work EXCEPT ![p][w] = "none"]
    /\ IF p \in pending /\ caps[p] = {w}
       THEN /\ FinalizeRelease(p)
            /\ ctx' = [ctx EXCEPT ![p] = Restored(p, NoTask)]
       ELSE UNCHANGED <<os, owner, pending, ctx>>
    /\ UNCHANGED <<gate, acquiring, depth, scopes>>

-----------------------------------------------------------------------------
\* The process dies: its memory is gone and the system drops its lock.
Crash(p) ==
    /\ os' = IF os = p THEN NoProc ELSE os
    /\ gate' = gate \ {p}
    /\ acquiring' = [acquiring EXCEPT ![p] = NoTask]
    /\ owner' = [owner EXCEPT ![p] = NoTask]
    /\ depth' = [depth EXCEPT ![p] = 0]
    /\ caps' = [caps EXCEPT ![p] = {}]
    /\ pending' = pending \ {p}
    /\ ctx' = [ctx EXCEPT ![p] = [t \in Tasks |-> "none"]]
    /\ scopes' = [scopes EXCEPT ![p] = [a \in Actors |-> 0]]
    /\ work' = [work EXCEPT ![p] = [w \in Workers |-> "none"]]

TaskStep(p, t) ==
    \/ TakeGate(p, t) \/ TakeLock(p, t) \/ LockRefused(p, t)
    \/ Reenter(p, t) \/ ReleaseInner(p, t) \/ ReleaseOuter(p, t)
    \/ FreshContext(p, t)
    \/ \E u \in Tasks : InheritContext(p, t, u)
    \/ \E w \in Workers : IssueCapability(p, t, w)

WorkerStep(p, w) ==
    \/ ActivateCapability(p, w)
    \/ WorkerEnter(p, w) \/ WorkerExit(p, w)
    \/ WorkerReturn(p, w) \/ CompleteCapability(p, w)

Next ==
    \E p \in Procs :
        \/ \E t \in Tasks : TaskStep(p, t)
        \/ \E w \in Workers : WorkerStep(p, w)
        \/ DropGate(p)
        \/ Crash(p)

Spec == Init /\ [][Next]_vars

\* A worker that was handed to the executor leaves its scopes and runs to its
\* end, however often it enters one more, and the event loop
\* runs its done callback; a synchronous call runs on once it has started.
Fairness ==
    \A p \in Procs :
        /\ WF_vars(DropGate(p))
        /\ \A t \in Tasks : WF_vars(TakeLock(p, t) \/ LockRefused(p, t))
        /\ \A w \in Workers :
              /\ WF_vars(ActivateCapability(p, w))
              /\ SF_vars(WorkerReturn(p, w))
              /\ WF_vars(WorkerExit(p, w))
              /\ SF_vars(WorkerExit(p, w) /\ scopes[p][w] = 1)
              /\ WF_vars(CompleteCapability(p, w))

FairSpec == Spec /\ Fairness

-----------------------------------------------------------------------------
(* Properties *)

Inside(p) == {a \in Actors : scopes[p][a] > 0}

\* Whoever is inside a write scope, a worker its owner abandoned included, is
\* covered by the advisory lock of its process: two processes never write the
\* data root together.
WriterHoldsLock == \A p \in Procs : Inside(p) # {} => os = p

\* Inside one process a single logical operation writes: the tasks inside a
\* scope are the owner alone, the workers inside are those the lease still
\* counts, and an inherited context admits nobody.
OneLogicalWriter ==
    \A p \in Procs :
        /\ Inside(p) \cap Tasks \subseteq {owner[p]}
        /\ Inside(p) \cap Workers \subseteq caps[p]

\* Between the moment an owner hands a durable operation to the executor and
\* the moment its future settles, neither layer of the lease is given back.
LeaseOutlivesWorkers ==
    \A p \in Procs :
        (\E w \in Workers : work[p][w] \in {"issued", "active", "returned"})
            => os = p /\ p \in gate

\* The advisory lock of a process is only ever held behind its closed gate, so
\* a second thread never reaches a lock the kernel would grant it again.
GateCoversLock == \A p \in Procs : os = p => p \in gate /\ acquiring[p] = NoTask

\* has_active_write_lease, for a task and for a tracked worker.
HasActiveWriteLease(p, a) ==
    IF a \in Tasks
    THEN ctx[p][a] = "live" /\ held(p) /\ owner[p] = a
    ELSE a \in caps[p] /\ work[p][a] = "active" /\ held(p)

\* Mutation-owned runtime logs are appended only under the lock, and every
\* actor inside a scope may append them.
LogsFollowLease ==
    \A p \in Procs, a \in Actors :
        /\ HasActiveWriteLease(p, a) => os = p
        /\ scopes[p][a] > 0 => HasActiveWriteLease(p, a)

\* All that the lease promises its callers at every moment.
LeaseIsSafe == /\ WriterHoldsLock /\ OneLogicalWriter /\ LeaseOutlivesWorkers
               /\ GateCoversLock /\ LogsFollowLease

\* A release deferred by a worker is carried out: the data root is not left
\* locked by an operation that nobody runs any more.
DeferredReleaseHappens ==
    \A p \in Procs : p \in pending ~> p \notin gate

\* The inductive invariant behind the safety properties: how the fields of the
\* lease, its two layers, its workers and the open scopes of a process agree.
LeaseInvOf(p) ==
    /\ os = p <=> held(p)
    /\ held(p) => p \in gate /\ acquiring[p] = NoTask
    /\ depth[p] > 0 => owner[p] # NoTask /\ ctx[p][owner[p]] = "live"
    /\ acquiring[p] # NoTask => p \in gate
    /\ p \in pending => depth[p] = 0 /\ caps[p] # {}
    /\ ~ held(p) => caps[p] = {} /\ owner[p] = NoTask
    /\ \A w \in Workers : w \in caps[p] <=> work[p][w] # "none"
    /\ \A t \in Tasks : scopes[p][t] = IF owner[p] = t THEN depth[p] ELSE 0
    /\ \A w \in Workers : scopes[p][w] > 0 => work[p][w] = "active"

LeaseInv == TypeOK /\ \A p \in Procs : LeaseInvOf(p)

SW == INSTANCE SingleWriter WITH
        holder  <- os,
        writers <- {x \in Procs \X Actors : scopes[x[1]][x[2]] > 0}

\* The two-layer lease implements the abstract single writer.
RefinesSingleWriter == SW!Spec
=============================================================================
