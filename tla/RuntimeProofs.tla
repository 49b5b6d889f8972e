---------------------------- MODULE RuntimeProofs ----------------------------
(***************************************************************************)
(* The write lease, proved here, and the lifts of the other protocols of   *)
(* the runtime.                                                            *)
(*                                                                         *)
(* The theorems about the lease are for any processes, tasks, workers and  *)
(* nesting bound.  LeaseInv is the inductive invariant; the properties of  *)
(* WriteLease follow from it without looking at the actions again.         *)
(*                                                                         *)
(* The theorems about the embedding generations and the plans of the data  *)
(* root, from modules of their own, hold in the state space that the runs  *)
(* share: a behaviour of MCRuntime is one of the protocol, whichever part  *)
(* moves.                                                                  *)
(***************************************************************************)
EXTENDS MCRuntime, TLAPS

\* Writing one entry of a function of functions keeps its type.
LEMMA UpdateTyped ==
  ASSUME NEW S, NEW T, NEW V, NEW f \in [S -> [T -> V]],
         NEW s \in S, NEW t \in T, NEW v \in V
  PROVE  [f EXCEPT ![s][t] = v] \in [S -> [T -> V]]
  OBVIOUS

\* Every initial state satisfies the inductive invariant.
LEMMA InitLeaseInv == Init => LeaseInv
  <1> SUFFICES ASSUME Init PROVE LeaseInv
    OBVIOUS
  <1>1. TypeOK
    BY ActorAssumption DEF Init, TypeOK, Views, WorkStates
  <1>2. ASSUME NEW p \in Procs PROVE LeaseInvOf(p)
    BY ActorAssumption DEF Init, LeaseInvOf, held, Actors
  <1>3. QED
    BY <1>1, <1>2 DEF LeaseInv

\* Every step of the lease preserves the inductive invariant: a step of one
\* process keeps the fields of that process in agreement, and reaches the
\* others through the advisory lock alone.
LEMMA NextLeaseInv == LeaseInv /\ [Next]_vars => LeaseInv'
  <1> SUFFICES ASSUME LeaseInv, [Next]_vars PROVE LeaseInv'
    OBVIOUS
  <1> USE ActorAssumption
  <1> USE DEF LeaseInv, TypeOK, held, Actors, Views, WorkStates, leaseVars
  <1>1. ASSUME NEW p \in Procs, NEW t \in Tasks,
         TakeGate(p, t)
       PROVE  LeaseInv'
    <2>1. TypeOK'
      <3>1. gate' \subseteq Procs
        BY <1>1 DEF TakeGate
      <3>2. acquiring' = [acquiring EXCEPT ![p] = t]
        BY <1>1 DEF TakeGate
      <3>3. acquiring' \in [Procs -> Tasks \cup {NoTask}]
        BY <1>1, <3>2
      <3>4. UNCHANGED <<os, leaseVars, ctx, scopes, work>>
        BY <1>1 DEF TakeGate
      <3> QED
        BY <3>1, <3>3, <3>4
    <2>2. LeaseInvOf(p)'
      BY <1>1, <2>1 DEF TakeGate, LeaseInvOf
    <2>3. ASSUME NEW q \in Procs, q # p PROVE LeaseInvOf(q)'
      BY <1>1, <2>3 DEF TakeGate, LeaseInvOf
    <2>4. QED
      BY <2>1, <2>2, <2>3
  <1>2. ASSUME NEW p \in Procs, NEW t \in Tasks,
         TakeLock(p, t)
       PROVE  LeaseInv'
    <2>1. TypeOK'
      <3>1. "live" \in Views
        BY <1>2 DEF TakeLock, LeaseInvOf
      <3>2. ctx' = [ctx EXCEPT ![p][t] = "live"]
        BY <1>2 DEF TakeLock
      <3>3. ctx' \in [Procs -> [Tasks -> Views]]
        BY <3>1, <3>2, UpdateTyped
      <3>4. 1 \in 0..MaxDepth
        BY <1>2 DEF TakeLock, LeaseInvOf
      <3>5. scopes' = [scopes EXCEPT ![p][t] = 1]
        BY <1>2 DEF TakeLock
      <3>6. scopes' \in [Procs -> [Actors -> 0..MaxDepth]]
        BY <3>4, <3>5, UpdateTyped
      <3>7. depth' = [depth EXCEPT ![p] = 1]
        BY <1>2 DEF TakeLock
      <3>8. depth' \in [Procs -> 0..MaxDepth]
        BY <3>4, <3>7, UpdateTyped
      <3>9. QED
        BY <1>2, <3>3, <3>6, <3>8 DEF TakeLock
    <2>2. LeaseInvOf(p)'
      BY <1>2, <2>1 DEF TakeLock, LeaseInvOf
    <2>3. ASSUME NEW q \in Procs, q # p PROVE LeaseInvOf(q)'
      BY <1>2, <2>3 DEF TakeLock, LeaseInvOf
    <2>4. QED
      BY <2>1, <2>2, <2>3
  <1>3. ASSUME NEW p \in Procs, NEW t \in Tasks,
         LockRefused(p, t)
       PROVE  LeaseInv'
    <2>1. TypeOK'
      BY <1>3 DEF LockRefused, LeaseInvOf
    <2>2. LeaseInvOf(p)'
      BY <1>3, <2>1 DEF LockRefused, LeaseInvOf
    <2>3. ASSUME NEW q \in Procs, q # p PROVE LeaseInvOf(q)'
      BY <1>3, <2>3 DEF LockRefused, LeaseInvOf
    <2>4. QED
      BY <2>1, <2>2, <2>3
  <1>4. ASSUME NEW p \in Procs, NEW t \in Tasks,
         Reenter(p, t)
       PROVE  LeaseInv'
    <2>1. TypeOK'
      <3>1. depth[p] + 1 \in 0..MaxDepth
        BY <1>4 DEF Reenter, LeaseInvOf
      <3>2. scopes' = [scopes EXCEPT ![p][t] = depth[p] + 1]
        BY <1>4 DEF Reenter
      <3>3. scopes' \in [Procs -> [Actors -> 0..MaxDepth]]
        BY <3>1, <3>2, UpdateTyped
      <3>4. depth' = [depth EXCEPT ![p] = depth[p] + 1]
        BY <1>4 DEF Reenter
      <3>5. depth' \in [Procs -> 0..MaxDepth]
        BY <3>1, <3>4, UpdateTyped
      <3>6. QED
        BY <1>4, <3>3, <3>5 DEF Reenter
    <2>2. LeaseInvOf(p)'
      BY <1>4, <2>1 DEF Reenter, LeaseInvOf
    <2>3. ASSUME NEW q \in Procs, q # p PROVE LeaseInvOf(q)'
      BY <1>4, <2>3 DEF Reenter, LeaseInvOf
    <2>4. QED
      BY <2>1, <2>2, <2>3
  <1>5. ASSUME NEW p \in Procs, NEW t \in Tasks,
         ReleaseInner(p, t)
       PROVE  LeaseInv'
    <2>1. TypeOK'
      <3>1. depth[p] - 1 \in 0..MaxDepth
        BY <1>5 DEF ReleaseInner, LeaseInvOf
      <3>2. scopes' = [scopes EXCEPT ![p][t] = depth[p] - 1]
        BY <1>5 DEF ReleaseInner
      <3>3. scopes' \in [Procs -> [Actors -> 0..MaxDepth]]
        BY <3>1, <3>2, UpdateTyped
      <3>4. depth' = [depth EXCEPT ![p] = depth[p] - 1]
        BY <1>5 DEF ReleaseInner
      <3>5. depth' \in [Procs -> 0..MaxDepth]
        BY <3>1, <3>4, UpdateTyped
      <3>6. QED
        BY <1>5, <3>3, <3>5 DEF ReleaseInner
    <2>2. LeaseInvOf(p)'
      BY <1>5, <2>1 DEF ReleaseInner, LeaseInvOf
    <2>3. ASSUME NEW q \in Procs, q # p PROVE LeaseInvOf(q)'
      BY <1>5, <2>3 DEF ReleaseInner, LeaseInvOf
    <2>4. QED
      BY <2>1, <2>2, <2>3
  <1>6. ASSUME NEW p \in Procs, NEW t \in Tasks,
         ReleaseOuter(p, t)
       PROVE  LeaseInv'
    <2>1. TypeOK'
      <3>1. 0 \in 0..MaxDepth
        BY <1>6 DEF ReleaseOuter, FinalizeRelease, Restored, LeaseInvOf
      <3>2. scopes' = [scopes EXCEPT ![p][t] = 0]
        BY <1>6 DEF ReleaseOuter, FinalizeRelease, Restored
      <3>3. scopes' \in [Procs -> [Actors -> 0..MaxDepth]]
        BY <3>1, <3>2, UpdateTyped
      <3>4. depth' = [depth EXCEPT ![p] = 0]
        BY <1>6 DEF ReleaseOuter, FinalizeRelease, Restored
      <3>5. depth' \in [Procs -> 0..MaxDepth]
        BY <3>1, <3>4, UpdateTyped
      <3>6. ctx' \in [Procs -> [Tasks -> Views]]
        BY <1>6 DEF ReleaseOuter, FinalizeRelease, Restored
      <3>7. os' \in Procs \cup {NoProc}
        BY <1>6 DEF ReleaseOuter, FinalizeRelease
      <3>8. owner' \in [Procs -> Tasks \cup {NoTask}]
        <4>1. owner' = owner \/ owner' = [owner EXCEPT ![p] = NoTask]
          BY <1>6 DEF ReleaseOuter, FinalizeRelease
        <4>2. QED
          BY <4>1
      <3>9. pending' \subseteq Procs
        BY <1>6 DEF ReleaseOuter, FinalizeRelease
      <3>10. UNCHANGED <<gate, acquiring, caps, work>>
        BY <1>6 DEF ReleaseOuter
      <3>11. QED
        BY <3>3, <3>5, <3>6, <3>7, <3>8, <3>9, <3>10
    <2>2. LeaseInvOf(p)'
      BY <1>6, <2>1 DEF ReleaseOuter, FinalizeRelease, Restored, LeaseInvOf
    <2>3. ASSUME NEW q \in Procs, q # p PROVE LeaseInvOf(q)'
      BY <1>6, <2>3 DEF ReleaseOuter, FinalizeRelease, Restored, LeaseInvOf
    <2>4. QED
      BY <2>1, <2>2, <2>3
  <1>7. ASSUME NEW p \in Procs, NEW t \in Tasks,
         FreshContext(p, t)
       PROVE  LeaseInv'
    <2>1. TypeOK'
      <3>1. "none" \in Views
        BY <1>7 DEF FreshContext, LeaseInvOf
      <3>2. ctx' = [ctx EXCEPT ![p][t] = "none"]
        BY <1>7 DEF FreshContext
      <3>3. ctx' \in [Procs -> [Tasks -> Views]]
        BY <3>1, <3>2, UpdateTyped
      <3>4. QED
        BY <1>7, <3>3 DEF FreshContext
    <2>2. LeaseInvOf(p)'
      BY <1>7, <2>1 DEF FreshContext, LeaseInvOf
    <2>3. ASSUME NEW q \in Procs, q # p PROVE LeaseInvOf(q)'
      BY <1>7, <2>3 DEF FreshContext, LeaseInvOf
    <2>4. QED
      BY <2>1, <2>2, <2>3
  <1>8. ASSUME NEW p \in Procs, NEW t \in Tasks, NEW u \in Tasks,
         InheritContext(p, t, u)
       PROVE  LeaseInv'
    <2>1. TypeOK'
      <3>1. ctx[p][t] \in Views
        BY <1>8 DEF InheritContext, LeaseInvOf
      <3>2. ctx' = [ctx EXCEPT ![p][u] = ctx[p][t]]
        BY <1>8 DEF InheritContext
      <3>3. ctx' \in [Procs -> [Tasks -> Views]]
        BY <3>1, <3>2, UpdateTyped
      <3>4. QED
        BY <1>8, <3>3 DEF InheritContext
    <2>2. LeaseInvOf(p)'
      BY <1>8, <2>1 DEF InheritContext, LeaseInvOf
    <2>3. ASSUME NEW q \in Procs, q # p PROVE LeaseInvOf(q)'
      BY <1>8, <2>3 DEF InheritContext, LeaseInvOf
    <2>4. QED
      BY <2>1, <2>2, <2>3
  <1>9. ASSUME NEW p \in Procs, NEW t \in Tasks, NEW w \in Workers,
         IssueCapability(p, t, w)
       PROVE  LeaseInv'
    <2>1. TypeOK'
      <3>1. "issued" \in WorkStates
        BY <1>9 DEF IssueCapability, LeaseInvOf
      <3>2. work' = [work EXCEPT ![p][w] = "issued"]
        BY <1>9 DEF IssueCapability
      <3>3. work' \in [Procs -> [Workers -> WorkStates]]
        BY <3>1, <3>2, UpdateTyped
      <3>4. caps' = [caps EXCEPT ![p] = caps[p] \cup {w}]
        BY <1>9 DEF IssueCapability
      <3>5. caps' \in [Procs -> SUBSET Workers]
        BY <1>9, <3>4
      <3>6. UNCHANGED <<os, gate, acquiring, owner, depth, pending, ctx, scopes>>
        BY <1>9 DEF IssueCapability
      <3> QED
        BY <3>3, <3>5, <3>6
    <2>2. LeaseInvOf(p)'
      BY <1>9, <2>1 DEF IssueCapability, LeaseInvOf
    <2>3. ASSUME NEW q \in Procs, q # p PROVE LeaseInvOf(q)'
      BY <1>9, <2>3 DEF IssueCapability, LeaseInvOf
    <2>4. QED
      BY <2>1, <2>2, <2>3
  <1>10. ASSUME NEW p \in Procs, NEW w \in Workers,
         ActivateCapability(p, w)
       PROVE  LeaseInv'
    <2>1. TypeOK'
      <3>1. "active" \in WorkStates
        BY <1>10 DEF ActivateCapability, LeaseInvOf
      <3>2. work' = [work EXCEPT ![p][w] = "active"]
        BY <1>10 DEF ActivateCapability
      <3>3. work' \in [Procs -> [Workers -> WorkStates]]
        BY <3>1, <3>2, UpdateTyped
      <3>4. QED
        BY <1>10, <3>3 DEF ActivateCapability
    <2>2. LeaseInvOf(p)'
      BY <1>10, <2>1 DEF ActivateCapability, LeaseInvOf
    <2>3. ASSUME NEW q \in Procs, q # p PROVE LeaseInvOf(q)'
      BY <1>10, <2>3 DEF ActivateCapability, LeaseInvOf
    <2>4. QED
      BY <2>1, <2>2, <2>3
  <1>11. ASSUME NEW p \in Procs, NEW w \in Workers,
         WorkerEnter(p, w)
       PROVE  LeaseInv'
    <2>1. TypeOK'
      <3>1. scopes[p][w] + 1 \in 0..MaxDepth
        BY <1>11 DEF WorkerEnter, LeaseInvOf
      <3>2. scopes' = [scopes EXCEPT ![p][w] = scopes[p][w] + 1]
        BY <1>11 DEF WorkerEnter
      <3>3. scopes' \in [Procs -> [Actors -> 0..MaxDepth]]
        BY <3>1, <3>2, UpdateTyped
      <3>4. QED
        BY <1>11, <3>3 DEF WorkerEnter
    <2>2. LeaseInvOf(p)'
      BY <1>11, <2>1 DEF WorkerEnter, LeaseInvOf
    <2>3. ASSUME NEW q \in Procs, q # p PROVE LeaseInvOf(q)'
      BY <1>11, <2>3 DEF WorkerEnter, LeaseInvOf
    <2>4. QED
      BY <2>1, <2>2, <2>3
  <1>12. ASSUME NEW p \in Procs, NEW w \in Workers,
         WorkerExit(p, w)
       PROVE  LeaseInv'
    <2>1. TypeOK'
      <3>1. scopes[p][w] - 1 \in 0..MaxDepth
        BY <1>12 DEF WorkerExit, LeaseInvOf
      <3>2. scopes' = [scopes EXCEPT ![p][w] = scopes[p][w] - 1]
        BY <1>12 DEF WorkerExit
      <3>3. scopes' \in [Procs -> [Actors -> 0..MaxDepth]]
        BY <3>1, <3>2, UpdateTyped
      <3>4. QED
        BY <1>12, <3>3 DEF WorkerExit
    <2>2. LeaseInvOf(p)'
      BY <1>12, <2>1 DEF WorkerExit, LeaseInvOf
    <2>3. ASSUME NEW q \in Procs, q # p PROVE LeaseInvOf(q)'
      BY <1>12, <2>3 DEF WorkerExit, LeaseInvOf
    <2>4. QED
      BY <2>1, <2>2, <2>3
  <1>13. ASSUME NEW p \in Procs, NEW w \in Workers,
         WorkerReturn(p, w)
       PROVE  LeaseInv'
    <2>1. TypeOK'
      <3>1. "returned" \in WorkStates
        BY <1>13 DEF WorkerReturn, LeaseInvOf
      <3>2. work' = [work EXCEPT ![p][w] = "returned"]
        BY <1>13 DEF WorkerReturn
      <3>3. work' \in [Procs -> [Workers -> WorkStates]]
        BY <3>1, <3>2, UpdateTyped
      <3>4. QED
        BY <1>13, <3>3 DEF WorkerReturn
    <2>2. LeaseInvOf(p)'
      BY <1>13, <2>1 DEF WorkerReturn, LeaseInvOf
    <2>3. ASSUME NEW q \in Procs, q # p PROVE LeaseInvOf(q)'
      BY <1>13, <2>3 DEF WorkerReturn, LeaseInvOf
    <2>4. QED
      BY <2>1, <2>2, <2>3
  <1>14. ASSUME NEW p \in Procs, NEW w \in Workers,
         CompleteCapability(p, w)
       PROVE  LeaseInv'
    <2>1. TypeOK'
      <3>1. "none" \in WorkStates
        BY <1>14 DEF CompleteCapability, FinalizeRelease, Restored, LeaseInvOf
      <3>2. work' = [work EXCEPT ![p][w] = "none"]
        BY <1>14 DEF CompleteCapability, FinalizeRelease, Restored
      <3>3. work' \in [Procs -> [Workers -> WorkStates]]
        BY <3>1, <3>2, UpdateTyped
      <3>4. caps' \in [Procs -> SUBSET Workers]
        <4>1. caps' = [caps EXCEPT ![p] = caps[p] \ {w}]
          BY <1>14 DEF CompleteCapability
        <4> QED
          BY <1>14, <4>1
      <3>5. UNCHANGED <<gate, acquiring, depth, scopes>>
        BY <1>14 DEF CompleteCapability
      <3>6. CASE p \in pending /\ caps[p] = {w}
        <4>1. ctx' = [ctx EXCEPT ![p] = Restored(p, NoTask)]
          BY <1>14, <3>6 DEF CompleteCapability
        <4>2. Restored(p, NoTask) \in [Tasks -> Views]
          BY DEF Restored
        <4>3. ctx' \in [Procs -> [Tasks -> Views]]
          BY <4>1, <4>2
        <4>4. owner' \in [Procs -> Tasks \cup {NoTask}] /\ pending' \subseteq Procs
          BY <1>14, <3>6 DEF CompleteCapability, FinalizeRelease
        <4>5. os' \in Procs \cup {NoProc}
          BY <1>14, <3>6 DEF CompleteCapability, FinalizeRelease
        <4> QED
          BY <3>3, <3>4, <3>5, <4>3, <4>4, <4>5
      <3>7. CASE ~ (p \in pending /\ caps[p] = {w})
        <4>1. UNCHANGED <<os, owner, pending, ctx>>
          BY <1>14, <3>7 DEF CompleteCapability
        <4> QED
          BY <3>3, <3>4, <3>5, <4>1
      <3> QED
        BY <3>6, <3>7
    <2>2. LeaseInvOf(p)'
      BY <1>14, <2>1 DEF CompleteCapability, FinalizeRelease, Restored, LeaseInvOf
    <2>3. ASSUME NEW q \in Procs, q # p PROVE LeaseInvOf(q)'
      BY <1>14, <2>3 DEF CompleteCapability, FinalizeRelease, Restored, LeaseInvOf
    <2>4. QED
      BY <2>1, <2>2, <2>3
  <1>15. ASSUME NEW p \in Procs,
         DropGate(p)
       PROVE  LeaseInv'
    <2>1. TypeOK'
      BY <1>15 DEF DropGate, LeaseInvOf
    <2>2. LeaseInvOf(p)'
      BY <1>15, <2>1 DEF DropGate, LeaseInvOf
    <2>3. ASSUME NEW q \in Procs, q # p PROVE LeaseInvOf(q)'
      BY <1>15, <2>3 DEF DropGate, LeaseInvOf
    <2>4. QED
      BY <2>1, <2>2, <2>3
  <1>16. ASSUME NEW p \in Procs,
         Crash(p)
       PROVE  LeaseInv'
    <2>1. TypeOK'
      <3>1. scopes' \in [Procs -> [Actors -> 0..MaxDepth]]
        BY <1>16 DEF Crash
      <3>2. work' \in [Procs -> [Workers -> WorkStates]]
        BY <1>16 DEF Crash
      <3>3. ctx' \in [Procs -> [Tasks -> Views]]
        BY <1>16 DEF Crash
      <3>4. os' \in Procs \cup {NoProc}
        BY <1>16 DEF Crash
      <3>5. /\ gate' \in SUBSET Procs /\ pending' \in SUBSET Procs
            /\ acquiring' \in [Procs -> Tasks \cup {NoTask}]
            /\ owner' \in [Procs -> Tasks \cup {NoTask}]
            /\ depth' \in [Procs -> 0..MaxDepth]
            /\ caps' \in [Procs -> SUBSET Workers]
        BY <1>16 DEF Crash
      <3>6. QED
        BY <3>1, <3>2, <3>3, <3>4, <3>5
    <2>2. LeaseInvOf(p)'
      BY <1>16, <2>1 DEF Crash, LeaseInvOf
    <2>3. ASSUME NEW q \in Procs, q # p PROVE LeaseInvOf(q)'
      BY <1>16, <2>3 DEF Crash, LeaseInvOf
    <2>4. QED
      BY <2>1, <2>2, <2>3
  <1>17. CASE UNCHANGED vars
    <2>1. TypeOK'
      BY <1>17 DEF vars
    <2>2. ASSUME NEW q \in Procs PROVE LeaseInvOf(q)'
      BY <1>17, <2>2 DEF vars, LeaseInvOf
    <2>3. QED
      BY <2>1, <2>2
  <1>18. QED
    BY <1>1, <1>2, <1>3, <1>4, <1>5, <1>6, <1>7, <1>8, <1>9, <1>10, <1>11,
       <1>12, <1>13, <1>14, <1>15, <1>16, <1>17
       DEF Next, TaskStep, WorkerStep

\* The fields of the lease, its layers, workers and scopes always agree.
THEOREM LeaseInvariant == Spec => []LeaseInv
  <1>1. QED
    BY InitLeaseInv, NextLeaseInv, PTL DEF Spec

-----------------------------------------------------------------------------
(* What the invariant gives *)

\* An actor inside a scope proves that the lease of its process is held.
LEMMA InsideHeld ==
  ASSUME LeaseInv, NEW p \in Procs, NEW a \in Actors, scopes[p][a] > 0
  PROVE  held(p)
  <1>1. CASE a \in Tasks
    BY <1>1, ActorAssumption DEF LeaseInv, LeaseInvOf, held
  <1>2. CASE a \in Workers
    BY <1>2, ActorAssumption DEF LeaseInv, LeaseInvOf, held
  <1>3. QED
    BY <1>1, <1>2 DEF Actors

\* Whoever is inside a write scope, an abandoned worker included, is covered by
\* the advisory lock of its process.
THEOREM WriterHoldsLockHolds == Spec => []WriterHoldsLock
  <1>1. LeaseInv => WriterHoldsLock
    <2> SUFFICES ASSUME LeaseInv, NEW p \in Procs, NEW a \in Actors,
                        scopes[p][a] > 0
                 PROVE  os = p
      BY DEF WriterHoldsLock, Inside
    <2>1. held(p)
      BY InsideHeld
    <2>2. QED
      BY <2>1 DEF LeaseInv, LeaseInvOf
  <1>2. QED
    BY <1>1, LeaseInvariant, PTL

\* One logical operation writes in a process, and no inherited context enters.
THEOREM OneLogicalWriterHolds == Spec => []OneLogicalWriter
  <1>1. LeaseInv => OneLogicalWriter
    BY ActorAssumption
       DEF LeaseInv, LeaseInvOf, TypeOK, OneLogicalWriter, Inside, Actors, held
  <1>2. QED
    BY <1>1, LeaseInvariant, PTL

\* Neither layer is given back while a durable worker has not settled.
THEOREM LeaseOutlivesWorkersHolds == Spec => []LeaseOutlivesWorkers
  <1>1. LeaseInv => LeaseOutlivesWorkers
    BY ActorAssumption
       DEF LeaseInv, LeaseInvOf, TypeOK, LeaseOutlivesWorkers, held, WorkStates
  <1>2. QED
    BY <1>1, LeaseInvariant, PTL

\* The advisory lock is held behind a closed gate only.
THEOREM GateCoversLockHolds == Spec => []GateCoversLock
  <1>1. LeaseInv => GateCoversLock
    BY DEF LeaseInv, LeaseInvOf, GateCoversLock
  <1>2. QED
    BY <1>1, LeaseInvariant, PTL

\* Runtime logs are appended under the lock, by every actor inside a scope.
THEOREM LogsFollowLeaseHolds == Spec => []LogsFollowLease
  <1>1. LeaseInv => LogsFollowLease
    BY ActorAssumption
       DEF LeaseInv, LeaseInvOf, TypeOK, LogsFollowLease, HasActiveWriteLease,
           Actors, held
  <1>2. QED
    BY <1>1, LeaseInvariant, PTL

\* All of these at once: what a caller of the lease relies on.
THEOREM LeaseIsSafeHolds == Spec => []LeaseIsSafe
  <1>1. WriterHoldsLock /\ OneLogicalWriter /\ LeaseOutlivesWorkers
          /\ GateCoversLock /\ LogsFollowLease => LeaseIsSafe
    BY DEF LeaseIsSafe
  <1>2. QED
    BY <1>1, WriterHoldsLockHolds, OneLogicalWriterHolds, LeaseOutlivesWorkersHolds,
       GateCoversLockHolds, LogsFollowLeaseHolds, PTL

-----------------------------------------------------------------------------
(* The lease implements the abstract single writer *)

PairsInside == {x \in Procs \X Actors : scopes[x[1]][x[2]] > 0}

\* A process that does not hold the advisory lock has nobody inside.
LEMMA NobodyElseInside ==
  ASSUME LeaseInv, NEW x \in PairsInside
  PROVE  os = x[1] /\ x[1] \in Procs /\ x[2] \in Actors /\ x = <<x[1], x[2]>>
  <1>1. x[1] \in Procs /\ x[2] \in Actors /\ x = <<x[1], x[2]>>
    BY DEF PairsInside
  <1>2. held(x[1])
    BY <1>1, InsideHeld DEF PairsInside
  <1>3. QED
    BY <1>1, <1>2 DEF LeaseInv, LeaseInvOf

\* Every step of the lease is a step of the single writer or leaves it alone.
LEMMA StepRefines == LeaseInv /\ LeaseInv' /\ [Next]_vars => [SW!Next]_(SW!vars)
  <1> SUFFICES ASSUME LeaseInv, LeaseInv', [Next]_vars
               PROVE  SW!Next \/ UNCHANGED <<os, PairsInside>>
    BY DEF SW!vars, PairsInside
  <1> USE ActorAssumption
  <1>1. ASSUME NEW p \in Procs, NEW t \in Tasks, TakeLock(p, t)
        PROVE  SW!Grant(p)
    <2>1. PairsInside = {}
      BY <1>1, NobodyElseInside DEF TakeLock, PairsInside
    <2>2. PairsInside' = {<<p, t>>}
      BY <1>1, <2>1 DEF TakeLock, PairsInside, LeaseInv, TypeOK, Actors
    <2>3. QED
      BY <1>1, <2>2 DEF TakeLock, SW!Grant, PairsInside, Actors
  <1>2. ASSUME NEW p \in Procs, NEW t \in Tasks, Reenter(p, t)
        PROVE  UNCHANGED <<os, PairsInside>>
    BY <1>2 DEF Reenter, PairsInside, LeaseInv, LeaseInvOf, TypeOK, Actors
  <1>3. ASSUME NEW p \in Procs, NEW t \in Tasks, ReleaseInner(p, t)
        PROVE  UNCHANGED <<os, PairsInside>>
    BY <1>3 DEF ReleaseInner, PairsInside, LeaseInv, LeaseInvOf, TypeOK, Actors
  <1>4. ASSUME NEW p \in Procs, NEW t \in Tasks, ReleaseOuter(p, t)
        PROVE  SW!Leave(p, t)
    <2>1. <<p, t>> \in PairsInside
      BY <1>4 DEF ReleaseOuter, PairsInside, LeaseInv, LeaseInvOf, TypeOK, Actors
    <2>2. PairsInside' = PairsInside \ {<<p, t>>}
      BY <1>4 DEF ReleaseOuter, PairsInside, LeaseInv, TypeOK, Actors
    <2>3. os' = os \/ (os' = NoProc /\ PairsInside' = {})
      <3>1. CASE caps[p] = {}
        <4>1. os' = NoProc
          BY <1>4, <3>1 DEF ReleaseOuter, FinalizeRelease
        <4>2. \A x \in PairsInside : x = <<p, t>>
          BY <1>4, <3>1, NobodyElseInside
             DEF ReleaseOuter, LeaseInv, LeaseInvOf, PairsInside, Actors
        <4>3. QED
          BY <2>2, <4>1, <4>2
      <3>2. CASE caps[p] # {}
        BY <1>4, <3>2 DEF ReleaseOuter
      <3>3. QED
        BY <3>1, <3>2
    <2>4. QED
      BY <2>1, <2>2, <2>3 DEF SW!Leave, PairsInside
  <1>5. ASSUME NEW p \in Procs, NEW w \in Workers, WorkerEnter(p, w)
        PROVE  SW!Enter(p, w)
    <2>1. os = p /\ os' = os
      BY <1>5 DEF WorkerEnter, LeaseInv, LeaseInvOf
    <2>2. PairsInside' = PairsInside \cup {<<p, w>>}
      BY <1>5 DEF WorkerEnter, PairsInside, LeaseInv, TypeOK, Actors
    <2>3. QED
      BY <2>1, <2>2 DEF SW!Enter, PairsInside
  <1>6. ASSUME NEW p \in Procs, NEW w \in Workers, WorkerExit(p, w)
        PROVE  SW!Leave(p, w) \/ UNCHANGED <<os, PairsInside>>
    <2>1. <<p, w>> \in PairsInside /\ os' = os
      BY <1>6 DEF WorkerExit, PairsInside, Actors
    <2>2. PairsInside' = IF scopes[p][w] = 1 THEN PairsInside \ {<<p, w>>}
                                             ELSE PairsInside
      BY <1>6 DEF WorkerExit, PairsInside, LeaseInv, TypeOK, Actors
    <2>3. QED
      BY <2>1, <2>2 DEF SW!Leave, PairsInside
  <1>7. ASSUME NEW p \in Procs, NEW w \in Workers, CompleteCapability(p, w)
        PROVE  SW!HandBack(p) \/ UNCHANGED <<os, PairsInside>>
    <2>1. UNCHANGED PairsInside
      BY <1>7 DEF CompleteCapability, PairsInside
    <2>2. CASE p \in pending /\ caps[p] = {w}
      <3>1. os = p /\ os' = NoProc
        BY <1>7, <2>2 DEF CompleteCapability, FinalizeRelease, LeaseInv,
                          LeaseInvOf, held
      <3>2. PairsInside = {}
        <4>1. SUFFICES ASSUME NEW x \in PairsInside PROVE FALSE
          OBVIOUS
        <4>2. x[1] = p /\ x[2] \in Actors /\ scopes[p][x[2]] > 0
          BY <3>1, NobodyElseInside DEF PairsInside
        <4>3. LeaseInvOf(p)
          BY DEF LeaseInv
        <4>4. CASE x[2] \in Tasks
          BY <2>2, <4>2, <4>3, <4>4 DEF LeaseInvOf
        <4>5. CASE x[2] \in Workers
          BY <1>7, <2>2, <4>2, <4>3, <4>5 DEF CompleteCapability, LeaseInvOf
        <4>6. QED
          BY <4>2, <4>4, <4>5 DEF Actors
      <3>3. QED
        BY <2>1, <3>1, <3>2 DEF SW!HandBack, PairsInside
    <2>3. CASE ~ (p \in pending /\ caps[p] = {w})
      BY <1>7, <2>1, <2>3 DEF CompleteCapability
    <2>4. QED
      BY <2>2, <2>3
  <1>8. ASSUME NEW p \in Procs, Crash(p)
        PROVE  SW!Die(p) \/ UNCHANGED <<os, PairsInside>>
    <2>1. PairsInside' = {x \in PairsInside : x[1] # p}
      BY <1>8 DEF Crash, PairsInside, LeaseInv, TypeOK, Actors
    <2>2. CASE os = p
      BY <1>8, <2>1, <2>2, NobodyElseInside DEF Crash, SW!Die, PairsInside
    <2>3. CASE os # p
      BY <1>8, <2>1, <2>3, NobodyElseInside DEF Crash, PairsInside
    <2>4. QED
      BY <2>2, <2>3
  <1>9. ASSUME UNCHANGED <<os, scopes>>
        PROVE  UNCHANGED <<os, PairsInside>>
    BY <1>9 DEF PairsInside
  <1>10. CASE UNCHANGED vars
    BY <1>9, <1>10 DEF vars
  <1>11. CASE Next
    <2>1. PICK p \in Procs :
              \/ \E t \in Tasks : TaskStep(p, t)
              \/ \E w \in Workers : WorkerStep(p, w)
              \/ DropGate(p) \/ Crash(p)
      BY <1>11 DEF Next
    <2>2. ASSUME NEW t \in Tasks, TaskStep(p, t)
          PROVE  \/ SW!Grant(p) \/ SW!Leave(p, t)
                 \/ UNCHANGED <<os, PairsInside>>
      BY <2>2, <1>1, <1>2, <1>3, <1>4, <1>9
         DEF TaskStep, TakeGate, LockRefused, FreshContext, InheritContext,
             IssueCapability
    <2>3. ASSUME NEW w \in Workers, WorkerStep(p, w)
          PROVE  \/ SW!Enter(p, w) \/ SW!Leave(p, w) \/ SW!HandBack(p)
                 \/ UNCHANGED <<os, PairsInside>>
      BY <2>3, <1>5, <1>6, <1>7, <1>9
         DEF WorkerStep, ActivateCapability, WorkerReturn
    <2>4. CASE DropGate(p)
      BY <2>4, <1>9 DEF DropGate
    <2>5. QED
      BY <2>1, <2>2, <2>3, <2>4, <1>8 DEF SW!Next, Actors
  <1>12. QED
    BY <1>10, <1>11

\* The two-layer lease implements the abstract single writer: the data root has
\* one holder, only its actors write, and it changes hands when none does.
THEOREM LeaseRefinesSingleWriter == Spec => RefinesSingleWriter
  <1>1. Init => SW!Init
    BY DEF Init, SW!Init, Actors
  <1>2. LeaseInv /\ LeaseInv' /\ [Next]_vars => [SW!Next]_(SW!vars)
    BY StepRefines
  <1>3. QED
    BY <1>1, <1>2, LeaseInvariant, PTL DEF Spec, RefinesSingleWriter, SW!Spec

-----------------------------------------------------------------------------
(* The embedding generations *)

\* The theorems about the generations and the plans, for the instance of the run.
EP == INSTANCE EmbeddingProofs WITH
  Writers <- {e_w1, e_w2}, Readers <- IF Live THEN {} ELSE {e_r1},
  Gens <- IF Live THEN {g1, g2, g3} ELSE {g1, g2}, Contracts <- {k1},
  MaxCommits <- 1, MaxEdits <- IF Live THEN 0 ELSE 1,
  MaxFailures <- IF Live THEN 0 ELSE 1,
  MaxCrashes <- 1, Forced <- {FALSE}, Collisions <- ~Live, None <- none,
  source <- e_source, drift <- e_drift, config <- e_config, snapshot <- e_snapshot,
  gens <- e_gens, lease <- e_lease, job <- e_job, reader <- e_reader,
  intents <- e_intents, ever <- e_ever, refused <- e_refused, edits <- e_edits,
  failures <- e_failures, crashes <- e_crashes,
  Procs <- IF Live THEN {p1} ELSE {p1, p2}, Archiver <- arch, Free <- free,
  NoEndpoint <- nowhere, RealDim <- EndpointDim,
  PlanConfigs <- {AutoDim(ep1), [ep |-> ep1, dim |-> 4], AutoDim(ep2), AutoDim(nowhere)},
  MaxPlanEdits <- IF Live THEN 2 ELSE 1, MaxStops <- IF Live THEN 2 ELSE 1,
  MaxOps <- 1,
  p_src <- r_src, p_root <- r_root, p_dim <- r_dim, p_snap <- r_snap,
  p_lease <- r_lease, p_proc <- r_proc, p_count <- r_count

\* Every behaviour of the run is a behaviour of the generations.
LEMMA RunIsGenerations == MCSpec => Generations!Spec
  <1>1. MCInit => Generations!Init
    BY DEF MCInit
  <1>2. [MCNext]_mcvars => [Generations!Next]_(Generations!vars)
    BY DEF MCNext, InLease, InGeneration, InPlan, generation, mcvars, Generations!vars,
           Generations!budgets
  <1> QED
    BY <1>1, <1>2, PTL DEF MCSpec, Generations!Spec

\* The generations of the run are those the theorems are about.
LEMMA GenerationsIsEP == Generations!Spec => EP!Spec
  <1>1. Generations!Init => EP!Init
    BY DEF Generations!Init, EP!Init, Generations!NoDirectory, EP!NoDirectory,
           Generations!Idle, EP!Idle, Generations!IdleReader, EP!IdleReader
  <1>2. Generations!Next => EP!Next
    BY DEF Generations!Next, EP!Next, Generations!Rebuilding, EP!Rebuilding,
           Generations!WriteBase, EP!WriteBase, Generations!Commit, EP!Commit,
           Generations!Plan, EP!Plan, Generations!CheckPlan, EP!CheckPlan,
           Generations!TakeLease, EP!TakeLease, Generations!Build, EP!Build,
           Generations!Recheck, EP!Recheck, Generations!Reserve, EP!Reserve,
           Generations!Move, EP!Move, Generations!Intent, EP!Intent, Generations!Flip,
           EP!Flip, Generations!Complete, EP!Complete, Generations!ReportFailure,
           EP!ReportFailure, Generations!PublishNonReady, EP!PublishNonReady,
           Generations!Crash, EP!Crash, Generations!ReadSnapshot, EP!ReadSnapshot,
           Generations!Capture, EP!Capture, Generations!Resolve, EP!Resolve,
           Generations!FinishRead, EP!FinishRead, Generations!EditConfig, EP!EditConfig,
           Generations!EditDocument, EP!EditDocument, Generations!At, EP!At,
           Generations!Goto, EP!Goto, Generations!GoIdle, EP!GoIdle,
           Generations!Failing, EP!Failing, Generations!GiveUp, EP!GiveUp,
           Generations!world, EP!world, Generations!history, EP!history,
           Generations!budgets, EP!budgets, Generations!MergedNonReady,
           EP!MergedNonReady, Generations!Plannable, EP!Plannable,
           Generations!PlannedContract, EP!PlannedContract, Generations!PlanMatches,
           EP!PlanMatches, Generations!Flipped, EP!Flipped, Generations!Bindable,
           EP!Bindable, Generations!Inspection, EP!Inspection, Generations!InspectedAs,
           EP!InspectedAs, Generations!Loaded, EP!Loaded, Generations!Answer, EP!Answer,
           Generations!ValidGeneration, EP!ValidGeneration, Generations!NewExtension,
           EP!NewExtension, Generations!NoDirectory, EP!NoDirectory, Generations!Idle,
           EP!Idle, Generations!IdleReader, EP!IdleReader
  <1>3. [Generations!Next]_(Generations!vars) => [EP!Next]_(EP!vars)
    BY <1>2 DEF Generations!vars, EP!vars, Generations!budgets, EP!budgets
  <1> QED
    BY <1>1, <1>3, PTL DEF Generations!Spec, EP!Spec

\* The constants of the run satisfy the assumption.
LEMMA GenerationAssumption == EP!EmbeddingAssumption
  BY RuntimeAssumption DEF Generations!EmbeddingAssumption, EP!EmbeddingAssumption,
     Generations!Extensions, EP!Extensions, Generations!Commits, EP!Commits

\* The pointer of the run names whole generations only, forgets none it has named,
\* and its reads are whole.
THEOREM GenerationInvLift == MCSpec => []GenerationInv
  <1>1. EP!Spec => []EP!GenerationInv
    BY EP!GenerationInvHolds, GenerationAssumption
  <1>2. EP!GenerationInv => GenerationInv
    BY DEF GenerationInv, Generations!GenerationInv, EP!GenerationInv,
           Generations!EGTypeOK, EP!EGTypeOK, Generations!PointerIsWhole,
           EP!PointerIsWhole, Generations!EverActiveIsRetained, EP!EverActiveIsRetained,
           Generations!ActiveHasIntent, EP!ActiveHasIntent, Generations!BoundIsWhole,
           EP!BoundIsWhole, Generations!Extensions, EP!Extensions, Generations!Commits,
           EP!Commits, Generations!JobSteps, EP!JobSteps
  <1> QED
    BY RunIsGenerations, GenerationsIsEP, <1>1, <1>2, PTL

\* No step of the run activates what was not confirmed.
THEOREM ConfirmedIsActivatedLift == MCSpec => ConfirmedIsActivated
  <1>1. EP!Spec => EP!ConfirmedIsActivated
    BY EP!ConfirmedIsActivatedHolds, GenerationAssumption
  <1>2. EP!ConfirmedIsActivated => ConfirmedIsActivated
    BY DEF ConfirmedIsActivated,
           Generations!ConfirmedIsActivated, EP!ConfirmedIsActivated, Generations!At,
           EP!At, Generations!vars, EP!vars, Generations!budgets, EP!budgets
  <1> QED
    BY RunIsGenerations, GenerationsIsEP, <1>1, <1>2, PTL

-----------------------------------------------------------------------------
(* The plans of the data root *)

\* Every behaviour of the run is a behaviour of the plans.
LEMMA RunIsPlans == MCSpec => Plans!Spec
  <1>1. MCInit => Plans!Init
    BY DEF MCInit
  <1>2. [MCNext]_mcvars => [Plans!Next]_(Plans!vars)
    BY DEF MCNext, InLease, InGeneration, InPlan, plan, mcvars, Plans!vars
  <1> QED
    BY <1>1, <1>2, PTL DEF MCSpec, Plans!Spec

\* The plans of the run are those the theorems are about.
LEMMA PlansIsEP == Plans!Spec => EP!P!Spec
  <1>1. Plans!Init => EP!P!Init
    BY DEF Plans!Init, EP!P!Init, Plans!NoSnap, EP!P!NoSnap, Plans!NoDim, EP!P!NoDim,
           Plans!NoConfig, EP!P!NoConfig, Plans!NoPlan, EP!P!NoPlan, Plans!Idle, EP!P!Idle
  <1>2. Plans!Next => EP!P!Next
    BY DEF Plans!Next, EP!P!Next, Plans!Planning, EP!P!Planning, Plans!Executing,
           EP!P!Executing, Plans!Load, EP!P!Load, Plans!Plan, EP!P!Plan, Plans!Confirm,
           EP!P!Confirm, Plans!Check, EP!P!Check, Plans!BeginBootstrap, EP!P!BeginBootstrap,
           Plans!Acquire, EP!P!Acquire, Plans!Recheck, EP!P!Recheck, Plans!Reload,
           EP!P!Reload, Plans!Probe, EP!P!Probe, Plans!MakeDirectories, EP!P!MakeDirectories,
           Plans!MakeCache, EP!P!MakeCache, Plans!InitializeFresh, EP!P!InitializeFresh,
           Plans!Recover, EP!P!Recover, Plans!PersistDimension, EP!P!PersistDimension,
           Plans!Record, EP!P!Record, Plans!Stop, EP!P!Stop, Plans!Edit, EP!P!Edit,
           Plans!ArchiveBegin, EP!P!ArchiveBegin, Plans!ArchiveEnd, EP!P!ArchiveEnd,
           Plans!At, EP!P!At, Plans!Set, EP!P!Set, Plans!Goto, EP!P!Goto, Plans!Once, EP!P!Once,
           Plans!Leave, EP!P!Leave, Plans!First, EP!P!First, Plans!PersistedDim,
           EP!P!PersistedDim, Plans!ProvidersValid, EP!P!ProvidersValid, Plans!Contract,
           EP!P!Contract, Plans!SnapState, EP!P!SnapState, Plans!World, EP!P!World,
           Plans!Critical, EP!P!Critical, Plans!Readiness, EP!P!Readiness,
           Plans!ActionsKnownDimension, EP!P!ActionsKnownDimension, Plans!Actions,
           EP!P!Actions, Plans!Revision, EP!P!Revision, Plans!NoSnap, EP!P!NoSnap,
           Plans!NoDim, EP!P!NoDim, Plans!NoConfig, EP!P!NoConfig, Plans!NoPlan, EP!P!NoPlan,
           Plans!Idle, EP!P!Idle
  <1>3. [Plans!Next]_(Plans!vars) => [EP!P!Next]_(EP!P!vars)
    BY <1>2 DEF Plans!vars, EP!P!vars
  <1> QED
    BY <1>1, <1>3, PTL DEF Plans!Spec, EP!P!Spec

\* The constants of the run satisfy the assumption.
LEMMA PlanAssumption == EP!P!RPAssumption
  BY RuntimeAssumption DEF Plans!RPAssumption, EP!P!RPAssumption

\* In the run a plan is executed as it was shown, on the root it was shown for.
THEOREM PlanInvLift == MCSpec => []PlanInv
  <1>1. EP!P!Spec => []EP!P!PlanInv
    BY EP!PlanInvHolds, PlanAssumption
  <1>2. EP!P!PlanInv => PlanInv
    BY DEF PlanInv, Plans!PlanInv, EP!P!PlanInv, Plans!TypeOK, EP!P!TypeOK,
           Plans!ProbeIsConfirmed, EP!P!ProbeIsConfirmed, Plans!PlanStillHolds,
           EP!P!PlanStillHolds, Plans!OnlyNewRootsAreSetUp, EP!P!OnlyNewRootsAreSetUp,
           Plans!SnapshotDimensionIsReal, EP!P!SnapshotDimensionIsReal, Plans!Stages,
           EP!P!Stages, Plans!At, EP!P!At, Plans!World, EP!P!World, Plans!NoSnap, EP!P!NoSnap,
           Plans!NoDim, EP!P!NoDim, Plans!NoConfig, EP!P!NoConfig
  <1> QED
    BY RunIsPlans, PlansIsEP, <1>1, <1>2, PTL

\* The snapshot of the run is written once, over a ready root.
THEOREM SnapshotsAreFinalLift == MCSpec => SnapshotsAreFinal
  <1>1. EP!P!Spec => EP!P!SnapshotsAreFinal
    BY EP!SnapshotsAreFinalHolds, PlanAssumption
  <1>2. EP!P!SnapshotsAreFinal => SnapshotsAreFinal
    BY DEF SnapshotsAreFinal,
           Plans!SnapshotsAreFinal, EP!P!SnapshotsAreFinal, Plans!SnapshotIsKept,
           EP!P!SnapshotIsKept, Plans!RecordedIsReady, EP!P!RecordedIsReady,
           Plans!Readiness, EP!P!Readiness, Plans!PersistedDim, EP!P!PersistedDim,
           Plans!ProvidersValid, EP!P!ProvidersValid, Plans!SnapState, EP!P!SnapState,
           Plans!Contract, EP!P!Contract, Plans!Critical, EP!P!Critical, Plans!NoSnap,
           EP!P!NoSnap, Plans!NoDim, EP!P!NoDim, Plans!At, EP!P!At, Plans!vars, EP!P!vars
  <1> QED
    BY RunIsPlans, PlansIsEP, <1>1, <1>2, PTL
==============================================================================
