------------------------------ MODULE MCRuntime ------------------------------
(* The write lease, the embedding generations and the plans of the data root  *)
(* on small instances, in one state space.  Each behaviour chooses at its      *)
(* start the one that moves (part); the others stay in one initial state.      *)
EXTENDS WriteLease, TLC

CONSTANTS q1, q2, lw, e_w1, e_w2, e_r1, g1, g2, g3, k1, none,
          p1, p2, ep1, ep2, nowhere, arch, free,
          Live   \* TRUE: the instances for liveness

VARIABLES part,
          e_source, e_drift, e_config, e_snapshot, e_gens, e_lease, e_job,
          e_reader, e_intents, e_ever, e_refused, e_edits, e_failures, e_crashes,
          r_src, r_root, r_dim, r_snap, r_lease, r_proc, r_count

Generations == INSTANCE EmbeddingGeneration WITH
  Writers <- {e_w1, e_w2}, Readers <- IF Live THEN {} ELSE {e_r1},
  Gens <- IF Live THEN {g1, g2, g3} ELSE {g1, g2}, Contracts <- {k1},
  MaxCommits <- 1, MaxEdits <- IF Live THEN 0 ELSE 1,
  MaxFailures <- IF Live THEN 0 ELSE 1,
  MaxCrashes <- 1, Forced <- {FALSE}, Collisions <- ~Live, None <- none,
  source <- e_source, drift <- e_drift, config <- e_config, snapshot <- e_snapshot,
  gens <- e_gens, lease <- e_lease, job <- e_job, reader <- e_reader,
  intents <- e_intents, ever <- e_ever, refused <- e_refused, edits <- e_edits,
  failures <- e_failures, crashes <- e_crashes

\* Two endpoints, one of them with an automatic and a wrongly declared
\* dimension, and settings that no provider can serve.
AutoDim(e) == [ep |-> e, dim |-> 0]
EndpointDim(e) == IF e = ep1 THEN 3 ELSE 4

Plans == INSTANCE RuntimePlan WITH
  Procs <- IF Live THEN {p1} ELSE {p1, p2}, Archiver <- arch, Free <- free,
  NoEndpoint <- nowhere, RealDim <- EndpointDim,
  Configs <- {AutoDim(ep1), [ep |-> ep1, dim |-> 4], AutoDim(ep2), AutoDim(nowhere)},
  MaxEdits <- IF Live THEN 2 ELSE 1, MaxStops <- IF Live THEN 2 ELSE 1,
  MaxOps <- 1,
  src <- r_src, root <- r_root, dim <- r_dim, snap <- r_snap, lease <- r_lease,
  proc <- r_proc, count <- r_count

ASSUME RuntimeAssumption == Generations!EmbeddingAssumption /\ Plans!RPAssumption

generation == <<e_source, e_drift, e_config, e_snapshot, e_gens, e_lease, e_job,
                e_reader, e_intents, e_ever, e_refused, e_edits, e_failures, e_crashes>>
plan == <<r_src, r_root, r_dim, r_snap, r_lease, r_proc, r_count>>
mcvars == <<part, vars, generation, plan>>

InLease(A) == part = "lease" /\ A /\ UNCHANGED <<part, generation, plan>>
InGeneration(A) == part = "generation" /\ A /\ UNCHANGED <<part, vars, plan>>
InPlan(A) == part = "plan" /\ A /\ UNCHANGED <<part, vars, generation>>

MCInit == /\ part \in {"lease", "generation", "plan"}
          /\ Init /\ Generations!Init /\ Plans!Init
          /\ part # "plan" => r_src = AutoDim(ep1) /\ r_root.db = "fresh"
MCNext == InLease(Next) \/ InGeneration(Generations!Next) \/ InPlan(Plans!Next)
MCSpec == MCInit /\ [][MCNext]_mcvars

\* The fairness of the three modules.  Only one part ever moves, so a strong
\* condition on one and a strong condition on another are stated as one.
MCFairSpec ==
  /\ MCSpec
  /\ \A p \in {q1, q2} :
       /\ WF_mcvars(InLease(DropGate(p)))
       /\ \A t \in Tasks : WF_mcvars(InLease(TakeLock(p, t) \/ LockRefused(p, t)))
       /\ \A w \in Workers : /\ WF_mcvars(InLease(ActivateCapability(p, w)))
                             /\ WF_mcvars(InLease(WorkerExit(p, w) \/ CompleteCapability(p, w)))
  /\ \A w \in {e_w1, e_w2} : /\ WF_mcvars(InGeneration(Generations!Rebuilding(w)))
                             /\ WF_mcvars(InGeneration(Generations!WriteBase(w)))
  /\ WF_mcvars(InGeneration(e_drift /\ Generations!EditDocument))
  /\ WF_mcvars(InPlan(Plans!Plan(p1))) /\ WF_mcvars(InPlan(Plans!Check(p1)))
  /\ WF_mcvars(InPlan(Plans!Executing(p1)))
  /\ WF_mcvars(InPlan(\E died \in BOOLEAN : Plans!ArchiveEnd(died)))
  /\ SF_mcvars(\/ InGeneration(e_lease = none /\ \E w \in {e_w1, e_w2} : Generations!TakeLease(w))
               \/ InPlan(Plans!Acquire(p1))
               \/ InLease(WorkerReturn(q1, lw)))
  /\ SF_mcvars(\/ InGeneration(/\ Generations!Inspection(e_config.contract).state # "ready"
                               /\ \E w \in {e_w1, e_w2} : Generations!Plan(w))
               \/ InPlan(Plans!Load(p1))
               \/ InLease(WorkerReturn(q2, lw)))
  /\ SF_mcvars(\/ InPlan(Plans!Confirm(p1, TRUE))
               \/ InLease(WorkerExit(q1, lw) /\ scopes[q1][lw] = 1))
  /\ SF_mcvars(\/ InPlan(Plans!BeginBootstrap(p1))
               \/ InLease(WorkerExit(q2, lw) /\ scopes[q2][lw] = 1))

\* Whole pointers, retained generations, logged intents and whole reads.
GenerationInv == Generations!GenerationInv
\* What is activated is what was confirmed, see EmbeddingGeneration.
ConfirmedIsActivated == Generations!ConfirmedIsActivated
\* A plan is executed as it was shown and on the root it was shown for.
PlanInv == Plans!PlanInv
\* A snapshot is written once, over a ready root, see RuntimePlan.
SnapshotsAreFinal == Plans!SnapshotsAreFinal
\* Once commits, edits and deaths are over the index becomes ready again.
IndexBecomesReady == Generations!IndexBecomesReady
\* A database whose setup died before the snapshot gets one from a later plan.
SetupIsCompleted == Plans!SetupIsCompleted

RuntimeSymmetry == Permutations({e_w1, e_w2}) \cup Permutations({g1, g2})
=============================================================================
