------------------------------ MODULE MCQueues ------------------------------
(* The three work queues on small instances, in one state space.  They share *)
(* no variable here, so each behaviour chooses at its start the queue that    *)
(* moves (part) and leaves the other two in their initial states: what holds  *)
(* of the sum holds of each queue, and nothing is multiplied.                 *)
EXTENDS ContentLifecycle, TLC

CONSTANTS a1, a2, d1, r1, e1, w1, w2,
          ForLiveness   \* TRUE: the instances for liveness

\* The delete is of the row the first archive inserts.
MCTarget == [d \in Deletes |-> a1]
NoFaults == {}
JournalFaults == {"journal"}

VARIABLES part,
          i_row, i_order, i_raw, i_space, i_attempts, i_docs, i_q1, i_lease,
          i_job, i_crashes,
          d_doc, d_task, d_order, d_q1p, d_resv, d_binding, d_policy, d_day,
          d_lease, d_job, d_crashes

Q0 == INSTANCE IngressLifecycle WITH
        Requests <- {r1}, Workers <- {w1, w2}, MaxTasks <- 1,
        MaxCrashes <- IF ForLiveness THEN 0 ELSE 2, Denials <- TRUE, Slow <- ~ForLiveness,
        OtherTriggers <- ~ForLiveness,
        row <- i_row, order <- i_order, raw <- i_raw, space <- i_space,
        attempts <- i_attempts, docs <- i_docs, q1 <- i_q1, lease <- i_lease,
        job <- i_job, crashes <- i_crashes

Q2 == INSTANCE DerivationLifecycle WITH
        Docs <- {e1}, Workers <- IF ForLiveness THEN {w1} ELSE {w1, w2}, MaxAttempts <- 2,
        Cap <- IF ForLiveness THEN 6 ELSE 3, MaxPolicies <- 2,
        MaxDays <- IF ForLiveness THEN 1 ELSE 2,
        MaxCrashes <- IF ForLiveness THEN 1 ELSE 0, Deletes <- ~ForLiveness, Slow <- ~ForLiveness,
        doc <- d_doc, task <- d_task, order <- d_order, q1p <- d_q1p,
        resv <- d_resv, binding <- d_binding, policy <- d_policy, day <- d_day,
        lease <- d_lease, job <- d_job, crashes <- d_crashes

ASSUME QueuesAssumption == Q0!IngressAssumption /\ Q2!DerivationAssumption

content == <<proof, vault, quar, rows, journal, run, result, boot, todo, edits,
             task, live, order, handoff, deriv, worker, crashes>>
ingress == <<i_row, i_order, i_raw, i_space, i_attempts, i_docs, i_q1, i_lease,
             i_job, i_crashes>>
derivation == <<d_doc, d_task, d_order, d_q1p, d_resv, d_binding, d_policy, d_day,
                d_lease, d_job, d_crashes>>
mcvars == <<part, content, ingress, derivation>>

InContent(A) == part = "content" /\ A /\ UNCHANGED <<part, ingress, derivation>>
InIngress(A) == part = "ingress" /\ A /\ UNCHANGED <<part, content, derivation>>
\* After a change of the policy, or a night, one worker is at work at a time, and
\* the document stays.
Changed == (d_policy'.fp # 1 \/ d_day' # 1) =>
             /\ Cardinality({w \in DOMAIN d_job' : d_job'[w].at # "idle"}) <= 1
             /\ d_doc'[e1] # "deleted"
             /\ d_policy'.fp = 1 \/ d_day' = 1
InDerivation(A) == part = "derivation" /\ A /\ UNCHANGED <<part, content, ingress>>

MCInit == /\ part \in {"content", "ingress", "derivation"}
          /\ QInit /\ Q0!Init /\ Q2!Init
MCNext == InContent(QNext) \/ InIngress(Q0!Next) \/ InDerivation(Q2!Next /\ Changed)
MCSpec == MCInit /\ [][MCNext]_mcvars

\* The fairness of the three modules.  Only one part ever moves, so a strong
\* condition on one and a strong condition on another are stated as one.
MCFairness ==
  /\ WF_mcvars(InContent(WorkerStep)) /\ WF_mcvars(InContent(StorageStep))
  /\ WF_mcvars(InContent(Boot))
  /\ \A w \in {w1, w2} :
       WF_mcvars(InIngress(Q0!Step(w))) /\ WF_mcvars(InIngress(Q0!LaterCall(w)))
  /\ WF_mcvars(InIngress(Q0!ClaimExpires(r1))) /\ WF_mcvars(InIngress(Q0!BackoffEnds(r1)))
  /\ WF_mcvars(InDerivation(Q2!Step(w1))) /\ WF_mcvars(InDerivation(Q2!Approve))
  /\ \A t \in Q2!Tasks :
       /\ WF_mcvars(InDerivation(Q2!Handoff(t)))
       /\ WF_mcvars(InDerivation(Q2!ClaimExpires(t)))
       /\ WF_mcvars(InDerivation(Q2!BackoffEnds(t)))
  /\ SF_mcvars(\/ \E w \in {w1, w2} : InIngress(Q0!RecoverExpired(w))
               \/ \E o \in Ops : InContent(SupersedeDerivations(o))
               \/ \E t \in Q2!Tasks : InDerivation(Q2!Trigger(w1, t)))
  /\ SF_mcvars(\/ \E w \in {w1, w2} : InIngress(Q0!Claim(w))
               \/ \E o \in Ops : InContent(EnsureHandoff(o))
               \/ InDerivation(Q2!Claim(w1)))
  /\ SF_mcvars(\/ \E w \in {w1, w2} : InIngress(Q0!Rejoin(w))
               \/ \E o \in Ops : InContent(PublishBinding(o))
               \/ InDerivation(Q2!Refresh(w1)))
  /\ SF_mcvars(\/ \E w \in {w1, w2} : InIngress(Q0!ParseSucceeds(w))
               \/ \E o \in Ops : InContent(ActivateDerivation(o))
               \/ InDerivation(Q2!SweepFirst))
  /\ SF_mcvars(\/ \E w \in {w1, w2} : InIngress(Q0!WriteDocument(w))
               \/ InContent(RecoverAndDrain))
  /\ SF_mcvars(\E w \in {w1, w2} : InIngress(Q0!MarkRejected(w)))

MCFairSpec == MCSpec /\ MCFairness

\* Accepted requests are never lost and are archived from one document.
IngressInv == Q0!IngressInv
\* What is settled stays settled, see IngressLifecycle.
NoLateReopening == Q0!NoLateReopening
\* Completed archives carry their summary and no day exceeds its cap.
DerivationInv == Q2!DerivationInv
\* A live claim is its worker's alone and what it publishes is final.
ClaimsAreFenced == Q2!ClaimsAreFenced
\* Every accepted request is submitted or rejected in the end.
RequestsSettle == Q0!RequestsSettle
\* Every waiting derivation comes to an end or to a ceiling.
TasksSettle == Q2!TasksSettle

QueueSymmetry == Permutations({w1, w2})
=============================================================================
