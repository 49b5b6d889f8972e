----------------------------- MODULE QueueProofs -----------------------------
(***************************************************************************)
(* Theorems about the two queues of work.  First the derivations of Q2,    *)
(* for any documents, workers, policies, days, caps and ceilings of        *)
(* retries, with claims that run out and workers that die; then the        *)
(* ingress queue Q0, for any requests and callers, any number of visits of *)
(* a drain, and any number of crashes and of claims that run out.          *)
(***************************************************************************)
EXTENDS DerivationLifecycle, FiniteSetTheorems, TLAPS


Digests == [Docs -> Revisions]
Patches == [policy : 0..MaxPolicies, attempt : 0..MaxAttempts, input : Digests]
Rows == [state : TaskStates, attempts : 0..MaxAttempts, live : BOOLEAN, backoff : BOOLEAN,
         digest : Digests, policy : 0..MaxPolicies, patch : Patches, applied : BOOLEAN]
Reservations == [state : {"none", "reserved", "settled", "released"},
                 policy : 0..MaxPolicies, day : Nat, covers : SUBSET Calls,
                 made : SUBSET Calls]
Bindings == [state : {"none", "nonready", "ready"}, digest : Digests]
Jobs == [at : JobSteps, t : Tasks \cup {None}, n : 0..MaxAttempts, seen : Rows,
         policy : [fp : 0..MaxPolicies, approved : BOOLEAN], source : Digests,
         base : Bindings]

Typed ==
  /\ doc \in Digests /\ task \in [Tasks -> Rows]
  /\ q1p \in [Docs -> {"none", "accepted", "completed", "rejected"}]
  /\ resv \in [Tasks -> [Attempts -> Reservations]]
  /\ binding \in Bindings /\ policy \in [fp : Policies, approved : BOOLEAN]
  /\ day \in Nat /\ lease \in Workers \cup {None} /\ job \in [Workers -> Jobs]

\* The steps of a worker that has claimed its task, those with nothing reserved
\* yet, those with an open reservation, and those after the patch of an archive.
Claimed == {"check", "reserve", "hide", "llm", "record", "submit", "ack", "embed",
            "publish", "settle", "mark", "fail", "failmark"}
Unreserved == {"check", "reserve", "hide"}
Reserved == {"llm", "record", "submit", "ack", "embed", "publish", "settle", "fail"}
Patched == {"embed", "publish", "settle", "mark"}

\* What a row tells: of its claim, and of the patch of its document in Q1'.
RowFits(row, t, patch) ==
  /\ row.live => row.state = "processing"
  /\ row.state = "processing" => ~ row.backoff
  /\ row.applied => patch = "completed"
  /\ IsArchive(t) /\ row.state = "completed" => row.applied
RowKnows(t) == RowFits(task[t], t, q1p[Doc(t)])

\* What a document tells of its rows: they come with its archive and its delete.
DocKnows(d) ==
  /\ q1p[d] = "completed" => doc[d] \in {"patched", "deleted"}
  /\ doc[d] = "patched" => q1p[d] = "completed"
  /\ doc[d] = "none" => task[<<d, "archive">>].state = "none"
  /\ doc[d] # "deleted" => task[<<d, "delete">>].state = "none"

\* What a reservation tells: only reserved calls are made, and what was made is
\* never released.
EntryKnows(t, n) ==
  /\ resv[t][n].made \subseteq resv[t][n].covers
  /\ resv[t][n].state \in {"none", "released"} => resv[t][n].made = {}
  /\ resv[t][n].state = "reserved" => "embedding" \in resv[t][n].covers
  /\ n > task[t].attempts => resv[t][n] = Unused

\* The ledger stays within the cap.
LedgerKnows == \A fp \in 0..MaxPolicies, d \in Nat : Spent(fp, d) <= Cap

\* What a worker may rely on between two of its steps.
JobKnows(w) ==
  /\ ~ At(w, "idle") => job[w].t \in Tasks /\ task[job[w].t].state # "none"
  /\ job[w].at \in Claimed =>
       /\ job[w].n \in 1..task[job[w].t].attempts
       /\ job[w].seen.applied => task[job[w].t].applied
  /\ job[w].at \in Unreserved => resv[job[w].t][job[w].n] = Unused
  /\ job[w].at \in Reserved => resv[job[w].t][job[w].n].state = "reserved"
  /\ At(w, "llm") => "llm" \in resv[job[w].t][job[w].n].covers
  /\ job[w].at \in Patched /\ IsArchive(job[w].t) => task[job[w].t].applied

\* No two workers work on one attempt.
Apart(v, w) ==
  job[v].at \in Claimed /\ job[w].at \in Claimed /\ job[v].t = job[w].t =>
    job[v].n # job[w].n

\* The inductive invariant of the queue.
RowsKnow == \A t \in Tasks : RowKnows(t)
DocsKnow == \A d \in Docs : DocKnows(d)
EntriesKnow == \A t \in Tasks, n \in Attempts : EntryKnows(t, n)
JobsKnow == \A w \in Workers : JobKnows(w)
JobsApart == \A v, w \in Workers : v # w => Apart(v, w)

DerivationKnows == /\ Typed /\ RowsKnow /\ DocsKnow /\ EntriesKnow /\ LedgerKnows
                   /\ JobsKnow /\ JobsApart

-----------------------------------------------------------------------------
(* The ledger *)

Entries == Tasks \X Attempts \X Calls

\* A pair of two things is finite.
LEMMA PairIsFinite == ASSUME NEW a, NEW b PROVE IsFiniteSet({a, b})
  <1>1. IsFiniteSet({a}) /\ IsFiniteSet({b})
    BY FS_Singleton
  <1>2. IsFiniteSet({a} \cup {b})
    BY <1>1, FS_Union
  <1>3. {a, b} = {a} \cup {b}
    OBVIOUS
  <1> QED
    BY <1>2, <1>3

\* There are finitely many calls to pay for.
LEMMA EntriesAreFinite == DerivationAssumption => IsFiniteSet(Entries)
  <1> SUFFICES ASSUME DerivationAssumption PROVE IsFiniteSet(Entries)
    OBVIOUS
  <1> DEFINE S == (Tasks \X Attempts) \X Calls
             f == [s \in S |-> <<s[1][1], s[1][2], s[2]>>]
  <1>1. IsFiniteSet({"archive", "delete"}) /\ IsFiniteSet(Calls)
    BY PairIsFinite DEF Calls
  <1>2. IsFiniteSet(Attempts)
    <2>1. MaxAttempts \in Int /\ 1 \in Int
      BY DEF DerivationAssumption
    <2> QED
      BY <2>1, FS_Interval DEF Attempts
  <1>3. IsFiniteSet(Tasks)
    BY <1>1, FS_Product DEF Tasks, DerivationAssumption
  <1>4. IsFiniteSet(S)
    <2>1. IsFiniteSet(Tasks \X Attempts)
      BY <1>2, <1>3, FS_Product
    <2> QED
      BY <1>1, <2>1, FS_Product
  <1>5. f \in Surjection(S, Entries)
    <2>1. ASSUME NEW c \in Entries PROVE \E s \in S : f[s] = c
      <3>1. PICK t \in Tasks, n \in Attempts, k \in Calls : c = <<t, n, k>>
        BY DEF Entries
      <3>2. <<<<t, n>>, k>> \in S /\ f[<<<<t, n>>, k>>] = <<t, n, k>>
        OBVIOUS
      <3> QED
        BY <3>1, <3>2
    <2>2. f \in [S -> Entries]
      BY DEF Entries
    <2> QED
      BY <2>1, <2>2 DEF Surjection
  <1> QED
    BY <1>4, <1>5, FS_Surjection

\* What is counted is finite.
LEMMA CountedIsFinite ==
  ASSUME DerivationAssumption, NEW fp, NEW d
  PROVE  /\ Counted(fp, d) \subseteq Entries /\ IsFiniteSet(Counted(fp, d))
         /\ Spent(fp, d) \in Nat
  <1>1. Counted(fp, d) \subseteq Entries
    BY DEF Counted, Entries
  <1>2. IsFiniteSet(Counted(fp, d))
    BY <1>1, EntriesAreFinite, FS_Subset
  <1> QED
    BY <1>1, <1>2, FS_CardinalityType DEF Spent

\* A call that was made was reserved, and is still counted.
LEMMA MadeIsCounted ==
  ASSUME DerivationAssumption, Typed, EntriesKnow, NEW fp, NEW d
  PROVE  Made(fp, d) \subseteq Counted(fp, d)
  <1> SUFFICES ASSUME NEW c \in Made(fp, d) PROVE c \in Counted(fp, d)
    OBVIOUS
  <1> DEFINE r == resv[c[1]][c[2]]
  <1>1. c \in Tasks \X Attempts \X Calls /\ r.policy = fp /\ r.day = d /\ c[3] \in r.made
    BY DEF Made
  <1>2. c[1] \in Tasks /\ c[2] \in Attempts
    BY <1>1
  <1>3. r \in Reservations /\ EntryKnows(c[1], c[2])
    BY <1>2 DEF Typed, EntriesKnow
  <1>4. c[3] \in r.covers /\ r.state \in {"reserved", "settled"}
    BY <1>1, <1>3 DEF EntryKnows, Reservations
  <1> QED
    BY <1>1, <1>4 DEF Counted

\* What is reserved at once adds no more to the sum than it covers.
LEMMA ReservationAdds ==
  ASSUME DerivationAssumption, NEW S \in SUBSET Entries, NEW needs \in SUBSET Calls,
         NEW t \in Tasks, NEW n \in Attempts
  PROVE  /\ Cardinality(S \cup {<<t, n, k>> : k \in needs})
               <= Cardinality(S) + Cardinality(needs)
         /\ Cardinality(S \cup {<<t, n, k>> : k \in needs}) \in Nat
         /\ Cardinality(S) \in Nat /\ Cardinality(needs) \in Nat
  <1> DEFINE T == {<<t, n, k>> : k \in needs}
             f == [k \in needs |-> <<t, n, k>>]
  <1>1. IsFiniteSet(S)
    BY EntriesAreFinite, FS_Subset
  <1>2. IsFiniteSet(needs)
    <2>1. IsFiniteSet(Calls)
      BY PairIsFinite DEF Calls
    <2> QED
      BY <2>1, FS_Subset
  <1>3. f \in Surjection(needs, T)
    <2>1. f \in [needs -> T] /\ \A x \in T : \E k \in needs : f[k] = x
      OBVIOUS
    <2> QED
      BY <2>1 DEF Surjection
  <1>4. IsFiniteSet(T) /\ Cardinality(T) <= Cardinality(needs)
    BY <1>2, <1>3, FS_Surjection
  <1>5. Cardinality(S \cup T) = Cardinality(S) + Cardinality(T) - Cardinality(S \cap T)
        /\ IsFiniteSet(S \cup T)
    BY <1>1, <1>4, FS_Union
  <1>6. IsFiniteSet(S \cap T)
    BY <1>1, FS_Subset
  <1>7. /\ Cardinality(S) \in Nat /\ Cardinality(T) \in Nat /\ Cardinality(needs) \in Nat
        /\ Cardinality(S \cap T) \in Nat /\ Cardinality(S \cup T) \in Nat
    BY <1>1, <1>2, <1>4, <1>5, <1>6, FS_CardinalityType
  <1> QED
    BY <1>4, <1>5, <1>7

\* The invariant gives the cap.
LEMMA CapKept == DerivationAssumption /\ DerivationKnows => ChargesWithinCap
  <1> SUFFICES ASSUME DerivationAssumption, DerivationKnows,
                      NEW fp \in Policies, NEW d \in 1..MaxDays
               PROVE  Cardinality(Made(fp, d)) <= Cap
    BY DEF ChargesWithinCap
  <1>1. Made(fp, d) \subseteq Counted(fp, d)
    BY MadeIsCounted DEF DerivationKnows
  <1>2. fp \in 0..MaxPolicies /\ d \in Nat /\ Cap \in Nat
    BY DEF Policies, DerivationAssumption
  <1>3. Spent(fp, d) <= Cap /\ Spent(fp, d) \in Nat
    BY <1>2, CountedIsFinite DEF DerivationKnows, LedgerKnows
  <1>4. /\ Cardinality(Made(fp, d)) <= Cardinality(Counted(fp, d))
        /\ IsFiniteSet(Made(fp, d))
    BY <1>1, CountedIsFinite, FS_Subset
  <1>5. Cardinality(Made(fp, d)) \in Nat
    BY <1>4, FS_CardinalityType
  <1> QED
    BY <1>2, <1>3, <1>4, <1>5 DEF Spent

\* A step that counts nothing new stays within the cap.
LEMMA LedgerShrinks ==
  ASSUME DerivationAssumption, LedgerKnows,
         \A fp, d : Counted(fp, d)' \subseteq Counted(fp, d)
  PROVE  LedgerKnows'
  <1> SUFFICES ASSUME NEW fp \in 0..MaxPolicies, NEW d \in Nat
               PROVE  (Spent(fp, d) <= Cap)'
    BY DEF LedgerKnows
  <1>1. Spent(fp, d) <= Cap /\ Spent(fp, d) \in Nat /\ Cap \in Nat
    BY CountedIsFinite DEF LedgerKnows, DerivationAssumption
  <1>2. /\ Cardinality(Counted(fp, d)') <= Cardinality(Counted(fp, d))
        /\ IsFiniteSet(Counted(fp, d)')
    BY CountedIsFinite, FS_Subset
  <1>3. Cardinality(Counted(fp, d)') \in Nat
    BY <1>2, FS_CardinalityType
  <1> QED
    BY <1>1, <1>2, <1>3 DEF Spent

-----------------------------------------------------------------------------
(* Rows *)

\* A new row, and what an idle worker holds.
LEMMA IdleTyped ==
  DerivationAssumption =>
    /\ NoPatch \in Patches /\ NewTask \in Rows /\ NoPatch.input \in Digests
    /\ Idle \in Jobs /\ Unused \in Reservations
  <1>1. NoPatch.input = [d \in Docs |-> "none"] /\ NoPatch.input \in Digests
    BY DEF NoPatch, Digests, Revisions
  <1>2. DerivationAssumption => 0 \in 0..MaxPolicies /\ 0 \in 0..MaxAttempts
    BY DEF DerivationAssumption
  <1> QED
    BY <1>1, <1>2
    DEF NoPatch, NewTask, Idle, Unused, Patches, Rows, Jobs, Reservations, Bindings,
        TaskStates, JobSteps

\* What every row operation keeps: attempts are never given back, what is applied
\* stays applied, and a row stays.
GoesOn(new, old) ==
  /\ new.attempts >= old.attempts /\ (old.applied => new.applied)
  /\ new.state = "none" <=> old.state = "none"

\* One field of a row is set.
LEMMA SetState ==
  ASSUME NEW row \in Rows, NEW s \in TaskStates
  PROVE  [row EXCEPT !.state = s] \in Rows
  BY DEF Rows

\* Its claim.
LEMMA SetLive ==
  ASSUME NEW row \in Rows, NEW b \in BOOLEAN
  PROVE  [row EXCEPT !.live = b] \in Rows
  BY DEF Rows

\* Its pause.
LEMMA SetBackoff ==
  ASSUME NEW row \in Rows, NEW b \in BOOLEAN
  PROVE  [row EXCEPT !.backoff = b] \in Rows
  BY DEF Rows

\* Its plan.
LEMMA SetPlan ==
  ASSUME NEW row \in Rows, NEW digest \in Digests, NEW fp \in 0..MaxPolicies
  PROVE  [row EXCEPT !.digest = digest, !.policy = fp] \in Rows
  BY DEF Rows

\* A row that is settled, paused or given back: state, claim and backoff at once.
SetEnd(row, s) ==
  [row EXCEPT !.state = s, !.live = FALSE, !.backoff = (s = "retry_required")]
SetWait(row, s) == [row EXCEPT !.state = s, !.backoff = FALSE]

\* They keep the other fields.
LEMMA SetClaim ==
  ASSUME NEW row \in Rows, NEW s \in TaskStates, NEW new, new = SetEnd(row, s)
  PROVE  /\ new \in Rows /\ new.state = s /\ ~ new.live
         /\ new.attempts = row.attempts /\ (new.applied <=> row.applied)
         /\ new.policy = row.policy
  <1> DEFINE r1 == [row EXCEPT !.state = s]
             r2 == [r1 EXCEPT !.live = FALSE]
             r3 == [r2 EXCEPT !.backoff = (s = "retry_required")]
  <1>1. /\ r1 \in Rows /\ r1.state = s
        /\ r1.attempts = row.attempts /\ (r1.applied <=> row.applied) /\ r1.policy = row.policy
    BY SetState DEF Rows
  <1> HIDE DEF r1
  <1>2. /\ r2 \in Rows /\ r2.state = s /\ ~ r2.live
        /\ r2.attempts = row.attempts /\ (r2.applied <=> row.applied) /\ r2.policy = row.policy
    BY <1>1, SetLive DEF Rows
  <1> HIDE DEF r2
  <1>3. /\ r3 \in Rows /\ r3.state = s /\ ~ r3.live
        /\ r3.attempts = row.attempts /\ (r3.applied <=> row.applied) /\ r3.policy = row.policy
    BY <1>2, SetBackoff DEF Rows
  <1>4. r3 = SetEnd(row, s)
    BY DEF r1, r2, SetEnd
  <1>5. new = r3
    BY <1>4
  <1> QED
    BY <1>3, <1>5

\* Two of the fields.
LEMMA SetWaiting ==
  ASSUME NEW row \in Rows, NEW s \in TaskStates, NEW new, new = SetWait(row, s)
  PROVE  /\ new \in Rows /\ new.state = s /\ (new.live <=> row.live) /\ ~ new.backoff
         /\ new.attempts = row.attempts /\ (new.applied <=> row.applied)
         /\ new.policy = row.policy
  <1> DEFINE r1 == [row EXCEPT !.state = s]
             r2 == [r1 EXCEPT !.backoff = FALSE]
  <1>1. /\ r1 \in Rows /\ r1.state = s /\ (r1.live <=> row.live)
        /\ r1.attempts = row.attempts /\ (r1.applied <=> row.applied) /\ r1.policy = row.policy
    BY SetState DEF Rows
  <1> HIDE DEF r1
  <1>2. /\ r2 \in Rows /\ r2.state = s /\ (r2.live <=> row.live) /\ ~ r2.backoff
        /\ r2.attempts = row.attempts /\ (r2.applied <=> row.applied) /\ r2.policy = row.policy
    BY <1>1, SetBackoff DEF Rows
  <1>3. r2 = SetWait(row, s)
    BY DEF r1, SetWait
  <1> QED
    BY <1>2, <1>3

\* An expired claim is taken back, and a row at the ceiling waits no longer.
LEMMA SweptRow ==
  ASSUME DerivationAssumption, NEW row \in Rows, NEW t, NEW patch, RowFits(row, t, patch)
  PROVE  /\ Ceiling(Recovered(row)) \in Rows /\ GoesOn(Ceiling(Recovered(row)), row)
         /\ RowFits(Ceiling(Recovered(row)), t, patch)
         /\ Ceiling(Recovered(row)).attempts = row.attempts
         /\ Ceiling(Recovered(row)).policy = row.policy
  <1> DEFINE r == Recovered(row)
             q == Ceiling(r)
  <1>1. /\ row.attempts \in Nat /\ row.state \in TaskStates
        /\ row.live => row.state = "processing"
        /\ row.state = "processing" => ~ row.backoff
        /\ row.applied => patch = "completed"
        /\ IsArchive(t) /\ row.state = "completed" => row.applied
    BY DEF Rows, RowFits, DerivationAssumption
  <1>2. /\ r \in Rows /\ r.attempts = row.attempts /\ (r.applied <=> row.applied)
        /\ r.policy = row.policy /\ (r.live <=> row.live) /\ (r.backoff <=> row.backoff)
        /\ \/ r.state = row.state
           \/ r.state = "retry_required" /\ row.state = "processing" /\ ~ row.live
    <2>1. CASE Expired(row)
      <3>1. r = [row EXCEPT !.state = "retry_required"]
        BY <2>1 DEF Recovered
      <3>2. r \in Rows
        BY <3>1, SetState DEF TaskStates
      <3> QED
        BY <2>1, <3>1, <3>2 DEF Rows, Expired
    <2>2. CASE ~ Expired(row)
      BY <2>2 DEF Recovered
    <2> QED
      BY <2>1, <2>2
  <1> HIDE DEF r
  <1>3. /\ q \in Rows /\ q.attempts = r.attempts /\ (q.applied <=> r.applied)
        /\ q.policy = r.policy /\ (q.live <=> r.live)
        /\ \/ q.state = r.state /\ (q.backoff <=> r.backoff)
           \/ /\ q.state = "retry_required" /\ ~ q.backoff
              /\ r.state \in {"pending", "retry_required"}
    <2>1. CASE Exhausted(r)
      <3>1. q = SetWait(r, "retry_required")
        BY <2>1 DEF Ceiling, SetWait
      <3>2. r \in Rows /\ "retry_required" \in TaskStates
        BY <1>2 DEF TaskStates
      <3> HIDE DEF q
      <3>3. /\ q \in Rows /\ q.state = "retry_required" /\ (q.live <=> r.live) /\ ~ q.backoff
            /\ q.attempts = r.attempts /\ (q.applied <=> r.applied) /\ q.policy = r.policy
        BY <3>1, <3>2, SetWaiting
      <3> QED
        BY <2>1, <3>3 DEF Exhausted
    <2>2. CASE ~ Exhausted(r)
      BY <1>2, <2>2 DEF Ceiling
    <2> QED
      BY <2>1, <2>2
  <1>4. q = Ceiling(Recovered(row))
    BY DEF r
  <1> HIDE DEF q
  <1>5. GoesOn(q, row) /\ RowFits(q, t, patch)
    BY <1>1, <1>2, <1>3 DEF GoesOn, RowFits
  <1> QED
    BY <1>2, <1>3, <1>4, <1>5

\* A claim that ends leaves its row in a state without claim.
LEMMA FinishedRow ==
  ASSUME DerivationAssumption, NEW row \in Rows, NEW t, NEW patch, RowFits(row, t, patch),
         NEW s \in TaskStates \ {"none", "processing"}, row.state # "none",
         s = "completed" /\ IsArchive(t) => row.applied
  PROVE  /\ Finished(row, s) \in Rows /\ GoesOn(Finished(row, s), row)
         /\ RowFits(Finished(row, s), t, patch)
  <1> DEFINE q == Finished(row, s)
  <1>a. q = SetEnd(row, s)
    BY DEF Finished, SetEnd
  <1> HIDE DEF q
  <1>1. /\ q \in Rows /\ q.state = s /\ ~ q.live /\ q.attempts = row.attempts
        /\ (q.applied <=> row.applied)
    BY <1>a, SetClaim
  <1>2. row.attempts \in Nat
    BY DEF Rows, DerivationAssumption
  <1>3. GoesOn(q, row) /\ RowFits(q, t, patch)
    BY <1>1, <1>2 DEF GoesOn, RowFits
  <1> QED
    BY <1>1, <1>3 DEF q

\* A row nobody has claimed is planned again.
LEMMA ReplannedRow ==
  ASSUME DerivationAssumption, NEW row \in Rows, NEW t, NEW patch, RowFits(row, t, patch),
         row.state \notin {"none", "processing"}, NEW digest \in Digests,
         NEW fp \in 0..MaxPolicies, NEW s \in {"pending", "authorization_required"}
  PROVE  /\ Replanned(row, digest, fp, s) \in Rows
         /\ GoesOn(Replanned(row, digest, fp, s), row)
         /\ RowFits(Replanned(row, digest, fp, s), t, patch)
  <1> DEFINE r == [row EXCEPT !.digest = digest, !.policy = fp]
             q == SetWait(r, s)
  <1>1. r \in Rows /\ (r.live <=> row.live) /\ r.attempts = row.attempts
          /\ (r.applied <=> row.applied)
    BY SetPlan DEF Rows
  <1>2. q = Replanned(row, digest, fp, s)
    BY DEF Replanned, SetWait
  <1> HIDE DEF r
  <1>3. s \in TaskStates
    BY DEF TaskStates
  <1>4. /\ q \in Rows /\ q.state = s /\ (q.live <=> row.live) /\ q.attempts = row.attempts
        /\ (q.applied <=> row.applied)
    BY <1>1, <1>3, SetWaiting
  <1>5. row.attempts \in Nat
    BY DEF Rows, DerivationAssumption
  <1> HIDE DEF q
  <1>6. GoesOn(q, row) /\ RowFits(q, t, patch)
    BY <1>4, <1>5 DEF GoesOn, RowFits
  <1> QED
    BY <1>2, <1>4, <1>6

\* Or it is superseded.
LEMMA SupersededRow ==
  ASSUME DerivationAssumption, NEW row \in Rows, NEW t, NEW patch, RowFits(row, t, patch),
         row.state \notin {"none", "processing"}
  PROVE  /\ Superseded(row) \in Rows /\ GoesOn(Superseded(row), row)
         /\ RowFits(Superseded(row), t, patch)
  <1> DEFINE q == SetWait(row, "superseded")
  <1>1. /\ q \in Rows /\ q.state = "superseded" /\ (q.live <=> row.live)
        /\ q.attempts = row.attempts /\ (q.applied <=> row.applied)
    BY SetWaiting DEF TaskStates
  <1>2. row.attempts \in Nat
    BY DEF Rows, DerivationAssumption
  <1> HIDE DEF q
  <1>3. GoesOn(q, row) /\ RowFits(q, t, patch)
    BY <1>1, <1>2 DEF GoesOn, RowFits
  <1> QED
    BY <1>1, <1>3 DEF q, Superseded, SetWait

\* A handoff fences the claims on its target, and activates its own row.
LEMMA FencedRow ==
  ASSUME DerivationAssumption, Typed, RowsKnow, NEW t \in Tasks, NEW o \in Tasks
  PROVE  /\ Fenced(t) \in [Tasks -> Rows] /\ GoesOn(Fenced(t)[o], task[o])
         /\ RowFits(Fenced(t)[o], o, q1p[Doc(o)])
         /\ Fenced(t)[o] # task[o] => ~ IsArchive(t) /\ o # t /\ Doc(o) = Doc(t)
                                      /\ Fenced(t)[o].state = "superseded"
  <1> DEFINE Gone(r) == SetEnd(task[r], "superseded")
             hit == /\ ~ IsArchive(t) /\ o # t /\ Doc(o) = Doc(t)
                    /\ task[o].state \notin Terminal \cup {"none", "blocked"}
  <1>1. ASSUME NEW r \in Tasks
        PROVE  /\ Gone(r) \in Rows /\ Gone(r).state = "superseded" /\ ~ Gone(r).live
               /\ Gone(r).attempts = task[r].attempts /\ (Gone(r).applied <=> task[r].applied)
    <2>1. task[r] \in Rows /\ "superseded" \in TaskStates
      BY DEF Typed, TaskStates
    <2> QED
      BY <2>1, SetClaim
  <1>2. Fenced(t) = [r \in Tasks |->
            IF /\ ~ IsArchive(t) /\ r # t /\ Doc(r) = Doc(t)
               /\ task[r].state \notin Terminal \cup {"none", "blocked"}
            THEN Gone(r) ELSE task[r]]
    <2>1. ("superseded" = "retry_required") = FALSE
      OBVIOUS
    <2> QED
      BY <2>1 DEF Fenced, SetEnd
  <1>3. /\ task[o] \in Rows /\ RowFits(task[o], o, q1p[Doc(o)])
        /\ \A r \in Tasks : task[r] \in Rows
    BY DEF Typed, RowsKnow, RowKnows
  <1> HIDE DEF Gone
  <1>4. Fenced(t) \in [Tasks -> Rows] /\ Fenced(t)[o] = IF hit THEN Gone(o) ELSE task[o]
    BY <1>1, <1>2, <1>3
  <1>5. task[o].attempts \in Nat
    BY <1>3 DEF Rows, DerivationAssumption
  <1>6. GoesOn(Fenced(t)[o], task[o]) /\ RowFits(Fenced(t)[o], o, q1p[Doc(o)])
    <2>1. CASE hit
      <3>1. task[o].state \notin {"none", "completed"} /\ Fenced(t)[o] = Gone(o)
        BY <1>4, <2>1 DEF Terminal
      <3> HIDE DEF hit
      <3> QED
        BY <1>1, <1>3, <1>5, <3>1 DEF GoesOn, RowFits
    <2>2. CASE ~ hit
      BY <1>3, <1>4, <1>5, <2>2 DEF GoesOn
    <2> QED
      BY <2>1, <2>2
  <1> QED
    BY <1>1, <1>4, <1>6

-----------------------------------------------------------------------------
(* Frames *)

Grows == \A t \in Tasks : GoesOn(task'[t], task[t])

\* The same, but a row may come into being.
Lasts(new, old) ==
  /\ new.attempts >= old.attempts /\ (old.applied => new.applied)
  /\ old.state # "none" => new.state # "none"
Lasting == \A t \in Tasks : Lasts(task'[t], task[t])

\* A document is not archived or deleted by the step, and its patch stays applied.
DocsGoOn ==
  \A d \in Docs :
    /\ doc'[d] = "none" <=> doc[d] = "none"
    /\ doc'[d] = "deleted" <=> doc[d] = "deleted"
    /\ q1p[d] = "completed" => q1p'[d] = "completed"
    /\ q1p'[d] = "completed" => doc'[d] \in {"patched", "deleted"}
    /\ doc'[d] = "patched" => q1p'[d] = "completed"

\* A step of w is of its own attempt only.
OwnStep(w) ==
  /\ \A v \in Workers \ {w} : job'[v] = job[v]
  /\ job'[w].at \in Claimed =>
       job[w].at \in Claimed /\ job'[w].t = job[w].t /\ job'[w].n = job[w].n
  /\ \A t \in Tasks, n \in Attempts :
       resv'[t][n] # resv[t][n] =>
         job[w].at \in Claimed /\ t = job[w].t /\ n = job[w].n

\* Rows that stay as they are last.
LEMMA GrowthLasts ==
  /\ Grows => Lasting
  /\ DerivationAssumption /\ Typed /\ task' = task => Grows
  <1>1. Grows => Lasting
    BY DEF Grows, Lasting, GoesOn, Lasts
  <1>2. ASSUME DerivationAssumption, Typed, task' = task, NEW t \in Tasks
        PROVE  GoesOn(task'[t], task[t])
    <2>1. task[t].attempts \in Nat
      BY <1>2 DEF Typed, Rows, DerivationAssumption
    <2> QED
      BY <1>2, <2>1 DEF GoesOn
  <1> QED
    BY <1>1, <1>2 DEF Grows

\* A step that leaves documents and patches alone.
LEMMA SameDocs == DocsKnow /\ UNCHANGED <<doc, q1p>> => DocsGoOn
  BY DEF DocsKnow, DocKnows, DocsGoOn

\* Documents and rows keep fitting each other.
LEMMA DocsKeep == ASSUME DocsKnow, Grows, DocsGoOn PROVE DocsKnow'
  <1> SUFFICES ASSUME NEW d \in Docs PROVE DocKnows(d)'
    BY DEF DocsKnow
  <1>1. <<d, "archive">> \in Tasks /\ <<d, "delete">> \in Tasks
    BY DEF Tasks
  <1>2. DocKnows(d)
    BY DEF DocsKnow
  <1>3. /\ task'[<<d, "archive">>].state = "none" <=> task[<<d, "archive">>].state = "none"
        /\ task'[<<d, "delete">>].state = "none" <=> task[<<d, "delete">>].state = "none"
    BY <1>1 DEF Grows, GoesOn
  <1> QED
    BY <1>2, <1>3 DEF DocKnows, DocsGoOn

\* The document of a task.
LEMMA DocOfTask == \A t \in Tasks : Doc(t) \in Docs
  BY DEF Tasks, Doc

\* Rows that fit the patches before the step fit those after it.
LEMMA RowsKeep ==
  ASSUME DocsGoOn, \A t \in Tasks : RowFits(task'[t], t, q1p[Doc(t)])
  PROVE  RowsKnow'
  <1> SUFFICES ASSUME NEW t \in Tasks PROVE RowKnows(t)'
    BY DEF RowsKnow
  <1>1. RowFits(task'[t], t, q1p[Doc(t)])
    OBVIOUS
  <1>2. q1p[Doc(t)] = "completed" => q1p'[Doc(t)] = "completed"
    BY DocOfTask DEF DocsGoOn
  <1>3. RowFits(task'[t], t, q1p'[Doc(t)])
    BY <1>1, <1>2 DEF RowFits
  <1> QED
    BY <1>3 DEF RowKnows

\* Rows that do not change.
LEMMA SameRows == ASSUME RowsKnow, DocsGoOn, task' = task PROVE RowsKnow'
  <1>1. \A t \in Tasks : RowFits(task'[t], t, q1p[Doc(t)])
    BY DEF RowsKnow, RowKnows
  <1> QED
    BY <1>1, RowsKeep

\* The rows, when one is written.
LEMMA WrittenRow ==
  ASSUME NEW f \in [Tasks -> Rows], NEW t \in Tasks, NEW row \in Rows,
         NEW g, g = [f EXCEPT ![t] = row]
  PROVE  g \in [Tasks -> Rows] /\ \A o \in Tasks : g[o] = IF o = t THEN row ELSE f[o]
  OBVIOUS

\* One row changes.
LEMMA OneRow ==
  ASSUME DerivationAssumption, Typed, RowsKnow, DocsGoOn, NEW t \in Tasks, NEW row \in Rows,
         task' = [task EXCEPT ![t] = row], GoesOn(row, task[t]),
         RowFits(row, t, q1p[Doc(t)])
  PROVE  task' \in [Tasks -> Rows] /\ RowsKnow' /\ Grows
  <1>1. task' \in [Tasks -> Rows]
    BY DEF Typed
  <1>2. \A o \in Tasks : task'[o] = IF o = t THEN row ELSE task[o]
    BY DEF Typed
  <1>3. \A o \in Tasks : RowFits(task'[o], o, q1p[Doc(o)])
    BY <1>2 DEF RowsKnow, RowKnows
  <1>4. ASSUME NEW o \in Tasks PROVE GoesOn(task'[o], task[o])
    <2>1. task[o].attempts \in Nat
      BY DEF Typed, Rows, DerivationAssumption
    <2>2. GoesOn(task[o], task[o])
      BY <2>1 DEF GoesOn
    <2> QED
      BY <1>2, <2>2
  <1> QED
    BY <1>1, <1>3, <1>4, RowsKeep DEF Grows

\* A step without the ledger.
LEMMA SameLedger ==
  ASSUME DerivationAssumption, Typed, EntriesKnow, LedgerKnows, Lasting, Typed', resv' = resv
  PROVE  EntriesKnow' /\ LedgerKnows'
  <1>1. \A fp, d : Counted(fp, d)' = Counted(fp, d)
    BY DEF Counted
  <1>2. LedgerKnows'
    BY <1>1, LedgerShrinks
  <1>3. ASSUME NEW t \in Tasks, NEW n \in Attempts PROVE EntryKnows(t, n)'
    <2>1. EntryKnows(t, n) /\ n \in Nat
      BY DEF EntriesKnow, Attempts
    <2>2. task[t].attempts \in Nat /\ task'[t].attempts \in Nat
      BY DEF Typed, Rows, DerivationAssumption
    <2>3. task'[t].attempts >= task[t].attempts
      BY DEF Lasting, Lasts
    <2> QED
      BY <2>1, <2>2, <2>3 DEF EntryKnows
  <1> QED
    BY <1>2, <1>3 DEF EntriesKnow

\* What a worker relies on, when neither it nor its reservation moves.
LEMMA OthersKeep ==
  ASSUME DerivationAssumption, Typed, Typed', Lasting, NEW v \in Workers, JobKnows(v),
         job'[v] = job[v],
         job[v].at \in Claimed =>
           resv'[job[v].t][job[v].n] = resv[job[v].t][job[v].n]
  PROVE  JobKnows(v)'
  <1> DEFINE t == job[v].t
  <1>1. CASE At(v, "idle")
    BY <1>1 DEF JobKnows, At, Claimed, Unreserved, Reserved, Patched
  <1>2. CASE ~ At(v, "idle")
    <2>1. t \in Tasks /\ task[t].state # "none"
      BY <1>2 DEF JobKnows
    <2>2. /\ task'[t].attempts >= task[t].attempts /\ (task[t].applied => task'[t].applied)
          /\ task'[t].state # "none"
      BY <2>1 DEF Lasting, Lasts
    <2>3. task[t].attempts \in Nat /\ task'[t].attempts \in Nat
      BY <2>1 DEF Typed, Rows, DerivationAssumption
    <2>4. /\ job[v].at \in Unreserved => job[v].at \in Claimed
          /\ job[v].at \in Reserved => job[v].at \in Claimed
          /\ job[v].at = "llm" => job[v].at \in Claimed
      BY DEF Unreserved, Reserved, Claimed
    <2>5. job[v].at \in Claimed => job[v].n \in 1..task'[t].attempts
      <3>1. job[v].at \in Claimed => job[v].n \in 1..task[t].attempts
        BY DEF JobKnows
      <3> QED
        BY <2>2, <2>3, <3>1
    <2>6. job[v].at \in Claimed /\ job[v].seen.applied => task'[t].applied
      BY <2>2 DEF JobKnows
    <2> QED
      BY <2>1, <2>2, <2>4, <2>5, <2>6 DEF JobKnows, At
  <1> QED
    BY <1>1, <1>2

\* A step of one worker does not disturb the others.
LEMMA OwnStepKeeps ==
  ASSUME DerivationAssumption, DerivationKnows, Typed', Lasting, NEW w \in Workers,
         OwnStep(w), JobKnows(w)'
  PROVE  JobsKnow' /\ JobsApart'
  <1>1. ASSUME NEW v \in Workers PROVE JobKnows(v)'
    <2>1. CASE v = w
      BY <2>1
    <2>2. CASE v # w
      <3>1. job'[v] = job[v]
        BY <2>2 DEF OwnStep
      <3>2. JobKnows(v) /\ Apart(v, w) /\ Typed
        BY <2>2 DEF DerivationKnows, JobsKnow, JobsApart
      <3>3. ASSUME job[v].at \in Claimed
            PROVE  resv'[job[v].t][job[v].n] = resv[job[v].t][job[v].n]
        <4>1. ~ At(v, "idle")
          BY <3>3 DEF At, Claimed
        <4>2. job[v].t \in Tasks /\ job[v].n \in 1..task[job[v].t].attempts
          BY <3>2, <3>3, <4>1 DEF JobKnows
        <4>3. job[v].n \in Attempts
          <5>1. task[job[v].t].attempts \in 0..MaxAttempts
            BY <3>2, <4>2 DEF Typed, Rows
          <5> QED
            BY <4>2, <5>1 DEF Attempts, DerivationAssumption
        <4> QED
          BY <3>2, <3>3, <4>2, <4>3 DEF OwnStep, Apart
      <3> QED
        BY <3>1, <3>2, <3>3, OthersKeep
    <2> QED
      BY <2>1, <2>2
  <1>2. ASSUME NEW u \in Workers, NEW v \in Workers, u # v PROVE Apart(u, v)'
    <2>1. Apart(u, v) /\ Apart(v, u)
      BY <1>2 DEF DerivationKnows, JobsApart
    <2>2. /\ job'[u].at \in Claimed =>
               job[u].at \in Claimed /\ job'[u].t = job[u].t /\ job'[u].n = job[u].n
          /\ job'[v].at \in Claimed =>
               job[v].at \in Claimed /\ job'[v].t = job[v].t /\ job'[v].n = job[v].n
      BY DEF OwnStep
    <2> QED
      BY <2>1, <2>2 DEF Apart
  <1> QED
    BY <1>1, <1>2 DEF JobsKnow, JobsApart

\* A step of one worker that leaves the ledger alone.
LEMMA QuietStep ==
  ASSUME DerivationAssumption, DerivationKnows, Typed', RowsKnow', Grows, DocsGoOn,
         resv' = resv, NEW w \in Workers, OwnStep(w), JobKnows(w)'
  PROVE  DerivationKnows'
  <1>1. Lasting
    BY GrowthLasts
  <1>2. DocsKnow'
    BY DocsKeep DEF DerivationKnows
  <1>3. EntriesKnow' /\ LedgerKnows'
    BY <1>1, SameLedger DEF DerivationKnows
  <1>4. JobsKnow' /\ JobsApart'
    BY <1>1, OwnStepKeeps
  <1> QED
    BY <1>2, <1>3, <1>4 DEF DerivationKnows

\* A worker that has left its task relies on nothing.
LEMMA LeftKnows == \A w : At(w, "idle")' => JobKnows(w)'
  BY DEF At, JobKnows, Claimed, Unreserved, Reserved, Patched

\* What a worker relies on after a step of its attempt.
LEMMA AttemptGoesOn ==
  ASSUME DerivationAssumption, Typed, Typed', Lasting, NEW w \in Workers, JobKnows(w),
         job[w].at \in Claimed, job'[w].t = job[w].t, job'[w].n = job[w].n,
         job'[w].seen.applied => task'[job[w].t].applied,
         job'[w].at \in Unreserved => resv'[job[w].t][job[w].n] = Unused,
         job'[w].at \in Reserved => resv'[job[w].t][job[w].n].state = "reserved",
         job'[w].at = "llm" => "llm" \in resv'[job[w].t][job[w].n].covers,
         job'[w].at \in Patched /\ IsArchive(job[w].t) => task'[job[w].t].applied
  PROVE  JobKnows(w)'
  <1> DEFINE t == job[w].t
  <1>1. ~ At(w, "idle")
    BY DEF At, Claimed
  <1>2. t \in Tasks /\ task[t].state # "none" /\ job[w].n \in 1..task[t].attempts
    BY <1>1 DEF JobKnows
  <1>3. task'[t].attempts >= task[t].attempts /\ task'[t].state # "none"
    BY <1>2 DEF Lasting, Lasts
  <1>4. task[t].attempts \in Nat /\ task'[t].attempts \in Nat
    BY <1>2 DEF Typed, Rows, DerivationAssumption
  <1>5. job[w].n \in 1..task'[t].attempts
    BY <1>2, <1>3, <1>4
  <1> QED
    BY <1>2, <1>3, <1>5 DEF JobKnows, At

-----------------------------------------------------------------------------
(* Workers and reservations *)

\* The attempt of a worker that has claimed one.
LEMMA AttemptIsThere ==
  ASSUME DerivationAssumption, Typed, NEW w \in Workers, JobKnows(w), job[w].at \in Claimed
  PROVE  /\ job[w].t \in Tasks /\ job[w].n \in Attempts /\ Doc(job[w].t) \in Docs
         /\ task[job[w].t].state # "none" /\ job[w].n <= task[job[w].t].attempts
         /\ task[job[w].t] \in Rows /\ resv[job[w].t][job[w].n] \in Reservations
         /\ job[w].seen \in Rows
  <1>1. ~ At(w, "idle")
    BY DEF At, Claimed
  <1>2. /\ job[w].t \in Tasks /\ task[job[w].t].state # "none"
        /\ job[w].n \in 1..task[job[w].t].attempts
    BY <1>1 DEF JobKnows
  <1>3. task[job[w].t] \in Rows /\ job[w] \in Jobs
    BY <1>2 DEF Typed
  <1>4. task[job[w].t].attempts \in 0..MaxAttempts
    BY <1>3 DEF Rows
  <1>5. job[w].n \in Attempts /\ job[w].n <= task[job[w].t].attempts
    BY <1>2, <1>4 DEF Attempts, DerivationAssumption
  <1> QED
    BY <1>2, <1>3, <1>5, DocOfTask DEF Typed, Jobs

\* A worker gets a new record.
LEMMA OneJob ==
  ASSUME job \in [Workers -> Jobs], NEW w \in Workers, NEW j \in Jobs,
         job' = [job EXCEPT ![w] = j]
  PROVE  /\ job' \in [Workers -> Jobs] /\ job'[w] = j
         /\ \A v \in Workers \ {w} : job'[v] = job[v]
  OBVIOUS

\* It goes to another step.
LEMMA GoesTo ==
  ASSUME job \in [Workers -> Jobs], NEW w \in Workers, NEW step \in JobSteps, Goto(w, step)
  PROVE  /\ job' \in [Workers -> Jobs] /\ job'[w].at = step /\ job'[w].t = job[w].t
         /\ job'[w].n = job[w].n /\ job'[w].seen = job[w].seen
         /\ job'[w].policy = job[w].policy
         /\ \A v \in Workers \ {w} : job'[v] = job[v]
  <1> DEFINE j == [job[w] EXCEPT !.at = step]
  <1>1. job[w] \in Jobs
    OBVIOUS
  <1>2. /\ j \in Jobs /\ j.at = step /\ j.t = job[w].t /\ j.n = job[w].n
        /\ j.seen = job[w].seen /\ j.policy = job[w].policy
    BY <1>1 DEF Jobs
  <1>3. job' = [job EXCEPT ![w] = j]
    BY DEF Goto
  <1> HIDE DEF j
  <1> QED
    BY <1>2, <1>3, OneJob

\* It leaves its task.
LEMMA Leaves ==
  ASSUME DerivationAssumption, job \in [Workers -> Jobs], NEW w \in Workers,
         job' = [job EXCEPT ![w] = Idle]
  PROVE  /\ job' \in [Workers -> Jobs] /\ job'[w] = Idle /\ job'[w].at = "idle"
         /\ \A v \in Workers \ {w} : job'[v] = job[v]
         /\ JobKnows(w)'
  <1>1. Idle \in Jobs
    BY IdleTyped
  <1>2. /\ job' \in [Workers -> Jobs] /\ job'[w] = Idle
        /\ \A v \in Workers \ {w} : job'[v] = job[v]
    BY <1>1, OneJob
  <1>3. Idle.at = "idle"
    BY DEF Idle
  <1> QED
    BY <1>2, <1>3, LeftKnows DEF At

\* Its attempt fails.
LEMMA GoesToFail ==
  ASSUME DerivationAssumption, job \in [Workers -> Jobs], NEW w \in Workers, GotoFail(w)
  PROVE  /\ job' \in [Workers -> Jobs] /\ job'[w].at = "fail" /\ job'[w].t = job[w].t
         /\ job'[w].n = job[w].n /\ ~ job'[w].seen.applied
         /\ \A v \in Workers \ {w} : job'[v] = job[v]
  <1> DEFINE j == [Idle EXCEPT !.at = "fail", !.t = job[w].t, !.n = job[w].n]
  <1>1. job[w] \in Jobs /\ Idle \in Jobs
    BY IdleTyped
  <1>2. j \in Jobs /\ j.at = "fail" /\ j.t = job[w].t /\ j.n = job[w].n /\ j.seen = NewTask
    <2> DEFINE i == [Idle EXCEPT !.at = "fail"]
               k == [i EXCEPT !.t = job[w].t]
               l == [k EXCEPT !.n = job[w].n]
    <2>1. i \in Jobs /\ i.at = "fail" /\ i.seen = NewTask
      BY <1>1 DEF Jobs, JobSteps, Idle
    <2> HIDE DEF i
    <2>2. k \in Jobs /\ k.at = "fail" /\ k.t = job[w].t /\ k.seen = NewTask
      BY <1>1, <2>1 DEF Jobs
    <2> HIDE DEF k
    <2>3. l \in Jobs /\ l.at = "fail" /\ l.t = job[w].t /\ l.n = job[w].n /\ l.seen = NewTask
      BY <1>1, <2>2 DEF Jobs
    <2>4. l = j
      BY DEF i, k
    <2> QED
      BY <2>3, <2>4
  <1>3. job' = [job EXCEPT ![w] = j]
    BY DEF GotoFail
  <1>4. ~ NewTask.applied
    BY DEF NewTask
  <1> HIDE DEF j
  <1> QED
    BY <1>2, <1>3, <1>4, OneJob

\* One reservation changes.
LEMMA OneEntry ==
  ASSUME resv \in [Tasks -> [Attempts -> Reservations]], NEW t \in Tasks, NEW n \in Attempts,
         NEW e \in Reservations, resv' = [resv EXCEPT ![t][n] = e]
  PROVE  /\ resv' \in [Tasks -> [Attempts -> Reservations]] /\ resv'[t][n] = e
         /\ \A s \in Tasks, m \in Attempts : s # t \/ m # n => resv'[s][m] = resv[s][m]
  OBVIOUS

\* A call is made, or a reservation is closed: the ledger counts nothing new.
LEMMA EntryKeeps ==
  ASSUME DerivationAssumption, Typed, Typed', EntriesKnow, LedgerKnows, Lasting,
         NEW t \in Tasks, NEW n \in Attempts, NEW e \in Reservations,
         resv' = [resv EXCEPT ![t][n] = e], n <= task[t].attempts,
         e.policy = resv[t][n].policy, e.day = resv[t][n].day,
         e.covers = resv[t][n].covers, resv[t][n].state \in {"reserved", "settled"},
         e.made \subseteq e.covers, e.state \in {"none", "released"} => e.made = {},
         e.state = "reserved" => "embedding" \in e.covers
  PROVE  EntriesKnow' /\ LedgerKnows'
  <1>1. /\ resv'[t][n] = e
        /\ \A s \in Tasks, m \in Attempts : s # t \/ m # n => resv'[s][m] = resv[s][m]
    BY OneEntry DEF Typed
  <1>2. ASSUME NEW fp, NEW d, NEW c \in Counted(fp, d)' PROVE c \in Counted(fp, d)
    <2> DEFINE s == c[1]
               m == c[2]
    <2>1. /\ c \in Tasks \X Attempts \X Calls /\ c[3] \in resv'[s][m].covers
          /\ resv'[s][m].policy = fp /\ resv'[s][m].day = d
          /\ resv'[s][m].state \in {"reserved", "settled"}
      BY <1>2 DEF Counted
    <2>2. s \in Tasks /\ m \in Attempts
      BY <2>1
    <2>3. /\ c[3] \in resv[s][m].covers
          /\ resv[s][m].policy = fp /\ resv[s][m].day = d
          /\ resv[s][m].state \in {"reserved", "settled"}
      BY <1>1, <2>1, <2>2
    <2> QED
      BY <2>1, <2>3 DEF Counted
  <1>3. LedgerKnows'
    BY <1>2, LedgerShrinks
  <1>4. ASSUME NEW s \in Tasks, NEW m \in Attempts PROVE EntryKnows(s, m)'
    <2>1. EntryKnows(s, m) /\ m \in Nat
      BY DEF EntriesKnow, Attempts
    <2>2. /\ task[s].attempts \in Nat /\ task'[s].attempts \in Nat
          /\ task'[s].attempts >= task[s].attempts
      BY DEF Typed, Rows, DerivationAssumption, Lasting, Lasts
    <2>3. CASE s = t /\ m = n
      BY <1>1, <2>1, <2>2, <2>3 DEF EntryKnows
    <2>4. CASE s # t \/ m # n
      BY <1>1, <2>1, <2>2, <2>4 DEF EntryKnows
    <2> QED
      BY <2>3, <2>4
  <1> QED
    BY <1>3, <1>4 DEF EntriesKnow

-----------------------------------------------------------------------------
(* The environment and Q1' *)

\* A step that is no worker's.
LEMMA OutsideStep ==
  ASSUME DerivationAssumption, DerivationKnows, Typed', RowsKnow', DocsKnow', Lasting,
         UNCHANGED <<resv, job>>
  PROVE  DerivationKnows'
  <1>1. EntriesKnow' /\ LedgerKnows'
    BY SameLedger DEF DerivationKnows
  <1>2. JobsKnow'
    <2> SUFFICES ASSUME NEW v \in Workers PROVE JobKnows(v)'
      BY DEF JobsKnow
    <2>1. JobKnows(v) /\ Typed
      BY DEF DerivationKnows, JobsKnow
    <2> QED
      BY <2>1, OthersKeep
  <1>3. JobsApart'
    BY DEF DerivationKnows, JobsApart, Apart
  <1> QED
    BY <1>1, <1>2, <1>3 DEF DerivationKnows

\* A task comes into being with a commit.
LEMMA NewRow ==
  ASSUME DerivationAssumption, Typed, RowsKnow, NEW t \in Tasks, task[t].state = "none",
         task' = [task EXCEPT ![t].state = "blocked"], q1p' = q1p
  PROVE  /\ task' \in [Tasks -> Rows] /\ RowsKnow' /\ Lasting
         /\ \A o \in Tasks : o # t => task'[o] = task[o]
  <1> DEFINE row == [task[t] EXCEPT !.state = "blocked"]
  <1>1. task[t] \in Rows /\ RowFits(task[t], t, q1p[Doc(t)])
    BY DEF Typed, RowsKnow, RowKnows
  <1>2. row \in Rows
    BY <1>1, SetState DEF TaskStates
  <1>3. /\ row.state = "blocked" /\ (row.live <=> task[t].live)
        /\ row.attempts = task[t].attempts /\ (row.applied <=> task[t].applied)
    BY <1>1 DEF Rows
  <1>4. task' = [task EXCEPT ![t] = row]
    OBVIOUS
  <1> HIDE DEF row
  <1>5. RowFits(row, t, q1p[Doc(t)])
    BY <1>1, <1>3 DEF RowFits
  <1>6. task' \in [Tasks -> Rows] /\ \A o \in Tasks : task'[o] = IF o = t THEN row ELSE task[o]
    <2>1. task \in [Tasks -> Rows]
      BY DEF Typed
    <2> QED
      BY <1>2, <1>4, <2>1, WrittenRow
  <1>7. RowsKnow'
    BY <1>5, <1>6 DEF RowsKnow, RowKnows
  <1>8. ASSUME NEW o \in Tasks PROVE Lasts(task'[o], task[o])
    <2>1. task[o].attempts \in Nat
      BY DEF Typed, Rows, DerivationAssumption
    <2> QED
      BY <1>3, <1>6, <2>1 DEF Lasts
  <1> QED
    BY <1>6, <1>7, <1>8 DEF Lasting

\* A document is archived.
LEMMA ArchiveKeeps ==
  ASSUME DerivationAssumption, DerivationKnows, NEW d \in Docs, Archive(d)
  PROVE  DerivationKnows'
  <1> DEFINE t == <<d, "archive">>
  <1>1. Typed /\ RowsKnow /\ DocsKnow
    BY DEF DerivationKnows
  <1>2. t \in Tasks /\ <<d, "delete">> # t
    BY DEF Tasks
  <1>3. task[t].state = "none"
    BY <1>1 DEF DocsKnow, DocKnows, Archive
  <1>4. /\ task' \in [Tasks -> Rows] /\ RowsKnow' /\ Lasting
        /\ \A o \in Tasks : o # t => task'[o] = task[o]
    BY <1>1, <1>2, <1>3, NewRow DEF Archive
  <1>5. doc' \in Digests /\ \A e \in Docs : doc'[e] = IF e = d THEN "archived" ELSE doc[e]
    BY <1>1 DEF Archive, Typed, Digests, Revisions
  <1>6. Typed'
    BY <1>1, <1>4, <1>5 DEF Archive, Typed
  <1>7. ASSUME NEW e \in Docs PROVE DocKnows(e)'
    <2>1. DocKnows(e) /\ doc[d] = "none" /\ q1p' = q1p
      BY <1>1 DEF DocsKnow, Archive
    <2>2. /\ <<e, "archive">> \in Tasks /\ <<e, "delete">> \in Tasks
          /\ <<e, "delete">> # t /\ (e # d => <<e, "archive">> # t)
      BY DEF Tasks
    <2> QED
      BY <1>4, <1>5, <2>1, <2>2 DEF DocKnows
  <1> QED
    BY <1>4, <1>6, <1>7, OutsideStep DEF Archive, DocsKnow

\* A document is deleted.
LEMMA DeleteKeeps ==
  ASSUME DerivationAssumption, DerivationKnows, NEW d \in Docs, Delete(d)
  PROVE  DerivationKnows'
  <1> DEFINE t == <<d, "delete">>
  <1>1. Typed /\ RowsKnow /\ DocsKnow
    BY DEF DerivationKnows
  <1>2. t \in Tasks
    BY DEF Tasks
  <1>3. task[t].state = "none"
    BY <1>1 DEF DocsKnow, DocKnows, Delete
  <1>4. /\ task' \in [Tasks -> Rows] /\ RowsKnow' /\ Lasting
        /\ \A o \in Tasks : o # t => task'[o] = task[o]
    BY <1>1, <1>2, <1>3, NewRow DEF Delete
  <1>5. doc' \in Digests /\ \A e \in Docs : doc'[e] = IF e = d THEN "deleted" ELSE doc[e]
    BY <1>1 DEF Delete, Typed, Digests, Revisions
  <1>6. Typed'
    BY <1>1, <1>4, <1>5 DEF Delete, Typed
  <1>7. ASSUME NEW e \in Docs PROVE DocKnows(e)'
    <2>1. DocKnows(e) /\ doc[d] \in {"archived", "patched"} /\ q1p' = q1p
      BY <1>1 DEF DocsKnow, Delete
    <2>2. /\ <<e, "archive">> \in Tasks /\ <<e, "delete">> \in Tasks
          /\ <<e, "archive">> # t /\ (e # d => <<e, "delete">> # t)
      BY DEF Tasks
    <2> QED
      BY <1>4, <1>5, <2>1, <2>2 DEF DocKnows
  <1> QED
    BY <1>4, <1>6, <1>7, OutsideStep DEF Delete, DocsKnow

\* A step outside that leaves documents and patches alone.
LEMMA QuietOutside ==
  ASSUME DerivationAssumption, DerivationKnows, Typed', RowsKnow', Grows,
         UNCHANGED <<doc, q1p, resv, job>>
  PROVE  DerivationKnows'
  <1>1. DocsGoOn
    BY SameDocs DEF DerivationKnows
  <1>2. DocsKnow'
    BY <1>1, DocsKeep DEF DerivationKnows
  <1> QED
    BY <1>2, GrowthLasts, OutsideStep

\* What it may write to the binding.
LEMMA BindingTyped ==
  ASSUME Typed
  PROVE  NonReady(doc) \in Bindings /\ [state |-> "ready", digest |-> doc] \in Bindings
  BY DEF Typed, NonReady, Bindings

\* A handoff activates a task.
LEMMA HandoffKeeps ==
  ASSUME DerivationAssumption, DerivationKnows, NEW t \in Tasks, Handoff(t)
  PROVE  DerivationKnows'
  <1> DEFINE s == IF policy.approved THEN "pending" ELSE "authorization_required"
             r1 == [task[t] EXCEPT !.state = s]
             r2 == [r1 EXCEPT !.digest = doc, !.policy = policy.fp]
  <1>1. Typed /\ RowsKnow /\ DocsKnow
    BY DEF DerivationKnows
  <1>2. Fenced(t)[t] = task[t] /\ Fenced(t) \in [Tasks -> Rows]
    BY <1>1, FencedRow
  <1>3. /\ task[t] \in Rows /\ RowFits(task[t], t, q1p[Doc(t)]) /\ task[t].state = "blocked"
    BY <1>1 DEF Typed, RowsKnow, RowKnows, Handoff
  <1>4. policy.fp \in 0..MaxPolicies /\ doc \in Digests
    BY <1>1 DEF Typed, Policies, DerivationAssumption
  <1>5. s \in TaskStates \ {"none", "processing", "completed"}
    BY DEF TaskStates
  <1> HIDE DEF s
  <1>6. /\ r1 \in Rows /\ r1.state = s /\ (r1.live <=> task[t].live)
        /\ r1.attempts = task[t].attempts /\ (r1.applied <=> task[t].applied)
    BY <1>3, <1>5, SetState DEF Rows
  <1> HIDE DEF r1
  <1>7. /\ r2 \in Rows /\ r2.state = s /\ (r2.live <=> task[t].live)
        /\ r2.attempts = task[t].attempts /\ (r2.applied <=> task[t].applied)
    BY <1>4, <1>6, SetPlan DEF Rows
  <1>8. task' = [Fenced(t) EXCEPT ![t] = r2]
    BY <1>2 DEF Handoff, r1, s
  <1> HIDE DEF r2
  <1>9. task[t].attempts \in Nat
    BY <1>3 DEF Rows, DerivationAssumption
  <1>10. GoesOn(r2, task[t]) /\ RowFits(r2, t, q1p[Doc(t)])
    BY <1>3, <1>5, <1>7, <1>9 DEF GoesOn, RowFits
  <1>11. /\ task' \in [Tasks -> Rows]
         /\ \A o \in Tasks : task'[o] = IF o = t THEN r2 ELSE Fenced(t)[o]
    BY <1>2, <1>7, <1>8
  <1>12. \A o \in Tasks : GoesOn(task'[o], task[o]) /\ RowFits(task'[o], o, q1p[Doc(o)])
    BY <1>1, <1>10, <1>11, FencedRow
  <1>13. DocsGoOn
    BY <1>1, SameDocs DEF Handoff
  <1>14. RowsKnow' /\ Grows
    BY <1>12, <1>13, RowsKeep DEF Grows
  <1>15. Typed'
    BY <1>1, <1>11, BindingTyped DEF Handoff, Typed
  <1> QED
    BY <1>14, <1>15, QuietOutside DEF Handoff

\* Expired claims are taken back.
LEMMA SweptRows ==
  ASSUME DerivationAssumption, Typed, RowsKnow
  PROVE  /\ Swept \in [Tasks -> Rows]
         /\ \A t \in Tasks : /\ GoesOn(Swept[t], task[t]) /\ RowFits(Swept[t], t, q1p[Doc(t)])
                             /\ Swept[t].attempts = task[t].attempts
                             /\ Swept[t].policy = task[t].policy
  <1>1. \A t \in Tasks : task[t] \in Rows /\ RowFits(task[t], t, q1p[Doc(t)])
    BY DEF Typed, RowsKnow, RowKnows
  <1>2. \A t \in Tasks : Swept[t] = Ceiling(Recovered(task[t]))
    BY DEF Swept
  <1>3. Swept = [t \in Tasks |-> Ceiling(Recovered(task[t]))]
    BY DEF Swept
  <1>4. \A t \in Tasks : Ceiling(Recovered(task[t])) \in Rows
    BY <1>1, SweptRow
  <1>5. Swept \in [Tasks -> Rows]
    BY <1>3, <1>4
  <1> QED
    BY <1>1, <1>2, <1>5, SweptRow

\* A drain begins with them.
LEMMA SweepFirstKeeps ==
  ASSUME DerivationAssumption, DerivationKnows, SweepFirst
  PROVE  DerivationKnows'
  <1>1. Typed /\ RowsKnow /\ DocsKnow
    BY DEF DerivationKnows
  <1>2. task' = Swept /\ UNCHANGED <<doc, q1p>>
    BY DEF SweepFirst
  <1>3. DocsGoOn
    BY <1>1, <1>2, SameDocs
  <1>4. RowsKnow' /\ Grows
    BY <1>1, <1>2, <1>3, SweptRows, RowsKeep DEF Grows
  <1>5. Typed'
    BY <1>1, <1>2, SweptRows DEF SweepFirst, Typed
  <1> QED
    BY <1>4, <1>5, QuietOutside DEF SweepFirst

\* A claim runs out, or a row waits no longer.
LEMMA ClocksKeep ==
  ASSUME DerivationAssumption, DerivationKnows, NEW t \in Tasks,
         ClaimExpires(t) \/ BackoffEnds(t)
  PROVE  DerivationKnows'
  <1>1. Typed /\ RowsKnow /\ DocsKnow
    BY DEF DerivationKnows
  <1>2. task[t] \in Rows /\ RowFits(task[t], t, q1p[Doc(t)]) /\ task[t].attempts \in Nat
    BY <1>1 DEF Typed, RowsKnow, RowKnows, Rows, DerivationAssumption
  <1>3. DocsGoOn /\ UNCHANGED <<doc, q1p, resv, job>>
    BY <1>1, SameDocs DEF ClaimExpires, BackoffEnds
  <1>4. PICK row \in {[task[t] EXCEPT !.live = FALSE], [task[t] EXCEPT !.backoff = FALSE]} :
          task' = [task EXCEPT ![t] = row]
    BY DEF ClaimExpires, BackoffEnds
  <1>5. row \in Rows /\ GoesOn(row, task[t]) /\ RowFits(row, t, q1p[Doc(t)])
    <2>1. CASE row = [task[t] EXCEPT !.live = FALSE]
      <3>1. /\ row \in Rows /\ row.state = task[t].state /\ ~ row.live
            /\ (row.backoff <=> task[t].backoff) /\ row.attempts = task[t].attempts
            /\ (row.applied <=> task[t].applied)
        BY <1>2, <2>1, SetLive DEF Rows
      <3> QED
        BY <1>2, <3>1 DEF GoesOn, RowFits
    <2>2. CASE row = [task[t] EXCEPT !.backoff = FALSE]
      <3>1. /\ row \in Rows /\ row.state = task[t].state /\ ~ row.backoff
            /\ (row.live <=> task[t].live) /\ row.attempts = task[t].attempts
            /\ (row.applied <=> task[t].applied)
        BY <1>2, <2>2, SetBackoff DEF Rows
      <3> QED
        BY <1>2, <3>1 DEF GoesOn, RowFits
    <2> QED
      BY <1>4, <2>1, <2>2
  <1>6. task' \in [Tasks -> Rows] /\ RowsKnow' /\ Grows
    BY <1>1, <1>3, <1>4, <1>5, OneRow
  <1>7. Typed'
    BY <1>1, <1>6 DEF ClaimExpires, BackoffEnds, Typed
  <1> QED
    BY <1>3, <1>6, <1>7, QuietOutside

\* The user edits the policy or approves it, and a day passes.
LEMMA UserKeeps ==
  ASSUME DerivationAssumption, DerivationKnows, ChangePolicy \/ Approve \/ NextDay
  PROVE  DerivationKnows'
  <1>1. Typed /\ RowsKnow /\ DocsKnow
    BY DEF DerivationKnows
  <1>2. UNCHANGED <<doc, rows, q1p, resv, binding, lease, job>> /\ task' = task
    BY DEF ChangePolicy, Approve, NextDay, rows
  <1>3. policy' \in [fp : Policies, approved : BOOLEAN] /\ day' \in Nat
    <2>1. policy \in [fp : Policies, approved : BOOLEAN] /\ day \in Nat
      BY <1>1 DEF Typed
    <2>2. CASE ChangePolicy
      <3>1. /\ policy' \in [fp : {policy.fp + 1}, approved : BOOLEAN]
            /\ policy.fp < MaxPolicies /\ MaxPolicies \in Nat
        BY <2>2 DEF ChangePolicy, DerivationAssumption
      <3>2. policy.fp + 1 \in Policies
        BY <2>1, <3>1 DEF Policies
      <3> QED
        BY <2>1, <2>2, <3>1, <3>2 DEF ChangePolicy
    <2>3. CASE Approve
      BY <2>1, <2>3 DEF Approve
    <2>4. CASE NextDay
      BY <2>1, <2>4 DEF NextDay
    <2> QED
      BY <2>2, <2>3, <2>4
  <1>4. Typed'
    BY <1>1, <1>2, <1>3 DEF Typed
  <1>5. DocsGoOn
    BY <1>1, <1>2, SameDocs
  <1>6. RowsKnow' /\ Grows
    BY <1>1, <1>2, <1>5, SameRows, GrowthLasts
  <1> QED
    BY <1>2, <1>4, <1>6, QuietOutside

\* One drain of Q1' commits a patch to an archived document only.
LEMMA Drained ==
  ASSUME Typed, DocsKnow, NEW d \in Docs, NEW state, PatchDrained(d, state),
         state = q1p[d] \/ (q1p[d] = "none" /\ state = "accepted")
  PROVE  /\ doc' \in Digests
         /\ q1p' \in [Docs -> {"none", "accepted", "completed", "rejected"}]
         /\ DocsGoOn
  <1>1. DocKnows(d) /\ \A e \in Docs : DocKnows(e)
    BY DEF DocsKnow
  <1>2. /\ doc \in [Docs -> Revisions]
        /\ q1p \in [Docs -> {"none", "accepted", "completed", "rejected"}]
    BY DEF Typed, Digests
  <1>3. state \in {"accepted", "completed", "rejected", "none"}
    BY <1>2
  <1>4. CASE q1p' = [q1p EXCEPT ![d] = state] /\ UNCHANGED doc
    BY <1>1, <1>2, <1>3, <1>4 DEF Digests, DocsGoOn, DocKnows
  <1>5. CASE /\ state = "accepted" /\ doc[d] = "archived"
             /\ q1p' = [q1p EXCEPT ![d] = "completed"]
             /\ doc' = [doc EXCEPT ![d] = "patched"]
    <2>1. "patched" \in Revisions
      BY DEF Revisions
    <2>2. doc' \in [Docs -> Revisions]
      BY <1>2, <1>5, <2>1
    <2>3. /\ \A e \in Docs : doc'[e] = IF e = d THEN "patched" ELSE doc[e]
          /\ \A e \in Docs : q1p'[e] = IF e = d THEN "completed" ELSE q1p[e]
      BY <1>2, <1>5
    <2>4. q1p' \in [Docs -> {"none", "accepted", "completed", "rejected"}]
      BY <1>2, <1>5
    <2>a. doc[d] = "archived"
      BY <1>5
    <2>b. \A e \in Docs : /\ q1p[e] = "completed" => doc[e] \in {"patched", "deleted"}
                          /\ doc[e] = "patched" => q1p[e] = "completed"
      BY <1>1 DEF DocKnows
    <2>5. DocsGoOn
      BY <2>3, <2>a, <2>b DEF DocsGoOn
    <2> QED
      BY <2>2, <2>4, <2>5 DEF Digests
  <1>6. CASE /\ state = "accepted" /\ doc[d] # "archived"
             /\ q1p' = [q1p EXCEPT ![d] = "rejected"]
             /\ UNCHANGED doc
    BY <1>1, <1>2, <1>6 DEF Digests, DocsGoOn, DocKnows
  <1> QED
    BY <1>4, <1>5, <1>6 DEF PatchDrained

\* A drain of Q1' by another call.
LEMMA Q1DrainsKeeps ==
  ASSUME DerivationAssumption, DerivationKnows, NEW d \in Docs, Q1Drains(d)
  PROVE  DerivationKnows'
  <1>1. Typed /\ RowsKnow /\ DocsKnow
    BY DEF DerivationKnows
  <1>2. /\ PatchDrained(d, q1p[d]) /\ UNCHANGED <<resv, binding, policy, day, lease, job>>
        /\ task' = task
    BY DEF Q1Drains, rows
  <1>3. /\ doc' \in Digests /\ DocsGoOn
        /\ q1p' \in [Docs -> {"none", "accepted", "completed", "rejected"}]
    BY <1>1, <1>2, Drained
  <1>4. Typed'
    BY <1>1, <1>2, <1>3 DEF Typed
  <1>5. RowsKnow' /\ Grows /\ Lasting
    BY <1>1, <1>2, <1>3, SameRows, GrowthLasts
  <1>6. DocsKnow'
    BY <1>1, <1>3, <1>5, DocsKeep
  <1> QED
    BY <1>2, <1>4, <1>5, <1>6, OutsideStep

-----------------------------------------------------------------------------
(* Until a claim *)

\* A call takes up a task.
LEMMA TriggerKeeps ==
  ASSUME DerivationAssumption, DerivationKnows, NEW w \in Workers, NEW t \in Tasks,
         Trigger(w, t)
  PROVE  DerivationKnows'
  <1> DEFINE j == [Idle EXCEPT !.at = "first", !.t = t]
  <1>1. Typed /\ RowsKnow /\ DocsKnow
    BY DEF DerivationKnows
  <1>2. /\ UNCHANGED <<doc, q1p, resv, binding, policy, day, lease>> /\ task' = task
        /\ task[t].state # "none" /\ job' = [job EXCEPT ![w] = j]
    BY DEF Trigger, rows, Waiting
  <1>3. j \in Jobs /\ j.at = "first" /\ j.t = t
    BY IdleTyped DEF Jobs, JobSteps, Idle
  <1> HIDE DEF j
  <1>4. job' \in [Workers -> Jobs] /\ job'[w] = j /\ \A v \in Workers \ {w} : job'[v] = job[v]
    BY <1>1, <1>2, <1>3, OneJob DEF Typed
  <1>5. Typed'
    BY <1>1, <1>2, <1>4 DEF Typed
  <1>6. DocsGoOn
    BY <1>1, <1>2, SameDocs
  <1>7. RowsKnow' /\ Grows
    BY <1>1, <1>2, <1>6, SameRows, GrowthLasts
  <1>8. JobKnows(w)'
    BY <1>2, <1>3, <1>4 DEF JobKnows, At, Claimed, Unreserved, Reserved, Patched
  <1>9. OwnStep(w)
    BY <1>2, <1>3, <1>4 DEF OwnStep, Claimed
  <1> QED
    BY <1>2, <1>5, <1>6, <1>7, <1>8, <1>9, QuietStep

\* A recorded patch is drained, and the row is read.
LEMMA DrainOwnPatchKeeps ==
  ASSUME DerivationAssumption, DerivationKnows, NEW w \in Workers, DrainOwnPatch(w)
  PROVE  DerivationKnows'
  <1> DEFINE t == job[w].t
             j0 == [job[w] EXCEPT !.at = "refresh", !.seen = task[t], !.policy = policy,
                                  !.source = doc']
             j == IF task[t].state \in Waiting THEN j0 ELSE Idle
  <1>1. Typed /\ RowsKnow /\ DocsKnow /\ JobKnows(w)
    BY DEF DerivationKnows, JobsKnow
  <1>2. /\ UNCHANGED <<resv, binding, policy, day, lease>> /\ task' = task
        /\ At(w, "first") /\ job' = [job EXCEPT ![w] = j]
    BY DEF DrainOwnPatch, rows
  <1>3. t \in Tasks /\ task[t].state # "none" /\ task[t] \in Rows /\ Doc(t) \in Docs
    BY <1>1, <1>2, DocOfTask DEF At, JobKnows, Typed
  <1>4. /\ doc' \in Digests /\ DocsGoOn
        /\ q1p' \in [Docs -> {"none", "accepted", "completed", "rejected"}]
    <2>1. CASE PatchDrained(Doc(t), q1p[Doc(t)])
      BY <1>1, <1>3, <2>1, Drained
    <2>2. CASE UNCHANGED <<q1p, doc>>
      BY <1>1, <2>2, SameDocs DEF Typed
    <2> QED
      BY <2>1, <2>2 DEF DrainOwnPatch
  <1>5. policy \in [fp : 0..MaxPolicies, approved : BOOLEAN] /\ job[w] \in Jobs
    BY <1>1 DEF Typed, Policies, DerivationAssumption
  <1>6. j0 \in Jobs /\ j0.at = "refresh" /\ j0.t = t
    <2> DEFINE a == [job[w] EXCEPT !.at = "refresh"]
               b == [a EXCEPT !.seen = task[t]]
               c == [b EXCEPT !.policy = policy]
               e == [c EXCEPT !.source = doc']
    <2>1. a \in Jobs /\ a.at = "refresh" /\ a.t = t
      BY <1>5 DEF Jobs, JobSteps
    <2> HIDE DEF a
    <2>2. b \in Jobs /\ b.at = "refresh" /\ b.t = t
      BY <1>3, <2>1 DEF Jobs
    <2> HIDE DEF b
    <2>3. c \in Jobs /\ c.at = "refresh" /\ c.t = t
      BY <1>5, <2>2 DEF Jobs
    <2> HIDE DEF c
    <2>4. e \in Jobs /\ e.at = "refresh" /\ e.t = t
      BY <1>4, <2>3 DEF Jobs
    <2>5. e = j0
      BY DEF a, b, c
    <2> QED
      BY <2>4, <2>5
  <1> HIDE DEF j0
  <1>7. /\ j \in Jobs /\ j.at \in {"refresh", "idle"}
        /\ j.at = "refresh" => j.t = t
    BY <1>6, IdleTyped DEF Idle
  <1> HIDE DEF j
  <1>8. job' \in [Workers -> Jobs] /\ job'[w] = j /\ \A v \in Workers \ {w} : job'[v] = job[v]
    BY <1>1, <1>2, <1>7, OneJob DEF Typed
  <1>9. Typed'
    BY <1>1, <1>2, <1>4, <1>8 DEF Typed
  <1>10. RowsKnow' /\ Grows
    BY <1>1, <1>2, <1>4, SameRows, GrowthLasts
  <1>11. JobKnows(w)'
    BY <1>2, <1>3, <1>7, <1>8 DEF JobKnows, At, Claimed, Unreserved, Reserved, Patched
  <1>12. OwnStep(w)
    BY <1>2, <1>7, <1>8 DEF OwnStep, Claimed
  <1> QED
    BY <1>2, <1>4, <1>9, <1>10, <1>11, <1>12, QuietStep

\* What a refresh writes.
LEMMA RefreshedRow ==
  ASSUME DerivationAssumption, Typed, RowsKnow, NEW w \in Workers, job[w].t \in Tasks,
         task[job[w].t].state \notin {"none", "processing"}
  PROVE  /\ Refreshed(w) \in Rows /\ GoesOn(Refreshed(w), task[job[w].t])
         /\ RowFits(Refreshed(w), job[w].t, q1p[Doc(job[w].t)])
  <1> DEFINE t == job[w].t
             row == task[t]
             fp == job[w].policy.fp
  <1>1. job[w] \in Jobs /\ row \in Rows /\ RowFits(row, t, q1p[Doc(t)])
    BY DEF Typed, RowsKnow, RowKnows
  <1>2. /\ job[w].seen.digest \in Digests /\ job[w].source \in Digests
        /\ fp \in 0..MaxPolicies /\ row.attempts \in Nat
    BY <1>1 DEF Jobs, Rows, DerivationAssumption
  <1>3. PICK s \in {"pending", "authorization_required"},
             digest \in Digests :
          Refreshed(w) \in {Replanned(row, digest, fp, s), Superseded(row), row}
    BY <1>2 DEF Refreshed
  <1>4. GoesOn(row, row)
    BY <1>2 DEF GoesOn
  <1>5. /\ Replanned(row, digest, fp, s) \in Rows
        /\ GoesOn(Replanned(row, digest, fp, s), row)
        /\ RowFits(Replanned(row, digest, fp, s), t, q1p[Doc(t)])
    BY <1>1, <1>2, ReplannedRow
  <1>6. /\ Superseded(row) \in Rows /\ GoesOn(Superseded(row), row)
        /\ RowFits(Superseded(row), t, q1p[Doc(t)])
    BY <1>1, SupersededRow
  <1> QED
    BY <1>1, <1>3, <1>4, <1>5, <1>6

\* The row is refreshed.
LEMMA RefreshKeeps ==
  ASSUME DerivationAssumption, DerivationKnows, NEW w \in Workers, Refresh(w)
  PROVE  DerivationKnows'
  <1> DEFINE t == job[w].t
  <1>1. Typed /\ RowsKnow /\ DocsKnow /\ JobKnows(w)
    BY DEF DerivationKnows, JobsKnow
  <1>2. UNCHANGED <<doc, q1p, resv, binding, policy, day, lease>> /\ At(w, "refresh")
    BY DEF Refresh
  <1>3. t \in Tasks /\ task[t].state # "none"
    BY <1>1, <1>2 DEF At, JobKnows
  <1>4. DocsGoOn
    BY <1>1, <1>2, SameDocs
  <1>5. task' \in [Tasks -> Rows] /\ RowsKnow' /\ Grows
    <2>1. CASE task' = task
      BY <1>1, <1>4, <2>1, SameRows, GrowthLasts DEF Typed
    <2>2. CASE task[t].state # "processing" /\ task' = [task EXCEPT ![t] = Refreshed(w)]
      <3>1. /\ Refreshed(w) \in Rows /\ GoesOn(Refreshed(w), task[t])
            /\ RowFits(Refreshed(w), t, q1p[Doc(t)])
        BY <1>1, <1>3, <2>2, RefreshedRow
      <3> QED
        BY <1>1, <1>3, <1>4, <2>2, <3>1, OneRow
    <2> QED
      BY <2>1, <2>2 DEF Refresh
  <1>6. /\ job' \in [Workers -> Jobs] /\ \A v \in Workers \ {w} : job'[v] = job[v]
        /\ job'[w].at \in {"claim", "idle"} /\ (job'[w].at = "claim" => job'[w].t = t)
    <2>1. CASE job' = [job EXCEPT ![w] = Idle]
      BY <1>1, <2>1, Leaves DEF Typed
    <2>2. CASE Goto(w, "claim")
      <3>1. "claim" \in JobSteps
        BY DEF JobSteps
      <3> QED
        BY <1>1, <2>2, <3>1, GoesTo DEF Typed
    <2> QED
      BY <2>1, <2>2 DEF Refresh
  <1>7. Typed'
    BY <1>1, <1>2, <1>5, <1>6 DEF Typed
  <1>8. task'[t].state # "none"
    BY <1>3, <1>5 DEF Grows, GoesOn
  <1>9. JobKnows(w)'
    BY <1>3, <1>6, <1>8 DEF JobKnows, At, Claimed, Unreserved, Reserved, Patched
  <1>10. OwnStep(w)
    BY <1>2, <1>6 DEF OwnStep, Claimed
  <1> QED
    BY <1>2, <1>4, <1>5, <1>7, <1>9, <1>10, QuietStep

\* The row of a task that is claimed.
Taken(row) == [row EXCEPT !.state = "processing", !.live = TRUE, !.attempts = row.attempts + 1]

\* It is written field by field.
LEMMA ClaimWrites ==
  ASSUME NEW f \in [Tasks -> Rows], NEW t \in Tasks, NEW g,
         g = [f EXCEPT ![t].state = "processing", ![t].live = TRUE, ![t].attempts = @ + 1]
  PROVE  g = [f EXCEPT ![t] = Taken(f[t])]
  <1> DEFINE row == f[t]
  <1>1. [row EXCEPT !.state = "processing", !.live = TRUE, !.attempts = @ + 1] = Taken(row)
    <2>1. row \in Rows
      OBVIOUS
    <2> DEFINE r1 == [row EXCEPT !.state = "processing"]
               r2 == [r1 EXCEPT !.live = TRUE]
    <2>2. r2.attempts = row.attempts
      BY <2>1 DEF Rows
    <2> QED
      BY <2>2 DEF Taken
  <1>2. g = [f EXCEPT ![t] = [row EXCEPT !.state = "processing", !.live = TRUE,
                                         !.attempts = @ + 1]]
    OBVIOUS
  <1> QED
    BY <1>1, <1>2

\* It is a claimed row, with one attempt more.
LEMMA ClaimedRow ==
  ASSUME DerivationAssumption, NEW row \in Rows, NEW t, NEW patch, RowFits(row, t, patch),
         row.state \in {"pending", "retry_required"}, row.attempts < MaxAttempts,
         ~ row.backoff
  PROVE  /\ Taken(row) \in Rows /\ Taken(row).attempts = row.attempts + 1
         /\ Taken(row).state = "processing" /\ Taken(row).live
         /\ GoesOn(Taken(row), row) /\ RowFits(Taken(row), t, patch)
  <1> DEFINE r1 == [row EXCEPT !.state = "processing"]
             r2 == [r1 EXCEPT !.live = TRUE]
             r3 == [r2 EXCEPT !.attempts = row.attempts + 1]
  <1>a. r1 \in Rows
    BY SetState DEF TaskStates
  <1>1. /\ r1.state = "processing" /\ (r1.backoff <=> row.backoff)
        /\ r1.attempts = row.attempts /\ (r1.applied <=> row.applied)
    BY DEF Rows
  <1> HIDE DEF r1
  <1>2. /\ r2 \in Rows /\ r2.state = "processing" /\ r2.live /\ ~ r2.backoff
        /\ r2.attempts = row.attempts /\ (r2.applied <=> row.applied)
    BY <1>a, <1>1, SetLive DEF Rows
  <1> HIDE DEF r2
  <1>3. row.attempts \in Nat /\ row.attempts + 1 \in 0..MaxAttempts
    BY DEF Rows, DerivationAssumption
  <1>4. /\ r3 \in Rows /\ r3.state = "processing" /\ r3.live /\ ~ r3.backoff
        /\ r3.attempts = row.attempts + 1 /\ (r3.applied <=> row.applied)
    BY <1>2, <1>3 DEF Rows
  <1>5. Taken(row) = r3
    BY DEF Taken, r1, r2
  <1> HIDE DEF r3
  <1>6. GoesOn(r3, row) /\ RowFits(r3, t, patch)
    BY <1>3, <1>4 DEF GoesOn, RowFits
  <1> QED
    BY <1>4, <1>5, <1>6

\* A worker that claims task t, as attempt n.
ClaimsTask(w, t) ==
  /\ task' = [Swept EXCEPT ![t] = Taken(Swept[t])]
  /\ job' = [job EXCEPT ![w] = [Idle EXCEPT !.at = "check", !.t = t,
                                            !.n = task'[t].attempts, !.seen = task'[t],
                                            !.policy = policy]]

\* A claim is a new attempt, with nothing reserved and nobody else at work on it.
LEMMA ClaimsTaskKeeps ==
  ASSUME DerivationAssumption, DerivationKnows, NEW w \in Workers, NEW t \in Tasks,
         Eligible(t), ClaimsTask(w, t),
         UNCHANGED <<doc, q1p, resv, binding, policy, day, lease>>
  PROVE  DerivationKnows'
  <1> DEFINE row == Swept[t]
             j == [Idle EXCEPT !.at = "check", !.t = t, !.n = task'[t].attempts,
                               !.seen = task'[t], !.policy = policy]
  <1>1. Typed /\ RowsKnow /\ DocsKnow /\ EntriesKnow
    BY DEF DerivationKnows
  <1>2. /\ Swept \in [Tasks -> Rows]
        /\ \A o \in Tasks : /\ GoesOn(Swept[o], task[o]) /\ RowFits(Swept[o], o, q1p[Doc(o)])
                            /\ Swept[o].attempts = task[o].attempts
    BY <1>1, SweptRows
  <1>3. /\ row \in Rows /\ RowFits(row, t, q1p[Doc(t)]) /\ ~ row.backoff
        /\ row.state \in {"pending", "retry_required"} /\ row.attempts < MaxAttempts
    BY <1>2 DEF Eligible
  <1>4. /\ Taken(row) \in Rows /\ Taken(row).attempts = row.attempts + 1
        /\ Taken(row).state = "processing"
        /\ GoesOn(Taken(row), row) /\ RowFits(Taken(row), t, q1p[Doc(t)])
    BY <1>3, ClaimedRow
  <1>5. task' \in [Tasks -> Rows]
        /\ \A o \in Tasks : task'[o] = IF o = t THEN Taken(row) ELSE Swept[o]
    BY <1>2, <1>4, WrittenRow DEF ClaimsTask
  <1>6. DocsGoOn
    BY <1>1, SameDocs
  <1>7. task[t].attempts \in Nat /\ row.attempts = task[t].attempts
    BY <1>1, <1>2 DEF Typed, Rows, DerivationAssumption
  <1>8. GoesOn(Taken(row), task[t])
    <2>1. GoesOn(row, task[t])
      BY <1>2
    <2> QED
      BY <1>4, <1>7, <2>1 DEF GoesOn
  <1>9. RowsKnow' /\ Grows
    <2>1. \A o \in Tasks : RowFits(task'[o], o, q1p[Doc(o)]) /\ GoesOn(task'[o], task[o])
      BY <1>2, <1>4, <1>5, <1>8
    <2> QED
      BY <1>6, <2>1, RowsKeep DEF Grows
  <1>10. policy \in [fp : 0..MaxPolicies, approved : BOOLEAN]
    BY <1>1 DEF Typed, Policies, DerivationAssumption
  <1>11. /\ task'[t] \in Rows /\ task'[t].attempts \in 0..MaxAttempts
         /\ task'[t].attempts = task[t].attempts + 1
    BY <1>4, <1>5, <1>7 DEF Rows
  <1>12. /\ j \in Jobs /\ j.at = "check" /\ j.t = t /\ j.n = task'[t].attempts
         /\ j.seen = task'[t]
    <2> DEFINE a == [Idle EXCEPT !.at = "check"]
               b == [a EXCEPT !.t = t]
               c == [b EXCEPT !.n = task'[t].attempts]
               d == [c EXCEPT !.seen = task'[t]]
               e == [d EXCEPT !.policy = policy]
    <2>1. a \in Jobs /\ a.at = "check"
      BY IdleTyped DEF Jobs, JobSteps
    <2> HIDE DEF a
    <2>2. b \in Jobs /\ b.at = "check" /\ b.t = t
      BY <2>1 DEF Jobs
    <2> HIDE DEF b
    <2>3. c \in Jobs /\ c.at = "check" /\ c.t = t /\ c.n = task'[t].attempts
      BY <1>11, <2>2 DEF Jobs
    <2> HIDE DEF c
    <2>4. /\ d \in Jobs /\ d.at = "check" /\ d.t = t /\ d.n = task'[t].attempts
          /\ d.seen = task'[t]
      BY <1>11, <2>3 DEF Jobs
    <2> HIDE DEF d
    <2>5. /\ e \in Jobs /\ e.at = "check" /\ e.t = t /\ e.n = task'[t].attempts
          /\ e.seen = task'[t]
      BY <1>10, <2>4 DEF Jobs
    <2>6. e = j
      BY DEF a, b, c, d
    <2> QED
      BY <2>5, <2>6
  <1>13. job' = [job EXCEPT ![w] = j]
    BY DEF ClaimsTask
  <1> HIDE DEF j
  <1>14. job' \in [Workers -> Jobs] /\ job'[w] = j /\ \A v \in Workers \ {w} : job'[v] = job[v]
    BY <1>1, <1>12, <1>13, OneJob DEF Typed
  <1>15. Typed'
    BY <1>1, <1>5, <1>14 DEF Typed
  <1>16. Lasting
    BY <1>9, GrowthLasts
  <1>17. ASSUME NEW v \in Workers, v # w PROVE JobKnows(v)' /\ Apart(v, w)' /\ Apart(w, v)'
    <2>1. JobKnows(v)
      BY DEF DerivationKnows, JobsKnow
    <2>2. job'[v] = job[v]
      BY <1>14, <1>17
    <2>3. JobKnows(v)'
      BY <1>1, <1>15, <1>16, <2>1, <2>2, OthersKeep
    <2>4. job[v].at \in Claimed /\ job[v].t = t => job[v].n # j.n
      <3>1. job[v].at \in Claimed => job[v].n \in 1..task[job[v].t].attempts
        BY <2>1 DEF JobKnows
      <3> QED
        BY <1>7, <1>11, <1>12, <3>1
    <2> QED
      BY <1>12, <1>14, <2>2, <2>3, <2>4 DEF Apart
  <1>18. JobKnows(w)'
    <2>1. task'[t].attempts \in 1..task'[t].attempts
      BY <1>7, <1>11
    <2>2. task'[t].attempts \in Attempts
      BY <1>7, <1>11 DEF Attempts, DerivationAssumption
    <2>3. resv[t][task'[t].attempts] = Unused
      BY <1>1, <1>7, <1>11, <2>2 DEF EntriesKnow, EntryKnows
    <2>4. task'[t].state # "none"
      BY <1>4, <1>5
    <2> QED
      BY <1>12, <1>14, <2>1, <2>3, <2>4 DEF JobKnows, At, Reserved, Patched
  <1>19. JobsKnow'
    BY <1>17, <1>18 DEF JobsKnow
  <1>20. JobsApart'
    <2>1. ASSUME NEW u \in Workers, NEW v \in Workers, u # v PROVE Apart(u, v)'
      <3>1. CASE u = w
        BY <1>17, <2>1, <3>1
      <3>2. CASE v = w
        BY <1>17, <2>1, <3>2
      <3>3. CASE u # w /\ v # w
        <4>1. Apart(u, v)
          BY <2>1 DEF DerivationKnows, JobsApart
        <4> QED
          BY <1>14, <3>3, <4>1 DEF Apart
      <3> QED
        BY <3>1, <3>2, <3>3
    <2> QED
      BY <2>1 DEF JobsApart
  <1>21. EntriesKnow' /\ LedgerKnows'
    BY <1>1, <1>15, <1>16, SameLedger DEF DerivationKnows
  <1>22. DocsKnow'
    BY <1>1, <1>6, <1>9, DocsKeep
  <1> QED
    BY <1>9, <1>15, <1>19, <1>20, <1>21, <1>22 DEF DerivationKnows

\* A worker claims the oldest task that may run, or its call is over.
LEMMA ClaimKeeps ==
  ASSUME DerivationAssumption, DerivationKnows, NEW w \in Workers, Claim(w)
  PROVE  DerivationKnows'
  <1>1. Typed /\ RowsKnow /\ DocsKnow /\ JobKnows(w)
    BY DEF DerivationKnows, JobsKnow
  <1>2. UNCHANGED <<doc, q1p, resv, binding, policy, day, lease>> /\ At(w, "claim")
    BY DEF Claim
  <1>3. DocsGoOn
    BY <1>1, <1>2, SameDocs
  <1>4. Swept \in [Tasks -> Rows]
    BY <1>1, SweptRows
  <1>5. ASSUME NEW t \in Tasks, Eligible(t),
               task' = [Swept EXCEPT ![t].state = "processing", ![t].live = TRUE,
                                     ![t].attempts = @ + 1],
               job' = [job EXCEPT ![w] = [Idle EXCEPT !.at = "check", !.t = t,
                          !.n = task'[t].attempts, !.seen = task'[t], !.policy = policy]]
        PROVE  DerivationKnows'
    <2>1. task' = [Swept EXCEPT ![t] = Taken(Swept[t])]
      BY <1>4, <1>5, ClaimWrites
    <2>2. ClaimsTask(w, t)
      BY <1>5, <2>1 DEF ClaimsTask
    <2> QED
      BY <1>2, <1>5, <2>2, ClaimsTaskKeeps
  <1>6. ASSUME task' \in [Tasks -> Rows], RowsKnow', Grows, job' = [job EXCEPT ![w] = Idle]
        PROVE  DerivationKnows'
    <2>1. /\ job' \in [Workers -> Jobs] /\ job'[w].at = "idle"
          /\ \A v \in Workers \ {w} : job'[v] = job[v]
          /\ JobKnows(w)'
      BY <1>1, <1>6, Leaves DEF Typed
    <2>2. Typed'
      BY <1>1, <1>2, <1>6, <2>1 DEF Typed
    <2>3. OwnStep(w)
      BY <1>2, <2>1 DEF OwnStep, Claimed
    <2> QED
      BY <1>2, <1>3, <1>6, <2>1, <2>2, <2>3, QuietStep
  <1>7. CASE task' = Swept /\ job' = [job EXCEPT ![w] = Idle]
    <2>1. RowsKnow' /\ Grows
      BY <1>1, <1>3, <1>7, SweptRows, RowsKeep DEF Grows
    <2> QED
      BY <1>4, <1>6, <1>7, <2>1
  <1>8. CASE /\ task' = [task EXCEPT ![job[w].t] =
                   IF @.state = "processing" THEN @
                   ELSE Replanned(@, job[w].seen.digest, policy.fp,
                                  "authorization_required")]
             /\ job' = [job EXCEPT ![w] = Idle]
    <2> DEFINE t == job[w].t
               new == Replanned(task[t], job[w].seen.digest, policy.fp,
                                "authorization_required")
               row == IF task[t].state = "processing" THEN task[t] ELSE new
    <2>1. t \in Tasks /\ task[t].state # "none"
      BY <1>1, <1>2 DEF At, JobKnows
    <2>2. /\ task[t] \in Rows /\ RowFits(task[t], t, q1p[Doc(t)]) /\ job[w] \in Jobs
          /\ task[t].attempts \in Nat
      BY <1>1, <2>1 DEF Typed, RowsKnow, RowKnows, Rows, DerivationAssumption
    <2>3. job[w].seen.digest \in Digests /\ policy.fp \in 0..MaxPolicies
      BY <1>1, <2>2 DEF Typed, Jobs, Rows, Policies, DerivationAssumption
    <2>4. row \in Rows /\ GoesOn(row, task[t]) /\ RowFits(row, t, q1p[Doc(t)])
      <3>1. CASE task[t].state = "processing"
        BY <2>2, <3>1 DEF GoesOn
      <3>2. CASE task[t].state # "processing"
        <4>1. new \in Rows /\ GoesOn(new, task[t]) /\ RowFits(new, t, q1p[Doc(t)])
          BY <2>1, <2>2, <2>3, <3>2, ReplannedRow
        <4> HIDE DEF new
        <4> QED
          BY <3>2, <4>1
      <3> QED
        BY <3>1, <3>2
    <2>5. task' = [task EXCEPT ![t] = row]
      BY <1>8
    <2> HIDE DEF row
    <2>6. task' \in [Tasks -> Rows] /\ RowsKnow' /\ Grows
      BY <1>1, <1>3, <2>1, <2>4, <2>5, OneRow
    <2> QED
      BY <1>6, <1>8, <2>6
  <1> QED
    BY <1>5, <1>7, <1>8 DEF Claim

-----------------------------------------------------------------------------
(* An attempt *)

\* A worker whose call is over.
LEMMA DoneLeaves ==
  ASSUME DerivationAssumption, Typed, NEW w \in Workers, Done(w)
  PROVE  /\ job' \in [Workers -> Jobs] /\ job'[w].at = "idle"
         /\ \A v \in Workers \ {w} : job'[v] = job[v]
         /\ JobKnows(w)' /\ lease' \in Workers \cup {None}
  <1>1. job' = [job EXCEPT ![w] = Idle] /\ lease' \in Workers \cup {None}
    BY DEF Done, Typed
  <1> QED
    BY <1>1, Leaves DEF Typed

\* A worker leaves: its task and its reservation stay.
LEMMA LeaveKeeps ==
  ASSUME DerivationAssumption, DerivationKnows, NEW w \in Workers,
         job' = [job EXCEPT ![w] = Idle], lease' \in Workers \cup {None},
         UNCHANGED <<doc, rows, q1p, resv, binding, policy, day>>
  PROVE  DerivationKnows'
  <1>1. Typed /\ RowsKnow /\ DocsKnow
    BY DEF DerivationKnows
  <1>2. /\ job' \in [Workers -> Jobs] /\ job'[w].at = "idle"
        /\ \A v \in Workers \ {w} : job'[v] = job[v]
        /\ JobKnows(w)'
    BY <1>1, Leaves DEF Typed
  <1>3. Typed'
    BY <1>1, <1>2 DEF Typed, rows
  <1>4. DocsGoOn /\ task' = task
    BY <1>1, SameDocs DEF rows
  <1>5. RowsKnow' /\ Grows
    BY <1>1, <1>4, SameRows, GrowthLasts
  <1>6. OwnStep(w)
    BY <1>2 DEF OwnStep, Claimed
  <1> QED
    BY <1>2, <1>3, <1>4, <1>5, <1>6, QuietStep

\* A worker marks the row of its claim, if it has it still, and leaves.
LEMMA MarkKeeps ==
  ASSUME DerivationAssumption, DerivationKnows, NEW w \in Workers, job[w].at \in Claimed,
         NEW s \in TaskStates \ {"none", "processing"}, MarkState(w, s),
         s = "completed" /\ IsArchive(job[w].t) => task[job[w].t].applied,
         binding' \in Bindings, UNCHANGED <<doc, q1p, resv, policy, day>>
  PROVE  DerivationKnows'
  <1> DEFINE t == job[w].t
  <1>1. Typed /\ RowsKnow /\ DocsKnow /\ JobKnows(w)
    BY DEF DerivationKnows, JobsKnow
  <1>2. t \in Tasks /\ task[t].state # "none" /\ task[t] \in Rows
    BY <1>1, AttemptIsThere
  <1>3. DocsGoOn
    BY <1>1, SameDocs
  <1>4. task' \in [Tasks -> Rows] /\ RowsKnow' /\ Grows
    <2>1. CASE task' = [task EXCEPT ![t] = Finished(task[t], s)]
      <3>1. RowFits(task[t], t, q1p[Doc(t)])
        BY <1>1, <1>2 DEF RowsKnow, RowKnows
      <3>2. /\ Finished(task[t], s) \in Rows /\ GoesOn(Finished(task[t], s), task[t])
            /\ RowFits(Finished(task[t], s), t, q1p[Doc(t)])
        BY <1>2, <3>1, FinishedRow
      <3> QED
        BY <1>1, <1>2, <1>3, <2>1, <3>2, OneRow
    <2>2. CASE task' = task
      BY <1>1, <1>3, <2>2, SameRows, GrowthLasts DEF Typed
    <2> QED
      BY <2>1, <2>2 DEF MarkState
  <1>5. /\ job' \in [Workers -> Jobs] /\ job'[w].at = "idle"
        /\ \A v \in Workers \ {w} : job'[v] = job[v]
        /\ JobKnows(w)' /\ lease' \in Workers \cup {None}
    BY <1>1, DoneLeaves DEF MarkState
  <1>6. Typed'
    BY <1>1, <1>4, <1>5 DEF Typed
  <1>7. OwnStep(w)
    BY <1>5 DEF OwnStep, Claimed
  <1> QED
    BY <1>3, <1>4, <1>5, <1>6, <1>7, QuietStep

\* A worker goes on with its attempt, and changes at most its row, documents and
\* patches.
LEMMA GoesOnKeeps ==
  ASSUME DerivationAssumption, DerivationKnows, NEW w \in Workers, job[w].at \in Claimed,
         Typed', RowsKnow', Grows, DocsGoOn, resv' = resv,
         \A v \in Workers \ {w} : job'[v] = job[v],
         job'[w].t = job[w].t, job'[w].n = job[w].n,
         job'[w].seen.applied => task'[job[w].t].applied,
         job'[w].at \in Unreserved => resv[job[w].t][job[w].n] = Unused,
         job'[w].at \in Reserved => resv[job[w].t][job[w].n].state = "reserved",
         job'[w].at = "llm" => "llm" \in resv[job[w].t][job[w].n].covers,
         job'[w].at \in Patched /\ IsArchive(job[w].t) => task'[job[w].t].applied
  PROVE  DerivationKnows'
  <1>1. Typed /\ JobKnows(w)
    BY DEF DerivationKnows, JobsKnow
  <1>2. Lasting
    BY GrowthLasts
  <1>3. JobKnows(w)'
    BY <1>1, <1>2, AttemptGoesOn
  <1>4. OwnStep(w)
    BY DEF OwnStep
  <1> QED
    BY <1>3, <1>4, QuietStep

\* An attempt with an open reservation fails, and nothing else happens but what
\* the binding, the lease and a drain of Q1' do.
LEMMA FailingKeeps ==
  ASSUME DerivationAssumption, DerivationKnows, NEW w \in Workers, job[w].at \in Reserved,
         GotoFail(w), task' = task, DocsGoOn, doc' \in Digests,
         q1p' \in [Docs -> {"none", "accepted", "completed", "rejected"}],
         binding' \in Bindings, lease' \in Workers \cup {None},
         UNCHANGED <<resv, policy, day>>
  PROVE  DerivationKnows'
  <1>1. Typed /\ RowsKnow /\ DocsKnow /\ JobKnows(w)
    BY DEF DerivationKnows, JobsKnow
  <1>2. /\ job' \in [Workers -> Jobs] /\ job'[w].at = "fail" /\ job'[w].t = job[w].t
        /\ job'[w].n = job[w].n /\ ~ job'[w].seen.applied
        /\ \A v \in Workers \ {w} : job'[v] = job[v]
    BY <1>1, GoesToFail DEF Typed
  <1>3. Typed'
    BY <1>1, <1>2 DEF Typed
  <1>4. RowsKnow' /\ Grows
    BY <1>1, SameRows, GrowthLasts
  <1>5. job[w].at \in Claimed /\ resv[job[w].t][job[w].n].state = "reserved"
    BY <1>1 DEF Reserved, Claimed, JobKnows
  <1> QED
    BY <1>2, <1>3, <1>4, <1>5, GoesOnKeeps DEF Unreserved, Patched

\* The patch is acknowledged on the row.
LEMMA AcknowledgedRow ==
  ASSUME DerivationAssumption, DerivationKnows, NEW w \in Workers, job[w].at \in Claimed,
         q1p[Doc(job[w].t)] = "completed", Acknowledged(w), UNCHANGED <<doc, q1p>>
  PROVE  /\ task' \in [Tasks -> Rows] /\ RowsKnow' /\ Grows /\ task'[job[w].t].applied
  <1> DEFINE t == job[w].t
             r1 == [task[t] EXCEPT !.applied = TRUE]
             r2 == [r1 EXCEPT !.digest = doc]
  <1>1. Typed /\ RowsKnow /\ DocsKnow /\ JobKnows(w)
    BY DEF DerivationKnows, JobsKnow
  <1>2. t \in Tasks /\ task[t] \in Rows /\ RowFits(task[t], t, q1p[Doc(t)])
        /\ task[t].attempts \in Nat /\ doc \in Digests
    BY <1>1, AttemptIsThere DEF RowsKnow, RowKnows, Rows, DerivationAssumption, Typed
  <1>3. task' = [task EXCEPT ![t] = r2]
    BY DEF Acknowledged
  <1>4. /\ r1 \in Rows /\ r1.state = task[t].state /\ (r1.live <=> task[t].live)
        /\ (r1.backoff <=> task[t].backoff) /\ r1.attempts = task[t].attempts /\ r1.applied
    BY <1>2 DEF Rows
  <1> HIDE DEF r1
  <1>5. /\ r2 \in Rows /\ r2.state = task[t].state /\ (r2.live <=> task[t].live)
        /\ (r2.backoff <=> task[t].backoff) /\ r2.attempts = task[t].attempts /\ r2.applied
    BY <1>2, <1>4 DEF Rows
  <1> HIDE DEF r2
  <1>6. GoesOn(r2, task[t]) /\ RowFits(r2, t, q1p[Doc(t)])
    BY <1>2, <1>5 DEF GoesOn, RowFits
  <1>7. DocsGoOn
    BY <1>1, SameDocs
  <1>8. task' \in [Tasks -> Rows] /\ RowsKnow' /\ Grows
    BY <1>1, <1>2, <1>3, <1>5, <1>6, <1>7, OneRow
  <1>9. task'[t] = r2
    BY <1>1, <1>2, <1>3 DEF Typed
  <1> QED
    BY <1>5, <1>8, <1>9

\* The claim is checked.
LEMMA CheckClaimKeeps ==
  ASSUME DerivationAssumption, DerivationKnows, NEW w \in Workers, CheckClaim(w)
  PROVE  DerivationKnows'
  <1> DEFINE t == job[w].t
  <1>1. Typed /\ RowsKnow /\ DocsKnow /\ JobKnows(w)
    BY DEF DerivationKnows, JobsKnow
  <1>2. UNCHANGED <<doc, q1p, resv, binding, policy, day>> /\ At(w, "check")
    BY DEF CheckClaim
  <1>3. job[w].at \in Claimed /\ job[w].at \in Unreserved
    BY <1>2 DEF At, Claimed, Unreserved
  <1>4. /\ t \in Tasks /\ Doc(t) \in Docs /\ resv[t][job[w].n] = Unused
        /\ job[w].seen.applied => task[t].applied
    BY <1>1, <1>3, AttemptIsThere DEF JobKnows
  <1>5. DocsGoOn /\ binding' \in Bindings
    BY <1>1, <1>2, SameDocs DEF Typed
  <1>6. ASSUME NEW s \in {"authorization_required", "superseded"}, MarkState(w, s)
        PROVE  DerivationKnows'
    <2>1. s \in TaskStates \ {"none", "processing"} /\ s # "completed"
      BY DEF TaskStates
    <2> QED
      BY <1>2, <1>3, <1>5, <1>6, <2>1, MarkKeeps
  <1>7. CASE /\ PatchWaitsForAck(w) /\ Acknowledged(w) /\ UNCHANGED lease
             /\ job' = [job EXCEPT ![w].seen = task'[t]]
    <2> DEFINE j == [job[w] EXCEPT !.seen = task'[t]]
    <2>1. q1p[Doc(t)] = "completed"
      BY <1>7 DEF PatchWaitsForAck
    <2>2. task' \in [Tasks -> Rows] /\ RowsKnow' /\ Grows /\ task'[t].applied
      BY <1>2, <1>3, <1>7, <2>1, AcknowledgedRow
    <2>a. job[w] \in Jobs /\ task'[t] \in Rows
      BY <1>1, <1>4, <2>2 DEF Typed
    <2>3. j \in Jobs /\ j.at = job[w].at /\ j.t = job[w].t /\ j.n = job[w].n
      BY <2>a DEF Jobs
    <2>4. job' = [job EXCEPT ![w] = j]
      BY <1>7
    <2> HIDE DEF j
    <2>5. /\ job' \in [Workers -> Jobs] /\ job'[w] = j
          /\ \A v \in Workers \ {w} : job'[v] = job[v]
      BY <1>1, <2>3, <2>4, OneJob DEF Typed
    <2>6. Typed'
      BY <1>1, <1>2, <1>7, <2>2, <2>5 DEF Typed
    <2>7. job'[w].at = "check" /\ job'[w].t = t /\ job'[w].n = job[w].n
      BY <1>2, <2>3, <2>5 DEF At
    <2> QED
      BY <1>2, <1>3, <1>4, <1>5, <2>2, <2>5, <2>6, <2>7, GoesOnKeeps
      DEF Reserved, Patched
  <1>8. CASE (Goto(w, "reserve") \/ Goto(w, "hide")) /\ UNCHANGED <<task, lease>>
    <2>1. PICK s \in {"reserve", "hide"} : Goto(w, s)
      BY <1>8
    <2>2. /\ job' \in [Workers -> Jobs] /\ job'[w].at = s /\ job'[w].t = t
          /\ job'[w].n = job[w].n /\ job'[w].seen = job[w].seen
          /\ \A v \in Workers \ {w} : job'[v] = job[v]
      <3>1. s \in JobSteps
        BY DEF JobSteps
      <3> QED
        BY <1>1, <2>1, <3>1, GoesTo DEF Typed
    <2>3. Typed'
      BY <1>1, <1>2, <1>8, <2>2 DEF Typed
    <2>4. RowsKnow' /\ Grows
      BY <1>1, <1>5, <1>8, SameRows, GrowthLasts
    <2>5. job'[w].at \notin Reserved \cup Patched \cup {"llm"}
      BY <2>2 DEF Reserved, Patched
    <2>6. job'[w].seen.applied => task'[t].applied
      BY <1>4, <1>8, <2>2
    <2> QED
      BY <1>2, <1>3, <1>4, <1>5, <2>2, <2>3, <2>4, <2>5, <2>6, GoesOnKeeps
  <1> QED
    BY <1>6, <1>7, <1>8 DEF CheckClaim

\* The plan of the attempt cannot be read.
LEMMA RetryClaimedKeeps ==
  ASSUME DerivationAssumption, DerivationKnows, NEW w \in Workers, RetryClaimed(w)
  PROVE  DerivationKnows'
  <1>1. job[w].at \in Claimed /\ "retry_required" \in TaskStates \ {"none", "processing"}
    BY DEF RetryClaimed, At, Claimed, TaskStates
  <1>2. binding' \in Bindings
    BY BindingTyped DEF DerivationKnows, RetryClaimed
  <1> QED
    BY <1>1, <1>2, MarkKeeps DEF RetryClaimed

\* The archive is completed.
LEMMA MarkCompletedKeeps ==
  ASSUME DerivationAssumption, DerivationKnows, NEW w \in Workers, MarkCompleted(w)
  PROVE  DerivationKnows'
  <1>1. /\ job[w].at \in Claimed /\ job[w].at \in Patched
        /\ "completed" \in TaskStates \ {"none", "processing"}
    BY DEF MarkCompleted, At, Claimed, Patched, TaskStates
  <1>2. binding' \in Bindings
    BY DEF DerivationKnows, MarkCompleted, Typed
  <1>3. IsArchive(job[w].t) => task[job[w].t].applied
    BY <1>1 DEF DerivationKnows, JobsKnow, JobKnows
  <1> QED
    BY <1>1, <1>2, <1>3, MarkKeeps DEF MarkCompleted

\* A failed attempt gives its claim back.
LEMMA FailMarkKeeps ==
  ASSUME DerivationAssumption, DerivationKnows, NEW w \in Workers, FailMark(w)
  PROVE  DerivationKnows'
  <1>1. job[w].at \in Claimed /\ "retry_required" \in TaskStates \ {"none", "processing"}
    BY DEF FailMark, At, Claimed, TaskStates
  <1>2. binding' \in Bindings
    <2>1. binding \in Bindings /\ NonReady(doc) \in Bindings
      BY BindingTyped DEF DerivationKnows, Typed
    <2> QED
      BY <2>1 DEF FailMark
  <1> QED
    BY <1>1, <1>2, MarkKeeps DEF FailMark

\* A worker meets the lease of another, or dies.
LEMMA CrashKeeps ==
  ASSUME DerivationAssumption, DerivationKnows, NEW w \in Workers, Crash(w) \/ WriteBusy(w)
  PROVE  DerivationKnows'
  <1>1. Typed /\ RowsKnow /\ DocsKnow
    BY DEF DerivationKnows
  <1>2. UNCHANGED <<doc, rows, q1p, resv, binding, policy, day>>
    BY DEF Crash, WriteBusy
  <1>3. lease' \in Workers \cup {None}
    BY <1>1 DEF Crash, WriteBusy, Done, Typed
  <1>4. CASE job' = [job EXCEPT ![w] = Idle]
    BY <1>2, <1>3, <1>4, LeaveKeeps
  <1>5. CASE job[w].at \in {"record", "submit", "publish", "settle"} /\ GotoFail(w)
    <2>1. job[w].at \in Reserved
      BY <1>5 DEF Reserved
    <2>2. DocsGoOn /\ task' = task
      BY <1>1, <1>2, SameDocs DEF rows
    <2>3. /\ doc' \in Digests /\ binding' \in Bindings
          /\ q1p' \in [Docs -> {"none", "accepted", "completed", "rejected"}]
      BY <1>1, <1>2 DEF Typed
    <2> QED
      BY <1>2, <1>3, <1>5, <2>1, <2>2, <2>3, FailingKeeps
  <1> QED
    BY <1>4, <1>5 DEF Crash, WriteBusy, Done

\* A call was made, or may have been charged: it stays in the ledger.
CallMade(w, k) == resv' = [resv EXCEPT ![job[w].t][job[w].n].made = @ \cup {k}]

\* It was reserved.
LEMMA CallKeeps ==
  ASSUME DerivationAssumption, DerivationKnows, NEW w \in Workers, job[w].at \in Reserved,
         NEW k \in Calls, k \in resv[job[w].t][job[w].n].covers, CallMade(w, k),
         UNCHANGED <<doc, q1p, binding, policy, day, lease>>, task' = task,
         job' \in [Workers -> Jobs], \A v \in Workers \ {w} : job'[v] = job[v],
         job'[w].t = job[w].t, job'[w].n = job[w].n,
         job'[w].seen.applied => task[job[w].t].applied,
         job'[w].at \in {"record", "publish", "fail"},
         job'[w].at = "publish" /\ IsArchive(job[w].t) => task[job[w].t].applied
  PROVE  DerivationKnows'
  <1> DEFINE t == job[w].t
             n == job[w].n
             old == resv[t][n]
             e == [old EXCEPT !.made = old.made \cup {k}]
  <1>1. /\ Typed /\ RowsKnow /\ DocsKnow /\ JobKnows(w) /\ EntriesKnow /\ LedgerKnows
        /\ job[w].at \in Claimed
    BY DEF DerivationKnows, JobsKnow, Claimed, Reserved
  <1>2. t \in Tasks /\ n \in Attempts /\ n <= task[t].attempts /\ old \in Reservations
    BY <1>1, AttemptIsThere
  <1>3. old.state = "reserved" /\ old.made \subseteq old.covers /\ "embedding" \in old.covers
    BY <1>1, <1>2 DEF JobKnows, EntriesKnow, EntryKnows
  <1>4. /\ e \in Reservations /\ e.policy = old.policy /\ e.day = old.day
        /\ e.covers = old.covers /\ e.state = "reserved" /\ e.made = old.made \cup {k}
    <2> DEFINE made == old.made \cup {k}
    <2>1. made \in SUBSET Calls
      BY <1>2 DEF Reservations
    <2> HIDE DEF made
    <2>a. old \in Reservations /\ old.state = "reserved"
      BY <1>2, <1>3
    <2> HIDE DEF old
    <2>2. /\ [old EXCEPT !.made = made] \in Reservations
          /\ [old EXCEPT !.made = made].policy = old.policy
          /\ [old EXCEPT !.made = made].day = old.day
          /\ [old EXCEPT !.made = made].covers = old.covers
          /\ [old EXCEPT !.made = made].state = "reserved"
          /\ [old EXCEPT !.made = made].made = made
      BY <2>1, <2>a DEF Reservations
    <2> QED
      BY <2>2 DEF made
  <1>5. resv' = [resv EXCEPT ![t][n] = e]
    BY DEF CallMade
  <1>6. resv \in [Tasks -> [Attempts -> Reservations]]
    BY <1>1 DEF Typed
  <1> HIDE DEF e
  <1>7. /\ resv' \in [Tasks -> [Attempts -> Reservations]] /\ resv'[t][n] = e
        /\ \A s \in Tasks, m \in Attempts : s # t \/ m # n => resv'[s][m] = resv[s][m]
    <2>1. t \in Tasks /\ n \in Attempts /\ e \in Reservations
      BY <1>2, <1>4
    <2> HIDE DEF t, n
    <2> QED
      BY <1>5, <1>6, <2>1, OneEntry
  <1>8. Typed'
    BY <1>1, <1>7 DEF Typed
  <1>9. DocsGoOn
    BY <1>1, SameDocs
  <1>10. RowsKnow' /\ Grows /\ Lasting
    BY <1>1, <1>9, SameRows, GrowthLasts
  <1>11. DocsKnow'
    BY <1>1, <1>9, <1>10, DocsKeep
  <1>12. e.made \subseteq e.covers
    BY <1>3, <1>4
  <1>13. EntriesKnow' /\ LedgerKnows'
    BY <1>1, <1>2, <1>3, <1>4, <1>5, <1>8, <1>10, <1>12, EntryKeeps
  <1>14. JobKnows(w)'
    <2>1. /\ job'[w].at \notin Unreserved /\ job'[w].at # "llm"
          /\ job'[w].at \in Patched => job'[w].at = "publish"
      BY DEF Unreserved, Patched
    <2> QED
      BY <1>1, <1>4, <1>7, <1>8, <1>10, <2>1, AttemptGoesOn
  <1>15. OwnStep(w)
    BY <1>1, <1>7 DEF OwnStep
  <1>16. JobsKnow' /\ JobsApart'
    BY <1>8, <1>10, <1>14, <1>15, OwnStepKeeps
  <1> QED
    BY <1>8, <1>10, <1>11, <1>13, <1>16 DEF DerivationKnows

\* The summary is asked for.
LEMMA CallLLMKeeps ==
  ASSUME DerivationAssumption, DerivationKnows, NEW w \in Workers, CallLLM(w)
  PROVE  DerivationKnows'
  <1> DEFINE t == job[w].t
  <1>1. Typed /\ RowsKnow /\ DocsKnow /\ JobKnows(w)
    BY DEF DerivationKnows, JobsKnow
  <1>2. /\ UNCHANGED <<doc, q1p, binding, policy, day, lease>> /\ task' = task
        /\ At(w, "llm")
    BY DEF CallLLM, rows
  <1>3. job[w].at \in Reserved /\ job[w].at \in Claimed
    BY <1>2 DEF At, Claimed, Reserved
  <1>4. "llm" \in resv[t][job[w].n].covers /\ "llm" \in Calls
    BY <1>1, <1>2 DEF JobKnows, Calls
  <1>5. CASE GotoFail(w) /\ UNCHANGED resv
    <2>1. DocsGoOn
      BY <1>1, <1>2, SameDocs
    <2>2. /\ doc' \in Digests /\ binding' \in Bindings /\ lease' \in Workers \cup {None}
          /\ q1p' \in [Docs -> {"none", "accepted", "completed", "rejected"}]
      BY <1>1, <1>2 DEF Typed
    <2> QED
      BY <1>2, <1>3, <1>5, <2>1, <2>2, FailingKeeps
  <1>6. CASE /\ resv' = [resv EXCEPT ![job[w].t][job[w].n].made = @ \cup {"llm"}]
             /\ Goto(w, "record") \/ GotoFail(w)
    <2>1. CallMade(w, "llm")
      BY <1>6 DEF CallMade
    <2>2. /\ job' \in [Workers -> Jobs] /\ \A v \in Workers \ {w} : job'[v] = job[v]
          /\ job'[w].t = t /\ job'[w].n = job[w].n
          /\ job'[w].seen.applied => job[w].seen.applied
          /\ job'[w].at \in {"record", "fail"}
      <3>1. CASE Goto(w, "record")
        <4>1. "record" \in JobSteps
          BY DEF JobSteps
        <4> QED
          BY <1>1, <3>1, <4>1, GoesTo DEF Typed
      <3>2. CASE GotoFail(w)
        BY <1>1, <3>2, GoesToFail DEF Typed
      <3> QED
        BY <1>6, <3>1, <3>2
    <2>3. job'[w].seen.applied => task[t].applied
      BY <1>1, <1>3, <2>2 DEF JobKnows
    <2> QED
      BY <1>2, <1>3, <1>4, <2>1, <2>2, <2>3, CallKeeps
  <1> QED
    BY <1>5, <1>6 DEF CallLLM

\* The vectors are made.
LEMMA EmbedKeeps ==
  ASSUME DerivationAssumption, DerivationKnows, NEW w \in Workers, Embed(w)
  PROVE  DerivationKnows'
  <1> DEFINE t == job[w].t
  <1>1. Typed /\ RowsKnow /\ DocsKnow /\ JobKnows(w) /\ EntriesKnow
    BY DEF DerivationKnows, JobsKnow
  <1>2. /\ UNCHANGED <<doc, q1p, binding, policy, day, lease>> /\ task' = task
        /\ At(w, "embed")
    BY DEF Embed, rows
  <1>3. job[w].at \in Reserved /\ job[w].at \in Claimed /\ job[w].at \in Patched
    BY <1>2 DEF At, Claimed, Reserved, Patched
  <1>4. /\ t \in Tasks /\ job[w].n \in Attempts /\ resv[t][job[w].n].state = "reserved"
        /\ IsArchive(t) => task[t].applied
        /\ job[w].seen.applied => task[t].applied
    BY <1>1, <1>3, AttemptIsThere DEF JobKnows
  <1>5. "embedding" \in resv[t][job[w].n].covers /\ "embedding" \in Calls
    BY <1>1, <1>4 DEF EntriesKnow, EntryKnows, Calls
  <1>6. DocsGoOn
    BY <1>1, <1>2, SameDocs
  <1>7. CASE GotoFail(w) /\ UNCHANGED resv
    <2>1. /\ doc' \in Digests /\ binding' \in Bindings /\ lease' \in Workers \cup {None}
          /\ q1p' \in [Docs -> {"none", "accepted", "completed", "rejected"}]
      BY <1>1, <1>2 DEF Typed
    <2> QED
      BY <1>2, <1>3, <1>6, <1>7, <2>1, FailingKeeps
  <1>8. CASE Goto(w, "settle") /\ UNCHANGED resv
    <2>1. /\ job' \in [Workers -> Jobs] /\ job'[w].at = "settle" /\ job'[w].t = t
          /\ job'[w].n = job[w].n /\ job'[w].seen = job[w].seen
          /\ \A v \in Workers \ {w} : job'[v] = job[v]
      <3>1. "settle" \in JobSteps
        BY DEF JobSteps
      <3> QED
        BY <1>1, <1>8, <3>1, GoesTo DEF Typed
    <2>2. Typed'
      BY <1>1, <1>2, <1>8, <2>1 DEF Typed
    <2>3. RowsKnow' /\ Grows
      BY <1>1, <1>2, <1>6, SameRows, GrowthLasts
    <2>4. job'[w].at \notin Unreserved /\ job'[w].at # "llm"
      BY <2>1 DEF Unreserved
    <2> QED
      BY <1>2, <1>3, <1>4, <1>6, <1>8, <2>1, <2>2, <2>3, <2>4, GoesOnKeeps
  <1>9. CASE /\ resv' = [resv EXCEPT ![job[w].t][job[w].n].made = @ \cup {"embedding"}]
             /\ \/ job' = [job EXCEPT ![w] = [@ EXCEPT !.at = "publish", !.source = doc,
                                                      !.base = binding]]
                \/ GotoFail(w)
    <2>1. CallMade(w, "embedding")
      BY <1>9 DEF CallMade
    <2>2. /\ job' \in [Workers -> Jobs] /\ \A v \in Workers \ {w} : job'[v] = job[v]
          /\ job'[w].t = t /\ job'[w].n = job[w].n
          /\ job'[w].seen.applied => job[w].seen.applied
          /\ job'[w].at \in {"publish", "fail"}
      <3>1. CASE job' = [job EXCEPT ![w] = [@ EXCEPT !.at = "publish", !.source = doc,
                                                      !.base = binding]]
        <4> DEFINE a == [job[w] EXCEPT !.at = "publish"]
                   b == [a EXCEPT !.source = doc]
                   c == [b EXCEPT !.base = binding]
        <4>1. job[w] \in Jobs /\ doc \in Digests /\ binding \in Bindings
          BY <1>1 DEF Typed
        <4>2. /\ a \in Jobs /\ a.at = "publish" /\ a.t = t /\ a.n = job[w].n
              /\ a.seen = job[w].seen
          BY <4>1 DEF Jobs, JobSteps
        <4>a. job' = [job EXCEPT ![w] = c]
          BY <3>1
        <4> HIDE DEF a
        <4>3. /\ b \in Jobs /\ b.at = "publish" /\ b.t = t /\ b.n = job[w].n
              /\ b.seen = job[w].seen
          BY <4>1, <4>2 DEF Jobs
        <4> HIDE DEF b
        <4>4. /\ c \in Jobs /\ c.at = "publish" /\ c.t = t /\ c.n = job[w].n
              /\ c.seen = job[w].seen
          BY <4>1, <4>3 DEF Jobs
        <4> HIDE DEF c
        <4>5. /\ job' \in [Workers -> Jobs] /\ job'[w] = c
              /\ \A v \in Workers \ {w} : job'[v] = job[v]
          BY <1>1, <4>4, <4>a, OneJob DEF Typed
        <4> QED
          BY <4>4, <4>5
      <3>2. CASE GotoFail(w)
        BY <1>1, <3>2, GoesToFail DEF Typed
      <3> QED
        BY <1>9, <3>1, <3>2
    <2>3. job'[w].seen.applied => task[t].applied
      BY <1>4, <2>2
    <2>4. job'[w].at = "publish" /\ IsArchive(t) => task[t].applied
      BY <1>4
    <2> QED
      BY <1>2, <1>3, <1>5, <2>1, <2>2, <2>3, <2>4, CallKeeps
  <1> QED
    BY <1>7, <1>8, <1>9 DEF Embed

\* A reservation within the cap keeps the ledger.
LEMMA ReservingKeeps ==
  ASSUME DerivationAssumption, Typed, Typed', EntriesKnow, LedgerKnows, task' = task,
         NEW t \in Tasks, NEW n \in Attempts, n <= task[t].attempts,
         NEW e \in Reservations, resv' = [resv EXCEPT ![t][n] = e],
         "embedding" \in e.covers, e.made = {}, e.state = "reserved",
         Spent(e.policy, e.day) + Cardinality(e.covers) <= Cap
  PROVE  EntriesKnow' /\ LedgerKnows'
  <1>1. /\ resv'[t][n] = e
        /\ \A s \in Tasks, m \in Attempts : s # t \/ m # n => resv'[s][m] = resv[s][m]
    BY OneEntry DEF Typed
  <1> DEFINE new == {<<t, n, k>> : k \in e.covers}
  <1>2. ASSUME NEW fp, NEW d, NEW c \in Counted(fp, d)'
        PROVE  c \in Counted(fp, d) \/ (fp = e.policy /\ d = e.day /\ c \in new)
    <2> DEFINE s == c[1]
               m == c[2]
    <2>1. /\ c \in Tasks \X Attempts \X Calls /\ c[3] \in resv'[s][m].covers
          /\ resv'[s][m].policy = fp /\ resv'[s][m].day = d
          /\ resv'[s][m].state \in {"reserved", "settled"}
      BY <1>2 DEF Counted
    <2>2. s \in Tasks /\ m \in Attempts /\ c = <<s, m, c[3]>>
      BY <2>1
    <2>3. CASE s = t /\ m = n
      BY <1>1, <2>1, <2>2, <2>3
    <2>4. CASE s # t \/ m # n
      <3>1. resv'[s][m] = resv[s][m]
        BY <1>1, <2>2, <2>4
      <3> QED
        BY <2>1, <3>1 DEF Counted
    <2> QED
      BY <2>3, <2>4
  <1>3. ASSUME NEW fp \in 0..MaxPolicies, NEW d \in Nat PROVE (Spent(fp, d) <= Cap)'
    <2> DEFINE S == Counted(fp, d)
    <2>1. S \in SUBSET Entries /\ IsFiniteSet(S) /\ Spent(fp, d) = Cardinality(S)
      BY CountedIsFinite DEF Spent
    <2>2. Spent(fp, d) <= Cap /\ Spent(fp, d) \in Nat /\ Cap \in Nat
      BY CountedIsFinite DEF LedgerKnows, DerivationAssumption
    <2>3. Spent(fp, d)' = Cardinality(S')
      BY DEF Spent
    <2>4. CASE fp = e.policy /\ d = e.day
      <3>1. S' \subseteq S \cup new
        BY <1>2, <2>4
      <3>2. e.covers \in SUBSET Calls
        BY DEF Reservations
      <3>3. /\ Cardinality(S \cup new) <= Cardinality(S) + Cardinality(e.covers)
            /\ Cardinality(S \cup new) \in Nat /\ Cardinality(e.covers) \in Nat
        BY <2>1, <3>2, ReservationAdds
      <3>4. IsFiniteSet(S \cup new)
        <4>1. new \subseteq Entries
          BY <3>2 DEF Entries
        <4>2. S \cup new \subseteq Entries
          BY <2>1, <4>1
        <4> QED
          BY <4>2, EntriesAreFinite, FS_Subset
      <3>5. Cardinality(S') <= Cardinality(S \cup new) /\ Cardinality(S') \in Nat
        BY <3>1, <3>4, FS_Subset, FS_CardinalityType
      <3> QED
        BY <2>1, <2>2, <2>3, <2>4, <3>3, <3>5
    <2>5. CASE ~ (fp = e.policy /\ d = e.day)
      <3>1. S' \subseteq S
        BY <1>2, <2>5
      <3>2. Cardinality(S') <= Cardinality(S) /\ Cardinality(S') \in Nat
        BY <2>1, <3>1, FS_Subset, FS_CardinalityType
      <3> QED
        BY <2>1, <2>2, <2>3, <3>2
    <2> QED
      BY <2>4, <2>5
  <1>4. ASSUME NEW s \in Tasks, NEW m \in Attempts PROVE EntryKnows(s, m)'
    <2>1. EntryKnows(s, m) /\ task[s].attempts \in Nat
      BY DEF EntriesKnow, Typed, Rows, DerivationAssumption
    <2>2. CASE s = t /\ m = n
      BY <1>1, <2>1, <2>2 DEF EntryKnows, Attempts
    <2>3. CASE s # t \/ m # n
      BY <1>1, <2>1, <2>3 DEF EntryKnows
    <2> QED
      BY <2>2, <2>3
  <1> QED
    BY <1>3, <1>4 DEF EntriesKnow, LedgerKnows

\* A new reservation.
Opened(fp, d, needs) ==
  [state |-> "reserved", policy |-> fp, day |-> d, covers |-> needs, made |-> {}]

\* It is what the model writes.
LEMMA NewEntry ==
  ASSUME NEW fp, NEW d, NEW needs
  PROVE  [Unused EXCEPT !.state = "reserved", !.policy = fp, !.day = d, !.covers = needs]
            = Opened(fp, d, needs)
  <1> DEFINE a == [Unused EXCEPT !.state = "reserved"]
             b == [a EXCEPT !.policy = fp]
             c == [b EXCEPT !.day = d]
             f == [c EXCEPT !.covers = needs]
  <1>1. a = [state |-> "reserved", policy |-> 0, day |-> 0, covers |-> {}, made |-> {}]
    BY DEF Unused
  <1> HIDE DEF a
  <1>2. b = [state |-> "reserved", policy |-> fp, day |-> 0, covers |-> {}, made |-> {}]
    BY <1>1
  <1> HIDE DEF b
  <1>3. c = [state |-> "reserved", policy |-> fp, day |-> d, covers |-> {}, made |-> {}]
    BY <1>2
  <1> HIDE DEF c
  <1>4. f = [state |-> "reserved", policy |-> fp, day |-> d, covers |-> needs, made |-> {}]
    BY <1>3
  <1> QED
    BY <1>4 DEF a, b, c, Opened

\* Its type.
LEMMA OpenedTyped ==
  ASSUME NEW fp \in 0..MaxPolicies, NEW d \in Nat, NEW needs \in SUBSET Calls
  PROVE  /\ Opened(fp, d, needs) \in Reservations
         /\ Opened(fp, d, needs).state = "reserved" /\ Opened(fp, d, needs).policy = fp
         /\ Opened(fp, d, needs).day = d /\ Opened(fp, d, needs).covers = needs
         /\ Opened(fp, d, needs).made = {}
  <1> DEFINE none == {}
  <1>1. none \in SUBSET Calls /\ none = {}
    OBVIOUS
  <1> HIDE DEF none
  <1>2. Opened(fp, d, needs)
          = [state |-> "reserved", policy |-> fp, day |-> d, covers |-> needs, made |-> none]
    BY <1>1 DEF Opened
  <1>3. [state |-> "reserved", policy |-> fp, day |-> d, covers |-> needs, made |-> none]
          \in Reservations
    BY <1>1 DEF Reservations
  <1> QED
    BY <1>1, <1>2, <1>3

\* The budget of the attempt is reserved.
LEMMA ReserveKeeps ==
  ASSUME DerivationAssumption, DerivationKnows, NEW w \in Workers, Reserve(w)
  PROVE  DerivationKnows'
  <1> DEFINE t == job[w].t
             n == job[w].n
             fp == job[w].policy.fp
             needs == IF NeedsLLM(w) THEN Calls ELSE {"embedding"}
             step == IF NeedsLLM(w) THEN "llm" ELSE IF NeedsPatch(w) THEN "submit" ELSE "embed"
             e == Opened(fp, day, needs)
  <1>1. /\ Typed /\ RowsKnow /\ DocsKnow /\ JobKnows(w) /\ EntriesKnow /\ LedgerKnows
    BY DEF DerivationKnows, JobsKnow
  <1>2. UNCHANGED <<doc, order, q1p, policy, day>> /\ At(w, "reserve")
    BY DEF Reserve
  <1>3. job[w].at \in Claimed /\ job[w].at \in Unreserved
    BY <1>2 DEF At, Claimed, Unreserved
  <1>4. /\ t \in Tasks /\ n \in Attempts /\ n <= task[t].attempts /\ resv[t][n] = Unused
        /\ job[w].seen.applied => task[t].applied
    BY <1>1, <1>3, AttemptIsThere DEF JobKnows
  <1>5. CASE Done(w) /\ UNCHANGED <<task, resv, binding>>
    <2>1. lease' \in Workers \cup {None} /\ job' = [job EXCEPT ![w] = Idle]
      BY <1>1, <1>5 DEF Done, Typed
    <2> QED
      BY <1>2, <1>5, <2>1, LeaveKeeps DEF rows
  <1>6. CASE binding' = NonReady(doc) /\ MarkState(w, "budget_paused") /\ UNCHANGED resv
    <2>1. "budget_paused" \in TaskStates \ {"none", "processing"}
      BY DEF TaskStates
    <2>2. binding' \in Bindings
      BY <1>1, <1>6, BindingTyped
    <2> QED
      BY <1>2, <1>3, <1>6, <2>1, <2>2, MarkKeeps
  <1>7. CASE /\ Spent(fp, day) + Cardinality(needs) <= Cap
             /\ resv' = [resv EXCEPT ![t][n] = e]
             /\ Goto(w, step)
             /\ UNCHANGED <<task, binding, lease>>
    <2>1. needs \in SUBSET Calls /\ "embedding" \in needs /\ (step = "llm" => "llm" \in needs)
      BY DEF Calls
    <2>2. fp \in 0..MaxPolicies /\ day \in Nat
      BY <1>1 DEF Typed, Jobs
    <2>s. /\ step \in {"llm", "submit", "embed"} /\ step \in JobSteps
          /\ step = "embed" /\ IsArchive(t) => job[w].seen.applied
      BY DEF JobSteps, NeedsLLM, NeedsPatch
    <2> HIDE DEF needs, step
    <2>3. /\ e \in Reservations /\ e.state = "reserved" /\ e.policy = fp /\ e.day = day
          /\ e.covers = needs /\ e.made = {}
      BY <2>1, <2>2, OpenedTyped
    <2> HIDE DEF e
    <2>4. e \in Reservations
      BY <2>3
    <2>5. resv \in [Tasks -> [Attempts -> Reservations]]
      BY <1>1 DEF Typed
    <2>6. /\ resv' \in [Tasks -> [Attempts -> Reservations]] /\ resv'[t][n] = e
          /\ \A s \in Tasks, m \in Attempts : s # t \/ m # n => resv'[s][m] = resv[s][m]
      <3> HIDE DEF t, n
      <3> QED
        BY <1>4, <1>7, <2>4, <2>5, OneEntry
    <2>7. /\ job' \in [Workers -> Jobs] /\ job'[w].at = step /\ job'[w].t = t
          /\ job'[w].n = n /\ job'[w].seen = job[w].seen
          /\ \A v \in Workers \ {w} : job'[v] = job[v]
      BY <1>1, <1>7, <2>s, GoesTo DEF Typed
    <2>8. Typed'
      BY <1>1, <1>2, <1>7, <2>6, <2>7 DEF Typed
    <2>9. DocsGoOn
      BY <1>1, <1>2, SameDocs
    <2>10. RowsKnow' /\ Grows /\ Lasting
      BY <1>1, <1>7, <2>9, SameRows, GrowthLasts
    <2>11. DocsKnow'
      BY <1>1, <2>9, <2>10, DocsKeep
    <2>12. EntriesKnow' /\ LedgerKnows'
      <3>1. /\ Spent(e.policy, e.day) + Cardinality(e.covers) <= Cap
            /\ resv' = [resv EXCEPT ![t][n] = e] /\ task' = task
        BY <1>7, <2>3
      <3> HIDE DEF t, n
      <3> QED
        BY <1>1, <1>4, <2>1, <2>3, <2>8, <3>1, ReservingKeeps
    <2>13. JobKnows(w)'
      <3>1. job'[w].at \notin Unreserved
        BY <2>s, <2>7 DEF Unreserved
      <3>2. job'[w].seen.applied => task'[t].applied
        BY <1>4, <1>7, <2>7
      <3>3. job'[w].at \in Patched /\ IsArchive(t) => task'[t].applied
        BY <1>4, <1>7, <2>s, <2>7 DEF Patched
      <3>4. resv'[t][n].state = "reserved" /\ (job'[w].at = "llm" => "llm" \in resv'[t][n].covers)
        BY <2>1, <2>3, <2>6, <2>7
      <3> QED
        BY <1>1, <1>3, <2>7, <2>8, <2>10, <3>1, <3>2, <3>3, <3>4, AttemptGoesOn
    <2>14. OwnStep(w)
      BY <1>3, <2>6, <2>7 DEF OwnStep
    <2>15. JobsKnow' /\ JobsApart'
      BY <2>8, <2>10, <2>13, <2>14, OwnStepKeeps
    <2> QED
      BY <2>8, <2>10, <2>11, <2>12, <2>15 DEF DerivationKnows
  <1>8. resv' = [resv EXCEPT ![job[w].t][job[w].n] =
                   [Unused EXCEPT !.state = "reserved", !.policy = fp, !.day = day,
                                  !.covers = needs]]
        => resv' = [resv EXCEPT ![t][n] = e]
    BY NewEntry
  <1> QED
    BY <1>5, <1>6, <1>7, <1>8 DEF Reserve

\* The patch is recorded on the row.
LEMMA RecordPatchKeeps ==
  ASSUME DerivationAssumption, DerivationKnows, NEW w \in Workers, RecordPatch(w)
  PROVE  DerivationKnows'
  <1> DEFINE t == job[w].t
             patch == [policy |-> job[w].policy.fp, attempt |-> job[w].n,
                       input |-> job[w].seen.digest]
             row == [task[t] EXCEPT !.patch = patch]
  <1>1. Typed /\ RowsKnow /\ DocsKnow /\ JobKnows(w)
    BY DEF DerivationKnows, JobsKnow
  <1>2. UNCHANGED <<doc, q1p, resv, binding, policy, day, lease>> /\ At(w, "record")
    BY DEF RecordPatch
  <1>3. job[w].at \in Reserved /\ job[w].at \in Claimed
    BY <1>2 DEF At, Claimed, Reserved
  <1>4. /\ t \in Tasks /\ task[t] \in Rows /\ resv[t][job[w].n].state = "reserved"
        /\ job[w].seen.applied => task[t].applied
    BY <1>1, <1>3, AttemptIsThere DEF JobKnows
  <1>5. DocsGoOn
    BY <1>1, <1>2, SameDocs
  <1>6. CASE GotoFail(w) /\ UNCHANGED task
    <2>1. /\ doc' \in Digests /\ binding' \in Bindings /\ lease' \in Workers \cup {None}
          /\ q1p' \in [Docs -> {"none", "accepted", "completed", "rejected"}]
      BY <1>1, <1>2 DEF Typed
    <2> QED
      BY <1>2, <1>3, <1>5, <1>6, <2>1, FailingKeeps
  <1>7. CASE /\ task' = [task EXCEPT ![t].patch = patch]
             /\ job' = [job EXCEPT ![w].at = "submit", ![w].seen.patch = patch]
    <2>1. job[w] \in Jobs
      BY <1>1 DEF Typed
    <2>2. patch \in Patches
      <3>1. job[w].policy.fp \in 0..MaxPolicies /\ job[w].n \in 0..MaxAttempts
            /\ job[w].seen.digest \in Digests
        BY <2>1 DEF Jobs, Rows
      <3> QED
        BY <3>1 DEF Patches
    <2>3. task' = [task EXCEPT ![t] = row]
      BY <1>7
    <2> HIDE DEF patch
    <2>4. /\ row \in Rows /\ row.state = task[t].state /\ (row.live <=> task[t].live)
          /\ (row.backoff <=> task[t].backoff) /\ row.attempts = task[t].attempts
          /\ (row.applied <=> task[t].applied)
      BY <1>4, <2>2 DEF Rows
    <2> HIDE DEF row
    <2>5. task[t].attempts \in Nat /\ RowFits(task[t], t, q1p[Doc(t)])
      BY <1>1, <1>4 DEF Rows, DerivationAssumption, RowsKnow, RowKnows
    <2>6. GoesOn(row, task[t]) /\ RowFits(row, t, q1p[Doc(t)])
      BY <2>4, <2>5 DEF GoesOn, RowFits
    <2>7. task' \in [Tasks -> Rows] /\ RowsKnow' /\ Grows
      BY <1>1, <1>4, <1>5, <2>3, <2>4, <2>6, OneRow
    <2> DEFINE s == [job[w].seen EXCEPT !.patch = patch]
               a == [job[w] EXCEPT !.at = "submit"]
               b == [a EXCEPT !.seen = s]
    <2>8. s \in Rows /\ (s.applied <=> job[w].seen.applied)
      <3>1. job[w].seen \in Rows
        BY <2>1 DEF Jobs
      <3> QED
        BY <2>2, <3>1 DEF Rows
    <2>9. job' = [job EXCEPT ![w] = b]
      BY <1>7, <2>1 DEF patch, Jobs
    <2> HIDE DEF s
    <2>10. a \in Jobs /\ a.at = "submit" /\ a.t = t /\ a.n = job[w].n
      BY <2>1 DEF Jobs, JobSteps
    <2> HIDE DEF a
    <2>11. b \in Jobs /\ b.at = "submit" /\ b.t = t /\ b.n = job[w].n /\ b.seen = s
      BY <2>8, <2>10 DEF Jobs
    <2> HIDE DEF b
    <2>12. /\ job' \in [Workers -> Jobs] /\ job'[w] = b
           /\ \A v \in Workers \ {w} : job'[v] = job[v]
      BY <1>1, <2>9, <2>11, OneJob DEF Typed
    <2>13. Typed'
      BY <1>1, <1>2, <2>7, <2>12 DEF Typed
    <2>14. job'[w].seen.applied => task'[t].applied
      BY <1>4, <2>7, <2>8, <2>11, <2>12 DEF Grows, GoesOn
    <2>15. job'[w].at \notin Unreserved \cup Patched \cup {"llm"}
      BY <2>11, <2>12 DEF Unreserved, Patched
    <2> QED
      BY <1>2, <1>3, <1>4, <1>5, <2>7, <2>11, <2>12, <2>13, <2>14, <2>15, GoesOnKeeps
  <1> QED
    BY <1>6, <1>7 DEF RecordPatch

\* A worker goes to another step under its reservation, and nothing changes but
\* documents, patches, the binding and the lease.
LEMMA GoesToKeeps ==
  ASSUME DerivationAssumption, DerivationKnows, NEW w \in Workers, job[w].at \in Reserved,
         NEW step \in JobSteps, Goto(w, step), step \in {"ack", "settle"},
         step = "settle" /\ IsArchive(job[w].t) => task[job[w].t].applied,
         task' = task, DocsGoOn, doc' \in Digests,
         q1p' \in [Docs -> {"none", "accepted", "completed", "rejected"}],
         binding' \in Bindings, lease' \in Workers \cup {None},
         UNCHANGED <<resv, policy, day>>
  PROVE  DerivationKnows'
  <1>1. Typed /\ RowsKnow /\ DocsKnow /\ JobKnows(w)
    BY DEF DerivationKnows, JobsKnow
  <1>2. /\ job' \in [Workers -> Jobs] /\ job'[w].at = step /\ job'[w].t = job[w].t
        /\ job'[w].n = job[w].n /\ job'[w].seen = job[w].seen
        /\ \A v \in Workers \ {w} : job'[v] = job[v]
    BY <1>1, GoesTo DEF Typed
  <1>3. Typed'
    BY <1>1, <1>2 DEF Typed
  <1>4. RowsKnow' /\ Grows
    BY <1>1, SameRows, GrowthLasts
  <1>5. /\ job[w].at \in Claimed /\ resv[job[w].t][job[w].n].state = "reserved"
        /\ job[w].seen.applied => task[job[w].t].applied
    BY <1>1 DEF Reserved, Claimed, JobKnows
  <1>6. /\ job'[w].at \notin Unreserved /\ job'[w].at # "llm"
        /\ job'[w].at \in Patched => job'[w].at = "settle"
    BY <1>2 DEF Unreserved, Patched
  <1> QED
    BY <1>2, <1>3, <1>4, <1>5, <1>6, GoesOnKeeps

\* The patch is submitted, and Q1' drained.
LEMMA SubmitPatchKeeps ==
  ASSUME DerivationAssumption, DerivationKnows, NEW w \in Workers, SubmitPatch(w)
  PROVE  DerivationKnows'
  <1> DEFINE t == job[w].t
             d == Doc(t)
             s == IF q1p[d] = "none" THEN "accepted" ELSE q1p[d]
  <1>1. Typed /\ RowsKnow /\ DocsKnow /\ JobKnows(w)
    BY DEF DerivationKnows, JobsKnow
  <1>2. UNCHANGED <<rows, resv, binding, policy, day>> /\ At(w, "submit") /\ task' = task
    BY DEF SubmitPatch, rows
  <1>3. job[w].at \in Reserved /\ job[w].at \in Claimed /\ "ack" \in JobSteps
    BY <1>2 DEF At, Claimed, Reserved, JobSteps
  <1>4. d \in Docs /\ binding' \in Bindings
    BY <1>1, <1>2, <1>3, AttemptIsThere DEF Typed
  <1>5. /\ PatchDrained(d, s) \/ UNCHANGED <<doc, q1p>>
        /\ \/ GotoFail(w) /\ UNCHANGED lease
           \/ Goto(w, "ack") /\ lease' = w
    BY DEF SubmitPatch
  <1>6. /\ doc' \in Digests /\ DocsGoOn
        /\ q1p' \in [Docs -> {"none", "accepted", "completed", "rejected"}]
    <2>1. CASE PatchDrained(d, s)
      BY <1>1, <1>4, <2>1, Drained
    <2>2. CASE UNCHANGED <<doc, q1p>>
      BY <1>1, <2>2, SameDocs DEF Typed
    <2> QED
      BY <1>5, <2>1, <2>2
  <1>7. lease' \in Workers \cup {None}
    BY <1>1, <1>5 DEF Typed
  <1>8. CASE GotoFail(w)
    BY <1>2, <1>3, <1>4, <1>6, <1>7, <1>8, FailingKeeps
  <1>9. CASE Goto(w, "ack")
    BY <1>2, <1>3, <1>4, <1>6, <1>7, <1>9, GoesToKeeps
  <1> QED
    BY <1>5, <1>8, <1>9

\* The patch that Q1' has applied is acknowledged.
LEMMA AckPatchKeeps ==
  ASSUME DerivationAssumption, DerivationKnows, NEW w \in Workers, AckPatch(w)
  PROVE  DerivationKnows'
  <1> DEFINE t == job[w].t
  <1>1. Typed /\ RowsKnow /\ DocsKnow /\ JobKnows(w)
    BY DEF DerivationKnows, JobsKnow
  <1>2. /\ UNCHANGED <<doc, q1p, resv, binding, policy, day>> /\ At(w, "ack")
        /\ lease' = None
    BY DEF AckPatch
  <1>3. job[w].at \in Reserved /\ job[w].at \in Claimed /\ "embed" \in JobSteps
    BY <1>2 DEF At, Claimed, Reserved, JobSteps
  <1>4. DocsGoOn /\ Doc(t) \in Docs /\ resv[t][job[w].n].state = "reserved"
    BY <1>1, <1>2, <1>3, SameDocs, AttemptIsThere DEF JobKnows
  <1>5. /\ doc' \in Digests /\ binding' \in Bindings /\ lease' \in Workers \cup {None}
        /\ q1p' \in [Docs -> {"none", "accepted", "completed", "rejected"}]
    BY <1>1, <1>2 DEF Typed
  <1>6. CASE GotoFail(w) /\ UNCHANGED task
    BY <1>2, <1>3, <1>4, <1>5, <1>6, FailingKeeps
  <1>7. CASE Acknowledged(w) /\ Goto(w, "embed")
    <2>1. q1p[Doc(t)] = "completed"
      BY <1>1, <1>4, <1>7 DEF Acknowledged, DocsKnow, DocKnows
    <2>2. task' \in [Tasks -> Rows] /\ RowsKnow' /\ Grows /\ task'[t].applied
      BY <1>2, <1>3, <1>7, <2>1, AcknowledgedRow
    <2>3. /\ job' \in [Workers -> Jobs] /\ job'[w].at = "embed" /\ job'[w].t = t
          /\ job'[w].n = job[w].n
          /\ \A v \in Workers \ {w} : job'[v] = job[v]
      BY <1>1, <1>3, <1>7, GoesTo DEF Typed
    <2>4. Typed'
      BY <1>1, <1>2, <1>5, <2>2, <2>3 DEF Typed
    <2>5. job'[w].at \notin Unreserved /\ job'[w].at # "llm"
      BY <2>3 DEF Unreserved
    <2> QED
      BY <1>2, <1>3, <1>4, <2>2, <2>3, <2>4, <2>5, GoesOnKeeps
  <1> QED
    BY <1>6, <1>7 DEF AckPatch

\* The generation is published.
LEMMA PublishKeeps ==
  ASSUME DerivationAssumption, DerivationKnows, NEW w \in Workers, Publish(w)
  PROVE  DerivationKnows'
  <1>1. Typed /\ RowsKnow /\ DocsKnow /\ JobKnows(w)
    BY DEF DerivationKnows, JobsKnow
  <1>2. /\ UNCHANGED <<doc, q1p, resv, policy, day, lease>> /\ task' = task
        /\ At(w, "publish")
    BY DEF Publish, rows
  <1>3. job[w].at \in Reserved /\ job[w].at \in Patched /\ "settle" \in JobSteps
    BY <1>2 DEF At, Patched, Reserved, JobSteps
  <1>4. DocsGoOn /\ (IsArchive(job[w].t) => task[job[w].t].applied)
    BY <1>1, <1>2, <1>3, SameDocs DEF JobKnows
  <1>5. /\ doc' \in Digests /\ lease' \in Workers \cup {None}
        /\ q1p' \in [Docs -> {"none", "accepted", "completed", "rejected"}]
    BY <1>1, <1>2 DEF Typed
  <1>6. binding' \in Bindings
    <2>1. [state |-> "ready", digest |-> doc] \in Bindings /\ binding \in Bindings
      BY <1>1, BindingTyped DEF Typed
    <2> QED
      BY <2>1 DEF Publish
  <1>7. CASE GotoFail(w)
    BY <1>2, <1>3, <1>4, <1>5, <1>6, <1>7, FailingKeeps
  <1>8. CASE Goto(w, "settle")
    BY <1>2, <1>3, <1>4, <1>5, <1>6, <1>8, GoesToKeeps
  <1> QED
    BY <1>7, <1>8 DEF Publish

\* The reservation is closed as what was made demands, and the worker goes on or
\* leaves.
LEMMA ClosingKeeps ==
  ASSUME DerivationAssumption, DerivationKnows, NEW w \in Workers, job[w].at \in Reserved,
         CloseReservation(w), UNCHANGED <<doc, rows, q1p, binding, policy, day>>,
         lease' \in Workers \cup {None},
         \/ job' = [job EXCEPT ![w] = Idle]
         \/ Goto(w, "failmark")
         \/ /\ Goto(w, "mark")
            /\ IsArchive(job[w].t) => task[job[w].t].applied
  PROVE  DerivationKnows'
  <1> DEFINE t == job[w].t
             n == job[w].n
             old == resv[t][n]
             e == [old EXCEPT !.state = Closed(w)]
  <1>1. /\ Typed /\ RowsKnow /\ DocsKnow /\ JobKnows(w) /\ EntriesKnow /\ LedgerKnows
        /\ job[w].at \in Claimed /\ task' = task
    BY DEF DerivationKnows, JobsKnow, Claimed, Reserved, rows
  <1>2. t \in Tasks /\ n \in Attempts /\ n <= task[t].attempts /\ old \in Reservations
    BY <1>1, AttemptIsThere
  <1>3. old.state = "reserved" /\ old.made \subseteq old.covers
    BY <1>1, <1>2 DEF JobKnows, EntriesKnow, EntryKnows
  <1>4. /\ Closed(w) \in {"settled", "released"}
        /\ Closed(w) = "released" => old.made = {}
    BY DEF Closed, Started, Reservation
  <1>5. resv' = [resv EXCEPT ![t][n] = e]
    BY DEF CloseReservation
  <1>6. /\ e \in Reservations /\ e.policy = old.policy /\ e.day = old.day
        /\ e.covers = old.covers /\ e.state = Closed(w) /\ e.made = old.made
    <2> DEFINE s == Closed(w)
    <2>1. s \in {"settled", "released"}
      BY <1>4
    <2> HIDE DEF s, old
    <2>2. [old EXCEPT !.state = s] \in Reservations
      BY <1>2, <2>1 DEF Reservations
    <2>3. /\ [old EXCEPT !.state = s].policy = old.policy
          /\ [old EXCEPT !.state = s].day = old.day
          /\ [old EXCEPT !.state = s].covers = old.covers
          /\ [old EXCEPT !.state = s].state = s
          /\ [old EXCEPT !.state = s].made = old.made
      BY <1>2 DEF Reservations
    <2> QED
      BY <2>2, <2>3 DEF s
  <1> HIDE DEF e
  <1>7. resv \in [Tasks -> [Attempts -> Reservations]]
    BY <1>1 DEF Typed
  <1>8. /\ resv' \in [Tasks -> [Attempts -> Reservations]]
        /\ \A s \in Tasks, m \in Attempts : s # t \/ m # n => resv'[s][m] = resv[s][m]
    <2>1. t \in Tasks /\ n \in Attempts /\ e \in Reservations
      BY <1>2, <1>6
    <2> HIDE DEF t, n
    <2> QED
      BY <1>5, <1>7, <2>1, OneEntry
  <1>9. /\ job' \in [Workers -> Jobs] /\ \A v \in Workers \ {w} : job'[v] = job[v]
        /\ \/ job'[w].at = "idle"
           \/ /\ job'[w].at \in {"failmark", "mark"}
              /\ job'[w].t = t /\ job'[w].n = n /\ job'[w].seen = job[w].seen
              /\ job'[w].at = "mark" /\ IsArchive(t) => task[t].applied
    <2>1. CASE job' = [job EXCEPT ![w] = Idle]
      BY <1>1, <2>1, Leaves DEF Typed
    <2>2. ASSUME NEW s \in {"failmark", "mark"}, Goto(w, s)
          PROVE  /\ job' \in [Workers -> Jobs] /\ \A v \in Workers \ {w} : job'[v] = job[v]
                 /\ job'[w].at = s /\ job'[w].t = t /\ job'[w].n = n
                 /\ job'[w].seen = job[w].seen
      <3>1. s \in JobSteps
        BY DEF JobSteps
      <3> QED
        BY <1>1, <2>2, <3>1, GoesTo DEF Typed
    <2>3. CASE Goto(w, "failmark")
      BY <2>2, <2>3
    <2>4. CASE Goto(w, "mark") /\ (IsArchive(t) => task[t].applied)
      BY <2>2, <2>4
    <2> QED
      BY <2>1, <2>3, <2>4
  <1>10. Typed'
    BY <1>1, <1>8, <1>9 DEF Typed, rows
  <1>11. DocsGoOn
    BY <1>1, SameDocs
  <1>12. RowsKnow' /\ Grows /\ Lasting
    BY <1>1, <1>11, SameRows, GrowthLasts
  <1>13. DocsKnow'
    BY <1>1, <1>11, <1>12, DocsKeep
  <1>14. EntriesKnow' /\ LedgerKnows'
    <2>1. /\ e.made \subseteq e.covers /\ (e.state \in {"none", "released"} => e.made = {})
          /\ e.state # "reserved"
      BY <1>3, <1>4, <1>6
    <2>2. /\ e.policy = resv[t][n].policy /\ e.day = resv[t][n].day
          /\ e.covers = resv[t][n].covers /\ resv[t][n].state = "reserved"
      BY <1>3, <1>6
    <2> HIDE DEF t, n
    <2> QED
      BY <1>1, <1>2, <1>5, <1>6, <1>10, <1>12, <2>1, <2>2, EntryKeeps
  <1>15. JobKnows(w)'
    <2>1. CASE job'[w].at = "idle"
      BY <2>1, LeftKnows DEF At
    <2>2. CASE job'[w].at # "idle"
      <3>1. job'[w].at \notin Unreserved \cup Reserved \cup {"llm"}
        BY <1>9, <2>2 DEF Unreserved, Reserved
      <3>2. job'[w].seen.applied => task'[t].applied
        BY <1>1, <1>9, <2>2 DEF JobKnows
      <3>3. job'[w].at \in Patched /\ IsArchive(t) => task'[t].applied
        BY <1>1, <1>9, <2>2 DEF Patched
      <3> QED
        BY <1>1, <1>9, <1>10, <1>12, <2>2, <3>1, <3>2, <3>3, AttemptGoesOn
    <2> QED
      BY <2>1, <2>2
  <1>16. OwnStep(w)
    BY <1>1, <1>8, <1>9 DEF OwnStep, Claimed
  <1>17. JobsKnow' /\ JobsApart'
    BY <1>10, <1>12, <1>15, <1>16, OwnStepKeeps
  <1> QED
    BY <1>10, <1>12, <1>13, <1>14, <1>17 DEF DerivationKnows

\* An attempt that has done its work is settled.
LEMMA SettleKeeps ==
  ASSUME DerivationAssumption, DerivationKnows, NEW w \in Workers, Settle(w)
  PROVE  DerivationKnows'
  <1>1. Typed /\ RowsKnow /\ DocsKnow /\ JobKnows(w)
    BY DEF DerivationKnows, JobsKnow
  <1>2. UNCHANGED <<doc, rows, q1p, binding, policy, day>> /\ At(w, "settle") /\ task' = task
    BY DEF Settle, rows
  <1>3. job[w].at \in Reserved /\ job[w].at \in Patched
    BY <1>2 DEF At, Patched, Reserved
  <1>4. IsArchive(job[w].t) => task[job[w].t].applied
    BY <1>1, <1>3 DEF JobKnows
  <1>5. CASE CloseReservation(w) /\ Goto(w, "mark") /\ lease' = w
    BY <1>2, <1>3, <1>4, <1>5, ClosingKeeps
  <1>6. CASE GotoFail(w) /\ UNCHANGED <<resv, lease>>
    <2>1. /\ doc' \in Digests /\ binding' \in Bindings /\ lease' \in Workers \cup {None}
          /\ q1p' \in [Docs -> {"none", "accepted", "completed", "rejected"}]
      BY <1>1, <1>2, <1>6 DEF Typed
    <2>2. DocsGoOn
      BY <1>1, <1>2, SameDocs
    <2> QED
      BY <1>2, <1>3, <1>6, <2>1, <2>2, FailingKeeps
  <1> QED
    BY <1>5, <1>6 DEF Settle

\* What a failed attempt reserved is settled or released.
LEMMA FailKeeps ==
  ASSUME DerivationAssumption, DerivationKnows, NEW w \in Workers, Fail(w)
  PROVE  DerivationKnows'
  <1>1. UNCHANGED <<doc, rows, q1p, binding, policy, day>> /\ At(w, "fail")
    BY DEF Fail
  <1>2. job[w].at \in Reserved
    BY <1>1 DEF At, Reserved
  <1>3. lease' \in Workers \cup {None}
    BY DEF DerivationKnows, Typed, Fail
  <1>4. CASE job' = [job EXCEPT ![w] = Idle] /\ UNCHANGED resv
    BY <1>1, <1>3, <1>4, LeaveKeeps
  <1>5. CASE /\ CloseReservation(w)
             /\ Goto(w, "failmark") \/ job' = [job EXCEPT ![w] = Idle]
    BY <1>1, <1>2, <1>3, <1>5, ClosingKeeps
  <1> QED
    BY <1>4, <1>5 DEF Fail

-----------------------------------------------------------------------------
(* The invariant *)

\* It holds at the beginning.
LEMMA DerivationKnowsInit == DerivationAssumption /\ Init => DerivationKnows
  <1> SUFFICES ASSUME DerivationAssumption, Init PROVE DerivationKnows
    OBVIOUS
  <1>1. /\ NewTask \in Rows /\ NoPatch.input \in Digests
        /\ Idle \in Jobs /\ Unused \in Reservations
    BY IdleTyped
  <1>2. doc = [d \in Docs |-> "none"] /\ doc \in Digests
    BY DEF Init, Digests, Revisions
  <1>3. Typed
    <2>1. task \in [Tasks -> Rows] /\ job \in [Workers -> Jobs]
      BY <1>1 DEF Init
    <2>2. resv \in [Tasks -> [Attempts -> Reservations]]
      <3>1. [n \in Attempts |-> Unused] \in [Attempts -> Reservations]
        BY <1>1
      <3> QED
        BY <3>1 DEF Init
    <2>3. binding \in Bindings
      BY <1>2 DEF Init, Bindings
    <2>4. policy \in [fp : Policies, approved : BOOLEAN]
      BY DEF Init, Policies, DerivationAssumption
    <2>5. q1p \in [Docs -> {"none", "accepted", "completed", "rejected"}]
      BY DEF Init
    <2>6. day \in Nat /\ lease \in Workers \cup {None}
      BY DEF Init
    <2> QED
      BY <1>2, <2>1, <2>2, <2>3, <2>4, <2>5, <2>6 DEF Typed
  <1>4. /\ NewTask.state = "none" /\ ~ NewTask.live /\ ~ NewTask.applied
        /\ NewTask.attempts = 0
    BY DEF NewTask
  <1>5. \A t \in Tasks : task[t] = NewTask
    BY DEF Init
  <1>6. RowsKnow
    BY <1>4, <1>5 DEF RowsKnow, RowKnows, RowFits
  <1>7. DocsKnow
    <2> SUFFICES ASSUME NEW d \in Docs PROVE DocKnows(d)
      BY DEF DocsKnow
    <2>1. <<d, "archive">> \in Tasks /\ <<d, "delete">> \in Tasks
      BY DEF Tasks
    <2>2. q1p[d] = "none" /\ doc[d] = "none"
      BY DEF Init
    <2> QED
      BY <1>4, <1>5, <2>1, <2>2 DEF DocKnows
  <1>8. \A t \in Tasks, n \in Attempts : resv[t][n] = Unused
    BY DEF Init
  <1>9. /\ Unused.state = "none" /\ Unused.covers = {} /\ Unused.made = {}
    BY DEF Unused
  <1>10. EntriesKnow
    BY <1>8, <1>9 DEF EntriesKnow, EntryKnows
  <1>11. LedgerKnows
    <2> SUFFICES ASSUME NEW fp \in 0..MaxPolicies, NEW d \in Nat PROVE Spent(fp, d) <= Cap
      BY DEF LedgerKnows
    <2>1. Counted(fp, d) = {}
      <3> SUFFICES ASSUME NEW c \in Counted(fp, d) PROVE FALSE
        OBVIOUS
      <3>1. c \in Tasks \X Attempts \X Calls /\ c[3] \in resv[c[1]][c[2]].covers
        BY DEF Counted
      <3>2. c[1] \in Tasks /\ c[2] \in Attempts
        BY <3>1
      <3> QED
        BY <1>8, <1>9, <3>1, <3>2
    <2>2. Spent(fp, d) = 0
      BY <2>1, FS_EmptySet DEF Spent
    <2> QED
      BY <2>2 DEF DerivationAssumption
  <1>12. \A w \in Workers : job[w].at = "idle"
    BY DEF Init, Idle
  <1>13. JobsKnow
    BY <1>12 DEF JobsKnow, JobKnows, At, Claimed, Unreserved, Reserved, Patched
  <1>14. JobsApart
    BY <1>12 DEF JobsApart, Apart, Claimed
  <1> QED
    BY <1>3, <1>6, <1>7, <1>10, <1>11, <1>13, <1>14 DEF DerivationKnows

\* Every step keeps it.
LEMMA DerivationKnowsStep ==
  DerivationAssumption /\ DerivationKnows /\ [Next]_vars => DerivationKnows'
  <1> SUFFICES ASSUME DerivationAssumption, DerivationKnows, [Next]_vars
               PROVE  DerivationKnows'
    OBVIOUS
  <1>1. CASE \E d \in Docs : Archive(d) \/ Delete(d) \/ Q1Drains(d)
    BY <1>1, ArchiveKeeps, DeleteKeeps, Q1DrainsKeeps
  <1>2. CASE \E t \in Tasks : Handoff(t) \/ ClaimExpires(t) \/ BackoffEnds(t)
    BY <1>2, HandoffKeeps, ClocksKeep
  <1>3. CASE SweepFirst
    BY <1>3, SweepFirstKeeps
  <1>4. CASE \E w \in Workers, t \in Tasks : Trigger(w, t)
    BY <1>4, TriggerKeeps
  <1>5. ASSUME NEW w \in Workers, Step(w) \/ Crash(w) PROVE DerivationKnows'
    <2>1. CASE DrainOwnPatch(w) \/ Refresh(w) \/ Claim(w)
      BY <2>1, DrainOwnPatchKeeps, RefreshKeeps, ClaimKeeps
    <2>2. CASE CheckClaim(w) \/ RetryClaimed(w) \/ Reserve(w)
      BY <2>2, CheckClaimKeeps, RetryClaimedKeeps, ReserveKeeps
    <2>3. CASE CallLLM(w) \/ RecordPatch(w) \/ SubmitPatch(w) \/ AckPatch(w)
      BY <2>3, CallLLMKeeps, RecordPatchKeeps, SubmitPatchKeeps, AckPatchKeeps
    <2>4. CASE Embed(w) \/ Publish(w) \/ Settle(w)
      BY <2>4, EmbedKeeps, PublishKeeps, SettleKeeps
    <2>5. CASE MarkCompleted(w) \/ Fail(w) \/ FailMark(w)
      BY <2>5, MarkCompletedKeeps, FailKeeps, FailMarkKeeps
    <2>6. CASE WriteBusy(w) \/ Crash(w)
      BY <2>6, CrashKeeps
    <2> QED
      BY <1>5, <2>1, <2>2, <2>3, <2>4, <2>5, <2>6 DEF Step
  <1>6. CASE ChangePolicy \/ Approve \/ NextDay
    BY <1>6, UserKeeps
  <1>7. CASE UNCHANGED vars
    <2>1. UNCHANGED <<doc, q1p, resv, binding, policy, day, lease, job>> /\ task' = task
      BY <1>7 DEF vars, rows
    <2>2. Typed /\ RowsKnow /\ DocsKnow
      BY DEF DerivationKnows
    <2>3. DocsGoOn /\ Typed'
      BY <2>1, <2>2, SameDocs DEF Typed
    <2>4. RowsKnow' /\ Grows
      BY <2>1, <2>2, <2>3, SameRows, GrowthLasts
    <2> QED
      BY <2>1, <2>3, <2>4, QuietOutside
  <1> QED
    BY <1>1, <1>2, <1>3, <1>4, <1>5, <1>6, <1>7 DEF Next

\* The invariant gives what the queue promises.
LEMMA KnowsGivesInv == DerivationAssumption /\ DerivationKnows => DerivationInv
  <1> SUFFICES ASSUME DerivationAssumption, DerivationKnows PROVE DerivationInv
    OBVIOUS
  <1>1. Typed /\ RowsKnow
    BY DEF DerivationKnows
  <1>2. DTypeOK
    <2>1. ASSUME NEW t \in Tasks
          PROVE  /\ task[t].state \in TaskStates /\ task[t].attempts \in 0..MaxAttempts
                 /\ task[t].live => task[t].state = "processing"
                 /\ task[t].policy \in 0..MaxPolicies
      <3>1. task[t] \in Rows /\ RowFits(task[t], t, q1p[Doc(t)])
        BY <1>1 DEF Typed, RowsKnow, RowKnows
      <3> QED
        BY <3>1 DEF Rows, RowFits
    <2>2. \A t \in Tasks, n \in Attempts :
             resv[t][n].state \in {"none", "reserved", "settled", "released"}
      <3> SUFFICES ASSUME NEW t \in Tasks, NEW n \in Attempts
                   PROVE  resv[t][n].state \in {"none", "reserved", "settled", "released"}
        OBVIOUS
      <3>1. resv[t][n] \in Reservations
        BY <1>1 DEF Typed
      <3> QED
        BY <3>1 DEF Reservations
    <2>3. \A w \in Workers : job[w].at \in JobSteps
      <3> SUFFICES ASSUME NEW w \in Workers PROVE job[w].at \in JobSteps
        OBVIOUS
      <3>1. job[w] \in Jobs
        BY <1>1 DEF Typed
      <3> QED
        BY <3>1 DEF Jobs
    <2>4. binding.state \in {"none", "nonready", "ready"} /\ doc \in [Docs -> Revisions]
      BY <1>1 DEF Typed, Bindings, Digests
    <2> QED
      BY <1>1, <2>1, <2>2, <2>3, <2>4 DEF DTypeOK, Typed
  <1>3. ChargesWithinCap
    BY CapKept
  <1>4. CompletedIsDerived
    BY <1>1 DEF CompletedIsDerived, RowsKnow, RowKnows, RowFits
  <1> QED
    BY <1>2, <1>3, <1>4 DEF DerivationInv

\* The queue keeps its types, its cap, and completes no archive whose summary is
\* not in the document: derivation_ledger.py reserves before a call and keeps
\* what was made.
THEOREM DerivationInvHolds ==
  ASSUME DerivationAssumption
  PROVE  Spec => []DerivationInv
  <1>1. Init => DerivationKnows
    BY DerivationKnowsInit
  <1>2. DerivationKnows /\ [Next]_vars => DerivationKnows'
    BY DerivationKnowsStep
  <1>3. DerivationKnows => DerivationInv
    BY KnowsGivesInv
  <1> QED
    BY <1>1, <1>2, <1>3, PTL DEF Spec

-----------------------------------------------------------------------------
(* Live claims *)

\* What may happen to a row whose claim is live.
LiveRow(t) == task[t].state = "processing" /\ task[t].live
Held(t) ==
  \/ task'[t] = [task[t] EXCEPT !.live = FALSE]
  \/ task'[t].state = "superseded" /\ doc[Doc(t)] = "deleted"
  \/ \E w \in Workers : /\ job[w].t = t /\ job[w].n = task[t].attempts
                        /\ job'[w] # job[w]
LiveIsHeld(t) == LiveRow(t) /\ task'[t] # task[t] => Held(t)

\* The worker of a live claim writes its row.
LEMMA OwnRowHeld ==
  ASSUME Typed, NEW w \in Workers, job[w].t \in Tasks, Live(w), NEW row,
         task' = [task EXCEPT ![job[w].t] = row], job'[w] # job[w], NEW t \in Tasks
  PROVE  LiveIsHeld(t)
  <1>1. task \in [Tasks -> Rows]
    BY DEF Typed
  <1>2. t # job[w].t => task'[t] = task[t]
    BY <1>1
  <1>3. job[w].n = task[job[w].t].attempts
    BY DEF Live
  <1> QED
    BY <1>2, <1>3 DEF LiveIsHeld, Held

\* A row that is marked.
LEMMA MarkHeld ==
  ASSUME DerivationAssumption, DerivationKnows, NEW w \in Workers, job[w].at \in Claimed,
         NEW s, MarkState(w, s), NEW t \in Tasks
  PROVE  LiveIsHeld(t)
  <1>1. Typed /\ JobKnows(w)
    BY DEF DerivationKnows, JobsKnow
  <1>2. job[w].t \in Tasks
    BY <1>1, AttemptIsThere
  <1>3. job'[w] # job[w]
    <2>1. job'[w].at = "idle"
      BY <1>1, DoneLeaves DEF MarkState
    <2> QED
      BY <2>1 DEF Claimed
  <1>4. CASE Live(w) /\ task' = [task EXCEPT ![job[w].t] = Finished(task[job[w].t], s)]
    BY <1>1, <1>2, <1>3, <1>4, OwnRowHeld
  <1>5. CASE task' = task
    BY <1>5 DEF LiveIsHeld
  <1> QED
    BY <1>4, <1>5 DEF MarkState

\* A sweep leaves live claims alone.
LEMMA SweptLive == ASSUME NEW t \in Tasks, LiveRow(t) PROVE Swept[t] = task[t]
  BY DEF LiveRow, Swept, Recovered, Expired, Ceiling, Exhausted

\* Commits and handoffs.
LEMMA CommitHeld ==
  ASSUME DerivationAssumption, DerivationKnows, NEW t \in Tasks,
         \/ \E d \in Docs : Archive(d) \/ Delete(d) \/ Q1Drains(d)
         \/ \E o \in Tasks : Handoff(o) \/ ClaimExpires(o) \/ BackoffEnds(o)
         \/ SweepFirst
  PROVE  LiveIsHeld(t)
  <1>1. Typed /\ RowsKnow /\ DocsKnow /\ task \in [Tasks -> Rows]
    BY DEF DerivationKnows, Typed
  <1> SUFFICES ASSUME LiveRow(t), task'[t] # task[t] PROVE Held(t)
    BY DEF LiveIsHeld
  <1>2. ASSUME NEW o \in Tasks, task[o].state # "processing", NEW row,
               task' = [task EXCEPT ![o] = row]
        PROVE  FALSE
    BY <1>1, <1>2 DEF LiveRow
  <1>3. ASSUME NEW d \in Docs, Archive(d) PROVE FALSE
    <2>1. <<d, "archive">> \in Tasks
      BY DEF Tasks
    <2>2. task[<<d, "archive">>].state # "processing"
      BY <1>1, <1>3, <2>1 DEF Archive, DocsKnow, DocKnows
    <2> QED
      BY <1>2, <1>3, <2>1, <2>2 DEF Archive
  <1>4. ASSUME NEW d \in Docs, Delete(d) PROVE FALSE
    <2>1. <<d, "delete">> \in Tasks
      BY DEF Tasks
    <2>2. task[<<d, "delete">>].state # "processing"
      BY <1>1, <1>4, <2>1 DEF Delete, DocsKnow, DocKnows
    <2> QED
      BY <1>2, <1>4, <2>1, <2>2 DEF Delete
  <1>5. ASSUME NEW d \in Docs, Q1Drains(d) PROVE FALSE
    BY <1>5 DEF Q1Drains, rows
  <1>6. ASSUME NEW o \in Tasks, Handoff(o) PROVE Held(t)
    <2>1. Fenced(o) \in [Tasks -> Rows] /\ task[o].state = "blocked" /\ t # o
      BY <1>1, <1>6, FencedRow DEF Handoff, LiveRow
    <2>2. task'[t] = Fenced(o)[t]
      BY <1>6, <2>1 DEF Handoff
    <2>3. Fenced(o)[t] # task[t] => ~ IsArchive(o) /\ Doc(t) = Doc(o)
      BY <1>1, FencedRow
    <2>4. ~ IsArchive(o) /\ Doc(t) = Doc(o)
      BY <2>2, <2>3
    <2>5. o = <<Doc(o), "delete">> /\ Doc(o) \in Docs
      BY <2>4 DEF Tasks, IsArchive, Doc
    <2>6. doc[Doc(o)] = "deleted"
      BY <1>1, <2>1, <2>5 DEF DocsKnow, DocKnows
    <2>7. task'[t].state = "superseded"
      BY <1>1, <2>2 DEF Fenced, Rows
    <2> QED
      BY <2>4, <2>6, <2>7 DEF Held
  <1>7. ASSUME NEW o \in Tasks, ClaimExpires(o) PROVE Held(t)
    BY <1>1, <1>7 DEF ClaimExpires, Held
  <1>8. ASSUME NEW o \in Tasks, BackoffEnds(o) PROVE FALSE
    <2>1. RowFits(task[o], o, q1p[Doc(o)]) /\ task[o].backoff
      BY <1>1, <1>8 DEF RowsKnow, RowKnows, BackoffEnds
    <2>2. task[o].state # "processing"
      BY <2>1 DEF RowFits
    <2> QED
      BY <1>2, <1>8, <2>2 DEF BackoffEnds
  <1>9. CASE SweepFirst
    BY <1>9, SweptLive DEF SweepFirst
  <1> QED
    BY <1>3, <1>4, <1>5, <1>6, <1>7, <1>8, <1>9

\* A claim of another task leaves a live one alone.
LEMMA ClaimSpares ==
  ASSUME DerivationAssumption, Typed, RowsKnow, NEW t \in Tasks, LiveRow(t),
         NEW o \in Tasks, Eligible(o)
  PROVE  task' = [Swept EXCEPT ![o].state = "processing", ![o].live = TRUE,
                               ![o].attempts = @ + 1]
         => task'[t] = task[t]
  <1>1. Swept[t] = task[t] /\ Swept \in [Tasks -> Rows]
    BY SweptLive, SweptRows
  <1>2. o # t
    BY <1>1 DEF Eligible, LiveRow
  <1>3. task' = [Swept EXCEPT ![o].state = "processing", ![o].live = TRUE,
                              ![o].attempts = @ + 1]
        => task' = [Swept EXCEPT ![o] = Taken(Swept[o])]
    <2>1. o \in Tasks /\ Swept \in [Tasks -> Rows]
      BY <1>1
    <2> QED
      BY <2>1, ClaimWrites, ZenonT(30)
  <1>4. ASSUME NEW x, task' = [Swept EXCEPT ![o] = x] PROVE task'[t] = Swept[t]
    BY <1>1, <1>2, <1>4
  <1> QED
    BY <1>1, <1>3, <1>4

\* The way to a claim.
LEMMA ClaimHeld ==
  ASSUME DerivationAssumption, DerivationKnows, NEW w \in Workers, NEW t \in Tasks,
         DrainOwnPatch(w) \/ Refresh(w) \/ Claim(w)
  PROVE  LiveIsHeld(t)
  <1>1. Typed /\ RowsKnow /\ task \in [Tasks -> Rows]
    BY DEF DerivationKnows, Typed
  <1> SUFFICES ASSUME LiveRow(t), task'[t] # task[t] PROVE FALSE
    BY DEF LiveIsHeld
  <1>2. ~ DrainOwnPatch(w)
    BY DEF DrainOwnPatch, rows
  <1>3. ASSUME NEW o, task[o].state # "processing", NEW row, task' = [task EXCEPT ![o] = row]
        PROVE  FALSE
    BY <1>1, <1>3 DEF LiveRow
  <1>4. CASE Refresh(w)
    <2>1. CASE task[job[w].t].state = "processing"
      BY <1>4, <2>1 DEF Refresh
    <2>2. CASE task[job[w].t].state # "processing"
      BY <1>3, <1>4, <2>2 DEF Refresh
    <2> QED
      BY <2>1, <2>2
  <1>5. CASE Claim(w)
    <2>1. Swept[t] = task[t] /\ Swept \in [Tasks -> Rows]
      BY <1>1, SweptLive, SweptRows
    <2>2. ASSUME NEW o \in Tasks, Eligible(o),
                 task' = [Swept EXCEPT ![o].state = "processing", ![o].live = TRUE,
                                       ![o].attempts = @ + 1]
          PROVE  FALSE
      BY <1>1, <2>2, ClaimSpares
    <2>3. CASE task' = Swept
      BY <2>1, <2>3
    <2>4. CASE task' = [task EXCEPT ![job[w].t] =
                   IF @.state = "processing" THEN @
                   ELSE Replanned(@, job[w].seen.digest, policy.fp,
                                  "authorization_required")]
      BY <1>1, <2>4 DEF LiveRow
    <2> QED
      BY <1>5, <2>2, <2>3, <2>4 DEF Claim
  <1> QED
    BY <1>2, <1>4, <1>5

\* The attempt.
LEMMA AttemptHeld ==
  ASSUME DerivationAssumption, DerivationKnows, NEW w \in Workers, NEW t \in Tasks,
         Step(w), ~ (DrainOwnPatch(w) \/ Refresh(w) \/ Claim(w))
  PROVE  LiveIsHeld(t)
  <1>1. Typed /\ JobKnows(w) /\ job \in [Workers -> Jobs] /\ task \in [Tasks -> Rows]
    BY DEF DerivationKnows, JobsKnow, Typed
  <1>2. ASSUME task' = task PROVE LiveIsHeld(t)
    BY <1>2 DEF LiveIsHeld
  <1>3. ASSUME NEW s, MarkState(w, s), job[w].at \in Claimed PROVE LiveIsHeld(t)
    BY <1>3, MarkHeld
  <1>4. ASSUME job[w].at \in Claimed, Live(w), NEW row, job'[w] # job[w],
               task' = [task EXCEPT ![job[w].t] = row]
        PROVE  LiveIsHeld(t)
    <2>1. job[w].t \in Tasks
      BY <1>1, <1>4, AttemptIsThere
    <2> QED
      BY <1>1, <1>4, <2>1, OwnRowHeld
  <1>5. CASE CheckClaim(w)
    <2>1. job[w].at \in Claimed
      BY <1>5 DEF CheckClaim, At, Claimed
    <2>2. CASE /\ PatchWaitsForAck(w) /\ Acknowledged(w)
               /\ job' = [job EXCEPT ![w].seen = task'[job[w].t]]
      <3> DEFINE o == job[w].t
                 r1 == [task[o] EXCEPT !.applied = TRUE]
                 r2 == [r1 EXCEPT !.digest = doc]
      <3>1. ~ job[w].seen.applied /\ o \in Tasks /\ Live(w)
        BY <1>1, <2>1, <2>2, AttemptIsThere DEF PatchWaitsForAck, Acknowledged
      <3>2. task' = [task EXCEPT ![o] = r2]
        BY <2>2 DEF Acknowledged
      <3>3. r1.applied /\ r1 \in Rows
        BY <1>1, <3>1 DEF Rows
      <3> HIDE DEF r1
      <3>4. r2.applied
        BY <3>3 DEF Rows
      <3> HIDE DEF r2
      <3>5. task'[o].applied
        BY <1>1, <3>1, <3>2, <3>4
      <3>6. job'[w].seen = task'[o]
        <4>1. job' = [job EXCEPT ![w] = [job[w] EXCEPT !.seen = task'[o]]]
          BY <2>2
        <4>2. job'[w] = [job[w] EXCEPT !.seen = task'[o]]
          BY <1>1, <4>1
        <4>3. job[w] \in Jobs
          BY <1>1
        <4> QED
          BY <4>2, <4>3 DEF Jobs
      <3>7. job'[w] # job[w]
        BY <3>1, <3>5, <3>6
      <3> QED
        BY <1>4, <2>1, <3>1, <3>2, <3>7
    <2> QED
      BY <1>2, <1>3, <1>5, <2>1, <2>2 DEF CheckClaim
  <1>6. CASE RetryClaimed(w) \/ MarkCompleted(w) \/ FailMark(w)
    BY <1>3, <1>6 DEF RetryClaimed, MarkCompleted, FailMark, At, Claimed
  <1>7. CASE Reserve(w)
    BY <1>2, <1>3, <1>7 DEF Reserve, At, Claimed
  <1>8. CASE CallLLM(w) \/ Embed(w) \/ Publish(w) \/ Settle(w) \/ Fail(w) \/ SubmitPatch(w)
             \/ WriteBusy(w)
    <2>1. UNCHANGED rows
      BY <1>8 DEF CallLLM, Embed, Publish, Settle, Fail, SubmitPatch, WriteBusy
    <2> QED
      BY <1>2, <2>1 DEF rows
  <1>9. CASE RecordPatch(w)
    <2>1. job[w].at = "record" /\ job[w].at \in Claimed
      BY <1>9 DEF RecordPatch, At, Claimed
    <2> DEFINE p == [policy |-> job[w].policy.fp, attempt |-> job[w].n,
                     input |-> job[w].seen.digest]
    <2>2. CASE /\ Live(w) /\ task' = [task EXCEPT ![job[w].t].patch = p]
               /\ job' = [job EXCEPT ![w].at = "submit", ![w].seen.patch = p]
      <3> HIDE DEF p
      <3>1. job'[w].at = "submit"
        <4>1. job' = [job EXCEPT ![w] = [[job[w] EXCEPT !.at = "submit"] EXCEPT !.seen.patch = p]]
          BY <1>1, <2>2
        <4>2. job'[w] = [[job[w] EXCEPT !.at = "submit"] EXCEPT !.seen.patch = p]
          BY <1>1, <4>1
        <4>3. job[w] \in Jobs
          BY <1>1
        <4> QED
          BY <4>2, <4>3 DEF Jobs
      <3>2. job'[w] # job[w]
        BY <2>1, <3>1
      <3>3. task' = [task EXCEPT ![job[w].t] = [task[job[w].t] EXCEPT !.patch = p]]
        BY <2>2
      <3> QED
        BY <1>4, <2>1, <2>2, <3>2, <3>3
    <2> QED
      BY <1>2, <1>9, <2>2 DEF RecordPatch
  <1>10. CASE AckPatch(w)
    <2>1. job[w].at = "ack" /\ job[w].at \in Claimed
      BY <1>10 DEF AckPatch, At, Claimed
    <2>2. CASE Acknowledged(w) /\ Goto(w, "embed")
      <3>1. "embed" \in JobSteps
        BY DEF JobSteps
      <3>2. job'[w].at = "embed"
        BY <1>1, <2>2, <3>1, GoesTo
      <3>3. /\ Live(w)
            /\ task' = [task EXCEPT ![job[w].t] =
                          [[task[job[w].t] EXCEPT !.applied = TRUE] EXCEPT !.digest = doc]]
        BY <2>2 DEF Acknowledged
      <3> QED
        BY <1>4, <2>1, <3>2, <3>3
    <2> QED
      BY <1>2, <1>10, <2>2 DEF AckPatch
  <1> QED
    BY <1>5, <1>6, <1>7, <1>8, <1>9, <1>10 DEF Step

\* Only the worker of a live claim changes its row.
LEMMA LiveClaimsHold ==
  ASSUME DerivationAssumption, DerivationKnows, [Next]_vars, NEW t \in Tasks
  PROVE  LiveIsHeld(t)
  <1>1. ASSUME task' = task PROVE LiveIsHeld(t)
    BY <1>1 DEF LiveIsHeld
  <1>2. CASE \/ \E d \in Docs : Archive(d) \/ Delete(d) \/ Q1Drains(d)
             \/ \E o \in Tasks : Handoff(o) \/ ClaimExpires(o) \/ BackoffEnds(o)
             \/ SweepFirst
    BY <1>2, CommitHeld
  <1>3. CASE \E w \in Workers, o \in Tasks : Trigger(w, o)
    BY <1>1, <1>3 DEF Trigger, rows
  <1>4. CASE \E w \in Workers : Step(w)
    BY <1>4, ClaimHeld, AttemptHeld
  <1>5. CASE \E w \in Workers : Crash(w)
    BY <1>1, <1>5 DEF Crash, rows
  <1>6. CASE ChangePolicy \/ Approve \/ NextDay
    BY <1>1, <1>6 DEF ChangePolicy, Approve, NextDay, rows
  <1>7. CASE UNCHANGED vars
    BY <1>1, <1>7 DEF vars, rows
  <1> QED
    BY <1>2, <1>3, <1>4, <1>5, <1>6, <1>7 DEF Next

\* A generation an archive publishes has the patch of the archive in it.
LEMMA PublishesFinal ==
  ASSUME DerivationAssumption, DerivationKnows, [Next]_vars, NEW w \in Workers,
         At(w, "publish"), binding' # binding, IsArchive(job[w].t), job'[w] # job[w]
  PROVE  /\ binding'.digest[Doc(job[w].t)] # "archived"
         /\ binding'.digest = job[w].source
  <1>1. /\ Typed /\ DocsKnow /\ RowsKnow /\ JobKnows(w) /\ job[w].at = "publish"
        /\ job \in [Workers -> Jobs]
    BY DEF DerivationKnows, JobsKnow, At, Typed
  <1>2. ASSUME NEW v \in Workers, Step(v), v # w PROVE job'[w] = job[w]
    <2>1. CASE Reserve(v) \/ CallLLM(v) \/ Embed(v) \/ Publish(v) \/ Settle(v) \/ Fail(v)
      BY <1>1, <1>2, <2>1
      DEF Reserve, CallLLM, Embed, Publish, Settle, Fail, Goto, GotoFail, Done, MarkState
    <2>2. CASE CheckClaim(v) \/ RetryClaimed(v) \/ RecordPatch(v) \/ SubmitPatch(v)
               \/ AckPatch(v) \/ MarkCompleted(v) \/ FailMark(v) \/ WriteBusy(v)
      BY <1>1, <1>2, <2>2
      DEF CheckClaim, RetryClaimed, RecordPatch, SubmitPatch, AckPatch, MarkCompleted,
          FailMark, WriteBusy, Goto, GotoFail, Done, MarkState
    <2>3. CASE DrainOwnPatch(v) \/ Refresh(v) \/ Claim(v)
      BY <1>1, <1>2, <2>3 DEF DrainOwnPatch, Refresh, Claim, Goto
    <2> QED
      BY <1>2, <2>1, <2>2, <2>3 DEF Step
  <1>3. Publish(w)
    <2>1. CASE \E v \in Workers : Step(v)
      <3>1. Step(w)
        BY <1>2, <2>1
      <3>2. Publish(w) \/ WriteBusy(w)
        BY <1>1, <3>1
        DEF Step, DrainOwnPatch, Refresh, Claim, CheckClaim, RetryClaimed, Reserve, CallLLM,
            RecordPatch, SubmitPatch, AckPatch, Embed, Settle, MarkCompleted, Fail, FailMark, At
      <3> QED
        BY <3>2 DEF WriteBusy
    <2>2. CASE \E v \in Workers : Crash(v)
      BY <2>2 DEF Crash
    <2>3. CASE \E v \in Workers, t \in Tasks : Trigger(v, t)
      BY <2>3 DEF Trigger
    <2>4. CASE \/ \E d \in Docs : Archive(d) \/ Delete(d) \/ Q1Drains(d)
               \/ \E t \in Tasks : Handoff(t) \/ ClaimExpires(t) \/ BackoffEnds(t)
               \/ SweepFirst \/ ChangePolicy \/ Approve \/ NextDay \/ UNCHANGED vars
      BY <2>4 DEF Archive, Delete, Q1Drains, Handoff, ClaimExpires, BackoffEnds, SweepFirst,
                  ChangePolicy, Approve, NextDay, vars
    <2> QED
      BY <2>1, <2>2, <2>3, <2>4 DEF Next
  <1>4. doc = job[w].source /\ binding' = [state |-> "ready", digest |-> doc]
    BY <1>3 DEF Publish
  <1>5. task[job[w].t].applied /\ Doc(job[w].t) \in Docs /\ job[w].t \in Tasks
    BY <1>1, AttemptIsThere DEF JobKnows, Patched, Claimed
  <1>6. q1p[Doc(job[w].t)] = "completed"
    BY <1>1, <1>5 DEF RowsKnow, RowKnows, RowFits
  <1>7. doc[Doc(job[w].t)] # "archived"
    BY <1>1, <1>5, <1>6 DEF DocsKnow, DocKnows
  <1> QED
    BY <1>4, <1>7

\* The inductive invariant holds throughout.
LEMMA DerivationKnowsHolds == ASSUME DerivationAssumption PROVE Spec => []DerivationKnows
  <1>1. Init => DerivationKnows
    BY DerivationKnowsInit
  <1>2. DerivationKnows /\ [Next]_vars => DerivationKnows'
    BY DerivationKnowsStep
  <1> QED
    BY <1>1, <1>2, PTL DEF Spec

\* Nobody but its worker touches the row of a live claim, save a delete of its
\* target; and what an archive publishes contains its own patch: token and fence
\* of the claim are compared in every write of r4_derivation_lifecycle.py.
THEOREM ClaimsAreFencedHolds ==
  ASSUME DerivationAssumption
  PROVE  Spec => ClaimsAreFenced
  <1>1. DerivationKnows /\ [Next]_vars =>
          [\A t \in Tasks :
             task[t].state = "processing" /\ task[t].live /\ task'[t] # task[t] =>
                 \/ task'[t] = [task[t] EXCEPT !.live = FALSE]
                 \/ task'[t].state = "superseded" /\ doc[Doc(t)] = "deleted"
                 \/ \E w \in Workers : /\ job[w].t = t /\ job[w].n = task[t].attempts
                                       /\ job'[w] # job[w]]_vars
    BY LiveClaimsHold DEF LiveIsHeld, LiveRow, Held
  <1>2. DerivationKnows /\ [Next]_vars =>
          [\A w \in Workers :
             At(w, "publish") /\ binding' # binding /\ IsArchive(job[w].t)
             /\ job'[w] # job[w] =>
                 /\ binding'.digest[Doc(job[w].t)] # "archived"
                 /\ binding'.digest = job[w].source]_vars
    BY PublishesFinal
  <1>3. Spec => []DerivationKnows
    BY DerivationKnowsHolds
  <1> QED
    BY <1>1, <1>2, <1>3, PTL DEF Spec, ClaimsAreFenced, LiveClaimIsExclusive, FinalSourceOnly

-----------------------------------------------------------------------------
(* The ingress queue *)

CONSTANTS Requests, Callers, MaxTasks, MaxCallCrashes, Denials, OtherTriggers
VARIABLES q_row, q_order, q_raw, q_space, q_attempts, q_docs, q_q1, q_lease, q_job, q_crashes

\* The queue, over constants and variables of its own.
I == INSTANCE IngressLifecycle WITH
  Workers <- Callers, MaxCrashes <- MaxCallCrashes,
  row <- q_row, order <- q_order, raw <- q_raw, space <- q_space, attempts <- q_attempts,
  docs <- q_docs, q1 <- q_q1, lease <- q_lease, job <- q_job, crashes <- q_crashes


\* The steps at which a call holds the lease, and those on a task of the queue.
Holding == {"enqueue", "workspace", "attempt", "mark", "handover", "submitted",
            "discard", "q1", "release"}
OnTask == {"drain", "attempt", "parse", "write", "mark", "retry", "deny", "handover",
           "submitted", "discard", "q1", "release"}

RowRecs == [state : I!RowStates, by : Callers \cup {None}, live : BOOLEAN,
            backoff : BOOLEAN, doc : Callers \cup {None}]
RowTyped == q_row \in [Requests -> RowRecs]
Q1Typed == q_q1 \in [Requests -> [state : I!Q1States, doc : Callers \cup {None}]]

\* What a call in memory may rely on between two of its steps: the lease it
\* holds, the row it works on, and the document it has written.
CallKnows(w) ==
  /\ q_job[w].at \in Holding => q_lease = w
  /\ q_job[w].at \in OnTask => q_job[w].cur \in Requests
  /\ q_job[w].at \in {"enqueue", "workspace"} => q_job[w].own \in Requests
  /\ I!At(w, "enqueue") => q_row[q_job[w].own].state = "none" /\ q_job[w].own \in q_raw
  /\ I!At(w, "mark") => <<q_job[w].cur, w>> \in q_docs
  /\ q_job[w].at \in {"handover", "submitted"} => q_row[q_job[w].cur].state = "prepared"
  /\ I!At(w, "submitted") => q_q1[q_job[w].cur].state # "none"
  /\ q_job[w].at \in {"discard", "release"} =>
       q_row[q_job[w].cur].state \in {"submitted", "rejected"}
  /\ I!At(w, "q1") => q_row[q_job[w].cur].state = "submitted"
CallsKnow == \A w \in Callers : CallKnows(w)

\* A row that is settled has no claim and waits for nothing, and a claimed one
\* does not back off.
ClaimsFit ==
  \A r \in Requests :
    /\ q_row[r].state \in {"prepared", "submitted", "rejected"} =>
         q_row[r].by = None /\ ~ q_row[r].live /\ ~ q_row[r].backoff
    /\ q_row[r].state = "processing" => ~ q_row[r].backoff

\* The inductive invariant of the queue.
IngressKnows == I!ITypeOK /\ I!NothingLost /\ I!OneDocument /\ I!AttemptIsAlone
                /\ ClaimsFit /\ CallsKnow

\* AttemptIsAlone for one worker.
Alone(w) ==
  I!At(w, "parse") /\ I!Active(w, q_job[w].cur) =>
      {a \in q_attempts : a[1] = q_job[w].cur} = {<<q_job[w].cur, w>>}

\* A step that leaves to w what w may rely on under the lease.
Undisturbed(w) ==
  q_lease = w =>
    /\ q_lease' = w /\ q_raw' = q_raw /\ q_docs' = q_docs /\ q_q1' = q_q1
    /\ \A r \in Requests : q_row'[r].state = q_row[r].state

\* A step that moves no row but between the states that still need the source.
Open == {"accepted", "processing", "retry_required"}
RowsDrift ==
  \A r \in Requests :
    /\ q_row'[r].doc = q_row[r].doc
    /\ q_row'[r].state = q_row[r].state \/ {q_row[r].state, q_row'[r].state} \subseteq Open

-----------------------------------------------------------------------------
(* Rows *)

\* Nothing is not a worker and not a request.
LEMMA NoneApart == I!IngressAssumption => None \notin Callers /\ None \notin Requests
  BY DEF I!IngressAssumption

\* Taking expired claims back keeps the rows typed, and touches no row but a
\* claimed one, which then waits to be tried again.
LEMMA RecoveredRows ==
  ASSUME RowTyped
  PROVE  /\ I!RowsRecovered \in [Requests -> RowRecs]
         /\ \A r \in Requests :
              /\ I!RowsRecovered[r].doc = q_row[r].doc
              /\ I!RowsRecovered[r].backoff = q_row[r].backoff
              /\ q_row[r].state # "processing" => I!RowsRecovered[r] = q_row[r]
              /\ q_row[r].state = "processing" =>
                   I!RowsRecovered[r].state \in {"processing", "retry_required"}
              /\ I!RowsRecovered[r].state = "processing" => I!RowsRecovered[r] = q_row[r]
  <1> DEFINE R == I!RowsRecovered
  <1>1. R = [r \in Requests |-> R[r]]
    BY DEF I!RowsRecovered
  <1>2. ASSUME NEW r \in Requests
        PROVE  /\ R[r] \in RowRecs
               /\ R[r].doc = q_row[r].doc
               /\ R[r].backoff = q_row[r].backoff
               /\ q_row[r].state # "processing" => R[r] = q_row[r]
               /\ q_row[r].state = "processing" => R[r].state \in {"processing", "retry_required"}
               /\ R[r].state = "processing" => R[r] = q_row[r]
    <2>1. q_row[r] \in RowRecs
      BY <1>2 DEF RowTyped
    <2>2. CASE I!Expired(r)
      <3>1. R[r] = [q_row[r] EXCEPT !.by = None, !.live = FALSE, !.state = "retry_required"]
        BY <1>2, <2>1, <2>2 DEF I!RowsRecovered, I!Unclaimed, RowRecs
      <3> QED
        BY <2>1, <2>2, <3>1 DEF I!Expired, I!RowStates, RowRecs
    <2>3. CASE ~ I!Expired(r)
      BY <1>2, <2>1, <2>3 DEF I!RowsRecovered
    <2> QED
      BY <2>2, <2>3
  <1> HIDE DEF R
  <1>3. R \in [Requests -> RowRecs]
    BY <1>1, <1>2
  <1> QED
    BY <1>2, <1>3 DEF R

\* Dropping the token of a worker keeps the rows typed and all but the token.
LEMMA DisownedRows ==
  ASSUME I!IngressAssumption, RowTyped, NEW w \in Callers
  PROVE  /\ I!Disowned(w) \in [Requests -> RowRecs]
         /\ \A r \in Requests :
              /\ I!Disowned(w)[r].doc = q_row[r].doc
              /\ I!Disowned(w)[r].backoff = q_row[r].backoff
              /\ I!Disowned(w)[r].state = q_row[r].state
              /\ I!Disowned(w)[r].live = q_row[r].live
              /\ q_row[r].by = None => I!Disowned(w)[r].by = None
              /\ \A v \in Callers : I!Disowned(w)[r].by = v => q_row[r].by = v
  <1> SUFFICES ASSUME NEW r \in Requests
               PROVE  /\ I!Disowned(w)[r] \in RowRecs
                      /\ I!Disowned(w)[r].doc = q_row[r].doc
                      /\ I!Disowned(w)[r].backoff = q_row[r].backoff
                      /\ I!Disowned(w)[r].state = q_row[r].state
                      /\ I!Disowned(w)[r].live = q_row[r].live
                      /\ q_row[r].by = None => I!Disowned(w)[r].by = None
                      /\ \A v \in Callers : I!Disowned(w)[r].by = v => q_row[r].by = v
    BY DEF I!Disowned
  <1>1. q_row[r] \in RowRecs
    BY DEF RowTyped
  <1>2. CASE q_row[r].by = w
    <2>1. I!Disowned(w)[r] = [q_row[r] EXCEPT !.by = None]
      BY <1>2 DEF I!Disowned
    <2> QED
      BY <1>1, <2>1, NoneApart DEF RowRecs
  <1>3. CASE q_row[r].by # w
    <2>1. I!Disowned(w)[r] = q_row[r]
      BY <1>3 DEF I!Disowned
    <2> QED
      BY <1>1, <2>1
  <1> QED
    BY <1>2, <1>3

-----------------------------------------------------------------------------
(* What a step leaves alone *)

\* A step of another keeps what a worker knows, if it respects its lease.
LEMMA OthersKnow ==
  ASSUME IngressKnows, NEW v \in Callers, q_job'[v] = q_job[v], Undisturbed(v)
  PROVE  CallKnows(v)'
  <1>1. CallKnows(v)
    BY DEF IngressKnows, CallsKnow
  <1>2. CASE q_lease = v
    BY <1>1, <1>2 DEF CallKnows, Undisturbed, I!At, Holding, OnTask
  <1>3. CASE q_lease # v
    <2>1. q_job[v].at \notin Holding
      BY <1>1, <1>3 DEF CallKnows
    <2> QED
      BY <1>1, <2>1 DEF CallKnows, I!At, Holding, OnTask
  <1> QED
    BY <1>2, <1>3

\* Rows that drift keep their sources and documents.
LEMMA StoreKeeps ==
  ASSUME IngressKnows, RowsDrift, q_raw \subseteq q_raw', q_docs \subseteq q_docs', q_q1' = q_q1
  PROVE  I!NothingLost' /\ I!OneDocument'
  <1>1. I!NothingLost'
    <2>1. I!NothingLost
      BY DEF IngressKnows
    <2> QED
      BY <2>1 DEF I!NothingLost, RowsDrift, Open
  <1>2. I!OneDocument'
    <2>1. I!OneDocument
      BY DEF IngressKnows
    <2> QED
      BY <2>1 DEF I!OneDocument, RowsDrift, Open
  <1> QED
    BY <1>1, <1>2

\* Attempts that nobody touches stay alone.
LEMMA AloneKeeps ==
  ASSUME IngressKnows, NEW v \in Callers, I!At(v, "parse")' => q_job'[v] = q_job[v],
         \A r \in Requests : I!Active(v, r)' => I!Active(v, r),
         \A r \in Requests : I!Active(v, r)'
                 => {a \in q_attempts' : a[1] = r} = {a \in q_attempts : a[1] = r}
  PROVE  Alone(v)'
  <1>1. Alone(v)
    BY DEF IngressKnows, I!AttemptIsAlone, Alone
  <1> SUFFICES ASSUME I!At(v, "parse")', I!Active(v, q_job[v].cur)'
               PROVE  {a \in q_attempts' : a[1] = q_job[v].cur} = {<<q_job[v].cur, v>>}
    BY DEF Alone, I!Active, I!At
  <1>2. I!At(v, "parse") /\ q_job[v].cur \in Requests
    BY DEF I!At, IngressKnows, CallsKnow, CallKnows, OnTask
  <1> QED
    BY <1>1, <1>2 DEF Alone

\* A worker that moves to a new job leaves the others theirs.
LEMMA JobMoves ==
  ASSUME IngressKnows, NEW w \in Callers, NEW j \in I!Jobs, q_job' = [q_job EXCEPT ![w] = j]
  PROVE  /\ q_job' \in [Callers -> I!Jobs] /\ q_job'[w] = j
         /\ \A v \in Callers \ {w} : q_job'[v] = q_job[v]
  BY DEF IngressKnows, I!ITypeOK

-----------------------------------------------------------------------------
(* Steps in memory *)

\* Calls that read, choose what comes next, or parse change nothing stored.
LEMMA MemorySteps ==
  ASSUME IngressKnows, NEW w \in Callers, NEW j \in I!Jobs, q_job' = [q_job EXCEPT ![w] = j],
         UNCHANGED <<I!store, q_q1, q_lease, q_crashes>>, j.at \notin Holding \cup {"parse"},
         j.at \in OnTask => j.cur \in Requests
  PROVE  IngressKnows'
  <1>1. q_job' \in [Callers -> I!Jobs] /\ q_job'[w] = j
          /\ \A v \in Callers \ {w} : q_job'[v] = q_job[v]
    BY JobMoves
  <1>2. I!ITypeOK'
    BY <1>1 DEF IngressKnows, I!ITypeOK, I!store
  <1>3. I!NothingLost' /\ I!OneDocument'
    <2>1. RowsDrift
      BY DEF RowsDrift, I!store
    <2> QED
      BY <2>1, StoreKeeps DEF I!store
  <1>4. I!AttemptIsAlone'
    <2>1. ASSUME NEW v \in Callers PROVE Alone(v)'
      <3>1. I!At(v, "parse")' => q_job'[v] = q_job[v]
        BY <1>1 DEF I!At
      <3> QED
        BY <3>1, AloneKeeps DEF I!Active, I!store
    <2> QED
      BY <2>1 DEF Alone, I!AttemptIsAlone
  <1>5. ClaimsFit'
    BY DEF IngressKnows, ClaimsFit, I!store
  <1>6. CallsKnow'
    <2>1. ASSUME NEW v \in Callers \ {w} PROVE CallKnows(v)'
      BY <1>1, OthersKnow DEF Undisturbed, I!store
    <2>2. CallKnows(w)'
      BY <1>1 DEF CallKnows, I!At, Holding
    <2> QED
      BY <2>1, <2>2 DEF CallsKnow
  <1> QED
    BY <1>2, <1>3, <1>4, <1>5, <1>6 DEF IngressKnows

\* The jobs a call moves on to.
LEMMA NextJobs ==
  ASSUME I!IngressAssumption, IngressKnows, NEW w \in Callers
  PROVE  /\ I!Idle \in I!Jobs
         /\ q_job[w] \in I!Jobs
         /\ \A s \in I!JobSteps :
              /\ [q_job[w] EXCEPT !.at = s] \in I!Jobs
              /\ I!Goto(w, s) => q_job' = [q_job EXCEPT ![w] = [q_job[w] EXCEPT !.at = s]]
  <1>1. q_job \in [Callers -> I!Jobs] /\ q_job[w] \in I!Jobs
    BY DEF IngressKnows, I!ITypeOK
  <1>2. I!Idle \in I!Jobs
    BY DEF I!Idle, I!Jobs, I!JobSteps
  <1>3. ASSUME NEW s \in I!JobSteps
        PROVE  /\ [q_job[w] EXCEPT !.at = s] \in I!Jobs
               /\ I!Goto(w, s) => q_job' = [q_job EXCEPT ![w] = [q_job[w] EXCEPT !.at = s]]
    BY <1>1 DEF I!Jobs, I!Goto
  <1> QED
    BY <1>1, <1>2, <1>3

\* Reading and parsing keep the invariant.
LEMMA MemoryKeeps ==
  ASSUME I!IngressAssumption, IngressKnows, NEW w \in Callers,
         \/ I!LaterCall(w) \/ I!ListRecoverable(w) \/ I!Visit(w) \/ I!ParseSucceeds(w)
                 \/ I!ParseFails(w)
  PROVE  IngressKnows'
  <1>1. q_job \in [Callers -> I!Jobs] /\ q_job[w] \in I!Jobs
    BY DEF IngressKnows, I!ITypeOK
  <1>2. CASE I!LaterCall(w)
    <2> DEFINE j == [I!Idle EXCEPT !.at = "recover"]
    <2>1. j \in I!Jobs /\ j.at = "recover"
      BY DEF I!Jobs, I!JobSteps, I!Idle
    <2>2. q_job' = [q_job EXCEPT ![w] = j] /\ UNCHANGED <<I!store, q_q1, q_lease, q_crashes>>
      BY <1>2 DEF I!LaterCall
    <2> HIDE DEF j
    <2> QED
      BY <2>1, <2>2, MemorySteps DEF Holding, OnTask
  <1>3. CASE I!ListRecoverable(w)
    <2> DEFINE j == [q_job[w] EXCEPT !.at = "visit", !.left = MaxTasks,
                                     !.list = {r \in Requests : I!Recoverable(r)}]
    <2>1. j \in I!Jobs /\ j.at = "visit"
      BY <1>1 DEF I!Jobs, I!JobSteps, I!IngressAssumption
    <2>2. q_job' = [q_job EXCEPT ![w] = j] /\ UNCHANGED <<I!store, q_q1, q_lease, q_crashes>>
      BY <1>3 DEF I!ListRecoverable
    <2> HIDE DEF j
    <2> QED
      BY <2>1, <2>2, MemorySteps DEF Holding, OnTask
  <1>4. CASE I!Visit(w)
    <2>1. UNCHANGED <<I!store, q_q1, q_lease, q_crashes>>
      BY <1>4 DEF I!Visit
    <2>2. CASE q_job' = [q_job EXCEPT ![w] = [@ EXCEPT !.at = "sweep", !.list = {}]]
      <3> DEFINE j == [q_job[w] EXCEPT !.at = "sweep", !.list = {}]
      <3>1. j \in I!Jobs /\ j.at = "sweep"
        BY <1>1 DEF I!Jobs, I!JobSteps
      <3>2. q_job' = [q_job EXCEPT ![w] = j]
        BY <2>2
      <3> HIDE DEF j
      <3> QED
        BY <2>1, <3>1, <3>2, MemorySteps DEF Holding, OnTask
    <2>3. ASSUME q_job[w].left # 0, NEW r \in q_job[w].list,
                 q_job' = [q_job EXCEPT ![w] =
                                 [@ EXCEPT !.at = "drain", !.cur = r,
                                           !.list = q_job[w].list \ {r},
                                           !.left = q_job[w].left - 1]]
          PROVE  IngressKnows'
      <3> DEFINE j == [q_job[w] EXCEPT !.at = "drain", !.cur = r,
                                       !.list = q_job[w].list \ {r},
                                       !.left = q_job[w].left - 1]
      <3>1. q_job[w].list \in SUBSET Requests /\ q_job[w].left - 1 \in Nat
        BY <1>1, <2>3 DEF I!Jobs
      <3>2. j \in I!Jobs /\ j.at = "drain" /\ j.cur \in Requests
        BY <1>1, <3>1 DEF I!Jobs, I!JobSteps
      <3>3. q_job' = [q_job EXCEPT ![w] = j]
        BY <1>1, <2>3 DEF I!Jobs
      <3> HIDE DEF j
      <3> QED
        BY <2>1, <3>2, <3>3, MemorySteps DEF Holding, OnTask
    <2> QED
      BY <1>4, <2>2, <2>3 DEF I!Visit
  <1>5. CASE I!ParseSucceeds(w) \/ I!ParseFails(w)
    <2>1. PICK s \in {"write", "retry", "deny"} : I!Goto(w, s)
      BY <1>5 DEF I!ParseSucceeds, I!ParseFails
    <2> DEFINE j == [q_job[w] EXCEPT !.at = s]
    <2>2. j \in I!Jobs /\ q_job' = [q_job EXCEPT ![w] = j]
      BY <1>1, <2>1 DEF I!JobSteps, I!Jobs, I!Goto
    <2>3. j.at = s /\ j.cur = q_job[w].cur
      BY <1>1 DEF I!Jobs
    <2>4. j.cur \in Requests
      BY <1>5, <2>3 DEF I!ParseSucceeds, I!ParseFails, IngressKnows, CallsKnow, CallKnows,
              OnTask, I!At
    <2>5. UNCHANGED <<I!store, q_q1, q_lease, q_crashes>>
      BY <1>5 DEF I!ParseSucceeds, I!ParseFails
    <2> HIDE DEF j
    <2> QED
      BY <2>2, <2>3, <2>4, <2>5, MemorySteps DEF Holding, OnTask
  <1> QED
    BY <1>2, <1>3, <1>4, <1>5

-----------------------------------------------------------------------------
(* Steps of a call *)

\* A step of w that respects the lease of the others, and whose own next step
\* knows what it must, keeps what the calls know.
LEMMA CallsKeep ==
  ASSUME IngressKnows, NEW w \in Callers, NEW j \in I!Jobs, q_job' = [q_job EXCEPT ![w] = j],
         \A v \in Callers \ {w} : Undisturbed(v), CallKnows(w)'
  PROVE  q_job' \in [Callers -> I!Jobs] /\ CallsKnow'
  <1>1. q_job' \in [Callers -> I!Jobs] /\ \A v \in Callers \ {w} : q_job'[v] = q_job[v]
    BY JobMoves
  <1>2. ASSUME NEW v \in Callers \ {w} PROVE CallKnows(v)'
    BY <1>1, OthersKnow
  <1> QED
    BY <1>1, <1>2 DEF CallsKnow

\* No other holds the lease that w holds or takes.
LEMMA LeaseIsMine ==
  ASSUME I!IngressAssumption, NEW w \in Callers, q_lease \in {w, None}
  PROVE  \A v \in Callers \ {w} : Undisturbed(v)
  BY NoneApart DEF Undisturbed

\* A step of w that touches no attempt and begins no parse leaves the attempts alone.
LEMMA AttemptsKeep ==
  ASSUME IngressKnows, NEW w \in Callers, NEW j \in I!Jobs, q_job' = [q_job EXCEPT ![w] = j],
         j.at # "parse", q_attempts' = q_attempts,
         \A v \in Callers \ {w}, r \in Requests : I!Active(v, r)' => I!Active(v, r)
  PROVE  I!AttemptIsAlone'
  <1>1. q_job'[w] = j /\ \A v \in Callers \ {w} : q_job'[v] = q_job[v]
    BY JobMoves
  <1>2. Alone(w)'
    BY <1>1 DEF Alone, I!At
  <1>3. ASSUME NEW v \in Callers \ {w} PROVE Alone(v)'
    BY <1>1, AloneKeeps
  <1> QED
    BY <1>2, <1>3 DEF Alone, I!AttemptIsAlone

\* Admission.
LEMMA AdmissionKeeps ==
  ASSUME I!IngressAssumption, IngressKnows, NEW w \in Callers, NEW r \in Requests, I!Admit(w, r)
  PROVE  IngressKnows'
  <1> DEFINE j == [I!Idle EXCEPT !.at = "enqueue", !.own = r]
  <1>1. j \in I!Jobs /\ j.at = "enqueue" /\ j.own = r
    BY DEF I!Jobs, I!JobSteps, I!Idle
  <1>2. q_job' = [q_job EXCEPT ![w] = j] /\ q_lease = None /\ q_lease' = w
          /\ q_raw' = q_raw \cup {r}
        /\ q_row[r].state = "none" /\ UNCHANGED <<q_row, q_order, q_space, q_attempts,
                q_docs, q_q1, q_crashes>>
    BY DEF I!Admit, I!Acquire
  <1> HIDE DEF j
  <1>3. q_job'[w] = j
    BY <1>1, <1>2, JobMoves
  <1>4. CallsKnow' /\ q_job' \in [Callers -> I!Jobs]
    <2>1. CallKnows(w)'
      BY <1>1, <1>2, <1>3 DEF CallKnows, I!At, OnTask
    <2> QED
      BY <1>1, <1>2, <2>1, CallsKeep, LeaseIsMine
  <1>5. I!ITypeOK'
    BY <1>2, <1>4 DEF IngressKnows, I!ITypeOK
  <1>6. I!NothingLost' /\ I!OneDocument'
    <2>1. RowsDrift
      BY <1>2 DEF RowsDrift
    <2> QED
      BY <1>2, <2>1, StoreKeeps
  <1>7. I!AttemptIsAlone'
    BY <1>1, <1>2, AttemptsKeep DEF I!Active
  <1>8. ClaimsFit'
    BY <1>2 DEF IngressKnows, ClaimsFit
  <1> QED
    BY <1>4, <1>5, <1>6, <1>7, <1>8 DEF IngressKnows

\* The row is inserted, and the workspace made.
LEMMA EnqueueKeeps ==
  ASSUME I!IngressAssumption, IngressKnows, NEW w \in Callers, I!Enqueue(w)
  PROVE  IngressKnows'
  <1> DEFINE r == q_job[w].own
             j == [q_job[w] EXCEPT !.at = "workspace"]
  <1>1. q_job[w] \in I!Jobs /\ j \in I!Jobs /\ q_job' = [q_job EXCEPT ![w] = j]
    BY NextJobs DEF I!Enqueue, I!JobSteps
  <1>2. j.at = "workspace" /\ j.own = r
    BY <1>1 DEF I!Jobs
  <1>3. r \in Requests /\ q_row[r].state = "none" /\ r \in q_raw /\ q_lease = w
    BY DEF I!Enqueue, IngressKnows, CallsKnow, CallKnows, I!At, Holding
  <1>4. q_row' = [q_row EXCEPT ![r].state = "accepted"] /\ q_order' = Append(q_order, r)
        /\ UNCHANGED <<q_raw, q_space, q_attempts, q_docs, q_q1, q_lease, q_crashes>>
    BY DEF I!Enqueue
  <1> HIDE DEF j, r
  <1>5. RowTyped
    BY DEF IngressKnows, I!ITypeOK, RowTyped, RowRecs
  <1>6. /\ q_row' \in [Requests -> RowRecs] /\ q_row'[r] = [q_row[r] EXCEPT !.state = "accepted"]
        /\ \A x \in Requests \ {r} : q_row'[x] = q_row[x]
    BY <1>3, <1>4, <1>5 DEF RowTyped, RowRecs, I!RowStates
  <1>7. q_row'[r].state = "accepted" /\ q_row'[r].doc = q_row[r].doc
    BY <1>3, <1>5, <1>6 DEF RowTyped, RowRecs
  <1>8. q_job'[w] = j
    BY <1>1, JobMoves
  <1>9. CallsKnow' /\ q_job' \in [Callers -> I!Jobs]
    <2>1. CallKnows(w)'
      BY <1>2, <1>3, <1>4, <1>8 DEF CallKnows, I!At, OnTask
    <2> QED
      BY <1>1, <1>3, <2>1, CallsKeep, LeaseIsMine
  <1>10. I!ITypeOK'
    <2>1. q_order' \in Seq(Requests)
      BY <1>3, <1>4 DEF IngressKnows, I!ITypeOK
    <2> QED
      BY <1>4, <1>6, <1>9, <2>1 DEF IngressKnows, I!ITypeOK, RowRecs
  <1>11. I!NothingLost'
    <2>1. I!NothingLost
      BY DEF IngressKnows
    <2> QED
      BY <1>3, <1>4, <1>6, <1>7, <2>1 DEF I!NothingLost
  <1>12. I!OneDocument'
    <2>1. I!OneDocument
      BY DEF IngressKnows
    <2> QED
      BY <1>3, <1>4, <1>6, <1>7, <2>1 DEF I!OneDocument
  <1>13. I!AttemptIsAlone'
    <2>1. \A v \in Callers \ {w}, x \in Requests : I!Active(v, x)' => I!Active(v, x)
      BY <1>6, <1>7 DEF I!Active
    <2> QED
      BY <1>1, <1>2, <1>4, <2>1, AttemptsKeep
  <1>14. ClaimsFit'
    <2>1. ClaimsFit
      BY DEF IngressKnows
    <2> QED
      BY <1>6, <1>7, <2>1 DEF ClaimsFit
  <1> QED
    BY <1>9, <1>10, <1>11, <1>12, <1>13, <1>14 DEF IngressKnows

\* The hypotheses of the next lemma but the ones about jobs and leases: a step
\* of w that adds to the stores, lets rows drift, and gives nobody else a claim.
GentleStep(w) ==
  /\ q_row' \in [Requests -> RowRecs] /\ RowsDrift /\ ClaimsFit'
  /\ \A v \in Callers \ {w}, r \in Requests : I!Active(v, r)' => I!Active(v, r)
  /\ q_raw \subseteq q_raw' /\ q_raw' \subseteq Requests
  /\ q_docs \subseteq q_docs' /\ q_docs' \subseteq Requests \X Callers
  /\ q_space' \subseteq Requests
  /\ q_attempts' = q_attempts /\ q_order' = q_order /\ q_q1' = q_q1
  /\ q_lease' \in Callers \cup {None} /\ q_crashes' \in 0..MaxCallCrashes

\* Such a step keeps the invariant.
LEMMA GentleSteps ==
  ASSUME IngressKnows, NEW w \in Callers, NEW j \in I!Jobs, q_job' = [q_job EXCEPT ![w] = j],
         GentleStep(w), j.at # "parse",
         \A v \in Callers \ {w} : Undisturbed(v), CallKnows(w)'
  PROVE  IngressKnows'
  <1>1. q_job' \in [Callers -> I!Jobs] /\ CallsKnow'
    BY CallsKeep
  <1>2. I!ITypeOK'
    BY <1>1 DEF IngressKnows, I!ITypeOK, GentleStep, RowRecs
  <1>3. I!NothingLost' /\ I!OneDocument'
    BY StoreKeeps DEF GentleStep
  <1>4. I!AttemptIsAlone'
    BY AttemptsKeep DEF GentleStep
  <1> QED
    BY <1>1, <1>2, <1>3, <1>4 DEF IngressKnows, GentleStep

\* A step that leaves the rows alone is gentle with them.
LEMMA RowsStay ==
  ASSUME IngressKnows, q_row' = q_row
  PROVE  /\ q_row' \in [Requests -> RowRecs] /\ RowsDrift /\ ClaimsFit'
         /\ \A v \in Callers, r \in Requests : I!Active(v, r)' => I!Active(v, r)
  <1>1. q_row' \in [Requests -> RowRecs]
    BY DEF IngressKnows, I!ITypeOK, RowRecs
  <1>2. RowsDrift
    BY DEF RowsDrift
  <1>3. ClaimsFit'
    BY DEF IngressKnows, ClaimsFit
  <1> QED
    BY <1>1, <1>2, <1>3 DEF I!Active

\* So is one that takes expired claims back.
LEMMA RowsAreRecovered ==
  ASSUME IngressKnows, q_row' = I!RowsRecovered
  PROVE  /\ q_row' \in [Requests -> RowRecs] /\ RowsDrift /\ ClaimsFit'
         /\ \A v \in Callers, r \in Requests : I!Active(v, r)' => I!Active(v, r)
  <1>1. RowTyped
    BY DEF IngressKnows, I!ITypeOK, RowTyped, RowRecs
  <1>2. q_row' \in [Requests -> RowRecs]
    BY <1>1, RecoveredRows
  <1>3. ASSUME NEW r \in Requests
        PROVE  /\ q_row'[r].doc = q_row[r].doc
               /\ q_row[r].state # "processing" => q_row'[r] = q_row[r]
               /\ q_row[r].state = "processing" =>
                   q_row'[r].state \in {"processing", "retry_required"}
               /\ q_row'[r].state = "processing" => q_row'[r] = q_row[r]
    BY <1>1, <1>3, RecoveredRows
  <1>4. RowsDrift
    BY <1>3 DEF RowsDrift, Open
  <1>5. ClaimsFit'
    <2>1. ClaimsFit
      BY DEF IngressKnows
    <2> QED
      BY <1>3, <2>1 DEF ClaimsFit
  <1>6. ASSUME NEW v \in Callers, NEW r \in Requests, I!Active(v, r)' PROVE I!Active(v, r)
    BY <1>3, <1>6 DEF I!Active
  <1> QED
    BY <1>2, <1>4, <1>5, <1>6

\* So is one that drops the token of a worker.
LEMMA RowsAreDisowned ==
  ASSUME I!IngressAssumption, IngressKnows, NEW w \in Callers, q_row' = I!Disowned(w)
  PROVE  /\ q_row' \in [Requests -> RowRecs] /\ RowsDrift /\ ClaimsFit'
         /\ \A v \in Callers, r \in Requests : I!Active(v, r)' => I!Active(v, r)
  <1>1. RowTyped
    BY DEF IngressKnows, I!ITypeOK, RowTyped, RowRecs
  <1>2. q_row' \in [Requests -> RowRecs]
    BY <1>1, DisownedRows
  <1>3. ASSUME NEW r \in Requests
        PROVE  /\ q_row'[r].doc = q_row[r].doc
               /\ q_row'[r].backoff = q_row[r].backoff
               /\ q_row'[r].state = q_row[r].state
               /\ q_row'[r].live = q_row[r].live
               /\ q_row[r].by = None => q_row'[r].by = None
               /\ \A v \in Callers : q_row'[r].by = v => q_row[r].by = v
    BY <1>1, <1>3, DisownedRows
  <1>4. RowsDrift
    BY <1>3 DEF RowsDrift
  <1>5. ClaimsFit'
    <2>1. ClaimsFit
      BY DEF IngressKnows
    <2> QED
      BY <1>3, <2>1 DEF ClaimsFit
  <1>6. ASSUME NEW v \in Callers, NEW r \in Requests, I!Active(v, r)' PROVE I!Active(v, r)
    BY <1>3, <1>6 DEF I!Active
  <1> QED
    BY <1>2, <1>4, <1>5, <1>6

\* The job of a call that ends or goes on to its next visit.
LEMMA ReturnJobs ==
  ASSUME IngressKnows, I!IngressAssumption, NEW w \in Callers, I!Return(w)
  PROVE  \E j \in I!Jobs : j.at \in {"idle", "visit"}
          /\ q_job' = [q_job EXCEPT ![w] = j] /\ q_lease' = None
  <1> DEFINE j == IF q_job[w].done THEN I!Idle
                  ELSE [q_job[w] EXCEPT !.at = "visit", !.cur = None,
                                 !.own = IF q_job[w].own = q_job[w].cur THEN None
                                         ELSE q_job[w].own]
  <1>1. q_job[w] \in I!Jobs /\ I!Idle \in I!Jobs
    BY NextJobs
  <1>2. j \in I!Jobs /\ j.at \in {"idle", "visit"}
    BY <1>1 DEF I!Jobs, I!JobSteps, I!Idle
  <1>3. q_job' = [q_job EXCEPT ![w] = j] /\ q_lease' = None
    BY DEF I!Return, I!Release
  <1> HIDE DEF j
  <1> QED
    BY <1>2, <1>3

\* A step after which w is at no step that needs to know anything.
LEMMA RestKnows ==
  ASSUME IngressKnows, NEW w \in Callers, NEW j \in I!Jobs, q_job' = [q_job EXCEPT ![w] = j],
         j.at \in {"idle", "visit", "recover", "list", "sweep"}
  PROVE  CallKnows(w)'
  <1>1. q_job'[w] = j
    BY JobMoves
  <1> QED
    BY <1>1 DEF CallKnows, I!At, Holding, OnTask

\* The workspace is made and the lease given back.
LEMMA EnsureTaskKeeps ==
  ASSUME I!IngressAssumption, IngressKnows, NEW w \in Callers, I!EnsureTask(w)
  PROVE  IngressKnows'
  <1> DEFINE j == [q_job[w] EXCEPT !.at = "recover"]
  <1>1. q_job[w] \in I!Jobs /\ j \in I!Jobs /\ q_job' = [q_job EXCEPT ![w] = j]
    BY NextJobs DEF I!EnsureTask, I!JobSteps
  <1>2. j.at = "recover"
    BY <1>1 DEF I!Jobs
  <1>3. q_lease = w /\ q_job[w].own \in Requests
    BY DEF I!EnsureTask, IngressKnows, CallsKnow, CallKnows, I!At, Holding
  <1> HIDE DEF j
  <1>4. CallKnows(w)'
    BY <1>1, <1>2, RestKnows
  <1>5. GentleStep(w)
    <2>1. /\ q_row' \in [Requests -> RowRecs] /\ RowsDrift /\ ClaimsFit'
          /\ \A v \in Callers, r \in Requests : I!Active(v, r)' => I!Active(v, r)
      BY RowsStay DEF I!EnsureTask
    <2> QED
      BY <1>3, <2>1 DEF GentleStep, I!EnsureTask, I!Release, IngressKnows, I!ITypeOK
  <1> QED
    BY <1>1, <1>2, <1>3, <1>4, <1>5, GentleSteps, LeaseIsMine

\* Recovery of expired claims.
LEMMA RecoverExpiredKeeps ==
  ASSUME I!IngressAssumption, IngressKnows, NEW w \in Callers, I!RecoverExpired(w)
  PROVE  IngressKnows'
  <1> DEFINE j == [q_job[w] EXCEPT !.at = "list"]
  <1>1. q_job[w] \in I!Jobs /\ j \in I!Jobs /\ q_job' = [q_job EXCEPT ![w] = j]
    BY NextJobs DEF I!RecoverExpired, I!JobSteps
  <1>2. j.at = "list"
    BY <1>1 DEF I!Jobs
  <1> HIDE DEF j
  <1>3. CallKnows(w)'
    BY <1>1, <1>2, RestKnows
  <1>4. GentleStep(w)
    <2>1. /\ q_row' \in [Requests -> RowRecs] /\ RowsDrift /\ ClaimsFit'
          /\ \A v \in Callers, r \in Requests : I!Active(v, r)' => I!Active(v, r)
      BY RowsAreRecovered DEF I!RecoverExpired
    <2> QED
      BY <2>1 DEF GentleStep, I!RecoverExpired, IngressKnows, I!ITypeOK
  <1> QED
    BY <1>1, <1>2, <1>3, <1>4, GentleSteps, LeaseIsMine DEF I!RecoverExpired

\* A visit that finds nothing to do.
LEMMA NothingToDrainKeeps ==
  ASSUME I!IngressAssumption, IngressKnows, NEW w \in Callers, I!NothingToDrain(w)
  PROVE  IngressKnows'
  <1>1. PICK j \in I!Jobs : j.at \in {"idle", "visit"} /\ q_job' = [q_job EXCEPT ![w] = j]
    BY ReturnJobs DEF I!NothingToDrain
  <1>2. CallKnows(w)'
    BY <1>1, RestKnows
  <1>3. q_lease = None /\ q_row' = I!RowsRecovered /\ q_lease' = None
        /\ UNCHANGED <<q_order, q_raw, q_space, q_attempts, q_docs, q_q1, q_crashes>>
    BY DEF I!NothingToDrain, I!Return, I!Release
  <1>4. GentleStep(w)
    <2>1. /\ q_row' \in [Requests -> RowRecs] /\ RowsDrift /\ ClaimsFit'
          /\ \A v \in Callers, r \in Requests : I!Active(v, r)' => I!Active(v, r)
      BY <1>3, RowsAreRecovered
    <2> QED
      BY <1>3, <2>1 DEF GentleStep, IngressKnows, I!ITypeOK
  <1> QED
    BY <1>1, <1>2, <1>3, <1>4, GentleSteps, LeaseIsMine

\* An exception ends the call, and its token with it.
LEMMA RaiseKeeps ==
  ASSUME I!IngressAssumption, IngressKnows, NEW w \in Callers, I!Raise(w), q_row' = I!Disowned(w),
         UNCHANGED <<q_order, q_raw, q_space, q_attempts, q_docs, q_q1>>,
                 q_crashes' \in 0..MaxCallCrashes
  PROVE  IngressKnows'
  <1>1. I!Idle \in I!Jobs /\ q_job' = [q_job EXCEPT ![w] = I!Idle] /\ I!Idle.at = "idle"
    BY NextJobs DEF I!Raise, I!Idle
  <1>2. CallKnows(w)'
    BY <1>1, RestKnows
  <1>3. /\ q_row' \in [Requests -> RowRecs] /\ RowsDrift /\ ClaimsFit'
        /\ \A v \in Callers, r \in Requests : I!Active(v, r)' => I!Active(v, r)
    BY RowsAreDisowned
  <1>4. GentleStep(w)
    BY <1>3 DEF GentleStep, I!Raise, IngressKnows, I!ITypeOK
  <1>5. ASSUME NEW v \in Callers \ {w} PROVE Undisturbed(v)
    <2>1. RowTyped
      BY DEF IngressKnows, I!ITypeOK, RowTyped, RowRecs
    <2>2. \A r \in Requests : q_row'[r].state = q_row[r].state
      BY <2>1, DisownedRows
    <2> QED
      BY <1>5, <2>2 DEF Undisturbed, I!Raise
  <1> QED
    BY <1>1, <1>2, <1>4, <1>5, GentleSteps

\* An attempt that is over ends its call: a lost claim, a busy lease, a death.
LEMMA EndsKeep ==
  ASSUME I!IngressAssumption, IngressKnows, NEW w \in Callers, I!ClaimLost(w)
          \/ I!WriteBusy(w) \/ I!Crash(w)
  PROVE  IngressKnows'
  <1>1. I!Raise(w) /\ q_row' = I!Disowned(w)
          /\ UNCHANGED <<q_order, q_raw, q_space, q_attempts, q_docs, q_q1>>
    BY DEF I!ClaimLost, I!WriteBusy, I!Crash
  <1>2. q_crashes' \in 0..MaxCallCrashes
    BY DEF I!ClaimLost, I!WriteBusy, I!Crash, IngressKnows, I!ITypeOK, I!IngressAssumption
  <1> QED
    BY <1>1, <1>2, RaiseKeeps

\* A waiting task is claimed.
LEMMA CallClaimKeeps ==
  ASSUME I!IngressAssumption, IngressKnows, NEW w \in Callers, I!Claim(w)
  PROVE  IngressKnows'
  <1> DEFINE r == q_job[w].cur
             j == [q_job[w] EXCEPT !.at = "attempt"]
  <1>1. q_job[w] \in I!Jobs /\ j \in I!Jobs /\ q_job' = [q_job EXCEPT ![w] = j]
    BY NextJobs DEF I!Claim, I!JobSteps
  <1>2. j.at = "attempt" /\ j.cur = r
    BY <1>1 DEF I!Jobs
  <1>3. r \in Requests
    BY DEF I!Claim, IngressKnows, CallsKnow, CallKnows, I!At, OnTask
  <1>4. /\ q_lease = None /\ q_lease' = w
        /\ I!RowsRecovered[r].state \in {"accepted", "retry_required"}
        /\ ~ I!RowsRecovered[r].backoff
        /\ q_row' = [I!RowsRecovered EXCEPT ![r].state = "processing", ![r].by = w,
                ![r].live = TRUE]
        /\ UNCHANGED <<q_order, q_raw, q_space, q_attempts, q_docs, q_q1, q_crashes>>
    BY DEF I!Claim, I!Acquire
  <1> HIDE DEF j, r
  <1>5. RowTyped
    BY DEF IngressKnows, I!ITypeOK, RowTyped, RowRecs
  <1>6. I!RowsRecovered \in [Requests -> RowRecs]
    BY <1>5, RecoveredRows
  <1>7. /\ q_row' \in [Requests -> RowRecs]
        /\ q_row'[r] = [I!RowsRecovered[r] EXCEPT !.state = "processing", !.by = w, !.live = TRUE]
        /\ \A x \in Requests \ {r} : q_row'[x] = I!RowsRecovered[x]
    <2> DEFINE f == I!RowsRecovered
               x == [f[r] EXCEPT !.state = "processing", !.by = w, !.live = TRUE]
    <2>1. f[r] \in RowRecs
      BY <1>3, <1>6
    <2>2. x \in RowRecs
      BY <2>1 DEF RowRecs, I!RowStates
    <2>3. f \in [Requests -> RowRecs]
          /\ q_row' = [f EXCEPT ![r].state = "processing", ![r].by = w, ![r].live = TRUE]
      BY <1>4, <1>6
    <2> HIDE DEF f
    <2>4. q_row' = [f EXCEPT ![r] = x]
      BY <1>3, <2>1, <2>3 DEF RowRecs
    <2> HIDE DEF x
    <2>5. q_row' \in [Requests -> RowRecs] /\ q_row'[r] = x
            /\ \A y \in Requests \ {r} : q_row'[y] = f[y]
      BY <1>3, <2>2, <2>3, <2>4
    <2> QED
      BY <2>5 DEF f, x
  <1>8. /\ q_row'[r].state = "processing" /\ q_row'[r].by = w /\ ~ q_row'[r].backoff
        /\ q_row'[r].doc = q_row[r].doc
    BY <1>3, <1>4, <1>5, <1>6, <1>7, RecoveredRows DEF RowRecs
  <1>9. ASSUME NEW x \in Requests \ {r}
        PROVE  /\ q_row'[x].doc = q_row[x].doc
               /\ q_row[x].state # "processing" => q_row'[x] = q_row[x]
               /\ q_row[x].state = "processing" =>
                   q_row'[x].state \in {"processing", "retry_required"}
               /\ q_row'[x].state = "processing" => q_row'[x] = q_row[x]
    BY <1>5, <1>7, <1>9, RecoveredRows
  <1>10. RowsDrift
    <2>1. q_row[r].state \in Open
      <3>1. q_row[r].state # "processing" => I!RowsRecovered[r] = q_row[r]
        BY <1>3, <1>5, RecoveredRows
      <3> QED
        BY <1>4, <3>1 DEF Open
    <2> QED
      BY <1>8, <1>9, <2>1 DEF RowsDrift, Open
  <1>11. ClaimsFit'
    <2>1. ClaimsFit
      BY DEF IngressKnows
    <2> QED
      BY <1>8, <1>9, <2>1 DEF ClaimsFit
  <1>12. ASSUME NEW v \in Callers \ {w}, NEW x \in Requests, I!Active(v, x)' PROVE I!Active(v, x)
    BY <1>8, <1>9, <1>12 DEF I!Active
  <1>13. GentleStep(w)
    BY <1>4, <1>7, <1>10, <1>11, <1>12 DEF GentleStep, IngressKnows, I!ITypeOK
  <1>14. CallKnows(w)'
    <2>1. q_job'[w] = j
      BY <1>1, JobMoves
    <2> QED
      BY <1>2, <1>3, <1>4, <2>1 DEF CallKnows, I!At
  <1> QED
    BY <1>1, <1>2, <1>4, <1>13, <1>14, GentleSteps, LeaseIsMine

\* A prepared or submitted task is taken up where it stopped.
LEMMA RejoinKeeps ==
  ASSUME I!IngressAssumption, IngressKnows, NEW w \in Callers, I!Rejoin(w)
  PROVE  IngressKnows'
  <1>1. PICK s \in {"handover", "q1"} :
          /\ I!Goto(w, s)
          /\ s = "handover" => I!RowsRecovered[q_job[w].cur].state = "prepared"
          /\ s = "q1" => I!RowsRecovered[q_job[w].cur].state = "submitted"
    BY DEF I!Rejoin
  <1> DEFINE r == q_job[w].cur
             j == [q_job[w] EXCEPT !.at = s]
  <1>2. q_job[w] \in I!Jobs /\ j \in I!Jobs /\ q_job' = [q_job EXCEPT ![w] = j]
    <2>1. s \in I!JobSteps
      BY DEF I!JobSteps
    <2> QED
      BY <1>1, <2>1, NextJobs
  <1>3. j.at = s /\ j.cur = r
    BY <1>2 DEF I!Jobs
  <1>4. r \in Requests
    BY DEF I!Rejoin, IngressKnows, CallsKnow, CallKnows, I!At, OnTask
  <1>5. /\ q_lease = None /\ q_lease' = w /\ q_row' = I!RowsRecovered
        /\ UNCHANGED <<q_order, q_raw, q_space, q_attempts, q_docs, q_q1, q_crashes>>
    BY DEF I!Rejoin, I!Acquire
  <1>6. s = "handover" => q_row'[r].state = "prepared"
    BY <1>1, <1>5
  <1>7. s = "q1" => q_row'[r].state = "submitted"
    BY <1>1, <1>5
  <1> HIDE DEF j, r
  <1>8. GentleStep(w)
    <2>1. /\ q_row' \in [Requests -> RowRecs] /\ RowsDrift /\ ClaimsFit'
          /\ \A v \in Callers, x \in Requests : I!Active(v, x)' => I!Active(v, x)
      BY <1>5, RowsAreRecovered
    <2> QED
      BY <1>5, <2>1 DEF GentleStep, IngressKnows, I!ITypeOK
  <1>9. CallKnows(w)'
    <2>1. q_job'[w] = j
      BY <1>2, JobMoves
    <2> QED
      BY <1>3, <1>4, <1>5, <1>6, <1>7, <2>1 DEF CallKnows, I!At
  <1> QED
    BY <1>2, <1>3, <1>5, <1>8, <1>9, GentleSteps, LeaseIsMine

\* The document is written to its spool.
LEMMA WriteDocumentKeeps ==
  ASSUME I!IngressAssumption, IngressKnows, NEW w \in Callers, I!WriteDocument(w)
  PROVE  IngressKnows'
  <1> DEFINE r == q_job[w].cur
             j == [q_job[w] EXCEPT !.at = "mark"]
  <1>1. q_job[w] \in I!Jobs /\ j \in I!Jobs /\ q_job' = [q_job EXCEPT ![w] = j]
    BY NextJobs DEF I!WriteDocument, I!JobSteps
  <1>2. j.at = "mark" /\ j.cur = r
    BY <1>1 DEF I!Jobs
  <1>3. r \in Requests
    BY DEF I!WriteDocument, IngressKnows, CallsKnow, CallKnows, I!At, OnTask
  <1>4. /\ q_lease = None /\ q_lease' = w /\ q_docs' = q_docs \cup {<<r, w>>}
        /\ UNCHANGED <<q_row, q_order, q_raw, q_space, q_attempts, q_q1, q_crashes>>
    BY DEF I!WriteDocument, I!Acquire
  <1> HIDE DEF j, r
  <1>5. GentleStep(w)
    <2>1. /\ q_row' \in [Requests -> RowRecs] /\ RowsDrift /\ ClaimsFit'
          /\ \A v \in Callers, x \in Requests : I!Active(v, x)' => I!Active(v, x)
      BY <1>4, RowsStay
    <2> QED
      BY <1>3, <1>4, <2>1 DEF GentleStep, IngressKnows, I!ITypeOK
  <1>6. CallKnows(w)'
    <2>1. q_job'[w] = j
      BY <1>1, JobMoves
    <2> QED
      BY <1>2, <1>3, <1>4, <2>1 DEF CallKnows, I!At
  <1> QED
    BY <1>1, <1>2, <1>4, <1>5, <1>6, GentleSteps, LeaseIsMine

\* An attempt begins in a directory of its own.
LEMMA PrepareAttemptKeeps ==
  ASSUME I!IngressAssumption, IngressKnows, NEW w \in Callers, I!PrepareAttempt(w)
  PROVE  IngressKnows'
  <1> DEFINE r == q_job[w].cur
             j == [q_job[w] EXCEPT !.at = "parse"]
  <1>1. q_job[w] \in I!Jobs /\ j \in I!Jobs
    BY NextJobs DEF I!JobSteps
  <1>2. j.at = "parse" /\ j.cur = r
    BY <1>1 DEF I!Jobs
  <1>3. r \in Requests /\ q_lease = w
    BY DEF I!PrepareAttempt, IngressKnows, CallsKnow, CallKnows, I!At, OnTask, Holding
  <1>4. CASE ~ I!Active(w, r)
    BY <1>4, RaiseKeeps DEF I!PrepareAttempt, IngressKnows, I!ITypeOK
  <1>5. CASE I!Active(w, r)
    <2>1. /\ q_attempts' = {a \in q_attempts : a[1] # r} \cup {<<r, w>>}
          /\ q_space' = q_space \cup {r} /\ q_job' = [q_job EXCEPT ![w] = j] /\ q_lease' = None
          /\ UNCHANGED <<q_row, q_order, q_raw, q_docs, q_q1, q_crashes>>
      BY <1>1, <1>5, NextJobs DEF I!PrepareAttempt, I!Release, I!JobSteps
    <2> HIDE DEF j, r
    <2>2. q_job'[w] = j /\ \A v \in Callers \ {w} : q_job'[v] = q_job[v]
      BY <1>1, <2>1, JobMoves
    <2>3. CallsKnow' /\ q_job' \in [Callers -> I!Jobs]
      <3>1. CallKnows(w)'
        BY <1>2, <1>3, <2>2 DEF CallKnows, I!At, Holding
      <3> QED
        BY <1>1, <1>3, <2>1, <3>1, CallsKeep, LeaseIsMine
    <2>4. I!ITypeOK'
      BY <1>3, <2>1, <2>3 DEF IngressKnows, I!ITypeOK
    <2>5. I!NothingLost' /\ I!OneDocument'
      BY <2>1, RowsStay, StoreKeeps
    <2>6. ClaimsFit'
      BY <2>1, RowsStay
    <2>7. I!AttemptIsAlone'
      <3>1. Alone(w)'
        <4>1. {a \in q_attempts' : a[1] = r} = {<<r, w>>}
          BY <2>1
        <4> QED
          BY <1>2, <2>2, <4>1 DEF Alone
      <3>2. ASSUME NEW v \in Callers \ {w} PROVE Alone(v)'
        <4>1. \A x \in Requests : I!Active(v, x)' => I!Active(v, x)
          BY <2>1 DEF I!Active
        <4>2. ASSUME NEW x \in Requests, I!Active(v, x)'
              PROVE  {a \in q_attempts' : a[1] = x} = {a \in q_attempts : a[1] = x}
          <5>1. x # r
            BY <1>5, <3>2, <4>2, <2>1 DEF I!Active, r
          <5> QED
            BY <2>1, <5>1
        <4> QED
          BY <2>2, <3>2, <4>1, <4>2, AloneKeeps
      <3> QED
        BY <3>1, <3>2 DEF Alone, I!AttemptIsAlone
    <2> QED
      BY <2>3, <2>4, <2>5, <2>6, <2>7 DEF IngressKnows
  <1> QED
    BY <1>4, <1>5

-----------------------------------------------------------------------------
(* Steps that change one row *)

\* The row of one request is set to a record.
LEMMA OneRowMoves ==
  ASSUME RowTyped, NEW r \in Requests, NEW x \in RowRecs, q_row' = [q_row EXCEPT ![r] = x]
  PROVE  q_row' \in [Requests -> RowRecs] /\ q_row'[r] = x
         /\ \A y \in Requests \ {r} : q_row'[y] = q_row[y]
  BY DEF RowTyped

\* An attempt that failed is tried again later.
LEMMA MarkRetryKeeps ==
  ASSUME I!IngressAssumption, IngressKnows, NEW w \in Callers, I!MarkRetry(w)
  PROVE  IngressKnows'
  <1> DEFINE r == q_job[w].cur
             x == [I!Unclaimed(r) EXCEPT !.state = "retry_required", !.backoff = TRUE]
  <1>1. CASE I!ClaimLost(w)
    BY <1>1, EndsKeep
  <1>2. CASE I!Active(w, r) /\ I!Return(w) /\ q_row' = [q_row EXCEPT ![r] = x]
             /\ UNCHANGED <<q_order, q_raw, q_space, q_attempts, q_docs, q_q1, q_crashes>>
    <2>1. PICK j \in I!Jobs : j.at \in {"idle", "visit"} /\ q_job' = [q_job EXCEPT ![w] = j]
                              /\ q_lease' = None
      BY <1>2, ReturnJobs
    <2>2. r \in Requests /\ q_lease = None
      BY DEF I!MarkRetry, IngressKnows, CallsKnow, CallKnows, I!At, OnTask
    <2>3. RowTyped
      BY DEF IngressKnows, I!ITypeOK, RowTyped, RowRecs
    <2>4. q_row[r] \in RowRecs
      BY <2>2, <2>3 DEF RowTyped
    <2>5. x \in RowRecs /\ x.doc = q_row[r].doc /\ x.state = "retry_required"
      BY <2>4 DEF RowRecs, I!RowStates, I!Unclaimed
    <2>6. q_row[r].state = "processing" /\ q_row[r].by = w
      BY <1>2 DEF I!Active
    <2> HIDE DEF r, x
    <2>7. q_row' \in [Requests -> RowRecs] /\ q_row'[r] = x
          /\ \A y \in Requests \ {r} : q_row'[y] = q_row[y]
      BY <1>2, <2>2, <2>3, <2>5, OneRowMoves
    <2>8. RowsDrift
      BY <2>5, <2>6, <2>7 DEF RowsDrift, Open
    <2>9. ClaimsFit'
      BY <2>5, <2>7 DEF IngressKnows, ClaimsFit
    <2>10. \A v \in Callers, y \in Requests : I!Active(v, y)' => I!Active(v, y)
      BY <2>5, <2>7 DEF I!Active
    <2>11. GentleStep(w)
      BY <1>2, <2>1, <2>7, <2>8, <2>9, <2>10 DEF GentleStep, IngressKnows, I!ITypeOK
    <2>12. CallKnows(w)'
      BY <2>1, RestKnows
    <2> QED
      BY <2>1, <2>2, <2>11, <2>12, GentleSteps, LeaseIsMine
  <1> QED
    BY <1>1, <1>2 DEF I!MarkRetry

\* What the row of r may become: nobody's claim, and nothing lost.
Settles(r, x) ==
  /\ x.state # "processing" /\ x.by = None /\ ~ x.live /\ ~ x.backoff
  /\ x.state \in Open => r \in q_raw
  /\ x.state = "prepared" => <<r, x.doc>> \in q_docs \/ q_q1[r].state = "completed"
  /\ x.state = "submitted" => q_q1[r].state # "none"
  /\ x.state = "rejected" => q_q1[r].state = "none"
  /\ q_q1[r].state # "none" => x.state \in {"prepared", "submitted"} /\ q_q1[r].doc = x.doc

\* A step of the holder of the lease that settles one row keeps the invariant.
LEMMA SettleSteps ==
  ASSUME I!IngressAssumption, IngressKnows, NEW w \in Callers, NEW j \in I!Jobs,
         q_job' = [q_job EXCEPT ![w] = j], j.at # "parse", q_lease \in {w, None},
         q_lease' \in Callers \cup {None}, CallKnows(w)',
         NEW r \in Requests, NEW x \in RowRecs, q_row' = [q_row EXCEPT ![r] = x], Settles(r, x),
         UNCHANGED <<q_order, q_raw, q_space, q_attempts, q_docs, q_q1, q_crashes>>
  PROVE  IngressKnows'
  <1>1. RowTyped
    BY DEF IngressKnows, I!ITypeOK, RowTyped, RowRecs
  <1>2. q_row' \in [Requests -> RowRecs] /\ q_row'[r] = x
        /\ \A y \in Requests \ {r} : q_row'[y] = q_row[y]
    BY <1>1, OneRowMoves
  <1>3. CallsKnow' /\ q_job' \in [Callers -> I!Jobs]
    BY CallsKeep, LeaseIsMine
  <1>4. I!ITypeOK'
    BY <1>2, <1>3 DEF IngressKnows, I!ITypeOK, RowRecs
  <1>5. I!NothingLost'
    <2>1. I!NothingLost
      BY DEF IngressKnows
    <2> QED
      BY <1>2, <2>1 DEF I!NothingLost, Settles, Open
  <1>6. I!OneDocument'
    <2>1. I!OneDocument
      BY DEF IngressKnows
    <2> QED
      BY <1>2, <2>1 DEF I!OneDocument, Settles
  <1>7. I!AttemptIsAlone'
    <2>1. \A v \in Callers \ {w}, y \in Requests : I!Active(v, y)' => I!Active(v, y)
      BY <1>2 DEF I!Active, Settles
    <2> QED
      BY <2>1, AttemptsKeep
  <1>8. ClaimsFit'
    <2>1. ClaimsFit
      BY DEF IngressKnows
    <2> QED
      BY <1>2, <2>1 DEF ClaimsFit, Settles
  <1> QED
    BY <1>3, <1>4, <1>5, <1>6, <1>7, <1>8 DEF IngressKnows

\* A claim that is alive is on a row that Q1' knows nothing of.
LEMMA ClaimedRows ==
  ASSUME IngressKnows, NEW w \in Callers, NEW r \in Requests, I!Active(w, r)
  PROVE  /\ q_row[r] \in RowRecs /\ q_row[r].state = "processing" /\ ~ q_row[r].backoff
         /\ q_q1[r].state = "none"
  <1>1. q_row[r] \in RowRecs
    BY DEF IngressKnows, I!ITypeOK, RowRecs
  <1> QED
    BY <1>1 DEF IngressKnows, ClaimsFit, I!OneDocument, I!Active

\* The document is prepared.
LEMMA MarkPreparedKeeps ==
  ASSUME I!IngressAssumption, IngressKnows, NEW w \in Callers, I!MarkPrepared(w)
  PROVE  IngressKnows'
  <1> DEFINE r == q_job[w].cur
             x == [I!Unclaimed(r) EXCEPT !.state = "prepared", !.doc = w]
             j == [q_job[w] EXCEPT !.at = "handover"]
  <1>1. CASE I!ClaimLost(w)
    BY <1>1, EndsKeep
  <1>2. CASE ~ I!ClaimLost(w)
    <2>1. /\ I!Active(w, r) /\ q_row' = [q_row EXCEPT ![r] = x] /\ I!Goto(w, "handover")
          /\ UNCHANGED <<q_order, q_raw, q_space, q_attempts, q_docs, q_q1, q_lease, q_crashes>>
      BY <1>2 DEF I!MarkPrepared
    <2>2. q_job[w] \in I!Jobs /\ j \in I!Jobs /\ q_job' = [q_job EXCEPT ![w] = j]
      BY <2>1, NextJobs DEF I!JobSteps
    <2>3. j.at = "handover" /\ j.cur = r
      BY <2>2 DEF I!Jobs
    <2>4. r \in Requests /\ q_lease = w /\ <<r, w>> \in q_docs
      BY DEF I!MarkPrepared, IngressKnows, CallsKnow, CallKnows, I!At, OnTask, Holding
    <2>5. q_row[r] \in RowRecs /\ ~ q_row[r].backoff /\ q_q1[r].state = "none"
      BY <2>1, <2>4, ClaimedRows
    <2>6. x \in RowRecs /\ x.state = "prepared" /\ x.doc = w /\ x.by = None /\ ~ x.live
          /\ ~ x.backoff
      BY <2>5 DEF RowRecs, I!RowStates, I!Unclaimed
    <2> HIDE DEF r, x, j
    <2>7. Settles(r, x)
      BY <2>4, <2>5, <2>6 DEF Settles, Open
    <2>8. CallKnows(w)'
      <3>1. q_job'[w] = j
        BY <2>2, JobMoves
      <3>2. q_row'[r] = x
        BY <2>1, <2>4 DEF IngressKnows, I!ITypeOK
      <3> QED
        BY <2>1, <2>3, <2>4, <2>6, <3>1, <3>2 DEF CallKnows, I!At
    <2>9. q_lease' \in Callers \cup {None}
      BY <2>1, <2>4
    <2> QED
      BY <2>1, <2>2, <2>3, <2>4, <2>6, <2>7, <2>8, <2>9, SettleSteps
  <1> QED
    BY <1>1, <1>2

\* The parser denied the request for good.
LEMMA MarkRejectedKeeps ==
  ASSUME I!IngressAssumption, IngressKnows, NEW w \in Callers, I!MarkRejected(w)
  PROVE  IngressKnows'
  <1> DEFINE r == q_job[w].cur
             x == [I!Unclaimed(r) EXCEPT !.state = "rejected"]
             j == [q_job[w] EXCEPT !.at = "discard"]
  <1>1. CASE I!ClaimLost(w)
    BY <1>1, EndsKeep
  <1>2. CASE ~ I!ClaimLost(w)
    <2>1. /\ q_lease = None /\ q_lease' = w
          /\ I!Active(w, r) /\ q_row' = [q_row EXCEPT ![r] = x] /\ I!Goto(w, "discard")
          /\ UNCHANGED <<q_order, q_raw, q_space, q_attempts, q_docs, q_q1, q_crashes>>
      BY <1>2 DEF I!MarkRejected, I!Acquire
    <2>2. q_job[w] \in I!Jobs /\ j \in I!Jobs /\ q_job' = [q_job EXCEPT ![w] = j]
      BY <2>1, NextJobs DEF I!JobSteps
    <2>3. j.at = "discard" /\ j.cur = r
      BY <2>2 DEF I!Jobs
    <2>4. r \in Requests
      BY DEF I!MarkRejected, IngressKnows, CallsKnow, CallKnows, I!At, OnTask
    <2>5. q_row[r] \in RowRecs /\ ~ q_row[r].backoff /\ q_q1[r].state = "none"
      BY <2>1, <2>4, ClaimedRows
    <2>6. x \in RowRecs /\ x.state = "rejected" /\ x.by = None /\ ~ x.live /\ ~ x.backoff
      BY <2>5 DEF RowRecs, I!RowStates, I!Unclaimed
    <2> HIDE DEF r, x, j
    <2>7. Settles(r, x)
      BY <2>4, <2>5, <2>6 DEF Settles, Open
    <2>8. CallKnows(w)'
      <3>1. q_job'[w] = j
        BY <2>2, JobMoves
      <3>2. q_row'[r] = x
        BY <2>1, <2>4 DEF IngressKnows, I!ITypeOK
      <3> QED
        BY <2>1, <2>3, <2>4, <2>6, <3>1, <3>2 DEF CallKnows, I!At
    <2> QED
      BY <2>1, <2>2, <2>3, <2>4, <2>6, <2>7, <2>8, SettleSteps
  <1> QED
    BY <1>1, <1>2

\* The row of a handed over document says so.
LEMMA MarkSubmittedKeeps ==
  ASSUME I!IngressAssumption, IngressKnows, NEW w \in Callers, I!MarkSubmitted(w)
  PROVE  IngressKnows'
  <1> DEFINE r == q_job[w].cur
             x == [q_row[r] EXCEPT !.state = "submitted"]
             j == [q_job[w] EXCEPT !.at = "discard"]
  <1>1. q_job[w] \in I!Jobs /\ j \in I!Jobs /\ q_job' = [q_job EXCEPT ![w] = j]
    BY NextJobs DEF I!JobSteps, I!MarkSubmitted
  <1>2. j.at = "discard" /\ j.cur = r
    BY <1>1 DEF I!Jobs
  <1>3. /\ r \in Requests /\ q_lease = w /\ q_row[r].state = "prepared"
        /\ q_q1[r].state # "none"
    BY DEF I!MarkSubmitted, IngressKnows, CallsKnow, CallKnows, I!At, OnTask, Holding
  <1>4. q_row' = [q_row EXCEPT ![r] = x]
        /\ UNCHANGED <<q_order, q_raw, q_space, q_attempts, q_docs, q_q1, q_lease, q_crashes>>
    BY DEF I!MarkSubmitted
  <1>5. q_row[r] \in RowRecs
    BY <1>3 DEF IngressKnows, I!ITypeOK, RowRecs
  <1>6. x \in RowRecs /\ x.state = "submitted" /\ x.doc = q_row[r].doc /\ x.by = q_row[r].by
        /\ x.live = q_row[r].live /\ x.backoff = q_row[r].backoff
    BY <1>5 DEF RowRecs, I!RowStates
  <1>7. /\ q_row[r].by = None /\ ~ q_row[r].live /\ ~ q_row[r].backoff
        /\ q_q1[r].doc = q_row[r].doc
    BY <1>3 DEF IngressKnows, ClaimsFit, I!OneDocument
  <1> HIDE DEF r, x, j
  <1>8. Settles(r, x)
    BY <1>3, <1>6, <1>7 DEF Settles, Open
  <1>9. CallKnows(w)'
    <2>1. q_job'[w] = j
      BY <1>1, JobMoves
    <2>2. q_row'[r] = x
      BY <1>3, <1>4 DEF IngressKnows, I!ITypeOK
    <2> QED
      BY <1>2, <1>3, <1>4, <1>6, <2>1, <2>2 DEF CallKnows, I!At
  <1> QED
    BY <1>1, <1>2, <1>3, <1>4, <1>6, <1>8, <1>9, SettleSteps

-----------------------------------------------------------------------------
(* Steps that hand a request over and forget it *)

\* The document of the row becomes the content task of the request.
LEMMA HandOverKeeps ==
  ASSUME I!IngressAssumption, IngressKnows, NEW w \in Callers, I!HandOver(w)
  PROVE  IngressKnows'
  <1> DEFINE r == q_job[w].cur
             text == q_row[r].doc
             j == [q_job[w] EXCEPT !.at = "submitted"]
  <1>1. r \in Requests /\ q_lease = w /\ q_row[r].state = "prepared"
    BY DEF I!HandOver, IngressKnows, CallsKnow, CallKnows, I!At, OnTask, Holding
  <1>2. UNCHANGED <<I!store, q_crashes>>
    BY DEF I!HandOver
  <1>3. /\ q_row' \in [Requests -> RowRecs] /\ RowsDrift /\ ClaimsFit'
        /\ \A v \in Callers, x \in Requests : I!Active(v, x)' => I!Active(v, x)
    BY <1>2, RowsStay DEF I!store
  <1>4. CASE I!Raise(w) /\ UNCHANGED q_q1
    <2>1. I!Idle \in I!Jobs /\ q_job' = [q_job EXCEPT ![w] = I!Idle] /\ I!Idle.at = "idle"
      BY <1>4, NextJobs DEF I!Raise, I!Idle
    <2>2. CallKnows(w)'
      BY <2>1, RestKnows
    <2>3. GentleStep(w)
      BY <1>2, <1>3, <1>4 DEF GentleStep, I!Raise, IngressKnows, I!ITypeOK, I!store
    <2> QED
      BY <1>1, <2>1, <2>2, <2>3, GentleSteps, LeaseIsMine
  <1>5. CASE ~ (I!Raise(w) /\ UNCHANGED q_q1)
    <2>1. /\ q_q1' = IF q_q1[r].state = "none"
                     THEN [q_q1 EXCEPT ![r] = [state |-> "queued", doc |-> text]] ELSE q_q1
          /\ I!Goto(w, "submitted") /\ q_lease' = q_lease
      BY <1>5 DEF I!HandOver
    <2>2. q_job[w] \in I!Jobs /\ j \in I!Jobs /\ q_job' = [q_job EXCEPT ![w] = j]
      BY <2>1, NextJobs DEF I!JobSteps
    <2>3. j.at = "submitted" /\ j.cur = r
      BY <2>2 DEF I!Jobs
    <2>4. Q1Typed /\ text \in Callers \cup {None}
      BY <1>1 DEF IngressKnows, I!ITypeOK, Q1Typed
    <2> HIDE DEF r, text, j
    <2>5. /\ q_q1' \in [Requests -> [state : I!Q1States, doc : Callers \cup {None}]]
          /\ q_q1'[r].state # "none"
          /\ \A x \in Requests \ {r} : q_q1'[x] = q_q1[x]
          /\ q_q1[r].state # "none" => q_q1' = q_q1
          /\ q_q1[r].state = "none" => q_q1'[r].doc = text
      BY <1>1, <2>1, <2>4 DEF Q1Typed, I!Q1States
    <2>6. CallsKnow' /\ q_job' \in [Callers -> I!Jobs]
      <3>1. q_job'[w] = j
        BY <2>2, JobMoves
      <3>2. CallKnows(w)'
        BY <1>1, <1>2, <2>1, <2>3, <2>5, <3>1 DEF CallKnows, I!At, I!store
      <3> QED
        BY <1>1, <2>2, <3>2, CallsKeep, LeaseIsMine
    <2>7. I!ITypeOK'
      BY <1>1, <1>2, <2>1, <2>5, <2>6 DEF IngressKnows, I!ITypeOK, I!store
    <2>8. I!NothingLost'
      <3>1. I!NothingLost
        BY DEF IngressKnows
      <3> QED
        BY <1>1, <1>2, <2>5, <3>1 DEF I!NothingLost, I!store
    <2>9. I!OneDocument'
      <3>1. I!OneDocument
        BY DEF IngressKnows
      <3> QED
        BY <1>1, <1>2, <2>5, <3>1 DEF I!OneDocument, I!store, text
    <2>10. I!AttemptIsAlone'
      BY <1>2, <1>3, <2>2, <2>3, AttemptsKeep DEF I!store
    <2> QED
      BY <1>3, <2>6, <2>7, <2>8, <2>9, <2>10 DEF IngressKnows
  <1> QED
    BY <1>4, <1>5

\* The raw source goes, once nothing needs it.
LEMMA DiscardRawKeeps ==
  ASSUME I!IngressAssumption, IngressKnows, NEW w \in Callers, I!DiscardRaw(w)
  PROVE  IngressKnows'
  <1> DEFINE r == q_job[w].cur
             s == IF q_row[r].state = "rejected" THEN "release" ELSE "q1"
             j == [q_job[w] EXCEPT !.at = s]
  <1>1. q_job[w] \in I!Jobs /\ j \in I!Jobs /\ q_job' = [q_job EXCEPT ![w] = j]
    BY NextJobs DEF I!JobSteps, I!DiscardRaw
  <1>2. j.at = s /\ j.cur = r
    BY <1>1 DEF I!Jobs
  <1>3. r \in Requests /\ q_lease = w /\ q_row[r].state \in {"submitted", "rejected"}
    BY DEF I!DiscardRaw, IngressKnows, CallsKnow, CallKnows, I!At, OnTask, Holding
  <1>4. q_raw' = q_raw \ {r} /\ UNCHANGED <<q_row, q_order, q_space, q_attempts, q_docs,
          q_q1, q_lease, q_crashes>>
    BY DEF I!DiscardRaw
  <1> HIDE DEF j, r
  <1>5. CallsKnow' /\ q_job' \in [Callers -> I!Jobs]
    <2>1. q_job'[w] = j
      BY <1>1, JobMoves
    <2>2. CallKnows(w)'
      BY <1>2, <1>3, <1>4, <2>1 DEF CallKnows, I!At
    <2> QED
      BY <1>1, <1>3, <2>2, CallsKeep, LeaseIsMine
  <1>6. I!ITypeOK'
    BY <1>4, <1>5 DEF IngressKnows, I!ITypeOK
  <1>7. I!NothingLost' /\ I!OneDocument'
    BY <1>3, <1>4 DEF IngressKnows, I!NothingLost, I!OneDocument
  <1>8. ClaimsFit'
    BY <1>4, RowsStay
  <1>9. I!AttemptIsAlone'
    BY <1>1, <1>2, <1>4, AttemptsKeep DEF I!Active
  <1> QED
    BY <1>5, <1>6, <1>7, <1>8, <1>9 DEF IngressKnows

\* Attempts of requests that nobody works on go.
LEMMA AttemptsShrink ==
  ASSUME IngressKnows, NEW S, \A r \in S : q_row[r].state # "processing",
         q_row' = q_row, q_attempts' = {a \in q_attempts : a[1] \notin S},
         NEW w \in Callers, NEW j \in I!Jobs, q_job' = [q_job EXCEPT ![w] = j], j.at # "parse"
  PROVE  I!AttemptIsAlone' /\ q_attempts' \subseteq Requests \X Callers
  <1>1. q_job'[w] = j /\ \A v \in Callers \ {w} : q_job'[v] = q_job[v]
    BY JobMoves
  <1>2. Alone(w)'
    BY <1>1 DEF Alone, I!At
  <1>3. ASSUME NEW v \in Callers \ {w} PROVE Alone(v)'
    <2>1. \A r \in Requests : I!Active(v, r)' => I!Active(v, r)
      BY DEF I!Active
    <2>2. ASSUME NEW r \in Requests, I!Active(v, r)'
          PROVE  {a \in q_attempts' : a[1] = r} = {a \in q_attempts : a[1] = r}
      <3>1. r \notin S
        BY <2>2 DEF I!Active
      <3> QED
        BY <3>1
    <2> QED
      BY <1>1, <1>3, <2>1, <2>2, AloneKeeps
  <1>4. I!AttemptIsAlone'
    BY <1>2, <1>3 DEF Alone, I!AttemptIsAlone
  <1>5. q_attempts' \subseteq Requests \X Callers
    BY DEF IngressKnows, I!ITypeOK
  <1> QED
    BY <1>4, <1>5

\* The workspace of a request goes.
LEMMA DiscardTaskKeeps ==
  ASSUME I!IngressAssumption, IngressKnows, NEW w \in Callers, I!DiscardTask(w)
  PROVE  IngressKnows'
  <1> DEFINE r == q_job[w].cur
  <1>1. PICK j \in I!Jobs : j.at \in {"idle", "visit"} /\ q_job' = [q_job EXCEPT ![w] = j]
                            /\ q_lease' = None
    BY ReturnJobs DEF I!DiscardTask
  <1>2. CallKnows(w)'
    BY <1>1, RestKnows
  <1>3. r \in Requests /\ q_lease = w /\ q_row[r].state \in {"submitted", "rejected"}
    BY DEF I!DiscardTask, IngressKnows, CallsKnow, CallKnows, I!At, OnTask, Holding
  <1>4. /\ q_space' = q_space \ {r} /\ q_attempts' = {a \in q_attempts : a[1] # r}
        /\ UNCHANGED <<q_row, q_order, q_raw, q_docs, q_q1, q_crashes>>
    BY DEF I!DiscardTask
  <1> HIDE DEF r
  <1>5. CallsKnow' /\ q_job' \in [Callers -> I!Jobs]
    BY <1>1, <1>2, <1>3, CallsKeep, LeaseIsMine
  <1>6. I!AttemptIsAlone' /\ q_attempts' \subseteq Requests \X Callers
    <2>1. q_attempts' = {a \in q_attempts : a[1] \notin {r}}
            /\ \A x \in {r} : q_row[x].state # "processing"
      BY <1>3, <1>4
    <2> QED
      BY <1>1, <1>4, <2>1, AttemptsShrink
  <1>7. I!ITypeOK'
    BY <1>1, <1>4, <1>5, <1>6 DEF IngressKnows, I!ITypeOK
  <1>8. RowsDrift /\ ClaimsFit'
    BY <1>4, RowsStay
  <1>9. I!NothingLost' /\ I!OneDocument'
    BY <1>4, <1>8, StoreKeeps
  <1> QED
    BY <1>5, <1>6, <1>7, <1>8, <1>9 DEF IngressKnows

\* One drain of Q1' keeps what Q0 relies on.
LEMMA Q1Keeps ==
  ASSUME IngressKnows, I!Q1Advances, q_row' = q_row, q_raw' = q_raw
  PROVE  /\ q_q1' \in [Requests -> [state : I!Q1States, doc : Callers \cup {None}]]
         /\ q_docs' \subseteq Requests \X Callers
         /\ I!NothingLost' /\ I!OneDocument'
         /\ \A r \in Requests : q_q1[r].state # "none" => q_q1'[r].state # "none"
  <1>1. PICK r \in Requests, state \in I!Q1States :
          /\ state \in I!Q1Next(q_q1[r].state)
          /\ q_q1' = [q_q1 EXCEPT ![r].state = state]
          /\ q_docs' = IF state = "completed" THEN q_docs \ {<<r, q_q1[r].doc>>} ELSE q_docs
    BY DEF I!Q1Advances
  <1>2. Q1Typed /\ q_docs \subseteq Requests \X Callers
    BY DEF IngressKnows, I!ITypeOK, Q1Typed
  <1>3. /\ q_q1' \in [Requests -> [state : I!Q1States, doc : Callers \cup {None}]]
        /\ q_q1'[r].state = state /\ q_q1'[r].doc = q_q1[r].doc
        /\ \A x \in Requests \ {r} : q_q1'[x] = q_q1[x]
    BY <1>1, <1>2 DEF Q1Typed
  <1>4. /\ state = "none" <=> q_q1[r].state = "none"
        /\ q_q1[r].state = "completed" => state = "completed"
    BY <1>1, <1>2 DEF I!Q1Next, Q1Typed, I!Q1States
  <1>5. q_docs' \subseteq q_docs
        /\ \A x \in Requests : \A d : <<x, d>> \in q_docs /\ <<x, d>> \notin q_docs' =>
             x = r /\ state = "completed" /\ d = q_q1[r].doc
    BY <1>1
  <1>6. I!NothingLost /\ I!OneDocument
    BY DEF IngressKnows
  <1>7. I!OneDocument'
    BY <1>3, <1>4, <1>6 DEF I!OneDocument
  <1>8. I!NothingLost'
    BY <1>3, <1>4, <1>5, <1>6 DEF I!NothingLost
  <1> QED
    BY <1>2, <1>3, <1>4, <1>5, <1>7, <1>8

\* A call drains Q1' for its request.
LEMMA DrainQ1Keeps ==
  ASSUME I!IngressAssumption, IngressKnows, NEW w \in Callers, I!DrainQ1(w)
  PROVE  IngressKnows'
  <1> DEFINE r == q_job[w].cur
  <1>1. r \in Requests /\ q_lease = w /\ q_row[r].state = "submitted"
    BY DEF I!DrainQ1, IngressKnows, CallsKnow, CallKnows, I!At, OnTask, Holding
  <1>2. UNCHANGED <<q_row, q_order, q_raw, q_space, q_attempts, q_crashes>>
    BY DEF I!DrainQ1
  <1>3. /\ q_row' \in [Requests -> RowRecs] /\ RowsDrift /\ ClaimsFit'
        /\ \A v \in Callers, x \in Requests : I!Active(v, x)' => I!Active(v, x)
    BY <1>2, RowsStay
  <1>4. CASE q_q1[r].state = "none"
    BY <1>1, <1>4 DEF IngressKnows, I!NothingLost
  <1>5. CASE q_q1[r].state # "none"
    <2>1. I!Q1Advances
      BY <1>5 DEF I!DrainQ1
    <2>2. PICK j \in I!Jobs : /\ q_job' = [q_job EXCEPT ![w] = j] /\ j.at # "parse"
                              /\ CallKnows(w)' /\ q_lease' \in Callers \cup {None}
      <3>1. CASE I!Goto(w, "release") /\ UNCHANGED q_lease
        <4> DEFINE j == [q_job[w] EXCEPT !.at = "release"]
        <4>1. q_job[w] \in I!Jobs /\ j \in I!Jobs /\ q_job' = [q_job EXCEPT ![w] = j]
          BY <3>1, NextJobs DEF I!JobSteps
        <4>2. j.at = "release" /\ j.cur = r
          BY <4>1 DEF I!Jobs
        <4> HIDE DEF j
        <4>3. q_job'[w] = j
          BY <4>1, JobMoves
        <4>4. CallKnows(w)'
          BY <1>1, <1>2, <3>1, <4>2, <4>3 DEF CallKnows, I!At
        <4> QED
          BY <1>1, <3>1, <4>1, <4>2, <4>4
      <3>2. CASE I!Return(w)
        <4>1. PICK j \in I!Jobs : j.at \in {"idle", "visit"} /\ q_job' = [q_job EXCEPT ![w] = j]
                                  /\ q_lease' = None
          BY <3>2, ReturnJobs
        <4>2. CallKnows(w)'
          BY <4>1, RestKnows
        <4> QED
          BY <4>1, <4>2
      <3> QED
        BY <1>5, <3>1, <3>2 DEF I!DrainQ1
    <2>3. CallsKnow' /\ q_job' \in [Callers -> I!Jobs]
      BY <1>1, <2>2, CallsKeep, LeaseIsMine
    <2>4. /\ q_q1' \in [Requests -> [state : I!Q1States, doc : Callers \cup {None}]]
          /\ q_docs' \subseteq Requests \X Callers /\ I!NothingLost' /\ I!OneDocument'
      BY <1>2, <2>1, Q1Keeps
    <2>5. I!ITypeOK'
      BY <1>2, <2>2, <2>3, <2>4 DEF IngressKnows, I!ITypeOK
    <2>6. I!AttemptIsAlone'
      BY <1>2, <1>3, <2>2, AttemptsKeep
    <2> QED
      BY <1>3, <2>3, <2>4, <2>5, <2>6 DEF IngressKnows
  <1> QED
    BY <1>4, <1>5

\* The workspaces of the oldest committed tasks go.
LEMMA SweepKeeps ==
  ASSUME I!IngressAssumption, IngressKnows, NEW w \in Callers, I!SweepCommitted(w)
  PROVE  IngressKnows'
  <1>1. PICK S \in SUBSET Requests :
          /\ \A r \in S : q_row[r].state = "submitted"
          /\ q_attempts' = {a \in q_attempts : a[1] \notin S} /\ q_space' = q_space \ S
    <2> DEFINE submitted == {r \in Requests : q_row[r].state = "submitted"}
               oldest == {r \in submitted :
                            I!Cardinality({s \in submitted : I!Before(s, r)}) < MaxTasks}
               swept == {r \in oldest : q_q1'[r].state \in {"core_committed", "completed"}}
    <2>1. q_space' = q_space \ swept /\ q_attempts' = {a \in q_attempts : a[1] \notin swept}
      BY DEF I!SweepCommitted
    <2>2. swept \in SUBSET Requests /\ \A r \in swept : q_row[r].state = "submitted"
      OBVIOUS
    <2> HIDE DEF swept
    <2> QED
      BY <2>1, <2>2
  <1>2. q_lease = None /\ I!Q1Advances /\ UNCHANGED <<q_row, q_order, q_raw, q_lease, q_crashes>>
    BY DEF I!SweepCommitted
  <1> DEFINE j == IF q_job[w].own = None THEN I!Idle
                  ELSE [q_job[w] EXCEPT !.at = "drain", !.cur = q_job[w].own, !.done = TRUE]
  <1>3. q_job' = [q_job EXCEPT ![w] = j]
    BY DEF I!SweepCommitted
  <1>4. j \in I!Jobs /\ j.at \in {"idle", "drain"} /\ (j.at = "drain" => j.cur \in Requests)
    <2>1. q_job[w] \in I!Jobs /\ I!Idle \in I!Jobs
      BY NextJobs
    <2>2. CASE q_job[w].own = None
      BY <2>1, <2>2 DEF I!Idle
    <2>3. CASE q_job[w].own # None
      BY <2>1, <2>3 DEF I!Jobs, I!JobSteps
    <2> QED
      BY <2>2, <2>3
  <1> HIDE DEF j
  <1>5. CallKnows(w)'
    <2>1. q_job'[w] = j
      BY <1>3, <1>4, JobMoves
    <2> QED
      BY <1>4, <2>1 DEF CallKnows, I!At, Holding, OnTask
  <1>6. CallsKnow' /\ q_job' \in [Callers -> I!Jobs]
    BY <1>2, <1>3, <1>4, <1>5, CallsKeep, LeaseIsMine
  <1>7. /\ q_q1' \in [Requests -> [state : I!Q1States, doc : Callers \cup {None}]]
        /\ q_docs' \subseteq Requests \X Callers /\ I!NothingLost' /\ I!OneDocument'
    BY <1>2, Q1Keeps
  <1>8. I!AttemptIsAlone' /\ q_attempts' \subseteq Requests \X Callers
    <2>1. \A r \in S : q_row[r].state # "processing"
      BY <1>1
    <2> QED
      BY <1>1, <1>2, <1>3, <1>4, <2>1, AttemptsShrink
  <1>9. I!ITypeOK'
    BY <1>1, <1>2, <1>6, <1>7, <1>8 DEF IngressKnows, I!ITypeOK
  <1>10. ClaimsFit'
    BY <1>2, RowsStay
  <1> QED
    BY <1>6, <1>7, <1>8, <1>9, <1>10 DEF IngressKnows

\* A delete elsewhere drains Q1'.
LEMMA LaterDeleteKeeps ==
  ASSUME I!IngressAssumption, IngressKnows, I!DeleteDrainsQ1
  PROVE  IngressKnows'
  <1>1. /\ q_lease = None /\ I!Q1Advances
        /\ UNCHANGED <<q_row, q_order, q_raw, q_space, q_attempts, q_lease, q_job, q_crashes>>
    BY DEF I!DeleteDrainsQ1
  <1>2. /\ q_q1' \in [Requests -> [state : I!Q1States, doc : Callers \cup {None}]]
        /\ q_docs' \subseteq Requests \X Callers /\ I!NothingLost' /\ I!OneDocument'
    BY <1>1, Q1Keeps
  <1>3. I!ITypeOK'
    BY <1>1, <1>2 DEF IngressKnows, I!ITypeOK
  <1>4. ClaimsFit'
    BY <1>1, RowsStay
  <1>5. CallsKnow'
    <2>1. ASSUME NEW v \in Callers PROVE CallKnows(v)'
      <3>1. q_lease # v
        BY <1>1, NoneApart
      <3> QED
        BY <1>1, <3>1, OthersKnow DEF Undisturbed
    <2> QED
      BY <2>1 DEF CallsKnow
  <1>6. I!AttemptIsAlone'
    BY <1>1 DEF IngressKnows, I!AttemptIsAlone, I!Active, I!At
  <1> QED
    BY <1>2, <1>3, <1>4, <1>5, <1>6 DEF IngressKnows

\* Time passes for a row.
LEMMA TimeKeeps ==
  ASSUME I!IngressAssumption, IngressKnows, NEW r \in Requests, I!ClaimExpires(r)
          \/ I!BackoffEnds(r)
  PROVE  IngressKnows'
  <1>1. q_row[r] \in RowRecs /\ RowTyped
    BY DEF IngressKnows, I!ITypeOK, RowRecs, RowTyped
  <1>2. PICK x \in RowRecs :
          /\ q_row' = [q_row EXCEPT ![r] = x] /\ x.state = q_row[r].state /\ x.by = q_row[r].by
          /\ x.doc = q_row[r].doc /\ (x.live => q_row[r].live) /\ (x.backoff => q_row[r].backoff)
    <2>1. CASE I!ClaimExpires(r)
      <3> DEFINE x == [q_row[r] EXCEPT !.live = FALSE]
      <3>1. q_row' = [q_row EXCEPT ![r] = x]
        BY <2>1 DEF I!ClaimExpires
      <3>2. x \in RowRecs /\ x.state = q_row[r].state /\ x.by = q_row[r].by
            /\ x.doc = q_row[r].doc /\ x.live = FALSE /\ x.backoff = q_row[r].backoff
        BY <1>1 DEF RowRecs
      <3> HIDE DEF x
      <3> QED
        BY <3>1, <3>2
    <2>2. CASE I!BackoffEnds(r)
      <3> DEFINE x == [q_row[r] EXCEPT !.backoff = FALSE]
      <3>1. q_row' = [q_row EXCEPT ![r] = x]
        BY <2>2 DEF I!BackoffEnds
      <3>2. x \in RowRecs /\ x.state = q_row[r].state /\ x.by = q_row[r].by
            /\ x.doc = q_row[r].doc /\ x.live = q_row[r].live /\ x.backoff = FALSE
        BY <1>1 DEF RowRecs
      <3> HIDE DEF x
      <3> QED
        BY <3>1, <3>2
    <2> QED
      BY <2>1, <2>2
  <1>3. UNCHANGED <<q_order, q_raw, q_space, q_attempts, q_docs, q_q1, q_lease, q_job, q_crashes>>
    BY DEF I!ClaimExpires, I!BackoffEnds
  <1>4. q_row' \in [Requests -> RowRecs] /\ q_row'[r] = x
        /\ \A y \in Requests \ {r} : q_row'[y] = q_row[y]
    BY <1>1, <1>2, OneRowMoves
  <1>5. RowsDrift
    BY <1>2, <1>4 DEF RowsDrift
  <1>6. I!NothingLost' /\ I!OneDocument'
    BY <1>3, <1>5, StoreKeeps
  <1>7. I!ITypeOK'
    BY <1>3, <1>4 DEF IngressKnows, I!ITypeOK, RowRecs
  <1>8. ClaimsFit'
    <2>1. ClaimsFit
      BY DEF IngressKnows
    <2>2. x.live \in BOOLEAN /\ x.backoff \in BOOLEAN
      BY DEF RowRecs
    <2> QED
      BY <1>2, <1>4, <2>1, <2>2 DEF ClaimsFit
  <1>9. \A v \in Callers, y \in Requests : I!Active(v, y)' => I!Active(v, y)
    BY <1>2, <1>4 DEF I!Active
  <1>10. I!AttemptIsAlone'
    <2>1. ASSUME NEW v \in Callers PROVE Alone(v)'
      BY <1>3, <1>9, AloneKeeps
    <2> QED
      BY <2>1 DEF Alone, I!AttemptIsAlone
  <1>11. CallsKnow'
    <2>1. ASSUME NEW v \in Callers PROVE CallKnows(v)'
      <3>1. \A y \in Requests : q_row'[y].state = q_row[y].state
        BY <1>2, <1>4
      <3> QED
        BY <1>3, <3>1, OthersKnow DEF Undisturbed
    <2> QED
      BY <2>1 DEF CallsKnow
  <1> QED
    BY <1>6, <1>7, <1>8, <1>10, <1>11 DEF IngressKnows

\* A step of a call.
LEMMA StepKeeps ==
  ASSUME I!IngressAssumption, IngressKnows, NEW w \in Callers, I!Step(w)
  PROVE  IngressKnows'
  <1>1. CASE I!ListRecoverable(w) \/ I!Visit(w) \/ I!ParseSucceeds(w) \/ I!ParseFails(w)
    BY <1>1, MemoryKeeps
  <1>2. CASE I!Enqueue(w) \/ I!EnsureTask(w) \/ I!RecoverExpired(w) \/ I!SweepCommitted(w)
    BY <1>2, EnqueueKeeps, EnsureTaskKeeps, RecoverExpiredKeeps, SweepKeeps
  <1>3. CASE I!Claim(w) \/ I!NothingToDrain(w) \/ I!Rejoin(w) \/ I!PrepareAttempt(w)
    BY <1>3, CallClaimKeeps, NothingToDrainKeeps, RejoinKeeps, PrepareAttemptKeeps
  <1>4. CASE I!WriteDocument(w) \/ I!MarkPrepared(w) \/ I!MarkRetry(w) \/ I!MarkRejected(w)
    BY <1>4, WriteDocumentKeeps, MarkPreparedKeeps, MarkRetryKeeps, MarkRejectedKeeps
  <1>5. CASE I!HandOver(w) \/ I!MarkSubmitted(w) \/ I!DiscardRaw(w) \/ I!DrainQ1(w)
          \/ I!DiscardTask(w)
    BY <1>5, HandOverKeeps, MarkSubmittedKeeps, DiscardRawKeeps, DrainQ1Keeps, DiscardTaskKeeps
  <1>6. CASE I!WriteBusy(w)
    BY <1>6, EndsKeep
  <1> QED
    BY <1>1, <1>2, <1>3, <1>4, <1>5, <1>6 DEF I!Step

\* What a call may rely on holds before anything was admitted.
LEMMA StartKnows == ASSUME I!IngressAssumption, I!Init PROVE IngressKnows
  <1>1. q_row \in [Requests -> RowRecs] /\ \A r \in Requests : q_row[r].state = "none"
    <2>1. [state |-> "none", by |-> None, live |-> FALSE, backoff |-> FALSE,
           doc |-> None] \in RowRecs
      BY DEF RowRecs, I!RowStates
    <2> QED
      BY <2>1 DEF I!Init
  <1>2. I!Idle \in I!Jobs /\ I!Idle.at = "idle"
    BY DEF I!Jobs, I!Idle, I!JobSteps
  <1>3. q_job \in [Callers -> I!Jobs] /\ \A w \in Callers : q_job[w].at = "idle"
    BY <1>2 DEF I!Init
  <1>4. q_q1 \in [Requests -> [state : I!Q1States, doc : Callers \cup {None}]]
        /\ \A r \in Requests : q_q1[r].state = "none"
    BY DEF I!Init, I!Q1States
  <1>5. I!ITypeOK
    <2>1. 0 \in 0..MaxCallCrashes
      BY DEF I!IngressAssumption
    <2> QED
      BY <1>1, <1>3, <1>4, <2>1 DEF I!Init, I!ITypeOK, RowRecs
  <1>6. I!NothingLost /\ I!OneDocument /\ ClaimsFit
    BY <1>1, <1>4 DEF I!NothingLost, I!OneDocument, ClaimsFit
  <1>7. I!AttemptIsAlone /\ CallsKnow
    BY <1>3 DEF I!AttemptIsAlone, CallsKnow, CallKnows, I!At, Holding, OnTask
  <1> QED
    BY <1>5, <1>6, <1>7 DEF IngressKnows

\* Every step of the queue keeps what its calls rely on.
LEMMA NextKeeps ==
  ASSUME I!IngressAssumption, IngressKnows, [I!Next]_(I!vars)
  PROVE  IngressKnows'
  <1>1. CASE UNCHANGED I!vars
    <2>1. I!ITypeOK' /\ I!NothingLost' /\ I!OneDocument'
      BY <1>1 DEF I!vars, I!store, IngressKnows, I!ITypeOK, I!NothingLost, I!OneDocument
    <2>2. I!AttemptIsAlone' /\ ClaimsFit'
      BY <1>1 DEF I!vars, I!store, IngressKnows, I!AttemptIsAlone, ClaimsFit, I!At, I!Active
    <2>3. CallsKnow'
      BY <1>1 DEF I!vars, I!store, IngressKnows, CallsKnow, CallKnows, I!At
    <2> QED
      BY <2>1, <2>2, <2>3 DEF IngressKnows
  <1>2. ASSUME NEW w \in Callers, I!Step(w) \/ I!LaterCall(w) \/ I!Crash(w) PROVE IngressKnows'
    <2>1. CASE I!Step(w)
      BY <2>1, StepKeeps
    <2>2. CASE I!LaterCall(w)
      BY <2>2, MemoryKeeps
    <2>3. CASE I!Crash(w)
      BY <2>3, EndsKeep
    <2> QED
      BY <1>2, <2>1, <2>2, <2>3
  <1>3. ASSUME NEW w \in Callers, NEW r \in Requests, I!Admit(w, r) PROVE IngressKnows'
    BY <1>3, AdmissionKeeps
  <1>4. ASSUME NEW r \in Requests, I!ClaimExpires(r) \/ I!BackoffEnds(r) PROVE IngressKnows'
    BY <1>4, TimeKeeps
  <1>5. CASE I!DeleteDrainsQ1
    BY <1>5, LaterDeleteKeeps
  <1> QED
    BY <1>1, <1>2, <1>3, <1>4, <1>5 DEF I!Next

\* The inductive invariant holds in every state of the queue.
THEOREM IngressKnowsHolds == ASSUME I!IngressAssumption PROVE I!Spec => []IngressKnows
  <1>1. I!Init => IngressKnows
    BY StartKnows
  <1>2. IngressKnows /\ [I!Next]_(I!vars) => IngressKnows'
    BY NextKeeps
  <1> QED
    BY <1>1, <1>2, PTL DEF I!Spec

\* An accepted request is never lost, one document is archived for it, and a
\* live claim parses into an attempt of its own, whatever dies or runs out.
THEOREM IngressInvHolds == ASSUME I!IngressAssumption PROVE I!Spec => []I!IngressInv
  <1>1. IngressKnows => I!IngressInv
    BY DEF IngressKnows, I!IngressInv
  <1> QED
    BY <1>1, IngressKnowsHolds, PTL

-----------------------------------------------------------------------------
(* What is settled *)

\* The row of r does not leave what was settled about it.
StaysSettled(r) ==
  /\ q_row[r].state \in {"submitted", "rejected"} => q_row'[r] = q_row[r]
  /\ q_row[r].state = "prepared" =>
       q_row'[r].state \in {"prepared", "submitted"} /\ q_row'[r].doc = q_row[r].doc

\* Recovery of expired claims and the loss of a token touch no settled row.
LEMMA SettledRowsStay ==
  ASSUME I!IngressAssumption, IngressKnows, NEW w \in Callers, NEW r \in Requests,
         q_row[r].state \in {"prepared", "submitted", "rejected"}
  PROVE  I!RowsRecovered[r] = q_row[r] /\ I!Disowned(w)[r] = q_row[r]
  <1>1. q_row[r].by = None /\ w # None
    BY NoneApart DEF IngressKnows, ClaimsFit
  <1> QED
    BY <1>1 DEF I!RowsRecovered, I!Expired, I!Disowned

\* A change of one row that was not settled.
LEMMA OneRowSettled ==
  ASSUME NEW x \in Requests, NEW y, NEW f, q_row' = [f EXCEPT ![x] = y],
         DOMAIN f = Requests, NEW r \in Requests,
         q_row[x].state \notin {"prepared", "submitted", "rejected"},
         q_row[r].state \in {"prepared", "submitted", "rejected"} => f[r] = q_row[r]
  PROVE  StaysSettled(r)
  <1>1. CASE r = x
    BY <1>1 DEF StaysSettled
  <1>2. CASE r # x
    BY <1>2 DEF StaysSettled
  <1> QED
    BY <1>1, <1>2

\* No step of a call reopens what was settled.
LEMMA StepSettles ==
  ASSUME I!IngressAssumption, IngressKnows, NEW w \in Callers, NEW r \in Requests,
         I!Step(w) \/ I!LaterCall(w) \/ I!Crash(w)
  PROVE  StaysSettled(r)
  <1> DEFINE c == q_job[w].cur
  <1>1. q_row \in [Requests -> RowRecs] /\ CallKnows(w) /\ DOMAIN q_row = Requests
    BY DEF IngressKnows, I!ITypeOK, RowRecs, CallsKnow
  <1>2. CASE q_row' = q_row
    BY <1>2 DEF StaysSettled
  <1>3. CASE q_row' = I!RowsRecovered \/ q_row' = I!Disowned(w)
    BY <1>3, SettledRowsStay DEF StaysSettled
  <1>4. CASE I!Enqueue(w)
    <2>1. q_job[w].own \in Requests /\ q_row[q_job[w].own].state = "none"
      BY <1>1, <1>4 DEF CallKnows, I!Enqueue, I!At
    <2>2. q_row' = [q_row EXCEPT ![q_job[w].own] =
                      [q_row[q_job[w].own] EXCEPT !.state = "accepted"]]
      BY <1>4 DEF I!Enqueue
    <2> QED
      BY <1>1, <2>1, <2>2, OneRowSettled
  <1>5. CASE I!Claim(w)
    <2>1. c \in Requests
      BY <1>1, <1>5 DEF CallKnows, I!Claim, I!At, OnTask
    <2>2. I!RowsRecovered[c].state \in {"accepted", "retry_required"}
      BY <1>5 DEF I!Claim
    <2>3. q_row[c].state \notin {"prepared", "submitted", "rejected"}
      BY <2>1, <2>2, SettledRowsStay
    <2>4. PICK y : q_row' = [I!RowsRecovered EXCEPT ![c] = y]
      BY <1>5 DEF I!Claim
    <2>5. DOMAIN I!RowsRecovered = Requests
      BY DEF I!RowsRecovered
    <2> QED
      BY <2>1, <2>3, <2>4, <2>5, OneRowSettled, SettledRowsStay
  <1>6. ASSUME NEW y, I!Active(w, c), c \in Requests, q_row' = [q_row EXCEPT ![c] = y]
        PROVE  StaysSettled(r)
    BY <1>1, <1>6, OneRowSettled DEF I!Active
  <1>7. CASE I!MarkPrepared(w) \/ I!MarkRetry(w) \/ I!MarkRejected(w)
    <2>1. c \in Requests
      BY <1>1, <1>7 DEF CallKnows, I!MarkPrepared, I!MarkRetry, I!MarkRejected, I!At, OnTask
    <2>2. CASE I!Active(w, c)
      <3>1. \E y : q_row' = [q_row EXCEPT ![c] = y]
        BY <1>7, <2>2 DEF I!MarkPrepared, I!MarkRetry, I!MarkRejected, I!ClaimLost
      <3> QED
        BY <1>6, <2>1, <2>2, <3>1
    <2>3. CASE ~ I!Active(w, c)
      BY <1>3, <1>7, <2>3 DEF I!MarkPrepared, I!MarkRetry, I!MarkRejected, I!ClaimLost
    <2> QED
      BY <2>2, <2>3
  <1>8. CASE I!MarkSubmitted(w)
    <2>1. c \in Requests /\ q_row[c].state = "prepared"
      BY <1>1, <1>8 DEF CallKnows, I!MarkSubmitted, I!At, OnTask
    <2>2. q_row' = [q_row EXCEPT ![c] = [q_row[c] EXCEPT !.state = "submitted"]]
      BY <1>8 DEF I!MarkSubmitted
    <2>3. q_row[c] \in RowRecs
      BY <1>1, <2>1
    <2>4. q_row'[c].state = "submitted" /\ q_row'[c].doc = q_row[c].doc
      BY <1>1, <2>1, <2>2, <2>3 DEF RowRecs
    <2>5. r # c => q_row'[r] = q_row[r]
      BY <1>1, <2>2
    <2> QED
      BY <2>1, <2>4, <2>5 DEF StaysSettled
  <1>9. CASE I!PrepareAttempt(w)
    BY <1>2, <1>3, <1>9 DEF I!PrepareAttempt
  <1>10. CASE I!RecoverExpired(w) \/ I!NothingToDrain(w) \/ I!Rejoin(w)
          \/ I!WriteBusy(w) \/ I!Crash(w)
    BY <1>3, <1>10 DEF I!RecoverExpired, I!NothingToDrain, I!Rejoin, I!WriteBusy, I!Crash
  <1>11. CASE I!EnsureTask(w) \/ I!ListRecoverable(w) \/ I!Visit(w) \/ I!SweepCommitted(w)
    BY <1>2, <1>11 DEF I!EnsureTask, I!ListRecoverable, I!Visit, I!SweepCommitted, I!store
  <1>12. CASE I!ParseSucceeds(w) \/ I!ParseFails(w) \/ I!WriteDocument(w) \/ I!HandOver(w)
    BY <1>2, <1>12 DEF I!ParseSucceeds, I!ParseFails, I!WriteDocument, I!HandOver, I!store
  <1>13. CASE I!DiscardRaw(w) \/ I!DrainQ1(w) \/ I!DiscardTask(w) \/ I!LaterCall(w)
    BY <1>2, <1>13 DEF I!DiscardRaw, I!DrainQ1, I!DiscardTask, I!LaterCall, I!store
  <1> QED
    BY <1>4, <1>5, <1>7, <1>8, <1>9, <1>10, <1>11, <1>12, <1>13 DEF I!Step

\* No step of the queue reopens what was settled.
LEMMA NextSettles ==
  ASSUME I!IngressAssumption, IngressKnows, [I!Next]_(I!vars), NEW r \in Requests
  PROVE  StaysSettled(r)
  <1>1. CASE q_row' = q_row
    BY <1>1 DEF StaysSettled
  <1>2. ASSUME NEW w \in Callers, I!Step(w) \/ I!LaterCall(w) \/ I!Crash(w) PROVE StaysSettled(r)
    BY <1>2, StepSettles
  <1>3. ASSUME NEW w \in Callers, NEW s \in Requests, I!Admit(w, s) PROVE StaysSettled(r)
    BY <1>1, <1>3 DEF I!Admit
  <1>4. ASSUME NEW s \in Requests, I!ClaimExpires(s) \/ I!BackoffEnds(s) PROVE StaysSettled(r)
    <2>1. q_row \in [Requests -> RowRecs] /\ DOMAIN q_row = Requests
      BY DEF IngressKnows, I!ITypeOK, RowRecs
    <2>2. q_row[s].state \notin {"prepared", "submitted", "rejected"}
      BY <1>4 DEF I!ClaimExpires, I!BackoffEnds, IngressKnows, ClaimsFit
    <2>3. \E y : q_row' = [q_row EXCEPT ![s] = y]
      BY <1>4 DEF I!ClaimExpires, I!BackoffEnds
    <2> QED
      BY <2>1, <2>2, <2>3, OneRowSettled
  <1>5. CASE I!DeleteDrainsQ1 \/ UNCHANGED I!vars
    BY <1>1, <1>5 DEF I!DeleteDrainsQ1, I!vars, I!store
  <1> QED
    BY <1>2, <1>3, <1>4, <1>5 DEF I!Next

\* What is settled stays settled: a late answer of a parser whose claim ran out
\* never reopens a request that was prepared, submitted or rejected.
THEOREM NoLateReopeningHolds == ASSUME I!IngressAssumption PROVE I!Spec => I!NoLateReopening
  <1>1. IngressKnows /\ [I!Next]_(I!vars) =>
          [\A r \in Requests :
             /\ q_row[r].state \in {"submitted", "rejected"} => q_row'[r] = q_row[r]
             /\ q_row[r].state = "prepared" =>
                  q_row'[r].state \in {"prepared", "submitted"}
                          /\ q_row'[r].doc = q_row[r].doc]_(I!vars)
    BY NextSettles DEF StaysSettled
  <1> QED
    BY <1>1, IngressKnowsHolds, PTL DEF I!Spec, I!NoLateReopening
=============================================================================
