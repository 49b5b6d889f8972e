-------------------------- MODULE EmbeddingProofs --------------------------
(***************************************************************************)
(* Theorems about the generations of the embedding index, for any writers, *)
(* readers, generation ids and contracts, with and without collisions of   *)
(* ids, and any number of commits, edits, failures and deaths; and, in the *)
(* second part, about the plans of the data root the index belongs to.     *)
(***************************************************************************)
EXTENDS EmbeddingGeneration, TLAPS

Configs == [rev : Nat, contract : Contracts]
Snapshots == [base : Contracts \cup {None}, ext : Extensions \cup {None}]
Directories == [state : {"absent", "partial", "whole"}, source : Commits,
                contract : Contracts \cup {None}]
Answers == [state : IndexStates, snapshot : Snapshots, source : Commits \cup {None},
            config : Configs, active : Gens \cup {None}, previous : Gens \cup {None}]
Plans == [answer : Answers, force : BOOLEAN]
Jobs == [at : JobSteps, plan : Plans \cup {None}, current : Answers \cup {None},
         id : Gens \cup {None}, stage : Directories]
Reads == [at : {"idle", "read", "captured", "bound"}, contract : Contracts \cup {None},
          snap : Snapshots \cup {None}, source : Commits, bound : Gens \cup {None}]

Typed ==
  /\ source \in Commits /\ drift \in BOOLEAN
  /\ config \in Configs /\ edits \in Nat /\ config.rev <= edits /\ edits <= MaxEdits
  /\ snapshot \in Snapshots /\ gens \in [Gens -> Directories]
  /\ lease \in Writers \cup {None}
  /\ job \in [Writers -> Jobs] /\ reader \in [Readers -> Reads]
  /\ intents \subseteq Gens /\ ever \subseteq Gens /\ refused \subseteq Gens

\* The lease is with the writer that is past its second check, or publishes.
LeaseIsHeld ==
  \A w \in Writers : (lease = w) <=> job[w].at \notin {"idle", "planned", "checked"}

\* A ready pointer names a whole generation; what has been active is retained by
\* an extension that is there.
PointerKnows ==
  /\ snapshot.ext # None /\ snapshot.ext.state = "ready" => snapshot.ext.active \in Gens
  /\ PointerIsWhole
  /\ ever # {} => snapshot.ext \in Extensions
  /\ EverActiveIsRetained /\ ActiveHasIntent

\* The steps under the lease, and those with a stage of its own.
Executing == {"build", "recheck", "reserve", "move", "intent", "flip"}
Staged == Executing \ {"build"}

\* A generation of the source and the contract of the plan of w.
Wanted(w) == [state |-> "whole", source |-> source, contract |-> PlannedContract(w)]

\* A plan is of a root that can be read.  Under the lease the root answers as the
\* plan says; the stage is what the plan wants, its directory reserved, and filled
\* before the intent is written.
JobKnows(w) ==
  /\ job[w].at \in {"planned", "checked"} \cup Executing =>
       /\ job[w].plan \in Plans
       /\ job[w].plan.answer.state # "repair_required"
  /\ job[w].at \in Executing =>
       job[w].current = job[w].plan.answer /\ job[w].current.source = source
  /\ job[w].at \in Staged => job[w].id \in Gens /\ job[w].stage = Wanted(w)
  /\ At(w, "move") => gens[job[w].id].state = "partial"
  /\ job[w].at \in {"intent", "flip"} => gens[job[w].id] = job[w].stage
  /\ At(w, "flip") => job[w].id \in intents

\* A read that has begun knows its contract and its snapshot.
ReadKnows(r) ==
  /\ reader[r].at \in {"read", "captured", "bound"} => reader[r].contract \in Contracts
  /\ reader[r].at \in {"read", "captured"} => reader[r].snap \in Snapshots
  /\ reader[r].at = "bound" => reader[r].bound \in Gens

IndexInv ==
  /\ Typed /\ LeaseIsHeld /\ PointerKnows /\ BoundIsWhole
  /\ \A w \in Writers : JobKnows(w)
  /\ \A r \in Readers : ReadKnows(r)

-----------------------------------------------------------------------------
(* What an inspection answers *)

\* A pointer to a whole generation of a source and the configured contract.
Serves(snap, src, cfg) ==
  /\ snap.ext.active \in Gens
  /\ gens[snap.ext.active] = [state |-> "whole", source |-> src, contract |-> cfg.contract]

\* An answer keeps what it was asked for; it is ready only of a pointer to a
\* whole generation of the captured source and the configured contract.
LEMMA InspectedTells ==
  ASSUME EmbeddingAssumption, gens \in [Gens -> Directories],
         NEW snap \in Snapshots, NEW src \in Commits \cup {None}, NEW cfg \in Configs
  PROVE  /\ InspectedAs(snap, src, cfg) \in Answers
         /\ InspectedAs(snap, src, cfg).source = src
         /\ InspectedAs(snap, src, cfg).config = cfg
         /\ InspectedAs(snap, src, cfg).state = "ready" =>
              Serves(snap, src, cfg)
  <1> DEFINE answer == InspectedAs(snap, src, cfg)
             ext == snap.ext
             ready == ext # None /\ ext.state = "ready"
  <1>1. ext \in Extensions \cup {None}
    BY DEF Snapshots
  <1>2. ASSUME NEW state \in IndexStates, NEW pointer \in BOOLEAN, pointer => ext # None
        PROVE  LET a == Answer(state, snap, src, cfg, pointer)
               IN  /\ a \in Answers /\ a.state = state
                   /\ a.snapshot = snap /\ a.source = src /\ a.config = cfg
    <2>1. (IF pointer THEN ext.active ELSE None) \in Gens \cup {None}
      BY <1>1, <1>2 DEF Extensions
    <2>2. (IF pointer THEN ext.previous ELSE None) \in Gens \cup {None}
      BY <1>1, <1>2 DEF Extensions
    <2> QED
      BY <2>1, <2>2 DEF Answer, Answers
  <1>3. CASE snap.base # cfg.contract
    <2>1. answer = Answer("rebuild_required", snap, src, cfg, FALSE)
      BY <1>3 DEF InspectedAs
    <2> QED
      BY <1>2, <2>1 DEF IndexStates
  <1>4. CASE snap.base = cfg.contract /\ ext = None
    <2>1. answer = Answer(IF src = 0 THEN "initial" ELSE "rebuild_required", snap, src, cfg,
                          FALSE)
      BY <1>4 DEF InspectedAs
    <2> QED
      BY <1>2, <2>1 DEF IndexStates
  <1>5. CASE snap.base = cfg.contract /\ ext # None /\ ~ ready
    <2>1. answer = Answer(IF ext.contract # cfg.contract \/ ext.digest # src
                          THEN "rebuild_required" ELSE "nonready", snap, src, cfg, FALSE)
      BY <1>5 DEF InspectedAs
    <2> QED
      BY <1>2, <2>1 DEF IndexStates
  <1>6. CASE snap.base = cfg.contract /\ ready
    <2>1. answer = IF ext.contract # cfg.contract \/ ext.digest # src
                   THEN Answer("rebuild_required", snap, src, cfg, TRUE)
                   ELSE IF ~ ValidGeneration(ext.active, cfg.contract)
                   THEN Answer("repair_required", snap, src, cfg, FALSE)
                   ELSE IF gens[ext.active].source # src
                   THEN Answer("rebuild_required", snap, src, cfg, TRUE)
                   ELSE Answer("ready", snap, src, cfg, TRUE)
      BY <1>6 DEF InspectedAs
    <2>2. \/ answer = Answer("rebuild_required", snap, src, cfg, TRUE)
          \/ answer = Answer("repair_required", snap, src, cfg, FALSE)
          \/ /\ answer = Answer("ready", snap, src, cfg, TRUE)
             /\ ValidGeneration(ext.active, cfg.contract) /\ gens[ext.active].source = src
      BY <2>1
    <2>3. CASE answer \in {Answer("rebuild_required", snap, src, cfg, TRUE),
                           Answer("repair_required", snap, src, cfg, FALSE)}
      BY <1>2, <1>6, <2>3 DEF IndexStates
    <2>4. CASE /\ answer = Answer("ready", snap, src, cfg, TRUE)
               /\ ValidGeneration(ext.active, cfg.contract) /\ gens[ext.active].source = src
      <3>1. ext.active \in Gens
        BY <1>1, <1>6, <2>4 DEF Extensions, ValidGeneration
      <3>2. gens[ext.active] = [state |-> "whole", source |-> src, contract |-> cfg.contract]
        BY <2>4, <3>1 DEF ValidGeneration, Directories
      <3> QED
        BY <1>2, <1>6, <2>4, <3>1, <3>2 DEF IndexStates, Serves
    <2> QED
      BY <2>2, <2>3, <2>4
  <1> QED
    BY <1>3, <1>4, <1>5, <1>6

\* The index is inspected for a contract; a root that cannot be read needs repair.
LEMMA InspectionTells ==
  ASSUME EmbeddingAssumption, Typed, NEW contract \in Contracts
  PROVE  /\ Inspection(contract) \in Answers
         /\ Inspection(contract).config.contract = contract
         /\ Inspection(contract).state # "repair_required" =>
              Inspection(contract).source = source
  <1>1. Loaded(contract) \in Configs /\ Loaded(contract).contract = contract
    BY DEF Loaded, Typed, Configs
  <1>2. CASE drift
    <2>1. Inspection(contract) =
            Answer("repair_required", snapshot, None, Loaded(contract), FALSE)
      BY <1>2 DEF Inspection
    <2> QED
      BY <1>1, <2>1 DEF Answer, Answers, IndexStates, Typed
  <1>3. CASE ~ drift
    <2>1. Inspection(contract) = InspectedAs(snapshot, source, Loaded(contract))
      BY <1>3 DEF Inspection
    <2>2. gens \in [Gens -> Directories] /\ snapshot \in Snapshots
          /\ source \in Commits \cup {None}
      BY DEF Typed
    <2> QED
      BY <1>1, <2>1, <2>2, InspectedTells
  <1> QED
    BY <1>2, <1>3

-----------------------------------------------------------------------------
(* Frames *)

\* The empty records are typed.
LEMMA EmptyTyped ==
  EmbeddingAssumption => NoDirectory \in Directories /\ Idle \in Jobs /\ IdleReader \in Reads
  <1> SUFFICES ASSUME EmbeddingAssumption
               PROVE  NoDirectory \in Directories /\ Idle \in Jobs /\ IdleReader \in Reads
    OBVIOUS
  <1>1. 0 \in Commits
    BY DEF EmbeddingAssumption, Commits
  <1>2. NoDirectory \in Directories
    BY <1>1 DEF NoDirectory, Directories
  <1> QED
    BY <1>1, <1>2 DEF Idle, Jobs, JobSteps, IdleReader, Reads

\* A whole directory of a generation stays as it is.
WholeStays == \A g \in Gens : gens[g].state = "whole" => gens'[g] = gens[g]

\* A step that leaves whole directories alone keeps a pointer that stays, and reads.
LEMMA PointerStays ==
  ASSUME IndexInv, WholeStays, snapshot' = snapshot, ever' = ever, intents \subseteq intents'
  PROVE  PointerKnows'
  <1>1. ASSUME snapshot.ext # None, snapshot.ext.state = "ready"
        PROVE  gens'[snapshot.ext.active] = gens[snapshot.ext.active]
    BY <1>1 DEF WholeStays, IndexInv, PointerKnows, PointerIsWhole
  <1> QED
    BY <1>1 DEF IndexInv, PointerKnows, PointerIsWhole, EverActiveIsRetained, ActiveHasIntent

\* Reads that have their binding go on with it.
LEMMA ReadsStay ==
  ASSUME IndexInv, WholeStays, reader' = reader
  PROVE  BoundIsWhole' /\ \A r \in Readers : ReadKnows(r)'
  <1>1. ASSUME NEW r \in Readers, reader[r].at = "bound"
        PROVE  gens'[reader[r].bound] = gens[reader[r].bound]
    <2>1. reader[r].bound \in Gens
      BY <1>1 DEF IndexInv, ReadKnows
    <2>2. gens[reader[r].bound] = [state |-> "whole", source |-> reader[r].source,
                                   contract |-> reader[r].contract]
      BY <1>1 DEF IndexInv, BoundIsWhole
    <2> QED
      BY <2>1, <2>2 DEF WholeStays
  <1> QED
    BY <1>1 DEF IndexInv, BoundIsWhole, ReadKnows

\* A writer whose job stays knows what it knew: it has the lease, or it has only
\* a plan.
LEMMA JobStays ==
  ASSUME IndexInv, NEW v \in Writers, job'[v] = job[v], intents \subseteq intents',
         lease = v => UNCHANGED <<source, gens>>
  PROVE  JobKnows(v)'
  <1>1. JobKnows(v)
    BY DEF IndexInv
  <1>2. job[v].at \in Executing => lease = v
    BY DEF IndexInv, LeaseIsHeld, Executing
  <1> QED
    BY <1>1, <1>2 DEF JobKnows, At, Executing, Staged, Wanted, PlannedContract

\* The lease after a step of writer w to r.
LeaseFor(w, r) ==
  IF r.at \in {"idle", "planned", "checked"}
  THEN lease' = IF lease = w THEN None ELSE lease
  ELSE lease \in {w, None} /\ lease' = w

\* The lease stays with the writer whose step needs it.
LEMMA LeaseStays ==
  ASSUME EmbeddingAssumption, IndexInv, NEW w \in Writers, NEW r,
         job' = [job EXCEPT ![w] = r], LeaseFor(w, r)
  PROVE  LeaseIsHeld' /\ lease' \in Writers \cup {None}
  BY DEF LeaseFor, IndexInv, LeaseIsHeld, Typed, EmbeddingAssumption

\* A step of one writer that leaves source and snapshot alone.
LEMMA QuietStep ==
  ASSUME EmbeddingAssumption, IndexInv, NEW w \in Writers, NEW r \in Jobs,
         job' = [job EXCEPT ![w] = r], LeaseFor(w, r), JobKnows(w)',
         UNCHANGED <<source, drift, config, edits, snapshot, ever, reader>>,
         gens' \in [Gens -> Directories], WholeStays, lease = w \/ gens' = gens,
         intents \subseteq intents', intents' \subseteq Gens, refused' \subseteq Gens
  PROVE  IndexInv'
  <1>1. LeaseIsHeld' /\ lease' \in Writers \cup {None}
    BY LeaseStays
  <1>2. Typed'
    BY <1>1 DEF IndexInv, Typed
  <1>3. ASSUME NEW v \in Writers, v # w PROVE JobKnows(v)'
    BY <1>3, JobStays DEF IndexInv, Typed
  <1> QED
    BY <1>1, <1>2, <1>3, PointerStays, ReadsStay DEF IndexInv

\* Such a step that changes no directory and no record either.
LEMMA SilentStep ==
  ASSUME EmbeddingAssumption, IndexInv, NEW w \in Writers, NEW r \in Jobs,
         job' = [job EXCEPT ![w] = r], LeaseFor(w, r), JobKnows(w)',
         UNCHANGED <<source, drift, config, edits, snapshot, gens, reader, history>>
  PROVE  IndexInv'
  BY QuietStep DEF history, WholeStays, IndexInv, Typed

\* A writer at rest or with a failure to report knows nothing.
LEMMA RestKnows ==
  ASSUME NEW w \in Writers, job'[w].at \in {"idle", "failed", "complete", "nonready"}
  PROVE  JobKnows(w)'
  BY DEF JobKnows, At, Executing, Staged

\* A writer that ends gives the lease back if it has it.
LEMMA EndKeeps ==
  ASSUME EmbeddingAssumption, IndexInv, NEW w \in Writers, GoIdle(w),
         lease' = IF lease = w THEN None ELSE lease, refused' \subseteq Gens,
         UNCHANGED <<source, drift, config, edits, snapshot, gens, reader, intents, ever>>
  PROVE  IndexInv'
  <1>1. Idle \in Jobs /\ Idle.at = "idle"
    BY EmptyTyped DEF Idle
  <1>2. job' = [job EXCEPT ![w] = Idle] /\ job'[w] = Idle
    BY DEF GoIdle, IndexInv, Typed
  <1>3. JobKnows(w)'
    BY <1>1, <1>2, RestKnows
  <1> QED
    BY <1>1, <1>2, <1>3, QuietStep DEF LeaseFor, WholeStays, IndexInv, Typed

-----------------------------------------------------------------------------
(* A rebuild *)

\* What a writer past its second check has: the lease, a typed job, its knowledge.
LEMMA HolderHas ==
  ASSUME EmbeddingAssumption, IndexInv, NEW w \in Writers
  PROVE  /\ job[w] \in Jobs /\ JobKnows(w)
         /\ job[w].at \in Executing \cup {"nonready", "complete", "failed"} => lease = w
         /\ job[w].at \in {"idle", "planned", "checked"} => lease # w
  BY DEF IndexInv, Typed, LeaseIsHeld, Executing

\* A writer that only goes on to a later step, with what it has to know there.
LEMMA GotoKeeps ==
  ASSUME EmbeddingAssumption, IndexInv, NEW w \in Writers, NEW step \in JobSteps,
         Goto(w, step), LeaseFor(w, [job[w] EXCEPT !.at = step]), JobKnows(w)',
         UNCHANGED <<source, drift, config, edits, snapshot, gens, reader, history>>
  PROVE  IndexInv'
  <1>1. [job[w] EXCEPT !.at = step] \in Jobs
    BY HolderHas DEF Jobs
  <1>2. job' = [job EXCEPT ![w] = [job[w] EXCEPT !.at = step]]
    BY DEF Goto
  <1> QED
    BY <1>1, <1>2, SilentStep

\* A failure of a step under the lease.
LEMMA FailKeeps ==
  ASSUME EmbeddingAssumption, IndexInv, NEW w \in Writers, lease = w, lease' = lease,
         Goto(w, "failed") \/ GiveUp(w),
         UNCHANGED <<source, drift, config, edits, snapshot, gens, reader, history>>
  PROVE  IndexInv'
  <1>1. job[w] \in Jobs /\ job \in [Writers -> Jobs]
    BY DEF IndexInv, Typed
  <1>2. PICK r \in Jobs : job' = [job EXCEPT ![w] = r] /\ r.at = "failed"
    <2>1. CASE Goto(w, "failed")
      <3>1. [job[w] EXCEPT !.at = "failed"] \in Jobs
        BY <1>1 DEF Jobs, JobSteps
      <3> QED
        BY <1>1, <2>1, <3>1 DEF Goto, Jobs
    <2>2. CASE GiveUp(w)
      <3>1. [job[w] EXCEPT !.at = "failed", !.id = None] \in Jobs
        BY <1>1 DEF Jobs, JobSteps
      <3>2. job' = [job EXCEPT ![w] = [job[w] EXCEPT !.at = "failed", !.id = None]]
        BY <1>1, <2>2 DEF GiveUp
      <3> QED
        BY <1>1, <3>1, <3>2 DEF Jobs
    <2> QED
      BY <2>1, <2>2
  <1>3. job'[w] = r
    BY <1>1, <1>2
  <1>4. JobKnows(w)'
    BY <1>2, <1>3, RestKnows
  <1> QED
    BY <1>2, <1>4, SilentStep DEF LeaseFor

\* A plan is made of what an inspection answers, unless the root needs repair.
LEMMA PlanKeeps ==
  ASSUME EmbeddingAssumption, IndexInv, NEW w \in Writers, Plan(w)
  PROVE  IndexInv'
  <1> DEFINE answer == Inspection(config.contract)
  <1>1. PICK force \in Forced :
          /\ At(w, "idle") /\ Plannable(answer, force)
          /\ job' = [job EXCEPT ![w] = [Idle EXCEPT !.at = "planned",
                       !.plan = [answer |-> answer, force |-> force]]]
          /\ UNCHANGED <<world, snapshot, gens, lease, reader, history, budgets>>
    BY DEF Plan
  <1>2. config.contract \in Contracts
    BY DEF IndexInv, Typed, Configs
  <1>3. answer \in Answers
    BY <1>2, InspectionTells DEF IndexInv
  <1> DEFINE r == [Idle EXCEPT !.at = "planned",
                     !.plan = [answer |-> answer, force |-> force]]
  <1>4. [answer |-> answer, force |-> force] \in Plans
    BY <1>3 DEF Plans, EmbeddingAssumption
  <1>5. r \in Jobs /\ r.at = "planned" /\ r.plan = [answer |-> answer, force |-> force]
    BY <1>4, EmptyTyped DEF Jobs, JobSteps, Idle
  <1>6. job'[w] = r
    BY <1>1 DEF IndexInv, Typed
  <1>7. JobKnows(w)'
    BY <1>1, <1>4, <1>5, <1>6 DEF JobKnows, At, Executing, Staged, Plannable
  <1>8. LeaseFor(w, r)
    BY <1>1, <1>5, HolderHas DEF LeaseFor, At
  <1> QED
    BY <1>1, <1>5, <1>7, <1>8, SilentStep DEF world, budgets

\* The plan is compared with the root ...
LEMMA CheckPlanKeeps ==
  ASSUME EmbeddingAssumption, IndexInv, NEW w \in Writers, CheckPlan(w)
  PROVE  IndexInv'
  <1>1. job[w] \in Jobs /\ JobKnows(w) /\ job[w].at = "planned" /\ lease # w
    BY HolderHas DEF CheckPlan, At
  <1>2. CASE Goto(w, "checked")
    <2>1. job'[w] = [job[w] EXCEPT !.at = "checked"]
      BY <1>2 DEF Goto, IndexInv, Typed
    <2>2. JobKnows(w)'
      BY <1>1, <2>1 DEF JobKnows, Jobs, At, Executing, Staged
    <2>3. LeaseFor(w, [job[w] EXCEPT !.at = "checked"])
      BY <1>1 DEF CheckPlan, LeaseFor, Jobs
    <2> QED
      BY <1>2, <2>2, <2>3, GotoKeeps DEF CheckPlan, JobSteps, world, budgets
  <1>3. CASE GoIdle(w)
    BY <1>1, <1>3, EndKeeps DEF CheckPlan, world, budgets, history, IndexInv, Typed
  <1> QED
    BY <1>2, <1>3 DEF CheckPlan

\* ... and again under the lease, from where on the source stays as it is.
LEMMA TakeLeaseKeeps ==
  ASSUME EmbeddingAssumption, IndexInv, NEW w \in Writers, TakeLease(w)
  PROVE  IndexInv'
  <1>1. job[w] \in Jobs /\ JobKnows(w) /\ job[w].at = "checked" /\ lease # w
    BY HolderHas DEF TakeLease, At
  <1> DEFINE answer == Inspection(PlannedContract(w))
             r == [job[w] EXCEPT !.at = "build", !.current = answer]
  <1>2. CASE lease = None /\ PlanMatches(w)
    <2>1. job[w].plan \in Plans /\ job[w].plan.answer.state # "repair_required"
      BY <1>1 DEF JobKnows
    <2>2. PlannedContract(w) \in Contracts
      BY <2>1 DEF PlannedContract, Plans, Answers, Configs
    <2>3. answer \in Answers /\ answer = job[w].plan.answer /\ answer.source = source
      BY <1>2, <2>1, <2>2, InspectionTells DEF PlanMatches, IndexInv
    <2>4. r \in Jobs /\ r.at = "build" /\ r.current = answer /\ r.plan = job[w].plan
      BY <1>1, <2>3 DEF Jobs, JobSteps
    <2>5. job' = [job EXCEPT ![w] = r]
      BY <1>2 DEF TakeLease, IndexInv, Typed
    <2>6. job'[w] = r
      BY <2>5 DEF IndexInv, Typed
    <2>7. JobKnows(w)'
      BY <2>1, <2>3, <2>4, <2>6 DEF TakeLease, world, JobKnows, At, Executing, Staged
    <2>8. LeaseFor(w, r)
      BY <1>2, <2>4 DEF TakeLease, LeaseFor
    <2> QED
      BY <2>4, <2>5, <2>7, <2>8, SilentStep DEF TakeLease, world, budgets
  <1>3. CASE ~ (lease = None /\ PlanMatches(w))
    BY <1>1, <1>3, EndKeeps DEF TakeLease, world, budgets, history, IndexInv, Typed
  <1> QED
    BY <1>2, <1>3

\* The stage is what the plan wants.
LEMMA BuildKeeps ==
  ASSUME EmbeddingAssumption, IndexInv, NEW w \in Writers, Build(w)
  PROVE  IndexInv'
  <1>1. job[w] \in Jobs /\ JobKnows(w) /\ job[w].at = "build" /\ lease = w
    BY HolderHas DEF Build, At, Executing
  <1>2. ASSUME NEW g \in Gens,
               job' = [job EXCEPT ![w].at = "recheck", ![w].id = g,
                         ![w].stage = [state |-> "whole", source |-> job[w].current.source,
                                       contract |-> PlannedContract(w)]]
        PROVE  IndexInv'
    <2> DEFINE r == [job[w] EXCEPT !.at = "recheck", !.id = g, !.stage = Wanted(w)]
    <2>1. /\ job[w].plan \in Plans /\ job[w].plan.answer.state # "repair_required"
          /\ job[w].current = job[w].plan.answer /\ job[w].current.source = source
      BY <1>1 DEF JobKnows, Executing
    <2>2. Wanted(w) \in Directories
      BY <2>1 DEF Wanted, Directories, PlannedContract, Plans, Answers, Configs, IndexInv, Typed
    <2>3. /\ r \in Jobs /\ r.at = "recheck" /\ r.id = g /\ r.stage = Wanted(w)
          /\ r.plan = job[w].plan /\ r.current = job[w].current
      BY <1>1, <2>2 DEF Jobs, JobSteps
    <2>4. job' = [job EXCEPT ![w] = r]
      BY <1>2, <2>1 DEF Wanted, IndexInv, Typed
    <2>5. job'[w] = r
      BY <2>4 DEF IndexInv, Typed
    <2>6. Wanted(w)' = Wanted(w)
      BY <2>3, <2>5 DEF Build, world, Wanted, PlannedContract
    <2>7. JobKnows(w)'
      BY <2>1, <2>3, <2>5, <2>6 DEF Build, world, JobKnows, At, Executing, Staged
    <2>8. LeaseFor(w, r)
      BY <1>1, <2>3 DEF Build, LeaseFor
    <2> QED
      BY <2>3, <2>4, <2>7, <2>8, SilentStep DEF Build, world
  <1>3. CASE Failing(w)
    BY <1>1, <1>3, FailKeeps DEF Failing, Build, world
  <1> QED
    BY <1>2, <1>3 DEF Build

\* What has been done before a later step of the holder.
ReadyFor(w, step) ==
  /\ step = "move" => gens'[job[w].id].state = "partial"
  /\ step \in {"intent", "flip"} => gens'[job[w].id] = job[w].stage
  /\ step = "flip" => job[w].id \in intents'

\* A step that goes on keeps plan, stage and what is wanted.
LEMMA GoesOnKnows ==
  ASSUME EmbeddingAssumption, IndexInv, NEW w \in Writers, NEW step \in Staged,
         job[w].at \in Staged, Goto(w, step), source' = source, ReadyFor(w, step)
  PROVE  JobKnows(w)'
  <1>1. job[w] \in Jobs /\ JobKnows(w)
    BY HolderHas
  <1>2. job'[w] = [job[w] EXCEPT !.at = step]
    BY DEF Goto, IndexInv, Typed
  <1>3. /\ job'[w].at = step /\ job'[w].plan = job[w].plan /\ job'[w].id = job[w].id
        /\ job'[w].stage = job[w].stage /\ job'[w].current = job[w].current
    BY <1>1, <1>2 DEF Jobs
  <1>4. Wanted(w)' = Wanted(w)
    BY <1>3 DEF Wanted, PlannedContract
  <1>5. /\ job[w].plan \in Plans /\ job[w].plan.answer.state # "repair_required"
        /\ job[w].current = job[w].plan.answer /\ job[w].current.source = source
        /\ job[w].id \in Gens /\ job[w].stage = Wanted(w)
    BY <1>1 DEF JobKnows, Staged, Executing
  <1> QED
    BY <1>3, <1>4, <1>5 DEF ReadyFor, JobKnows, At, Staged, Executing

\* What the provider took its time for is compared once more.
LEMMA RecheckKeeps ==
  ASSUME EmbeddingAssumption, IndexInv, NEW w \in Writers, Recheck(w)
  PROVE  IndexInv'
  <1>1. job[w] \in Jobs /\ job[w].at = "recheck" /\ lease = w
    BY HolderHas DEF Recheck, At, Executing
  <1>2. CASE Goto(w, "reserve")
    <2>1. JobKnows(w)'
      <3>1. "reserve" \in Staged /\ job[w].at \in Staged /\ source' = source
        BY <1>1 DEF Recheck, world, Staged, Executing
      <3>2. ReadyFor(w, "reserve")
        BY DEF ReadyFor
      <3> QED
        BY <1>2, <3>1, <3>2, GoesOnKnows
    <2>2. LeaseFor(w, [job[w] EXCEPT !.at = "reserve"])
      BY <1>1 DEF Recheck, LeaseFor, Jobs
    <2> QED
      BY <1>2, <2>1, <2>2, GotoKeeps DEF Recheck, world, budgets, JobSteps
  <1>3. CASE GiveUp(w)
    BY <1>1, <1>3, FailKeeps DEF Recheck, world, budgets
  <1> QED
    BY <1>2, <1>3 DEF Recheck

\* A step under the lease that fills the directory of its own generation.
LEMMA FillKeeps ==
  ASSUME EmbeddingAssumption, IndexInv, NEW w \in Writers, NEW step \in Staged,
         NEW d \in Directories, lease = w, lease' = w, Goto(w, step), JobKnows(w)',
         job[w].id \in Gens, gens[job[w].id].state # "whole",
         gens' = [gens EXCEPT ![job[w].id] = d],
         UNCHANGED <<source, drift, config, edits, snapshot, reader, history>>
  PROVE  IndexInv'
  <1>1. job[w] \in Jobs /\ gens \in [Gens -> Directories]
    BY DEF IndexInv, Typed
  <1>2. [job[w] EXCEPT !.at = step] \in Jobs /\ [job[w] EXCEPT !.at = step].at = step
    BY <1>1 DEF Jobs, Staged, Executing, JobSteps
  <1>3. job' = [job EXCEPT ![w] = [job[w] EXCEPT !.at = step]]
    BY DEF Goto
  <1>4. WholeStays /\ gens' \in [Gens -> Directories]
    BY <1>1 DEF WholeStays
  <1>5. LeaseFor(w, [job[w] EXCEPT !.at = step])
    BY <1>2 DEF LeaseFor, Staged, Executing
  <1> QED
    BY <1>2, <1>3, <1>4, <1>5, QuietStep DEF history, IndexInv, Typed

\* The directory of a new generation is made, or a collision is noticed.
LEMMA ReserveKeeps ==
  ASSUME EmbeddingAssumption, IndexInv, NEW w \in Writers, Reserve(w)
  PROVE  IndexInv'
  <1>1. job[w] \in Jobs /\ JobKnows(w) /\ job[w].at = "reserve" /\ lease = w
    BY HolderHas DEF Reserve, At, Executing
  <1>2. job[w].id \in Gens
    BY <1>1 DEF JobKnows, Staged, Executing
  <1>3. CASE gens[job[w].id].state = "absent"
    <2> DEFINE d == [NoDirectory EXCEPT !.state = "partial"]
    <2>1. d \in Directories /\ d.state = "partial"
      BY EmptyTyped DEF Directories, NoDirectory
    <2>2. gens' = [gens EXCEPT ![job[w].id] = d] /\ Goto(w, "move")
      BY <1>3 DEF Reserve
    <2>3. gens'[job[w].id].state = "partial"
      BY <1>2, <2>1, <2>2 DEF IndexInv, Typed
    <2>4. JobKnows(w)'
      <3>1. "move" \in Staged /\ job[w].at \in Staged /\ source' = source
        BY <1>1 DEF Reserve, world, Staged, Executing
      <3>2. ReadyFor(w, "move")
        BY <2>3 DEF ReadyFor
      <3> QED
        BY <2>2, <3>1, <3>2, GoesOnKnows
    <2> HIDE DEF d
    <2> QED
      BY <1>1, <1>2, <1>3, <2>1, <2>2, <2>4, FillKeeps
         DEF Reserve, world, budgets, Staged, Executing
  <1>4. CASE gens[job[w].id].state # "absent"
    BY <1>1, <1>4, FailKeeps DEF Reserve, world, budgets
  <1> QED
    BY <1>3, <1>4

\* The stage becomes the directory, whole or not at all.
LEMMA MoveKeeps ==
  ASSUME EmbeddingAssumption, IndexInv, NEW w \in Writers, Move(w)
  PROVE  IndexInv'
  <1>1. job[w] \in Jobs /\ JobKnows(w) /\ job[w].at = "move" /\ lease = w
    BY HolderHas DEF Move, At, Executing
  <1>2. job[w].id \in Gens /\ job[w].stage \in Directories
    BY <1>1 DEF JobKnows, Staged, Executing, Jobs
  <1>3. gens[job[w].id].state = "partial"
    BY <1>1 DEF JobKnows, At
  <1>4. CASE gens' = [gens EXCEPT ![job[w].id] = job[w].stage] /\ Goto(w, "intent")
    <2>1. gens'[job[w].id] = job[w].stage
      BY <1>2, <1>4 DEF IndexInv, Typed
    <2>2. JobKnows(w)'
      <3>1. "intent" \in Staged /\ job[w].at \in Staged /\ source' = source
        BY <1>1 DEF Move, world, Staged, Executing
      <3>2. ReadyFor(w, "intent")
        BY <2>1 DEF ReadyFor
      <3> QED
        BY <1>4, <3>1, <3>2, GoesOnKnows
    <2> QED
      BY <1>1, <1>2, <1>3, <1>4, <2>2, FillKeeps DEF Move, world, Staged, Executing
  <1>5. CASE Failing(w) /\ UNCHANGED gens
    BY <1>1, <1>5, FailKeeps DEF Failing, Move, world
  <1> QED
    BY <1>4, <1>5 DEF Move

\* The intent is in the log before the pointer changes.
LEMMA IntentKeeps ==
  ASSUME EmbeddingAssumption, IndexInv, NEW w \in Writers, Intent(w)
  PROVE  IndexInv'
  <1>1. job[w] \in Jobs /\ JobKnows(w) /\ job[w].at = "intent" /\ lease = w
    BY HolderHas DEF Intent, At, Executing
  <1>2. job[w].id \in Gens /\ gens[job[w].id] = job[w].stage
    BY <1>1 DEF JobKnows, Staged, Executing
  <1>3. CASE intents' = intents \cup {job[w].id} /\ Goto(w, "flip")
    <2>1. JobKnows(w)'
      <3>1. "flip" \in Staged /\ job[w].at \in Staged /\ source' = source
        BY <1>1 DEF Intent, world, Staged, Executing
      <3>2. ReadyFor(w, "flip")
        BY <1>2, <1>3 DEF Intent, ReadyFor
      <3> QED
        BY <1>3, <3>1, <3>2, GoesOnKnows
    <2> DEFINE r == [job[w] EXCEPT !.at = "flip"]
    <2>2. r \in Jobs /\ r.at = "flip" /\ job' = [job EXCEPT ![w] = r]
      BY <1>1, <1>3 DEF Jobs, JobSteps, Goto
    <2>3. LeaseFor(w, r)
      BY <1>1, <2>2 DEF Intent, LeaseFor
    <2> HIDE DEF r
    <2> QED
      BY <1>1, <1>2, <1>3, <2>1, <2>2, <2>3, QuietStep
         DEF Intent, world, WholeStays, IndexInv, Typed
  <1>4. CASE Failing(w) /\ UNCHANGED intents
    BY <1>1, <1>4, FailKeeps DEF Failing, Intent, world, history
  <1> QED
    BY <1>3, <1>4 DEF Intent

\* Whoever is done, or gives up, gives the lease back.
LEMMA FinishKeeps ==
  ASSUME EmbeddingAssumption, IndexInv, NEW w \in Writers,
         Complete(w) \/ ReportFailure(w) \/ Crash(w)
  PROVE  IndexInv'
  <1>1. CASE Complete(w)
    BY <1>1, HolderHas, EndKeeps DEF Complete, At, world, budgets, history, IndexInv, Typed
  <1>2. CASE ReportFailure(w)
    <2>1. refused' \subseteq Gens
      BY <1>2 DEF ReportFailure, IndexInv, Typed, Jobs
    <2> QED
      BY <1>2, <2>1, HolderHas, EndKeeps DEF ReportFailure, At, world, budgets
  <1>3. CASE Crash(w)
    BY <1>3, EndKeeps DEF Crash, world, history, IndexInv, Typed
  <1> QED
    BY <1>1, <1>2, <1>3

-----------------------------------------------------------------------------
(* The pointer, the world and the readers *)

\* A step of no writer that leaves directories, jobs and the extension alone.
LEMMA WorldStep ==
  ASSUME EmbeddingAssumption, IndexInv,
         UNCHANGED <<source, gens, lease, job, reader, history>>,
         snapshot' \in Snapshots, snapshot'.ext = snapshot.ext, drift' \in BOOLEAN,
         config' \in Configs, edits' \in Nat, config'.rev <= edits', edits' <= MaxEdits
  PROVE  IndexInv'
  <1>1. Typed' /\ LeaseIsHeld'
    BY DEF IndexInv, Typed, LeaseIsHeld, history
  <1>2. PointerKnows'
    BY DEF IndexInv, PointerKnows, PointerIsWhole, EverActiveIsRetained, ActiveHasIntent,
           history
  <1>3. ASSUME NEW v \in Writers PROVE JobKnows(v)'
    BY <1>3, JobStays DEF history
  <1>4. BoundIsWhole' /\ \A r \in Readers : ReadKnows(r)'
    BY ReadsStay DEF WholeStays
  <1> QED
    BY <1>1, <1>2, <1>3, <1>4 DEF IndexInv

\* The user's editor and the first publication of the base.
LEMMA WorldKeeps ==
  ASSUME EmbeddingAssumption, IndexInv,
         EditConfig \/ EditDocument \/ \E w \in Writers : WriteBase(w)
  PROVE  IndexInv'
  <1>0. /\ config \in Configs /\ snapshot \in Snapshots /\ edits \in Nat /\ MaxEdits \in Nat
        /\ drift \in BOOLEAN /\ config.rev <= edits /\ edits <= MaxEdits
    BY DEF IndexInv, Typed, EmbeddingAssumption
  <1>1. CASE EditConfig
    BY <1>0, <1>1, WorldStep DEF EditConfig, Configs
  <1>2. CASE EditDocument
    BY <1>0, <1>2, WorldStep DEF EditDocument, Configs
  <1>3. CASE \E w \in Writers : WriteBase(w)
    <2>1. /\ snapshot' = [snapshot EXCEPT !.base = config.contract]
          /\ UNCHANGED <<world, gens, lease, job, reader, history, budgets>>
      BY <1>3 DEF WriteBase
    <2>2. snapshot' \in Snapshots /\ snapshot'.ext = snapshot.ext
      BY <1>0, <2>1 DEF Snapshots, Configs
    <2> QED
      BY <1>0, <2>1, <2>2, WorldStep DEF world, budgets
  <1> QED
    BY <1>1, <1>2, <1>3

\* A commit finds the lease free, so nobody builds for the source before it.
LEMMA CommitKeeps ==
  ASSUME EmbeddingAssumption, IndexInv, NEW w \in Writers, Commit(w)
  PROVE  IndexInv'
  <1> DEFINE r == [job[w] EXCEPT !.at = "nonready"]
  <1>1. job[w] \in Jobs /\ r \in Jobs /\ r.at = "nonready"
    BY DEF IndexInv, Typed, Jobs, JobSteps
  <1>2. job' = [job EXCEPT ![w] = r] /\ job'[w] = r
    BY <1>1 DEF Commit, Goto, IndexInv, Typed
  <1>3. LeaseIsHeld' /\ lease' \in Writers \cup {None}
    <2>1. LeaseFor(w, r)
      BY <1>1 DEF Commit, LeaseFor
    <2> QED
      BY <1>2, <2>1, LeaseStays
  <1>4. source' \in Commits
    BY DEF Commit, IndexInv, Typed, Commits, EmbeddingAssumption
  <1>5. Typed'
    BY <1>1, <1>2, <1>3, <1>4 DEF Commit, IndexInv, Typed, history, budgets
  <1>6. PointerKnows' /\ BoundIsWhole' /\ \A x \in Readers : ReadKnows(x)'
    BY PointerStays, ReadsStay DEF Commit, WholeStays, history
  <1>7. ASSUME NEW v \in Writers PROVE JobKnows(v)'
    <2>1. CASE v = w
      BY <1>1, <1>2, <2>1, RestKnows
    <2>2. CASE v # w
      <3>1. job'[v] = job[v] /\ lease # v
        BY <1>2, <2>2 DEF Commit, IndexInv, Typed, EmbeddingAssumption
      <3> QED
        BY <3>1, JobStays DEF Commit, history
    <2> QED
      BY <2>1, <2>2
  <1> QED
    BY <1>3, <1>5, <1>6, <1>7 DEF IndexInv

\* A holder that publishes, and then has nothing more to know.
LEMMA PublishStep ==
  ASSUME EmbeddingAssumption, IndexInv, NEW w \in Writers, NEW r \in Jobs,
         job' = [job EXCEPT ![w] = r], r.at \in {"idle", "complete", "failed"},
         LeaseFor(w, r), snapshot' \in Snapshots, ever' \subseteq Gens, PointerKnows',
         UNCHANGED <<source, drift, config, edits, gens, reader, intents, refused>>
  PROVE  IndexInv'
  <1>1. LeaseIsHeld' /\ lease' \in Writers \cup {None}
    BY LeaseStays
  <1>2. Typed'
    BY <1>1 DEF IndexInv, Typed
  <1>3. ASSUME NEW v \in Writers PROVE JobKnows(v)'
    <2>1. CASE v = w
      <3>1. job'[v] = r
        BY <2>1 DEF IndexInv, Typed
      <3> QED
        BY <3>1, RestKnows
    <2>2. CASE v # w
      <3>1. job'[v] = job[v]
        BY <2>2 DEF IndexInv, Typed
      <3> QED
        BY <3>1, JobStays
    <2> QED
      BY <2>1, <2>2
  <1>4. BoundIsWhole' /\ \A x \in Readers : ReadKnows(x)'
    BY ReadsStay DEF WholeStays
  <1> QED
    BY <1>1, <1>2, <1>3, <1>4 DEF IndexInv

\* A binding that is not ready forgets nothing the pointer has named.
LEMMA PublishNonReadyKeeps ==
  ASSUME EmbeddingAssumption, IndexInv, NEW w \in Writers, PublishNonReady(w)
  PROVE  IndexInv'
  <1>1. lease = w /\ lease' = None /\ job' = [job EXCEPT ![w] = Idle]
    BY HolderHas DEF PublishNonReady, At, GoIdle
  <1>2. Idle \in Jobs /\ Idle.at = "idle" /\ LeaseFor(w, Idle)
    BY <1>1, EmptyTyped DEF Idle, LeaseFor
  <1>3. /\ config \in Configs /\ snapshot \in Snapshots /\ source \in Commits
        /\ snapshot.ext \in Extensions \cup {None}
    BY DEF IndexInv, Typed, Snapshots
  <1>4. snapshot' \in Snapshots /\ PointerKnows'
    <2>1. CASE snapshot' = snapshot
      BY <2>1, <1>3, PointerStays DEF PublishNonReady, WholeStays, history
    <2>2. CASE snapshot' = [snapshot EXCEPT !.ext = MergedNonReady(@, config.contract)]
      <3> DEFINE merged == MergedNonReady(snapshot.ext, config.contract)
      <3>1. merged \in Extensions /\ merged.state = "nonready"
        BY <1>3 DEF MergedNonReady, NewExtension, Extensions, Configs
      <3>2. snapshot.ext # None => merged.retained = snapshot.ext.retained
        BY <1>3 DEF MergedNonReady, Extensions
      <3>3. snapshot' \in Snapshots /\ snapshot'.ext = merged
        BY <1>3, <2>2, <3>1 DEF Snapshots
      <3>4. ever # {} => snapshot.ext # None
        BY DEF IndexInv, PointerKnows, EmbeddingAssumption
      <3>5. PointerKnows
        BY DEF IndexInv
      <3> HIDE DEF merged
      <3> QED
        BY <3>1, <3>2, <3>3, <3>4, <3>5 DEF PublishNonReady, history, PointerKnows,
           PointerIsWhole, EverActiveIsRetained, ActiveHasIntent
    <2> QED
      BY <2>1, <2>2 DEF PublishNonReady
  <1> QED
    BY <1>1, <1>2, <1>4, PublishStep
       DEF PublishNonReady, world, history, budgets, IndexInv, Typed

\* The pointer goes to the whole generation that the intent names.
LEMMA FlipKeeps ==
  ASSUME EmbeddingAssumption, IndexInv, NEW w \in Writers, Flip(w)
  PROVE  IndexInv'
  <1>1. job[w] \in Jobs /\ JobKnows(w) /\ job[w].at = "flip" /\ lease = w
    BY HolderHas DEF Flip, At, Executing
  <1>2. CASE snapshot # job[w].current.snapshot
    BY <1>1, <1>2, FailKeeps DEF Flip, world, history
  <1>3. CASE snapshot = job[w].current.snapshot
    <2>1. /\ snapshot' = [snapshot EXCEPT !.ext = Flipped(w)]
          /\ ever' = ever \cup {job[w].id}
          /\ Goto(w, "complete") \/ Goto(w, "failed")
          /\ UNCHANGED <<world, gens, lease, reader, intents, refused, edits, crashes>>
      BY <1>3 DEF Flip, Failing
    <2>2. PICK r \in Jobs : job' = [job EXCEPT ![w] = r] /\ r.at \in {"complete", "failed"}
      <3>1. PICK step \in {"complete", "failed"} : Goto(w, step)
        BY <2>1
      <3>2. [job[w] EXCEPT !.at = step] \in Jobs /\ [job[w] EXCEPT !.at = step].at = step
        BY <1>1 DEF Jobs, JobSteps
      <3> QED
        BY <3>1, <3>2 DEF Goto
    <2>3. LeaseFor(w, r)
      BY <1>1, <2>1, <2>2 DEF LeaseFor
    <2>4. /\ job[w].plan \in Plans /\ job[w].current = job[w].plan.answer
          /\ job[w].current.source = source /\ job[w].id \in Gens
          /\ gens[job[w].id] = Wanted(w) /\ job[w].id \in intents
      BY <1>1 DEF JobKnows, At, Staged, Executing
    <2>5. /\ PlannedContract(w) \in Contracts
          /\ job[w].current.active \in Gens \cup {None}
      BY <2>4 DEF PlannedContract, Plans, Answers, Configs
    <2>6. snapshot \in Snapshots /\ snapshot.ext \in Extensions \cup {None} /\ source \in Commits
      BY DEF IndexInv, Typed, Snapshots
    <2> DEFINE old == IF snapshot.ext = None THEN NewExtension ELSE snapshot.ext
               named == IF job[w].current.active = None THEN {} ELSE {job[w].current.active}
    <2>7. old.retained \subseteq Gens /\ named \subseteq Gens
      BY <2>5, <2>6 DEF NewExtension, Extensions
    <2>8. Flipped(w) = [state |-> "ready", digest |-> source, contract |-> PlannedContract(w),
                        active |-> job[w].id, previous |-> job[w].current.active,
                        retained |-> old.retained \cup {job[w].id} \cup named]
      BY <2>4 DEF Flipped
    <2>9. ever \subseteq old.retained
      BY DEF IndexInv, PointerKnows, EverActiveIsRetained, EmbeddingAssumption
    <2> HIDE DEF old, named
    <2>10. /\ Flipped(w) \in Extensions /\ Flipped(w).state = "ready"
           /\ Flipped(w).active = job[w].id /\ ever' \subseteq Flipped(w).retained
           /\ gens[job[w].id] = [state |-> "whole", source |-> Flipped(w).digest,
                                 contract |-> Flipped(w).contract]
      BY <2>1, <2>4, <2>5, <2>6, <2>7, <2>8, <2>9 DEF Extensions, Wanted
    <2>11. snapshot' \in Snapshots /\ snapshot'.ext = Flipped(w)
      BY <2>1, <2>6, <2>10 DEF Snapshots
    <2>12. ever' \subseteq Gens /\ ever' \subseteq intents
      BY <2>1, <2>4 DEF IndexInv, Typed, PointerKnows, ActiveHasIntent
    <2>13. PointerKnows'
      BY <2>1, <2>4, <2>10, <2>11, <2>12 DEF PointerKnows, PointerIsWhole,
         EverActiveIsRetained, ActiveHasIntent
    <2> QED
      BY <2>1, <2>2, <2>3, <2>11, <2>12, <2>13, PublishStep DEF world
  <1> QED
    BY <1>2, <1>3

\* A step of one reader.
LEMMA ReadStep ==
  ASSUME EmbeddingAssumption, IndexInv, NEW r \in Readers, NEW x \in Reads,
         reader' = [reader EXCEPT ![r] = x],
         x.at \in {"read", "captured", "bound"} => x.contract \in Contracts,
         x.at \in {"read", "captured"} => x.snap \in Snapshots,
         x.at = "bound" =>
           /\ x.bound \in Gens
           /\ gens[x.bound] = [state |-> "whole", source |-> x.source,
                               contract |-> x.contract],
         UNCHANGED <<world, snapshot, gens, lease, job, history, budgets>>
  PROVE  IndexInv'
  <1>1. reader' \in [Readers -> Reads] /\ reader'[r] = x
        /\ \A q \in Readers : q # r => reader'[q] = reader[q]
    BY DEF IndexInv, Typed
  <1>2. Typed' /\ LeaseIsHeld'
    BY <1>1 DEF IndexInv, Typed, LeaseIsHeld, world, history, budgets
  <1>3. PointerKnows'
    BY PointerStays DEF WholeStays, history
  <1>4. ASSUME NEW v \in Writers PROVE JobKnows(v)'
    BY <1>4, JobStays DEF world, history
  <1>5. BoundIsWhole' /\ \A q \in Readers : ReadKnows(q)'
    <2>1. BoundIsWhole /\ \A q \in Readers : ReadKnows(q)
      BY DEF IndexInv
    <2> QED
      BY <1>1, <2>1 DEF BoundIsWhole, ReadKnows
  <1> QED
    BY <1>2, <1>3, <1>4, <1>5 DEF IndexInv

\* A reader binds only what the snapshot it has read, and the source it has
\* captured, say of a whole directory.
LEMMA ReaderKeeps ==
  ASSUME EmbeddingAssumption, IndexInv, NEW r \in Readers,
         ReadSnapshot(r) \/ Capture(r) \/ Resolve(r) \/ FinishRead(r)
  PROVE  IndexInv'
  <1>1. /\ reader[r] \in Reads /\ ReadKnows(r) /\ IdleReader \in Reads
        /\ config \in Configs /\ snapshot \in Snapshots /\ source \in Commits
        /\ gens \in [Gens -> Directories]
    BY EmptyTyped DEF IndexInv, Typed
  <1>2. IdleReader.at = "idle"
    BY DEF IdleReader
  <1>3. CASE reader' = [reader EXCEPT ![r] = IdleReader]
    <2>1. UNCHANGED <<world, snapshot, gens, lease, job, history, budgets>>
      BY DEF ReadSnapshot, Capture, Resolve, FinishRead
    <2> QED
      BY <1>1, <1>2, <1>3, <2>1, ReadStep
  <1>4. CASE ReadSnapshot(r)
    <2> DEFINE x == [IdleReader EXCEPT !.at = "read", !.contract = config.contract,
                                       !.snap = snapshot]
    <2>1. /\ x \in Reads /\ x.at = "read" /\ x.contract \in Contracts /\ x.snap \in Snapshots
      BY <1>1 DEF Reads, IdleReader, Configs
    <2>2. reader' = [reader EXCEPT ![r] = x]
      BY <1>4 DEF ReadSnapshot
    <2> HIDE DEF x
    <2> QED
      BY <1>4, <2>1, <2>2, ReadStep DEF ReadSnapshot
  <1>5. CASE Capture(r) /\ ~ drift
    <2> DEFINE x == [reader[r] EXCEPT !.at = "captured", !.source = source]
    <2>1. /\ x \in Reads /\ x.at = "captured" /\ x.contract = reader[r].contract
          /\ x.snap = reader[r].snap
      BY <1>1 DEF Reads
    <2>2. reader' = [reader EXCEPT ![r] = x]
      BY <1>5 DEF Capture
    <2>3. reader[r].contract \in Contracts /\ reader[r].snap \in Snapshots
      BY <1>1, <1>5 DEF Capture, ReadKnows
    <2> HIDE DEF x
    <2> QED
      BY <1>5, <2>1, <2>2, <2>3, ReadStep DEF Capture
  <1>6. CASE Resolve(r) /\ Bindable(r)
    <2> DEFINE x == [reader[r] EXCEPT !.at = "bound", !.bound = reader[r].snap.ext.active]
               cfg == Loaded(reader[r].contract)
    <2>1. reader[r].contract \in Contracts /\ reader[r].snap \in Snapshots
          /\ reader[r].source \in Commits \cup {None}
      BY <1>1, <1>6 DEF Resolve, ReadKnows, Reads
    <2>2. cfg \in Configs /\ cfg.contract = reader[r].contract
      BY <1>1, <2>1 DEF Loaded, Configs
    <2>3. Serves(reader[r].snap, reader[r].source, cfg)
      <3>1. InspectedAs(reader[r].snap, reader[r].source, cfg).state = "ready"
        BY <1>6 DEF Bindable
      <3> HIDE DEF cfg
      <3> QED
        BY <1>1, <2>1, <2>2, <3>1, InspectedTells
    <2>4. /\ reader[r].snap.ext.active \in Gens
          /\ gens[reader[r].snap.ext.active] =
               [state |-> "whole", source |-> reader[r].source,
                contract |-> reader[r].contract]
      BY <2>2, <2>3 DEF Serves
    <2>5. /\ x \in Reads /\ x.at = "bound" /\ x.bound = reader[r].snap.ext.active
          /\ x.source = reader[r].source /\ x.contract = reader[r].contract
      BY <1>1, <2>4 DEF Reads
    <2>6. reader' = [reader EXCEPT ![r] = x]
      BY <1>6 DEF Resolve
    <2>7. UNCHANGED <<world, snapshot, gens, lease, job, history, budgets>>
      BY <1>6 DEF Resolve
    <2> HIDE DEF x, cfg
    <2>8. /\ x.at \in {"read", "captured", "bound"} => x.contract \in Contracts
          /\ x.at \in {"read", "captured"} => x.snap \in Snapshots
          /\ x.at = "bound" =>
               /\ x.bound \in Gens
               /\ gens[x.bound] = [state |-> "whole", source |-> x.source,
                                   contract |-> x.contract]
      BY <2>1, <2>4, <2>5
    <2> QED
      BY <2>5, <2>6, <2>7, <2>8, ReadStep
  <1> QED
    BY <1>3, <1>4, <1>5, <1>6 DEF Capture, Resolve, FinishRead

-----------------------------------------------------------------------------
(* The theorems *)

\* At the start nothing is known, and nothing needs to be.
LEMMA InitIndex == EmbeddingAssumption /\ Init => IndexInv
  <1> SUFFICES ASSUME EmbeddingAssumption, Init PROVE IndexInv
    OBVIOUS
  <1>1. NoDirectory \in Directories /\ Idle \in Jobs /\ IdleReader \in Reads /\ 0 \in Commits
    BY EmptyTyped DEF EmbeddingAssumption, Commits
  <1>2. Typed
    <2>1. snapshot \in Snapshots /\ config \in Configs /\ config.rev = 0
      BY DEF Init, Snapshots, Configs
    <2>2. /\ gens \in [Gens -> Directories] /\ job \in [Writers -> Jobs]
          /\ reader \in [Readers -> Reads]
      BY <1>1 DEF Init
    <2>3. 0 <= MaxEdits /\ source \in Commits
      BY <1>1 DEF Init, EmbeddingAssumption
    <2>4. drift \in BOOLEAN /\ lease \in Writers \cup {None}
      BY DEF Init
    <2>5. intents \subseteq Gens /\ ever \subseteq Gens /\ refused \subseteq Gens
      BY DEF Init
    <2>6. edits \in Nat /\ config.rev <= edits /\ edits <= MaxEdits
      BY <2>1, <2>3 DEF Init
    <2> QED
      BY <2>1, <2>2, <2>3, <2>4, <2>5, <2>6 DEF Typed
  <1>3. LeaseIsHeld /\ PointerKnows /\ BoundIsWhole
    BY DEF Init, LeaseIsHeld, PointerKnows, PointerIsWhole, EverActiveIsRetained,
           ActiveHasIntent, BoundIsWhole, Idle, IdleReader, EmbeddingAssumption
  <1>4. ASSUME NEW w \in Writers PROVE JobKnows(w)
    BY DEF Init, JobKnows, At, Executing, Staged, Idle
  <1>5. ASSUME NEW r \in Readers PROVE ReadKnows(r)
    BY DEF Init, ReadKnows, IdleReader
  <1> QED
    BY <1>2, <1>3, <1>4, <1>5 DEF IndexInv

\* Every step keeps it.
LEMMA NextIndex == EmbeddingAssumption /\ IndexInv /\ [Next]_vars => IndexInv'
  <1> SUFFICES ASSUME EmbeddingAssumption, IndexInv, [Next]_vars PROVE IndexInv'
    OBVIOUS
  <1>1. CASE UNCHANGED vars
    <2>1. UNCHANGED <<source, gens, lease, job, reader, history>>
          /\ UNCHANGED <<snapshot, drift, config, edits>>
      BY <1>1 DEF vars, budgets, history
    <2> QED
      BY <2>1, WorldStep DEF IndexInv, Typed
  <1>2. CASE EditConfig \/ EditDocument \/ \E w \in Writers : WriteBase(w)
    BY <1>2, WorldKeeps
  <1>3. ASSUME NEW w \in Writers, Commit(w) \/ Plan(w) \/ Rebuilding(w) \/ Crash(w)
        PROVE  IndexInv'
    BY <1>3, CommitKeeps, PlanKeeps, CheckPlanKeeps, TakeLeaseKeeps, BuildKeeps, RecheckKeeps,
       ReserveKeeps, MoveKeeps, IntentKeeps, FlipKeeps, FinishKeeps, PublishNonReadyKeeps
       DEF Rebuilding
  <1>4. ASSUME NEW r \in Readers,
               ReadSnapshot(r) \/ Capture(r) \/ Resolve(r) \/ FinishRead(r)
        PROVE  IndexInv'
    BY <1>4, ReaderKeeps
  <1> QED
    BY <1>1, <1>2, <1>3, <1>4 DEF Next

\* In every run the invariant holds.
LEMMA IndexKnows == ASSUME EmbeddingAssumption PROVE Spec => []IndexInv
  <1>1. Init => IndexInv
    BY InitIndex
  <1>2. IndexInv /\ [Next]_vars => IndexInv'
    BY NextIndex
  <1> QED
    BY <1>1, <1>2, PTL DEF Spec

\* A ready pointer names a whole generation of its source and contract, every
\* generation it has named is retained and has its intent in the log, and a read
\* serves the whole generation it has bound until it ends: whatever is built,
\* collides, fails, is edited or dies meanwhile (execute_embedding_rebuild,
\* RuntimeSnapshotStore.publish, resolve_embedding_index_binding).
THEOREM GenerationInvHolds == ASSUME EmbeddingAssumption PROVE Spec => []GenerationInv
  <1>1. IndexInv => GenerationInv
    <2> SUFFICES ASSUME IndexInv PROVE GenerationInv
      OBVIOUS
    <2>1. config \in [rev : 0..MaxEdits, contract : Contracts]
      BY DEF IndexInv, Typed, Configs, EmbeddingAssumption
    <2>2. /\ snapshot.base \in Contracts \cup {None}
          /\ snapshot.ext \in Extensions \cup {None}
      BY DEF IndexInv, Typed, Snapshots
    <2>3. \A g \in Gens : gens[g].state \in {"absent", "partial", "whole"}
      BY DEF IndexInv, Typed, Directories
    <2>4. ASSUME NEW w \in Writers
          PROVE  /\ job[w].at \in JobSteps
                 /\ (lease = w) <=> job[w].at \notin {"idle", "planned", "checked"}
      BY DEF IndexInv, Typed, Jobs, LeaseIsHeld
    <2>5. \A r \in Readers : reader[r].at \in {"idle", "read", "captured", "bound"}
      BY DEF IndexInv, Typed, Reads
    <2> QED
      BY <2>1, <2>2, <2>3, <2>4, <2>5 DEF GenerationInv, EGTypeOK, IndexInv, Typed, PointerKnows
  <1> QED
    BY <1>1, IndexKnows, PTL

\* What a rebuild activates is the source its plan was confirmed for, over the
\* very pointer of the plan, and not older than the last commit
\* (execute_embedding_rebuild, RuntimeSnapshotStore.publish).
THEOREM ConfirmedIsActivatedHolds ==
  ASSUME EmbeddingAssumption PROVE Spec => ConfirmedIsActivated
  <1> DEFINE Confirmed(w) ==
               At(w, "flip") /\ snapshot' # snapshot =>
                 /\ job[w].plan.answer.source = snapshot'.ext.digest
                 /\ job[w].plan.answer.snapshot = snapshot
                 /\ snapshot'.ext.digest = source
  <1>1. IndexInv /\ [Next]_vars => \A w \in Writers : Confirmed(w)
    <2> SUFFICES ASSUME IndexInv, [Next]_vars, NEW w \in Writers,
                        At(w, "flip"), snapshot' # snapshot
                 PROVE  /\ job[w].plan.answer.source = snapshot'.ext.digest
                        /\ job[w].plan.answer.snapshot = snapshot
                        /\ snapshot'.ext.digest = source
      OBVIOUS
    <2>1. JobKnows(w) /\ job[w].at = "flip" /\ lease = w /\ lease # None
      BY HolderHas DEF At, Executing, EmbeddingAssumption
    <2>2. Flip(w)
      <3>1. PICK v \in Writers : WriteBase(v) \/ PublishNonReady(v) \/ Flip(v)
        BY DEF Next, vars, Rebuilding, Commit, Plan, CheckPlan, TakeLease, Build, Recheck,
           Reserve, Move, Intent, Complete, ReportFailure, Crash, ReadSnapshot, Capture,
           Resolve, FinishRead, EditConfig, EditDocument
      <3>2. ~ WriteBase(v)
        BY <2>1 DEF WriteBase
      <3>3. ~ PublishNonReady(v)
        BY <2>1, HolderHas DEF PublishNonReady, At
      <3>4. Flip(v) => v = w
        BY <2>1, HolderHas DEF Flip, At, Executing
      <3> QED
        BY <3>1, <3>2, <3>3, <3>4
    <2>3. snapshot = job[w].current.snapshot /\ snapshot' = [snapshot EXCEPT !.ext = Flipped(w)]
      BY <2>2 DEF Flip
    <2>4. job[w].current = job[w].plan.answer /\ job[w].current.source = source
      BY <2>1 DEF JobKnows, Executing
    <2>5. snapshot'.ext.digest = job[w].current.source
      BY <2>3 DEF Flipped, IndexInv, Typed, Snapshots
    <2> QED
      BY <2>3, <2>4, <2>5
  <1>2. IndexInv /\ [Next]_vars => [\A w \in Writers : Confirmed(w)]_vars
    BY <1>1
  <1> QED
    BY <1>2, IndexKnows, PTL DEF Spec, ConfirmedIsActivated

-----------------------------------------------------------------------------
(* The setup of a data root *)

CONSTANTS Procs, Archiver, Free, PlanConfigs, NoEndpoint, RealDim(_), MaxPlanEdits,
          MaxStops, MaxOps
VARIABLES p_src, p_root, p_dim, p_snap, p_lease, p_proc, p_count

\* The setup, over constants and variables of its own.
P == INSTANCE RuntimePlan WITH
  Configs <- PlanConfigs, MaxEdits <- MaxPlanEdits, src <- p_src, root <- p_root,
  dim <- p_dim, snap <- p_snap, lease <- p_lease, proc <- p_proc, count <- p_count


Endpoints == {c.ep : c \in PlanConfigs} \cup {NoEndpoint}
PlanContracts == [ep : Endpoints, dim : Nat]
Roots == [dirs : BOOLEAN, cache : BOOLEAN, db : {"fresh", "ready", "upgrade"},
          journal : {"clean", "blocked"}]
Acts == SUBSET {"probe", "init", "record"}
Revisions == [cfg : PlanConfigs \cup {P!NoConfig}, src : PlanConfigs,
              world : Roots \X Nat \X PlanContracts, acts : Acts]
Executions == [pc : P!Stages, kind : {"setup", "bootstrap"},
               cfg : PlanConfigs \cup {P!NoConfig}, mem : Nat,
               plan : Revisions \cup {P!NoPlan}, probed : Nat]

PlanTyped == /\ p_src \in PlanConfigs /\ p_root \in Roots /\ p_dim \in PlanContracts
             /\ p_snap \in PlanContracts /\ p_lease \in Procs \cup {Archiver, Free}
             /\ p_proc \in [Procs -> Executions]

\* What was persisted came from a probe; a snapshot stands over a database.
Real == /\ p_dim.dim # 0 => p_dim.dim = RealDim(p_dim.ep)
        /\ P!SnapshotDimensionIsReal
        /\ p_snap # P!NoSnap => p_root.db = "ready"

\* The steps under the lease, those after the source was read again, and those
\* between the probe and the snapshot.
Leased == {"locked", "reload", "probe", "dirs", "cache", "init", "recover",
           "dim", "record"}
Bound == {"probe", "dirs", "cache", "init", "dim", "record"}
Probed == {"dirs", "cache", "init", "dim"}

IsSetup(p) == p_proc[p].kind = "setup"

\* An execution acts under the lease, on a root with no snapshot and nothing to
\* repair, for a Config that some provider can serve.
Executes(p) ==
  IsSetup(p) /\ p_proc[p].pc \in Bound =>
    /\ p_proc[p].cfg \in PlanConfigs /\ P!ProvidersValid(p_proc[p].cfg)
    /\ p_snap = P!NoSnap /\ p_root.journal = "clean"
    /\ p_root.db = "ready" => p_root.cache
    /\ p_proc[p].cfg.dim # 0 => p_proc[p].mem = p_proc[p].cfg.dim
    /\ P!At(p, "init") => p_root.cache

\* Until its first effect it finds what the plan showed.
FollowsPlan(p) ==
  /\ P!At(p, "probe") => /\ p_proc[p].cfg = p_proc[p].plan.cfg
                         /\ "probe" \in p_proc[p].plan.acts
                         /\ "init" \in p_proc[p].plan.acts => ~ p_root.dirs /\ p_root.db = "fresh"
  /\ IsSetup(p) /\ P!At(p, "dirs") => ~ p_root.dirs /\ p_root.db = "fresh"
  /\ IsSetup(p) /\ p_proc[p].pc \in {"probe", "dirs"} =>
       P!World(p_proc[p].plan.cfg, p_proc[p].plan.world[2]) = p_proc[p].plan.world

\* The dimension it goes on with is the one the endpoint answered with, or the
\* one a Config built now resolves to.
KnowsDimension(p) ==
  /\ IsSetup(p) /\ p_proc[p].pc \in Probed =>
       /\ p_proc[p].probed = RealDim(p_proc[p].cfg.ep)
       /\ p_proc[p].mem \in {0, p_proc[p].probed}
  /\ P!At(p, "record") /\ p_proc[p].mem # 0 => p_proc[p].mem = P!PersistedDim(p_proc[p].cfg)

ProcKnows(p) ==
  /\ p_proc[p].pc \in Leased => p_lease = p
  /\ p_proc[p].pc \in {"locked", "reload", "probe", "dim", "record"} => IsSetup(p)
  /\ IsSetup(p) /\ p_proc[p].pc \notin {"idle", "loaded"} => p_proc[p].plan.acts # {}
  /\ Executes(p) /\ FollowsPlan(p) /\ KnowsDimension(p)

SetupInv == PlanTyped /\ Real /\ \A p \in Procs : ProcKnows(p)

-----------------------------------------------------------------------------
(* What a plan tells *)

\* The revision of a typed root is a typed revision.
LEMMA RevisionTyped ==
  ASSUME P!RPAssumption, PlanTyped, NEW c \in PlanConfigs \cup {P!NoConfig}, NEW d \in Nat
  PROVE  P!Revision(c, d) \in Revisions
  <1>1. P!Actions(c, d) \in Acts
    BY DEF P!Actions, Acts
  <1>2. P!World(c, d) \in Roots \X Nat \X PlanContracts
    BY DEF P!World, PlanTyped
  <1> QED
    BY <1>1, <1>2 DEF P!Revision, Revisions, PlanTyped

\* The dimension of a Config is a number.
LEMMA PersistedTyped ==
  ASSUME P!RPAssumption, PlanTyped, NEW c \in PlanConfigs
  PROVE  P!PersistedDim(c) \in Nat
  BY DEF P!PersistedDim, PlanTyped, PlanContracts, P!RPAssumption

\* A plan that can be executed is for a root without a snapshot and without
\* damage; it initialises a new root only, and it probes unless the dimension
\* of a ready root is known.
LEMMA PlanTells ==
  ASSUME PlanTyped, Real, NEW c, NEW d, P!Actions(c, d) # {}
  PROVE  /\ P!ProvidersValid(c) /\ p_snap = P!NoSnap /\ p_root.journal = "clean"
         /\ p_root.db = "ready" => p_root.cache
         /\ "init" \in P!Actions(c, d) => ~ p_root.dirs /\ p_root.db = "fresh"
         /\ P!First(P!Actions(c, d)) \in {"probe", "record"}
         /\ "probe" \notin P!Actions(c, d) => d # 0
         /\ P!First(P!Actions(c, d)) = "probe" <=> "probe" \in P!Actions(c, d)
  <1> USE DEF PlanTyped, Roots
  <1>1. ~ P!Critical
    BY DEF P!Actions, P!Readiness
  <1>2. CASE P!Readiness(c, d) = "setup" /\ P!ProvidersValid(c)
    <2>1. p_root.db = "fresh"
      BY <1>1, <1>2 DEF P!Readiness, P!SnapState
    <2>2. P!Actions(c, d) = {"probe", "init", "record"}
      BY <1>2 DEF P!Actions
    <2> QED
      BY <1>1, <1>2, <2>1, <2>2 DEF P!Critical, P!First, Real
  <1>3. CASE P!Readiness(c, d) = "degraded" /\ P!SnapState(c, d) = "missing"
    <2>1. p_snap = P!NoSnap
      BY <1>3 DEF P!SnapState
    <2>2. P!Actions(c, d) = {"record"} \cup (IF d = 0 THEN {"probe"} ELSE {})
      BY <1>3 DEF P!Actions
    <2>3. P!ProvidersValid(c)
      BY <1>1, <1>3 DEF P!Readiness
    <2> QED
      BY <1>1, <2>1, <2>2, <2>3 DEF P!Critical, P!First
  <1> QED
    BY <1>2, <1>3 DEF P!Actions

-----------------------------------------------------------------------------
(* Frames *)

\* The record of a process between two executions, and its variants at the start.
LEMMA IdleTyped ==
  ASSUME NEW c \in PlanConfigs, NEW m \in Nat
  PROVE  /\ P!Idle \in Executions
         /\ [P!Idle EXCEPT !.pc = "loaded", !.cfg = c, !.mem = m] \in Executions
         /\ [P!Idle EXCEPT !.pc = "waiting", !.kind = "bootstrap", !.cfg = c] \in Executions
  BY DEF P!Idle, Executions, P!Stages

\* A process that does not have the lease knows nothing a step could disturb; a
\* step of another changes the root only when no process but that one has it.
LEMMA Undisturbed ==
  ASSUME P!RPAssumption, SetupInv, NEW q \in Procs, p_proc'[q] = p_proc[q],
         p_lease = q => UNCHANGED <<p_root, p_dim, p_snap, p_lease>>
  PROVE  ProcKnows(q)'
  <1>1. ProcKnows(q)
    BY DEF SetupInv
  <1>2. CASE p_lease = q
    BY <1>1, <1>2 DEF ProcKnows, Executes, FollowsPlan, KnowsDimension, IsSetup, P!At,
       P!World, P!PersistedDim, P!ProvidersValid
  <1>3. CASE p_lease # q
    <2>1. p_proc[q].pc \notin Leased
      BY <1>1, <1>3 DEF ProcKnows
    <2> QED
      BY <1>1, <2>1 DEF ProcKnows, Executes, FollowsPlan, KnowsDimension, IsSetup, P!At,
         Leased, Bound, Probed
  <1> QED
    BY <1>2, <1>3

\* A step of one process leaves the others what they know.
LEMMA StepOf ==
  ASSUME P!RPAssumption, SetupInv, NEW p \in Procs, NEW r, p_proc' = [p_proc EXCEPT ![p] = r],
         PlanTyped', Real', ProcKnows(p)',
         p_lease \notin {p, Free} => UNCHANGED <<p_root, p_dim, p_snap, p_lease>>
  PROVE  SetupInv'
  <1>1. ASSUME NEW q \in Procs, q # p PROVE ProcKnows(q)'
    BY <1>1, Undisturbed DEF PlanTyped, SetupInv, P!RPAssumption
  <1> QED
    BY <1>1 DEF SetupInv
\* A process at rest, or on its way to the lease, knows only its plan.
LEMMA OutsideKnows ==
  ASSUME NEW p \in Procs, p_proc'[p].pc \notin Leased,
         p_proc'[p].kind = "setup" /\ p_proc'[p].pc \notin {"idle", "loaded"}
           => p_proc'[p].plan.acts # {}
  PROVE  ProcKnows(p)'
  BY DEF ProcKnows, Executes, FollowsPlan, KnowsDimension, IsSetup, P!At,
     Leased, Bound, Probed

\* Leaving the lease scope is such a step.
LEMMA LeaveKeeps ==
  ASSUME P!RPAssumption, SetupInv, NEW p \in Procs, p_lease = p, P!Leave(p),
         p_src' \in PlanConfigs, p_root' \in Roots, p_dim' \in PlanContracts, p_snap' \in PlanContracts, Real'
  PROVE  SetupInv'
  <1>1. P!Idle \in Executions
    BY DEF P!Idle, Executions, P!Stages
  <1>2. PlanTyped'
    BY <1>1 DEF P!Leave, P!Set, PlanTyped, SetupInv
  <1>3. ProcKnows(p)'
    BY OutsideKnows DEF P!Leave, P!Set, PlanTyped, SetupInv, P!Idle, Leased
  <1> QED
    BY <1>2, <1>3, StepOf DEF P!Leave, P!Set

-----------------------------------------------------------------------------
(* Planning *)

\* What a step that only moves a process on its way to the lease leaves alone.
LEMMA OutsideKeeps ==
  ASSUME P!RPAssumption, SetupInv, NEW p \in Procs, NEW r \in Executions,
         P!Set(p, r), UNCHANGED <<p_src, p_root, p_dim, p_snap, p_lease>>, r.pc \notin Leased,
         r.kind = "setup" /\ r.pc \notin {"idle", "loaded"} => r.plan.acts # {}
  PROVE  SetupInv'
  <1>1. PlanTyped' /\ Real'
    BY DEF P!Set, SetupInv, PlanTyped, Real, P!SnapshotDimensionIsReal
  <1>2. p_proc'[p] = r
    BY DEF P!Set, SetupInv, PlanTyped
  <1>3. ProcKnows(p)'
    BY <1>2, OutsideKnows
  <1> QED
    BY <1>1, <1>3, StepOf DEF P!Set

\* A Config is loaded; what it shows becomes a plan only with something to do.
LEMMA PlanningKeeps ==
  ASSUME P!RPAssumption, SetupInv, NEW p \in Procs, P!Load(p) \/ P!Plan(p)
  PROVE  SetupInv'
  <1>1. CASE P!Load(p)
    <2>1. [P!Idle EXCEPT !.pc = "loaded", !.cfg = p_src, !.mem = P!PersistedDim(p_src)] \in Executions
      BY PersistedTyped, IdleTyped DEF SetupInv, PlanTyped
    <2> QED
      BY <1>1, <2>1, OutsideKeeps DEF P!Load, P!Idle, Leased
  <1>2. CASE P!Plan(p)
    <2> DEFINE r == P!Revision(p_proc[p].cfg, p_proc[p].mem)
    <2>1. p_proc[p] \in Executions
      BY DEF SetupInv, PlanTyped
    <2>2. r \in Revisions
      BY <2>1, RevisionTyped DEF SetupInv, Executions
    <2>3. CASE r.acts = {}
      BY <1>2, <2>3, IdleTyped, OutsideKeeps DEF SetupInv, PlanTyped, P!Plan, P!Idle, Leased
    <2>4. CASE r.acts # {}
      <3>1. [p_proc[p] EXCEPT !.pc = "planned", !.plan = r] \in Executions
        BY <2>1, <2>2 DEF P!Stages, Executions
      <3>2. P!Set(p, [p_proc[p] EXCEPT !.pc = "planned", !.plan = r])
        BY <1>2, <2>4 DEF P!Plan
      <3> QED
        BY <1>2, <2>1, <2>4, <3>1, <3>2, OutsideKeeps DEF P!Plan, Leased, Executions
    <2> QED
      BY <2>3, <2>4
  <1> QED
    BY <1>1, <1>2

\* A process on its way to the lease moves on.
LEMMA PlanGotoKeeps ==
  ASSUME P!RPAssumption, SetupInv, NEW p \in Procs, NEW s \in P!Stages \ Leased, P!Goto(p, s),
         UNCHANGED <<p_src, p_root, p_dim, p_snap, p_lease>>,
         p_proc[p].pc \notin {"idle", "loaded"} \/ s \in {"idle", "loaded"}
  PROVE  SetupInv'
  <1>1. p_proc[p] \in Executions /\ ProcKnows(p)
    BY DEF SetupInv, PlanTyped
  <1>2. [p_proc[p] EXCEPT !.pc = s] \in Executions
    BY <1>1 DEF Executions
  <1>3. P!Set(p, [p_proc[p] EXCEPT !.pc = s])
    BY DEF P!Goto, P!Set
  <1> QED
    BY <1>1, <1>2, <1>3, OutsideKeeps DEF Executions, ProcKnows, IsSetup

\* The user confirms a plan or not; it is compared with the root once more.
LEMMA ConfirmKeeps ==
  ASSUME P!RPAssumption, SetupInv, NEW p \in Procs,
         (\E network \in BOOLEAN : P!Confirm(p, network)) \/ P!Check(p)
  PROVE  SetupInv'
  <1>1. CASE \E network \in BOOLEAN : P!Confirm(p, network)
    <2>1. PICK s \in {"idle", "confirmed"} : P!Goto(p, s)
      BY <1>1 DEF P!Confirm
    <2> QED
      BY <1>1, <2>1, PlanGotoKeeps DEF P!Confirm, P!At, P!Stages, Leased
  <1>2. CASE P!Check(p)
    <2>1. PICK s \in {"idle", "waiting"} : P!Goto(p, s)
      BY <1>2 DEF P!Check
    <2> QED
      BY <1>2, <2>1, PlanGotoKeeps DEF P!Check, P!At, P!Stages, Leased
  <1> QED
    BY <1>1, <1>2

\* The legacy bootstrap starts with no plan.
LEMMA BeginBootstrapKeeps ==
  ASSUME P!RPAssumption, SetupInv, NEW p \in Procs, P!BeginBootstrap(p)
  PROVE  SetupInv'
  <1>1. [P!Idle EXCEPT !.pc = "waiting", !.kind = "bootstrap", !.cfg = p_src] \in Executions
    BY IdleTyped DEF SetupInv, PlanTyped
  <1> QED
    BY <1>1, OutsideKeeps DEF P!BeginBootstrap, P!Idle, Leased

-----------------------------------------------------------------------------
(* Under the lease *)

\* The lease is taken when nobody has it.
LEMMA AcquireKeeps ==
  ASSUME P!RPAssumption, SetupInv, NEW p \in Procs, P!Acquire(p)
  PROVE  SetupInv'
  <1> DEFINE s == IF p_proc[p].kind = "setup" THEN "locked" ELSE "dirs"
  <1>1. p_proc[p] \in Executions /\ ProcKnows(p)
    BY DEF SetupInv, PlanTyped
  <1>2. [p_proc[p] EXCEPT !.pc = s] \in Executions
    BY <1>1 DEF Executions, P!Stages
  <1>3. PlanTyped' /\ Real'
    BY <1>2 DEF P!Acquire, P!Goto, SetupInv, PlanTyped, Real, P!SnapshotDimensionIsReal
  <1>4. p_proc'[p] = [p_proc[p] EXCEPT !.pc = s]
    BY DEF P!Acquire, P!Goto, SetupInv, PlanTyped
  <1>5. ProcKnows(p)'
    BY <1>1, <1>4 DEF P!Acquire, ProcKnows, Executes, FollowsPlan, KnowsDimension, IsSetup,
       P!At, Leased, Bound, Probed, Executions
  <1> QED
    BY <1>3, <1>5, StepOf DEF P!Acquire, P!Goto

\* A process at a step under the lease has it, and its execution is typed.
LEMMA LeasedHas ==
  ASSUME SetupInv, NEW p \in Procs, p_proc[p].pc \in Leased
  PROVE  p_lease = p /\ p_proc[p] \in Executions /\ ProcKnows(p)
  BY DEF SetupInv, PlanTyped, ProcKnows

\* An execution that changes no store keeps the invariant if it goes on with
\* what it has to know.
LEMMA GoesOn ==
  ASSUME P!RPAssumption, SetupInv, NEW p \in Procs, NEW r \in Executions, P!Set(p, r),
         p_lease = p, UNCHANGED <<p_src, p_root, p_dim, p_snap, p_lease>>, ProcKnows(p)'
  PROVE  SetupInv'
  <1>1. PlanTyped' /\ Real'
    BY DEF P!Set, SetupInv, PlanTyped, Real, P!SnapshotDimensionIsReal
  <1> QED
    BY <1>1, StepOf DEF P!Set

\* An execution that leaves the lease scope without an effect.
LEMMA GivesUp ==
  ASSUME P!RPAssumption, SetupInv, NEW p \in Procs, p_lease = p, P!Leave(p),
         UNCHANGED <<p_src, p_root, p_dim, p_snap>>
  PROVE  SetupInv'
  <1>1. Real'
    BY DEF SetupInv, Real, P!SnapshotDimensionIsReal
  <1> QED
    BY <1>1, LeaveKeeps DEF SetupInv, PlanTyped

\* The plan is compared under the lease.
LEMMA PlanRecheckKeeps ==
  ASSUME P!RPAssumption, SetupInv, NEW p \in Procs, P!Recheck(p)
  PROVE  SetupInv'
  <1>1. p_lease = p /\ p_proc[p] \in Executions /\ ProcKnows(p)
    BY LeasedHas DEF P!Recheck, P!At, Leased
  <1>2. CASE P!Goto(p, "reload") /\ UNCHANGED p_lease
    <2>1. [p_proc[p] EXCEPT !.pc = "reload"] \in Executions
      BY <1>1 DEF Executions, P!Stages
    <2>2. p_proc'[p] = [p_proc[p] EXCEPT !.pc = "reload"]
      BY <1>2 DEF P!Goto, SetupInv, PlanTyped
    <2>3. ProcKnows(p)'
      BY <1>1, <1>2, <2>2 DEF P!Recheck, ProcKnows, Executes, FollowsPlan, KnowsDimension,
         IsSetup, P!At, Leased, Bound, Probed, Executions
    <2> QED
      BY <1>1, <1>2, <2>1, <2>3, GoesOn DEF P!Recheck, P!Goto, P!Set
  <1>3. CASE P!Leave(p)
    BY <1>1, <1>3, GivesUp DEF P!Recheck
  <1> QED
    BY <1>2, <1>3 DEF P!Recheck

\* What the source says now is what the plan showed, so the plan tells of the
\* root as it is.
LEMMA ReloadKeeps ==
  ASSUME P!RPAssumption, SetupInv, NEW p \in Procs, P!Reload(p)
  PROVE  SetupInv'
  <1>1. p_lease = p /\ p_proc[p] \in Executions /\ ProcKnows(p)
    BY LeasedHas DEF P!Reload, P!At, Leased
  <1> DEFINE v == P!Revision(p_src, P!PersistedDim(p_src))
             r == [p_proc[p] EXCEPT !.pc = P!First(p_proc[p].plan.acts),
                                    !.cfg = p_src, !.mem = P!PersistedDim(p_src)]
  <1>2. CASE v = p_proc[p].plan
    <2>1. p_src \in PlanConfigs /\ P!PersistedDim(p_src) \in Nat
      BY PersistedTyped DEF SetupInv, PlanTyped
    <2>2. /\ v.acts = P!Actions(p_src, P!PersistedDim(p_src)) /\ v.cfg = p_src
          /\ v.world = P!World(p_src, P!PersistedDim(p_src))
      BY DEF P!Revision
    <2>3. IsSetup(p) /\ p_proc[p].plan.acts # {}
      BY <1>1 DEF P!Reload, P!At, ProcKnows
    <2> DEFINE acts == p_proc[p].plan.acts
    <2>4. /\ P!ProvidersValid(p_src) /\ p_snap = P!NoSnap /\ p_root.journal = "clean"
          /\ p_root.db = "ready" => p_root.cache
          /\ "init" \in acts => ~ p_root.dirs /\ p_root.db = "fresh"
          /\ P!First(acts) \in {"probe", "record"}
          /\ "probe" \notin acts => P!PersistedDim(p_src) # 0
          /\ P!First(acts) = "probe" <=> "probe" \in acts
      BY <1>2, <2>2, <2>3, PlanTells DEF SetupInv
    <2>5. P!Set(p, r) /\ UNCHANGED <<p_src, p_root, p_dim, p_snap, p_lease>>
      BY <1>2 DEF P!Reload
    <2>6. r \in Executions
      BY <1>1, <2>1, <2>4 DEF P!Stages, Executions
    <2>7. p_proc'[p] = r
      BY <2>5 DEF P!Set, SetupInv, PlanTyped
    <2>8. /\ r.pc = P!First(acts) /\ r.cfg = p_src /\ r.mem = P!PersistedDim(p_src)
          /\ r.kind = "setup" /\ r.plan = v
      BY <1>1, <1>2, <2>3 DEF Executions, IsSetup
    <2>9. P!World(p_src, v.world[2]) = v.world
      BY <2>2 DEF P!World
    <2>10. p_src.dim # 0 => P!PersistedDim(p_src) = p_src.dim
      BY DEF P!PersistedDim
    <2>11. Executes(p)'
      BY <2>1, <2>4, <2>5, <2>7, <2>8, <2>10 DEF Executes, Bound, P!At, P!ProvidersValid
    <2>12. FollowsPlan(p)'
      <3>1. p_proc'[p].plan = v
        BY <2>7, <2>8
      <3>2. <<p_root', IF v.cfg.ep = NoEndpoint THEN 0 ELSE v.world[2], p_snap'>> = v.world
        BY <2>2, <2>5, <2>9 DEF P!World
      <3> HIDE DEF v
      <3>3. P!World(p_proc[p].plan.cfg, p_proc[p].plan.world[2])' = p_proc'[p].plan.world
        BY <3>1, <3>2 DEF P!World
      <3> QED
        BY <1>2, <2>2, <2>4, <2>5, <2>7, <2>8, <3>1, <3>3 DEF FollowsPlan, P!At
    <2>13. KnowsDimension(p)'
      BY <2>4, <2>5, <2>7, <2>8 DEF KnowsDimension, Probed, P!At, P!PersistedDim
    <2>14. ProcKnows(p)'
      BY <1>1, <1>2, <2>3, <2>5, <2>7, <2>8, <2>11, <2>12, <2>13 DEF ProcKnows, IsSetup
    <2> QED
      BY <1>1, <2>5, <2>6, <2>14, GoesOn
  <1>3. CASE v # p_proc[p].plan
    BY <1>1, <1>3, GivesUp DEF P!Reload
  <1> QED
    BY <1>2, <1>3

\* The endpoint answers; what it answers with is the dimension from here on.
LEMMA ProbeKeeps ==
  ASSUME P!RPAssumption, SetupInv, NEW p \in Procs, P!Probe(p)
  PROVE  SetupInv'
  <1>1. p_lease = p /\ p_proc[p] \in Executions /\ ProcKnows(p)
    BY LeasedHas DEF P!Probe, P!At, Leased
  <1>2. IsSetup(p) /\ p_proc[p].pc = "probe" /\ Executes(p) /\ FollowsPlan(p)
    BY <1>1 DEF P!Probe, P!At, ProcKnows
  <1>3. p_proc[p].cfg \in PlanConfigs /\ RealDim(p_proc[p].cfg.ep) \in Nat
    BY <1>2 DEF Executes, Bound, P!RPAssumption
  <1> DEFINE s == IF "init" \in p_proc[p].plan.acts THEN "dirs" ELSE "dim"
             r == [p_proc[p] EXCEPT !.probed = RealDim(p_proc[p].cfg.ep), !.pc = s]
  <1>4. CASE p_proc[p].mem \in {0, RealDim(p_proc[p].cfg.ep)}
    <2>1. P!Set(p, r) /\ UNCHANGED <<p_src, p_root, p_dim, p_snap, p_lease>>
      BY <1>4 DEF P!Probe
    <2>2. r \in Executions
      BY <1>1, <1>3 DEF Executions, P!Stages
    <2>3. p_proc'[p] = r
      BY <2>1 DEF P!Set, SetupInv, PlanTyped
    <2>4. /\ r.pc = s /\ r.kind = "setup" /\ r.probed = RealDim(p_proc[p].cfg.ep)
          /\ r.cfg = p_proc[p].cfg /\ r.mem = p_proc[p].mem /\ r.plan = p_proc[p].plan
      BY <1>1, <1>2 DEF Executions, IsSetup
    <2>5. Executes(p)'
      BY <1>2, <2>1, <2>3, <2>4 DEF Executes, Bound, P!At, P!ProvidersValid
    <2>6. FollowsPlan(p)'
      BY <1>2, <2>1, <2>3, <2>4 DEF FollowsPlan, P!At, P!World
    <2>7. KnowsDimension(p)'
      BY <1>4, <2>3, <2>4 DEF KnowsDimension, P!At
    <2>8. ProcKnows(p)'
      BY <1>1, <1>2, <2>1, <2>3, <2>4, <2>5, <2>6, <2>7 DEF ProcKnows, IsSetup
    <2> QED
      BY <1>1, <2>1, <2>2, <2>8, GoesOn
  <1>5. CASE p_proc[p].mem \notin {0, RealDim(p_proc[p].cfg.ep)}
    BY <1>1, <1>5, GivesUp DEF P!Probe
  <1> QED
    BY <1>4, <1>5

\* A step that changes the root and goes on; what it leaves behind is typed and
\* a snapshot still stands over a database.
LEMMA RootStep ==
  ASSUME P!RPAssumption, SetupInv, NEW p \in Procs, NEW s \in P!Stages, p_lease = p,
         P!Goto(p, s), UNCHANGED <<p_src, p_dim, p_snap, p_lease>>,
         p_root' \in Roots, p_root.db = "ready" => p_root'.db = "ready", ProcKnows(p)'
  PROVE  SetupInv'
  <1>1. [p_proc[p] EXCEPT !.pc = s] \in Executions
    BY DEF SetupInv, PlanTyped, Executions
  <1>2. PlanTyped' /\ Real'
    BY <1>1 DEF P!Goto, SetupInv, PlanTyped, Real, P!SnapshotDimensionIsReal
  <1> QED
    BY <1>2, StepOf DEF P!Goto

\* The effects on the root: directories and cache of a new root, which had none.
LEMMA MakeKeeps ==
  ASSUME P!RPAssumption, SetupInv, NEW p \in Procs, P!MakeDirectories(p) \/ P!MakeCache(p)
  PROVE  SetupInv'
  <1>1. p_lease = p /\ p_proc[p] \in Executions /\ ProcKnows(p)
    BY LeasedHas DEF P!MakeDirectories, P!MakeCache, P!At, Leased
  <1>2. p_root \in Roots /\ p_proc \in [Procs -> Executions]
    BY DEF SetupInv, PlanTyped
  <1>3. CASE P!MakeDirectories(p)
    <2>1. p_root' = [p_root EXCEPT !.dirs = TRUE] /\ p_proc[p].pc = "dirs"
      BY <1>3 DEF P!MakeDirectories, P!At
    <2>2. p_proc'[p] = [p_proc[p] EXCEPT !.pc = "cache"]
      BY <1>2, <1>3 DEF P!MakeDirectories, P!Goto
    <2>3. ProcKnows(p)'
      BY <1>1, <1>2, <1>3, <2>1, <2>2 DEF P!MakeDirectories, ProcKnows, Executes,
         FollowsPlan, KnowsDimension, IsSetup, P!At, Leased, Bound, Probed, Executions, Roots,
         P!ProvidersValid
    <2> QED
      BY <1>1, <1>2, <1>3, <2>1, <2>3, RootStep DEF P!MakeDirectories, P!Stages, Roots
  <1>4. CASE P!MakeCache(p)
    <2>1. p_root' = [p_root EXCEPT !.cache = TRUE] /\ p_proc[p].pc = "cache"
      BY <1>4 DEF P!MakeCache, P!At
    <2>2. p_proc'[p] = [p_proc[p] EXCEPT !.pc = "init"]
      BY <1>2, <1>4 DEF P!MakeCache, P!Goto
    <2>3. ProcKnows(p)'
      BY <1>1, <1>2, <1>4, <2>1, <2>2 DEF P!MakeCache, ProcKnows, Executes,
         FollowsPlan, KnowsDimension, IsSetup, P!At, Leased, Bound, Probed, Executions, Roots,
         P!ProvidersValid
    <2> QED
      BY <1>1, <1>2, <1>4, <2>1, <2>3, RootStep DEF P!MakeCache, P!Stages, Roots
  <1> QED
    BY <1>3, <1>4

\* A database that is there is taken as it is, or refused when it is older.
LEMMA InitializeKeeps ==
  ASSUME P!RPAssumption, SetupInv, NEW p \in Procs, P!InitializeFresh(p)
  PROVE  SetupInv'
  <1>1. p_lease = p /\ p_proc[p] \in Executions /\ ProcKnows(p)
    BY LeasedHas DEF P!InitializeFresh, P!At, Leased
  <1>2. p_root \in Roots /\ p_proc \in [Procs -> Executions]
    BY DEF SetupInv, PlanTyped
  <1> DEFINE s == IF p_proc[p].kind = "setup" THEN "dim" ELSE "recover"
  <1>3. CASE p_root.db = "upgrade"
    BY <1>1, <1>3, GivesUp DEF P!InitializeFresh
  <1>4. CASE p_root.db # "upgrade"
    <2>1. /\ p_root' = [p_root EXCEPT !.db = "ready"] /\ p_proc[p].pc = "init"
          /\ P!Goto(p, s) /\ UNCHANGED <<p_src, p_dim, p_snap, p_lease>>
      BY <1>4 DEF P!InitializeFresh, P!At
    <2>2. p_proc'[p] = [p_proc[p] EXCEPT !.pc = s]
      BY <1>2, <2>1 DEF P!Goto
    <2>3. ProcKnows(p)'
      BY <1>1, <1>2, <2>1, <2>2 DEF ProcKnows, Executes, FollowsPlan, KnowsDimension,
         IsSetup, P!At, Leased, Bound, Probed, Executions, Roots, P!ProvidersValid
    <2> QED
      BY <1>1, <1>2, <2>1, <2>3, RootStep DEF P!Stages, Roots
  <1> QED
    BY <1>3, <1>4

\* The legacy bootstrap clears the journal and is done.
LEMMA RecoverKeeps ==
  ASSUME P!RPAssumption, SetupInv, NEW p \in Procs, P!Recover(p)
  PROVE  SetupInv'
  <1>1. p_lease = p
    BY LeasedHas DEF P!Recover, P!At, Leased
  <1>2. p_root' \in Roots /\ p_root'.db = p_root.db
    BY DEF P!Recover, SetupInv, PlanTyped, Roots
  <1>3. Real'
    BY <1>2 DEF P!Recover, SetupInv, Real, P!SnapshotDimensionIsReal
  <1> QED
    BY <1>1, <1>2, <1>3, LeaveKeeps DEF P!Recover, SetupInv, PlanTyped

\* A dimension is persisted for the endpoint that answered with it.
LEMMA PersistKeeps ==
  ASSUME P!RPAssumption, SetupInv, NEW p \in Procs, P!PersistDimension(p)
  PROVE  SetupInv'
  <1> DEFINE c == p_proc[p].cfg
             known == IF p_dim.ep = c.ep THEN p_dim.dim ELSE p_proc[p].mem
             r == [p_proc[p] EXCEPT !.pc = "record", !.mem = p_proc[p].probed]
  <1>1. p_lease = p /\ p_proc[p] \in Executions /\ ProcKnows(p)
    BY LeasedHas DEF P!PersistDimension, P!At, Leased
  <1>2. IsSetup(p) /\ p_proc[p].pc = "dim" /\ Executes(p) /\ KnowsDimension(p)
    BY <1>1 DEF P!PersistDimension, P!At, ProcKnows
  <1>3. /\ c \in PlanConfigs /\ P!ProvidersValid(c) /\ p_snap = P!NoSnap
        /\ p_proc[p].probed = RealDim(c.ep) /\ p_proc[p].mem \in {0, p_proc[p].probed}
        /\ c.dim # 0 => p_proc[p].mem = c.dim
    BY <1>2 DEF Executes, KnowsDimension, Bound, Probed
  <1>4. CASE c.dim = 0 /\ known \notin {0, p_proc[p].probed}
    BY <1>1, <1>4, GivesUp DEF P!PersistDimension
  <1>5. CASE ~ (c.dim = 0 /\ known \notin {0, p_proc[p].probed})
    <2>1. /\ p_dim' = IF c.dim = 0 THEN P!Contract(c, p_proc[p].probed) ELSE p_dim
          /\ P!Set(p, r) /\ UNCHANGED <<p_src, p_root, p_snap, p_lease>>
      BY <1>5 DEF P!PersistDimension
    <2>2. r \in Executions
      BY <1>1 DEF Executions, P!Stages
    <2>3. p_proc'[p] = r
      BY <2>1 DEF P!Set, SetupInv, PlanTyped
    <2>4. /\ r.pc = "record" /\ r.kind = "setup" /\ r.cfg = c /\ r.plan = p_proc[p].plan
          /\ r.mem = p_proc[p].probed
      BY <1>1, <1>2 DEF Executions, IsSetup
    <2>5. P!Contract(c, p_proc[p].probed) \in PlanContracts
      BY <1>1, <1>3 DEF P!Contract, PlanContracts, Endpoints, Executions
    <2>6. PlanTyped'
      BY <2>1, <2>2, <2>5 DEF P!Set, SetupInv, PlanTyped
    <2>7. Real'
      BY <1>3, <2>1 DEF SetupInv, Real, P!SnapshotDimensionIsReal, P!Contract
    <2>8. p_proc[p].probed # 0 => p_proc[p].probed = P!PersistedDim(c)'
      BY <1>3, <2>1, <2>3, <2>4 DEF P!PersistedDim, P!Contract
    <2>9. Executes(p)'
      BY <1>2, <1>3, <2>1, <2>3, <2>4, <2>8 DEF Executes, Bound, P!At, P!ProvidersValid, P!RPAssumption
    <2>10. ProcKnows(p)'
      BY <1>1, <1>2, <2>1, <2>3, <2>4, <2>8, <2>9 DEF ProcKnows, IsSetup, FollowsPlan,
         KnowsDimension, Probed, P!At, P!PersistedDim
    <2> QED
      BY <1>1, <2>1, <2>6, <2>7, <2>10, StepOf DEF P!Set
  <1> QED
    BY <1>4, <1>5

\* What a recorded snapshot says is real, and it stands over a database.
LEMMA RecordKeeps ==
  ASSUME P!RPAssumption, SetupInv, NEW p \in Procs, P!Record(p)
  PROVE  SetupInv'
  <1> DEFINE c == p_proc[p].cfg
             recorded == /\ p_root.db = "ready" /\ p_proc[p].mem # 0
                         /\ p_snap = p_proc[p].plan.world[3]
  <1>1. p_lease = p /\ p_proc[p] \in Executions /\ ProcKnows(p)
    BY LeasedHas DEF P!Record, P!At, Leased
  <1>2. IsSetup(p) /\ p_proc[p].pc = "record" /\ Executes(p) /\ KnowsDimension(p)
    BY <1>1 DEF P!Record, P!At, ProcKnows
  <1>3. c \in PlanConfigs /\ (p_proc[p].mem # 0 => p_proc[p].mem = P!PersistedDim(c))
    BY <1>2 DEF Executes, KnowsDimension, Bound, P!At
  <1>4. p_snap' = IF recorded THEN P!Contract(c, p_proc[p].mem) ELSE p_snap
    BY DEF P!Record
  <1>5. p_snap' \in PlanContracts
    BY <1>1, <1>3, <1>4 DEF SetupInv, PlanTyped, P!Contract, PlanContracts, Endpoints, Executions
  <1>6. CASE recorded
    <2>1. p_proc[p].mem = RealDim(c.ep) \/ P!Contract(c, p_proc[p].mem) \in PlanConfigs
      BY <1>3, <1>6 DEF P!PersistedDim, P!Contract, SetupInv, Real, P!RPAssumption
    <2>2. p_snap' = P!Contract(c, p_proc[p].mem)
      BY <1>4, <1>6
    <2> QED
      <3>1. P!SnapshotDimensionIsReal'
        BY <2>1, <2>2 DEF P!SnapshotDimensionIsReal, P!Contract
      <3>2. Real'
        BY <1>6, <3>1 DEF P!Record, SetupInv, Real
      <3> QED
        BY <1>1, <1>5, <3>2, LeaveKeeps DEF P!Record, SetupInv, PlanTyped
  <1>7. CASE ~ recorded
    BY <1>1, <1>4, <1>7, GivesUp DEF P!Record
  <1> QED
    BY <1>6, <1>7

-----------------------------------------------------------------------------
(* The others *)

\* Deaths, edits and archives: none of them reaches a root that an execution
\* has the lease of.
LEMMA OthersKeep ==
  ASSUME P!RPAssumption, SetupInv,
         \/ \E p \in Procs : P!Stop(p)
         \/ \E c \in PlanConfigs : P!Edit(c)
         \/ P!ArchiveBegin
         \/ \E died \in BOOLEAN : P!ArchiveEnd(died)
  PROVE  SetupInv'
  <1>1. CASE \E p \in Procs : P!Stop(p)
    BY <1>1, GivesUp DEF P!Stop
  <1>2. ASSUME p_proc' = p_proc, PlanTyped', Real',
               p_lease \in Procs => UNCHANGED <<p_root, p_dim, p_snap, p_lease>>
        PROVE  SetupInv'
    BY <1>2, Undisturbed DEF SetupInv
  <1>3. CASE \E c \in PlanConfigs : P!Edit(c)
    BY <1>2, <1>3 DEF P!Edit, SetupInv, PlanTyped, Real, P!SnapshotDimensionIsReal
  <1>4. CASE P!ArchiveBegin
    <2>1. PlanTyped' /\ Real'
      BY <1>4 DEF P!ArchiveBegin, SetupInv, PlanTyped, Real, P!SnapshotDimensionIsReal, Roots
    <2> QED
      BY <1>2, <1>4, <2>1 DEF P!ArchiveBegin, P!RPAssumption
  <1>5. CASE \E died \in BOOLEAN : P!ArchiveEnd(died)
    <2>1. PlanTyped' /\ Real'
      BY <1>5 DEF P!ArchiveEnd, SetupInv, PlanTyped, Real, P!SnapshotDimensionIsReal, Roots
    <2> QED
      BY <1>2, <1>5, <2>1 DEF P!ArchiveEnd, P!RPAssumption
  <1> QED
    BY <1>1, <1>3, <1>4, <1>5

\* Every initial root satisfies the invariant.
LEMMA InitSetup == P!RPAssumption /\ P!Init => SetupInv
  <1> SUFFICES ASSUME P!RPAssumption, P!Init PROVE SetupInv
    OBVIOUS
  <1>1. P!Idle \in Executions
    BY DEF P!Idle, Executions, P!Stages
  <1>2. PlanTyped
    BY <1>1 DEF P!Init, PlanTyped, Roots, P!NoDim, P!NoSnap, PlanContracts, Endpoints
  <1>3. Real
    BY DEF P!Init, Real, P!SnapshotDimensionIsReal, P!NoDim, P!NoSnap
  <1>4. ASSUME NEW p \in Procs PROVE ProcKnows(p)
    BY DEF P!Init, P!Idle, ProcKnows, Executes, FollowsPlan, KnowsDimension, IsSetup, P!At,
       Leased, Bound, Probed
  <1> QED
    BY <1>2, <1>3, <1>4 DEF SetupInv

\* Every step keeps it.
LEMMA NextSetup == P!RPAssumption /\ SetupInv /\ [P!Next]_(P!vars) => SetupInv'
  <1> SUFFICES ASSUME P!RPAssumption, SetupInv, [P!Next]_(P!vars) PROVE SetupInv'
    OBVIOUS
  <1>1. ASSUME NEW p \in Procs, P!Planning(p) \/ P!Confirm(p, FALSE) \/ P!BeginBootstrap(p)
        PROVE  SetupInv'
    BY <1>1, PlanningKeeps, ConfirmKeeps, BeginBootstrapKeeps DEF P!Planning
  <1>2. ASSUME NEW p \in Procs, P!Acquire(p) \/ P!Executing(p) PROVE SetupInv'
    BY <1>2, AcquireKeeps, PlanRecheckKeeps, ReloadKeeps, ProbeKeeps, MakeKeeps,
       InitializeKeeps, RecoverKeeps, PersistKeeps, RecordKeeps DEF P!Executing
  <1>3. CASE UNCHANGED P!vars
    BY <1>3 DEF P!vars, SetupInv, PlanTyped, Real, P!SnapshotDimensionIsReal, ProcKnows, Executes,
       FollowsPlan, KnowsDimension, IsSetup, P!At, P!World, P!PersistedDim, P!ProvidersValid
  <1> QED
    BY <1>1, <1>2, <1>3, OthersKeep DEF P!Next

\* A plan is executed as the user saw and confirmed it: nothing is sent to an
\* endpoint he was not shown, nothing is set up over a root that changed since,
\* and no dimension is recorded that nobody declared or answered with.
THEOREM PlanInvHolds == ASSUME P!RPAssumption PROVE P!Spec => []P!PlanInv
  <1>1. SetupInv => P!PlanInv
    <2> SUFFICES ASSUME SetupInv PROVE P!PlanInv
      OBVIOUS
    <2>1. P!TypeOK
      <3>1. ASSUME NEW p \in Procs
            PROVE  /\ p_proc[p].pc \in P!Stages /\ p_proc[p].cfg \in PlanConfigs \cup {P!NoConfig}
                   /\ p_proc[p].plan.acts \subseteq {"probe", "init", "record"}
        BY DEF SetupInv, PlanTyped, Executions, Revisions, Acts, P!NoPlan
      <3> QED
        BY <3>1 DEF SetupInv, PlanTyped, Roots, P!TypeOK
    <2>2. P!ProbeIsConfirmed /\ P!PlanStillHolds /\ P!OnlyNewRootsAreSetUp
      BY DEF SetupInv, ProcKnows, FollowsPlan, IsSetup, P!At, P!ProbeIsConfirmed,
         P!PlanStillHolds, P!OnlyNewRootsAreSetUp
    <2> QED
      BY <2>1, <2>2 DEF SetupInv, Real, P!PlanInv
  <1> QED
    BY <1>1, InitSetup, NextSetup, PTL DEF P!Spec

\* Only an execution that has the lease and found no snapshot writes one.
LEMMA SnapshotStep ==
  ASSUME P!RPAssumption, SetupInv, P!Next, p_snap' # p_snap
  PROVE  \E q \in Procs : P!Record(q)
  BY DEF P!Next, P!Planning, P!Executing, P!Load, P!Plan, P!Confirm, P!Check, P!BeginBootstrap, P!Acquire,
     P!Recheck, P!Reload, P!Probe, P!MakeDirectories, P!MakeCache, P!InitializeFresh, P!Recover,
     P!PersistDimension, P!Stop, P!Edit, P!ArchiveBegin, P!ArchiveEnd

\* The snapshot that indexes are built under is never replaced here, and the one
\* that is written makes the root ready for the Config it was executed with.
THEOREM SnapshotsAreFinalHolds == ASSUME P!RPAssumption PROVE P!Spec => P!SnapshotsAreFinal
  <1>1. ASSUME SetupInv, P!Next, p_snap' # p_snap
        PROVE  /\ p_snap = P!NoSnap
               /\ \A p \in Procs, c \in PlanConfigs :
                    P!At(p, "record") /\ p_lease = p /\ p_proc[p].cfg = c =>
                        P!Readiness(c, P!PersistedDim(c))' = "ready"
    <2>1. PICK q \in Procs : P!Record(q)
      BY <1>1, SnapshotStep
    <2>2. p_lease = q /\ ProcKnows(q) /\ p_proc[q].pc = "record" /\ IsSetup(q)
      BY <1>1, <2>1, LeasedHas DEF P!Record, P!At, Leased, ProcKnows
    <2>3. /\ p_snap = P!NoSnap /\ P!ProvidersValid(p_proc[q].cfg) /\ p_root.journal = "clean"
          /\ p_root.db = "ready" => p_root.cache
          /\ p_proc[q].mem # 0 => p_proc[q].mem = P!PersistedDim(p_proc[q].cfg)
      BY <2>2 DEF ProcKnows, Executes, KnowsDimension, Bound, P!At
    <2>4. /\ p_root.db = "ready" /\ p_proc[q].mem # 0
          /\ p_snap' = P!Contract(p_proc[q].cfg, p_proc[q].mem) /\ UNCHANGED <<p_root, p_dim>>
      BY <1>1, <2>1 DEF P!Record
    <2> DEFINE d == P!PersistedDim(p_proc[q].cfg)
    <2>5. ~ P!Critical' /\ P!ProvidersValid(p_proc[q].cfg) /\ p_root'.db = "ready"
      BY <2>3, <2>4 DEF P!Critical
    <2>6. d # 0 /\ d = P!PersistedDim(p_proc[q].cfg) /\ p_snap' = P!Contract(p_proc[q].cfg, d)
      BY <2>3, <2>4
    <2>7. ASSUME NEW c \in PlanConfigs, c = p_proc[q].cfg
          PROVE  P!Readiness(c, P!PersistedDim(c))' = "ready"
      <3>1. P!PersistedDim(c)' = d
        BY <2>4, <2>7 DEF P!PersistedDim
      <3>2. p_snap' # P!NoSnap
        BY <2>6 DEF P!NoSnap, P!NoDim, P!Contract
      <3>3. P!SnapState(c, P!PersistedDim(c))' = "valid"
        BY <2>6, <2>7, <3>1, <3>2 DEF P!SnapState, P!Contract
      <3> QED
        BY <2>5, <2>7, <3>3 DEF P!Readiness, P!ProvidersValid
    <2> QED
      BY <2>2, <2>3, <2>7
  <1>2. SetupInv /\ [P!Next]_(P!vars) => [p_snap # P!NoSnap => p_snap' = p_snap]_(P!vars)
    BY <1>1 DEF P!vars
  <1>3. SetupInv /\ [P!Next]_(P!vars) =>
          [\A p \in Procs, c \in PlanConfigs :
             /\ P!At(p, "record") /\ p_lease = p /\ p_proc[p].cfg = c /\ p_snap' # p_snap
             => P!Readiness(c, P!PersistedDim(c))' = "ready"]_(P!vars)
    BY <1>1 DEF P!vars
  <1>4. P!Spec => []SetupInv
    BY InitSetup, NextSetup, PTL DEF P!Spec
  <1> QED
    BY <1>2, <1>3, <1>4, PTL DEF P!Spec, P!SnapshotsAreFinal, P!SnapshotIsKept, P!RecordedIsReady
=============================================================================
