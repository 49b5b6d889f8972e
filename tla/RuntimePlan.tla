---------------------------- MODULE RuntimePlan ----------------------------
(***************************************************************************)
(* Setup of a data root by src/runtime/lifecycle.py: a readonly inspection *)
(* becomes a plan bound to a revision of everything it read; the user      *)
(* confirms that plan; the execution re-inspects before and after it gets  *)
(* the writer lease, rebuilds the Config, probes the paid providers,       *)
(* bootstraps the root, keeps the probed dimension and records the runtime *)
(* snapshot.  Other processes bootstrap and archive under the same lease;  *)
(* the user edits the configuration file under no lease at all.            *)
(*                                                                         *)
(* A configuration is an endpoint with a declared dimension, 0 for `auto'; *)
(* the endpoint NoEndpoint stands for settings that do not validate.       *)
(***************************************************************************)
EXTENDS Integers, FiniteSets

CONSTANTS Procs, Archiver, Free,
          Configs,        \* what the user may write: records [ep, dim]
          NoEndpoint,
          RealDim(_),     \* the dimension an endpoint really answers with
          MaxEdits, MaxStops, MaxOps

\* What an instance must satisfy; the modules that instantiate it assume it.
RPAssumption ==
  /\ Archiver \notin Procs /\ Free \notin Procs \cup {Archiver}
  /\ \A c \in Configs : /\ c = [ep |-> c.ep, dim |-> c.dim] /\ c.dim \in Nat
                         /\ RealDim(c.ep) \in Nat
  /\ \A n \in {MaxEdits, MaxStops, MaxOps} : n \in Nat

VARIABLES src,       \* the editable configuration file
          root,      \* directories, tokenizer cache, database, journal
          dim,       \* the persisted auto dimension, of an endpoint
          snap,      \* the runtime snapshot
          lease, proc, count

vars == <<src, root, dim, snap, lease, proc, count>>

NoDim == [ep |-> NoEndpoint, dim |-> 0]
NoSnap == NoDim
NoConfig == [ep |-> NoEndpoint, dim |-> 0]
NoPlan == [cfg |-> NoConfig, src |-> NoConfig, world |-> <<>>, acts |-> {}]
Idle == [pc |-> "idle", kind |-> "setup", cfg |-> NoConfig, mem |-> 0,
         plan |-> NoPlan, probed |-> 0]

Init == /\ src \in Configs
        /\ \E db \in {"fresh", "ready", "upgrade"} :
             root = [dirs |-> db # "fresh", cache |-> db # "fresh", db |-> db,
                     journal |-> "clean"]
        /\ dim = NoDim /\ snap = NoSnap /\ lease = Free
        /\ proc = [p \in Procs |-> Idle]
        /\ count = [edits |-> 0, stops |-> 0, ops |-> 0]

At(p, s) == proc[p].pc = s
Set(p, r) == proc' = [proc EXCEPT ![p] = r]
Goto(p, s) == proc' = [proc EXCEPT ![p].pc = s]
Once(e) == count' = [count EXCEPT ![e] = @ + 1]

-----------------------------------------------------------------------------
(* Inspection.                                                             *)

\* The dimension a Config built now resolves to; the cache of another
\* endpoint is ignored.
PersistedDim(c) == IF c.dim # 0 THEN c.dim
                   ELSE IF dim.ep = c.ep THEN dim.dim ELSE 0

ProvidersValid(c) == c.ep # NoEndpoint
Contract(c, d) == [ep |-> c.ep, dim |-> d]

SnapState(c, d) == IF snap = NoSnap THEN "missing"
                   ELSE IF d # 0 /\ snap = Contract(c, d) THEN "valid"
                   ELSE "drifted"

\* What a revision covers besides the configuration: a root that holds only
\* the lease file still counts as fresh.
World(c, d) == <<root, IF c.ep = NoEndpoint THEN 0 ELSE d, snap>>

Critical == \/ root.journal = "blocked"
            \/ root.db = "ready" /\ ~root.cache
            \/ root.db = "fresh" /\ root.dirs

Readiness(c, d) ==
  CASE Critical                                     -> "repair"
    [] ~Critical /\ root.db = "upgrade"          -> "upgrade"
    [] ~Critical /\ root.db # "upgrade"
         /\ (root.db = "fresh" \/ ~ProvidersValid(c)) -> "setup"
    [] OTHER -> IF SnapState(c, d) = "valid" THEN "ready" ELSE "degraded"

\* Mutant of Actions: an unresolved dimension has no plan.
ActionsKnownDimension(c, d) ==
  CASE Readiness(c, d) = "setup" /\ ProvidersValid(c) -> {"probe", "init", "record"}
    [] Readiness(c, d) = "degraded" /\ SnapState(c, d) = "missing" ->
         IF d = 0 THEN {} ELSE {"record"}
    [] OTHER -> {}

\* The executable actions of the plan; every other plan only explains.
Actions(c, d) ==
  CASE Readiness(c, d) = "setup" /\ ProvidersValid(c) -> {"probe", "init", "record"}
    [] Readiness(c, d) = "degraded" /\ SnapState(c, d) = "missing" ->
         {"record"} \cup (IF d = 0 THEN {"probe"} ELSE {})
    [] OTHER -> {}

Revision(c, d) == [cfg |-> c, src |-> src, world |-> World(c, d),
                   acts |-> Actions(c, d)]

-----------------------------------------------------------------------------
(* Inspect, plan, confirm.                                                 *)

Load(p) == /\ At(p, "idle")
           /\ Set(p, [Idle EXCEPT !.pc = "loaded", !.cfg = src,
                                  !.mem = PersistedDim(src)])
           /\ UNCHANGED <<src, root, dim, snap, lease, count>>

Plan(p) == /\ At(p, "loaded")
           /\ LET r == Revision(proc[p].cfg, proc[p].mem) IN
                Set(p, IF r.acts = {} THEN Idle
                       ELSE [proc[p] EXCEPT !.pc = "planned", !.plan = r])
           /\ UNCHANGED <<src, root, dim, snap, lease, count>>

\* The user reads the plan; network traffic needs a permission of its own.
Confirm(p, network) ==
  /\ At(p, "planned")
  /\ Goto(p, IF "probe" \in proc[p].plan.acts /\ ~network THEN "idle"
             ELSE "confirmed")
  /\ UNCHANGED <<src, root, dim, snap, lease, count>>

\* The execution inspects again with the plan's own Config.
Check(p) ==
  /\ At(p, "confirmed")
  /\ Goto(p, IF Revision(proc[p].cfg, proc[p].mem) = proc[p].plan
             THEN "waiting" ELSE "idle")
  /\ UNCHANGED <<src, root, dim, snap, lease, count>>

\* A process started with the legacy bootstrap.
BeginBootstrap(p) ==
  /\ At(p, "idle")
  /\ Set(p, [Idle EXCEPT !.pc = "waiting", !.kind = "bootstrap", !.cfg = src])
  /\ UNCHANGED <<src, root, dim, snap, lease, count>>

\* Mutant of Acquire: the lease is not waited for.
AcquireAnyway(p) ==
  /\ At(p, "waiting")
  /\ lease' = p
  /\ Goto(p, IF proc[p].kind = "setup" THEN "locked" ELSE "dirs")
  /\ UNCHANGED <<src, root, dim, snap, count>>

Acquire(p) == /\ At(p, "waiting") /\ lease = Free
              /\ lease' = p
              /\ Goto(p, IF proc[p].kind = "setup" THEN "locked" ELSE "dirs")
              /\ UNCHANGED <<src, root, dim, snap, count>>

\* Leaving the lease scope, by success or by an error.
Leave(p) == lease' = Free /\ Set(p, Idle)

-----------------------------------------------------------------------------
(* Under the lease.                                                        *)

Recheck(p) ==
  /\ At(p, "locked")
  /\ IF Revision(proc[p].cfg, proc[p].mem) = proc[p].plan
       THEN Goto(p, "reload") /\ UNCHANGED lease
       ELSE Leave(p)
  /\ UNCHANGED <<src, root, dim, snap, count>>

First(acts) == IF "probe" \in acts THEN "probe" ELSE "record"

\* The source is read again and the Config built from it must be the one
\* the plan showed.
Reload(p) ==
  /\ At(p, "reload")
  /\ IF Revision(src, PersistedDim(src)) = proc[p].plan
       THEN /\ Set(p, [proc[p] EXCEPT !.pc = First(proc[p].plan.acts),
                                      !.cfg = src, !.mem = PersistedDim(src)])
            /\ UNCHANGED lease
       ELSE Leave(p)
  /\ UNCHANGED <<src, root, dim, snap, count>>

\* The providers answer with their dimension; a declared one must equal it.
Probe(p) ==
  /\ At(p, "probe")
  /\ LET c == proc[p].cfg IN
       IF proc[p].mem \in {0, RealDim(c.ep)}
         THEN /\ Set(p, [proc[p] EXCEPT !.probed = RealDim(c.ep),
                           !.pc = IF "init" \in proc[p].plan.acts THEN "dirs"
                                  ELSE "dim"])
              /\ UNCHANGED lease
         ELSE Leave(p)
  /\ UNCHANGED <<src, root, dim, snap, count>>

MakeDirectories(p) ==
  /\ At(p, "dirs")
  /\ root' = [root EXCEPT !.dirs = TRUE] /\ Goto(p, "cache")
  /\ UNCHANGED <<src, dim, snap, lease, count>>

MakeCache(p) ==
  /\ At(p, "cache")
  /\ root' = [root EXCEPT !.cache = TRUE] /\ Goto(p, "init")
  /\ UNCHANGED <<src, dim, snap, lease, count>>

\* An older database is refused; a ready one is taken as it is.
InitializeFresh(p) ==
  /\ At(p, "init")
  /\ IF root.db = "upgrade" THEN Leave(p) /\ UNCHANGED root
     ELSE /\ root' = [root EXCEPT !.db = "ready"]
          /\ Goto(p, IF proc[p].kind = "setup" THEN "dim" ELSE "recover")
          /\ UNCHANGED lease
  /\ UNCHANGED <<src, dim, snap, count>>

\* The legacy bootstrap recovers what a dead archive left in the journal.
Recover(p) == /\ At(p, "recover")
              /\ root' = [root EXCEPT !.journal = "clean"] /\ Leave(p)
              /\ UNCHANGED <<src, dim, snap, count>>

\* Only an auto dimension is kept, and never against one that is known.
PersistDimension(p) ==
  /\ At(p, "dim")
  /\ LET c == proc[p].cfg
         known == IF dim.ep = c.ep THEN dim.dim ELSE proc[p].mem
     IN IF c.dim = 0 /\ known \notin {0, proc[p].probed}
          THEN Leave(p) /\ UNCHANGED dim
          ELSE /\ dim' = IF c.dim = 0 THEN Contract(c, proc[p].probed) ELSE dim
               /\ Set(p, [proc[p] EXCEPT !.pc = "record", !.mem = proc[p].probed])
               /\ UNCHANGED lease
  /\ UNCHANGED <<src, root, snap, count>>

\* Mutant of Record: the dimension of the Config file is written.
RecordDeclared(p) ==
  /\ At(p, "record")
  /\ snap' = IF root.db = "ready" /\ proc[p].mem # 0
             THEN Contract(proc[p].cfg, proc[p].cfg.dim) ELSE snap
  /\ Leave(p)
  /\ UNCHANGED <<src, root, dim, count>>

\* The snapshot is published over the one that was planned for.
Record(p) ==
  /\ At(p, "record")
  /\ snap' = IF root.db = "ready" /\ proc[p].mem # 0
                  /\ snap = proc[p].plan.world[3]
             THEN Contract(proc[p].cfg, proc[p].mem) ELSE snap
  /\ Leave(p)
  /\ UNCHANGED <<src, root, dim, count>>

-----------------------------------------------------------------------------
(* The environment.                                                        *)

\* An error of a provider or of the disk, or the death of the process.
Stop(p) == /\ lease = p /\ count.stops < MaxStops /\ Once("stops")
           /\ Leave(p)
           /\ UNCHANGED <<src, root, dim, snap>>

Edit(c) == /\ c # src /\ count.edits < MaxEdits /\ Once("edits")
           /\ src' = c
           /\ UNCHANGED <<root, dim, snap, lease, proc>>

\* An archive keeps a record in the journal while it runs ...
ArchiveBegin == /\ lease = Free /\ root.db = "ready" /\ root.journal = "clean"
                /\ count.ops < MaxOps /\ Once("ops")
                /\ lease' = Archiver /\ root' = [root EXCEPT !.journal = "blocked"]
                /\ UNCHANGED <<src, dim, snap, proc>>

\* ... and leaves it there when it dies.
ArchiveEnd(died) ==
  /\ lease = Archiver /\ lease' = Free
  /\ root' = IF died THEN root ELSE [root EXCEPT !.journal = "clean"]
  /\ UNCHANGED <<src, dim, snap, proc, count>>

-----------------------------------------------------------------------------
Planning(p) == Load(p) \/ Plan(p) \/ Confirm(p, TRUE) \/ Check(p)
Executing(p) == \/ Recheck(p) \/ Reload(p) \/ Probe(p) \/ MakeDirectories(p)
                \/ MakeCache(p) \/ InitializeFresh(p) \/ Recover(p)
                \/ PersistDimension(p) \/ Record(p)

Next == \/ \E p \in Procs : \/ Planning(p) \/ Confirm(p, FALSE)
                            \/ BeginBootstrap(p) \/ Acquire(p)
                            \/ Executing(p) \/ Stop(p)
        \/ \E c \in Configs : Edit(c)
        \/ ArchiveBegin \/ \E died \in BOOLEAN : ArchiveEnd(died)

Spec == Init /\ [][Next]_vars

\* The user goes on planning and confirming, also with the legacy bootstrap;
\* a process that holds the lease runs on and a waiting one gets its turn.
FairSpec ==
  /\ Spec
  /\ \A p \in Procs : /\ WF_vars(Plan(p)) /\ WF_vars(Confirm(p, TRUE))
                      /\ WF_vars(Check(p)) /\ WF_vars(Executing(p))
                      /\ SF_vars(Acquire(p)) /\ SF_vars(Load(p))
                      /\ SF_vars(Confirm(p, TRUE)) /\ SF_vars(BeginBootstrap(p))
  /\ WF_vars(\E died \in BOOLEAN : ArchiveEnd(died))

-----------------------------------------------------------------------------
(* Properties.                                                             *)

Stages == {"idle", "loaded", "planned", "confirmed", "waiting", "locked",
           "reload", "probe", "dirs", "cache", "init", "recover", "dim", "record"}

\* Processes, the lease and the data root have their types.
TypeOK ==
  /\ src \in Configs /\ lease \in Procs \cup {Archiver, Free}
  /\ root.db \in {"fresh", "ready", "upgrade"}
  /\ root.journal \in {"clean", "blocked"}
  /\ \A p \in Procs : /\ proc[p].pc \in Stages
                      /\ proc[p].plan.acts \subseteq {"probe", "init", "record"}
                      /\ proc[p].cfg \in Configs \cup {NoConfig}

\* A paid probe is sent to nothing but the endpoint and the dimension the
\* confirmed plan showed, whatever was edited since, also while waiting.
ProbeIsConfirmed ==
  \A p \in Procs : At(p, "probe") => /\ proc[p].cfg = proc[p].plan.cfg
                                     /\ "probe" \in proc[p].plan.acts

\* Until its first effect an execution finds the data root exactly as the
\* user saw it: whoever had the lease in between makes the plan stale.
PlanStillHolds ==
  \A p \in Procs :
    /\ proc[p].kind = "setup" /\ proc[p].pc \in {"probe", "dirs"}
    => World(proc[p].plan.cfg, proc[p].plan.world[2]) = proc[p].plan.world

\* A root that somebody populated and that lacks its database is never taken
\* for a new one.
OnlyNewRootsAreSetUp ==
  \A p \in Procs : proc[p].kind = "setup" /\ At(p, "dirs")
                     => ~root.dirs /\ root.db = "fresh"

\* A dimension nobody declared reaches the snapshot only from a probe of the
\* same endpoint, although the persisted one survives crashes and edits.
SnapshotDimensionIsReal ==
  snap # NoSnap => \/ snap.dim = RealDim(snap.ep)
                   \/ \E c \in Configs : c = snap

\* A plan is executed as it was shown, on the root it was shown for, and
\* leaves a snapshot whose dimension is real.
PlanInv == /\ TypeOK /\ ProbeIsConfirmed /\ PlanStillHolds /\ OnlyNewRootsAreSetUp
           /\ SnapshotDimensionIsReal

\* The contract that indexes were built under is never overwritten here, not
\* even when the configuration drifted from it.
SnapshotIsKept == [][snap # NoSnap => snap' = snap]_vars

\* An execution that records the snapshot ends with a ready root, for the
\* Config it executed.
RecordedIsReady ==
  [][\A p \in Procs, c \in Configs :
       /\ At(p, "record") /\ lease = p /\ proc[p].cfg = c /\ snap' # snap
       => Readiness(c, PersistedDim(c))' = "ready"]_vars

\* A snapshot is written once, over a ready root.
SnapshotsAreFinal == SnapshotIsKept /\ RecordedIsReady

\* A database whose setup died before the snapshot gets one from a later plan,
\* unless the user leaves settings that no provider can serve.
SetupIsCompleted ==
  (root.db = "ready" /\ snap = NoSnap)
    ~> (snap # NoSnap \/ ~ProvidersValid(src))
=============================================================================
