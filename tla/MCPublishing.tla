---------------------------- MODULE MCPublishing ----------------------------
(* The protocols that put a new file in the place of a published one, on     *)
(* small instances in one state space: the vector pair, the migrated database, *)
(* the patched Markdown file, the rebuilt development vault and the release    *)
(* candidate.  They share no variable, so each behaviour chooses at its start  *)
(* the one that moves (part); the others stay in one initial state.  The pair  *)
(* moves in two ways: writers alone, or one writer beside a strict reader.     *)
EXTENDS VectorPair

CONSTANTS w1, w2, r1, l1, l2, alien, missing, m1, m2, a1, ra, nobody,
          pa, pb, base, none,
          Live   \* TRUE: the instances for liveness

VARIABLES part,
          m_db, m_lock, m_backups, m_mig, m_conn, m_acked, m_nextId, m_count,
          p_primary, p_slot, p_row, p_proof, p_journal, p_run, p_blocked,
          p_expected, p_count,
          d_root, d_run, d_quiet, d_count,
          b_head, b_dirty, b_env, b_src, b_out, b_dist, b_run, b_made, b_count

Migration == INSTANCE MigrationPublish WITH
  Migrators <- {m1, m2}, Apps <- {a1}, Rows <- {ra}, Latest <- 3, OldVersion <- 1,
  NoOne <- nobody, MaxTries <- IF Live THEN 2 ELSE 3, MaxCrashes <- 1,
  MaxFailures <- IF Live THEN 1 ELSE 0, MaxMistakes <- IF Live THEN 0 ELSE 1,
  db <- m_db, lock <- m_lock, backups <- m_backups, mig <- m_mig, conn <- m_conn,
  acked <- m_acked, nextId <- m_nextId, count <- m_count

PatchKinds == {"journal", "published", "sqlite", "probe", "purge"}
Patch == INSTANCE PatchSaga WITH
  Patches <- {pa, pb}, Base <- base, None <- none,
  Faults <- IF Live THEN PatchKinds \cup {"moved"} ELSE PatchKinds, Peers <- FALSE,
  MaxEdits <- IF Live THEN 1 ELSE 2, MaxCrashes <- 2, MaxFaults <- IF Live THEN 1 ELSE 2,
  MaxCalls <- IF Live THEN 3 ELSE 4,
  primary <- p_primary, slot <- p_slot, row <- p_row, proof <- p_proof,
  journal <- p_journal, run <- p_run, blocked <- p_blocked, expected <- p_expected,
  count <- p_count

Vaults == INSTANCE DevVault WITH
  Names <- 1..3, Counts <- {0, 2}, Seeds <- {1, 2},
  MaxRuns <- 3, MaxEdits <- 1, MaxCrashes <- 1, MaxFailures <- 1,
  root <- d_root, run <- d_run, quiet <- d_quiet, count <- d_count

Builds == INSTANCE ReleaseBuild WITH
  Revisions <- {1, 2}, Valid <- {1}, MaxBuilds <- 2, MaxDisturbances <- 2, MaxCrashes <- 1,
  head <- b_head, dirty <- b_dirty, env <- b_env, src <- b_src, out <- b_out,
  dist <- b_dist, run <- b_run, made <- b_made, count <- b_count

ASSUME PublishingAssumption == /\ Migration!MPAssumption /\ Patch!PSAssumption
                               /\ Vaults!DevVaultAssumption /\ Builds!ReleaseBuildAssumption

migration == <<m_db, m_lock, m_backups, m_mig, m_conn, m_acked, m_nextId, m_count>>
patch == <<p_primary, p_slot, p_row, p_proof, p_journal, p_run, p_blocked,
           p_expected, p_count>>
vault == <<d_root, d_run, d_quiet, d_count>>
build == <<b_head, b_dirty, b_env, b_src, b_out, b_dist, b_run, b_made, b_count>>
mcvars == <<part, vars, migration, patch, vault, build>>

\* A check takes no arguments, and an empty vault no seed; an entry gets the
\* first name that is free.
Called ==
    /\ d_run'.at = "gate" => /\ d_run'.mode = "check" => d_run'.count = 0
                             /\ d_run'.count = 0 => d_run'.seed = 1
    /\ \A n \in DOMAIN d_root'.files \ DOMAIN d_root.files :
         1..(n - 1) \subseteq DOMAIN d_root.files \cup DOMAIN d_root.rows

\* The searches run beside one writer of one label, which only a crash disturbs, at
\* the latest during the first: the property says nothing of a later one after it.
Searched == IF part = "search"
              THEN /\ writer'[w2] = writer[w2] /\ writer'[w1].op.label # l2
                   /\ count'.faults = 0 /\ (count'.crashes = 0 \/ count'.searches <= 1)
              ELSE UNCHANGED reader

InPair(A) == part \in {"pair", "search"} /\ A /\ UNCHANGED <<part, migration, patch, vault, build>>
InMigration(A) == part = "migration" /\ A /\ UNCHANGED <<part, vars, patch, vault, build>>
InPatch(A) == part = "patch" /\ A /\ UNCHANGED <<part, vars, migration, vault, build>>
InVault(A) == part = "vault" /\ A /\ UNCHANGED <<part, vars, migration, patch, build>>
InBuild(A) == part = "build" /\ A /\ UNCHANGED <<part, vars, migration, patch, vault>>

\* A search, the vault and the build have nothing that must happen.
MCInit == /\ part \in {"pair", "migration", "patch"}
                       \cup IF Live THEN {} ELSE {"search", "vault", "build"}
          /\ Init /\ Migration!Init /\ Patch!Init /\ Vaults!Init /\ Builds!Init
          /\ part # "build" => b_head = 1
          /\ part # "pair" => (target = Nothing <=> part # "search")
          /\ part # "migration" => m_db = Migration!NoDb
          /\ part # "patch" => \A o \in {pa, pb} : p_expected[o] = base
MCNext == InPair(Next /\ Searched) \/ InMigration(Migration!Next) \/ InPatch(Patch!Next)
          \/ InVault(Vaults!Next /\ Called) \/ InBuild(Builds!Next)
MCSpec == MCInit /\ [][MCNext]_mcvars

\* The fairness of the three modules.
MCFairSpec ==
  /\ MCSpec
  /\ \A w \in Writers :
       /\ WF_mcvars(InPair(WriterStep(w)))
       /\ SF_mcvars(InPair(\E o \in Ops : o.kind \in {"open", "query"} /\ Start(w, o)))
  /\ \A m \in {m1, m2} : /\ WF_mcvars(InMigration(Migration!Upgrading(m)))
                         /\ WF_mcvars(InMigration(Migration!Starting(m)))
  /\ WF_mcvars(InMigration(Migration!RemoveStaleLock))
  /\ \A o \in {pa, pb} : /\ WF_mcvars(InPatch(Patch!Runs(o)))
                         /\ WF_mcvars(InPatch(Patch!Recovers(o)))

\* No half migrated database, one upgrade at a time, see MigrationPublish.
MigrationInv == Migration!MigrationInv
\* What a step of an upgrade may never do, see MigrationPublish.
UpgradeIsSafe == Migration!UpgradeIsSafe
\* Records, proofs and stores of a patch agree, see PatchSaga.
PatchInv == Patch!PatchInv
\* No Markdown file is lost on the way into a slot or out of it.
FilesAreKept == Patch!FilesAreKept
\* A vault that is called finished is whole, see DevVault.
VaultIsWhole == Vaults!VaultIsWhole
\* A published candidate is whole and reproduced, see ReleaseBuild.
PublishedIsWhole == Builds!PublishedIsWhole
\* A lock of a dead migrator does not block upgrades for ever.
LocksAreCleared == Migration!LocksAreCleared
\* An open record of a patch is decided, or reported as blocking.
RecordsAreDecided == Patch!RecordsAreDecided
=============================================================================
