-------------------------- MODULE MigrationPublish --------------------------
(***************************************************************************)
(* Publication of a database by src/storage/migration_manager.py.  A       *)
(* database is never migrated in place: a complete product is built beside *)
(* it and put in its place by one step, a hard link that refuses an        *)
(* existing target (fresh) or a replacement (upgrade).  Upgrades exclude   *)
(* one another by a lock file that a crash leaves behind.  Applications    *)
(* write the database meanwhile, each transaction on the file it opened.   *)
(*                                                                         *)
(* A database is its file, its schema version (the length of the applied   *)
(* prefix of the migration chain) and the rows in it; stamp stands for the *)
(* size and the times of the file.                                         *)
(***************************************************************************)
EXTENDS Integers, FiniteSets

CONSTANTS Migrators, Apps, Rows,
          Latest,        \* length of the bundled migration chain
          OldVersion,    \* version an existing database starts with
          NoOne,         \* no owner of the lock
          MaxTries,      \* bound: calls of a migrator
          MaxCrashes, MaxFailures, MaxMistakes

\* What an instance must satisfy; the modules that instantiate it assume it.
MPAssumption == /\ Latest \in Nat /\ OldVersion \in 1 .. Latest - 1
                       /\ NoOne \notin Migrators
                       /\ \A n \in {MaxTries, MaxCrashes, MaxFailures,
                                    MaxMistakes} : n \in Nat

VARIABLES db,        \* the published database
          lock,      \* the lock file: who created it, and which file it is
          backups,   \* contents of the backup files
          mig,       \* each migrator
          conn,      \* the file each application has open
          acked,     \* rows whose commit was reported
          nextId, count

vars == <<db, lock, backups, mig, conn, acked, nextId, count>>

NoDb == [id |-> 0, ver |-> 0, rows |-> {}, stamp |-> 0]
NoLock == [owner |-> NoOne, id |-> 0]
IdleMigrator == [pc |-> "idle", kind |-> "upgrade", lockId |-> 0,
                 print |-> NoDb, work |-> NoDb, backup |-> FALSE]

Init == /\ db \in {NoDb, [id |-> 1, ver |-> OldVersion, rows |-> {}, stamp |-> 0]}
        /\ lock = NoLock /\ backups = {}
        /\ mig = [m \in Migrators |-> IdleMigrator]
        /\ conn = [a \in Apps |-> 0]
        /\ acked = {} /\ nextId = 2
        /\ count = [tries |-> 0, crashes |-> 0, failures |-> 0, mistakes |-> 0]

At(m, p) == mig[m].pc = p
Goto(m, p) == mig' = [mig EXCEPT ![m].pc = p]
Once(e) == count' = [count EXCEPT ![e] = @ + 1]
Work(m) == mig[m].work

State(d) == CASE d = NoDb         -> "fresh"
              [] d.ver = Latest   -> "ready"
              [] OTHER            -> "upgrade"

\* Mutant of Fingerprint: only the identity of the file is compared.
FingerprintById(d) == d.id

\* What a later look at the path can tell apart.
Fingerprint(d) == <<d.id, d.stamp>>

-----------------------------------------------------------------------------
(* The upgrade: everything between the lock and the release.               *)

\* Nothing pending ends the call before the lock; drift never occurs here.
Begin(m, backup) ==
  /\ At(m, "idle") /\ count.tries < MaxTries /\ Once("tries")
  /\ mig' = [mig EXCEPT ![m] = [IdleMigrator EXCEPT !.backup = backup,
                !.pc = IF State(db) = "ready" THEN "idle" ELSE "lock"]]
  /\ UNCHANGED <<db, lock, backups, conn, acked, nextId>>

\* The lock file is created exclusively; an existing one refuses the call.
Lock(m) ==
  /\ At(m, "lock")
  /\ IF lock = NoLock
       THEN /\ lock' = [owner |-> m, id |-> nextId]
            /\ mig' = [mig EXCEPT ![m].pc = "recheck", ![m].lockId = nextId]
            /\ nextId' = nextId + 1
       ELSE Goto(m, "idle") /\ UNCHANGED <<lock, nextId>>
  /\ UNCHANGED <<db, backups, conn, acked, count>>

\* Mutant of Recheck: the call returns early with the lock held.
RecheckReturns(m) ==
  /\ At(m, "recheck")
  /\ mig' = IF State(db) = "ready" THEN [mig EXCEPT ![m].pc = "idle"]
            ELSE [mig EXCEPT ![m].pc = "backup", ![m].print = db]
  /\ UNCHANGED <<db, lock, backups, conn, acked, nextId, count>>

\* The state is read again inside the lock and the file's identity noted.
Recheck(m) ==
  /\ At(m, "recheck")
  /\ mig' = IF State(db) = "ready" THEN [mig EXCEPT ![m].pc = "release"]
            ELSE [mig EXCEPT ![m].pc = "backup", ![m].print = db]
  /\ UNCHANGED <<db, lock, backups, conn, acked, nextId, count>>

Backup(m) ==
  /\ At(m, "backup")
  /\ backups' = IF mig[m].backup /\ db # NoDb THEN backups \cup {db.rows}
                ELSE backups
  /\ Goto(m, "copy")
  /\ UNCHANGED <<db, lock, conn, acked, nextId, count>>

\* A consistent copy of whatever is at the path now, or an empty file.
Copy(m) ==
  /\ At(m, "copy")
  /\ mig' = [mig EXCEPT ![m].pc = "apply",
                        ![m].work = [db EXCEPT !.id = nextId, !.stamp = 0]]
  /\ nextId' = nextId + 1
  /\ UNCHANGED <<db, lock, backups, conn, acked, count>>

\* Each script is one transaction; the pending list is the one read inside
\* the lock, so it does not fit a copy of another version.
Pending(m) == mig[m].print.ver

Apply(m) ==
  /\ At(m, "apply") /\ Work(m).ver < Latest
  /\ mig' = IF Pending(m) = Work(m).ver
              THEN [mig EXCEPT ![m].work.ver = @ + 1, ![m].print.ver = @ + 1]
              ELSE [mig EXCEPT ![m].pc = "release"]
  /\ UNCHANGED <<db, lock, backups, conn, acked, nextId, count>>

\* Mutant of Check: the product is not inspected.
CheckOriginalOnly(m) ==
  /\ At(m, "apply")
  /\ Goto(m, IF Fingerprint(db) = Fingerprint(mig[m].print) THEN "publish"
             ELSE "release")
  /\ UNCHANGED <<db, lock, backups, conn, acked, nextId, count>>

\* Only a product that is ready, of an unchanged original, is published.
Check(m) ==
  /\ At(m, "apply") /\ Work(m).ver = Latest
  /\ Goto(m, IF Fingerprint(db) = Fingerprint(mig[m].print) THEN "publish"
             ELSE "release")
  /\ UNCHANGED <<db, lock, backups, conn, acked, nextId, count>>

PublishLink(m) ==
  /\ At(m, "publish") /\ mig[m].print.id = 0
  /\ db' = IF db = NoDb THEN Work(m) ELSE db
  /\ Goto(m, "release")
  /\ UNCHANGED <<lock, backups, conn, acked, nextId, count>>

PublishReplace(m) ==
  /\ At(m, "publish") /\ mig[m].print.id # 0
  /\ db' = Work(m)
  /\ Goto(m, "release")
  /\ UNCHANGED <<lock, backups, conn, acked, nextId, count>>

\* Only the lock file this migrator created is removed.
Release(m) ==
  /\ At(m, "release")
  /\ lock' = IF lock.id = mig[m].lockId THEN NoLock ELSE lock
  /\ mig' = [mig EXCEPT ![m] = IdleMigrator]
  /\ UNCHANGED <<db, backups, conn, acked, nextId, count>>

-----------------------------------------------------------------------------
(* The first start: no lock file, no replacement.                          *)

BeginFresh(m) ==
  /\ At(m, "idle") /\ count.tries < MaxTries /\ Once("tries")
  /\ State(db) = "fresh"
  /\ mig' = [mig EXCEPT ![m] = [IdleMigrator EXCEPT !.pc = "build",
                                  !.kind = "fresh", !.work.id = nextId]]
  /\ nextId' = nextId + 1
  /\ UNCHANGED <<db, lock, backups, conn, acked>>

Build(m) ==
  /\ At(m, "build") /\ Work(m).ver < Latest
  /\ mig' = [mig EXCEPT ![m].work.ver = @ + 1]
  /\ UNCHANGED <<db, lock, backups, conn, acked, nextId, count>>

\* The product appears at the path only where nothing is.
PublishFresh(m) ==
  /\ At(m, "build") /\ Work(m).ver = Latest
  /\ db' = IF db = NoDb THEN Work(m) ELSE db
  /\ mig' = [mig EXCEPT ![m] = IdleMigrator]
  /\ UNCHANGED <<lock, backups, conn, acked, nextId, count>>

-----------------------------------------------------------------------------
(* Applications and the environment.                                       *)

\* A transaction opens the file at the path ...
AppOpen(a) ==
  /\ conn[a] = 0 /\ db # NoDb
  /\ conn' = [conn EXCEPT ![a] = db.id]
  /\ UNCHANGED <<db, lock, backups, mig, acked, nextId, count>>

\* ... and commits into that file, whether it still has the name or not.
AppCommit(a, r) ==
  /\ conn[a] # 0 /\ r \notin acked
  /\ db' = IF conn[a] = db.id
             THEN [db EXCEPT !.rows = @ \cup {r}, !.stamp = @ + 1] ELSE db
  /\ acked' = acked \cup {r}
  /\ conn' = [conn EXCEPT ![a] = 0]
  /\ UNCHANGED <<lock, backups, mig, nextId, count>>

\* A script, a copy or a check fails; work files go, the lock is released.
Fail(m) ==
  /\ mig[m].pc \in {"backup", "copy", "apply", "publish", "build"}
  /\ count.failures < MaxFailures /\ Once("failures")
  /\ mig' = IF mig[m].kind = "fresh" THEN [mig EXCEPT ![m] = IdleMigrator]
            ELSE [mig EXCEPT ![m].pc = "release"]
  /\ UNCHANGED <<db, lock, backups, conn, acked, nextId>>

\* A crash leaves the lock file.
Crash(m) ==
  /\ ~At(m, "idle") /\ count.crashes < MaxCrashes /\ Once("crashes")
  /\ mig' = [mig EXCEPT ![m] = IdleMigrator]
  /\ UNCHANGED <<db, lock, backups, conn, acked, nextId>>

\* The operator removes the lock of a migrator that is gone ...
RemoveStaleLock ==
  /\ lock # NoLock
  /\ \A m \in Migrators : mig[m].lockId # lock.id
  /\ lock' = NoLock
  /\ UNCHANGED <<db, backups, mig, conn, acked, nextId, count>>

\* ... or, by mistake, of one that is still at work.
RemoveLiveLock ==
  /\ lock # NoLock /\ count.mistakes < MaxMistakes /\ Once("mistakes")
  /\ \E m \in Migrators : mig[m].lockId = lock.id
  /\ lock' = NoLock
  /\ UNCHANGED <<db, backups, mig, conn, acked, nextId>>

-----------------------------------------------------------------------------
Upgrading(m) == \/ Lock(m) \/ Recheck(m) \/ Backup(m) \/ Copy(m) \/ Apply(m)
                \/ Check(m) \/ PublishLink(m) \/ PublishReplace(m) \/ Release(m)

Starting(m) == Build(m) \/ PublishFresh(m)

Next == \/ \E m \in Migrators : \/ \E b \in BOOLEAN : Begin(m, b)
                                \/ BeginFresh(m) \/ Upgrading(m) \/ Starting(m)
                                \/ Fail(m) \/ Crash(m)
        \/ \E a \in Apps : AppOpen(a) \/ \E r \in Rows : AppCommit(a, r)
        \/ RemoveStaleLock \/ RemoveLiveLock

Spec == Init /\ [][Next]_vars

\* Calls once begun run on, and the operator clears the lock of a dead one.
FairSpec == /\ Spec
            /\ \A m \in Migrators : WF_vars(Upgrading(m)) /\ WF_vars(Starting(m))
            /\ WF_vars(RemoveStaleLock)

-----------------------------------------------------------------------------
(* Properties.                                                             *)

Databases == [id : Nat, ver : 0 .. Latest, rows : SUBSET Rows, stamp : Nat]
Steps == {"idle", "lock", "recheck", "backup", "copy", "apply", "publish", "release", "build"}
Attempts == [pc : Steps, kind : {"fresh", "upgrade"}, lockId : Nat, print : Databases,
             work : Databases, backup : BOOLEAN]

\* The database, the lock and the migrators have their types.
TypeOK ==
  /\ db \in Databases /\ backups \subseteq SUBSET Rows
  /\ lock \in [owner : Migrators \cup {NoOne}, id : Nat]
  /\ mig \in [Migrators -> Attempts]
  /\ conn \in [Apps -> Nat] /\ acked \subseteq Rows /\ nextId \in Nat
  /\ count \in [{"tries", "crashes", "failures", "mistakes"} -> Nat]

\* A product has a file of its own until it is published, and is complete when
\* it passed the last check.
Inspected(m) == mig[m].pc \in {"backup", "copy", "apply", "publish"}
HasProduct(m) == mig[m].pc \in {"apply", "publish", "build"}
ProductsAreApart ==
  /\ nextId > 0 /\ db.id < nextId
  /\ \A m \in Migrators :
       /\ Inspected(m) => mig[m].print.id < nextId
       /\ HasProduct(m) =>
            /\ Work(m).id \notin {0, db.id} /\ Work(m).id < nextId
            /\ \A n \in Migrators : /\ Inspected(n) => Work(m).id # mig[n].print.id
                                    /\ HasProduct(n) /\ n # m => Work(m).id # Work(n).id
       /\ mig[m].pc = "publish" => Work(m).ver = Latest

\* Nobody ever finds a database between two versions: it has the version it
\* had or the latest one, after every failure and crash.
NeverHalfMigrated == db = NoDb \/ db.ver \in {OldVersion, Latest}

\* A database of the file that a migrator inspected is as it was then, or has
\* another stamp; and the copy has what was in it when it still has that stamp.
PrintsTell ==
  \A m \in Migrators :
    Inspected(m) /\ db.id = mig[m].print.id =>
      /\ mig[m].print.stamp <= db.stamp
      /\ mig[m].pc = "apply" /\ db.stamp = mig[m].print.stamp => db.rows \subseteq Work(m).rows

\* From the second look to the release a migrator has a lock file of its own;
\* one that nobody removed by mistake is the lock, and under it no database
\* that was to be upgraded becomes ready.
Inside(m) == mig[m].pc \in {"recheck", "backup", "copy", "apply", "publish"}
LocksAreOwned ==
  /\ lock.id < nextId
  /\ \A m \in Migrators :
       /\ mig[m].lockId < nextId
       /\ (mig[m].kind = "fresh") = (mig[m].pc = "build")
       /\ Inside(m) \/ mig[m].pc = "release" => mig[m].lockId # 0
       /\ mig[m].lockId # 0 /\ lock.id = mig[m].lockId => lock.owner = m
       /\ Inside(m) /\ count.mistakes = 0 =>
            /\ lock.id = mig[m].lockId
            /\ Inspected(m) /\ mig[m].print.id # 0 => State(db) = "upgrade"

\* Upgrades exclude one another from the second look to the release.
OneUpgrade == count.mistakes = 0 => Cardinality({m \in Migrators : Inside(m)}) <= 1

\* The types, whole versions, one upgrade at a time, and what they rest on.
MigrationInv == /\ TypeOK /\ ProductsAreApart /\ NeverHalfMigrated /\ PrintsTell
                /\ LocksAreOwned /\ OneUpgrade

\* The product that passes the last check holds every row committed until
\* then, although applications wrote while it was built.
ProductHasAllRows ==
  [][\A m \in Migrators :
       At(m, "apply") /\ mig'[m].pc = "publish" => db.rows \subseteq Work(m).rows]_vars

\* A ready database is replaced by nobody, whichever calls race and however
\* often the lock is removed, unless a mistaken operator lets two of them in.
ReadyIsFinal ==
  [][State(db) = "ready" /\ count.mistakes = 0 => db'.id = db.id]_vars

\* Nobody removes a lock that a running migrator created, but its creator and
\* a mistaken operator.
LockIsMine ==
  [][\A m \in Migrators :
       lock.owner = m /\ lock.id = mig[m].lockId /\ lock' = NoLock
         => At(m, "release") \/ count'.mistakes # count.mistakes]_vars

\* What a step of an upgrade or of an operator may never do.
UpgradeIsSafe == ProductHasAllRows /\ ReadyIsFinal /\ LockIsMine

\* A row whose commit was reported is in the database.
AckedRowsSurvive == acked \subseteq db.rows

\* A lock of a dead migrator does not block upgrades for ever.
LocksAreCleared == (lock # NoLock) ~> (lock = NoLock)

\* A call that got the lock and met no failure leaves a ready database.
UpgradesFinish ==
  \A m \in Migrators :
    At(m, "recheck") ~> \/ State(db) = "ready"
                        \/ count.failures + count.crashes + count.mistakes > 0
                        \/ acked # {}
=============================================================================
