----------------------------- MODULE FileProofs -----------------------------
(***************************************************************************)
(* Theorems about files that are replaced while others use them: first the *)
(* migrated database, for any migrators, applications, rows and versions,  *)
(* and any number of crashes, failures and mistaken removals of a lock;    *)
(* then the patched Markdown file, for any patches, edits, faults and      *)
(* crashes.                                                                *)
(***************************************************************************)
EXTENDS MigrationPublish, FiniteSetTheorems, TLAPS


\* The inductive part of MigrationInv; that upgrades exclude one another follows.
UpgradeInv == TypeOK /\ ProductsAreApart /\ NeverHalfMigrated /\ PrintsTell /\ LocksAreOwned

\* The values a migrator and a missing database start from are typed.
LEMMA IdleTyped == MPAssumption => NoDb \in Databases /\ IdleMigrator \in Attempts
  <1> SUFFICES ASSUME MPAssumption PROVE NoDb \in Databases /\ IdleMigrator \in Attempts
    OBVIOUS
  <1>1. NoDb \in Databases
    BY DEF MPAssumption, NoDb, Databases
  <1>2. QED
    BY <1>1 DEF IdleMigrator, Attempts, Steps

\* Counting keeps the type of the counters.
LEMMA CountTyped ==
  ASSUME NEW S, NEW c \in [S -> Nat], NEW e \in S
  PROVE  [c EXCEPT ![e] = @ + 1] \in [S -> Nat]
  OBVIOUS

\* A migrator keeps its type when fields of it are updated.
LEMMA AttemptTyped ==
  ASSUME NEW r \in Attempts, NEW p \in Steps, NEW d \in Databases, NEW v \in 0 .. Latest,
         NEW w \in 0 .. Latest
  PROVE  /\ [r EXCEPT !.pc = p] \in Attempts
         /\ [r EXCEPT !.pc = p, !.print = d] \in Attempts
         /\ [r EXCEPT !.pc = p, !.work = d] \in Attempts
         /\ [r EXCEPT !.work.ver = v] \in Attempts
         /\ [r EXCEPT !.work.ver = v, !.print.ver = w] \in Attempts
  <1>1. [r.work EXCEPT !.ver = v] \in Databases /\ [r.print EXCEPT !.ver = w] \in Databases
    BY DEF Attempts, Databases
  <1>2. [r EXCEPT !.work.ver = v] \in Attempts
    BY <1>1 DEF Attempts
  <1>3. [r EXCEPT !.work.ver = v, !.print.ver = w] \in Attempts
    BY <1>1 DEF Attempts
  <1>4. [r EXCEPT !.pc = p] \in Attempts
    BY DEF Attempts
  <1>5. [r EXCEPT !.pc = p, !.print = d] \in Attempts
    BY DEF Attempts
  <1>6. [r EXCEPT !.pc = p, !.work = d] \in Attempts
    BY DEF Attempts
  <1>7. QED
    BY <1>2, <1>3, <1>4, <1>5, <1>6

\* Every update of a migrator that the actions make keeps the type of all of them.
LEMMA MigTyped ==
  ASSUME TypeOK, NEW m \in Migrators, NEW p \in Steps, NEW d \in Databases,
         NEW v \in 0 .. Latest, NEW w \in 0 .. Latest,
         \/ mig' = [mig EXCEPT ![m].pc = p]
         \/ mig' = [mig EXCEPT ![m].pc = p, ![m].print = d]
         \/ mig' = [mig EXCEPT ![m].pc = p, ![m].work = d]
         \/ mig' = [mig EXCEPT ![m].work.ver = v]
         \/ mig' = [mig EXCEPT ![m].work.ver = v, ![m].print.ver = w]
  PROVE  mig' \in [Migrators -> Attempts]
  <1>1. /\ mig[m] \in Attempts /\ mig \in [Migrators -> Attempts]
    BY DEF TypeOK
  <1>2. PICK r \in Attempts : mig' = [mig EXCEPT ![m] = r]
    <2>1. CASE mig' = [mig EXCEPT ![m].pc = p]
      BY <2>1, <1>1, AttemptTyped
    <2>2. CASE mig' = [mig EXCEPT ![m].pc = p, ![m].print = d]
      <3>1. mig' = [mig EXCEPT ![m] = [mig[m] EXCEPT !.pc = p, !.print = d]]
        BY <2>2, <1>1 DEF Attempts
      <3>2. QED
        BY <3>1, <1>1, AttemptTyped
    <2>3. CASE mig' = [mig EXCEPT ![m].pc = p, ![m].work = d]
      <3>1. mig' = [mig EXCEPT ![m] = [mig[m] EXCEPT !.pc = p, !.work = d]]
        BY <2>3, <1>1 DEF Attempts
      <3>2. QED
        BY <3>1, <1>1, AttemptTyped
    <2>4. CASE mig' = [mig EXCEPT ![m].work.ver = v]
      BY <2>4, <1>1, AttemptTyped
    <2>5. CASE mig' = [mig EXCEPT ![m].work.ver = v, ![m].print.ver = w]
      <3>1. mig' = [mig EXCEPT ![m] = [mig[m] EXCEPT !.work.ver = v, !.print.ver = w]]
        BY <2>5, <1>1 DEF Attempts
      <3>2. QED
        BY <3>1, <1>1, AttemptTyped
    <2>6. QED
      BY <2>1, <2>2, <2>3, <2>4, <2>5
  <1>3. QED
    BY <1>1, <1>2

\* So does a step of its program counter alone.
LEMMA StepTyped ==
  ASSUME TypeOK, NEW m \in Migrators, NEW p \in Steps
  PROVE  [mig EXCEPT ![m].pc = p] \in [Migrators -> Attempts]
  <1>1. [mig[m] EXCEPT !.pc = p] \in Attempts
    BY DEF TypeOK, Attempts
  <1>2. QED
    BY <1>1 DEF TypeOK

\* A call that begins, or finds nothing to do, keeps the invariant.
LEMMA BeginKeeps ==
  ASSUME MPAssumption, UpgradeInv, NEW m \in Migrators, NEW b \in BOOLEAN, Begin(m, b)
  PROVE  UpgradeInv'
  <1> USE DEF MPAssumption, UpgradeInv
  <1>1. TypeOK'
    <2>1. PICK p \in {"idle", "lock"} :
            mig' = [mig EXCEPT ![m] = [IdleMigrator EXCEPT !.backup = b, !.pc = p]]
      BY DEF Begin
    <2>2. [IdleMigrator EXCEPT !.backup = b, !.pc = p] \in Attempts
      BY IdleTyped DEF Attempts, Steps
    <2>3. QED
      BY <2>1, <2>2, CountTyped DEF Begin, Once, TypeOK
  <1>2. ProductsAreApart'
    BY DEF TypeOK, Attempts, Databases, Steps, IdleMigrator, NoDb, NoLock, At, Goto, Once,
           Work, State, Begin, ProductsAreApart, Inspected, HasProduct, Fingerprint
  <1>3. NeverHalfMigrated'
    BY DEF TypeOK, Attempts, Databases, Steps, IdleMigrator, NoDb, NoLock, At, Goto, Once,
           Work, State, Begin, NeverHalfMigrated, ProductsAreApart, HasProduct
  <1>4. PrintsTell'
    BY DEF TypeOK, Attempts, Databases, Steps, IdleMigrator, NoDb, NoLock, At, Goto, Once,
           Work, State, Begin, PrintsTell, Inspected, ProductsAreApart, HasProduct
  <1>5. LocksAreOwned'
    BY DEF TypeOK, Attempts, Databases, Steps, IdleMigrator, NoDb, NoLock, At, Goto, Once,
           Work, State, Begin, LocksAreOwned, Inside, Inspected, ProductsAreApart,
           HasProduct
  <1> QED
    BY <1>1, <1>2, <1>3, <1>4, <1>5

\* A first start that begins keeps the invariant: its product has a new file.
LEMMA BeginFreshKeeps ==
  ASSUME MPAssumption, UpgradeInv, NEW m \in Migrators, BeginFresh(m)
  PROVE  UpgradeInv'
  <1> USE DEF MPAssumption, UpgradeInv
  <1>1. TypeOK'
    <2>1. [IdleMigrator.work EXCEPT !.id = nextId] \in Databases
      BY IdleTyped DEF IdleMigrator, Databases, TypeOK
    <2>2. [IdleMigrator EXCEPT !.pc = "build", !.kind = "fresh", !.work.id = nextId] \in Attempts
      BY <2>1, IdleTyped DEF IdleMigrator, Attempts, Steps
    <2>3. QED
      BY <2>2, CountTyped DEF BeginFresh, Once, TypeOK
  <1>2. ProductsAreApart'
    BY DEF TypeOK, Attempts, Databases, Steps, IdleMigrator, NoDb, NoLock, At, Goto, Once,
           Work, State, BeginFresh, ProductsAreApart, Inspected, HasProduct, Fingerprint
  <1>3. NeverHalfMigrated'
    BY DEF TypeOK, Attempts, Databases, Steps, IdleMigrator, NoDb, NoLock, At, Goto, Once,
           Work, State, BeginFresh, NeverHalfMigrated, ProductsAreApart, HasProduct
  <1>4. PrintsTell'
    BY DEF TypeOK, Attempts, Databases, Steps, IdleMigrator, NoDb, NoLock, At, Goto, Once,
           Work, State, BeginFresh, PrintsTell, Inspected, ProductsAreApart, HasProduct
  <1>5. LocksAreOwned'
    BY DEF TypeOK, Attempts, Databases, Steps, IdleMigrator, NoDb, NoLock, At, Goto, Once,
           Work, State, BeginFresh, LocksAreOwned, Inside, Inspected, ProductsAreApart,
           HasProduct
  <1> QED
    BY <1>1, <1>2, <1>3, <1>4, <1>5

\* Taking the lock, or finding it taken, keeps the invariant: the lock file is new.
LEMMA LockKeeps ==
  ASSUME MPAssumption, UpgradeInv, NEW m \in Migrators, Lock(m)
  PROVE  UpgradeInv'
  <1> USE DEF MPAssumption, UpgradeInv
  <1>1. TypeOK'
    <2>1. mig' \in [Migrators -> Attempts]
      BY DEF Lock, Goto, TypeOK, Attempts, Steps
    <2>2. QED
      BY <2>1 DEF Lock, TypeOK, NoLock
  <1>2. ProductsAreApart'
    <2>1. /\ \A n \in Migrators : /\ mig'[n].print = mig[n].print /\ mig'[n].work = mig[n].work
                                  /\ mig'[n].pc \in {mig[n].pc, "recheck", "idle"}
          /\ nextId' >= nextId /\ db' = db
      BY DEF Lock, Goto, TypeOK, Attempts
    <2>2. nextId' \in Nat /\ db.id \in Nat /\ \A n \in Migrators : /\ mig[n].print.id \in Nat
                                                              /\ mig[n].work.id \in Nat
      BY <1>1 DEF TypeOK, Attempts, Databases
    <2>3. QED
      BY <2>1, <2>2 DEF ProductsAreApart, Inspected, HasProduct, Work, TypeOK
  <1>3. NeverHalfMigrated'
    BY DEF TypeOK, Attempts, Databases, Steps, IdleMigrator, NoDb, NoLock, At, Goto, Once,
           Work, State, Lock, NeverHalfMigrated, ProductsAreApart, HasProduct
  <1>4. PrintsTell'
    <2>1. /\ \A n \in Migrators : /\ mig'[n].print = mig[n].print /\ mig'[n].work = mig[n].work
                                  /\ mig'[n].pc \in {mig[n].pc, "recheck", "idle"}
          /\ db' = db
      BY DEF Lock, Goto, TypeOK, Attempts
    <2>2. QED
      BY <2>1 DEF PrintsTell, Inspected, Work
  <1>5. LocksAreOwned'
    BY DEF TypeOK, Attempts, Databases, Steps, IdleMigrator, NoDb, NoLock, At, Goto, Once,
           Work, State, Lock, LocksAreOwned, Inside, Inspected, ProductsAreApart, HasProduct
  <1> QED
    BY <1>1, <1>2, <1>3, <1>4, <1>5

\* The second look keeps the invariant: a database that is noted is not ready.
LEMMA RecheckKeeps ==
  ASSUME MPAssumption, UpgradeInv, NEW m \in Migrators, Recheck(m)
  PROVE  UpgradeInv'
  <1> USE DEF MPAssumption, UpgradeInv
  <1>1. TypeOK'
    <2>1. mig' \in [Migrators -> Attempts]
      <3>1. CASE mig' = [mig EXCEPT ![m].pc = "release"]
        <4>1. "release" \in Steps
          BY DEF Steps
        <4> QED
          BY <3>1, <4>1, StepTyped
      <3>2. CASE mig' = [mig EXCEPT ![m].pc = "backup", ![m].print = db]
        <4> DEFINE r == [mig[m] EXCEPT !.pc = "backup", !.print = db]
        <4>1. mig \in [Migrators -> Attempts] /\ db \in Databases
          BY DEF TypeOK
        <4>2. r \in Attempts
          BY <4>1 DEF Attempts, Steps
        <4>3. mig' = [mig EXCEPT ![m] = r]
          BY <3>2, <4>1
        <4> QED
          BY ONLY <4>1, <4>2, <4>3
      <3> QED
        BY <3>1, <3>2 DEF Recheck
    <2>2. QED
      BY <2>1 DEF Recheck, TypeOK
  <1>2. ProductsAreApart'
    BY DEF TypeOK, Attempts, Databases, Steps, IdleMigrator, NoDb, NoLock, At, Goto, Once,
           Work, State, Recheck, ProductsAreApart, Inspected, HasProduct, Fingerprint
  <1>3. NeverHalfMigrated'
    BY DEF TypeOK, Attempts, Databases, Steps, IdleMigrator, NoDb, NoLock, At, Goto, Once,
           Work, State, Recheck, NeverHalfMigrated, ProductsAreApart, HasProduct
  <1>4. PrintsTell'
    <2>1. /\ db' = db /\ mig[m].pc = "recheck"
          /\ \A n \in Migrators :
               /\ mig'[n].work = mig[n].work
               /\ n # m => mig'[n] = mig[n]
               /\ \/ n = m /\ mig'[n].pc = "release"
                  \/ n = m /\ mig'[n].pc = "backup" /\ mig'[n].print = db
                  \/ n # m
      BY DEF Recheck, At, TypeOK, Attempts
    <2> QED
      BY <2>1 DEF TypeOK, Attempts, Databases, PrintsTell, Inspected, Work, ProductsAreApart, HasProduct
  <1>5. LocksAreOwned'
    BY DEF TypeOK, Attempts, Databases, Steps, IdleMigrator, NoDb, NoLock, At, Goto, Once,
           Work, State, Recheck, LocksAreOwned, Inside, Inspected, ProductsAreApart,
           HasProduct
  <1> QED
    BY <1>1, <1>2, <1>3, <1>4, <1>5

\* A backup keeps the invariant.
LEMMA BackupKeeps ==
  ASSUME MPAssumption, UpgradeInv, NEW m \in Migrators, Backup(m)
  PROVE  UpgradeInv'
  <1> USE DEF MPAssumption, UpgradeInv
  <1>1. TypeOK'
    <2>1. mig' \in [Migrators -> Attempts]
      <3>1. "copy" \in Steps
        BY DEF Steps
      <3> QED
        BY <3>1, StepTyped DEF Backup, Goto
    <2>2. backups' \subseteq SUBSET Rows
      BY DEF Backup, TypeOK, Databases
    <2>3. QED
      BY <2>1, <2>2 DEF Backup, TypeOK
  <1>2. ProductsAreApart'
    BY DEF TypeOK, Attempts, Databases, Steps, IdleMigrator, NoDb, NoLock, At, Goto, Once,
           Work, State, Backup, ProductsAreApart, Inspected, HasProduct, Fingerprint
  <1>3. NeverHalfMigrated'
    BY DEF TypeOK, Attempts, Databases, Steps, IdleMigrator, NoDb, NoLock, At, Goto, Once,
           Work, State, Backup, NeverHalfMigrated, ProductsAreApart, HasProduct
  <1>4. PrintsTell'
    BY DEF TypeOK, Attempts, Databases, Steps, IdleMigrator, NoDb, NoLock, At, Goto, Once,
           Work, State, Backup, PrintsTell, Inspected, ProductsAreApart, HasProduct
  <1>5. LocksAreOwned'
    BY DEF TypeOK, Attempts, Databases, Steps, IdleMigrator, NoDb, NoLock, At, Goto, Once,
           Work, State, Backup, LocksAreOwned, Inside, Inspected, ProductsAreApart,
           HasProduct
  <1> QED
    BY <1>1, <1>2, <1>3, <1>4, <1>5

\* The copy keeps the invariant: it is a new file and has all rows of the database.
LEMMA CopyKeeps ==
  ASSUME MPAssumption, UpgradeInv, NEW m \in Migrators, Copy(m)
  PROVE  UpgradeInv'
  <1> USE DEF MPAssumption, UpgradeInv
  <1>1. TypeOK'
    <2>1. [db EXCEPT !.id = nextId, !.stamp = 0] \in Databases
      BY DEF TypeOK, Databases
    <2>2. mig' \in [Migrators -> Attempts]
      BY <2>1, MigTyped DEF Copy, Steps, TypeOK, Databases
    <2>3. QED
      BY <2>2 DEF Copy, TypeOK
  <1>2. ProductsAreApart'
    BY DEF TypeOK, Attempts, Databases, Steps, IdleMigrator, NoDb, NoLock, At, Goto, Once,
           Work, State, Copy, ProductsAreApart, Inspected, HasProduct, Fingerprint
  <1>3. NeverHalfMigrated'
    BY DEF TypeOK, Attempts, Databases, Steps, IdleMigrator, NoDb, NoLock, At, Goto, Once,
           Work, State, Copy, NeverHalfMigrated, ProductsAreApart, HasProduct
  <1>4. PrintsTell'
    BY DEF TypeOK, Attempts, Databases, Steps, IdleMigrator, NoDb, NoLock, At, Goto, Once,
           Work, State, Copy, PrintsTell, Inspected, ProductsAreApart, HasProduct
  <1>5. LocksAreOwned'
    BY DEF TypeOK, Attempts, Databases, Steps, IdleMigrator, NoDb, NoLock, At, Goto, Once,
           Work, State, Copy, LocksAreOwned, Inside, Inspected, ProductsAreApart, HasProduct
  <1> QED
    BY <1>1, <1>2, <1>3, <1>4, <1>5

\* A migration script keeps the invariant: it changes the product only.
LEMMA ApplyKeeps ==
  ASSUME MPAssumption, UpgradeInv, NEW m \in Migrators, Apply(m)
  PROVE  UpgradeInv'
  <1> USE DEF MPAssumption, UpgradeInv
  <1>1. \/ /\ mig' = [mig EXCEPT ![m].work.ver = @ + 1, ![m].print.ver = @ + 1]
           /\ Work(m).ver + 1 \in 0 .. Latest /\ mig[m].print.ver + 1 \in 0 .. Latest
        \/ mig' = [mig EXCEPT ![m].pc = "release"]
    BY DEF Apply, Pending, TypeOK, Attempts, Databases, Work
  <1>2. TypeOK'
    <2>1. mig' \in [Migrators -> Attempts]
      BY <1>1, MigTyped DEF Steps, TypeOK, Databases, Work
    <2>2. QED
      BY <2>1 DEF Apply, TypeOK
  <1>3. /\ \A n \in Migrators :
              /\ mig'[n].pc \in {mig[n].pc, "release"} /\ (n # m => mig'[n].pc = mig[n].pc)
              /\ mig'[n].kind = mig[n].kind /\ mig'[n].lockId = mig[n].lockId
              /\ mig'[n].print.id = mig[n].print.id /\ mig'[n].print.stamp = mig[n].print.stamp
              /\ mig'[n].work.id = mig[n].work.id /\ mig'[n].work.rows = mig[n].work.rows
              /\ mig'[n].pc = "publish" => mig'[n].work.ver = mig[n].work.ver
        /\ mig[m].pc = "apply" /\ UNCHANGED <<db, lock, backups, conn, acked, nextId, count>>
    <2>0. mig \in [Migrators -> Attempts] /\ mig[m] \in Attempts /\ mig[m].pc = "apply"
          /\ UNCHANGED <<db, lock, backups, conn, acked, nextId, count>>
      BY DEF Apply, At, TypeOK
    <2>1. CASE mig' = [mig EXCEPT ![m].work.ver = @ + 1, ![m].print.ver = @ + 1]
      <3> DEFINE r == [mig[m] EXCEPT !.work.ver = @ + 1, !.print.ver = @ + 1]
      <3>1. r.pc = mig[m].pc /\ r.kind = mig[m].kind /\ r.lockId = mig[m].lockId
            /\ r.print.id = mig[m].print.id /\ r.print.stamp = mig[m].print.stamp
            /\ r.work.id = mig[m].work.id /\ r.work.rows = mig[m].work.rows
        BY ONLY <2>0 DEF Attempts, Databases
      <3>2. mig' = [mig EXCEPT ![m] = r]
        BY ONLY <2>0, <2>1 DEF Attempts
      <3> HIDE DEF r
      <3> QED
        BY ONLY <2>0, <3>1, <3>2
    <2>2. CASE mig' = [mig EXCEPT ![m].pc = "release"]
      <3> DEFINE r == [mig[m] EXCEPT !.pc = "release"]
      <3>1. r.pc = "release" /\ r.kind = mig[m].kind /\ r.lockId = mig[m].lockId
            /\ r.print = mig[m].print /\ r.work = mig[m].work
        BY ONLY <2>0 DEF Attempts
      <3>2. mig' = [mig EXCEPT ![m] = r]
        BY ONLY <2>2
      <3> HIDE DEF r
      <3> QED
        BY ONLY <2>0, <3>1, <3>2
    <2>3. QED
      BY <1>1, <2>1, <2>2
  <1>4. ProductsAreApart'
    BY <1>3 DEF TypeOK, Attempts, State, Work, ProductsAreApart, Inspected, HasProduct,
           Fingerprint
  <1>5. NeverHalfMigrated'
    BY <1>3 DEF TypeOK, Attempts, State, Work, NeverHalfMigrated, ProductsAreApart, HasProduct
  <1>6. PrintsTell'
    BY <1>3 DEF TypeOK, Attempts, State, Work, PrintsTell, Inspected, ProductsAreApart, HasProduct
  <1>7. LocksAreOwned'
    BY <1>3 DEF TypeOK, Attempts, State, Work, LocksAreOwned, Inside, Inspected,
           ProductsAreApart, HasProduct
  <1> QED
    BY <1>2, <1>3, <1>4, <1>5, <1>6, <1>7

\* The last check keeps the invariant: what passes is complete.
LEMMA CheckKeeps ==
  ASSUME MPAssumption, UpgradeInv, NEW m \in Migrators, Check(m)
  PROVE  UpgradeInv'
  <1> USE DEF MPAssumption, UpgradeInv
  <1>1. TypeOK'
    <2>1. PICK p \in {"publish", "release"} : mig' = [mig EXCEPT ![m].pc = p]
      BY DEF Check, Goto
    <2>2. mig' \in [Migrators -> Attempts]
      BY <2>1, StepTyped DEF Steps
    <2>3. QED
      BY <2>2 DEF Check, TypeOK
  <1>2. ProductsAreApart'
    BY DEF TypeOK, Attempts, Databases, Steps, IdleMigrator, NoDb, NoLock, At, Goto, Once,
           Work, State, Check, ProductsAreApart, Inspected, HasProduct, Fingerprint
  <1>3. NeverHalfMigrated'
    BY DEF TypeOK, Attempts, Databases, Steps, IdleMigrator, NoDb, NoLock, At, Goto, Once,
           Work, State, Check, NeverHalfMigrated, ProductsAreApart, HasProduct
  <1>4. PrintsTell'
    BY DEF TypeOK, Attempts, Databases, Steps, IdleMigrator, NoDb, NoLock, At, Goto, Once,
           Work, State, Check, PrintsTell, Inspected, ProductsAreApart, HasProduct
  <1>5. LocksAreOwned'
    BY DEF TypeOK, Attempts, Databases, Steps, IdleMigrator, NoDb, NoLock, At, Goto, Once,
           Work, State, Check, LocksAreOwned, Inside, Inspected, ProductsAreApart,
           HasProduct
  <1> QED
    BY <1>1, <1>2, <1>3, <1>4, <1>5

\* A publication by a link keeps the invariant: it replaces nothing.
LEMMA PublishLinkKeeps ==
  ASSUME MPAssumption, UpgradeInv, NEW m \in Migrators, PublishLink(m)
  PROVE  UpgradeInv'
  <1> USE DEF MPAssumption, UpgradeInv
  <1>1. TypeOK'
    <2>1. PICK p \in {"release"} : mig' = [mig EXCEPT ![m].pc = p]
      BY DEF PublishLink, Goto
    <2>2. mig' \in [Migrators -> Attempts]
      BY <2>1, StepTyped DEF Steps
    <2>3. db' \in Databases
      BY DEF PublishLink, Work, TypeOK, Attempts
    <2>4. QED
      BY <2>2, <2>3 DEF PublishLink, TypeOK
  <1>2. ProductsAreApart'
    BY DEF TypeOK, Attempts, Databases, Steps, IdleMigrator, NoDb, NoLock, At, Goto, Once,
           Work, State, PublishLink, ProductsAreApart, Inspected, HasProduct, Fingerprint
  <1>3. NeverHalfMigrated'
    BY DEF TypeOK, Attempts, Databases, Steps, IdleMigrator, NoDb, NoLock, At, Goto, Once,
           Work, State, PublishLink, NeverHalfMigrated, ProductsAreApart, HasProduct
  <1>4. PrintsTell'
    BY DEF TypeOK, Attempts, Databases, Steps, IdleMigrator, NoDb, NoLock, At, Goto, Once,
           Work, State, PublishLink, PrintsTell, Inspected, ProductsAreApart, HasProduct
  <1>5. LocksAreOwned'
    BY DEF TypeOK, Attempts, Databases, Steps, IdleMigrator, NoDb, NoLock, At, Goto, Once,
           Work, State, PublishLink, LocksAreOwned, Inside, Inspected, ProductsAreApart,
           HasProduct
  <1> QED
    BY <1>1, <1>2, <1>3, <1>4, <1>5

\* A replacement keeps the invariant: the product gives up the file that is now the database.
LEMMA PublishReplaceKeeps ==
  ASSUME MPAssumption, UpgradeInv, NEW m \in Migrators, PublishReplace(m)
  PROVE  UpgradeInv'
  <1> USE DEF MPAssumption, UpgradeInv
  <1>1. TypeOK'
    <2>1. PICK p \in {"release"} : mig' = [mig EXCEPT ![m].pc = p]
      BY DEF PublishReplace, Goto
    <2>2. mig' \in [Migrators -> Attempts]
      BY <2>1, StepTyped DEF Steps
    <2>3. db' \in Databases
      BY DEF PublishReplace, Work, TypeOK, Attempts
    <2>4. QED
      BY <2>2, <2>3 DEF PublishReplace, TypeOK
  <1>2. ProductsAreApart'
    BY DEF TypeOK, Attempts, Databases, Steps, IdleMigrator, NoDb, NoLock, At, Goto, Once,
           Work, State, PublishReplace, ProductsAreApart, Inspected, HasProduct, Fingerprint
  <1>3. NeverHalfMigrated'
    BY DEF TypeOK, Attempts, Databases, Steps, IdleMigrator, NoDb, NoLock, At, Goto, Once,
           Work, State, PublishReplace, NeverHalfMigrated, ProductsAreApart, HasProduct
  <1>4. PrintsTell'
    BY DEF TypeOK, Attempts, Databases, Steps, IdleMigrator, NoDb, NoLock, At, Goto, Once,
           Work, State, PublishReplace, PrintsTell, Inspected, ProductsAreApart, HasProduct
  <1>5. LocksAreOwned'
    BY DEF TypeOK, Attempts, Databases, Steps, IdleMigrator, NoDb, NoLock, At, Goto, Once,
           Work, State, PublishReplace, LocksAreOwned, Inside, Inspected, ProductsAreApart,
           HasProduct
  <1> QED
    BY <1>1, <1>2, <1>3, <1>4, <1>5

\* The release keeps the invariant: a lock file that others created stays.
LEMMA ReleaseKeeps ==
  ASSUME MPAssumption, UpgradeInv, NEW m \in Migrators, Release(m)
  PROVE  UpgradeInv'
  <1> USE DEF MPAssumption, UpgradeInv
  <1>1. TypeOK'
    BY DEF TypeOK, Attempts, Databases, Steps, IdleMigrator, NoDb, NoLock, At, Goto, Once,
           Work, State, Release
  <1>2. ProductsAreApart'
    BY DEF TypeOK, Attempts, Databases, Steps, IdleMigrator, NoDb, NoLock, At, Goto, Once,
           Work, State, Release, ProductsAreApart, Inspected, HasProduct, Fingerprint
  <1>3. NeverHalfMigrated'
    BY DEF TypeOK, Attempts, Databases, Steps, IdleMigrator, NoDb, NoLock, At, Goto, Once,
           Work, State, Release, NeverHalfMigrated, ProductsAreApart, HasProduct
  <1>4. PrintsTell'
    BY DEF TypeOK, Attempts, Databases, Steps, IdleMigrator, NoDb, NoLock, At, Goto, Once,
           Work, State, Release, PrintsTell, Inspected, ProductsAreApart, HasProduct
  <1>5. LocksAreOwned'
    BY DEF TypeOK, Attempts, Databases, Steps, IdleMigrator, NoDb, NoLock, At, Goto, Once,
           Work, State, Release, LocksAreOwned, Inside, Inspected, ProductsAreApart,
           HasProduct
  <1> QED
    BY <1>1, <1>2, <1>3, <1>4, <1>5

\* A migration script of a first start keeps the invariant.
LEMMA BuildKeeps ==
  ASSUME MPAssumption, UpgradeInv, NEW m \in Migrators, Build(m)
  PROVE  UpgradeInv'
  <1> USE DEF MPAssumption, UpgradeInv
  <1>1. TypeOK'
    <2>1. Work(m).ver + 1 \in 0 .. Latest
      BY DEF Build, TypeOK, Attempts, Databases, Work
    <2>2. mig' \in [Migrators -> Attempts]
      <3> DEFINE v == Work(m).ver + 1
                 r == [mig[m] EXCEPT !.work.ver = v]
      <3>1. mig \in [Migrators -> Attempts] /\ mig' = [mig EXCEPT ![m].work.ver = v]
        BY DEF Build, Work, TypeOK
      <3> HIDE DEF v
      <3>2. v \in 0 .. Latest
        BY <2>1 DEF v
      <3>3. r \in Attempts
        BY ONLY <3>1, <3>2 DEF Attempts, Databases
      <3>4. mig' = [mig EXCEPT ![m] = r]
        BY ONLY <3>1 DEF Attempts
      <3> QED
        BY ONLY <3>1, <3>3, <3>4
    <2>3. QED
      BY <2>2 DEF Build, TypeOK
  <1>2. ProductsAreApart'
    BY DEF TypeOK, Attempts, Databases, Steps, IdleMigrator, NoDb, NoLock, At, Goto, Once,
           Work, State, Build, ProductsAreApart, Inspected, HasProduct, Fingerprint
  <1>3. NeverHalfMigrated'
    BY DEF TypeOK, Attempts, Databases, Steps, IdleMigrator, NoDb, NoLock, At, Goto, Once,
           Work, State, Build, NeverHalfMigrated, ProductsAreApart, HasProduct
  <1>4. PrintsTell'
    BY DEF TypeOK, Attempts, Databases, Steps, IdleMigrator, NoDb, NoLock, At, Goto, Once,
           Work, State, Build, PrintsTell, Inspected, ProductsAreApart, HasProduct
  <1>5. LocksAreOwned'
    BY DEF TypeOK, Attempts, Databases, Steps, IdleMigrator, NoDb, NoLock, At, Goto, Once,
           Work, State, Build, LocksAreOwned, Inside, Inspected, ProductsAreApart,
           HasProduct
  <1> QED
    BY <1>1, <1>2, <1>3, <1>4, <1>5

\* The publication of a first start keeps the invariant: it replaces nothing.
LEMMA PublishFreshKeeps ==
  ASSUME MPAssumption, UpgradeInv, NEW m \in Migrators, PublishFresh(m)
  PROVE  UpgradeInv'
  <1> USE DEF MPAssumption, UpgradeInv
  <1>1. TypeOK'
    BY DEF TypeOK, Attempts, Databases, Steps, IdleMigrator, NoDb, NoLock, At, Goto, Once,
           Work, State, PublishFresh
  <1>2. ProductsAreApart'
    BY DEF TypeOK, Attempts, Databases, Steps, IdleMigrator, NoDb, NoLock, At, Goto, Once,
           Work, State, PublishFresh, ProductsAreApart, Inspected, HasProduct, Fingerprint
  <1>3. NeverHalfMigrated'
    BY DEF TypeOK, Attempts, Databases, Steps, IdleMigrator, NoDb, NoLock, At, Goto, Once,
           Work, State, PublishFresh, NeverHalfMigrated, ProductsAreApart, HasProduct
  <1>4. PrintsTell'
    BY DEF TypeOK, Attempts, Databases, Steps, IdleMigrator, NoDb, NoLock, At, Goto, Once,
           Work, State, PublishFresh, PrintsTell, Inspected, ProductsAreApart, HasProduct
  <1>5. LocksAreOwned'
    BY DEF TypeOK, Attempts, Databases, Steps, IdleMigrator, NoDb, NoLock, At, Goto, Once,
           Work, State, PublishFresh, LocksAreOwned, Inside, Inspected, ProductsAreApart,
           HasProduct
  <1> QED
    BY <1>1, <1>2, <1>3, <1>4, <1>5

\* A failure keeps the invariant.
LEMMA FailKeeps ==
  ASSUME MPAssumption, UpgradeInv, NEW m \in Migrators, Fail(m)
  PROVE  UpgradeInv'
  <1> USE DEF MPAssumption, UpgradeInv
  <1>1. TypeOK'
    BY DEF TypeOK, Attempts, Databases, Steps, IdleMigrator, NoDb, NoLock, At, Goto, Once,
           Work, State, Fail
  <1>2. ProductsAreApart'
    BY DEF TypeOK, Attempts, Databases, Steps, IdleMigrator, NoDb, NoLock, At, Goto, Once,
           Work, State, Fail, ProductsAreApart, Inspected, HasProduct, Fingerprint
  <1>3. NeverHalfMigrated'
    BY DEF TypeOK, Attempts, Databases, Steps, IdleMigrator, NoDb, NoLock, At, Goto, Once,
           Work, State, Fail, NeverHalfMigrated, ProductsAreApart, HasProduct
  <1>4. PrintsTell'
    BY DEF TypeOK, Attempts, Databases, Steps, IdleMigrator, NoDb, NoLock, At, Goto, Once,
           Work, State, Fail, PrintsTell, Inspected, ProductsAreApart, HasProduct
  <1>5. LocksAreOwned'
    BY DEF TypeOK, Attempts, Databases, Steps, IdleMigrator, NoDb, NoLock, At, Goto, Once,
           Work, State, Fail, LocksAreOwned, Inside, Inspected, ProductsAreApart, HasProduct
  <1> QED
    BY <1>1, <1>2, <1>3, <1>4, <1>5

\* A death keeps the invariant; the lock file stays.
LEMMA CrashKeeps ==
  ASSUME MPAssumption, UpgradeInv, NEW m \in Migrators, Crash(m)
  PROVE  UpgradeInv'
  <1> USE DEF MPAssumption, UpgradeInv
  <1>1. TypeOK'
    BY DEF TypeOK, Attempts, Databases, Steps, IdleMigrator, NoDb, NoLock, At, Goto, Once,
           Work, State, Crash
  <1>2. ProductsAreApart'
    BY DEF TypeOK, Attempts, Databases, Steps, IdleMigrator, NoDb, NoLock, At, Goto, Once,
           Work, State, Crash, ProductsAreApart, Inspected, HasProduct, Fingerprint
  <1>3. NeverHalfMigrated'
    BY DEF TypeOK, Attempts, Databases, Steps, IdleMigrator, NoDb, NoLock, At, Goto, Once,
           Work, State, Crash, NeverHalfMigrated, ProductsAreApart, HasProduct
  <1>4. PrintsTell'
    BY DEF TypeOK, Attempts, Databases, Steps, IdleMigrator, NoDb, NoLock, At, Goto, Once,
           Work, State, Crash, PrintsTell, Inspected, ProductsAreApart, HasProduct
  <1>5. LocksAreOwned'
    BY DEF TypeOK, Attempts, Databases, Steps, IdleMigrator, NoDb, NoLock, At, Goto, Once,
           Work, State, Crash, LocksAreOwned, Inside, Inspected, ProductsAreApart,
           HasProduct
  <1> QED
    BY <1>1, <1>2, <1>3, <1>4, <1>5

\* Opening the database keeps the invariant.
LEMMA AppOpenKeeps ==
  ASSUME MPAssumption, UpgradeInv, NEW a \in Apps, AppOpen(a)
  PROVE  UpgradeInv'
  <1> USE DEF MPAssumption, UpgradeInv
  <1>1. TypeOK'
    BY DEF TypeOK, Attempts, Databases, Steps, IdleMigrator, NoDb, NoLock, At, Goto, Once,
           Work, State, AppOpen
  <1>2. ProductsAreApart'
    BY DEF TypeOK, Attempts, Databases, Steps, IdleMigrator, NoDb, NoLock, At, Goto, Once,
           Work, State, AppOpen, ProductsAreApart, Inspected, HasProduct, Fingerprint
  <1>3. NeverHalfMigrated'
    BY DEF TypeOK, Attempts, Databases, Steps, IdleMigrator, NoDb, NoLock, At, Goto, Once,
           Work, State, AppOpen, NeverHalfMigrated, ProductsAreApart, HasProduct
  <1>4. PrintsTell'
    BY DEF TypeOK, Attempts, Databases, Steps, IdleMigrator, NoDb, NoLock, At, Goto, Once,
           Work, State, AppOpen, PrintsTell, Inspected, ProductsAreApart, HasProduct
  <1>5. LocksAreOwned'
    BY DEF TypeOK, Attempts, Databases, Steps, IdleMigrator, NoDb, NoLock, At, Goto, Once,
           Work, State, AppOpen, LocksAreOwned, Inside, Inspected, ProductsAreApart,
           HasProduct
  <1> QED
    BY <1>1, <1>2, <1>3, <1>4, <1>5

\* A commit keeps the invariant: it gives the database another stamp.
LEMMA AppCommitKeeps ==
  ASSUME MPAssumption, UpgradeInv, NEW a \in Apps, NEW r \in Rows, AppCommit(a, r)
  PROVE  UpgradeInv'
  <1> USE DEF MPAssumption, UpgradeInv
  <1>1. TypeOK'
    <2>1. db.rows \cup {r} \in SUBSET Rows /\ db.stamp + 1 \in Nat
      BY DEF TypeOK, Databases
    <2>2. [db EXCEPT !.rows = db.rows \cup {r}, !.stamp = db.stamp + 1] \in Databases
      BY <2>1 DEF TypeOK, Databases
    <2>3. db' \in Databases
      BY <2>2 DEF AppCommit, TypeOK
    <2>4. conn' \in [Apps -> Nat] /\ acked' \subseteq Rows
      BY DEF AppCommit, TypeOK
    <2>5. QED
      BY <2>3, <2>4 DEF AppCommit, TypeOK
  <1>2. ProductsAreApart'
    BY DEF TypeOK, Attempts, Databases, Steps, IdleMigrator, NoDb, NoLock, At, Goto, Once,
           Work, State, AppCommit, ProductsAreApart, Inspected, HasProduct, Fingerprint
  <1>3. NeverHalfMigrated'
    <2>1. CASE db = NoDb
      BY <2>1 DEF AppCommit, NoDb, NeverHalfMigrated
    <2>2. CASE db.ver \in {OldVersion, Latest}
      BY <2>2 DEF AppCommit, NeverHalfMigrated, TypeOK, Databases
    <2>3. QED
      BY <2>1, <2>2 DEF UpgradeInv, NeverHalfMigrated
  <1>4. PrintsTell'
    BY DEF TypeOK, Attempts, Databases, Steps, IdleMigrator, NoDb, NoLock, At, Goto, Once,
           Work, State, AppCommit, PrintsTell, Inspected, ProductsAreApart, HasProduct
  <1>5. LocksAreOwned'
    BY DEF TypeOK, Attempts, Databases, Steps, IdleMigrator, NoDb, NoLock, At, Goto, Once,
           Work, State, AppCommit, LocksAreOwned, Inside, Inspected, ProductsAreApart,
           HasProduct
  <1> QED
    BY <1>1, <1>2, <1>3, <1>4, <1>5

\* The removal of a lock without a creator keeps the invariant.
LEMMA RemoveStaleLockKeeps ==
  ASSUME MPAssumption, UpgradeInv, RemoveStaleLock
  PROVE  UpgradeInv'
  <1> USE DEF MPAssumption, UpgradeInv
  <1>1. TypeOK'
    BY DEF TypeOK, Attempts, Databases, Steps, IdleMigrator, NoDb, NoLock, At, Goto, Once,
           Work, State, RemoveStaleLock
  <1>2. ProductsAreApart'
    BY DEF TypeOK, Attempts, Databases, Steps, IdleMigrator, NoDb, NoLock, At, Goto, Once,
           Work, State, RemoveStaleLock, ProductsAreApart, Inspected, HasProduct,
           Fingerprint
  <1>3. NeverHalfMigrated'
    BY DEF TypeOK, Attempts, Databases, Steps, IdleMigrator, NoDb, NoLock, At, Goto, Once,
           Work, State, RemoveStaleLock, NeverHalfMigrated, ProductsAreApart, HasProduct
  <1>4. PrintsTell'
    BY DEF TypeOK, Attempts, Databases, Steps, IdleMigrator, NoDb, NoLock, At, Goto, Once,
           Work, State, RemoveStaleLock, PrintsTell, Inspected, ProductsAreApart, HasProduct
  <1>5. LocksAreOwned'
    BY DEF TypeOK, Attempts, Databases, Steps, IdleMigrator, NoDb, NoLock, At, Goto, Once,
           Work, State, RemoveStaleLock, LocksAreOwned, Inside, Inspected, ProductsAreApart,
           HasProduct
  <1> QED
    BY <1>1, <1>2, <1>3, <1>4, <1>5

\* The removal by mistake keeps the invariant, which promises less from here on.
LEMMA RemoveLiveLockKeeps ==
  ASSUME MPAssumption, UpgradeInv, RemoveLiveLock
  PROVE  UpgradeInv'
  <1> USE DEF MPAssumption, UpgradeInv
  <1>1. TypeOK'
    BY DEF TypeOK, Attempts, Databases, Steps, IdleMigrator, NoDb, NoLock, At, Goto, Once,
           Work, State, RemoveLiveLock
  <1>2. ProductsAreApart'
    BY DEF TypeOK, Attempts, Databases, Steps, IdleMigrator, NoDb, NoLock, At, Goto, Once,
           Work, State, RemoveLiveLock, ProductsAreApart, Inspected, HasProduct, Fingerprint
  <1>3. NeverHalfMigrated'
    BY DEF TypeOK, Attempts, Databases, Steps, IdleMigrator, NoDb, NoLock, At, Goto, Once,
           Work, State, RemoveLiveLock, NeverHalfMigrated, ProductsAreApart, HasProduct
  <1>4. PrintsTell'
    BY DEF TypeOK, Attempts, Databases, Steps, IdleMigrator, NoDb, NoLock, At, Goto, Once,
           Work, State, RemoveLiveLock, PrintsTell, Inspected, ProductsAreApart, HasProduct
  <1>5. LocksAreOwned'
    BY DEF TypeOK, Attempts, Databases, Steps, IdleMigrator, NoDb, NoLock, At, Goto, Once,
           Work, State, RemoveLiveLock, LocksAreOwned, Inside, Inspected, ProductsAreApart,
           HasProduct
  <1> QED
    BY <1>1, <1>2, <1>3, <1>4, <1>5

\* The initial states satisfy the invariant.
LEMMA UpgradeInvInit ==
  ASSUME MPAssumption, Init
  PROVE  UpgradeInv
  <1> USE DEF MPAssumption
  <1>1. TypeOK
    <2>1. [id |-> 1, ver |-> OldVersion, rows |-> {}, stamp |-> 0] \in Databases
      BY DEF Databases
    <2>2. QED
      BY <2>1, IdleTyped DEF Init, TypeOK, NoLock
  <1>2. ProductsAreApart
    BY DEF Init, NoDb, IdleMigrator, ProductsAreApart, Inspected, HasProduct
  <1>3. NeverHalfMigrated /\ PrintsTell
    BY DEF Init, NoDb, IdleMigrator, NeverHalfMigrated, PrintsTell, Inspected
  <1>4. LocksAreOwned
    BY DEF Init, NoDb, NoLock, IdleMigrator, LocksAreOwned, Inside, Inspected
  <1> QED
    BY <1>1, <1>2, <1>3, <1>4 DEF UpgradeInv

\* A step of any migrator, application or operator keeps the invariant.
LEMMA UpgradeInvStep ==
  ASSUME MPAssumption, UpgradeInv, [Next]_vars
  PROVE  UpgradeInv'
  <1>1. CASE \E m \in Migrators : \/ \E b \in BOOLEAN : Begin(m, b)
                                  \/ BeginFresh(m) \/ Fail(m) \/ Crash(m)
    BY <1>1, BeginKeeps, BeginFreshKeeps, FailKeeps, CrashKeeps
  <1>2. CASE \E m \in Migrators : Upgrading(m)
    BY <1>2, LockKeeps, RecheckKeeps, BackupKeeps, CopyKeeps, ApplyKeeps, CheckKeeps,
       PublishLinkKeeps, PublishReplaceKeeps, ReleaseKeeps DEF Upgrading
  <1>3. CASE \E m \in Migrators : Starting(m)
    BY <1>3, BuildKeeps, PublishFreshKeeps DEF Starting
  <1>4. CASE \E a \in Apps : AppOpen(a) \/ \E r \in Rows : AppCommit(a, r)
    BY <1>4, AppOpenKeeps, AppCommitKeeps
  <1>5. CASE RemoveStaleLock \/ RemoveLiveLock
    BY <1>5, RemoveStaleLockKeeps, RemoveLiveLockKeeps
  <1>6. CASE UNCHANGED vars
    BY <1>6 DEF UpgradeInv, TypeOK, ProductsAreApart, NeverHalfMigrated, PrintsTell,
       LocksAreOwned, Inside, Inspected, HasProduct, Work, State, vars
  <1> QED
    BY <1>1, <1>2, <1>3, <1>4, <1>5, <1>6 DEF Next

\* Every reachable state satisfies the invariant.
LEMMA UpgradeInvHolds == ASSUME MPAssumption PROVE Spec => []UpgradeInv
  <1>1. Init => UpgradeInv
    BY UpgradeInvInit
  <1>2. UpgradeInv /\ [Next]_vars => UpgradeInv'
    BY UpgradeInvStep
  <1> QED
    BY <1>1, <1>2, PTL DEF Spec

\* One lock has one owner, so at most one migrator is between its second look
\* and its release.
LEMMA OwnersExclude == UpgradeInv => OneUpgrade
  <1> SUFFICES ASSUME UpgradeInv, count.mistakes = 0
               PROVE  Cardinality({m \in Migrators : Inside(m)}) <= 1
    BY DEF OneUpgrade
  <1> DEFINE S == {m \in Migrators : Inside(m)}
  <1>1. S \subseteq {lock.owner}
    BY DEF UpgradeInv, LocksAreOwned
  <1>2. S = {} \/ S = {lock.owner}
    BY <1>1
  <1>3. Cardinality({}) = 0 /\ Cardinality({lock.owner}) = 1
    BY FS_EmptySet, FS_Singleton
  <1> QED
    BY <1>2, <1>3

\* A database has its old version or the latest one, products of migrators stay
\* apart from it, and upgrades exclude one another, in every reachable state.
THEOREM MigrationInvHolds == ASSUME MPAssumption PROVE Spec => []MigrationInv
  <1>1. UpgradeInv => MigrationInv
    BY OwnersExclude DEF UpgradeInv, MigrationInv
  <1> QED
    BY <1>1, UpgradeInvHolds, PTL

\* Only the last check lets a migrator on to the publication.
LEMMA OnlyCheckPasses ==
  ASSUME TypeOK, [Next]_vars, NEW m \in Migrators, mig[m].pc = "apply", mig'[m].pc = "publish"
  PROVE  Check(m)
  <1> USE DEF TypeOK
  <1>1. ASSUME NEW n \in Migrators, n # m, mig'[m] # mig[m]
        PROVE  \A b \in BOOLEAN : ~ \/ Begin(n, b) \/ BeginFresh(n) \/ Upgrading(n) \/ Starting(n)
                                    \/ Fail(n) \/ Crash(n)
    BY <1>1 DEF Begin, BeginFresh, Upgrading, Starting, Fail, Crash, Lock, Recheck, Backup, Copy,
       Apply, Check, PublishLink, PublishReplace, Release, Build, PublishFresh, Goto
  <1>2. mig'[m] # mig[m]
    OBVIOUS
  <1>3. \A b \in BOOLEAN : ~ (Begin(m, b) \/ BeginFresh(m) \/ Fail(m) \/ Crash(m))
    <2>1. \A b \in BOOLEAN : ~ (Begin(m, b) \/ BeginFresh(m))
      BY DEF Begin, BeginFresh, At
    <2>2. ~ Crash(m)
      BY DEF Crash, IdleMigrator
    <2>3. ~ Fail(m)
      BY DEF Fail, IdleMigrator, Attempts
    <2> QED
      BY <2>1, <2>2, <2>3
  <1>4. ~ Starting(m)
    BY DEF Starting, Build, PublishFresh, At
  <1>5. Upgrading(m) => Check(m)
    <2>1. ~ (Lock(m) \/ Recheck(m) \/ Backup(m) \/ Copy(m) \/ PublishLink(m) \/ PublishReplace(m)
             \/ Release(m))
      BY DEF Lock, Recheck, Backup, Copy, PublishLink, PublishReplace, Release, At
    <2>2. ~ Apply(m)
      BY DEF Apply, Attempts
    <2> QED
      BY <2>1, <2>2 DEF Upgrading
  <1>6. ~ \/ \E a \in Apps : AppOpen(a) \/ \E r \in Rows : AppCommit(a, r)
          \/ RemoveStaleLock \/ RemoveLiveLock \/ UNCHANGED vars
    BY <1>2 DEF AppOpen, AppCommit, RemoveStaleLock, RemoveLiveLock, vars
  <1> QED
    BY <1>1, <1>2, <1>3, <1>4, <1>5, <1>6 DEF Next

\* The last check compares the file with the one that was inspected: when they
\* agree, the copy has every row.
THEOREM ProductHasAllRowsHolds == ASSUME MPAssumption PROVE Spec => ProductHasAllRows
  <1>1. ASSUME UpgradeInv, [Next]_vars, NEW m \in Migrators, At(m, "apply"), mig'[m].pc = "publish"
        PROVE  db.rows \subseteq Work(m).rows
    <2>1. Check(m)
      BY <1>1, OnlyCheckPasses DEF At, UpgradeInv
    <2>2. Fingerprint(db) = Fingerprint(mig[m].print)
      BY <1>1, <2>1 DEF Check, Goto, UpgradeInv, TypeOK, Attempts
    <2> QED
      BY <1>1, <2>2 DEF UpgradeInv, PrintsTell, Inspected, Fingerprint, At
  <1>2. UpgradeInv /\ [Next]_vars
          => [\A m \in Migrators :
                At(m, "apply") /\ mig'[m].pc = "publish" => db.rows \subseteq Work(m).rows]_vars
    BY <1>1
  <1> QED
    BY <1>2, UpgradeInvHolds, PTL DEF Spec, ProductHasAllRows

\* Only a publication or a commit changes the database, and only a replacement
\* gives the path to another file once a file is there.
LEMMA OnlyReplacementReplaces ==
  ASSUME MPAssumption, TypeOK, [Next]_vars, db # NoDb, db'.id # db.id
  PROVE  \E m \in Migrators : PublishReplace(m)
  <1>1. db' # db
    OBVIOUS
  <1>2. ASSUME NEW m \in Migrators
        PROVE  \A b \in BOOLEAN : ~ \/ Begin(m, b) \/ BeginFresh(m) \/ Starting(m)
                                    \/ Fail(m) \/ Crash(m)
    BY <1>1 DEF Begin, BeginFresh, Starting, Fail, Crash, Build, PublishFresh
  <1>3. ASSUME NEW m \in Migrators
        PROVE  Upgrading(m) => PublishReplace(m)
    BY <1>1 DEF Upgrading, Lock, Recheck, Backup, Copy, Apply, Check, PublishLink, Release
  <1>4. \A a \in Apps : ~ (AppOpen(a) \/ \E r \in Rows : AppCommit(a, r))
    BY <1>1 DEF AppOpen, AppCommit, TypeOK, Databases
  <1>5. ~ (RemoveStaleLock \/ RemoveLiveLock \/ UNCHANGED vars)
    BY <1>1 DEF RemoveStaleLock, RemoveLiveLock, vars
  <1> QED
    BY <1>2, <1>3, <1>4, <1>5 DEF Next

\* Under a lock that nobody removed by mistake the database that is replaced is
\* the one to be upgraded, so a ready one keeps its file.
THEOREM ReadyIsFinalHolds == ASSUME MPAssumption PROVE Spec => ReadyIsFinal
  <1>1. ASSUME UpgradeInv, [Next]_vars, State(db) = "ready", count.mistakes = 0, db'.id # db.id
        PROVE  FALSE
    <2>1. db # NoDb
      BY <1>1 DEF State, NoDb, MPAssumption
    <2>2. PICK m \in Migrators : PublishReplace(m)
      BY <1>1, <2>1, OnlyReplacementReplaces DEF UpgradeInv
    <2>3. Inside(m) /\ Inspected(m) /\ mig[m].print.id # 0
      BY <2>2 DEF PublishReplace, At, Inside, Inspected
    <2>4. State(db) = "upgrade"
      BY <1>1, <2>3 DEF UpgradeInv, LocksAreOwned
    <2> QED
      BY <1>1, <2>4
  <1>2. UpgradeInv /\ [Next]_vars
          => [State(db) = "ready" /\ count.mistakes = 0 => db'.id = db.id]_vars
    BY <1>1
  <1> QED
    BY <1>2, UpgradeInvHolds, PTL DEF Spec, ReadyIsFinal

\* A lock file is removed by the migrator that created it, by an operator when
\* its creator is gone, or by mistake.
THEOREM LockIsMineHolds == ASSUME MPAssumption PROVE Spec => LockIsMine
  <1> DEFINE Excused(m) == At(m, "release") \/ count'.mistakes # count.mistakes
  <1>1. ASSUME UpgradeInv, [Next]_vars, NEW m \in Migrators,
               lock.owner = m, lock.id = mig[m].lockId, lock' = NoLock
        PROVE  Excused(m)
    <2>1. lock' # lock
      BY <1>1 DEF MPAssumption, NoLock
    <2>2. ASSUME NEW n \in Migrators, NEW b \in BOOLEAN
          PROVE  ~ (Begin(n, b) \/ BeginFresh(n) \/ Starting(n) \/ Fail(n) \/ Crash(n))
      BY <2>1 DEF Begin, BeginFresh, Starting, Fail, Crash, Build, PublishFresh
    <2>3. ASSUME NEW n \in Migrators, Upgrading(n)
          PROVE  Release(n)
      <3>1. ~ Lock(n)
        BY <1>1, <2>1 DEF Lock, NoLock, UpgradeInv, ProductsAreApart, TypeOK
      <3> QED
        BY <2>1, <2>3, <3>1 DEF Upgrading, Recheck, Backup, Copy, Apply, Check, PublishLink,
           PublishReplace
    <2>4. ASSUME NEW n \in Migrators, Release(n)
          PROVE  Excused(m)
      <3>1. lock.id = mig[n].lockId /\ mig[n].pc = "release"
        BY <2>1, <2>4 DEF Release, At
      <3>2. lock.owner = n
        BY <1>1, <3>1 DEF UpgradeInv, LocksAreOwned
      <3> QED
        BY <1>1, <3>1, <3>2 DEF At
    <2>5. \A a \in Apps : ~ (AppOpen(a) \/ \E r \in Rows : AppCommit(a, r))
      BY <2>1 DEF AppOpen, AppCommit
    <2>6. ~ (RemoveStaleLock \/ UNCHANGED vars)
      BY <1>1, <2>1 DEF RemoveStaleLock, vars
    <2>7. RemoveLiveLock => Excused(m)
      BY <1>1 DEF RemoveLiveLock, Once, UpgradeInv, TypeOK
    <2> QED
      BY <1>1, <2>2, <2>3, <2>4, <2>5, <2>6, <2>7 DEF Next
  <1>2. UpgradeInv /\ [Next]_vars
          => [\A m \in Migrators :
                lock.owner = m /\ lock.id = mig[m].lockId /\ lock' = NoLock => Excused(m)]_vars
    BY <1>1
  <1> QED
    BY <1>2, UpgradeInvHolds, PTL DEF Spec, LockIsMine

\* What a step of an upgrade or of an operator may never do, it never does.
THEOREM UpgradeIsSafeHolds == ASSUME MPAssumption PROVE Spec => UpgradeIsSafe
  BY ProductHasAllRowsHolds, ReadyIsFinalHolds, LockIsMineHolds DEF UpgradeIsSafe

-----------------------------------------------------------------------------
(* The patched Markdown file.  Safe is inductive for every instance: Typed,   *)
(* the types; Kept, what a call knows of its slot and of its proof; Chained,  *)
(* the revisions applied so far form one chain that ends in the row.  From it *)
(* follow FilesAreKept and the first parts of PatchInv.  Agrees is inductive  *)
(* beside it while the user has edited nothing, Q1' waits for blocked records *)
(* and no move sticks half way: it says, for every checkpoint of an open      *)
(* record, which states of path, slot, row and proof the stores can be in,    *)
(* and for every step of a call in which of them it acts.                     *)

CONSTANTS Patches, Base, None, Faults, Peers, MaxEdits, MaxPatchCrashes, MaxFaults, MaxCalls
VARIABLES p_primary, p_slot, p_row, p_proof, p_journal, p_run, p_blocked, p_expected, p_count

\* The patches, over constants and variables of their own.
P == INSTANCE PatchSaga WITH
  MaxCrashes <- MaxPatchCrashes, primary <- p_primary, slot <- p_slot, row <- p_row,
  proof <- p_proof, journal <- p_journal, run <- p_run, blocked <- p_blocked,
  expected <- p_expected, count <- p_count


\* The steps of a call and of a recovery, and the values of a record.
PatchSteps == {"plan", "quarantine", "record_quarantine", "publish", "record_primary",
               "sqlite", "record_compensating", "undo", "restore", "record_index",
               "purge", "finish", "recover_undo", "recover_restore", "recover_write"}
Statuses == {"none", "in_progress", "ready", "degraded", "rejected", "repair_required"}
Records == [status : Statuses, cp : P!Checkpoints, prev : P!Files \cup {None}, core : BOOLEAN]
Ended == {"finish", "recover_write"}

\* The types, with those of run, record and counter.
Typed ==
  /\ p_primary \in P!Files \cup {None} /\ p_slot \in [Patches -> P!Files \cup {None}]
  /\ p_row \in {Base} \cup Patches /\ p_proof \subseteq Patches
  /\ p_journal \in [Patches -> Records]
  /\ p_run = P!Idle \/ p_run \in [op : Patches, at : PatchSteps, status : Statuses]
  /\ p_blocked \subseteq Patches
  /\ p_expected \in [Patches -> {Base} \cup Patches] /\ \A o \in Patches : p_expected[o] # o
  /\ p_count \in [edits : Nat, crashes : Nat, faults : Nat, calls : Nat]

\* The steps of a call before its commit, and those with the old file in the slot.
Undecided == {"quarantine", "record_quarantine", "publish", "record_primary", "sqlite",
              "record_compensating", "undo", "restore", "recover_undo", "recover_restore"}
Quarantined == Undecided \ {"quarantine"}

\* Slots and records hold the file the patch was derived from; a call knows
\* its slot, and that it has no proof before its commit and one after it.
Kept ==
  /\ \A o \in Patches : /\ p_slot[o] \in {None, p_expected[o]}
                        /\ p_journal[o].prev \in {None, p_expected[o]}
  /\ P!CommitsAreProved
  /\ p_run.at \in Undecided => p_run.op \notin p_proof /\ p_journal[p_run.op].prev = p_expected[p_run.op]
  /\ p_run.at \in Quarantined => p_slot[p_run.op] = p_expected[p_run.op]
  /\ p_run.at \in {"record_index", "purge"} => p_run.op \in p_proof
  /\ p_run.at \in Ended => p_run.status \in {"ready", "degraded", "rejected", "repair_required"}
  /\ p_run.at \in Ended /\ p_run.status \in {"ready", "degraded"} => p_run.op \in p_proof

\* The applied revisions form a chain from the base to the row.
Chained ==
  /\ p_row \in p_proof \cup {Base}
  /\ \A o \in p_proof : p_expected[o] # p_row /\ p_expected[o] \in p_proof \cup {Base}
  /\ P!OneOfARevision

\* The states of the stores around a patch: untouched, lifted into the slot,
\* published, committed.
Fresh(o) == p_primary = p_row /\ p_slot[o] = None /\ o \notin p_proof
Back(o) == Fresh(o) /\ p_row = p_expected[o]
Lifted(o) == p_primary = None /\ p_slot[o] = p_expected[o] /\ p_row = p_expected[o] /\ o \notin p_proof
Placed(o) == p_primary = o /\ p_slot[o] = p_expected[o] /\ p_row = p_expected[o] /\ o \notin p_proof
Committed(o) == p_primary = o /\ p_row = o /\ o \in p_proof

\* What an open record says of the stores.
Told(o, cp) ==
  CASE cp = "created"     -> Fresh(o)
    [] cp = "planned"     -> Back(o) \/ Lifted(o)
    [] cp \in {"quarantined", "compensating"} -> Back(o) \/ Lifted(o) \/ Placed(o)
    [] cp = "primary"     -> Back(o) \/ Lifted(o) \/ Placed(o) \/ Committed(o)
    [] cp = "index"       -> Committed(o)
    [] OTHER              -> FALSE

\* What a call or a recovery under way knows.
Knows(o, at, status, cp) ==
  CASE at = "plan" -> cp = "created"
    [] at = "quarantine" -> cp = "planned" /\ Back(o)
    [] at = "record_quarantine" -> cp = "planned" /\ Lifted(o)
    [] at = "publish" -> cp = "quarantined" /\ Lifted(o)
    [] at = "record_primary" -> cp = "quarantined" /\ Placed(o)
    [] at \in {"sqlite", "record_compensating"} -> cp = "primary" /\ Placed(o)
    [] at = "undo" -> cp \in {"quarantined", "primary", "compensating"} /\ Placed(o)
    [] at = "restore" ->
         \/ cp \in {"planned", "quarantined", "primary", "compensating"} /\ Lifted(o)
         \/ cp = "quarantined" /\ Placed(o)
    [] at = "record_index" -> cp = "primary" /\ Committed(o)
    [] at = "purge" -> cp = "index" /\ Committed(o)
    [] at = "recover_undo" -> cp \in {"primary", "compensating"} /\ Placed(o)
    [] at = "recover_restore" ->
         cp \in {"planned", "quarantined", "primary", "compensating"} /\ Lifted(o)
    [] at \in Ended -> /\ status = "rejected" => Fresh(o)
                       /\ status \in {"ready", "degraded"} => Committed(o)

\* What stores, records and the run say of one another before the first edit.
Agrees ==
  p_count.edits = 0 =>
    /\ p_primary \in {Base, None} \cup Patches
    /\ \A o, q \in Patches : P!Interrupted(o) /\ P!Interrupted(q) => o = q
    /\ (\A o \in Patches : ~ P!Interrupted(o)) => p_primary = p_row
    /\ \A o \in Patches : ~ P!Interrupted(o) =>
         IF o \in p_proof THEN p_journal[o].core ELSE p_slot[o] = None
    /\ \A o \in Patches : P!Interrupted(o) =>
         /\ Told(o, p_journal[o].cp)
         /\ p_journal[o].cp # "created" => p_journal[o].prev = p_expected[o]
    /\ p_run # P!Idle => /\ P!Interrupted(p_run.op) /\ p_run.op \notin p_blocked
                         /\ Knows(p_run.op, p_run.at, p_run.status, p_journal[p_run.op].cp)
    /\ \A o \in p_blocked : P!Interrupted(o) /\ Placed(o) /\ p_journal[o].cp = "quarantined"

USE DEF P!Rec, P!Once

-----------------------------------------------------------------------------
(* Records *)

\* The records that a step writes.
Closed(r, s, b) == [r EXCEPT !.status = s, !.core = b]
Indexed(r) == [r EXCEPT !.cp = "index", !.core = TRUE]

\* The record of a call that ends.
LEMMA ClosedRecord ==
  ASSUME NEW r \in Records, NEW s \in Statuses, NEW b \in BOOLEAN
  PROVE  /\ Closed(r, s, b) \in Records /\ Closed(r, s, b).status = s
         /\ Closed(r, s, b).cp = r.cp /\ Closed(r, s, b).prev = r.prev
         /\ Closed(r, s, b).core = b
  <1>1. Closed(r, s, b) \in Records
    BY DEF Closed, Records
  <1>2. /\ Closed(r, s, b).status = s /\ Closed(r, s, b).cp = r.cp
        /\ Closed(r, s, b).prev = r.prev
    BY DEF Closed, Records
  <1>3. Closed(r, s, b).core = b
    BY Zenon DEF Closed, Records
  <1> QED
    BY <1>1, <1>2, <1>3

\* The record of a committed core.
LEMMA IndexedRecord ==
  ASSUME NEW r \in Records
  PROVE  /\ Indexed(r) \in Records /\ Indexed(r).status = r.status
         /\ Indexed(r).cp = "index" /\ Indexed(r).prev = r.prev /\ Indexed(r).core
  <1> DEFINE b == TRUE
             cp == "index"
  <1>1. b \in BOOLEAN /\ cp \in P!Checkpoints
    BY DEF P!Checkpoints
  <1> HIDE DEF b, cp
  <1>2. [r EXCEPT !.cp = cp, !.core = b] \in Records
    BY <1>1 DEF Records
  <1>3. Indexed(r) \in Records
    BY <1>2 DEF Indexed, b, cp
  <1>4. /\ Indexed(r).status = r.status /\ Indexed(r).cp = "index"
        /\ Indexed(r).prev = r.prev
    BY DEF Indexed, Records
  <1>5. Indexed(r).core
    BY DEF Indexed, Records
  <1> QED
    BY <1>3, <1>4, <1>5

Planned(r, f) == [r EXCEPT !.cp = "planned", !.prev = f]

\* The record of a planned call.
LEMMA PlannedRecord ==
  ASSUME NEW r \in Records, NEW f \in P!Files \cup {None}
  PROVE  Planned(r, f) \in Records
  <1> DEFINE cp == "planned"
  <1>1. cp \in P!Checkpoints
    BY DEF P!Checkpoints
  <1> HIDE DEF cp
  <1>2. [r EXCEPT !.cp = cp, !.prev = f] \in Records
    BY <1>1 DEF Records
  <1> QED
    BY <1>2 DEF Planned, cp

-----------------------------------------------------------------------------
(* One call at a time *)

\* What is known of the patch o whose call or recovery is under way.
Mine(o) ==
  /\ P!Interrupted(o) /\ o \notin p_blocked
  /\ \A q \in Patches \ {o} : ~ P!Interrupted(q)
  /\ Told(o, p_journal[o].cp)
  /\ p_journal[o].cp # "created" => p_journal[o].prev = p_expected[o]
  /\ Knows(o, p_run.at, p_run.status, p_journal[o].cp)

\* What its step has to show.
Shows(o) ==
  /\ p_primary' \in {Base, None} \cup Patches
  /\ P!Interrupted(o)' => /\ Told(o, p_journal[o].cp)'
                          /\ p_journal'[o].cp # "created" => p_journal'[o].prev = p_expected[o]
  /\ ~ P!Interrupted(o)' => /\ p_primary' = p_row'
                            /\ IF o \in p_proof' THEN p_journal'[o].core ELSE p_slot'[o] = None
  /\ p_run' # P!Idle => /\ p_run'.op = o /\ P!Interrupted(o)' /\ p_blocked' = p_blocked
                        /\ Knows(o, p_run.at, p_run.status, p_journal[o].cp)'
  /\ \/ p_blocked' = p_blocked
     \/ /\ p_blocked' = p_blocked \cup {o}
        /\ P!Interrupted(o)' /\ Placed(o)' /\ p_journal'[o].cp = "quarantined"

\* What it leaves alone.
Frames(o) ==
  /\ p_count'.edits = p_count.edits /\ p_expected' = p_expected
  /\ \A q \in Patches \ {o} : /\ p_journal'[q] = p_journal[q] /\ p_slot'[q] = p_slot[q]
                              /\ q \in p_proof' <=> q \in p_proof

\* The call under way is the only one with an open record.
LEMMA RunIsMine ==
  ASSUME Typed, Agrees, p_count.edits = 0, NEW o \in Patches, p_run.op = o, p_run # P!Idle
  PROVE  Mine(o)
  BY DEF Typed, Agrees, Mine, P!Idle

\* The stores and the open record go on to agree.
LEMMA StepAgrees ==
  ASSUME Typed, Agrees, p_count.edits = 0, NEW o \in Patches, o \notin p_blocked,
         \A q \in Patches \ {o} : ~ P!Interrupted(q), Frames(o), Shows(o)
  PROVE  Agrees'
  <1>1. p_blocked = {}
    BY DEF Typed, Agrees
  <1>2. \A q \in Patches \ {o} :
          /\ ~ P!Interrupted(q)'
          /\ IF q \in p_proof' THEN p_journal'[q].core ELSE p_slot'[q] = None
    BY DEF Agrees, Frames, P!Interrupted
  <1>3. p_blocked' \subseteq {o} /\ (p_run' # P!Idle => p_blocked' = {})
    BY <1>1 DEF Shows
  <1> QED
    BY <1>1, <1>2, <1>3 DEF Agrees, Frames, Shows

\* The names of files that are no edits.
LEMMA NamesApart ==
  ASSUME P!PSAssumption, Typed, NEW o \in Patches
  PROVE  /\ p_expected[o] # o /\ p_expected[o] # None /\ p_expected[o] \notin P!Versions
         /\ p_expected[o] \in {Base} \cup Patches /\ o \notin P!Versions /\ o # None
         /\ None \notin P!Versions /\ p_row # None /\ p_row \notin P!Versions /\ o # Base
         /\ Base # None
  BY DEF P!PSAssumption, Typed, P!Versions

-----------------------------------------------------------------------------
(* The steps of a call and of a recovery *)

\* A call that starts keeps the types.
LEMMA StartTyped ==
  ASSUME P!PSAssumption, Typed, NEW o \in Patches, P!Start(o)
  PROVE  Typed'
  <1> DEFINE rec == [P!NoRecord EXCEPT !.status = "in_progress", !.cp = "created"]
  <1>1. /\ rec \in Records /\ rec.status = "in_progress" /\ rec.cp = "created"
        /\ rec.prev = None /\ ~ rec.core
    BY DEF P!PSAssumption, Records, Statuses, P!Checkpoints, P!NoRecord
  <1>2. P!Writes(o, rec)
    BY DEF P!Start
  <1> HIDE DEF rec
  <1> QED
    BY <1>1, <1>2
       DEF P!PSAssumption, Typed, P!Writes, P!Start, P!At, P!Goto, P!Ends, P!Fault, P!Files, P!Versions,
           PatchSteps, P!NoRecord, P!Idle, P!stores, Statuses, P!Checkpoints

\* A call that starts keeps what is known of slots and proofs.
LEMMA StartKeeps ==
  ASSUME P!PSAssumption, Typed, Kept, NEW o \in Patches, P!Start(o)
  PROVE  Kept'
  <1> DEFINE rec == [P!NoRecord EXCEPT !.status = "in_progress", !.cp = "created"]
  <1>1. /\ rec \in Records /\ rec.status = "in_progress" /\ rec.cp = "created"
        /\ rec.prev = None /\ ~ rec.core
    BY DEF P!PSAssumption, Records, Statuses, P!Checkpoints, P!NoRecord
  <1>2. P!Writes(o, rec)
    BY DEF P!Start
  <1> HIDE DEF rec
  <1> QED
    BY <1>1, <1>2
       DEF P!PSAssumption, Typed, P!Writes, Kept, P!CommitsAreProved, Undecided, Quarantined,
           Ended, P!Rev, P!Start, P!At, P!Goto, P!Ends, P!Fault, P!Files, P!Versions, PatchSteps, P!NoRecord,
           P!Idle, P!stores

\* A call that starts replaces the record by that of the new attempt.
LEMMA StartAgrees ==
  ASSUME P!PSAssumption, Typed, Kept, Agrees, ~ Peers,
         NEW o \in Patches, P!Start(o)
  PROVE  Agrees'
  <1> DEFINE rec == [P!NoRecord EXCEPT !.status = "in_progress", !.cp = "created"]
  <1>1. /\ rec \in Records /\ rec.status = "in_progress" /\ rec.cp = "created"
        /\ rec.prev = None /\ ~ rec.core
    BY DEF P!PSAssumption, Records, Statuses, P!Checkpoints, P!NoRecord
  <1>2. P!Writes(o, rec)
    BY DEF P!Start
  <1> HIDE DEF rec
  <1> QED
    BY <1>1, <1>2, StartTyped, StartKeeps
       DEF P!PSAssumption, Typed, P!Writes, Kept, P!CommitsAreProved, Undecided, Quarantined,
           Ended, P!Rev, Agrees, P!Interrupted, Told, Knows, Fresh, Back, Lifted, Placed,
           Committed, P!Start, P!At, P!Goto, P!Ends, P!Fault, P!Files, P!Versions, PatchSteps, P!NoRecord,
           P!Idle, P!stores

\* A plan keeps the types.
LEMMA PlanTyped ==
  ASSUME P!PSAssumption, Typed, NEW o \in Patches, P!Plan(o)
  PROVE  Typed'
  <1>1. CASE o \in p_proof
    <2> DEFINE rec == [p_journal[o] EXCEPT !.core = TRUE]
    <2>1. rec \in Records /\ P!Writes(o, rec) /\ P!Ends(o, "ready")
      BY <1>1 DEF P!Plan, Typed, Records
    <2> HIDE DEF rec
    <2> QED
      BY <2>1 DEF Typed, P!Plan, P!Writes, P!Ends, PatchSteps, Statuses, P!stores
  <1>2. CASE o \notin p_proof /\ p_row = p_expected[o] /\ P!Rev(p_primary) = p_expected[o]
    <2> DEFINE rec == [p_journal[o] EXCEPT !.cp = "planned", !.prev = p_primary]
    <2>1. rec \in Records
      BY PlannedRecord DEF Planned, Typed
    <2>2. P!Writes(o, rec) /\ P!Goto(o, "quarantine")
      BY <1>2 DEF P!Plan
    <2> HIDE DEF rec
    <2> QED
      BY <2>1, <2>2 DEF Typed, P!Plan, P!Writes, P!Goto, PatchSteps, Statuses, P!stores
  <1>3. CASE o \notin p_proof /\ ~ (p_row = p_expected[o] /\ P!Rev(p_primary) = p_expected[o])
    BY <1>3 DEF Typed, P!Plan, P!Ends, PatchSteps, Statuses, P!stores
  <1> QED
    BY <1>1, <1>2, <1>3

\* A plan keeps what is known of slots and proofs.
LEMMA PlanKeeps ==
  ASSUME P!PSAssumption, Typed, Kept, NEW o \in Patches, P!Plan(o)
  PROVE  Kept'
  <1>1. CASE o \in p_proof
    <2> DEFINE rec == [p_journal[o] EXCEPT !.core = TRUE]
    <2>1. /\ rec.status = p_journal[o].status /\ rec.prev = p_journal[o].prev
          /\ P!Writes(o, rec) /\ P!Ends(o, "ready") /\ UNCHANGED <<p_slot, p_proof, p_expected>>
      BY <1>1 DEF P!Plan, Typed, Records, P!stores
    <2> HIDE DEF rec
    <2> QED
      BY <1>1, <2>1
         DEF Typed, P!Writes, P!Ends, Kept, P!CommitsAreProved, Undecided, Quarantined,
                        Ended
  <1>2. CASE o \notin p_proof /\ p_row = p_expected[o] /\ P!Rev(p_primary) = p_expected[o]
    <2> DEFINE rec == [p_journal[o] EXCEPT !.cp = "planned", !.prev = p_primary]
    <2>1. /\ rec.status = p_journal[o].status /\ rec.core = p_journal[o].core
          /\ rec.prev = p_expected[o]
          /\ P!Writes(o, rec) /\ P!Goto(o, "quarantine") /\ UNCHANGED <<p_slot, p_proof, p_expected>>
      BY <1>2, NamesApart DEF P!Plan, Typed, Records, P!stores, P!Rev
    <2> HIDE DEF rec
    <2> QED
      BY <1>2, <2>1
         DEF Typed, P!Writes, P!Goto, Kept, P!CommitsAreProved, Undecided, Quarantined,
                        Ended
  <1>3. CASE o \notin p_proof /\ ~ (p_row = p_expected[o] /\ P!Rev(p_primary) = p_expected[o])
    <2>1. P!Ends(o, "rejected") /\ UNCHANGED <<p_slot, p_proof, p_journal, p_expected>>
      BY <1>3 DEF P!Plan, P!stores
    <2> QED
      BY <2>1 DEF Typed, P!Ends, Kept, P!CommitsAreProved, Undecided, Quarantined, Ended
  <1> QED
    BY <1>1, <1>2, <1>3

\* A plan is made from the revision the patch was derived from, or refused.
LEMMA PlanAgrees ==
  ASSUME P!PSAssumption, Typed, Kept, Agrees, ~ Peers,
         NEW o \in Patches, P!Plan(o)
  PROVE  Agrees'
  <1> SUFFICES ASSUME p_count.edits = 0 PROVE Agrees'
    BY DEF P!Plan, Agrees, P!Fault, Typed
  <1>1. p_run.op = o /\ p_run # P!Idle /\ Mine(o)
    BY RunIsMine DEF P!Plan, P!At, P!Idle
  <1>2. Frames(o)
    BY DEF Frames, P!Plan, P!Fault, P!Writes, Typed, P!stores
  <1>5. p_journal[o].cp = "created"
    BY <1>1 DEF P!Plan, P!At, Mine, Knows, Ended
  <1>4. p_journal[o].cp = "created" /\ Fresh(o)
    BY <1>1, <1>5 DEF Mine, Told
  <1>3. Shows(o)
    <2>1. CASE p_row = p_expected[o] /\ P!Rev(p_primary) = p_expected[o]
      <3> DEFINE rec == [p_journal[o] EXCEPT !.cp = "planned", !.prev = p_primary]
      <3>1. /\ rec.status = p_journal[o].status /\ rec.cp = "planned"
            /\ rec.prev = p_expected[o]
            /\ P!Writes(o, rec) /\ P!Goto(o, "quarantine")
            /\ UNCHANGED <<P!stores, p_blocked, p_expected>>
        BY <1>4, <2>1, NamesApart DEF P!Plan, Typed, Records, P!Rev, Fresh
      <3> HIDE DEF rec
      <3>2. Back(o)' /\ p_primary' = p_row
        BY <1>4, <2>1, <3>1 DEF Back, Fresh, P!stores
      <3> QED
        BY <1>1, <3>1, <3>2
           DEF P!Writes, P!Goto, Typed, Mine, Shows, P!Interrupted, Told, Knows, Ended, P!Idle
    <2>2. CASE ~ (p_row = p_expected[o] /\ P!Rev(p_primary) = p_expected[o])
      <3>1. P!Ends(o, "rejected") /\ UNCHANGED <<P!stores, p_journal, p_blocked, p_expected>>
        BY <1>4, <2>2 DEF P!Plan, Fresh
      <3>2. Fresh(o)' /\ p_primary' = p_row
        BY <1>4, <3>1 DEF Fresh, P!stores
      <3> QED
        BY <1>1, <1>4, <3>1, <3>2
           DEF P!Ends, Typed, Mine, Shows, P!Interrupted, Told, Knows, Ended, P!Idle
    <2> QED
      BY <2>1, <2>2
  <1> QED
    BY <1>1, <1>2, <1>3, StepAgrees DEF Mine

\* A plan that cannot be recorded keeps the types.
LEMMA PlanUnrecordedTyped ==
  ASSUME P!PSAssumption, Typed, NEW o \in Patches, P!PlanUnrecorded(o)
  PROVE  Typed'
  BY DEF P!PSAssumption, P!FaultKinds, Typed, P!PlanUnrecorded, P!At, P!Goto, P!Ends, P!Fault, P!Writes,
         P!Files, P!Versions, P!Checkpoints, Records, Statuses, PatchSteps, P!NoRecord, P!Idle, P!stores

\* A plan that cannot be recorded keeps what is known of slots and proofs.
LEMMA PlanUnrecordedKeeps ==
  ASSUME P!PSAssumption, Typed, Kept, NEW o \in Patches, P!PlanUnrecorded(o)
  PROVE  Kept'
  BY DEF P!PSAssumption, P!FaultKinds, Typed, Kept, P!CommitsAreProved, Undecided,
         Quarantined, Ended, P!Rev, P!PlanUnrecorded, P!At, P!Goto, P!Ends, P!Fault, P!Writes, P!Files,
         P!Versions, P!Checkpoints, Records, Statuses, PatchSteps, P!NoRecord, P!Idle, P!stores

\* A plan that cannot be recorded ends with the stores as they were.
LEMMA PlanUnrecordedAgrees ==
  ASSUME P!PSAssumption, Typed, Kept, Agrees, ~ Peers,
         NEW o \in Patches, P!PlanUnrecorded(o)
  PROVE  Agrees'
  <1> SUFFICES ASSUME p_count.edits = 0 PROVE Agrees'
    BY DEF P!PlanUnrecorded, Agrees, P!Fault, Typed
  <1>1. p_run.op = o /\ p_run # P!Idle /\ Mine(o)
    BY RunIsMine DEF P!PlanUnrecorded, P!At, P!Idle
  <1>2. Frames(o)
    BY DEF Frames, P!PlanUnrecorded, P!Fault, P!Writes, Typed, P!stores
  <1>3. Shows(o)
    BY <1>1, NamesApart
       DEF Mine, Typed, P!Rev, Ended, Shows, P!Interrupted, Told, Knows, Fresh, Back,
           Lifted, Placed, Committed, P!PlanUnrecorded, P!At, P!Goto, P!Ends, P!Fault, P!Writes,
           P!Files, P!Versions, P!Checkpoints, Records, Statuses, PatchSteps, P!NoRecord, P!Idle,
           P!stores
  <1> QED
    BY <1>1, <1>2, <1>3, StepAgrees DEF Mine

\* The move into the slot keeps the types.
LEMMA QuarantineTyped ==
  ASSUME P!PSAssumption, Typed, NEW o \in Patches, P!Quarantine(o)
  PROVE  Typed'
  BY DEF P!PSAssumption, P!FaultKinds, Typed, P!Quarantine, P!At, P!Goto, P!Ends, P!Fault, P!Writes,
         P!Files, P!Versions, P!Checkpoints, Records, Statuses, PatchSteps, P!NoRecord, P!Idle, P!stores

\* The move into the slot keeps what is known of slots and proofs.
LEMMA QuarantineKeeps ==
  ASSUME P!PSAssumption, Typed, Kept, NEW o \in Patches, P!Quarantine(o)
  PROVE  Kept'
  BY DEF P!PSAssumption, P!FaultKinds, Typed, Kept, P!CommitsAreProved, Undecided,
         Quarantined, Ended, P!Rev, P!Quarantine, P!At, P!Goto, P!Ends, P!Fault, P!Writes, P!Files,
         P!Versions, P!Checkpoints, Records, Statuses, PatchSteps, P!NoRecord, P!Idle, P!stores

\* The move into the slot leaves the path empty.
LEMMA QuarantineAgrees ==
  ASSUME P!PSAssumption, Typed, Kept, Agrees, ~ Peers,
         NEW o \in Patches, P!Quarantine(o)
  PROVE  Agrees'
  <1> SUFFICES ASSUME p_count.edits = 0 PROVE Agrees'
    BY DEF P!Quarantine, Agrees, P!Fault, Typed
  <1>1. p_run.op = o /\ p_run # P!Idle /\ Mine(o)
    BY RunIsMine DEF P!Quarantine, P!At, P!Idle
  <1>2. Frames(o)
    BY DEF Frames, P!Quarantine, P!Fault, P!Writes, Typed, P!stores
  <1>4. p_journal[o].cp = "planned" /\ Back(o)
    BY <1>1 DEF P!Quarantine, P!At, Mine, Knows, Ended
  <1>5. p_journal[o].prev = p_expected[o]
    BY <1>1, <1>4 DEF Mine
  <1>6. /\ p_slot' = [p_slot EXCEPT ![o] = p_primary] /\ p_primary' = None
        /\ P!Goto(o, "record_quarantine") /\ UNCHANGED <<p_row, p_proof, p_journal, p_blocked, p_expected>>
    BY <1>4, <1>5 DEF P!Quarantine, Back, Fresh
  <1>7. Lifted(o)'
    BY <1>4, <1>6 DEF Lifted, Back, Fresh, Typed
  <1>3. Shows(o)
    BY <1>1, <1>4, <1>5, <1>6, <1>7
       DEF P!Goto, Lifted, Mine, Shows, P!Interrupted, Told, Knows, Ended, P!Idle
  <1> QED
    BY <1>1, <1>2, <1>3, StepAgrees DEF Mine

\* A move that could not be taken back keeps the types.
LEMMA QuarantineStuckTyped ==
  ASSUME P!PSAssumption, Typed, NEW o \in Patches, P!QuarantineStuck(o)
  PROVE  Typed'
  BY DEF P!PSAssumption, P!FaultKinds, Typed, P!QuarantineStuck, P!At, P!Goto, P!Ends, P!Fault,
         P!Writes, P!Files, P!Versions, P!Checkpoints, Records, Statuses, PatchSteps, P!NoRecord, P!Idle,
         P!stores

\* A move that could not be taken back keeps what is known of slots and proofs.
LEMMA QuarantineStuckKeeps ==
  ASSUME P!PSAssumption, Typed, Kept, NEW o \in Patches, P!QuarantineStuck(o)
  PROVE  Kept'
  BY DEF P!PSAssumption, P!FaultKinds, Typed, Kept, P!CommitsAreProved, Undecided,
         Quarantined, Ended, P!Rev, P!QuarantineStuck, P!At, P!Goto, P!Ends, P!Fault, P!Writes, P!Files,
         P!Versions, P!Checkpoints, Records, Statuses, PatchSteps, P!NoRecord, P!Idle, P!stores

\* The record of the move keeps the types.
LEMMA RecordQuarantineTyped ==
  ASSUME P!PSAssumption, Typed, NEW o \in Patches, P!RecordQuarantine(o)
  PROVE  Typed'
  BY DEF P!PSAssumption, P!FaultKinds, Typed, P!RecordQuarantine, P!At, P!Goto, P!Ends, P!Fault,
         P!Writes, P!Files, P!Versions, P!Checkpoints, Records, Statuses, PatchSteps, P!NoRecord, P!Idle,
         P!stores

\* The record of the move keeps what is known of slots and proofs.
LEMMA RecordQuarantineKeeps ==
  ASSUME P!PSAssumption, Typed, Kept, NEW o \in Patches, P!RecordQuarantine(o)
  PROVE  Kept'
  BY DEF P!PSAssumption, P!FaultKinds, Typed, Kept, P!CommitsAreProved, Undecided,
         Quarantined, Ended, P!Rev, P!RecordQuarantine, P!At, P!Goto, P!Ends, P!Fault, P!Writes,
         P!Files, P!Versions, P!Checkpoints, Records, Statuses, PatchSteps, P!NoRecord, P!Idle, P!stores

\* The record of the move says that the slot holds the old file.
LEMMA RecordQuarantineAgrees ==
  ASSUME P!PSAssumption, Typed, Kept, Agrees, ~ Peers,
         NEW o \in Patches, P!RecordQuarantine(o)
  PROVE  Agrees'
  <1> SUFFICES ASSUME p_count.edits = 0 PROVE Agrees'
    BY DEF P!RecordQuarantine, Agrees, P!Fault, Typed
  <1>1. p_run.op = o /\ p_run # P!Idle /\ Mine(o)
    BY RunIsMine DEF P!RecordQuarantine, P!At, P!Idle
  <1>2. Frames(o)
    BY DEF Frames, P!RecordQuarantine, P!Fault, P!Writes, Typed, P!stores
  <1>3. Shows(o)
    BY <1>1, NamesApart
       DEF Mine, Typed, P!Rev, Ended, Shows, P!Interrupted, Told, Knows, Fresh, Back,
           Lifted, Placed, Committed, P!RecordQuarantine, P!At, P!Goto, P!Ends, P!Fault, P!Writes,
           P!Files, P!Versions, P!Checkpoints, Records, Statuses, PatchSteps, P!NoRecord, P!Idle,
           P!stores
  <1> QED
    BY <1>1, <1>2, <1>3, StepAgrees DEF Mine

\* The publication keeps the types.
LEMMA PublishTyped ==
  ASSUME P!PSAssumption, Typed, NEW o \in Patches, P!Publish(o)
  PROVE  Typed'
  BY DEF P!PSAssumption, P!FaultKinds, Typed, P!Publish, P!At, P!Goto, P!Ends, P!Fault, P!Writes, P!Files,
         P!Versions, P!Checkpoints, Records, Statuses, PatchSteps, P!NoRecord, P!Idle, P!stores

\* The publication keeps what is known of slots and proofs.
LEMMA PublishKeeps ==
  ASSUME P!PSAssumption, Typed, Kept, NEW o \in Patches, P!Publish(o)
  PROVE  Kept'
  BY DEF P!PSAssumption, P!FaultKinds, Typed, Kept, P!CommitsAreProved, Undecided,
         Quarantined, Ended, P!Rev, P!Publish, P!At, P!Goto, P!Ends, P!Fault, P!Writes, P!Files,
         P!Versions, P!Checkpoints, Records, Statuses, PatchSteps, P!NoRecord, P!Idle, P!stores

\* The publication puts the patched file in the empty path.
LEMMA PublishAgrees ==
  ASSUME P!PSAssumption, Typed, Kept, Agrees, ~ Peers,
         NEW o \in Patches, P!Publish(o)
  PROVE  Agrees'
  <1> SUFFICES ASSUME p_count.edits = 0 PROVE Agrees'
    BY DEF P!Publish, Agrees, P!Fault, Typed
  <1>1. p_run.op = o /\ p_run # P!Idle /\ Mine(o)
    BY RunIsMine DEF P!Publish, P!At, P!Idle
  <1>2. Frames(o)
    BY DEF Frames, P!Publish, P!Fault, P!Writes, Typed, P!stores
  <1>4. p_journal[o].cp = "quarantined" /\ Lifted(o)
    BY <1>1 DEF P!Publish, P!At, Mine, Knows, Ended
  <1>5. /\ p_primary' = o /\ P!Goto(o, "record_primary")
        /\ UNCHANGED <<p_slot, p_row, p_proof, p_journal, p_blocked, p_expected>>
    BY <1>4 DEF P!Publish, Lifted
  <1>6. Placed(o)'
    BY <1>4, <1>5 DEF Lifted, Placed
  <1>3. Shows(o)
    BY <1>1, <1>4, <1>5, <1>6 DEF P!Goto, Mine, Shows, P!Interrupted, Told, Knows, Ended, P!Idle
  <1> QED
    BY <1>1, <1>2, <1>3, StepAgrees DEF Mine

\* A publication that was not verified keeps the types.
LEMMA PublishUnverifiedTyped ==
  ASSUME P!PSAssumption, Typed, NEW o \in Patches, P!PublishUnverified(o)
  PROVE  Typed'
  BY DEF P!PSAssumption, P!FaultKinds, Typed, P!PublishUnverified, P!At, P!Goto, P!Ends, P!Fault,
         P!Writes, P!Files, P!Versions, P!Checkpoints, Records, Statuses, PatchSteps, P!NoRecord, P!Idle,
         P!stores

\* A publication that was not verified keeps what is known of slots and proofs.
LEMMA PublishUnverifiedKeeps ==
  ASSUME P!PSAssumption, Typed, Kept, NEW o \in Patches, P!PublishUnverified(o)
  PROVE  Kept'
  BY DEF P!PSAssumption, P!FaultKinds, Typed, Kept, P!CommitsAreProved, Undecided,
         Quarantined, Ended, P!Rev, P!PublishUnverified, P!At, P!Goto, P!Ends, P!Fault, P!Writes,
         P!Files, P!Versions, P!Checkpoints, Records, Statuses, PatchSteps, P!NoRecord, P!Idle, P!stores

\* A publication that was not verified is left to a restore that will refuse.
LEMMA PublishUnverifiedAgrees ==
  ASSUME P!PSAssumption, Typed, Kept, Agrees, ~ Peers,
         NEW o \in Patches, P!PublishUnverified(o)
  PROVE  Agrees'
  <1> SUFFICES ASSUME p_count.edits = 0 PROVE Agrees'
    BY DEF P!PublishUnverified, Agrees, P!Fault, Typed
  <1>1. p_run.op = o /\ p_run # P!Idle /\ Mine(o)
    BY RunIsMine DEF P!PublishUnverified, P!At, P!Idle
  <1>2. Frames(o)
    BY DEF Frames, P!PublishUnverified, P!Fault, P!Writes, Typed, P!stores
  <1>3. Shows(o)
    BY <1>1, NamesApart
       DEF Mine, Typed, P!Rev, Ended, Shows, P!Interrupted, Told, Knows, Fresh, Back,
           Lifted, Placed, Committed, P!PublishUnverified, P!At, P!Goto, P!Ends, P!Fault, P!Writes,
           P!Files, P!Versions, P!Checkpoints, Records, Statuses, PatchSteps, P!NoRecord, P!Idle,
           P!stores
  <1> QED
    BY <1>1, <1>2, <1>3, StepAgrees DEF Mine

\* The record of the publication keeps the types.
LEMMA RecordPrimaryTyped ==
  ASSUME P!PSAssumption, Typed, NEW o \in Patches, P!RecordPrimary(o)
  PROVE  Typed'
  BY DEF P!PSAssumption, P!FaultKinds, Typed, P!RecordPrimary, P!At, P!Goto, P!Ends, P!Fault, P!Writes,
         P!Files, P!Versions, P!Checkpoints, Records, Statuses, PatchSteps, P!NoRecord, P!Idle, P!stores

\* The record of the publication keeps what is known of slots and proofs.
LEMMA RecordPrimaryKeeps ==
  ASSUME P!PSAssumption, Typed, Kept, NEW o \in Patches, P!RecordPrimary(o)
  PROVE  Kept'
  BY DEF P!PSAssumption, P!FaultKinds, Typed, Kept, P!CommitsAreProved, Undecided,
         Quarantined, Ended, P!Rev, P!RecordPrimary, P!At, P!Goto, P!Ends, P!Fault, P!Writes, P!Files,
         P!Versions, P!Checkpoints, Records, Statuses, PatchSteps, P!NoRecord, P!Idle, P!stores

\* The record of the publication says that the patched file may be there.
LEMMA RecordPrimaryAgrees ==
  ASSUME P!PSAssumption, Typed, Kept, Agrees, ~ Peers,
         NEW o \in Patches, P!RecordPrimary(o)
  PROVE  Agrees'
  <1> SUFFICES ASSUME p_count.edits = 0 PROVE Agrees'
    BY DEF P!RecordPrimary, Agrees, P!Fault, Typed
  <1>1. p_run.op = o /\ p_run # P!Idle /\ Mine(o)
    BY RunIsMine DEF P!RecordPrimary, P!At, P!Idle
  <1>2. Frames(o)
    BY DEF Frames, P!RecordPrimary, P!Fault, P!Writes, Typed, P!stores
  <1>3. Shows(o)
    BY <1>1, NamesApart
       DEF Mine, Typed, P!Rev, Ended, Shows, P!Interrupted, Told, Knows, Fresh, Back,
           Lifted, Placed, Committed, P!RecordPrimary, P!At, P!Goto, P!Ends, P!Fault, P!Writes,
           P!Files, P!Versions, P!Checkpoints, Records, Statuses, PatchSteps, P!NoRecord, P!Idle,
           P!stores
  <1> QED
    BY <1>1, <1>2, <1>3, StepAgrees DEF Mine

\* The transaction keeps the types.
LEMMA CommitTyped ==
  ASSUME P!PSAssumption, Typed, NEW o \in Patches, P!Commit(o)
  PROVE  Typed'
  BY DEF P!PSAssumption, P!FaultKinds, Typed, P!Commit, P!At, P!Goto, P!Ends, P!Fault, P!Writes, P!Files,
         P!Versions, P!Checkpoints, Records, Statuses, PatchSteps, P!NoRecord, P!Idle, P!stores

\* The transaction keeps what is known of slots and proofs.
LEMMA CommitKeeps ==
  ASSUME P!PSAssumption, Typed, Kept, NEW o \in Patches, P!Commit(o)
  PROVE  Kept'
  BY DEF P!PSAssumption, P!FaultKinds, Typed, Kept, P!CommitsAreProved, Undecided,
         Quarantined, Ended, P!Rev, P!Commit, P!At, P!Goto, P!Ends, P!Fault, P!Writes, P!Files,
         P!Versions, P!Checkpoints, Records, Statuses, PatchSteps, P!NoRecord, P!Idle, P!stores

\* The transaction moves row and proof together.
LEMMA CommitAgrees ==
  ASSUME P!PSAssumption, Typed, Kept, Agrees, ~ Peers,
         NEW o \in Patches, P!Commit(o)
  PROVE  Agrees'
  <1> SUFFICES ASSUME p_count.edits = 0 PROVE Agrees'
    BY DEF P!Commit, Agrees, P!Fault, Typed
  <1>1. p_run.op = o /\ p_run # P!Idle /\ Mine(o)
    BY RunIsMine DEF P!Commit, P!At, P!Idle
  <1>2. Frames(o)
    BY DEF Frames, P!Commit, P!Fault, P!Writes, Typed, P!stores
  <1>4. p_journal[o].cp = "primary" /\ Placed(o)
    BY <1>1 DEF P!Commit, P!At, Mine, Knows, Ended
  <1>5. /\ p_row' = o /\ p_proof' = p_proof \cup {o} /\ P!Goto(o, "record_index")
        /\ UNCHANGED <<p_primary, p_slot, p_journal, p_blocked, p_expected>>
    BY <1>4 DEF P!Commit, Placed
  <1>6. Committed(o)' /\ p_primary' = o
    BY <1>4, <1>5 DEF Committed, Placed
  <1>3. Shows(o)
    BY <1>1, <1>4, <1>5, <1>6 DEF P!Goto, Mine, Shows, P!Interrupted, Told, Knows, Ended, P!Idle
  <1> QED
    BY <1>1, <1>2, <1>3, StepAgrees DEF Mine

\* A transaction that raised keeps the types.
LEMMA CommitRaisesTyped ==
  ASSUME P!PSAssumption, Typed, NEW o \in Patches, P!CommitRaises(o)
  PROVE  Typed'
  BY DEF P!PSAssumption, P!FaultKinds, Typed, P!CommitRaises, P!At, P!Goto, P!Ends, P!Fault, P!Writes,
         P!Files, P!Versions, P!Checkpoints, Records, Statuses, PatchSteps, P!NoRecord, P!Idle, P!stores

\* A transaction that raised keeps what is known of slots and proofs.
LEMMA CommitRaisesKeeps ==
  ASSUME P!PSAssumption, Typed, Kept, NEW o \in Patches, P!CommitRaises(o)
  PROVE  Kept'
  BY DEF P!PSAssumption, P!FaultKinds, Typed, Kept, P!CommitsAreProved, Undecided,
         Quarantined, Ended, P!Rev, P!CommitRaises, P!At, P!Goto, P!Ends, P!Fault, P!Writes, P!Files,
         P!Versions, P!Checkpoints, Records, Statuses, PatchSteps, P!NoRecord, P!Idle, P!stores

\* A transaction that raised is found committed or absent by the probe.
LEMMA CommitRaisesAgrees ==
  ASSUME P!PSAssumption, Typed, Kept, Agrees, ~ Peers,
         NEW o \in Patches, P!CommitRaises(o)
  PROVE  Agrees'
  <1> SUFFICES ASSUME p_count.edits = 0 PROVE Agrees'
    BY DEF P!CommitRaises, Agrees, P!Fault, Typed
  <1>1. p_run.op = o /\ p_run # P!Idle /\ Mine(o)
    BY RunIsMine DEF P!CommitRaises, P!At, P!Idle
  <1>2. Frames(o)
    BY DEF Frames, P!CommitRaises, P!Fault, P!Writes, Typed, P!stores
  <1>4. p_journal[o].cp = "primary" /\ Placed(o)
    BY <1>1 DEF P!CommitRaises, P!At, Mine, Knows, Ended
  <1>5. UNCHANGED <<p_primary, p_slot, p_journal, p_blocked, p_expected>>
    BY DEF P!CommitRaises
  <1>3. Shows(o)
    <2>1. CASE p_row' = o /\ p_proof' = p_proof \cup {o} /\ P!Goto(o, "record_index")
      <3>1. Committed(o)' /\ p_primary' = o
        BY <1>4, <1>5, <2>1 DEF Committed, Placed
      <3> QED
        BY <1>1, <1>4, <1>5, <2>1, <3>1
           DEF P!Goto, Mine, Shows, P!Interrupted, Told, Knows, Ended, P!Idle
    <2>2. CASE UNCHANGED <<p_row, p_proof>> /\ P!Goto(o, "record_compensating")
      <3>1. Placed(o)' /\ p_primary' = o
        BY <1>4, <1>5, <2>2 DEF Placed
      <3> QED
        BY <1>1, <1>4, <1>5, <2>2, <3>1
           DEF P!Goto, Mine, Shows, P!Interrupted, Told, Knows, Ended, P!Idle
    <2> QED
      BY <2>1, <2>2 DEF P!CommitRaises
  <1> QED
    BY <1>1, <1>2, <1>3, StepAgrees DEF Mine

\* A transaction nothing is known of keeps the types.
LEMMA CommitUnknownTyped ==
  ASSUME P!PSAssumption, Typed, NEW o \in Patches, P!CommitUnknown(o)
  PROVE  Typed'
  BY DEF P!PSAssumption, P!FaultKinds, Typed, P!CommitUnknown, P!At, P!Goto, P!Ends, P!Fault, P!Writes,
         P!Files, P!Versions, P!Checkpoints, Records, Statuses, PatchSteps, P!NoRecord, P!Idle, P!stores

\* A transaction nothing is known of keeps what is known of slots and proofs.
LEMMA CommitUnknownKeeps ==
  ASSUME P!PSAssumption, Typed, Kept, NEW o \in Patches, P!CommitUnknown(o)
  PROVE  Kept'
  BY DEF P!PSAssumption, P!FaultKinds, Typed, Kept, P!CommitsAreProved, Undecided,
         Quarantined, Ended, P!Rev, P!CommitUnknown, P!At, P!Goto, P!Ends, P!Fault, P!Writes, P!Files,
         P!Versions, P!Checkpoints, Records, Statuses, PatchSteps, P!NoRecord, P!Idle, P!stores

\* A transaction nothing is known of leaves the open record to recovery.
LEMMA CommitUnknownAgrees ==
  ASSUME P!PSAssumption, Typed, Kept, Agrees, ~ Peers,
         NEW o \in Patches, P!CommitUnknown(o)
  PROVE  Agrees'
  <1> SUFFICES ASSUME p_count.edits = 0 PROVE Agrees'
    BY DEF P!CommitUnknown, Agrees, P!Fault, Typed
  <1>1. p_run.op = o /\ p_run # P!Idle /\ Mine(o)
    BY RunIsMine DEF P!CommitUnknown, P!At, P!Idle
  <1>2. Frames(o)
    BY DEF Frames, P!CommitUnknown, P!Fault, P!Writes, Typed, P!stores
  <1>3. Shows(o)
    BY <1>1, NamesApart
       DEF Mine, Typed, P!Rev, Ended, Shows, P!Interrupted, Told, Knows, Fresh, Back,
           Lifted, Placed, Committed, P!CommitUnknown, P!At, P!Goto, P!Ends, P!Fault, P!Writes,
           P!Files, P!Versions, P!Checkpoints, Records, Statuses, PatchSteps, P!NoRecord, P!Idle,
           P!stores
  <1> QED
    BY <1>1, <1>2, <1>3, StepAgrees DEF Mine

\* The record of a compensation keeps the types.
LEMMA RecordCompensatingTyped ==
  ASSUME P!PSAssumption, Typed, NEW o \in Patches, P!RecordCompensating(o)
  PROVE  Typed'
  BY DEF P!PSAssumption, P!FaultKinds, Typed, P!RecordCompensating, P!At, P!Goto, P!Ends, P!Fault,
         P!Writes, P!Files, P!Versions, P!Checkpoints, Records, Statuses, PatchSteps, P!NoRecord, P!Idle,
         P!stores

\* The record of a compensation keeps what is known of slots and proofs.
LEMMA RecordCompensatingKeeps ==
  ASSUME P!PSAssumption, Typed, Kept, NEW o \in Patches, P!RecordCompensating(o)
  PROVE  Kept'
  <1>1. /\ p_run.op = o /\ p_run.at = "record_compensating" /\ P!Goto(o, "undo")
        /\ UNCHANGED <<p_slot, p_proof, p_expected>>
    BY DEF P!RecordCompensating, P!At, P!stores
  <1>2. \/ p_journal' = [p_journal EXCEPT ![o] = [p_journal[o] EXCEPT !.cp = "compensating"]]
        \/ p_journal' = p_journal
    BY DEF P!RecordCompensating, P!Writes
  <1>3. \A q \in Patches : /\ p_journal'[q].status = p_journal[q].status
                           /\ p_journal'[q].prev = p_journal[q].prev
                           /\ p_journal'[q].core = p_journal[q].core
    BY <1>2 DEF Typed, Records
  <1> QED
    BY <1>1, <1>3 DEF Kept, P!CommitsAreProved, Undecided, Quarantined, Ended, P!Goto, Typed

\* The record of a compensation is written or lost before the undo.
LEMMA RecordCompensatingAgrees ==
  ASSUME P!PSAssumption, Typed, Kept, Agrees, ~ Peers,
         NEW o \in Patches, P!RecordCompensating(o)
  PROVE  Agrees'
  <1> SUFFICES ASSUME p_count.edits = 0 PROVE Agrees'
    BY DEF P!RecordCompensating, Agrees, P!Fault, Typed
  <1>1. p_run.op = o /\ p_run # P!Idle /\ Mine(o)
    BY RunIsMine DEF P!RecordCompensating, P!At, P!Idle
  <1>2. Frames(o)
    BY DEF Frames, P!RecordCompensating, P!Fault, P!Writes, Typed, P!stores
  <1>3. Shows(o)
    BY <1>1, NamesApart
       DEF Mine, Typed, P!Rev, Ended, Shows, P!Interrupted, Told, Knows, Fresh, Back,
           Lifted, Placed, Committed, P!RecordCompensating, P!At, P!Goto, P!Ends, P!Fault, P!Writes,
           P!Files, P!Versions, P!Checkpoints, Records, Statuses, PatchSteps, P!NoRecord, P!Idle,
           P!stores
  <1> QED
    BY <1>1, <1>2, <1>3, StepAgrees DEF Mine

\* A record that could not be written keeps the types.
LEMMA RecordFailsTyped ==
  ASSUME P!PSAssumption, Typed, NEW o \in Patches, P!RecordFails(o)
  PROVE  Typed'
  BY DEF P!PSAssumption, P!FaultKinds, Typed, P!RecordFails, P!At, P!Goto, P!Ends, P!Fault, P!Writes,
         P!Files, P!Versions, P!Checkpoints, Records, Statuses, PatchSteps, P!NoRecord, P!Idle, P!stores

\* A record that could not be written keeps what is known of slots and proofs.
LEMMA RecordFailsKeeps ==
  ASSUME P!PSAssumption, Typed, Kept, NEW o \in Patches, P!RecordFails(o)
  PROVE  Kept'
  <1>1. /\ p_run.op = o /\ p_run.at \in {"record_quarantine", "record_primary"}
        /\ P!Goto(o, "restore") \/ P!Goto(o, "undo")
        /\ UNCHANGED <<p_slot, p_proof, p_expected>>
    BY DEF P!RecordFails, P!At, P!stores
  <1>2. \/ p_journal' = p_journal
        \/ \E cp : p_journal' = [p_journal EXCEPT ![o] = [p_journal[o] EXCEPT !.cp = cp]]
    BY DEF P!RecordFails, P!Writes
  <1>3. \A q \in Patches : /\ p_journal'[q].status = p_journal[q].status
                           /\ p_journal'[q].prev = p_journal[q].prev
                           /\ p_journal'[q].core = p_journal[q].core
    BY <1>2 DEF Typed, Records
  <1> QED
    BY <1>1, <1>3 DEF Kept, P!CommitsAreProved, Undecided, Quarantined, Ended, P!Goto, Typed

\* A record that could not be written leads to the undo of what was done.
LEMMA RecordFailsAgrees ==
  ASSUME P!PSAssumption, Typed, Kept, Agrees, ~ Peers,
         NEW o \in Patches, P!RecordFails(o)
  PROVE  Agrees'
  <1> SUFFICES ASSUME p_count.edits = 0 PROVE Agrees'
    BY DEF P!RecordFails, Agrees, P!Fault, Typed
  <1>1. p_run.op = o /\ p_run # P!Idle /\ Mine(o)
    BY RunIsMine DEF P!RecordFails, P!At, P!Idle
  <1>2. Frames(o)
    BY DEF Frames, P!RecordFails, P!Fault, P!Writes, Typed, P!stores
  <1>4. UNCHANGED <<P!stores, p_blocked, p_expected>>
    BY DEF P!RecordFails
  <1>3. Shows(o)
    <2>5. CASE p_run.at = "record_quarantine"
      <3>1. Lifted(o) /\ p_journal[o].cp = "planned"
        BY <1>1, <2>5 DEF Mine, Knows, Ended
      <3>2. /\ p_journal'[o].status = p_journal[o].status
            /\ p_journal'[o].prev = p_journal[o].prev
            /\ p_journal'[o].cp \in {"planned", "quarantined"} /\ P!Goto(o, "restore")
        BY <2>5, <3>1 DEF P!RecordFails, P!At, P!Writes, Typed, Records
      <3>3. Lifted(o)'
        BY <1>4, <3>1 DEF Lifted, P!stores
      <3> QED
        BY <1>1, <1>4, <3>1, <3>2, <3>3
           DEF P!Goto, Lifted, P!stores, Mine, Shows, P!Interrupted, Told, Knows, Ended, P!Idle
    <2>6. CASE p_run.at = "record_primary"
      <3>1. Placed(o) /\ p_journal[o].cp = "quarantined"
        BY <1>1, <2>6 DEF Mine, Knows, Ended
      <3>2. /\ p_journal'[o].status = p_journal[o].status
            /\ p_journal'[o].prev = p_journal[o].prev
            /\ p_journal'[o].cp \in {"primary", "quarantined"} /\ P!Goto(o, "undo")
        BY <2>6, <3>1 DEF P!RecordFails, P!At, P!Writes, Typed, Records
      <3>3. Placed(o)'
        BY <1>4, <3>1 DEF Placed, P!stores
      <3> QED
        BY <1>1, <1>4, <3>1, <3>2, <3>3
           DEF P!Goto, Placed, P!stores, Mine, Shows, P!Interrupted, Told, Knows, Ended, P!Idle
    <2> QED
      BY <2>5, <2>6 DEF P!RecordFails, P!At
  <1> QED
    BY <1>1, <1>2, <1>3, StepAgrees DEF Mine

\* The undo keeps the types.
LEMMA UndoTyped ==
  ASSUME P!PSAssumption, Typed, NEW o \in Patches, P!Undo(o)
  PROVE  Typed'
  BY DEF P!PSAssumption, P!FaultKinds, Typed, P!Undo, P!At, P!Goto, P!Ends, P!Fault, P!Writes, P!Files,
         P!Versions, P!Checkpoints, Records, Statuses, PatchSteps, P!NoRecord, P!Idle, P!stores

\* The undo keeps what is known of slots and proofs.
LEMMA UndoKeeps ==
  ASSUME P!PSAssumption, Typed, Kept, NEW o \in Patches, P!Undo(o)
  PROVE  Kept'
  BY DEF P!PSAssumption, P!FaultKinds, Typed, Kept, P!CommitsAreProved, Undecided,
         Quarantined, Ended, P!Rev, P!Undo, P!At, P!Goto, P!Ends, P!Fault, P!Writes, P!Files, P!Versions,
         P!Checkpoints, Records, Statuses, PatchSteps, P!NoRecord, P!Idle, P!stores

\* The undo empties the path again.
LEMMA UndoAgrees ==
  ASSUME P!PSAssumption, Typed, Kept, Agrees, ~ Peers,
         NEW o \in Patches, P!Undo(o)
  PROVE  Agrees'
  <1> SUFFICES ASSUME p_count.edits = 0 PROVE Agrees'
    BY DEF P!Undo, Agrees, P!Fault, Typed
  <1>1. p_run.op = o /\ p_run # P!Idle /\ Mine(o)
    BY RunIsMine DEF P!Undo, P!At, P!Idle
  <1>2. Frames(o)
    BY DEF Frames, P!Undo, P!Fault, P!Writes, Typed, P!stores
  <1>4. p_journal[o].cp \in {"quarantined", "primary", "compensating"} /\ Placed(o)
    BY <1>1 DEF P!Undo, P!At, Mine, Knows, Ended
  <1>5. /\ p_primary' = None /\ P!Goto(o, "restore")
        /\ UNCHANGED <<p_slot, p_row, p_proof, p_journal, p_blocked, p_expected>>
    BY <1>4 DEF P!Undo, Placed
  <1>6. Lifted(o)'
    BY <1>4, <1>5 DEF Lifted, Placed
  <1>3. Shows(o)
    BY <1>1, <1>4, <1>5, <1>6 DEF P!Goto, Mine, Shows, P!Interrupted, Told, Knows, Ended, P!Idle
  <1> QED
    BY <1>1, <1>2, <1>3, StepAgrees DEF Mine

\* The restore keeps the types.
LEMMA RestoreTyped ==
  ASSUME P!PSAssumption, Typed, NEW o \in Patches, P!Restore(o)
  PROVE  Typed'
  BY DEF P!PSAssumption, P!FaultKinds, Typed, P!Restore, P!At, P!Goto, P!Ends, P!Fault, P!Writes, P!Files,
         P!Versions, P!Checkpoints, Records, Statuses, PatchSteps, P!NoRecord, P!Idle, P!stores

\* The restore keeps what is known of slots and proofs.
LEMMA RestoreKeeps ==
  ASSUME P!PSAssumption, Typed, Kept, NEW o \in Patches, P!Restore(o)
  PROVE  Kept'
  BY DEF P!PSAssumption, P!FaultKinds, Typed, Kept, P!CommitsAreProved, Undecided,
         Quarantined, Ended, P!Rev, P!Restore, P!At, P!Goto, P!Ends, P!Fault, P!Writes, P!Files,
         P!Versions, P!Checkpoints, Records, Statuses, PatchSteps, P!NoRecord, P!Idle, P!stores

\* The restore puts the old file back, or leaves the record open.
LEMMA RestoreAgrees ==
  ASSUME P!PSAssumption, Typed, Kept, Agrees, ~ Peers,
         NEW o \in Patches, P!Restore(o)
  PROVE  Agrees'
  <1> SUFFICES ASSUME p_count.edits = 0 PROVE Agrees'
    BY DEF P!Restore, Agrees, P!Fault, Typed
  <1>1. p_run.op = o /\ p_run # P!Idle /\ Mine(o)
    BY RunIsMine DEF P!Restore, P!At, P!Idle
  <1>2. Frames(o)
    BY DEF Frames, P!Restore, P!Fault, P!Writes, Typed, P!stores
  <1>4. \/ /\ p_journal[o].cp \in {"planned", "quarantined", "primary", "compensating"}
           /\ Lifted(o)
        \/ Placed(o) /\ p_journal[o].cp = "quarantined"
    BY <1>1 DEF P!Restore, P!At, Mine, Knows, Ended
  <1>5. p_journal[o].prev = p_expected[o] /\ o # None /\ p_expected[o] \in {Base, None} \cup Patches
    BY <1>1, <1>4, NamesApart DEF Mine
  <1>3. Shows(o)
    <2>6. CASE Lifted(o)
      <3>1. /\ p_primary' = p_slot[o] /\ p_slot' = [p_slot EXCEPT ![o] = None] /\ P!Ends(o, "rejected")
            /\ UNCHANGED <<p_row, p_proof, p_journal, p_blocked, p_expected>>
        BY <1>5, <2>6 DEF P!Restore, Lifted
      <3>2. Back(o)' /\ p_primary' = p_expected[o]
        BY <2>6, <3>1 DEF Lifted, Back, Fresh, Typed
      <3> QED
        BY <1>1, <1>4, <1>5, <3>1, <3>2
           DEF P!Ends, Lifted, Placed, Back, Mine, Shows, P!Interrupted, Told, Knows, Ended,
               P!Idle
    <2>7. CASE Placed(o)
      <3>1. /\ UNCHANGED <<p_primary, p_slot>> /\ P!Ends(o, "repair_required")
            /\ UNCHANGED <<p_row, p_proof, p_journal, p_blocked, p_expected>>
        BY <1>5, <2>7 DEF P!Restore, Placed
      <3>2. Placed(o)' /\ p_primary' = o
        BY <2>7, <3>1 DEF Placed
      <3> QED
        BY <1>1, <1>4, <1>5, <2>7, <3>1, <3>2
           DEF P!Ends, Lifted, Placed, Mine, Shows, P!Interrupted, Told, Knows, Ended, P!Idle
    <2> QED
      BY <1>4, <2>6, <2>7
  <1> QED
    BY <1>1, <1>2, <1>3, StepAgrees DEF Mine

\* The record of the commit keeps the types.
LEMMA RecordIndexTyped ==
  ASSUME P!PSAssumption, Typed, NEW o \in Patches, P!RecordIndex(o)
  PROVE  Typed'
  <1> DEFINE rec == Indexed(p_journal[o])
  <1>1. /\ rec \in Records /\ rec.status = p_journal[o].status /\ rec.cp = "index"
        /\ rec.prev = p_journal[o].prev /\ rec.core
    BY IndexedRecord DEF Typed
  <1>2. P!Writes(o, rec)
    BY DEF P!RecordIndex, Indexed
  <1> HIDE DEF rec
  <1> QED
    BY <1>1, <1>2
       DEF P!PSAssumption, Typed, P!Writes, P!RecordIndex, P!At, P!Goto, P!Ends, P!Fault, P!Files,
           P!Versions, PatchSteps, P!NoRecord, P!Idle, P!stores, Statuses, P!Checkpoints

\* The record of the commit keeps what is known of slots and proofs.
LEMMA RecordIndexKeeps ==
  ASSUME P!PSAssumption, Typed, Kept, NEW o \in Patches, P!RecordIndex(o)
  PROVE  Kept'
  <1> DEFINE rec == Indexed(p_journal[o])
  <1>1. /\ rec \in Records /\ rec.status = p_journal[o].status /\ rec.cp = "index"
        /\ rec.prev = p_journal[o].prev /\ rec.core
    BY IndexedRecord DEF Typed
  <1>2. P!Writes(o, rec)
    BY DEF P!RecordIndex, Indexed
  <1> HIDE DEF rec
  <1> QED
    BY <1>1, <1>2
       DEF P!PSAssumption, Typed, P!Writes, Kept, P!CommitsAreProved, Undecided, Quarantined,
           Ended, P!Rev, P!RecordIndex, P!At, P!Goto, P!Ends, P!Fault, P!Files, P!Versions, PatchSteps,
           P!NoRecord, P!Idle, P!stores

\* The record of the commit says so once the proof is there.
LEMMA RecordIndexAgrees ==
  ASSUME P!PSAssumption, Typed, Kept, Agrees, ~ Peers,
         NEW o \in Patches, P!RecordIndex(o)
  PROVE  Agrees'
  <1> SUFFICES ASSUME p_count.edits = 0 PROVE Agrees'
    BY DEF P!RecordIndex, Agrees, P!Fault, Typed
  <1>1. p_run.op = o /\ p_run # P!Idle /\ Mine(o)
    BY RunIsMine DEF P!RecordIndex, P!At, P!Idle
  <1>2. Frames(o)
    BY DEF Frames, P!RecordIndex, P!Fault, P!Writes, Typed, P!stores
  <1> DEFINE rec == Indexed(p_journal[o])
  <1>4. /\ rec \in Records /\ rec.status = p_journal[o].status /\ rec.cp = "index"
        /\ rec.prev = p_journal[o].prev /\ rec.core
    BY IndexedRecord DEF Typed
  <1>5. P!Writes(o, rec)
    BY DEF P!RecordIndex, Indexed
  <1> HIDE DEF rec
  <1>3. Shows(o)
    BY <1>1, NamesApart, <1>4, <1>5
       DEF Mine, Typed, P!Rev, Ended, Shows, P!Interrupted, Told, Knows, Fresh, Back,
           Lifted, Placed, Committed, P!RecordIndex, P!At, P!Goto, P!Ends, P!Fault, P!Writes, P!Files,
           P!Versions, P!Checkpoints, Statuses, P!NoRecord, P!Idle, P!stores
  <1> QED
    BY <1>1, <1>2, <1>3, StepAgrees DEF Mine

\* A commit whose record failed keeps the types.
LEMMA RecordIndexFailsTyped ==
  ASSUME P!PSAssumption, Typed, NEW o \in Patches, P!RecordIndexFails(o)
  PROVE  Typed'
  BY DEF P!PSAssumption, P!FaultKinds, Typed, P!RecordIndexFails, P!At, P!Goto, P!Ends, P!Fault,
         P!Writes, P!Files, P!Versions, P!Checkpoints, Records, Statuses, PatchSteps, P!NoRecord, P!Idle,
         P!stores

\* A commit whose record failed keeps what is known of slots and proofs.
LEMMA RecordIndexFailsKeeps ==
  ASSUME P!PSAssumption, Typed, Kept, NEW o \in Patches, P!RecordIndexFails(o)
  PROVE  Kept'
  BY DEF P!PSAssumption, P!FaultKinds, Typed, Kept, P!CommitsAreProved, Undecided,
         Quarantined, Ended, P!Rev, P!RecordIndexFails, P!At, P!Goto, P!Ends, P!Fault, P!Writes,
         P!Files, P!Versions, P!Checkpoints, Records, Statuses, PatchSteps, P!NoRecord, P!Idle, P!stores

\* A commit whose record failed is left open.
LEMMA RecordIndexFailsAgrees ==
  ASSUME P!PSAssumption, Typed, Kept, Agrees, ~ Peers,
         NEW o \in Patches, P!RecordIndexFails(o)
  PROVE  Agrees'
  <1> SUFFICES ASSUME p_count.edits = 0 PROVE Agrees'
    BY DEF P!RecordIndexFails, Agrees, P!Fault, Typed
  <1>1. p_run.op = o /\ p_run # P!Idle /\ Mine(o)
    BY RunIsMine DEF P!RecordIndexFails, P!At, P!Idle
  <1>2. Frames(o)
    BY DEF Frames, P!RecordIndexFails, P!Fault, P!Writes, Typed, P!stores
  <1>3. Shows(o)
    BY <1>1, NamesApart
       DEF Mine, Typed, P!Rev, Ended, Shows, P!Interrupted, Told, Knows, Fresh, Back,
           Lifted, Placed, Committed, P!RecordIndexFails, P!At, P!Goto, P!Ends, P!Fault, P!Writes,
           P!Files, P!Versions, P!Checkpoints, Records, Statuses, PatchSteps, P!NoRecord, P!Idle,
           P!stores
  <1> QED
    BY <1>1, <1>2, <1>3, StepAgrees DEF Mine

\* The purge keeps the types.
LEMMA PurgeTyped ==
  ASSUME P!PSAssumption, Typed, NEW o \in Patches, P!Purge(o)
  PROVE  Typed'
  BY DEF P!PSAssumption, P!FaultKinds, Typed, P!Purge, P!At, P!Goto, P!Ends, P!Fault, P!Writes, P!Files,
         P!Versions, P!Checkpoints, Records, Statuses, PatchSteps, P!NoRecord, P!Idle, P!stores

\* The purge keeps what is known of slots and proofs.
LEMMA PurgeKeeps ==
  ASSUME P!PSAssumption, Typed, Kept, NEW o \in Patches, P!Purge(o)
  PROVE  Kept'
  BY DEF P!PSAssumption, P!FaultKinds, Typed, Kept, P!CommitsAreProved, Undecided,
         Quarantined, Ended, P!Rev, P!Purge, P!At, P!Goto, P!Ends, P!Fault, P!Writes, P!Files, P!Versions,
         P!Checkpoints, Records, Statuses, PatchSteps, P!NoRecord, P!Idle, P!stores

\* The purge empties the slot of a committed patch.
LEMMA PurgeAgrees ==
  ASSUME P!PSAssumption, Typed, Kept, Agrees, ~ Peers,
         NEW o \in Patches, P!Purge(o)
  PROVE  Agrees'
  <1> SUFFICES ASSUME p_count.edits = 0 PROVE Agrees'
    BY DEF P!Purge, Agrees, P!Fault, Typed
  <1>1. p_run.op = o /\ p_run # P!Idle /\ Mine(o)
    BY RunIsMine DEF P!Purge, P!At, P!Idle
  <1>2. Frames(o)
    BY DEF Frames, P!Purge, P!Fault, P!Writes, Typed, P!stores
  <1>4. p_journal[o].cp = "index" /\ Committed(o)
    BY <1>1 DEF P!Purge, P!At, Mine, Knows, Ended
  <1>5. /\ P!Ends(o, "ready") \/ P!Ends(o, "degraded")
        /\ UNCHANGED <<p_primary, p_row, p_proof, p_journal, p_blocked, p_expected>>
    BY DEF P!Purge
  <1>6. Committed(o)' /\ p_primary' = o
    BY <1>4, <1>5 DEF Committed
  <1>3. Shows(o)
    <2>1. /\ p_run'.op = o /\ p_run'.at = "finish" /\ p_run'.status \in {"ready", "degraded"}
      BY <1>5 DEF P!Ends
    <2> QED
      BY <1>1, <1>4, <1>5, <1>6, <2>1
         DEF Mine, Shows, P!Interrupted, Told, Knows, Ended, P!Idle
  <1> QED
    BY <1>1, <1>2, <1>3, StepAgrees DEF Mine

\* A purge that failed keeps the types.
LEMMA PurgeFailsTyped ==
  ASSUME P!PSAssumption, Typed, NEW o \in Patches, P!PurgeFails(o)
  PROVE  Typed'
  BY DEF P!PSAssumption, P!FaultKinds, Typed, P!PurgeFails, P!At, P!Goto, P!Ends, P!Fault, P!Writes,
         P!Files, P!Versions, P!Checkpoints, Records, Statuses, PatchSteps, P!NoRecord, P!Idle, P!stores

\* A purge that failed keeps what is known of slots and proofs.
LEMMA PurgeFailsKeeps ==
  ASSUME P!PSAssumption, Typed, Kept, NEW o \in Patches, P!PurgeFails(o)
  PROVE  Kept'
  BY DEF P!PSAssumption, P!FaultKinds, Typed, Kept, P!CommitsAreProved, Undecided,
         Quarantined, Ended, P!Rev, P!PurgeFails, P!At, P!Goto, P!Ends, P!Fault, P!Writes, P!Files,
         P!Versions, P!Checkpoints, Records, Statuses, PatchSteps, P!NoRecord, P!Idle, P!stores

\* A purge that failed leaves the old file of a committed patch.
LEMMA PurgeFailsAgrees ==
  ASSUME P!PSAssumption, Typed, Kept, Agrees, ~ Peers,
         NEW o \in Patches, P!PurgeFails(o)
  PROVE  Agrees'
  <1> SUFFICES ASSUME p_count.edits = 0 PROVE Agrees'
    BY DEF P!PurgeFails, Agrees, P!Fault, Typed
  <1>1. p_run.op = o /\ p_run # P!Idle /\ Mine(o)
    BY RunIsMine DEF P!PurgeFails, P!At, P!Idle
  <1>2. Frames(o)
    BY DEF Frames, P!PurgeFails, P!Fault, P!Writes, Typed, P!stores
  <1>3. Shows(o)
    BY <1>1, NamesApart
       DEF Mine, Typed, P!Rev, Ended, Shows, P!Interrupted, Told, Knows, Fresh, Back,
           Lifted, Placed, Committed, P!PurgeFails, P!At, P!Goto, P!Ends, P!Fault, P!Writes, P!Files,
           P!Versions, P!Checkpoints, Records, Statuses, PatchSteps, P!NoRecord, P!Idle, P!stores
  <1> QED
    BY <1>1, <1>2, <1>3, StepAgrees DEF Mine

\* The end of a call keeps the types.
LEMMA FinishTyped ==
  ASSUME P!PSAssumption, Typed, NEW o \in Patches, P!Finish(o)
  PROVE  Typed'
  <1> DEFINE b == p_journal[o].core \/ p_run.status \in {"ready", "degraded"}
             rec == Closed(p_journal[o], p_run.status, b)
  <1>1. /\ rec \in Records /\ rec.status = p_run.status /\ rec.cp = p_journal[o].cp
        /\ rec.prev = p_journal[o].prev /\ rec.core = b
    <2>1. p_journal[o] \in Records /\ p_run.status \in Statuses /\ b \in BOOLEAN
      BY DEF Typed, P!Finish, P!At, P!Idle
    <2> QED
      BY <2>1, ClosedRecord
  <1>2. P!Writes(o, rec)
    BY DEF P!Finish, Closed
  <1> HIDE DEF rec
  <1> QED
    BY <1>1, <1>2
       DEF P!PSAssumption, Typed, P!Writes, P!Finish, P!At, P!Goto, P!Ends, P!Fault, P!Files, P!Versions,
           PatchSteps, P!NoRecord, P!Idle, P!stores, Statuses, P!Checkpoints

\* The end of a call keeps what is known of slots and proofs.
LEMMA FinishKeeps ==
  ASSUME P!PSAssumption, Typed, Kept, NEW o \in Patches, P!Finish(o)
  PROVE  Kept'
  <1> DEFINE b == p_journal[o].core \/ p_run.status \in {"ready", "degraded"}
             rec == Closed(p_journal[o], p_run.status, b)
  <1>1. /\ rec \in Records /\ rec.status = p_run.status /\ rec.cp = p_journal[o].cp
        /\ rec.prev = p_journal[o].prev /\ rec.core = b
    <2>1. p_journal[o] \in Records /\ p_run.status \in Statuses /\ b \in BOOLEAN
      BY DEF Typed, P!Finish, P!At, P!Idle
    <2> QED
      BY <2>1, ClosedRecord
  <1>2. P!Writes(o, rec)
    BY DEF P!Finish, Closed
  <1> HIDE DEF rec
  <1>3. /\ p_run.op = o /\ p_run.at = "finish" /\ p_run' = P!Idle
        /\ UNCHANGED <<p_slot, p_proof, p_expected>>
    BY DEF P!Finish, P!At, P!stores
  <1>4. rec.core \/ rec.status \in {"ready", "degraded"} => o \in p_proof
    BY <1>1, <1>3 DEF Kept, P!CommitsAreProved, Ended
  <1> QED
    BY <1>1, <1>2, <1>3, <1>4
       DEF Typed, P!Writes, Kept, P!CommitsAreProved, Undecided, Quarantined, Ended, P!Idle

\* The end of a call closes its record with what the stores show.
LEMMA FinishAgrees ==
  ASSUME P!PSAssumption, Typed, Kept, Agrees, ~ Peers,
         NEW o \in Patches, P!Finish(o)
  PROVE  Agrees'
  <1> SUFFICES ASSUME p_count.edits = 0 PROVE Agrees'
    BY DEF P!Finish, Agrees, P!Fault, Typed
  <1>1. p_run.op = o /\ p_run # P!Idle /\ Mine(o)
    BY RunIsMine DEF P!Finish, P!At, P!Idle
  <1>2. Frames(o)
    BY DEF Frames, P!Finish, P!Fault, P!Writes, Typed, P!stores
  <1> DEFINE b == p_journal[o].core \/ p_run.status \in {"ready", "degraded"}
             rec == Closed(p_journal[o], p_run.status, b)
  <1>4. /\ rec \in Records /\ rec.status = p_run.status /\ rec.cp = p_journal[o].cp
        /\ rec.prev = p_journal[o].prev /\ rec.core = b
    <2>1. p_journal[o] \in Records /\ p_run.status \in Statuses /\ b \in BOOLEAN
      BY DEF Typed, P!Finish, P!At, P!Idle
    <2> QED
      BY <2>1, ClosedRecord
  <1>5. P!Writes(o, rec)
    BY DEF P!Finish, Closed
  <1> HIDE DEF rec
  <1>6. /\ p_run.at = "finish" /\ p_run' = P!Idle
        /\ UNCHANGED <<P!stores, p_blocked, p_expected>>
        /\ p_journal'[o] = rec
    BY <1>5 DEF P!Finish, P!At, Typed, P!Writes
  <1>3. Shows(o)
    <2>7. CASE p_run.status \in {"ready", "degraded"}
      <3>1. Committed(o)
        BY <1>1, <1>6, <2>7 DEF Mine, Knows, Ended
      <3>2. p_primary' = p_row' /\ o \in p_proof' /\ p_primary' = o /\ rec.core
        BY <1>4, <1>6, <2>7, <3>1 DEF Committed, P!stores
      <3> QED
        BY <1>4, <1>6, <2>7, <3>2 DEF Shows, P!Interrupted
    <2>8. CASE p_run.status = "rejected"
      <3>1. Fresh(o)
        BY <1>1, <1>6, <2>8 DEF Mine, Knows, Ended
      <3>2. p_primary' = p_row /\ p_row' = p_row /\ o \notin p_proof' /\ p_slot'[o] = None
        BY <1>6, <3>1 DEF Fresh, P!stores
      <3> QED
        BY <1>4, <1>6, <2>8, <3>2 DEF Shows, P!Interrupted, Typed
    <2>9. CASE p_run.status = "repair_required"
      <3>1. /\ Told(o, p_journal[o].cp)' /\ P!Interrupted(o)'
            /\ p_primary' \in {Base, None} \cup Patches
        BY <1>1, <1>4, <1>6, <2>9
           DEF Mine, Told, P!Interrupted, Fresh, Back, Lifted, Placed, Committed, P!stores,
               Agrees
      <3> QED
        BY <1>1, <1>4, <1>6, <2>9, <3>1 DEF Shows, Mine
    <2> QED
      BY <1>6, <2>7, <2>8, <2>9 DEF Kept, Ended
  <1> QED
    BY <1>1, <1>2, <1>3, StepAgrees DEF Mine

\* An end that could not be recorded keeps the types.
LEMMA FinishFailsTyped ==
  ASSUME P!PSAssumption, Typed, NEW o \in Patches, P!FinishFails(o)
  PROVE  Typed'
  BY DEF P!PSAssumption, P!FaultKinds, Typed, P!FinishFails, P!At, P!Goto, P!Ends, P!Fault, P!Writes,
         P!Files, P!Versions, P!Checkpoints, Records, Statuses, PatchSteps, P!NoRecord, P!Idle, P!stores

\* An end that could not be recorded keeps what is known of slots and proofs.
LEMMA FinishFailsKeeps ==
  ASSUME P!PSAssumption, Typed, Kept, NEW o \in Patches, P!FinishFails(o)
  PROVE  Kept'
  BY DEF P!PSAssumption, P!FaultKinds, Typed, Kept, P!CommitsAreProved, Undecided,
         Quarantined, Ended, P!Rev, P!FinishFails, P!At, P!Goto, P!Ends, P!Fault, P!Writes, P!Files,
         P!Versions, P!Checkpoints, Records, Statuses, PatchSteps, P!NoRecord, P!Idle, P!stores

\* An end that could not be recorded leaves the record open.
LEMMA FinishFailsAgrees ==
  ASSUME P!PSAssumption, Typed, Kept, Agrees, ~ Peers,
         NEW o \in Patches, P!FinishFails(o)
  PROVE  Agrees'
  <1> SUFFICES ASSUME p_count.edits = 0 PROVE Agrees'
    BY DEF P!FinishFails, Agrees, P!Fault, Typed
  <1>1. p_run.op = o /\ p_run # P!Idle /\ Mine(o)
    BY RunIsMine DEF P!FinishFails, P!At, P!Idle
  <1>2. Frames(o)
    BY DEF Frames, P!FinishFails, P!Fault, P!Writes, Typed, P!stores
  <1>3. Shows(o)
    BY <1>1, NamesApart
       DEF Mine, Typed, P!Rev, Ended, Shows, P!Interrupted, Told, Knows, Fresh, Back,
           Lifted, Placed, Committed, P!FinishFails, P!At, P!Goto, P!Ends, P!Fault, P!Writes, P!Files,
           P!Versions, P!Checkpoints, Records, Statuses, PatchSteps, P!NoRecord, P!Idle, P!stores
  <1> QED
    BY <1>1, <1>2, <1>3, StepAgrees DEF Mine

\* A verdict keeps the types.
LEMMA ResolveTyped ==
  ASSUME P!PSAssumption, Typed, NEW o \in Patches, P!Resolve(o)
  PROVE  Typed'
  BY DEF P!PSAssumption, P!FaultKinds, Typed, P!Resolve, P!At, P!Goto, P!Ends, P!Fault, P!Writes, P!Files,
         P!Versions, P!Checkpoints, Records, Statuses, PatchSteps, P!NoRecord, P!Idle, P!stores,
         P!Verdict, P!Probe, P!Rev

\* A verdict keeps what is known of slots and proofs.
LEMMA ResolveKeeps ==
  ASSUME P!PSAssumption, Typed, Kept, NEW o \in Patches, P!Resolve(o)
  PROVE  Kept'
  BY DEF P!PSAssumption, P!FaultKinds, Typed, Kept, P!CommitsAreProved, Undecided,
         Quarantined, Ended, P!Rev, P!Resolve, P!At, P!Goto, P!Ends, P!Fault, P!Writes, P!Files,
         P!Versions, P!Checkpoints, Records, Statuses, PatchSteps, P!NoRecord, P!Idle, P!stores,
         P!Verdict, P!Probe, P!Rev

\* A verdict is what the stores show of the record.
LEMMA ResolveAgrees ==
  ASSUME P!PSAssumption, Typed, Kept, Agrees, ~ Peers,
         NEW o \in Patches, P!Resolve(o)
  PROVE  Agrees'
  <1> SUFFICES ASSUME p_count.edits = 0 PROVE Agrees'
    BY DEF P!Resolve, Agrees, Typed
  <1>1. /\ P!Interrupted(o) /\ o \notin p_blocked /\ p_run = P!Idle
        /\ \A q \in Patches \ {o} : ~ P!Interrupted(q)
        /\ Told(o, p_journal[o].cp) /\ p_primary \in {Base, None} \cup Patches
        /\ p_journal[o].cp # "created" => p_journal[o].prev = p_expected[o]
    BY DEF P!Resolve, Agrees
  <1>2. Frames(o) /\ UNCHANGED <<P!stores, p_journal, p_expected>>
    BY DEF Frames, P!Resolve, P!stores
  <1> DEFINE v == P!Verdict(o)
  <1>4. /\ v = "block" => Placed(o) /\ p_journal[o].cp = "quarantined"
        /\ v = "undo" => Placed(o) /\ p_journal[o].cp \in {"primary", "compensating"}
        /\ v = "restore" => /\ Lifted(o)
                            /\ p_journal[o].cp \in {"planned", "quarantined",
                                                    "primary", "compensating"}
        /\ v = "rejected" => Fresh(o)
        /\ v \in {"ready", "degraded"} => Committed(o)
        /\ v \in {"block", "undo", "restore", "rejected", "ready", "degraded"}
    BY <1>1, NamesApart
       DEF P!Verdict, P!Probe, P!Rev, Told, Fresh, Back, Lifted, Placed, Committed, Typed,
           Records, P!Checkpoints
  <1>5. \/ v = "block" /\ p_blocked' = p_blocked \cup {o} /\ p_run' = P!Idle
        \/ /\ v \in {"restore", "undo"} /\ p_blocked' = p_blocked
           /\ p_run' = [op |-> o, status |-> "none",
                       at |-> IF v = "undo" THEN "recover_undo" ELSE "recover_restore"]
        \/ /\ v \notin {"block", "restore", "undo"} /\ p_blocked' = p_blocked
           /\ p_run' = [op |-> o, at |-> "recover_write", status |-> v]
    BY <1>1 DEF P!Resolve
  <1> HIDE DEF v
  <1>6. /\ P!Interrupted(o)' /\ Told(o, p_journal[o].cp)' /\ p_primary' = p_primary
        /\ p_journal' = p_journal /\ p_expected' = p_expected
        /\ (Placed(o)' <=> Placed(o)) /\ (Lifted(o)' <=> Lifted(o))
        /\ (Fresh(o)' <=> Fresh(o)) /\ (Committed(o)' <=> Committed(o))
    BY <1>1, <1>2 DEF P!Interrupted, Told, Fresh, Back, Lifted, Placed, Committed, P!stores
  <1>3. Shows(o)
    <2>1. CASE v = "block" /\ p_blocked' = p_blocked \cup {o} /\ p_run' = P!Idle
      BY <1>1, <1>4, <1>6, <2>1 DEF Shows
    <2>2. CASE /\ v \in {"restore", "undo"} /\ p_blocked' = p_blocked
               /\ p_run' = [op |-> o, status |-> "none",
                           at |-> IF v = "undo" THEN "recover_undo" ELSE "recover_restore"]
      <3>1. CASE v = "undo"
        BY <1>1, <1>4, <1>6, <2>2, <3>1 DEF Shows, Knows, Ended
      <3>2. CASE v = "restore"
        BY <1>1, <1>4, <1>6, <2>2, <3>2 DEF Shows, Knows, Ended
      <3> QED
        BY <2>2, <3>1, <3>2
    <2>3. CASE /\ v \notin {"block", "restore", "undo"} /\ p_blocked' = p_blocked
               /\ p_run' = [op |-> o, at |-> "recover_write", status |-> v]
      BY <1>1, <1>4, <1>6, <2>3 DEF Shows, Knows, Ended
    <2> QED
      BY <1>5, <2>1, <2>2, <2>3
  <1> QED
    BY <1>1, <1>2, <1>3, StepAgrees

\* The undo of a recovery keeps the types.
LEMMA RecoverUndoTyped ==
  ASSUME P!PSAssumption, Typed, NEW o \in Patches, P!RecoverUndo(o)
  PROVE  Typed'
  BY DEF P!PSAssumption, P!FaultKinds, Typed, P!RecoverUndo, P!At, P!Goto, P!Ends, P!Fault, P!Writes,
         P!Files, P!Versions, P!Checkpoints, Records, Statuses, PatchSteps, P!NoRecord, P!Idle, P!stores

\* The undo of a recovery keeps what is known of slots and proofs.
LEMMA RecoverUndoKeeps ==
  ASSUME P!PSAssumption, Typed, Kept, NEW o \in Patches, P!RecoverUndo(o)
  PROVE  Kept'
  BY DEF P!PSAssumption, P!FaultKinds, Typed, Kept, P!CommitsAreProved, Undecided,
         Quarantined, Ended, P!Rev, P!RecoverUndo, P!At, P!Goto, P!Ends, P!Fault, P!Writes, P!Files,
         P!Versions, P!Checkpoints, Records, Statuses, PatchSteps, P!NoRecord, P!Idle, P!stores

\* The undo of a recovery empties the path of the unproved file.
LEMMA RecoverUndoAgrees ==
  ASSUME P!PSAssumption, Typed, Kept, Agrees, ~ Peers,
         NEW o \in Patches, P!RecoverUndo(o)
  PROVE  Agrees'
  <1> SUFFICES ASSUME p_count.edits = 0 PROVE Agrees'
    BY DEF P!RecoverUndo, Agrees, P!Fault, Typed
  <1>1. p_run.op = o /\ p_run # P!Idle /\ Mine(o)
    BY RunIsMine DEF P!RecoverUndo, P!At, P!Idle
  <1>2. Frames(o)
    BY DEF Frames, P!RecoverUndo, P!Fault, P!Writes, Typed, P!stores
  <1>4. p_journal[o].cp \in {"primary", "compensating"} /\ Placed(o)
    BY <1>1 DEF P!RecoverUndo, P!At, Mine, Knows, Ended
  <1>5. /\ p_primary' = None /\ P!Goto(o, "recover_restore")
        /\ UNCHANGED <<p_slot, p_row, p_proof, p_journal, p_blocked, p_expected>>
    BY <1>4 DEF P!RecoverUndo, Placed
  <1>6. Lifted(o)'
    BY <1>4, <1>5 DEF Lifted, Placed
  <1>3. Shows(o)
    BY <1>1, <1>4, <1>5, <1>6 DEF P!Goto, Mine, Shows, P!Interrupted, Told, Knows, Ended, P!Idle
  <1> QED
    BY <1>1, <1>2, <1>3, StepAgrees DEF Mine

\* The restore of a recovery keeps the types.
LEMMA RecoverRestoreTyped ==
  ASSUME P!PSAssumption, Typed, NEW o \in Patches, P!RecoverRestore(o)
  PROVE  Typed'
  BY DEF P!PSAssumption, P!FaultKinds, Typed, P!RecoverRestore, P!At, P!Goto, P!Ends, P!Fault, P!Writes,
         P!Files, P!Versions, P!Checkpoints, Records, Statuses, PatchSteps, P!NoRecord, P!Idle, P!stores

\* The restore of a recovery keeps what is known of slots and proofs.
LEMMA RecoverRestoreKeeps ==
  ASSUME P!PSAssumption, Typed, Kept, NEW o \in Patches, P!RecoverRestore(o)
  PROVE  Kept'
  BY DEF P!PSAssumption, P!FaultKinds, Typed, Kept, P!CommitsAreProved, Undecided,
         Quarantined, Ended, P!Rev, P!RecoverRestore, P!At, P!Goto, P!Ends, P!Fault, P!Writes, P!Files,
         P!Versions, P!Checkpoints, Records, Statuses, PatchSteps, P!NoRecord, P!Idle, P!stores

\* The restore of a recovery puts the old file back.
LEMMA RecoverRestoreAgrees ==
  ASSUME P!PSAssumption, Typed, Kept, Agrees, ~ Peers,
         NEW o \in Patches, P!RecoverRestore(o)
  PROVE  Agrees'
  <1> SUFFICES ASSUME p_count.edits = 0 PROVE Agrees'
    BY DEF P!RecoverRestore, Agrees, P!Fault, Typed
  <1>1. p_run.op = o /\ p_run # P!Idle /\ Mine(o)
    BY RunIsMine DEF P!RecoverRestore, P!At, P!Idle
  <1>2. Frames(o)
    BY DEF Frames, P!RecoverRestore, P!Fault, P!Writes, Typed, P!stores
  <1>4. /\ Lifted(o)
        /\ p_journal[o].cp \in {"planned", "quarantined", "primary", "compensating"}
    BY <1>1 DEF P!RecoverRestore, P!At, Mine, Knows, Ended
  <1>5. p_journal[o].prev = p_expected[o] /\ p_expected[o] \in {Base, None} \cup Patches
    BY <1>1, <1>4, NamesApart DEF Mine
  <1>6. /\ p_primary' = p_slot[o] /\ p_slot' = [p_slot EXCEPT ![o] = None]
        /\ p_run' = [op |-> o, at |-> "recover_write", status |-> "rejected"]
        /\ UNCHANGED <<p_row, p_proof, p_journal, p_blocked, p_expected>>
    BY <1>4, <1>5 DEF P!RecoverRestore, Lifted
  <1>7. Back(o)' /\ p_primary' = p_expected[o]
    BY <1>4, <1>6 DEF Lifted, Back, Fresh, Typed
  <1>3. Shows(o)
    BY <1>1, <1>4, <1>5, <1>6, <1>7
       DEF Back, Mine, Shows, P!Interrupted, Told, Knows, Ended, P!Idle
  <1> QED
    BY <1>1, <1>2, <1>3, StepAgrees DEF Mine

\* The end of a recovery keeps the types.
LEMMA RecoverWriteTyped ==
  ASSUME P!PSAssumption, Typed, NEW o \in Patches, P!RecoverWrite(o)
  PROVE  Typed'
  <1> DEFINE b == p_journal[o].core \/ p_run.status \in {"ready", "degraded"}
             rec == Closed(p_journal[o], p_run.status, b)
  <1>1. /\ rec \in Records /\ rec.status = p_run.status /\ rec.cp = p_journal[o].cp
        /\ rec.prev = p_journal[o].prev /\ rec.core = b
    <2>1. p_journal[o] \in Records /\ p_run.status \in Statuses /\ b \in BOOLEAN
      BY DEF Typed, P!RecoverWrite, P!At, P!Idle
    <2> QED
      BY <2>1, ClosedRecord
  <1>2. P!Writes(o, rec)
    BY DEF P!RecoverWrite, Closed
  <1> HIDE DEF rec
  <1> QED
    BY <1>1, <1>2
       DEF P!PSAssumption, Typed, P!Writes, P!RecoverWrite, P!At, P!Goto, P!Ends, P!Fault, P!Files,
           P!Versions, PatchSteps, P!NoRecord, P!Idle, P!stores, Statuses, P!Checkpoints

\* The end of a recovery keeps what is known of slots and proofs.
LEMMA RecoverWriteKeeps ==
  ASSUME P!PSAssumption, Typed, Kept, NEW o \in Patches, P!RecoverWrite(o)
  PROVE  Kept'
  <1> DEFINE b == p_journal[o].core \/ p_run.status \in {"ready", "degraded"}
             rec == Closed(p_journal[o], p_run.status, b)
  <1>1. /\ rec \in Records /\ rec.status = p_run.status /\ rec.cp = p_journal[o].cp
        /\ rec.prev = p_journal[o].prev /\ rec.core = b
    <2>1. p_journal[o] \in Records /\ p_run.status \in Statuses /\ b \in BOOLEAN
      BY DEF Typed, P!RecoverWrite, P!At, P!Idle
    <2> QED
      BY <2>1, ClosedRecord
  <1>2. P!Writes(o, rec)
    BY DEF P!RecoverWrite, Closed
  <1> HIDE DEF rec
  <1>3. /\ p_run.op = o /\ p_run.at = "recover_write" /\ p_run' = P!Idle
        /\ UNCHANGED <<p_slot, p_proof, p_expected>>
    BY DEF P!RecoverWrite, P!At, P!stores
  <1>4. rec.core \/ rec.status \in {"ready", "degraded"} => o \in p_proof
    BY <1>1, <1>3 DEF Kept, P!CommitsAreProved, Ended
  <1> QED
    BY <1>1, <1>2, <1>3, <1>4
       DEF Typed, P!Writes, Kept, P!CommitsAreProved, Undecided, Quarantined, Ended, P!Idle

\* The end of a recovery closes the record with its verdict.
LEMMA RecoverWriteAgrees ==
  ASSUME P!PSAssumption, Typed, Kept, Agrees, ~ Peers,
         NEW o \in Patches, P!RecoverWrite(o)
  PROVE  Agrees'
  <1> SUFFICES ASSUME p_count.edits = 0 PROVE Agrees'
    BY DEF P!RecoverWrite, Agrees, P!Fault, Typed
  <1>1. p_run.op = o /\ p_run # P!Idle /\ Mine(o)
    BY RunIsMine DEF P!RecoverWrite, P!At, P!Idle
  <1>2. Frames(o)
    BY DEF Frames, P!RecoverWrite, P!Fault, P!Writes, Typed, P!stores
  <1> DEFINE b == p_journal[o].core \/ p_run.status \in {"ready", "degraded"}
             rec == Closed(p_journal[o], p_run.status, b)
  <1>4. /\ rec \in Records /\ rec.status = p_run.status /\ rec.cp = p_journal[o].cp
        /\ rec.prev = p_journal[o].prev /\ rec.core = b
    <2>1. p_journal[o] \in Records /\ p_run.status \in Statuses /\ b \in BOOLEAN
      BY DEF Typed, P!RecoverWrite, P!At, P!Idle
    <2> QED
      BY <2>1, ClosedRecord
  <1>5. P!Writes(o, rec)
    BY DEF P!RecoverWrite, Closed
  <1> HIDE DEF rec
  <1>6. /\ p_run.at = "recover_write" /\ p_run' = P!Idle
        /\ UNCHANGED <<P!stores, p_blocked, p_expected>>
        /\ p_journal'[o] = rec
    BY <1>5 DEF P!RecoverWrite, P!At, Typed, P!Writes
  <1>3. Shows(o)
    <2>7. CASE p_run.status \in {"ready", "degraded"}
      <3>1. Committed(o)
        BY <1>1, <1>6, <2>7 DEF Mine, Knows, Ended
      <3>2. p_primary' = p_row' /\ o \in p_proof' /\ p_primary' = o /\ rec.core
        BY <1>4, <1>6, <2>7, <3>1 DEF Committed, P!stores
      <3> QED
        BY <1>4, <1>6, <2>7, <3>2 DEF Shows, P!Interrupted
    <2>8. CASE p_run.status = "rejected"
      <3>1. Fresh(o)
        BY <1>1, <1>6, <2>8 DEF Mine, Knows, Ended
      <3>2. p_primary' = p_row /\ p_row' = p_row /\ o \notin p_proof' /\ p_slot'[o] = None
        BY <1>6, <3>1 DEF Fresh, P!stores
      <3> QED
        BY <1>4, <1>6, <2>8, <3>2 DEF Shows, P!Interrupted, Typed
    <2>9. CASE p_run.status = "repair_required"
      <3>1. /\ Told(o, p_journal[o].cp)' /\ P!Interrupted(o)'
            /\ p_primary' \in {Base, None} \cup Patches
        BY <1>1, <1>4, <1>6, <2>9
           DEF Mine, Told, P!Interrupted, Fresh, Back, Lifted, Placed, Committed, P!stores,
               Agrees
      <3> QED
        BY <1>1, <1>4, <1>6, <2>9, <3>1 DEF Shows, Mine
    <2> QED
      BY <1>6, <2>7, <2>8, <2>9 DEF Kept, Ended
  <1> QED
    BY <1>1, <1>2, <1>3, StepAgrees DEF Mine

-----------------------------------------------------------------------------
(* The chain of revisions *)

\* A patch applied to the present revision adds a revision to the chain.
LEMMA CommitChains ==
  ASSUME P!PSAssumption, Typed, Chained, NEW o \in Patches,
         p_row = p_expected[o], o \notin p_proof,
         p_row' = o, p_proof' = p_proof \cup {o}, p_expected' = p_expected
  PROVE  Chained'
  <1>1. o # Base /\ p_expected[o] # o
    BY NamesApart
  <1>2. p_row' \in p_proof' \cup {Base}
    OBVIOUS
  <1>3. \A q \in p_proof' : p_expected'[q] # p_row' /\ p_expected'[q] \in p_proof' \cup {Base}
    BY <1>1 DEF Chained
  <1>4. P!OneOfARevision'
    BY DEF Chained, P!OneOfARevision
  <1> QED
    BY <1>2, <1>3, <1>4 DEF Chained

\* Nothing else changes the chain.
LEMMA StillChained ==
  ASSUME Chained, UNCHANGED <<p_row, p_proof, p_expected>>
  PROVE  Chained'
  BY DEF Chained, P!OneOfARevision

\* The three outcomes of the transaction.
LEMMA CommitsChain ==
  ASSUME P!PSAssumption, Typed, Kept, Chained, NEW o \in Patches,
         P!Commit(o) \/ P!CommitRaises(o) \/ P!CommitUnknown(o)
  PROVE  Chained'
  <1>1. o \notin p_proof
    BY DEF P!Commit, P!CommitRaises, P!CommitUnknown, P!At, Kept, Undecided
  <1>2. \/ p_row = p_expected[o] /\ p_row' = o /\ p_proof' = p_proof \cup {o} /\ p_expected' = p_expected
        \/ UNCHANGED <<p_row, p_proof, p_expected>>
    BY DEF P!Commit, P!CommitRaises, P!CommitUnknown
  <1> QED
    BY <1>1, <1>2, CommitChains, StillChained

-----------------------------------------------------------------------------
(* The user and crashes *)

\* An edit names a version of its own.
LEMMA UserWritesTyped ==
  ASSUME P!PSAssumption, Typed, P!UserWrites
  PROVE  Typed'
  BY DEF P!PSAssumption, Typed, P!UserWrites, P!Files, P!Versions

\* A crash ends the call and forgets which records were reported.
LEMMA CrashTyped ==
  ASSUME P!PSAssumption, Typed, P!Crash
  PROVE  Typed'
  BY DEF P!PSAssumption, Typed, P!Crash, P!stores

\* Neither touches a slot, a record or a proof.
LEMMA OutsideKeeps ==
  ASSUME Typed, Kept, P!UserWrites \/ P!Crash
  PROVE  Kept'
  <1>1. CASE P!UserWrites
    BY <1>1 DEF P!UserWrites, Kept, P!CommitsAreProved
  <1>2. CASE P!Crash
    BY <1>2 DEF P!Crash, P!Idle, P!stores, Kept, P!CommitsAreProved, Undecided, Quarantined, Ended
  <1> QED
    BY <1>1, <1>2

\* After an edit nothing is claimed; after a crash the record says what was.
LEMMA OutsideAgrees ==
  ASSUME Typed, Agrees, P!UserWrites \/ P!Crash
  PROVE  Agrees'
  <1>1. CASE P!UserWrites
    BY <1>1 DEF P!UserWrites, Typed, Agrees
  <1>2. CASE P!Crash
    <2>1. /\ p_run' = P!Idle /\ p_blocked' = {} /\ p_count'.edits = p_count.edits
          /\ UNCHANGED <<p_primary, p_slot, p_row, p_proof, p_journal, p_expected>>
      BY <1>2 DEF P!Crash, Typed, P!stores
    <2>2. \A o \in Patches : (P!Interrupted(o)' <=> P!Interrupted(o))
      BY <2>1 DEF P!Interrupted
    <2>3. \A o \in Patches : Told(o, p_journal[o].cp)' <=> Told(o, p_journal[o].cp)
      BY <2>1 DEF Told, Fresh, Back, Lifted, Placed, Committed
    <2> QED
      BY <2>1, <2>2, <2>3 DEF Agrees
  <1> QED
    BY <1>1, <1>2

-----------------------------------------------------------------------------
(* The whole specification *)

\* The inductive invariant of every instance.
Safe == Typed /\ Kept /\ Chained

\* It is safe at the start.
LEMMA InitSafe ==
  ASSUME P!PSAssumption, P!Init
  PROVE  Safe
  <1>1. Typed
    <2>1. P!NoRecord \in Records
      BY DEF P!NoRecord, Records, Statuses, P!Checkpoints
    <2> QED
      BY <2>1 DEF P!Init, Typed, P!Files
  <1>2. Kept
    BY DEF P!Init, P!Idle, P!NoRecord, Kept, P!CommitsAreProved, Undecided, Quarantined, Ended
  <1>3. Chained
    BY DEF P!Init, Chained, P!OneOfARevision
  <1> QED
    BY <1>1, <1>2, <1>3 DEF Safe

\* The stores agree at the start.
LEMMA InitAgrees ==
  ASSUME P!PSAssumption, P!Init
  PROVE  Agrees
  BY DEF P!Init, P!Idle, P!NoRecord, Agrees, P!Interrupted

\* Every step keeps it safe, whatever fails and whoever drains.
LEMMA StepSafe ==
  ASSUME P!PSAssumption, Safe, [P!Next]_(P!vars)
  PROVE  Safe'
  <1> USE DEF Safe
  <1>1. ASSUME NEW o \in Patches, P!Start(o) \/ P!Runs(o) \/ P!Recovers(o)
        PROVE  Safe'
    <2>1. Typed'
      BY <1>1, StartTyped, PlanTyped, PlanUnrecordedTyped, QuarantineTyped,
               QuarantineStuckTyped, RecordQuarantineTyped, PublishTyped,
               PublishUnverifiedTyped, RecordPrimaryTyped, CommitTyped,
               CommitRaisesTyped, CommitUnknownTyped, RecordCompensatingTyped,
               RecordFailsTyped, UndoTyped, RestoreTyped, RecordIndexTyped,
               RecordIndexFailsTyped, PurgeTyped, PurgeFailsTyped, FinishTyped,
               FinishFailsTyped, ResolveTyped, RecoverUndoTyped, RecoverRestoreTyped,
               RecoverWriteTyped
         DEF P!Runs, P!Recovers
    <2>2. Kept'
      BY <1>1, StartKeeps, PlanKeeps, PlanUnrecordedKeeps, QuarantineKeeps,
               QuarantineStuckKeeps, RecordQuarantineKeeps, PublishKeeps,
               PublishUnverifiedKeeps, RecordPrimaryKeeps, CommitKeeps,
               CommitRaisesKeeps, CommitUnknownKeeps, RecordCompensatingKeeps,
               RecordFailsKeeps, UndoKeeps, RestoreKeeps, RecordIndexKeeps,
               RecordIndexFailsKeeps, PurgeKeeps, PurgeFailsKeeps, FinishKeeps,
               FinishFailsKeeps, ResolveKeeps, RecoverUndoKeeps, RecoverRestoreKeeps,
               RecoverWriteKeeps
         DEF P!Runs, P!Recovers
    <2>3. CASE P!Commit(o) \/ P!CommitRaises(o) \/ P!CommitUnknown(o)
      BY <2>1, <2>2, <2>3, CommitsChain
    <2>4. CASE ~ (P!Commit(o) \/ P!CommitRaises(o) \/ P!CommitUnknown(o))
      <3>1. UNCHANGED <<p_row, p_proof, p_expected>>
        BY <1>1, <2>4 DEF P!Runs, P!Recovers, P!stores, P!Start, P!Plan, P!PlanUnrecorded,
                          P!Quarantine, P!QuarantineStuck, P!RecordQuarantine, P!Publish,
                          P!PublishUnverified, P!RecordPrimary, P!RecordCompensating,
                          P!RecordFails, P!Undo, P!Restore, P!RecordIndex, P!RecordIndexFails,
                          P!Purge, P!PurgeFails, P!Finish, P!FinishFails, P!Resolve, P!RecoverUndo,
                          P!RecoverRestore, P!RecoverWrite
      <3> QED
        BY <2>1, <2>2, <3>1, StillChained
    <2> QED
      BY <2>3, <2>4
  <1>2. CASE P!UserWrites \/ P!Crash
    <2>1. Typed' /\ Kept'
      BY <1>2, UserWritesTyped, CrashTyped, OutsideKeeps
    <2>2. UNCHANGED <<p_row, p_proof, p_expected>>
      BY <1>2 DEF P!UserWrites, P!Crash, P!stores
    <2> QED
      BY <2>1, <2>2, StillChained
  <1>3. CASE UNCHANGED P!vars
    <2>1. Typed'
      BY <1>3 DEF P!vars, Typed
    <2>2. Kept'
      BY <1>3 DEF P!vars, Kept, P!CommitsAreProved
    <2> QED
      BY <1>3, <2>1, <2>2, StillChained DEF P!vars
  <1> QED
    BY <1>1, <1>2, <1>3 DEF P!Next

\* The stores go on to agree where the kinds of failure permit it.
LEMMA AllAgree ==
  ASSUME P!PSAssumption, ~ Peers, "moved" \notin Faults, Safe, Agrees, [P!Next]_(P!vars)
  PROVE  Agrees'
  <1> USE DEF Safe
  <1>1. ASSUME NEW o \in Patches, P!Start(o) \/ P!Runs(o) \/ P!Recovers(o)
        PROVE  Agrees'
    <2>1. ~ P!QuarantineStuck(o)
      BY DEF P!QuarantineStuck, P!Fault
    <2> QED
      BY <1>1, <2>1, StartAgrees, PlanAgrees, PlanUnrecordedAgrees, QuarantineAgrees,
                     RecordQuarantineAgrees, PublishAgrees, PublishUnverifiedAgrees,
                     RecordPrimaryAgrees, CommitAgrees, CommitRaisesAgrees,
                     CommitUnknownAgrees, RecordCompensatingAgrees, RecordFailsAgrees,
                     UndoAgrees, RestoreAgrees, RecordIndexAgrees,
                     RecordIndexFailsAgrees, PurgeAgrees, PurgeFailsAgrees,
                     FinishAgrees, FinishFailsAgrees, ResolveAgrees, RecoverUndoAgrees,
                     RecoverRestoreAgrees, RecoverWriteAgrees
         DEF P!Runs, P!Recovers
  <1>2. CASE P!UserWrites \/ P!Crash
    BY <1>2, OutsideAgrees
  <1>3. CASE UNCHANGED P!vars
    <2>1. UNCHANGED <<p_primary, p_slot, p_row, p_proof, p_journal, p_run, p_blocked, p_expected, p_count>>
      BY <1>3 DEF P!vars
    <2>2. \A o \in Patches :
            /\ P!Interrupted(o)' <=> P!Interrupted(o)
            /\ Told(o, p_journal[o].cp)' <=> Told(o, p_journal[o].cp)
            /\ Placed(o)' <=> Placed(o)
      BY <2>1 DEF P!Interrupted, Told, Fresh, Back, Lifted, Placed, Committed
    <2>3. Knows(p_run.op, p_run.at, p_run.status, p_journal[p_run.op].cp)'
            <=> Knows(p_run.op, p_run.at, p_run.status, p_journal[p_run.op].cp)
      BY <2>1 DEF Knows, Fresh, Back, Lifted, Placed, Committed
    <2>4. P!Interrupted(p_run.op)' <=> P!Interrupted(p_run.op)
      BY <2>1 DEF P!Interrupted
    <2> QED
      BY <2>1, <2>2, <2>3, <2>4 DEF Agrees, Typed
  <1> QED
    BY <1>1, <1>2, <1>3 DEF P!Next

\* The parts of PatchInv that hold of every instance.
LEMMA SafeShows ==
  ASSUME Safe
  PROVE  P!TypeOK /\ P!CommitsAreProved /\ P!OneOfARevision
  BY DEF Safe, Typed, Kept, Chained, P!TypeOK, Records, Statuses

\* And those that the agreement of the stores gives.
LEMMA AgreesShows ==
  ASSUME P!PSAssumption, Safe, Agrees
  PROVE  P!StoresAgreeAtRest /\ P!OnlyPublicationBlocks
  <1>1. p_row \notin P!Versions
    BY DEF P!PSAssumption, Safe, Typed, P!Versions
  <1>2. P!StoresAgreeAtRest
    BY <1>1 DEF Agrees, P!StoresAgreeAtRest, P!Rev
  <1>3. P!OnlyPublicationBlocks
    BY DEF Agrees, P!OnlyPublicationBlocks, Placed, Safe, Typed
  <1> QED
    BY <1>2, <1>3

\* In every instance, whatever fails, whoever drains and whatever the user
\* writes: an applied patch has its proof and is the only one of its revision.
THEOREM SafeHolds ==
  ASSUME P!PSAssumption
  PROVE  P!Spec => [](P!TypeOK /\ P!CommitsAreProved /\ P!OneOfARevision)
  <1>1. P!Init => Safe
    BY InitSafe
  <1>2. Safe /\ [P!Next]_(P!vars) => Safe'
    BY StepSafe
  <1>3. Safe => P!TypeOK /\ P!CommitsAreProved /\ P!OneOfARevision
    BY SafeShows
  <1> QED
    BY <1>1, <1>2, <1>3, PTL DEF P!Spec

\* Where Q1' waits for blocked records and a failed move is moved back, the
\* records, the proofs and the stores agree as PatchInv says.
THEOREM PatchInvHolds ==
  ASSUME P!PSAssumption, ~ Peers, "moved" \notin Faults
  PROVE  P!Spec => []P!PatchInv
  <1>1. P!Init => Safe /\ Agrees
    BY InitSafe, InitAgrees
  <1>2. Safe /\ Agrees /\ [P!Next]_(P!vars) => (Safe /\ Agrees)'
    BY StepSafe, AllAgree
  <1>3. Safe /\ Agrees => P!PatchInv
    BY SafeShows, AgreesShows DEF P!PatchInv
  <1> QED
    BY <1>1, <1>2, <1>3, PTL DEF P!Spec

-----------------------------------------------------------------------------
(* No file is lost *)

\* What every step does with the file at the path and those in the slots.
Moves ==
  /\ p_primary # None /\ p_primary' # p_primary =>
       \/ p_count'.edits # p_count.edits
       \/ \E o \in Patches : \/ p_slot[o] = None /\ p_slot'[o] = p_primary
                             \/ /\ p_primary = o /\ o \notin p_proof
                                /\ p_slot[o] \notin {None, o}
  /\ \A o \in Patches :
       p_slot[o] # None /\ p_slot'[o] = None => p_primary' = p_slot[o] \/ o \in p_proof

\* A step that leaves path and slots alone moves nothing.
LEMMA StillMoves ==
  ASSUME UNCHANGED <<p_primary, p_slot>>
  PROVE  Moves
  BY DEF Moves

\* A file goes into an empty slot.
LEMMA QuarantineMoves ==
  ASSUME P!PSAssumption, Safe, NEW o \in Patches, P!Quarantine(o) \/ P!QuarantineStuck(o)
  PROVE  Moves
  BY DEF Safe, Typed, P!Quarantine, P!QuarantineStuck, Moves

\* A patched file is published over nothing.
LEMMA PublishMoves ==
  ASSUME P!PSAssumption, Safe, NEW o \in Patches, P!Publish(o) \/ P!PublishUnverified(o)
  PROVE  Moves
  BY DEF Safe, Typed, P!Publish, P!PublishUnverified, Moves

\* What is taken back is the unproved publication; the old file is in the slot.
LEMMA UndoMoves ==
  ASSUME P!PSAssumption, Safe, NEW o \in Patches, P!Undo(o) \/ P!RecoverUndo(o)
  PROVE  Moves
  <1>1. o \notin p_proof /\ p_slot[o] \notin {None, o}
    BY NamesApart DEF Safe, Kept, P!Undo, P!RecoverUndo, P!At, Undecided, Quarantined
  <1>2. UNCHANGED p_slot /\ (p_primary' # p_primary => p_primary = o)
    BY DEF P!Undo, P!RecoverUndo
  <1> QED
    BY <1>1, <1>2 DEF Moves

\* The old file goes back over nothing.
LEMMA RestoreMoves ==
  ASSUME P!PSAssumption, Safe, NEW o \in Patches, P!Restore(o) \/ P!RecoverRestore(o)
  PROVE  Moves
  BY DEF Safe, Typed, P!Restore, P!RecoverRestore, Moves

\* A slot is emptied of the old file once the patch is proved.
LEMMA PurgeMoves ==
  ASSUME P!PSAssumption, Safe, NEW o \in Patches, P!Purge(o)
  PROVE  Moves
  <1>1. o \in p_proof
    BY DEF Safe, Kept, P!Purge, P!At
  <1>2. p_primary' = p_primary /\ \A q \in Patches \ {o} : p_slot'[q] = p_slot[q]
    BY DEF P!Purge, Safe, Typed
  <1> QED
    BY <1>1, <1>2 DEF Moves

\* No step of a call, of recovery, of the user or of a crash loses a file.
LEMMA NextMoves ==
  ASSUME P!PSAssumption, Safe, [P!Next]_(P!vars)
  PROVE  Moves
  <1>1. ASSUME NEW o \in Patches, P!Start(o) \/ P!Runs(o) \/ P!Recovers(o)
        PROVE  Moves
    <2>1. CASE \/ P!Quarantine(o) \/ P!QuarantineStuck(o) \/ P!Publish(o)
               \/ P!PublishUnverified(o) \/ P!Undo(o) \/ P!RecoverUndo(o)
               \/ P!Restore(o) \/ P!RecoverRestore(o) \/ P!Purge(o)
      BY <2>1, QuarantineMoves, PublishMoves, UndoMoves, RestoreMoves, PurgeMoves
    <2>2. CASE ~ (\/ P!Quarantine(o) \/ P!QuarantineStuck(o) \/ P!Publish(o)
                  \/ P!PublishUnverified(o) \/ P!Undo(o) \/ P!RecoverUndo(o)
                  \/ P!Restore(o) \/ P!RecoverRestore(o) \/ P!Purge(o))
      <3>1. UNCHANGED <<p_primary, p_slot>>
        BY <1>1, <2>2 DEF P!Runs, P!Recovers, P!stores, P!Start, P!Plan, P!PlanUnrecorded,
                          P!RecordQuarantine, P!RecordPrimary, P!Commit, P!CommitRaises,
                          P!CommitUnknown, P!RecordCompensating, P!RecordFails, P!RecordIndex,
                          P!RecordIndexFails, P!PurgeFails, P!Finish, P!FinishFails, P!Resolve,
                          P!RecoverWrite
      <3> QED
        BY <3>1, StillMoves
    <2> QED
      BY <2>1, <2>2
  <1>2. CASE P!UserWrites
    BY <1>2 DEF P!UserWrites, Moves, Safe, Typed
  <1>3. CASE P!Crash \/ UNCHANGED P!vars
    BY <1>3, StillMoves DEF P!Crash, P!vars, P!stores
  <1> QED
    BY <1>1, <1>2, <1>3 DEF P!Next

\* In every instance, the file at the path goes away only into an empty slot,
\* by the hand of the user or as an unproved publication whose old file waits
\* in the slot, and a slot lets go of its file only back to the path or once
\* the patch is proved.
THEOREM FilesAreKeptHolds ==
  ASSUME P!PSAssumption
  PROVE  P!Spec => P!FilesAreKept
  <1>1. P!Init => Safe
    BY InitSafe
  <1>2. Safe /\ [P!Next]_(P!vars) => Safe'
    BY StepSafe
  <1>3. Safe /\ [P!Next]_(P!vars) => Moves
    BY NextMoves
  <1>4. Moves => /\ p_primary # None /\ p_primary' # p_primary =>
                      \/ p_count'.edits # p_count.edits
                      \/ \E o \in Patches : \/ p_slot[o] = None /\ p_slot'[o] = p_primary
                                            \/ /\ p_primary = o /\ o \notin p_proof
                                               /\ p_slot[o] \notin {None, o}
                 /\ \A o \in Patches :
                      p_slot[o] # None /\ p_slot'[o] = None => p_primary' = p_slot[o] \/ o \in p_proof
    BY DEF Moves
  <1> QED
    BY <1>1, <1>2, <1>3, <1>4, PTL
    DEF P!Spec, P!FilesAreKept, P!NoFileIsLost, P!OldPrimaryIsKept
=============================================================================
