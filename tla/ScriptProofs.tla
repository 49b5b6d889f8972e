----------------------------- MODULE ScriptProofs -----------------------------
(***************************************************************************)
(* Theorems about what the scripts under scripts/ make.  First the         *)
(* development vault, for any names, calls, edits, deaths and failures;    *)
(* then the release candidate, for any commits, builds, disturbances and   *)
(* deaths.                                                                 *)
(***************************************************************************)
EXTENDS DevVault, TLAPS


\* The types.
Texts == {"seed", "edited", "new", "torn"}
FileRecs == [text : Texts, related : Nat]
MapsTo(T) == UNION {[S -> T] : S \in SUBSET Names}
RowMaps == MapsTo(Texts)
FileMaps == MapsTo(FileRecs)
Manifests == [count : Int, seed : Nat]
Roots == [here : BOOLEAN, id : Nat \ {0}, safe : BOOLEAN, dirs : SUBSET Dirs, db : BOOLEAN,
          rows : RowMaps, files : FileMaps, manifest : Manifests]
Making == {"make", "dirs", "migrate"}
Seeding == {"entries", "row"}
Marking == {"health", "mark"}
RunSteps == {"idle", "gate", "check", "look", "validate", "clean", "wipe", "relate", "verify", "unmark"}
            \cup Making \cup Seeding \cup Marking
Replies == {"none", "rejected", "error", "checked", "invalid", "up_to_date", "rebuilt"}
Scripts == [at : RunSteps, mode : {"plain", "force", "check"}, count : Nat, seed : Nat, id : Nat,
            todo : SUBSET (Dirs \cup {"manifest"}), mine : Seq(Names), reply : Replies]
Counters == [runs : Nat, edits : Nat, crashes : Nat, failures : Nat]
VaultTyped ==
  /\ root \in Roots /\ run \in Scripts /\ quiet \in BOOLEAN
  /\ count \in Counters

\* An entry of the seed that nobody has changed.
Seeded(n) ==
  /\ n \in DOMAIN root.rows /\ n \in DOMAIN root.files
  /\ root.rows[n] = "seed" /\ root.files[n].text = "seed"

\* A database is in its directory, and a marked directory is there with the
\* untouched documents related by the seed of the mark.
RootFits ==
  /\ ~ root.db => root.rows = <<>>
  /\ root.db => "db" \in root.dirs
  /\ root.manifest # NoManifest => root.here
  /\ root.manifest # NoManifest /\ root.manifest.count > 1 =>
       \A n \in Names : Seeded(n) => root.files[n].related = root.manifest.seed

\* A run has one directory at a time, and a reply only at its end.
RunFits ==
  /\ run.id <= root.id
  /\ run.at # "idle" => run.reply = "none"
  /\ run.at = "check" /\ run.id = 0 /\ quiet => ~ root.here

\* What the run has removed stays away until it makes it anew; the mark last.
WipeKnows ==
  /\ run.at = "wipe" /\ SameRoot =>
       /\ root.db => "db" \in run.todo
       /\ root.manifest # NoManifest => "manifest" \in run.todo
  /\ run.at \in Making => ~ root.db
  /\ run.at \in Making \cup Seeding \cup {"relate"} \cup Marking => root.manifest = NoManifest
  /\ run.at = "migrate" /\ SameRoot => "db" \in root.dirs

\* The rows of the seed are the run's own, and are related before the mark.
SeedKnows ==
  /\ run.at \in Seeding =>
       \A n \in DOMAIN root.rows : root.rows[n] = "seed" => \E i \in DOMAIN run.mine : run.mine[i] = n
  /\ run.at = "row" => run.mine # <<>>
  /\ run.at = "relate" =>
       \A n \in Names : Seeded(n) => \/ \E i \in DOMAIN run.mine : run.mine[i] = n
                                     \/ root.files[n].related = run.seed
  /\ run.at \in Marking /\ run.count > 1 =>
       \A n \in Names : Seeded(n) => root.files[n].related = run.seed
  /\ run.at = "verify" /\ root.manifest # NoManifest =>
       root.manifest = [count |-> run.count, seed |-> run.seed]

\* The inductive invariant of the rebuild.
VaultKnows == VaultTyped /\ RootFits /\ RunFits /\ WipeKnows /\ SeedKnows /\ VaultIsWhole

-----------------------------------------------------------------------------
(* Rows and files *)

\* A map over names: what it is made of, and when a function is one.
LEMMA MapIs ==
  ASSUME NEW T
  PROVE  /\ \A f \in MapsTo(T) : DOMAIN f \subseteq Names /\ \A m \in DOMAIN f : f[m] \in T
         /\ \A f \in MapsTo(T) : f \in [DOMAIN f -> T]
         /\ \A S \in SUBSET Names : [S -> T] \subseteq MapsTo(T)
         /\ <<>> \in MapsTo(T) /\ DOMAIN <<>> = {}
         /\ \A f \in MapsTo(T) : DOMAIN f = {} => f = <<>>
  <1>1. \A f \in MapsTo(T) : \E S \in SUBSET Names : f \in [S -> T]
    BY DEF MapsTo
  <1>2. \A S \in SUBSET Names : [S -> T] \subseteq MapsTo(T)
    BY DEF MapsTo
  <1>3. <<>> \in [{} -> T] /\ DOMAIN <<>> = {}
    OBVIOUS
  <1>4. \A f \in [{} -> T] : f = <<>>
    BY <1>3
  <1> QED
    BY <1>1, <1>2, <1>3, <1>4

\* Rows that get one more.
LEMMA RowGets ==
  ASSUME NEW f \in RowMaps, NEW n \in Names, NEW v \in Texts
  PROVE  /\ With(f, n, v) \in RowMaps
         /\ DOMAIN With(f, n, v) = DOMAIN f \cup {n}
         /\ With(f, n, v)[n] = v
         /\ \A m \in DOMAIN f : m # n => With(f, n, v)[m] = f[m]
  <1>1. DOMAIN f \subseteq Names /\ \A m \in DOMAIN f : f[m] \in Texts
    BY MapIs DEF RowMaps
  <1>2. With(f, n, v) \in [DOMAIN f \cup {n} -> Texts] /\ With(f, n, v)[n] = v
        /\ \A m \in DOMAIN f : m # n => With(f, n, v)[m] = f[m]
    BY <1>1 DEF With
  <1>3. DOMAIN f \cup {n} \in SUBSET Names
    BY <1>1
  <1>4. With(f, n, v) \in RowMaps
    BY <1>2, <1>3, MapIs DEF RowMaps
  <1> QED
    BY <1>2, <1>4

\* Files that get one more.
LEMMA FileGets ==
  ASSUME NEW f \in FileMaps, NEW n \in Names, NEW v \in FileRecs
  PROVE  /\ With(f, n, v) \in FileMaps
         /\ DOMAIN With(f, n, v) = DOMAIN f \cup {n}
         /\ With(f, n, v)[n] = v
         /\ \A m \in DOMAIN f : m # n => With(f, n, v)[m] = f[m]
  <1>1. DOMAIN f \subseteq Names /\ \A m \in DOMAIN f : f[m] \in FileRecs
    BY MapIs DEF FileMaps
  <1>2. With(f, n, v) \in [DOMAIN f \cup {n} -> FileRecs] /\ With(f, n, v)[n] = v
        /\ \A m \in DOMAIN f : m # n => With(f, n, v)[m] = f[m]
    BY <1>1 DEF With
  <1>3. DOMAIN f \cup {n} \in SUBSET Names
    BY <1>1
  <1>4. With(f, n, v) \in FileMaps
    BY <1>2, <1>3, MapIs DEF FileMaps
  <1> QED
    BY <1>2, <1>4

\* Rows that lose one.
LEMMA RowLoses ==
  ASSUME NEW f \in RowMaps, NEW n
  PROVE  /\ Restrict(f, DOMAIN f \ {n}) \in RowMaps
         /\ DOMAIN Restrict(f, DOMAIN f \ {n}) = DOMAIN f \ {n}
         /\ \A m \in DOMAIN f : m # n => Restrict(f, DOMAIN f \ {n})[m] = f[m]
  <1>1. DOMAIN f \subseteq Names /\ \A m \in DOMAIN f : f[m] \in Texts
    BY MapIs DEF RowMaps
  <1>2. Restrict(f, DOMAIN f \ {n}) \in [DOMAIN f \ {n} -> Texts]
        /\ \A m \in DOMAIN f : m # n => Restrict(f, DOMAIN f \ {n})[m] = f[m]
    BY <1>1 DEF Restrict
  <1>3. DOMAIN f \ {n} \in SUBSET Names
    BY <1>1
  <1>4. Restrict(f, DOMAIN f \ {n}) \in RowMaps
    BY <1>2, <1>3, MapIs DEF RowMaps
  <1> QED
    BY <1>2, <1>4

\* Files that lose one.
LEMMA FileLoses ==
  ASSUME NEW f \in FileMaps, NEW n
  PROVE  /\ Restrict(f, DOMAIN f \ {n}) \in FileMaps
         /\ DOMAIN Restrict(f, DOMAIN f \ {n}) = DOMAIN f \ {n}
         /\ \A m \in DOMAIN f : m # n => Restrict(f, DOMAIN f \ {n})[m] = f[m]
  <1>1. DOMAIN f \subseteq Names /\ \A m \in DOMAIN f : f[m] \in FileRecs
    BY MapIs DEF FileMaps
  <1>2. Restrict(f, DOMAIN f \ {n}) \in [DOMAIN f \ {n} -> FileRecs]
        /\ \A m \in DOMAIN f : m # n => Restrict(f, DOMAIN f \ {n})[m] = f[m]
    BY <1>1 DEF Restrict
  <1>3. DOMAIN f \ {n} \in SUBSET Names
    BY <1>1
  <1>4. Restrict(f, DOMAIN f \ {n}) \in FileMaps
    BY <1>2, <1>3, MapIs DEF FileMaps
  <1> QED
    BY <1>2, <1>4

\* A map with a changed entry.
LEMMA MapChanges ==
  ASSUME NEW T, NEW f \in MapsTo(T), NEW n \in DOMAIN f, NEW v \in T
  PROVE  /\ [f EXCEPT ![n] = v] \in MapsTo(T) /\ DOMAIN [f EXCEPT ![n] = v] = DOMAIN f
         /\ [f EXCEPT ![n] = v][n] = v
         /\ \A m \in DOMAIN f : m # n => [f EXCEPT ![n] = v][m] = f[m]
  <1>1. DOMAIN f \in SUBSET Names /\ f \in [DOMAIN f -> T]
    BY MapIs
  <1>2. [f EXCEPT ![n] = v] \in [DOMAIN f -> T]
    BY <1>1
  <1>3. [f EXCEPT ![n] = v] \in MapsTo(T)
    BY <1>1, <1>2, MapIs
  <1> QED
    BY <1>1, <1>3

\* A missing directory is typed.
LEMMA NoRootTyped ==
  /\ NoManifest \in Manifests /\ <<>> \in RowMaps /\ <<>> \in FileMaps /\ DOMAIN <<>> = {}
  /\ NoRoot \in Roots
  <1>3. <<>> \in RowMaps /\ DOMAIN <<>> = {}
    BY MapIs DEF RowMaps
  <1>4. <<>> \in FileMaps
    BY MapIs DEF FileMaps
  <1>5. NoManifest \in Manifests
    BY DEF NoManifest, Manifests
  <1> QED
    BY <1>3, <1>4, <1>5 DEF NoRoot, Roots

-----------------------------------------------------------------------------
(* Somebody else *)

\* What an edit of the same directory may do: no mark and no document of the
\* seed appears.
EditFits ==
  /\ root'.id = root.id /\ root'.here = root.here /\ root'.dirs = root.dirs /\ root'.db = root.db
  /\ root'.manifest \in {root.manifest, NoManifest}
  /\ ~ root.db => root'.rows = root.rows
  /\ \A n \in DOMAIN root'.rows :
       root'.rows[n] = "seed" => n \in DOMAIN root.rows /\ root.rows[n] = "seed"
  /\ \A n \in Names : Seeded(n)' => Seeded(n) /\ root'.files[n].related = root.files[n].related

\* Another directory, or none, has taken the place.
Replaced ==
  /\ root'.id = root.id + 1 /\ ~ root'.db /\ root'.rows = <<>> /\ root'.manifest = NoManifest

\* Either way the run knows what it knew.
LEMMA EditKeeps ==
  ASSUME VaultKnows, root' \in Roots, EditFits \/ Replaced, run' = run, quiet' = FALSE,
         count' \in Counters
  PROVE  VaultKnows'
  <1> USE DEF VaultKnows
  <1>1. VaultTyped'
    BY DEF VaultTyped
  <1>2. VaultIsWhole'
    BY DEF VaultIsWhole
  <1>3. run.id \in Nat /\ root.id \in Nat
    BY DEF VaultTyped, Scripts, Roots
  <1>4. CASE Replaced
    <2>1. root'.id # run.id
      BY <1>3, <1>4 DEF RunFits, Replaced
    <2>2. \A n : ~ Seeded(n)'
      BY <1>4, NoRootTyped DEF Seeded, Replaced
    <2>3. RootFits' /\ RunFits'
      BY <1>3, <1>4, <2>1, <2>2 DEF RootFits, RunFits, Replaced
    <2>4. WipeKnows'
      BY <1>4, <2>1 DEF WipeKnows, Replaced, SameRoot
    <2>5. SeedKnows'
      BY <1>4, <2>2, NoRootTyped DEF SeedKnows, Replaced
    <2> QED
      BY <1>1, <1>2, <2>3, <2>4, <2>5
  <1>5. CASE EditFits
    <2>1. RootFits'
      BY <1>5 DEF RootFits, EditFits
    <2>2. RunFits'
      BY <1>5 DEF RunFits, EditFits
    <2>3. WipeKnows'
      BY <1>5 DEF WipeKnows, EditFits, SameRoot
    <2>4. SeedKnows'
      BY <1>5 DEF SeedKnows, EditFits
    <2> QED
      BY <1>1, <1>2, <2>1, <2>2, <2>3, <2>4
  <1> QED
    BY <1>4, <1>5

\* The rows and files of an edit, of the same directory.
LEMMA EditsFit ==
  ASSUME VaultTyped, NEW rows, NEW files,
         root'.id = root.id, root'.here <=> root.here, root'.dirs = root.dirs, root'.db <=> root.db,
         root' \in Roots, root'.rows = rows, root'.files = files, root'.manifest \in {root.manifest, NoManifest},
         root.db \/ rows = root.rows,
         \A n \in DOMAIN rows : rows[n] = "seed" => n \in DOMAIN root.rows /\ root.rows[n] = "seed",
         \A n \in DOMAIN files : files[n].text = "seed" =>
           /\ n \in DOMAIN root.files /\ root.files[n].text = "seed"
           /\ files[n].related = root.files[n].related
  PROVE  EditFits
  <1>1. root'.here = root.here /\ root'.db = root.db
    BY DEF VaultTyped, Roots
  <1>2. \A n \in Names : Seeded(n)' => Seeded(n) /\ root'.files[n].related = root.files[n].related
    BY DEF Seeded
  <1> QED
    BY <1>1, <1>2 DEF EditFits

\* A directory with other rows, files, mark or links.
LEMMA RootsPut ==
  ASSUME root \in Roots, NEW rows \in RowMaps, NEW files \in FileMaps, NEW mark \in Manifests, NEW safe \in BOOLEAN,
         \/ /\ root' = [root EXCEPT !.rows = rows, !.files = files]
            /\ mark = root.manifest
         \/ /\ root' = [root EXCEPT !.files = files]
            /\ rows = root.rows /\ mark = root.manifest
         \/ /\ root' = [root EXCEPT !.manifest = mark]
            /\ rows = root.rows /\ files = root.files
         \/ /\ root' = [root EXCEPT !.safe = safe]
            /\ rows = root.rows /\ files = root.files /\ mark = root.manifest
  PROVE  /\ root' \in Roots /\ root'.rows = rows /\ root'.files = files /\ root'.manifest = mark
         /\ root'.id = root.id /\ (root'.here <=> root.here) /\ root'.dirs = root.dirs /\ (root'.db <=> root.db)
  BY DEF Roots

\* Every edit by somebody else leaves to the run what it knows.
LEMMA OthersKeep == VaultKnows /\ Others => VaultKnows'
  <1> SUFFICES ASSUME VaultKnows, Others PROVE VaultKnows'
    OBVIOUS
  <1>0. /\ VaultTyped /\ root \in Roots /\ root.rows \in RowMaps /\ root.files \in FileMaps
        /\ root.manifest \in Manifests /\ NoManifest \in Manifests /\ root.safe \in BOOLEAN
    BY NoRootTyped DEF VaultKnows, VaultTyped, Roots
  <1> DEFINE Done == run' = run /\ quiet' = FALSE
                     /\ count' \in Counters
             Fits == root' \in Roots /\ (EditFits \/ Replaced)
             Becomes(rows, files, mark) ==
               /\ root' \in Roots /\ root'.rows = rows /\ root'.files = files /\ root'.manifest = mark
               /\ root'.id = root.id /\ (root'.here <=> root.here) /\ root'.dirs = root.dirs
               /\ (root'.db <=> root.db)
  <1>1. \A to : Edited(to) => Done /\ root' = to
    BY <1>0 DEF Edited, VaultTyped, Counters
  <1>2. ASSUME NEW n \in Names, AppChanges(n) PROVE Done /\ Fits
    <2> DEFINE r == [root.rows EXCEPT ![n] = "edited"]
               f == [root.files EXCEPT ![n] = [root.files[n] EXCEPT !.text = "edited"]]
    <2>1. n \in DOMAIN root.rows /\ n \in DOMAIN root.files
          /\ Edited([root EXCEPT !.rows = r, !.files = f])
      BY <1>2 DEF AppChanges
    <2>2. [root.files[n] EXCEPT !.text = "edited"] \in FileRecs
          /\ [root.files[n] EXCEPT !.text = "edited"].text = "edited"
      <3>1. root.files[n] \in FileRecs
        BY <1>0, <2>1, MapIs DEF FileMaps
      <3> QED
        BY <3>1 DEF FileRecs, Texts
    <2>3. "edited" \in Texts
      BY DEF Texts
    <2>4. r \in RowMaps /\ DOMAIN r = DOMAIN root.rows /\ r[n] = "edited"
          /\ \A m \in DOMAIN root.rows : m # n => r[m] = root.rows[m]
      BY <1>0, <2>1, <2>3, MapChanges DEF RowMaps
    <2>5. f \in FileMaps /\ DOMAIN f = DOMAIN root.files /\ f[n].text = "edited"
          /\ \A m \in DOMAIN root.files : m # n => f[m] = root.files[m]
      BY <1>0, <2>1, <2>2, MapChanges DEF FileMaps
    <2> HIDE DEF r, f
    <2>6. root' = [root EXCEPT !.rows = r, !.files = f] /\ Done
      BY <1>1, <2>1
    <2>7. Becomes(r, f, root.manifest)
      BY <1>0, <2>4, <2>5, <2>6, RootsPut
    <2>8. root.db
      <3>1. root.rows # <<>>
        BY <2>1, NoRootTyped
      <3> QED
        BY <3>1 DEF VaultKnows, RootFits
    <2>a. \A m \in DOMAIN r : r[m] = "seed" => m \in DOMAIN root.rows /\ root.rows[m] = "seed"
      BY <2>4
    <2>b. \A m \in DOMAIN f : f[m].text = "seed" =>
            /\ m \in DOMAIN root.files /\ root.files[m].text = "seed"
            /\ f[m].related = root.files[m].related
      BY <2>5
    <2>9. EditFits
      BY ONLY <1>0, <2>7, <2>8, <2>a, <2>b, EditsFit
    <2> QED
      BY <2>6, <2>7, <2>9
  <1>3. ASSUME NEW n \in Names, AppAdds(n) PROVE Done /\ Fits
    <2> DEFINE x == [text |-> "new", related |-> 0]
               new == "new"
               r == With(root.rows, n, new)
               f == With(root.files, n, x)
    <2>1. n \notin DOMAIN root.rows /\ n \notin DOMAIN root.files /\ root.db
          /\ Edited([root EXCEPT !.rows = r, !.files = f])
      BY <1>3 DEF AppAdds
    <2>2. x \in FileRecs /\ x.text = new /\ new \in Texts /\ new # "seed"
      BY DEF FileRecs, Texts
    <2> HIDE DEF x, new
    <2>3. root.rows \in RowMaps /\ root.files \in FileMaps /\ n \in Names
      BY <1>0
    <2>4. r \in RowMaps /\ DOMAIN r = DOMAIN root.rows \cup {n} /\ r[n] = new
      <3>1. r \in RowMaps
        BY ONLY <2>2, <2>3, RowGets
      <3>2. DOMAIN r = DOMAIN root.rows \cup {n}
        BY DEF With
      <3>3. r[n] = new
        BY DEF With
      <3> QED
        BY <3>1, <3>2, <3>3
    <2>5. f \in FileMaps /\ DOMAIN f = DOMAIN root.files \cup {n} /\ f[n] = x
      <3>1. f \in FileMaps
        BY ONLY <2>2, <2>3, FileGets
      <3>2. DOMAIN f = DOMAIN root.files \cup {n}
        BY DEF With
      <3>3. f[n] = x
        BY DEF With
      <3> QED
        BY <3>1, <3>2, <3>3
    <2>c. \A m \in DOMAIN root.rows : m # n => r[m] = root.rows[m]
      BY DEF With
    <2>d. \A m \in DOMAIN root.files : m # n => f[m] = root.files[m]
      BY DEF With
    <2> HIDE DEF r, f
    <2>6. root' = [root EXCEPT !.rows = r, !.files = f] /\ Done
      BY <1>1, <2>1
    <2>7. Becomes(r, f, root.manifest)
      BY <1>0, <2>4, <2>5, <2>6, RootsPut
    <2>a. \A m \in DOMAIN r : r[m] = "seed" => m \in DOMAIN root.rows /\ root.rows[m] = "seed"
      BY <2>2, <2>4, <2>c
    <2>b. \A m \in DOMAIN f : f[m].text = "seed" =>
            /\ m \in DOMAIN root.files /\ root.files[m].text = "seed"
            /\ f[m].related = root.files[m].related
      BY <2>2, <2>5, <2>d
    <2>9. EditFits
      BY ONLY <1>0, <2>1, <2>7, <2>a, <2>b, EditsFit
    <2> QED
      BY <2>6, <2>7, <2>9
  <1>4. ASSUME NEW n \in Names, AppDeletes(n) \/ FileGoes(n) \/ FileChanges(n) PROVE Done /\ Fits
    <2> DEFINE r == Restrict(root.rows, DOMAIN root.rows \ {n})
               g == Restrict(root.files, DOMAIN root.files \ {n})
               y == [root.files[n] EXCEPT !.text = "edited"]
               f == [root.files EXCEPT ![n] = y]
    <2>1. n \in DOMAIN root.files
      BY <1>4 DEF AppDeletes, FileGoes, FileChanges
    <2>2. y \in FileRecs /\ y.text = "edited" /\ "edited" \in Texts
      <3>1. root.files[n] \in FileRecs
        BY <1>0, <2>1, MapIs DEF FileMaps
      <3> QED
        BY <3>1 DEF FileRecs, Texts
    <2>3. \/ n \in DOMAIN root.rows /\ Edited([root EXCEPT !.rows = r, !.files = g])
          \/ Edited([root EXCEPT !.files = g])
          \/ Edited([root EXCEPT !.files = f])
      BY <1>4 DEF AppDeletes, FileGoes, FileChanges
    <2> HIDE DEF y
    <2>4. r \in RowMaps /\ DOMAIN r = DOMAIN root.rows \ {n}
          /\ \A m \in DOMAIN root.rows : m # n => r[m] = root.rows[m]
      BY <1>0, RowLoses
    <2>5. g \in FileMaps /\ DOMAIN g = DOMAIN root.files \ {n}
          /\ \A m \in DOMAIN root.files : m # n => g[m] = root.files[m]
      BY <1>0, FileLoses
    <2>6. f \in FileMaps /\ DOMAIN f = DOMAIN root.files /\ f[n] = y
          /\ \A m \in DOMAIN root.files : m # n => f[m] = root.files[m]
      BY <1>0, <2>1, <2>2, MapChanges DEF FileMaps
    <2> HIDE DEF r, f, g
    <2>a. \A m \in DOMAIN r : r[m] = "seed" => m \in DOMAIN root.rows /\ root.rows[m] = "seed"
      BY <2>4
    <2>b. \A m \in DOMAIN g : g[m].text = "seed" =>
            /\ m \in DOMAIN root.files /\ root.files[m].text = "seed"
            /\ g[m].related = root.files[m].related
      BY <2>5
    <2>c. \A m \in DOMAIN f : f[m].text = "seed" =>
            /\ m \in DOMAIN root.files /\ root.files[m].text = "seed"
            /\ f[m].related = root.files[m].related
      BY <2>2, <2>6
    <2>7. CASE n \in DOMAIN root.rows /\ Edited([root EXCEPT !.rows = r, !.files = g])
      <3>1. root' = [root EXCEPT !.rows = r, !.files = g] /\ Done
        BY <1>1, <2>7
      <3>2. Becomes(r, g, root.manifest)
        BY <1>0, <2>4, <2>5, <2>6, <3>1, RootsPut
      <3>3. root.db
        <4>1. root.rows # <<>>
          BY <2>7, NoRootTyped
        <4> QED
          BY <4>1 DEF VaultKnows, RootFits
      <3>4. EditFits
        BY <1>0, <2>4, <2>5, <2>a, <2>b, <3>2, <3>3, EditsFit
      <3> QED
        BY <3>1, <3>2, <3>4
    <2>8. CASE Edited([root EXCEPT !.files = g])
      <3>1. root' = [root EXCEPT !.files = g] /\ Done
        BY <1>1, <2>8
      <3>2. Becomes(root.rows, g, root.manifest)
        BY <1>0, <2>4, <2>5, <2>6, <3>1, RootsPut
      <3>4. EditFits
        BY <1>0, <2>5, <2>b, <3>2, EditsFit
      <3> QED
        BY <3>1, <3>2, <3>4
    <2>9. CASE Edited([root EXCEPT !.files = f])
      <3>1. root' = [root EXCEPT !.files = f] /\ Done
        BY <1>1, <2>9
      <3>2. Becomes(root.rows, f, root.manifest)
        BY <1>0, <2>4, <2>5, <2>6, <3>1, RootsPut
      <3>4. EditFits
        BY <1>0, <2>6, <2>c, <3>2, EditsFit
      <3> QED
        BY <3>1, <3>2, <3>4
    <2> QED
      BY <2>3, <2>7, <2>8, <2>9
  <1>5. ASSUME MarkGoes PROVE Done /\ Fits
    <2>1. root' = [root EXCEPT !.manifest = NoManifest] /\ Done
      BY <1>1, <1>5 DEF MarkGoes
    <2>2. Becomes(root.rows, root.files, NoManifest)
      BY <1>0, <2>1, RootsPut
    <2>3. EditFits
      BY <1>0, <2>2, EditsFit
    <2> QED
      BY <2>1, <2>2, <2>3
  <1>6. ASSUME LinkMoves PROVE Done /\ Fits
    <2>1. root' = [root EXCEPT !.safe = ~ root.safe] /\ Done
      BY <1>1, <1>6 DEF LinkMoves
    <2>2. Becomes(root.rows, root.files, root.manifest)
      BY <1>0, <2>1, RootsPut
    <2>3. EditFits
      BY <1>0, <2>2, EditsFit
    <2> QED
      BY <2>1, <2>2, <2>3
  <1>7. ASSUME RootGoes \/ RootIsReplaced PROVE Done /\ Fits
    <2>1. root.id \in Nat
      BY <1>0 DEF Roots
    <2>2. \/ root' = [NoRoot EXCEPT !.id = root.id + 1] /\ Done
          \/ root' = [NoRoot EXCEPT !.here = TRUE, !.id = root.id + 1] /\ Done
      BY <1>1, <1>7 DEF RootGoes, RootIsReplaced
    <2>3. NoRoot \in Roots /\ NoRoot.db = FALSE /\ NoRoot.rows = <<>> /\ NoRoot.manifest = NoManifest
      BY NoRootTyped DEF NoRoot
    <2>4. root' = [NoRoot EXCEPT !.id = root.id + 1] \/ root' = [NoRoot EXCEPT !.here = TRUE, !.id = root.id + 1]
      BY <2>2
    <2> DEFINE i == root.id + 1
               gone == NoRoot
    <2>6. i \in Nat \ {0}
      BY <2>1
    <2> HIDE DEF i, gone
    <2>7. \/ root' = [gone EXCEPT !.id = i] 
          \/ root' = [gone EXCEPT !.here = TRUE, !.id = i]
      BY <2>4 DEF i, gone
    <2>8. gone \in Roots /\ gone.db = FALSE /\ gone.rows = <<>> /\ gone.manifest = NoManifest
      BY <2>3 DEF gone
    <2>9. root' \in Roots /\ root'.id = i /\ ~ root'.db /\ root'.rows = <<>> /\ root'.manifest = NoManifest
      BY ONLY <2>6, <2>7, <2>8 DEF Roots
    <2>5. root' \in Roots /\ Replaced
      BY <2>9 DEF i, Replaced
    <2> QED
      BY <2>2, <2>5
  <1>8. Done /\ Fits
    BY <1>2, <1>3, <1>4, <1>5, <1>6, <1>7 DEF Others
  <1> QED
    BY <1>8, EditKeeps

-----------------------------------------------------------------------------
(* The run *)

\* A run that ends leaves what is known of the vault.
LEMMA EndKeeps ==
  ASSUME VaultKnows, NEW reply \in Replies, End(reply), root' \in Roots, root'.id = root.id, RootFits',
         quiet' = quiet, count' \in Counters,
         reply \in {"rebuilt", "up_to_date", "checked"} /\ quiet =>
           Whole' /\ (reply # "checked" => Requested')
  PROVE  VaultKnows'
  <1>1. /\ run'.at = "idle" /\ run'.reply = reply /\ run'.id = 0 /\ run'.todo = {} /\ run'.mine = <<>>
        /\ run'.mode = run.mode /\ run'.count = run.count /\ run'.seed = run.seed /\ run' \in Scripts
    <2>1. run \in Scripts
      BY DEF VaultKnows, VaultTyped
    <2>2. run.mode \in {"plain", "force", "check"} /\ run.count \in Nat /\ run.seed \in Nat
      BY <2>1 DEF Scripts
    <2>3. <<>> \in Seq(Names)
      OBVIOUS
    <2> QED
      BY <2>2, <2>3 DEF End, Idle, Scripts, RunSteps
  <1>2. VaultTyped'
    BY <1>1 DEF VaultKnows, VaultTyped
  <1>3. RunFits'
    <2>1. root'.id \in Nat
      BY DEF Roots
    <2> QED
      BY <1>1, <2>1 DEF RunFits
  <1>4. WipeKnows' /\ SeedKnows'
    BY <1>1 DEF WipeKnows, SeedKnows, Making, Seeding, Marking
  <1>5. VaultIsWhole'
    BY <1>1 DEF VaultIsWhole
  <1> QED
    BY <1>2, <1>3, <1>4, <1>5 DEF VaultKnows

\* So does a step that fails with the directory as it was.
LEMMA FailKeeps ==
  ASSUME VaultKnows, NEW reply \in {"rejected", "error", "invalid"}, End(reply), root' = root,
         quiet' = quiet, count' = count \/ Fails
  PROVE  VaultKnows'
  <1>1. count' \in Counters
    BY DEF VaultKnows, VaultTyped, Counters, Fails
  <1>2. root' \in Roots /\ RootFits'
    BY DEF VaultKnows, VaultTyped, RootFits, Seeded
  <1>3. reply \in Replies
    BY DEF Replies
  <1> QED
    BY <1>1, <1>2, <1>3, EndKeeps

\* A run that goes on, with what it then has to know.
LEMMA GoesOn ==
  ASSUME VaultKnows, run' \in Scripts, run'.reply = "none", root' \in Roots, root'.id = root.id,
         run'.id <= root.id, RootFits', quiet' \in BOOLEAN, count' \in Counters, WipeKnows', SeedKnows',
         run'.at = "check" /\ run'.id = 0 /\ quiet' => ~ root'.here
  PROVE  VaultKnows'
  BY DEF VaultKnows, VaultTyped, RunFits, VaultIsWhole

\* A sound vault, with what is known of the directory, is whole.
LEMMA ValidIsWhole == VaultTyped /\ RootFits /\ root.here /\ root.safe /\ Valid => Whole
  <1> SUFFICES ASSUME VaultTyped, RootFits, root.here, root.safe, Valid PROVE Whole
    OBVIOUS
  <1>1. root.files \in FileMaps
    BY DEF VaultTyped, Roots
  <1>2. DOMAIN root.files \subseteq Names
    BY <1>1, MapIs DEF FileMaps
  <1>3. /\ root.manifest # NoManifest /\ root.db /\ Cardinality(DOMAIN root.rows) = root.manifest.count
        /\ root.dirs = Dirs /\ DOMAIN root.rows = DOMAIN root.files
        /\ \A n \in DOMAIN root.rows : root.rows[n] = root.files[n].text
    BY DEF Valid, Mirrors
  <1>4. ASSUME NEW n \in DOMAIN root.files, root.manifest.count > 1, root.files[n].text = "seed"
        PROVE  root.files[n].related = root.manifest.seed
    BY <1>2, <1>3, <1>4 DEF RootFits, Seeded
  <1> QED
    BY <1>3, <1>4 DEF Whole

\* The fields of a run, and of the directory.
LEMMA Fields ==
  ASSUME VaultKnows
  PROVE  /\ root \in Roots /\ root.id \in Nat \ {0} /\ root.rows \in RowMaps /\ root.files \in FileMaps
         /\ root.dirs \in SUBSET Dirs /\ root.manifest \in Manifests
         /\ run \in Scripts /\ run.at \in RunSteps /\ run.count \in Nat /\ run.seed \in Nat /\ run.id \in Nat
         /\ run.mine \in Seq(Names) /\ run.todo \in SUBSET (Dirs \cup {"manifest"})
         /\ run.id <= root.id
         /\ quiet \in BOOLEAN /\ count \in Counters
  BY DEF VaultKnows, VaultTyped, Roots, Scripts, RunFits

\* A run that only goes to another step.
LEMMA Goes ==
  ASSUME VaultKnows, NEW at \in RunSteps, Goto(at)
  PROVE  /\ run' \in Scripts /\ run'.at = at /\ run'.mode = run.mode /\ run'.count = run.count
         /\ run'.seed = run.seed /\ run'.id = run.id /\ run'.todo = run.todo /\ run'.mine = run.mine
         /\ run'.reply = run.reply
  BY Fields DEF Goto, Scripts

\* A call begins.
LEMMA StartKeeps ==
  ASSUME VaultKnows, NEW m \in {"plain", "force", "check"}, NEW n \in Nat, NEW s \in Nat, Start(m, n, s)
  PROVE  VaultKnows'
  <1>1. run' \in Scripts /\ run'.at = "gate" /\ run'.reply = "none" /\ run'.id = 0
    <2>1. <<>> \in Seq(Names)
      OBVIOUS
    <2> QED
      BY <2>1 DEF Start, Idle, Scripts, RunSteps, Replies
  <1>2. root' = root /\ quiet' = TRUE /\ count' \in Counters
    <2>1. count \in Counters /\ count' = [count EXCEPT !.runs = @ + 1] /\ root' = root /\ quiet' = TRUE
      BY Fields DEF Start
    <2> QED
      BY ONLY <2>1 DEF Counters
  <1>3. RootFits'
    BY <1>2 DEF RootFits, Seeded, VaultKnows
  <1>4. WipeKnows' /\ SeedKnows'
    BY <1>1 DEF WipeKnows, SeedKnows, Making, Seeding, Marking
  <1>5. root' \in Roots /\ root'.id = root.id /\ run'.id <= root.id
    BY <1>1, <1>2, Fields
  <1> QED
    BY <1>1, <1>2, <1>3, <1>4, <1>5, GoesOn

\* The scan and the identity of the directory.
LEMMA GateKeeps == ASSUME VaultKnows, Gate PROVE VaultKnows'
  <1>1. run.at = "gate" /\ quiet' = quiet /\ run.reply = "none"
    BY DEF Gate, Step, VaultKnows, RunFits
  <1>2. CASE End("rejected") /\ UNCHANGED <<root, count>>
    BY <1>1, <1>2, FailKeeps
  <1>3. CASE /\ run' = [run EXCEPT !.id = IF root.here THEN root.id ELSE 0,
                                   !.at = IF run.mode = "check" THEN "check" ELSE "look"]
             /\ UNCHANGED <<root, count>>
    <2>1. PICK i \in Nat : i = IF root.here THEN root.id ELSE 0
      BY Fields
    <2>2. PICK a \in {"check", "look"} : a = IF run.mode = "check" THEN "check" ELSE "look"
      OBVIOUS
    <2>3. run' = [run EXCEPT !.id = i, !.at = a]
      BY <1>3, <2>1, <2>2
    <2>4. run' \in Scripts /\ run'.reply = "none" /\ run'.id = i /\ run'.at = a
      BY ONLY <1>1, <2>3, i \in Nat, a \in {"check", "look"}, Fields, VaultKnows DEF Scripts, RunSteps
    <2>5. root' = root /\ count' = count
      BY <1>3
    <2>6. i <= root.id /\ (i = 0 => ~ root.here)
      BY <2>1, Fields
    <2>7. RootFits'
      BY <2>5 DEF RootFits, Seeded, VaultKnows
    <2>8. WipeKnows' /\ SeedKnows'
      BY <2>4 DEF WipeKnows, SeedKnows, Making, Seeding, Marking
    <2> QED
      BY <1>1, <2>4, <2>5, <2>6, <2>7, <2>8, GoesOn, Fields
  <1> QED
    BY <1>2, <1>3 DEF Gate, Step

\* The check of a vault, by itself ...
LEMMA CheckOnlyKeeps == ASSUME VaultKnows, CheckOnly PROVE VaultKnows'
  <1>1. run.at = "check" /\ quiet' = quiet
    BY DEF CheckOnly, Step
  <1>2. CASE End("rejected") /\ UNCHANGED <<root, count>>
    BY <1>1, <1>2, FailKeeps
  <1>3. CASE Fails /\ UNCHANGED root
    BY <1>1, <1>3, FailKeeps DEF Fails
  <1>4. CASE (run.id # 0 => Stable) /\ End(IF Valid THEN "checked" ELSE "invalid") /\ UNCHANGED <<root, count>>
    <2>1. CASE ~ Valid
      <3>1. End("invalid")
        BY <1>4, <2>1
      <3> QED
        BY <1>1, <1>4, <3>1, FailKeeps
    <2>2. CASE Valid
      <3>1. End("checked") /\ root' = root /\ count' = count
        BY <1>4, <2>2
      <3>2. ASSUME quiet PROVE Whole
        <4>1. root.manifest # NoManifest
          BY <2>2 DEF Valid
        <4>2. root.here
          BY <4>1 DEF VaultKnows, RootFits
        <4>3. run.id # 0
          BY <1>1, <3>2, <4>2 DEF VaultKnows, RunFits
        <4>4. root.safe
          BY <1>4, <4>3 DEF Stable
        <4> QED
          BY <2>2, <4>2, <4>4, ValidIsWhole DEF VaultKnows
      <3>3. quiet => Whole'
        BY <3>1, <3>2 DEF Whole
      <3>4. root' \in Roots /\ root'.id = root.id /\ RootFits' /\ count' \in Counters
        BY <3>1, Fields DEF RootFits, Seeded, VaultKnows
      <3>5. "checked" \in Replies
        BY DEF Replies
      <3> QED
        BY <1>1, <3>1, <3>3, <3>4, <3>5, EndKeeps
    <2> QED
      BY <2>1, <2>2
  <1> QED
    BY <1>2, <1>3, <1>4 DEF CheckOnly, Step

\* ... and of one that may be up to date.
LEMMA ValidateKeeps == ASSUME VaultKnows, Validate PROVE VaultKnows'
  <1>1. run.at = "validate" /\ quiet' = quiet
    BY DEF Validate, Step
  <1>2. CASE End("rejected") /\ UNCHANGED <<root, count>>
    BY <1>1, <1>2, FailKeeps
  <1>3. CASE Fails /\ UNCHANGED root
    BY <1>1, <1>3, FailKeeps DEF Fails
  <1>4. CASE Stable /\ End(IF Valid /\ Requested THEN "up_to_date" ELSE "invalid") /\ UNCHANGED <<root, count>>
    <2>1. CASE ~ (Valid /\ Requested)
      <3>1. End("invalid")
        BY <1>4, <2>1
      <3> QED
        BY <1>1, <1>4, <3>1, FailKeeps
    <2>2. CASE Valid /\ Requested
      <3>1. End("up_to_date") /\ root' = root /\ count' = count
        BY <1>4, <2>2
      <3>2. Whole
        BY <1>4, <2>2, ValidIsWhole DEF VaultKnows, Stable, SameRoot
      <3>3. Whole'
        BY <3>1, <3>2 DEF Whole
      <3>4. run'.count = run.count /\ run'.seed = run.seed
        BY <3>1 DEF End, Idle
      <3>5. Requested'
        BY <2>2, <3>1, <3>4 DEF Requested
      <3>6. root' \in Roots /\ root'.id = root.id /\ RootFits' /\ count' \in Counters
        BY <3>1, Fields DEF RootFits, Seeded, VaultKnows
      <3>7. "up_to_date" \in Replies
        BY DEF Replies
      <3> QED
        BY <1>1, <3>1, <3>3, <3>5, <3>6, <3>7, EndKeeps
    <2> QED
      BY <2>1, <2>2
  <1> QED
    BY <1>2, <1>3, <1>4 DEF Validate, Step

\* The content decides what the run does.
LEMMA LookKeeps == ASSUME VaultKnows, Look PROVE VaultKnows'
  <1>1. run.at = "look" /\ quiet' = quiet /\ run.reply = "none" /\ root' = root /\ count' = count
    BY DEF Look, Step, VaultKnows, RunFits
  <1>2. CASE End("rejected") \/ End("error")
    BY <1>1, <1>2, FailKeeps
  <1>3. ASSUME NEW at \in {"make", "clean", "validate"}, Goto(at), at = "make" => ~ HasContent
        PROVE  VaultKnows'
    <2>1. at \in RunSteps
      BY DEF RunSteps, Making
    <2>2. run' \in Scripts /\ run'.at = at /\ run'.id = run.id /\ run'.reply = "none"
      BY <1>1, <1>3, <2>1, Goes
    <2>3. RootFits'
      BY <1>1 DEF RootFits, Seeded, VaultKnows
    <2>4. at = "make" => ~ root.db /\ root.manifest = NoManifest
      BY <1>3 DEF HasContent
    <2>5. WipeKnows' /\ SeedKnows'
      BY <1>1, <2>2, <2>4 DEF WipeKnows, SeedKnows, Making, Seeding, Marking
    <2> QED
      BY <1>1, <2>2, <2>3, <2>5, GoesOn, Fields
  <1> QED
    BY <1>2, <1>3 DEF Look, Step

\* The children are listed.
LEMMA CleanKeeps == ASSUME VaultKnows, Clean PROVE VaultKnows'
  <1>1. run.at = "clean" /\ quiet' = quiet /\ run.reply = "none" /\ root' = root /\ count' = count
    BY DEF Clean, Step, VaultKnows, RunFits
  <1>2. CASE End("rejected")
    BY <1>1, <1>2, FailKeeps
  <1> DEFINE kids == root.dirs \cup IF root.manifest = NoManifest THEN {} ELSE {"manifest"}
  <1>3. CASE run' = [run EXCEPT !.at = "wipe", !.todo = kids]
    <2>1. kids \in SUBSET (Dirs \cup {"manifest"})
      BY Fields
    <2>2. /\ root.db => "db" \in kids
          /\ root.manifest # NoManifest => "manifest" \in kids
      BY DEF VaultKnows, RootFits
    <2> HIDE DEF kids
    <2>3. run' \in Scripts /\ run'.at = "wipe" /\ run'.id = run.id /\ run'.reply = "none" /\ run'.todo = kids
      BY <1>1, <1>3, <2>1, Fields DEF Scripts, RunSteps
    <2>4. RootFits'
      BY <1>1 DEF RootFits, Seeded, VaultKnows
    <2>5. WipeKnows' /\ SeedKnows'
      BY <1>1, <2>2, <2>3 DEF WipeKnows, SeedKnows, Making, Seeding, Marking
    <2> QED
      BY <1>1, <2>3, <2>4, <2>5, GoesOn, Fields
  <1> QED
    BY <1>2, <1>3 DEF Clean, Step

\* One child after the other goes.
LEMMA WipeKeeps == ASSUME VaultKnows, Wipe PROVE VaultKnows'
  <1>1. run.at = "wipe" /\ quiet' = quiet /\ run.reply = "none"
    BY DEF Wipe, Step, VaultKnows, RunFits
  <1>2. CASE End("rejected") /\ UNCHANGED <<root, count>>
    BY <1>1, <1>2, FailKeeps
  <1>3. CASE Fails /\ UNCHANGED root
    BY <1>1, <1>3, FailKeeps DEF Fails
  <1>4. CASE SameRoot /\ run.todo = {} /\ Goto("make") /\ UNCHANGED <<root, count>>
    <2>1. run' \in Scripts /\ run'.at = "make" /\ run'.id = run.id /\ run'.reply = "none"
      BY <1>1, <1>4, Goes DEF RunSteps, Making
    <2>2. RootFits'
      BY <1>4 DEF RootFits, Seeded, VaultKnows
    <2>3. ~ root.db /\ root.manifest = NoManifest
      BY <1>1, <1>4 DEF WipeKnows, VaultKnows
    <2>4. WipeKnows' /\ SeedKnows'
      BY <1>4, <2>1, <2>3 DEF WipeKnows, SeedKnows, Making, Seeding, Marking
    <2> QED
      BY <1>1, <1>4, <2>1, <2>2, <2>4, GoesOn, Fields
  <1>5. ASSUME SameRoot, NEW n \in DOMAIN root.files,
               root' = [root EXCEPT !.files = Restrict(@, DOMAIN @ \ {n})], UNCHANGED <<run, count>>
        PROVE  VaultKnows'
    <2> DEFINE f == Restrict(root.files, DOMAIN root.files \ {n})
    <2>1. f \in FileMaps /\ DOMAIN f = DOMAIN root.files \ {n}
          /\ \A m \in DOMAIN root.files : m # n => f[m] = root.files[m]
      BY Fields, FileLoses
    <2>2. root' = [root EXCEPT !.files = f]
      BY <1>5
    <2> HIDE DEF f
    <2>3. root' \in Roots /\ root'.files = f /\ root'.rows = root.rows /\ root'.id = root.id
          /\ root'.manifest = root.manifest /\ root'.dirs = root.dirs /\ (root'.db <=> root.db)
          /\ (root'.here <=> root.here)
      BY <2>1, <2>2, Fields DEF Roots
    <2>4. \A m \in Names : Seeded(m)' => Seeded(m) /\ root'.files[m] = root.files[m]
      BY <2>1, <2>3 DEF Seeded
    <2>5. RootFits'
      BY <2>3, <2>4 DEF RootFits, VaultKnows
    <2>6. WipeKnows' /\ SeedKnows'
      BY <1>1, <1>5, <2>3 DEF VaultKnows, WipeKnows, SeedKnows, Making, Seeding, Marking, SameRoot
    <2> QED
      BY <1>1, <1>5, <2>3, <2>5, <2>6, GoesOn, Fields
  <1>6. ASSUME SameRoot, NEW c \in run.todo,
               root' = CASE c = "manifest" -> [root EXCEPT !.manifest = NoManifest]
                         [] c = "db" -> [root EXCEPT !.db = FALSE, !.rows = <<>>, !.dirs = @ \ {c}]
                         [] OTHER -> [root EXCEPT !.dirs = @ \ {c}],
               run' = [run EXCEPT !.todo = @ \ {c}], UNCHANGED count
        PROVE  VaultKnows'
    <2>1. run' \in Scripts /\ run'.at = "wipe" /\ run'.id = run.id /\ run'.reply = "none"
          /\ run'.todo = run.todo \ {c}
      BY <1>1, <1>6, Fields DEF Scripts
    <2>2. /\ root' \in Roots /\ root'.id = root.id /\ root'.files = root.files /\ (root'.here <=> root.here)
          /\ root'.manifest = (IF c = "manifest" THEN NoManifest ELSE root.manifest)
          /\ (root'.db <=> root.db /\ c # "db")
          /\ root'.rows = (IF c = "db" THEN <<>> ELSE root.rows)
          /\ root'.dirs = (IF c = "manifest" THEN root.dirs ELSE root.dirs \ {c})
      <3> DEFINE dirs == root.dirs \ {c}
                 mark == NoManifest
                 rows == <<>>
      <3>1. dirs \in SUBSET Dirs /\ mark \in Manifests /\ rows \in RowMaps
        BY Fields, NoRootTyped
      <3>2. /\ c = "manifest" => root' = [root EXCEPT !.manifest = mark]
            /\ c = "db" => root' = [root EXCEPT !.db = FALSE, !.rows = rows, !.dirs = dirs]
            /\ c \notin {"manifest", "db"} => root' = [root EXCEPT !.dirs = dirs]
        BY <1>6
      <3> HIDE DEF dirs, mark, rows
      <3>3. CASE c = "manifest"
        <4>1. root' \in Roots /\ root'.id = root.id /\ root'.files = root.files /\ (root'.here <=> root.here)
              /\ root'.manifest = mark /\ (root'.db <=> root.db) /\ root'.rows = root.rows /\ root'.dirs = root.dirs
          BY ONLY <3>1, <3>2, <3>3, Fields, VaultKnows DEF Roots
        <4> QED
          BY <3>3, <4>1 DEF mark
      <3>4. CASE c = "db"
        <4>1. root' \in Roots /\ root'.id = root.id /\ root'.files = root.files /\ (root'.here <=> root.here)
              /\ root'.manifest = root.manifest /\ ~ root'.db /\ root'.rows = rows /\ root'.dirs = dirs
          BY ONLY <3>1, <3>2, <3>4, Fields, VaultKnows DEF Roots
        <4> QED
          BY <3>4, <4>1 DEF rows, dirs
      <3>5. CASE c \notin {"manifest", "db"}
        <4>1. root' \in Roots /\ root'.id = root.id /\ root'.files = root.files /\ (root'.here <=> root.here)
              /\ root'.manifest = root.manifest /\ (root'.db <=> root.db) /\ root'.rows = root.rows
              /\ root'.dirs = dirs
          BY ONLY <3>1, <3>2, <3>5, Fields, VaultKnows DEF Roots
        <4> QED
          BY <3>5, <4>1 DEF dirs
      <3> QED
        BY <3>3, <3>4, <3>5
    <2>3. \A m \in Names : Seeded(m)' => Seeded(m)
      BY <2>2, NoRootTyped DEF Seeded
    <2>4. RootFits'
      BY <2>2, <2>3 DEF RootFits, VaultKnows
    <2>5. root'.db => "db" \in run'.todo
      BY <1>1, <1>6, <2>1, <2>2 DEF VaultKnows, WipeKnows
    <2>6. root'.manifest # NoManifest => "manifest" \in run'.todo
      BY <1>1, <1>6, <2>1, <2>2 DEF VaultKnows, WipeKnows
    <2>7. WipeKnows' /\ SeedKnows'
      BY <2>1, <2>5, <2>6 DEF WipeKnows, SeedKnows, Making, Seeding, Marking
    <2> QED
      BY <1>1, <1>6, <2>1, <2>2, <2>4, <2>7, GoesOn, Fields
  <1> QED
    BY <1>2, <1>3, <1>4, <1>5, <1>6 DEF Wipe, Step

\* The directory is made ...
LEMMA MakeKeeps == ASSUME VaultKnows, Make PROVE VaultKnows'
  <1>1. run.at = "make" /\ quiet' = quiet /\ run.reply = "none" /\ count' = count
    BY DEF Make, Step, VaultKnows, RunFits
  <1>2. CASE End("rejected") /\ UNCHANGED <<root, count>>
    BY <1>1, <1>2, FailKeeps
  <1>3. CASE root' = [root EXCEPT !.here = TRUE] /\ run' = [run EXCEPT !.id = root.id, !.at = "dirs"]
    <2>1. root' \in Roots /\ root'.files = root.files /\ root'.rows = root.rows /\ root'.id = root.id
          /\ root'.manifest = root.manifest /\ root'.dirs = root.dirs /\ (root'.db <=> root.db) /\ root'.here
      BY <1>3, Fields DEF Roots
    <2>2. run' \in Scripts /\ run'.at = "dirs" /\ run'.id = root.id /\ run'.reply = "none"
      BY <1>1, <1>3, Fields DEF Scripts, RunSteps, Making
    <2>3. RootFits'
      BY <2>1 DEF RootFits, VaultKnows, Seeded
    <2>4. WipeKnows' /\ SeedKnows'
      BY <1>1, <2>1, <2>2 DEF VaultKnows, WipeKnows, SeedKnows, Making, Seeding, Marking
    <2> QED
      BY <1>1, <2>1, <2>2, <2>3, <2>4, GoesOn, Fields
  <1> QED
    BY <1>2, <1>3 DEF Make, Step

\* ... and its directories ...
LEMMA MakeDirsKeeps == ASSUME VaultKnows, MakeDirs PROVE VaultKnows'
  <1>1. run.at = "dirs" /\ quiet' = quiet /\ run.reply = "none"
    BY DEF MakeDirs, Step, VaultKnows, RunFits
  <1>2. CASE End("rejected") /\ UNCHANGED <<root, count>>
    BY <1>1, <1>2, FailKeeps
  <1>3. ASSUME NEW dirs \in SUBSET Dirs, root' = [root EXCEPT !.dirs = dirs], root.dirs \subseteq dirs
        PROVE  /\ root' \in Roots /\ root'.files = root.files /\ root'.rows = root.rows /\ root'.id = root.id
               /\ root'.manifest = root.manifest /\ (root'.db <=> root.db) /\ (root'.here <=> root.here)
               /\ root'.dirs = dirs /\ RootFits'
    <2>1. root' \in Roots /\ root'.files = root.files /\ root'.rows = root.rows /\ root'.id = root.id
          /\ root'.manifest = root.manifest /\ (root'.db <=> root.db) /\ (root'.here <=> root.here)
          /\ root'.dirs = dirs
      BY <1>3, Fields DEF Roots
    <2>2. RootFits'
      BY <1>3, <2>1 DEF RootFits, VaultKnows, Seeded
    <2> QED
      BY <2>1, <2>2
  <1>4. CASE root' = [root EXCEPT !.dirs = Dirs] /\ Goto("migrate") /\ UNCHANGED count
    <2>1. root.dirs \subseteq Dirs /\ Dirs \in SUBSET Dirs
      BY Fields
    <2>2. root' \in Roots /\ root'.id = root.id /\ root'.manifest = root.manifest /\ (root'.db <=> root.db)
          /\ root'.dirs = Dirs /\ RootFits'
      BY <1>3, <1>4, <2>1
    <2>3. run' \in Scripts /\ run'.at = "migrate" /\ run'.id = run.id /\ run'.reply = "none"
      BY <1>1, <1>4, Goes DEF RunSteps, Making
    <2>4. WipeKnows' /\ SeedKnows'
      BY <1>1, <2>2, <2>3 DEF VaultKnows, WipeKnows, SeedKnows, Making, Seeding, Marking, Dirs
    <2> QED
      BY <1>1, <1>4, <2>2, <2>3, <2>4, GoesOn, Fields
  <1>5. CASE Fails /\ root' \in {[root EXCEPT !.dirs = d] : d \in {root.dirs, root.dirs \cup {"db"}}}
    <2>1. PICK d \in {root.dirs, root.dirs \cup {"db"}} : root' = [root EXCEPT !.dirs = d]
      BY <1>5
    <2>2. d \in SUBSET Dirs /\ root.dirs \subseteq d
      BY Fields DEF Dirs
    <2>3. root' \in Roots /\ root'.id = root.id /\ RootFits'
      BY <1>3, <2>1, <2>2
    <2>4. End("error") /\ count' \in Counters /\ "error" \in Replies
      BY <1>5, Fields DEF Fails, Counters, Replies
    <2> QED
      BY <1>1, <2>3, <2>4, EndKeeps
  <1> QED
    BY <1>2, <1>4, <1>5 DEF MakeDirs, Step

\* ... and its database, without rows.
LEMMA MigrateKeeps == ASSUME VaultKnows, Migrate PROVE VaultKnows'
  <1>1. run.at = "migrate" /\ quiet' = quiet /\ run.reply = "none"
    BY DEF Migrate, Step, VaultKnows, RunFits
  <1>2. CASE End("rejected") /\ UNCHANGED <<root, count>>
    BY <1>1, <1>2, FailKeeps
  <1>3. CASE Fails /\ UNCHANGED root
    BY <1>1, <1>3, FailKeeps DEF Fails
  <1>4. CASE Stable /\ root' = [root EXCEPT !.db = TRUE] /\ Goto("entries") /\ UNCHANGED count
    <2>1. root' \in Roots /\ root'.files = root.files /\ root'.rows = root.rows /\ root'.id = root.id
          /\ root'.manifest = root.manifest /\ root'.dirs = root.dirs /\ root'.db /\ (root'.here <=> root.here)
      BY <1>4, Fields DEF Roots
    <2>2. root.rows = <<>> /\ "db" \in root.dirs /\ root.manifest = NoManifest
      BY <1>1, <1>4 DEF VaultKnows, WipeKnows, RootFits, Making, Stable
    <2>3. run' \in Scripts /\ run'.at = "entries" /\ run'.id = run.id /\ run'.reply = "none"
      BY <1>1, <1>4, Goes DEF RunSteps, Seeding
    <2>4. RootFits'
      BY <2>1, <2>2 DEF RootFits
    <2>5. WipeKnows' /\ SeedKnows'
      BY <2>1, <2>2, <2>3, NoRootTyped DEF WipeKnows, SeedKnows, Making, Seeding, Marking
    <2> QED
      BY <1>1, <1>4, <2>1, <2>3, <2>4, <2>5, GoesOn, Fields
  <1> QED
    BY <1>2, <1>3, <1>4 DEF Migrate, Step

\* A file of the seed; or the run has all of them.
LEMMA SaveFileKeeps == ASSUME VaultKnows, SaveFile PROVE VaultKnows'
  <1>1. run.at = "entries" /\ quiet' = quiet /\ run.reply = "none" /\ root.manifest = NoManifest
    BY DEF SaveFile, Step, VaultKnows, RunFits, WipeKnows, Seeding
  <1>2. CASE End("rejected") /\ UNCHANGED <<root, count>>
    BY <1>1, <1>2, FailKeeps
  <1>3. CASE Fails /\ UNCHANGED root
    BY <1>1, <1>3, FailKeeps DEF Fails
  <1>a. \A n \in DOMAIN root.rows : root.rows[n] = "seed" => \E i \in DOMAIN run.mine : run.mine[i] = n
    BY <1>1 DEF VaultKnows, SeedKnows, Seeding
  <1>4. CASE Goto(IF run.count > 1 THEN "relate" ELSE "health") /\ UNCHANGED <<root, count>>
    <2>1. PICK at \in {"relate", "health"} : at = IF run.count > 1 THEN "relate" ELSE "health"
      OBVIOUS
    <2>2. at \in RunSteps /\ Goto(at)
      BY <1>4, <2>1 DEF RunSteps, Marking
    <2>3. run' \in Scripts /\ run'.at = at /\ run'.id = run.id /\ run'.reply = "none"
          /\ run'.count = run.count /\ run'.mine = run.mine
      BY <1>1, <2>2, Goes
    <2>4. RootFits'
      BY <1>4 DEF RootFits, Seeded, VaultKnows
    <2>5. at = "health" => ~ run.count > 1
      BY <2>1
    <2>6. WipeKnows' /\ SeedKnows'
      BY <1>1, <1>a, <1>4, <2>3, <2>5 DEF WipeKnows, SeedKnows, Making, Seeding, Marking, Seeded
    <2> QED
      BY <1>1, <1>4, <2>3, <2>4, <2>6, GoesOn, Fields
  <1>5. ASSUME NEW n \in Names,
               root' = [root EXCEPT !.files = With(@, n, [text |-> "seed", related |-> 0])],
               run' = [run EXCEPT !.at = "row", !.mine = Append(@, n)], UNCHANGED count
        PROVE  VaultKnows'
    <2> DEFINE x == [text |-> "seed", related |-> 0]
               f == With(root.files, n, x)
               mine == Append(run.mine, n)
    <2>1. x \in FileRecs
      BY DEF FileRecs, Texts
    <2> HIDE DEF x
    <2>2. f \in FileMaps
      BY <2>1, Fields, FileGets
    <2>3. root' = [root EXCEPT !.files = f] /\ run' = [run EXCEPT !.at = "row", !.mine = mine]
      BY <1>5 DEF x
    <2> HIDE DEF f
    <2>4. root' \in Roots /\ root'.rows = root.rows /\ root'.id = root.id /\ (root'.here <=> root.here)
          /\ root'.manifest = root.manifest /\ root'.dirs = root.dirs /\ (root'.db <=> root.db)
      BY <2>2, <2>3, Fields DEF Roots
    <2>5. mine \in Seq(Names) /\ mine # <<>> /\ DOMAIN run.mine \subseteq DOMAIN mine
          /\ \A i \in DOMAIN run.mine : mine[i] = run.mine[i]
      BY Fields
    <2> HIDE DEF mine
    <2>6. run' \in Scripts /\ run'.at = "row" /\ run'.id = run.id /\ run'.reply = "none" /\ run'.mine = mine
      BY <1>1, <2>3, <2>5, Fields DEF Scripts, RunSteps, Seeding
    <2>7. RootFits'
      BY <1>1, <2>4 DEF RootFits, VaultKnows
    <2>8. \A m \in DOMAIN root'.rows : root'.rows[m] = "seed" => \E i \in DOMAIN run'.mine : run'.mine[i] = m
      BY <1>a, <2>4, <2>5, <2>6
    <2>9. WipeKnows' /\ SeedKnows'
      BY <1>1, <2>4, <2>5, <2>6, <2>8 DEF WipeKnows, SeedKnows, Making, Seeding, Marking
    <2> QED
      BY <1>1, <1>5, <2>4, <2>6, <2>7, <2>9, GoesOn, Fields
  <1> QED
    BY <1>2, <1>3, <1>4, <1>5 DEF SaveFile, Step

\* The row of the last file.
LEMMA InsertRowKeeps == ASSUME VaultKnows, InsertRow PROVE VaultKnows'
  <1>1. run.at = "row" /\ quiet' = quiet /\ run.reply = "none" /\ root.manifest = NoManifest /\ run.mine # <<>>
    BY DEF InsertRow, Step, VaultKnows, RunFits, WipeKnows, Seeding, SeedKnows
  <1>2. CASE End("error") /\ UNCHANGED <<root, count>>
    BY <1>1, <1>2, FailKeeps
  <1>3. CASE Fails /\ UNCHANGED root
    BY <1>1, <1>3, FailKeeps DEF Fails
  <1>a. \A n \in DOMAIN root.rows : root.rows[n] = "seed" => \E i \in DOMAIN run.mine : run.mine[i] = n
    BY <1>1 DEF VaultKnows, SeedKnows, Seeding
  <1>4. CASE root.db /\ root' = [root EXCEPT !.rows = With(@, run.mine[Len(run.mine)], "seed")]
             /\ Goto("entries") /\ UNCHANGED count
    <2> DEFINE n == run.mine[Len(run.mine)]
               seed == "seed"
               r == With(root.rows, n, seed)
    <2>1. n \in Names /\ Len(run.mine) \in DOMAIN run.mine
      <3>1. run.mine \in Seq(Names)
        BY Fields
      <3> QED
        BY ONLY <1>1, <3>1
    <2>2. \E i \in DOMAIN run.mine : run.mine[i] = n
      BY <2>1
    <2>3. seed \in Texts
      BY DEF Texts
    <2> HIDE DEF n, seed
    <2>4. root.rows \in RowMaps
      BY Fields
    <2>5. r \in RowMaps
      BY ONLY <2>1, <2>3, <2>4, RowGets
    <2>6. DOMAIN r = DOMAIN root.rows \cup {n}
      BY DEF With
    <2>7. \A m \in DOMAIN root.rows : m # n => r[m] = root.rows[m]
      BY DEF With
    <2>8. root' = [root EXCEPT !.rows = r]
      BY <1>4 DEF n, seed
    <2> HIDE DEF r
    <2>9. root' \in Roots /\ root'.rows = r /\ root'.id = root.id /\ (root'.here <=> root.here)
          /\ root'.manifest = root.manifest /\ root'.dirs = root.dirs /\ (root'.db <=> root.db)
      BY <2>5, <2>8, Fields DEF Roots
    <2>10. run' \in Scripts /\ run'.at = "entries" /\ run'.id = run.id /\ run'.reply = "none"
           /\ run'.mine = run.mine
      BY <1>1, <1>4, Goes DEF RunSteps, Seeding
    <2>11. RootFits'
      BY <1>1, <1>4, <2>9 DEF RootFits, VaultKnows
    <2>12. \A m \in DOMAIN root'.rows : root'.rows[m] = "seed" => \E i \in DOMAIN run'.mine : run'.mine[i] = m
      BY <1>a, <2>2, <2>6, <2>7, <2>9, <2>10
    <2>13. WipeKnows' /\ SeedKnows'
      BY <1>1, <2>9, <2>10, <2>12 DEF WipeKnows, SeedKnows, Making, Seeding, Marking
    <2> QED
      BY <1>1, <1>4, <2>9, <2>10, <2>11, <2>13, GoesOn, Fields
  <1> QED
    BY <1>2, <1>3, <1>4 DEF InsertRow, Step

\* The related documents, one file after the other.
LEMMA RelateKeeps == ASSUME VaultKnows, Relate PROVE VaultKnows'
  <1>1. run.at = "relate" /\ quiet' = quiet /\ run.reply = "none" /\ root.manifest = NoManifest
    BY DEF Relate, Step, VaultKnows, RunFits, WipeKnows
  <1>2. CASE End("error") /\ UNCHANGED <<root, count>>
    BY <1>1, <1>2, FailKeeps
  <1>3. CASE Fails /\ UNCHANGED root
    BY <1>1, <1>3, FailKeeps DEF Fails
  <1>a. \A m \in Names : Seeded(m) => \/ \E i \in DOMAIN run.mine : run.mine[i] = m
                                      \/ root.files[m].related = run.seed
    BY <1>1 DEF VaultKnows, SeedKnows
  <1>4. CASE run.mine = <<>> /\ Goto("health") /\ UNCHANGED <<root, count>>
    <2>1. run' \in Scripts /\ run'.at = "health" /\ run'.id = run.id /\ run'.reply = "none"
          /\ run'.count = run.count /\ run'.seed = run.seed
      BY <1>1, <1>4, Goes DEF RunSteps, Marking
    <2>2. RootFits'
      BY <1>4 DEF RootFits, Seeded, VaultKnows
    <2>3. \A m \in Names : Seeded(m) => root.files[m].related = run.seed
      <3>1. DOMAIN run.mine = {}
        BY <1>4
      <3> QED
        BY <1>a, <3>1
    <2>4. WipeKnows' /\ SeedKnows'
      BY <1>1, <1>4, <2>1, <2>3 DEF WipeKnows, SeedKnows, Making, Seeding, Marking, Seeded
    <2> QED
      BY <1>1, <1>4, <2>1, <2>2, <2>4, GoesOn, Fields
  <1>5. ASSUME run.mine # <<>>, NEW n, n = Head(run.mine), n \in DOMAIN root.files,
               root' = [root EXCEPT !.files[n].related = run.seed],
               run' = [run EXCEPT !.mine = Tail(@)], UNCHANGED count
        PROVE  VaultKnows'
    <2> DEFINE x == [root.files[n] EXCEPT !.related = run.seed]
               f == [root.files EXCEPT ![n] = x]
               mine == Tail(run.mine)
    <2>1. root.files[n] \in FileRecs
      BY <1>5, Fields, MapIs DEF FileMaps
    <2>2. x \in FileRecs /\ x.related = run.seed /\ x.text = root.files[n].text
      BY <2>1, Fields DEF FileRecs
    <2> HIDE DEF x
    <2>3. f \in FileMaps /\ DOMAIN f = DOMAIN root.files /\ f[n] = x
          /\ \A m \in DOMAIN root.files : m # n => f[m] = root.files[m]
      BY <1>5, <2>2, Fields, MapChanges DEF FileMaps
    <2>4. root' = [root EXCEPT !.files = f] /\ run' = [run EXCEPT !.mine = mine]
      BY <1>5 DEF x
    <2> HIDE DEF f
    <2>5. root' \in Roots /\ root'.rows = root.rows /\ root'.files = f /\ root'.id = root.id
          /\ (root'.here <=> root.here) /\ root'.manifest = root.manifest /\ root'.dirs = root.dirs
          /\ (root'.db <=> root.db)
      BY <2>3, <2>4, Fields DEF Roots
    <2>6. mine \in Seq(Names) /\ \A m : m # n =>
            ((\E i \in DOMAIN run.mine : run.mine[i] = m) => \E i \in DOMAIN mine : mine[i] = m)
      <3>1. run.mine \in Seq(Names)
        BY Fields
      <3>2. mine \in Seq(Names) /\ Len(mine) = Len(run.mine) - 1 /\ \A i \in 1..Len(mine) : mine[i] = run.mine[i + 1]
        BY ONLY <1>5, <3>1
      <3>3. ASSUME NEW m, m # n, NEW i \in DOMAIN run.mine, run.mine[i] = m
            PROVE  \E j \in DOMAIN mine : mine[j] = m
        <4>1. i \in 1..Len(run.mine) /\ Len(run.mine) \in Nat /\ n = run.mine[1]
          BY ONLY <1>5, <3>1, <3>3
        <4>2. i # 1
          BY <3>3, <4>1
        <4>3. i - 1 \in 1..Len(mine) /\ mine[i - 1] = m
          BY <3>2, <3>3, <4>1, <4>2
        <4>4. DOMAIN mine = 1..Len(mine)
          BY <3>2
        <4> QED
          BY <4>3, <4>4
      <3> QED
        BY <3>2, <3>3
    <2> HIDE DEF mine
    <2>7. run' \in Scripts /\ run'.at = "relate" /\ run'.id = run.id /\ run'.reply = "none"
          /\ run'.mine = mine /\ run'.seed = run.seed
      BY <1>1, <2>4, <2>6, Fields DEF Scripts
    <2>8. RootFits'
      BY <1>1, <2>5 DEF RootFits, VaultKnows
    <2>9. ASSUME NEW m \in Names, Seeded(m)'
          PROVE  (\E i \in DOMAIN run'.mine : run'.mine[i] = m) \/ root'.files[m].related = run'.seed
      <3>1. Seeded(m)
        BY <2>2, <2>3, <2>5, <2>9 DEF Seeded
      <3>2. CASE m = n
        BY <2>2, <2>3, <2>5, <2>7, <3>2
      <3>3. CASE m # n
        <4>1. root'.files[m] = root.files[m]
          BY <2>3, <2>5, <3>1, <3>3 DEF Seeded
        <4> QED
          BY <1>a, <2>6, <2>7, <3>1, <3>3, <4>1
      <3> QED
        BY <3>2, <3>3
    <2>10. WipeKnows' /\ SeedKnows'
      BY <1>1, <2>5, <2>7, <2>9 DEF WipeKnows, SeedKnows, Making, Seeding, Marking
    <2> QED
      BY <1>1, <1>5, <2>5, <2>7, <2>8, <2>10, GoesOn, Fields
  <1> QED
    BY <1>2, <1>3, <1>4, <1>5 DEF Relate, Step

\* The database answers.
LEMMA HealthKeeps == ASSUME VaultKnows, Health PROVE VaultKnows'
  <1>1. run.at = "health" /\ quiet' = quiet /\ run.reply = "none" /\ root.manifest = NoManifest
    BY DEF Health, Step, VaultKnows, RunFits, WipeKnows, Marking
  <1>2. CASE (End("error") \/ End("rejected")) /\ UNCHANGED <<root, count>>
    BY <1>1, <1>2, FailKeeps
  <1>3. CASE Fails /\ UNCHANGED root
    BY <1>1, <1>3, FailKeeps DEF Fails
  <1>4. CASE Goto("mark") /\ UNCHANGED <<root, count>>
    <2>1. run' \in Scripts /\ run'.at = "mark" /\ run'.id = run.id /\ run'.reply = "none"
          /\ run'.count = run.count /\ run'.seed = run.seed
      BY <1>1, <1>4, Goes DEF RunSteps, Marking
    <2>2. RootFits'
      BY <1>4 DEF RootFits, Seeded, VaultKnows
    <2>3. run.count > 1 => \A m \in Names : Seeded(m) => root.files[m].related = run.seed
      BY <1>1 DEF VaultKnows, SeedKnows, Marking
    <2>4. WipeKnows' /\ SeedKnows'
      BY <1>1, <1>4, <2>1, <2>3 DEF WipeKnows, SeedKnows, Making, Seeding, Marking, Seeded
    <2> QED
      BY <1>1, <1>4, <2>1, <2>2, <2>4, GoesOn, Fields
  <1> QED
    BY <1>2, <1>3, <1>4 DEF Health, Step

\* The mark, for a vault that is there with its seed related.
LEMMA MarkKeeps == ASSUME VaultKnows, Mark PROVE VaultKnows'
  <1>1. run.at = "mark" /\ quiet' = quiet /\ run.reply = "none"
    BY DEF Mark, Step, VaultKnows, RunFits
  <1>2. CASE End("rejected") /\ UNCHANGED <<root, count>>
    BY <1>1, <1>2, FailKeeps
  <1>3. CASE Fails /\ UNCHANGED root
    BY <1>1, <1>3, FailKeeps DEF Fails
  <1>4. CASE Stable /\ root' = [root EXCEPT !.manifest = [count |-> run.count, seed |-> run.seed]]
             /\ Goto("verify") /\ UNCHANGED count
    <2> DEFINE mark == [count |-> run.count, seed |-> run.seed]
    <2>1. mark \in Manifests /\ mark.count = run.count /\ mark.seed = run.seed
      BY Fields DEF Manifests
    <2>2. root' = [root EXCEPT !.manifest = mark]
      BY <1>4
    <2>3. run' \in Scripts /\ run'.at = "verify" /\ run'.id = run.id /\ run'.reply = "none"
          /\ run'.count = run.count /\ run'.seed = run.seed
      BY <1>1, <1>4, Goes DEF RunSteps
    <2>4. mark = [count |-> run'.count, seed |-> run'.seed]
      BY <2>3
    <2> HIDE DEF mark
    <2>5. root' \in Roots /\ root'.rows = root.rows /\ root'.files = root.files /\ root'.id = root.id
          /\ (root'.here <=> root.here) /\ root'.manifest = mark /\ root'.dirs = root.dirs
          /\ (root'.db <=> root.db)
      BY <2>1, <2>2, Fields DEF Roots
    <2>6. root.here
      BY <1>4 DEF Stable, SameRoot
    <2>7. run.count > 1 => \A m \in Names : Seeded(m) => root.files[m].related = run.seed
      BY <1>1 DEF VaultKnows, SeedKnows, Marking
    <2>8. \A m \in Names : Seeded(m)' <=> Seeded(m)
      BY <2>5 DEF Seeded
    <2>9. RootFits'
      BY <2>1, <2>5, <2>6, <2>7, <2>8 DEF RootFits, VaultKnows
    <2>10. WipeKnows' /\ SeedKnows'
      BY <2>3, <2>4, <2>5 DEF WipeKnows, SeedKnows, Making, Seeding, Marking
    <2> QED
      BY <1>1, <1>4, <2>3, <2>5, <2>9, <2>10, GoesOn, Fields
  <1> QED
    BY <1>2, <1>3, <1>4 DEF Mark, Step

\* The finished vault is validated: it has the mark of this run.
LEMMA VerifyKeeps == ASSUME VaultKnows, Verify PROVE VaultKnows'
  <1>1. run.at = "verify" /\ quiet' = quiet /\ run.reply = "none"
    BY DEF Verify, Step, VaultKnows, RunFits
  <1>2. CASE End("rejected") /\ UNCHANGED <<root, count>>
    BY <1>1, <1>2, FailKeeps
  <1>3. CASE Fails /\ UNCHANGED root
    BY <1>1, <1>3, FailKeeps DEF Fails
  <1>4. CASE Goto("unmark") /\ UNCHANGED <<root, count>>
    <2>1. run' \in Scripts /\ run'.at = "unmark" /\ run'.id = run.id /\ run'.reply = "none"
      BY <1>1, <1>4, Goes DEF RunSteps
    <2>2. RootFits'
      BY <1>4 DEF RootFits, Seeded, VaultKnows
    <2>3. WipeKnows' /\ SeedKnows'
      BY <2>1 DEF WipeKnows, SeedKnows, Making, Seeding, Marking
    <2> QED
      BY <1>1, <1>4, <2>1, <2>2, <2>3, GoesOn, Fields
  <1>5. CASE Stable /\ Valid /\ End("rebuilt") /\ UNCHANGED <<root, count>>
    <2>1. Whole
      BY <1>5, ValidIsWhole DEF VaultKnows, Stable, SameRoot
    <2>2. Whole'
      BY <1>5, <2>1 DEF Whole
    <2>3. root.manifest # NoManifest
      BY <1>5 DEF Valid
    <2>4. root.manifest = [count |-> run.count, seed |-> run.seed]
      BY <1>1, <2>3 DEF VaultKnows, SeedKnows
    <2>5. run'.count = run.count /\ run'.seed = run.seed
      BY <1>5 DEF End, Idle
    <2>6. root'.manifest.count = run'.count /\ root'.manifest.seed = run'.seed
      BY <1>5, <2>4, <2>5
    <2>7. Requested'
      BY <2>6 DEF Requested
    <2>8. root' \in Roots /\ root'.id = root.id /\ RootFits' /\ count' \in Counters
      BY <1>5, Fields DEF RootFits, Seeded, VaultKnows
    <2>9. "rebuilt" \in Replies
      BY DEF Replies
    <2> QED
      BY <1>1, <1>5, <2>2, <2>7, <2>8, <2>9, EndKeeps
  <1> QED
    BY <1>2, <1>3, <1>4, <1>5 DEF Verify, Step

\* The mark goes from a vault that is not sound.
LEMMA UnmarkKeeps == ASSUME VaultKnows, Unmark PROVE VaultKnows'
  <1>1. root' = [root EXCEPT !.manifest = NoManifest] /\ End("invalid") /\ count' = count /\ quiet' = quiet
    BY DEF Unmark, Step
  <1> DEFINE mark == NoManifest
  <1>2. root' = [root EXCEPT !.manifest = mark] /\ mark \in Manifests
    BY <1>1, NoRootTyped
  <1> HIDE DEF mark
  <1>3. root' \in Roots /\ root'.rows = root.rows /\ root'.files = root.files /\ root'.id = root.id
        /\ (root'.here <=> root.here) /\ root'.manifest = mark /\ root'.dirs = root.dirs
        /\ (root'.db <=> root.db)
    BY <1>2, Fields DEF Roots
  <1>4. RootFits'
    BY <1>3 DEF RootFits, VaultKnows, mark
  <1>5. "invalid" \in Replies /\ count' \in Counters
    BY <1>1, Fields DEF Replies
  <1> QED
    BY <1>1, <1>3, <1>4, <1>5, EndKeeps

\* Death, which may tear the file that is being written: that is before the mark.
LEMMA CrashKeeps == ASSUME VaultKnows, Crash PROVE VaultKnows'
  <1>1. run' = Idle /\ quiet' = quiet /\ count' \in Counters
    <2>1. count \in Counters /\ count' = [count EXCEPT !.crashes = @ + 1] /\ run' = Idle /\ quiet' = quiet
      BY Fields DEF Crash
    <2> QED
      BY ONLY <2>1 DEF Counters
  <1>2. root' \in Roots /\ root'.id = root.id /\ RootFits'
    <2>1. CASE root' = root
      BY <2>1, Fields DEF RootFits, Seeded, VaultKnows
    <2>2. CASE run.at = "relate" /\ Head(run.mine) \in DOMAIN root.files
               /\ root' = [root EXCEPT !.files[Head(run.mine)] = [text |-> "torn", related |-> 0]]
      <3> DEFINE n == Head(run.mine)
                 x == [text |-> "torn", related |-> 0]
                 f == [root.files EXCEPT ![n] = x]
      <3>1. x \in FileRecs
        BY DEF FileRecs, Texts
      <3>2. root' = [root EXCEPT !.files = f] /\ n \in DOMAIN root.files
        BY <2>2
      <3> HIDE DEF x, n
      <3>3. f \in FileMaps
        BY <3>1, <3>2, Fields, MapChanges DEF FileMaps
      <3> HIDE DEF f
      <3>4. root' \in Roots /\ root'.rows = root.rows /\ root'.id = root.id /\ (root'.here <=> root.here)
            /\ root'.manifest = root.manifest /\ root'.dirs = root.dirs /\ (root'.db <=> root.db)
        BY <3>2, <3>3, Fields DEF Roots
      <3>5. root.manifest = NoManifest
        BY <2>2 DEF VaultKnows, WipeKnows
      <3> QED
        BY <3>4, <3>5 DEF RootFits, VaultKnows
    <2> QED
      BY <2>1, <2>2 DEF Crash
  <1>3. /\ run'.at = "idle" /\ run'.reply = "none" /\ run'.id = 0 /\ run' \in Scripts
    <2>1. <<>> \in Seq(Names)
      OBVIOUS
    <2> QED
      BY <1>1, <2>1 DEF Idle, Scripts, RunSteps, Replies
  <1>4. WipeKnows' /\ SeedKnows'
    BY <1>3 DEF WipeKnows, SeedKnows, Making, Seeding, Marking
  <1> QED
    BY <1>1, <1>2, <1>3, <1>4, GoesOn, Fields

-----------------------------------------------------------------------------
(* The whole *)

\* It holds at first: there is no vault.
LEMMA VaultKnowsAtFirst == Init => VaultKnows
  <1> SUFFICES ASSUME Init PROVE VaultKnows
    OBVIOUS
  <1>1. run = Idle /\ root = NoRoot /\ quiet = TRUE /\ count \in Counters
    BY DEF Init, Counters
  <1>2. /\ run.at = "idle" /\ run.reply = "none" /\ run.id = 0 /\ run \in Scripts
    <2>1. <<>> \in Seq(Names)
      OBVIOUS
    <2> QED
      BY <1>1, <2>1 DEF Idle, Scripts, RunSteps, Replies
  <1>3. root \in Roots /\ root.id \in Nat /\ ~ root.db /\ root.rows = <<>> /\ root.manifest = NoManifest
    BY <1>1, NoRootTyped DEF NoRoot
  <1>4. VaultTyped
    BY <1>1, <1>2, <1>3 DEF VaultTyped
  <1>5. RootFits /\ RunFits
    BY <1>2, <1>3 DEF RootFits, RunFits
  <1>6. WipeKnows /\ SeedKnows
    BY <1>2 DEF WipeKnows, SeedKnows, Making, Seeding, Marking
  <1>7. VaultIsWhole
    BY <1>2 DEF VaultIsWhole
  <1> QED
    BY <1>4, <1>5, <1>6, <1>7 DEF VaultKnows

\* Every step keeps it.
LEMMA VaultKnowsStep ==
  ASSUME DevVaultAssumption
  PROVE  VaultKnows /\ [Next]_vars => VaultKnows'
  <1> SUFFICES ASSUME VaultKnows, [Next]_vars PROVE VaultKnows'
    OBVIOUS
  <1>1. Counts \subseteq Nat /\ Seeds \subseteq Nat
    <2>1. 0..Cardinality(Names) \subseteq Nat
      OBVIOUS
    <2> QED
      BY <2>1 DEF DevVaultAssumption
  <1>2. CASE UNCHANGED vars
    BY <1>2 DEF vars, VaultKnows, VaultTyped, RootFits, RunFits, WipeKnows, SeedKnows, VaultIsWhole,
                Seeded, SameRoot, Whole, Requested
  <1>3. ASSUME NEW m \in {"plain", "force", "check"}, NEW n \in Counts, NEW s \in Seeds, Start(m, n, s)
        PROVE  VaultKnows'
    BY <1>1, <1>3, StartKeeps
  <1>4. CASE Gate \/ CheckOnly \/ Look \/ Validate \/ Clean \/ Wipe \/ Make \/ MakeDirs \/ Migrate
    BY <1>4, GateKeeps, CheckOnlyKeeps, LookKeeps, ValidateKeeps, CleanKeeps, WipeKeeps, MakeKeeps,
       MakeDirsKeeps, MigrateKeeps
  <1>5. CASE SaveFile \/ InsertRow \/ Relate \/ Health \/ Mark \/ Verify \/ Unmark \/ Crash
    BY <1>5, SaveFileKeeps, InsertRowKeeps, RelateKeeps, HealthKeeps, MarkKeeps, VerifyKeeps,
       UnmarkKeeps, CrashKeeps
  <1>6. CASE Others
    BY <1>6, OthersKeep
  <1> QED
    BY <1>2, <1>3, <1>4, <1>5, <1>6 DEF Next, Runs

\* A run that nobody disturbs and that calls the vault rebuilt, up to date or
\* sound is right, however many names, calls, edits, deaths and failures there
\* are.
THEOREM VaultIsWholeHolds ==
  ASSUME DevVaultAssumption
  PROVE  Spec => []VaultIsWhole
  <1>1. Init => VaultKnows
    BY VaultKnowsAtFirst
  <1>2. VaultKnows /\ [Next]_vars => VaultKnows'
    BY VaultKnowsStep
  <1>3. VaultKnows => VaultIsWhole
    BY DEF VaultKnows
  <1> QED
    BY <1>1, <1>2, <1>3, PTL DEF Spec

-----------------------------------------------------------------------------
(* The release candidate *)

CONSTANTS Revisions, ValidRevisions, MaxBuilds, MaxDisturbances, MaxBuildCrashes
VARIABLES b_head, b_dirty, b_env, b_src, b_out, b_dist, b_run, b_made, b_count

\* The builds, over constants and variables of their own.
B == INSTANCE ReleaseBuild WITH
  Valid <- ValidRevisions, MaxCrashes <- MaxBuildCrashes,
  head <- b_head, dirty <- b_dirty, env <- b_env, src <- b_src, out <- b_out,
  dist <- b_dist, run <- b_run, made <- b_made, count <- b_count


\* The types.
Packed == [rev : Revisions \cup {0}, clean : BOOLEAN, locked : BOOLEAN, noise : {0, 1},
           touched : Nat]
Outs == Packed \cup {<<>>}
Pairs == [B!Both -> Outs]
Places == B!Dirs \cup {".artifact", ".harness", ".compliance"}
Results == [whole : BOOLEAN, of : Nat, bytes : Outs]

\* The steps of a build after the renames, the comparison, the tool runs began.
Publishing == {"publish1", "publish2", "publish3"}
Compared == {"authority", "copy1", "copy2", "copy3", "staged"} \cup Publishing
AfterBuilds == {"hash1", "hash2"} \cup Compared
AfterTool(k) == IF k = 2 THEN {"recheck2"} \cup AfterBuilds
                ELSE {"recheck1", "lock2", "tool2", "recheck2"} \cup AfterBuilds
Building == {"lock1", "tool1"} \cup AfterTool(1)
Clearing == {"clear2", "clear3", "snapshot", "inputs"}
BuildSteps == {"idle", "confirm", "clear1"} \cup Clearing \cup Building

BuildTyped ==
  /\ b_head \in Revisions /\ b_env \in SUBSET {"python", "packages"} /\ b_src \in [B!Both -> BOOLEAN]
  /\ b_out \in [B!Both -> Outs] /\ b_dist \in [Places -> Results]
  /\ b_run \in [at : BuildSteps, rev : Revisions \cup {0}, hashes : Pairs]
  /\ b_made \in Seq(Pairs) /\ b_count \in [disturbed : Nat, crashed : Nat]

\* While a build is under way there is a place for what it makes, no candidate
\* can be found until the last rename, and its commit is valid.
RunKnows ==
  /\ b_run.at \notin {"idle", "confirm"} => B!Build > 0
  /\ b_run.at \in Clearing \cup Building => ~ b_dist["candidate"].whole
  /\ b_run.at \in Building => b_run.rev \in ValidRevisions
  /\ b_dist["candidate"].whole => b_dist["candidate"].of \in 1..B!Build

\* x is b but for what was done to it on the disk.
Stems(x, b) == x \in Packed /\ b \in Packed /\ x = [b EXCEPT !.touched = x.touched]

\* An output is what its tool run gave, but for the changes since, and no change
\* is made twice.
OutKnows(k) ==
  b_run.at \in AfterTool(k) =>
    /\ Stems(b_out[k], b_made[B!Build][k])
    /\ b_made[B!Build][k].rev = b_run.rev /\ b_made[B!Build][k].touched = 0
    /\ b_out[k].touched <= b_count.disturbed
OutsKnow ==
  /\ \A k \in B!Both : OutKnows(k)
  /\ b_run.at \in AfterTool(2) /\ b_out[1].touched = b_out[2].touched => b_out[1].touched = 0

\* What was hashed first, and after the comparison: both tools gave the same.
HashKnows ==
  /\ b_run.at = "hash2" =>
       /\ Stems(b_run.hashes[1], b_made[B!Build][1]) /\ b_run.hashes[1].touched <= b_count.disturbed
       /\ b_run.hashes[1].touched = b_out[2].touched => b_run.hashes[1].touched = 0
  /\ b_run.at \in Compared => /\ b_run.hashes[2] = b_made[B!Build][1] /\ b_run.hashes[2] = b_made[B!Build][2]

\* The stages that are complete, and the places that have been taken.
Ready(d) == b_dist[d].whole /\ b_dist[d].of = B!Build
StagesKnow ==
  /\ b_run.at \in {"copy2", "copy3", "staged"} \cup Publishing => Ready(".artifact")
  /\ b_run.at \in {"copy3", "staged", "publish1", "publish2"} => Ready(".harness")
  /\ b_run.at \in {"staged", "publish1"} => Ready(".compliance")
  /\ b_run.at \in {"publish2", "publish3"} => Ready("compliance")
  /\ b_run.at = "publish3" => Ready("harness")
  /\ b_run.at \in Publishing => b_dist[".artifact"].bytes = b_run.hashes[2]

\* What must have been changed and changed back for a tool run to find what the
\* checks around it did not: at least one disturbance each.
Off(b) == IF b THEN 0 ELSE 1
Hidden(ok, now) == IF ok THEN 0 ELSE 2 - Off(now)
EnvToll(k) ==
  CASE b_run.at \in {"lock1"} \cup (IF k = 2 THEN {"tool1", "recheck1", "lock2"} ELSE {}) -> 0
    [] b_run.at = <<"tool1", "tool2">>[k] -> Off(B!EnvironmentIsLocked)
    [] b_run.at = <<"recheck1", "recheck2">>[k] ->
         Hidden(b_made[B!Build][k].locked, B!EnvironmentIsLocked)
    [] OTHER -> Hidden(b_made[B!Build][k].locked, TRUE)
SrcToll(k) ==
  CASE b_run.at \in {"lock1", "tool1"} \cup (IF k = 2 THEN {"recheck1", "lock2", "tool2"} ELSE {}) ->
         Off(b_src[k])
    [] b_run.at = <<"recheck1", "recheck2">>[k] -> Hidden(b_made[B!Build][k].clean, b_src[k])
    [] OTHER -> Hidden(b_made[B!Build][k].clean, TRUE)
TollsKnown ==
  b_run.at \in Building =>
    /\ EnvToll(1) + EnvToll(2) <= b_count.disturbed
    /\ SrcToll(1) + SrcToll(2) <= b_count.disturbed

\* The inductive invariant of the release build.
BuildKnows == BuildTyped /\ RunKnows /\ OutsKnow /\ HashKnows /\ StagesKnow /\ TollsKnown
              /\ B!PublishedIsWhole

-----------------------------------------------------------------------------
(* Types *)

\* What nothing has made yet is typed.
LEMMA NothingTyped == B!Absent \in Results /\ <<>> \in Outs /\ <<<<>>, <<>>>> \in Pairs
  <1>1. <<>> \in Outs
    BY DEF Outs
  <1>2. B!Absent \in Results
    BY <1>1 DEF B!Absent, Results
  <1> QED
    BY <1>1, <1>2 DEF Pairs, B!Both

\* One output of a pair is replaced.
LEMMA PairPut ==
  ASSUME NEW p \in Pairs, NEW k \in B!Both, NEW b \in Outs
  PROVE  /\ [p EXCEPT ![k] = b] \in Pairs
         /\ [p EXCEPT ![k] = b][k] = b
         /\ \A j \in B!Both \ {k} : [p EXCEPT ![k] = b][j] = p[j]
  BY DEF Pairs

\* The initial state is typed.
LEMMA BuildTypedInit == B!ReleaseBuildAssumption /\ B!Init => BuildTyped
  <1> SUFFICES ASSUME B!ReleaseBuildAssumption, B!Init PROVE BuildTyped
    OBVIOUS
  <1>1. b_dist \in [Places -> Results]
    <2>1. DOMAIN b_dist = Places
      BY DEF B!Init, Places, B!Dirs, B!Stage
    <2> QED
      BY <2>1, NothingTyped DEF B!Init, Places, B!Dirs, B!Stage
  <1>2. b_out \in [B!Both -> Outs] /\ b_src \in [B!Both -> BOOLEAN]
    BY NothingTyped DEF B!Init
  <1>3. b_run \in [at : BuildSteps, rev : Revisions \cup {0}, hashes : Pairs]
    BY NothingTyped DEF B!Init, B!Idle, BuildSteps
  <1>4. b_made \in Seq(Pairs)
    BY DEF B!Init
  <1> QED
    BY <1>1, <1>2, <1>3, <1>4 DEF B!Init, BuildTyped

\* The place of a name is one of the places.
LEMMA PlacesOf ==
  /\ \A d \in B!Dirs : d \in Places /\ B!Stage(d) \in Places /\ B!Stage(d) \notin B!Dirs
  /\ \A i \in 1..3 : B!Removed[i] \in B!Dirs /\ B!Published[i] \in B!Dirs
  /\ \A d, e \in B!Dirs : B!Stage(d) = B!Stage(e) => d = e
  /\ B!Removed[1] = "candidate" /\ B!Removed[2] = "harness" /\ B!Removed[3] = "compliance"
  /\ B!Published[1] = "compliance" /\ B!Published[2] = "harness" /\ B!Published[3] = "candidate"
  /\ B!Stage("candidate") = ".artifact" /\ B!Stage("harness") = ".harness"
  /\ B!Stage("compliance") = ".compliance"
  <1>1. /\ \A d \in B!Dirs : d \in Places /\ B!Stage(d) \in Places /\ B!Stage(d) \notin B!Dirs
        /\ \A d, e \in B!Dirs : B!Stage(d) = B!Stage(e) => d = e
    BY DEF B!Dirs, Places, B!Stage
  <1>2. /\ B!Removed[1] = "candidate" /\ B!Removed[2] = "harness" /\ B!Removed[3] = "compliance"
        /\ B!Published[1] = "compliance" /\ B!Published[2] = "harness"
        /\ B!Published[3] = "candidate"
    BY DEF B!Removed, B!Published
  <1>3. \A i \in 1..3 : i = 1 \/ i = 2 \/ i = 3
    OBVIOUS
  <1>4. {"candidate", "harness", "compliance"} \subseteq B!Dirs
    BY DEF B!Dirs
  <1> QED
    BY <1>1, <1>2, <1>3, <1>4 DEF B!Stage

\* The builder goes to one of its steps.
LEMMA GotoTyped ==
  ASSUME BuildTyped
  PROVE  /\ \A s \in BuildSteps : B!Goto(s) =>
              /\ b_run' \in [at : BuildSteps, rev : Revisions \cup {0}, hashes : Pairs]
              /\ b_run'.at = s /\ b_run'.rev = b_run.rev /\ b_run'.hashes = b_run.hashes
         /\ B!Give =>
              /\ b_run' \in [at : BuildSteps, rev : Revisions \cup {0}, hashes : Pairs]
              /\ b_run'.at = "idle"
  <1>1. B!Idle \in [at : BuildSteps, rev : Revisions \cup {0}, hashes : Pairs]
    BY NothingTyped DEF B!Idle, BuildSteps
  <1> QED
    BY <1>1 DEF BuildTyped, B!Goto, B!Give, B!Idle

-----------------------------------------------------------------------------
(* Steps *)

\* A candidate that stays what it is, and what it was made of, stays whole.
LEMMA PublishedStays ==
  ASSUME BuildTyped, B!PublishedIsWhole, b_count'.disturbed \in Nat,
         b_count'.disturbed >= b_count.disturbed,
         b_dist["candidate"].whole => b_made'[b_dist["candidate"].of] = b_made[b_dist["candidate"].of],
         \A d \in B!Dirs : b_dist'[d] = b_dist[d]
  PROVE  B!PublishedIsWhole'
  <1>1. b_dist'["candidate"] = b_dist["candidate"]
    BY DEF B!Dirs
  <1> QED
    BY <1>1 DEF BuildTyped, B!PublishedIsWhole, B!PublishedTogether, B!PublishedIsReproduced

\* Without a candidate there is nothing to show.
LEMMA NothingPublished == ~ b_dist'["candidate"].whole => B!PublishedIsWhole'
  BY DEF B!PublishedIsWhole, B!PublishedTogether, B!PublishedIsReproduced

\* The builder ends or dies, and leaves everything else.
LEMMA GivesUp ==
  ASSUME BuildKnows, B!Give, UNCHANGED <<b_head, b_env, b_src, b_out, b_dist, b_made>>,
         b_count' \in [disturbed : Nat, crashed : Nat], b_count'.disturbed = b_count.disturbed
  PROVE  BuildKnows'
  <1>1. BuildTyped'
    BY GotoTyped DEF BuildKnows, BuildTyped
  <1>2. b_run'.at = "idle"
    BY GotoTyped DEF BuildKnows
  <1>3. RunKnows' /\ OutsKnow' /\ HashKnows' /\ StagesKnow' /\ TollsKnown'
    BY <1>2 DEF BuildKnows, RunKnows, OutsKnow, OutKnows, HashKnows, StagesKnow, TollsKnown,
       Publishing, Compared, AfterBuilds, AfterTool, Building, Clearing, B!Both, B!Build
  <1>4. B!PublishedIsWhole'
    BY PublishedStays DEF BuildKnows, BuildTyped
  <1> QED
    BY <1>1, <1>3, <1>4 DEF BuildKnows

\* The checkout is read twice.
LEMMA BeginKeeps == BuildKnows /\ (B!Begin \/ B!Confirm) => BuildKnows'
  <1> SUFFICES ASSUME BuildKnows, B!Begin \/ B!Confirm PROVE BuildKnows'
    OBVIOUS
  <1> USE DEF BuildKnows
  <1>a. BuildTyped
    OBVIOUS
  <1>1. CASE B!Begin
    <2>1. b_run' \in [at : BuildSteps, rev : Revisions \cup {0}, hashes : Pairs]
          /\ b_run'.at = "confirm"
      BY <1>1 DEF B!Begin, BuildTyped, BuildSteps
    <2>2. UNCHANGED <<b_head, b_env, b_src, b_out, b_dist, b_made, b_count>>
      BY <1>1 DEF B!Begin
    <2>3. BuildTyped'
      BY <2>1, <2>2 DEF BuildTyped
    <2>4. RunKnows' /\ OutsKnow' /\ HashKnows' /\ StagesKnow' /\ TollsKnown'
      BY <2>1, <2>2 DEF RunKnows, OutsKnow, OutKnows, HashKnows, StagesKnow, TollsKnown,
         Publishing, Compared, AfterBuilds, AfterTool, Building, Clearing, B!Both, B!Build
    <2>5. B!PublishedIsWhole'
      BY <2>2, PublishedStays DEF BuildTyped
    <2> QED
      BY <2>3, <2>4, <2>5
  <1>2. CASE B!Confirm /\ B!Give
    <2>1. CASE UNCHANGED b_made
      BY <1>2, <2>1, GivesUp DEF B!Confirm, B!Elsewhere, BuildTyped
    <2>2. CASE B!Goto("clear1") /\ B!Give
      BY <2>2, <1>a, GotoTyped DEF BuildSteps
    <2> QED
      BY <1>2, <2>1, <2>2 DEF B!Confirm
  <1>3. CASE B!Confirm /\ B!Goto("clear1") /\ b_made' = Append(b_made, <<<<>>, <<>>>>)
    <2>1. b_run' \in [at : BuildSteps, rev : Revisions \cup {0}, hashes : Pairs]
          /\ b_run'.at = "clear1"
      BY <1>3, <1>a, GotoTyped DEF BuildSteps
    <2>2. UNCHANGED <<b_head, b_env, b_src, b_out, b_dist, b_count>>
      BY <1>3 DEF B!Confirm, B!Elsewhere
    <2>3. /\ b_made' \in Seq(Pairs) /\ Len(b_made') = Len(b_made) + 1 /\ Len(b_made) \in Nat
          /\ \A i \in 1..Len(b_made) : b_made'[i] = b_made[i]
      BY <1>3, NothingTyped DEF BuildTyped
    <2>4. BuildTyped'
      BY <2>1, <2>2, <2>3 DEF BuildTyped
    <2>5. RunKnows'
      BY <2>1, <2>2, <2>3 DEF RunKnows, B!Build, Clearing, Building, AfterTool, AfterBuilds,
         Compared, Publishing
    <2>6. OutsKnow' /\ HashKnows' /\ StagesKnow' /\ TollsKnown'
      BY <2>1 DEF OutsKnow, OutKnows, HashKnows, StagesKnow, TollsKnown,
         Publishing, Compared, AfterBuilds, AfterTool, Building, B!Both
    <2>7. B!PublishedIsWhole'
      <3>1. b_dist["candidate"].whole => b_made'[b_dist["candidate"].of] = b_made[b_dist["candidate"].of]
        BY <2>3 DEF RunKnows, B!Build
      <3> QED
        BY <2>2, <3>1, PublishedStays DEF BuildTyped
    <2> QED
      BY <2>4, <2>5, <2>6, <2>7
  <1> QED
    BY <1>1, <1>2, <1>3 DEF B!Confirm

\* A removal: the candidate goes first, and a part of a directory is not whole.
LEMMA ClearKeeps ==
  ASSUME BuildKnows, NEW i \in 1..3, B!Clear(i) \/ B!ClearCutOff(i)
  PROVE  BuildKnows'
  <1> USE DEF BuildKnows
  <1>a. BuildTyped
    OBVIOUS
  <1>1. b_run.at = B!ClearAt(i) /\ B!Removed[i] \in B!Dirs /\ B!Removed[i] \in Places
    BY PlacesOf DEF B!Clear, B!ClearCutOff
  <1>2. UNCHANGED <<b_head, b_env, b_src, b_out, b_made>>
    BY DEF B!Clear, B!ClearCutOff, B!Elsewhere
  <1>3. /\ b_count' \in [disturbed : Nat, crashed : Nat] /\ b_count'.disturbed = b_count.disturbed
    BY DEF B!Clear, B!ClearCutOff, B!Elsewhere, BuildTyped
  <1>4. /\ b_run' \in [at : BuildSteps, rev : Revisions \cup {0}, hashes : Pairs]
        /\ b_run'.at \in {"idle", "clear2", "clear3", "snapshot"}
    <2>1. B!AfterClear(i) \in {"clear2", "clear3", "snapshot"} /\ B!AfterClear(i) \in BuildSteps
      BY DEF B!AfterClear, B!ClearAt, BuildSteps, Clearing
    <2>2. B!Goto(B!AfterClear(i)) \/ B!Give
      BY DEF B!Clear, B!ClearCutOff
    <2> QED
      BY <1>a, <2>1, <2>2, GotoTyped
  <1>5. b_dist' \in [Places -> Results] /\ ~ b_dist'[B!Removed[i]].whole
        /\ \A d \in Places \ {B!Removed[i]} : b_dist'[d] = b_dist[d]
    <2>1. b_dist' = [b_dist EXCEPT ![B!Removed[i]] = B!Absent]
          \/ b_dist' = [b_dist EXCEPT ![B!Removed[i]] = [b_dist[B!Removed[i]] EXCEPT !.whole = FALSE]]
      BY DEF B!Clear, B!ClearCutOff
    <2>2. b_dist[B!Removed[i]] \in Results
      BY <1>1 DEF BuildTyped
    <2>3. /\ [b_dist[B!Removed[i]] EXCEPT !.whole = FALSE] \in Results
          /\ ~ [b_dist[B!Removed[i]] EXCEPT !.whole = FALSE].whole
      BY <2>2 DEF Results
    <2>4. ~ B!Absent.whole
      BY DEF B!Absent
    <2>5. PICK x \in Results : b_dist' = [b_dist EXCEPT ![B!Removed[i]] = x] /\ ~ x.whole
      BY <2>1, <2>3, <2>4, NothingTyped
    <2>6. b_dist \in [Places -> Results]
      BY DEF BuildTyped
    <2> HIDE DEF BuildKnows
    <2> QED
      BY ONLY <1>1, <2>5, <2>6
  <1>6. ~ b_dist'["candidate"].whole
    <2>1. CASE i = 1
      BY <2>1, <1>5, PlacesOf
    <2>2. CASE i # 1
      <3>1. b_run.at \in Clearing
        BY <1>1, <2>2 DEF B!ClearAt, Clearing
      <3>2. "candidate" \in Places
        BY DEF Places, B!Dirs
      <3> QED
        BY <1>5, <3>1, <3>2 DEF RunKnows
    <2> QED
      BY <2>1, <2>2
  <1>7. BuildTyped'
    BY <1>2, <1>3, <1>4, <1>5 DEF BuildTyped
  <1>8. RunKnows'
    <2>1. b_run.at \notin {"idle", "confirm"}
      BY <1>1 DEF B!ClearAt
    <2> QED
      BY <1>2, <1>4, <1>6, <2>1 DEF RunKnows, B!Build, Building, AfterTool, AfterBuilds,
         Compared, Publishing
  <1>9. OutsKnow' /\ HashKnows' /\ StagesKnow' /\ TollsKnown'
    BY <1>4 DEF OutsKnow, OutKnows, HashKnows, StagesKnow, TollsKnown,
       Publishing, Compared, AfterBuilds, AfterTool, Building, B!Both
  <1> QED
    BY <1>6, <1>7, <1>8, <1>9, NothingPublished

\* The builder goes on, its rev and hashes stay, as does what it looks at.
Moves(s) == /\ B!Goto(s) /\ s \in BuildSteps
            /\ UNCHANGED <<b_head, b_env, b_src, b_out, b_dist, b_made, b_count>>

\* Then the types stay, and what is published.
LEMMA MovesKeeps ==
  ASSUME BuildTyped, B!PublishedIsWhole, NEW s \in BuildSteps, Moves(s)
  PROVE  /\ BuildTyped' /\ B!PublishedIsWhole'
         /\ b_run'.at = s /\ b_run'.rev = b_run.rev /\ b_run'.hashes = b_run.hashes
         /\ UNCHANGED <<b_head, b_env, b_src, b_out, b_dist, b_made, b_count>> /\ B!Build' = B!Build
         /\ B!EnvironmentIsLocked' = B!EnvironmentIsLocked
  <1>1. UNCHANGED <<b_head, b_env, b_src, b_out, b_dist, b_made, b_count>> /\ B!Goto(s)
    BY DEF Moves
  <1>2. b_run' \in [at : BuildSteps, rev : Revisions \cup {0}, hashes : Pairs]
        /\ b_run'.at = s /\ b_run'.rev = b_run.rev /\ b_run'.hashes = b_run.hashes
    BY <1>1, GotoTyped
  <1>3. BuildTyped'
    BY <1>1, <1>2 DEF BuildTyped
  <1>4. B!PublishedIsWhole'
    BY <1>1, PublishedStays DEF BuildTyped
  <1> QED
    BY <1>1, <1>2, <1>3, <1>4 DEF B!Build, B!EnvironmentIsLocked, B!PythonIsLocked, B!PackagesAreLocked

\* The snapshots are taken.
LEMMA SnapshotKeeps == BuildKnows /\ B!Snapshot => BuildKnows'
  <1> SUFFICES ASSUME BuildKnows, B!Snapshot PROVE BuildKnows'
    OBVIOUS
  <1> USE DEF BuildKnows
  <1>1. /\ b_run' \in [at : BuildSteps, rev : Revisions \cup {0}, hashes : Pairs]
        /\ b_run'.at = "inputs" /\ b_run.at = "snapshot"
    BY GotoTyped DEF B!Snapshot, BuildSteps, Clearing
  <1>2. UNCHANGED <<b_head, b_env, b_dist, b_made, b_count>>
    BY DEF B!Snapshot, B!Elsewhere
  <1>3. b_src' \in [B!Both -> BOOLEAN] /\ b_out' \in [B!Both -> Outs]
    BY NothingTyped DEF B!Snapshot
  <1>4. BuildTyped'
    BY <1>1, <1>2, <1>3 DEF BuildTyped
  <1>5. RunKnows'
    BY <1>1, <1>2 DEF RunKnows, B!Build, Building, Clearing, AfterTool, AfterBuilds,
       Compared, Publishing
  <1>6. OutsKnow' /\ HashKnows' /\ StagesKnow' /\ TollsKnown'
    BY <1>1 DEF OutsKnow, OutKnows, HashKnows, StagesKnow, TollsKnown,
       Publishing, Compared, AfterBuilds, AfterTool, Building, B!Both
  <1>7. B!PublishedIsWhole'
    BY <1>2, PublishedStays DEF BuildTyped
  <1> QED
    BY <1>4, <1>5, <1>6, <1>7

\* The inputs are compared: from here on the snapshots are the commit.
LEMMA InputsKeeps == BuildKnows /\ B!Inputs => BuildKnows'
  <1> SUFFICES ASSUME BuildKnows, B!Inputs PROVE BuildKnows'
    OBVIOUS
  <1> USE DEF BuildKnows
  <1>1. CASE B!Give
    BY <1>1, GivesUp DEF B!Inputs, B!Elsewhere, BuildTyped
  <1>2. CASE ~ B!Give
    <2>1. b_run.at = "inputs" /\ B!TreesAreTheCommit /\ b_run.rev \in ValidRevisions /\ Moves("lock1")
          /\ "lock1" \in BuildSteps
      BY <1>2 DEF B!Inputs, B!Elsewhere, Moves, BuildSteps, Building
    <2>2. /\ BuildTyped' /\ B!PublishedIsWhole'
          /\ b_run'.at = "lock1" /\ b_run'.rev = b_run.rev /\ b_run'.hashes = b_run.hashes
          /\ UNCHANGED <<b_head, b_env, b_src, b_out, b_dist, b_made, b_count>> /\ B!Build' = B!Build
          /\ B!EnvironmentIsLocked' = B!EnvironmentIsLocked
      BY <2>1, MovesKeeps
    <2>3. RunKnows'
      BY <2>1, <2>2 DEF RunKnows, Clearing, Building, AfterTool, AfterBuilds, Compared, Publishing
    <2>4. OutsKnow' /\ HashKnows' /\ StagesKnow'
      BY <2>2 DEF OutsKnow, OutKnows, HashKnows, StagesKnow, Publishing, Compared,
         AfterBuilds, AfterTool, B!Both
    <2>5. TollsKnown'
      BY <2>1, <2>2 DEF TollsKnown, EnvToll, SrcToll, Off, B!TreesAreTheCommit, B!Both, BuildTyped
    <2> QED
      BY <2>2, <2>3, <2>4, <2>5
  <1> QED
    BY <1>1, <1>2

\* The lock is checked before a tool run.
LEMMA LockKeeps == ASSUME BuildKnows, NEW k \in B!Both, B!Lock(k) PROVE BuildKnows'
  <1> USE DEF BuildKnows
  <1>1. CASE B!Give
    BY <1>1, GivesUp DEF B!Lock, B!Elsewhere, BuildTyped
  <1>2. CASE ~ B!Give
    <2> DEFINE s == IF k = 1 THEN "tool1" ELSE "tool2"
    <2>0. /\ b_run.at = IF k = 1 THEN "lock1" ELSE "lock2"
          /\ <<"tool1", "tool2">>[k] = s /\ s \in BuildSteps
      BY DEF B!Lock, B!LockAt, B!Both, BuildSteps, Building, AfterTool
    <2>1. B!EnvironmentIsLocked /\ Moves(s)
      BY <1>2, <2>0 DEF B!Lock, B!Elsewhere, Moves
    <2>2. /\ BuildTyped' /\ B!PublishedIsWhole'
          /\ b_run'.at = s /\ b_run'.rev = b_run.rev /\ b_run'.hashes = b_run.hashes
          /\ UNCHANGED <<b_head, b_env, b_src, b_out, b_dist, b_made, b_count>> /\ B!Build' = B!Build
          /\ B!EnvironmentIsLocked' = B!EnvironmentIsLocked
      BY <2>0, <2>1, MovesKeeps
    <2>3. RunKnows'
      BY <2>0, <2>2 DEF RunKnows, Clearing, Building, AfterTool, AfterBuilds, Compared, Publishing
    <2>4. OutsKnow' /\ HashKnows' /\ StagesKnow'
      BY <2>0, <2>2 DEF OutsKnow, OutKnows, HashKnows, StagesKnow, Publishing, Compared,
         AfterBuilds, AfterTool, B!Both
    <2>5. TollsKnown'
      BY <2>0, <2>1, <2>2 DEF TollsKnown, EnvToll, SrcToll, Off, Hidden, B!Both, BuildTyped,
         Building, AfterTool
    <2> QED
      BY <2>2, <2>3, <2>4, <2>5
  <1> QED
    BY <1>1, <1>2

\* The types of what a tool run finds, and of its bytes.
LEMMA BytesTyped ==
  ASSUME BuildTyped, NEW k \in B!Both, NEW noise \in {0, 1}
  PROVE  LET b == B!Bytes(b_run.rev, b_src[k], B!EnvironmentIsLocked, noise)
         IN /\ b \in Packed /\ b \in Outs
            /\ b.rev = b_run.rev /\ b.touched = 0
            /\ b.clean <=> b_src[k]
            /\ b.locked <=> B!EnvironmentIsLocked
  BY DEF BuildTyped, B!Bytes, Packed, Outs, B!EnvironmentIsLocked, B!PythonIsLocked, B!PackagesAreLocked

\* A file on the disk stems from itself.
LEMMA StemsItself == ASSUME NEW b \in Packed PROVE Stems(b, b)
  BY DEF Stems, Packed

\* A tool run: what it gives tells what it found.
LEMMA ToolKeeps == ASSUME BuildKnows, NEW k \in B!Both, B!Tool(k) PROVE BuildKnows'
  <1> USE DEF BuildKnows
  <1> DEFINE s == IF k = 1 THEN "recheck1" ELSE "recheck2"
             old == IF k = 1 THEN "tool1" ELSE "tool2"
             n == B!Build
  <1>1. /\ b_run.at = old /\ <<"recheck1", "recheck2">>[k] = s /\ s \in BuildSteps /\ B!Goto(s)
        /\ old \in Building /\ n > 0 /\ n \in Nat /\ n = Len(b_made)
    BY DEF B!Tool, B!Both, BuildSteps, Building, AfterTool, RunKnows, B!Build, BuildTyped
  <1>2. PICK noise \in {0, 1} :
          LET b == B!Bytes(b_run.rev, b_src[k], B!EnvironmentIsLocked, noise)
          IN /\ b_out' = [b_out EXCEPT ![k] = b]
             /\ b_made' = [b_made EXCEPT ![n][k] = b]
    BY DEF B!Tool
  <1> DEFINE b == B!Bytes(b_run.rev, b_src[k], B!EnvironmentIsLocked, noise)
  <1>3. /\ b \in Packed /\ b \in Outs /\ b.rev = b_run.rev /\ b.touched = 0
        /\ b.clean <=> b_src[k]
        /\ b.locked <=> B!EnvironmentIsLocked
    BY BytesTyped
  <1>a. b_out' = [b_out EXCEPT ![k] = b] /\ b_made' = [b_made EXCEPT ![n] = [b_made[n] EXCEPT ![k] = b]]
    BY <1>2
  <1> HIDE DEF b
  <1>4. UNCHANGED <<b_head, b_env, b_src, b_dist, b_count>>
    BY DEF B!Tool, B!Elsewhere
  <1>5. /\ b_run' \in [at : BuildSteps, rev : Revisions \cup {0}, hashes : Pairs]
        /\ b_run'.at = s /\ b_run'.rev = b_run.rev
    BY <1>1, GotoTyped
  <1>6. /\ b_made' \in Seq(Pairs) /\ Len(b_made') = n /\ n \in 1..n
        /\ b_made'[n][k] = b /\ \A j \in B!Both \ {k} : b_made'[n][j] = b_made[n][j]
        /\ b_out' \in [B!Both -> Outs] /\ b_out'[k] = b /\ \A j \in B!Both \ {k} : b_out'[j] = b_out[j]
    <2> DEFINE p == [b_made[n] EXCEPT ![k] = b]
    <2>1. b_made \in Seq(Pairs) /\ n \in 1..Len(b_made) /\ b_out \in Pairs /\ b_made[n] \in Pairs
      BY <1>1 DEF BuildTyped, Pairs
    <2>2. p \in Pairs /\ p[k] = b /\ \A j \in B!Both \ {k} : p[j] = b_made[n][j]
      BY <2>1, <1>3, PairPut
    <2>3. b_made' = [b_made EXCEPT ![n] = p]
      BY <1>a
    <2>4. b_out' \in Pairs /\ b_out'[k] = b /\ \A j \in B!Both \ {k} : b_out'[j] = b_out[j]
      <3>1. b_out' = [b_out EXCEPT ![k] = b]
        BY <1>a
      <3>2. b_out \in Pairs /\ b \in Outs
        BY <2>1, <1>3
      <3> DEFINE q == [b_out EXCEPT ![k] = b]
      <3>3. q \in Pairs /\ q[k] = b /\ \A j \in B!Both \ {k} : q[j] = b_out[j]
        BY <3>2, PairPut
      <3> HIDE DEF q
      <3>4. b_out' = q
        BY <3>1 DEF q
      <3> QED
        BY ONLY <3>3, <3>4
    <2> HIDE DEF p
    <2>5. b_made' \in Seq(Pairs) /\ Len(b_made') = n /\ b_made'[n] = p
      BY ONLY <2>1, <2>2, <2>3, <1>1
    <2> QED
      BY <2>1, <2>2, <2>4, <2>5 DEF Pairs
  <1>7. B!EnvironmentIsLocked' <=> B!EnvironmentIsLocked
    BY <1>4 DEF B!EnvironmentIsLocked, B!PythonIsLocked, B!PackagesAreLocked
  <1>8. BuildTyped'
    BY <1>4, <1>5, <1>6 DEF BuildTyped
  <1>9. B!Build' = n
    BY <1>6 DEF B!Build
  <1> HIDE DEF n
  <1>10. RunKnows'
    BY <1>1, <1>4, <1>5, <1>9 DEF RunKnows, Clearing, Building, AfterTool, AfterBuilds, Compared,
       Publishing, n
  <1>11. \A j \in B!Both : OutKnows(j)'
    <2>1. OutKnows(k)'
      BY <1>3, <1>4, <1>6, <1>9, <1>5, StemsItself DEF OutKnows, BuildTyped
    <2>2. CASE k = 2
      <3>1. OutKnows(1) /\ b_run.at \in AfterTool(1)
        BY <1>1, <2>2 DEF OutsKnow, B!Both, AfterTool
      <3>2. OutKnows(1)'
        BY <3>1, <1>4, <1>5, <1>6, <1>9, <2>2 DEF OutKnows, B!Both, n
      <3> QED
        BY <2>1, <2>2, <3>2 DEF B!Both
    <2>3. CASE k = 1
      <3>1. OutKnows(2)'
        BY <1>5, <2>3 DEF OutKnows, AfterTool, AfterBuilds, Compared, Publishing
      <3> QED
        BY <2>1, <2>3, <3>1 DEF B!Both
    <2> QED
      BY <2>2, <2>3 DEF B!Both
  <1>12. OutsKnow'
    <2>1. CASE k = 2
      BY <1>3, <1>6, <1>11, <2>1 DEF OutsKnow, B!Both
    <2>2. CASE k = 1
      BY <1>5, <1>11, <2>2 DEF OutsKnow, AfterTool, AfterBuilds, Compared, Publishing
    <2> QED
      BY <2>1, <2>2 DEF B!Both
  <1>13. HashKnows' /\ StagesKnow'
    BY <1>5 DEF HashKnows, StagesKnow, Compared, Publishing
  <1>14. TollsKnown'
    <2>0. b_run.at \in Building /\ EnvToll(1) + EnvToll(2) <= b_count.disturbed
          /\ SrcToll(1) + SrcToll(2) <= b_count.disturbed
      BY <1>1 DEF TollsKnown
    <2>1. CASE k = 1
      BY <2>0, <2>1, <1>1, <1>3, <1>4, <1>5, <1>6, <1>7, <1>9
      DEF TollsKnown, EnvToll, SrcToll, Off, Hidden, B!Both, BuildTyped
    <2>2. CASE k = 2
      <3>1. b_run.at = "tool2" /\ b_run'.at = "recheck2" /\ 1 \in B!Both /\ 2 \in B!Both
        BY <1>1, <1>5, <2>2 DEF B!Both
      <3>2. b_made'[B!Build'][1] = b_made[B!Build][1] /\ b_made'[B!Build'][2] = b
        BY <1>6, <1>9, <2>2, <3>1 DEF n
      <3>3. EnvToll(1)' = EnvToll(1)
        BY <3>1, <3>2 DEF EnvToll
      <3>4. SrcToll(1)' = SrcToll(1)
        BY <3>1, <3>2 DEF SrcToll
      <3>5. EnvToll(2)' = EnvToll(2)
        BY <1>3, <1>7, <3>1, <3>2 DEF EnvToll, Off, Hidden
      <3>6. SrcToll(2)' = SrcToll(2)
        BY <1>3, <1>4, <2>2, <3>1, <3>2 DEF SrcToll, Off, Hidden
      <3> QED
        BY <1>4, <2>0, <3>3, <3>4, <3>5, <3>6 DEF TollsKnown
    <2> QED
      BY <2>1, <2>2 DEF B!Both
  <1>15. B!PublishedIsWhole'
    BY <1>1, <1>4, NothingPublished DEF RunKnows
  <1> QED
    BY <1>8, <1>10, <1>12, <1>13, <1>14, <1>15

\* The checks after a tool run.
LEMMA RecheckKeeps == ASSUME BuildKnows, NEW k \in B!Both, B!Recheck(k) PROVE BuildKnows'
  <1> USE DEF BuildKnows
  <1>1. CASE B!Give
    BY <1>1, GivesUp DEF B!Recheck, B!Elsewhere, BuildTyped
  <1>2. CASE ~ B!Give
    <2> DEFINE s == IF k = 1 THEN "lock2" ELSE "hash1"
    <2>0. /\ b_run.at = IF k = 1 THEN "recheck1" ELSE "recheck2"
          /\ <<"lock2", "hash1">>[k] = s /\ s \in BuildSteps
      BY DEF B!Recheck, B!Both, BuildSteps, Building, AfterTool, AfterBuilds
    <2>1. B!EnvironmentIsLocked /\ b_src[k] /\ Moves(s)
      BY <1>2, <2>0 DEF B!Recheck, B!Elsewhere, Moves
    <2>2. /\ BuildTyped' /\ B!PublishedIsWhole'
          /\ b_run'.at = s /\ b_run'.rev = b_run.rev /\ b_run'.hashes = b_run.hashes
          /\ UNCHANGED <<b_head, b_env, b_src, b_out, b_dist, b_made, b_count>> /\ B!Build' = B!Build
          /\ B!EnvironmentIsLocked' = B!EnvironmentIsLocked
      BY <2>0, <2>1, MovesKeeps
    <2>3. RunKnows'
      BY <2>0, <2>2 DEF RunKnows, Clearing, Building, AfterTool, AfterBuilds, Compared, Publishing
    <2>4. OutsKnow' /\ HashKnows' /\ StagesKnow'
      BY <2>0, <2>2 DEF OutsKnow, OutKnows, HashKnows, StagesKnow, Publishing, Compared,
         AfterBuilds, AfterTool, B!Both
    <2>5. TollsKnown'
      BY <2>0, <2>1, <2>2 DEF TollsKnown, EnvToll, SrcToll, Off, Hidden, B!Both, BuildTyped,
         Building, AfterTool, AfterBuilds
    <2> QED
      BY <2>2, <2>3, <2>4, <2>5
  <1> QED
    BY <1>1, <1>2

\* The hashes are taken one after the other, and compared.
LEMMA HashKeeps == BuildKnows /\ (B!Hash1 \/ B!Hash2) => BuildKnows'
  <1> SUFFICES ASSUME BuildKnows, B!Hash1 \/ B!Hash2 PROVE BuildKnows'
    OBVIOUS
  <1> USE DEF BuildKnows
  <1>0. /\ b_run.hashes \in Pairs /\ b_out[1] \in Outs /\ b_out[2] \in Outs /\ B!Build' = B!Build
        /\ b_run \in [at : BuildSteps, rev : Revisions \cup {0}, hashes : Pairs]
        /\ UNCHANGED <<b_head, b_env, b_src, b_out, b_dist, b_made, b_count>>
        /\ B!EnvironmentIsLocked' = B!EnvironmentIsLocked
    BY DEF BuildTyped, B!Both, B!Build, B!Hash1, B!Hash2, B!Elsewhere, B!EnvironmentIsLocked, B!PythonIsLocked,
       B!PackagesAreLocked
  <1>1. CASE B!Hash1
    <2>1. b_run.at = "hash1" /\ b_run' = [b_run EXCEPT !.at = "hash2", !.hashes[1] = b_out[1]]
      BY <1>1 DEF B!Hash1
    <2>2. [b_run.hashes EXCEPT ![1] = b_out[1]] \in Pairs /\ [b_run.hashes EXCEPT ![1] = b_out[1]][1] = b_out[1]
      BY <1>0, PairPut DEF B!Both
    <2>3. /\ b_run' \in [at : BuildSteps, rev : Revisions \cup {0}, hashes : Pairs]
          /\ b_run'.at = "hash2" /\ b_run'.rev = b_run.rev /\ b_run'.hashes[1] = b_out[1]
      BY <1>0, <2>1, <2>2 DEF BuildSteps, Building, AfterTool, AfterBuilds
    <2>4. BuildTyped' /\ B!PublishedIsWhole'
      BY <1>0, <2>3, PublishedStays DEF BuildTyped
    <2>5. RunKnows'
      BY <1>0, <2>1, <2>3 DEF RunKnows, Clearing, Building, AfterTool, AfterBuilds
    <2>6. OutsKnow' /\ StagesKnow'
      BY <1>0, <2>1, <2>3 DEF OutsKnow, OutKnows, StagesKnow, Publishing, Compared,
         AfterBuilds, AfterTool, B!Both
    <2>7. HashKnows'
      BY <1>0, <2>1, <2>3 DEF HashKnows, OutsKnow, OutKnows, Compared, Publishing, AfterBuilds,
         AfterTool, B!Both
    <2>8. TollsKnown'
      BY <1>0, <2>1, <2>3 DEF TollsKnown, EnvToll, SrcToll, B!Both, Building, AfterTool, AfterBuilds
    <2> QED
      BY <2>4, <2>5, <2>6, <2>7, <2>8
  <1>2. CASE B!Hash2 /\ B!Give
    BY <1>0, <1>2, GivesUp DEF BuildTyped
  <1>3. CASE B!Hash2 /\ ~ B!Give
    <2>1. /\ b_run.at = "hash2" /\ b_run' = [b_run EXCEPT !.at = "authority", !.hashes[2] = b_out[2]]
          /\ b_run.hashes[1] = b_out[2]
      BY <1>3 DEF B!Hash2
    <2>2. [b_run.hashes EXCEPT ![2] = b_out[2]] \in Pairs /\ [b_run.hashes EXCEPT ![2] = b_out[2]][2] = b_out[2]
      BY <1>0, PairPut DEF B!Both
    <2>3. /\ b_run' \in [at : BuildSteps, rev : Revisions \cup {0}, hashes : Pairs]
          /\ b_run'.at = "authority" /\ b_run'.rev = b_run.rev /\ b_run'.hashes[2] = b_out[2]
      BY <1>0, <2>1, <2>2 DEF BuildSteps, Building, AfterTool, AfterBuilds, Compared
    <2>4. BuildTyped' /\ B!PublishedIsWhole'
      BY <1>0, <2>3, PublishedStays DEF BuildTyped
    <2>5. RunKnows'
      BY <1>0, <2>1, <2>3 DEF RunKnows, Clearing, Building, AfterTool, AfterBuilds, Compared
    <2>6. OutsKnow' /\ StagesKnow'
      BY <1>0, <2>1, <2>3 DEF OutsKnow, OutKnows, StagesKnow, Publishing, Compared,
         AfterBuilds, AfterTool, B!Both
    <2>7. b_out[2] = b_made[B!Build][1] /\ b_out[2] = b_made[B!Build][2]
      <3>1. /\ Stems(b_out[2], b_made[B!Build][1]) /\ Stems(b_out[2], b_made[B!Build][2])
            /\ b_out[2].touched = 0 /\ b_made[B!Build][1].touched = 0 /\ b_made[B!Build][2].touched = 0
        BY <2>1 DEF HashKnows, OutsKnow, OutKnows, AfterTool, AfterBuilds, B!Both
      <3> QED
        BY <3>1 DEF Stems, Packed
    <2>8. HashKnows'
      BY <1>0, <2>3, <2>7 DEF HashKnows
    <2>9. TollsKnown'
      BY <1>0, <2>1, <2>3 DEF TollsKnown, EnvToll, SrcToll, B!Both, Building, AfterTool, AfterBuilds,
         Compared
    <2> QED
      BY <2>4, <2>5, <2>6, <2>8, <2>9
  <1> QED
    BY <1>1, <1>2, <1>3

\* The steps after the comparison keep what was compared, whatever they write.
LEMMA ComparedKeeps ==
  ASSUME BuildKnows, NEW s \in Compared, b_run.at \in Compared, B!Goto(s),
         UNCHANGED <<b_head, b_env, b_src, b_out, b_made, b_count>>
  PROVE  /\ b_run' \in [at : BuildSteps, rev : Revisions \cup {0}, hashes : Pairs]
         /\ b_run'.at = s /\ b_run'.hashes = b_run.hashes
         /\ B!Build' = B!Build
         /\ OutsKnow' /\ HashKnows' /\ TollsKnown'
         /\ b_run'.at \notin {"idle", "confirm"} => B!Build' > 0
         /\ b_run'.rev \in ValidRevisions
  <1> USE DEF BuildKnows
  <1>1. s \in BuildSteps
    BY DEF BuildSteps, Building, AfterTool, AfterBuilds
  <1>2. /\ b_run' \in [at : BuildSteps, rev : Revisions \cup {0}, hashes : Pairs]
        /\ b_run'.at = s /\ b_run'.rev = b_run.rev /\ b_run'.hashes = b_run.hashes
        /\ B!Build' = B!Build /\ B!EnvironmentIsLocked' = B!EnvironmentIsLocked
    BY <1>1, GotoTyped DEF B!Build, B!EnvironmentIsLocked, B!PythonIsLocked, B!PackagesAreLocked
  <1>3. OutsKnow' /\ HashKnows'
    BY <1>2 DEF OutsKnow, OutKnows, HashKnows, AfterBuilds, AfterTool, B!Both, Compared, Publishing
  <1>4. TollsKnown'
    <2>1. b_run.at \in Building
      BY DEF Building, AfterTool, AfterBuilds
    <2>2. /\ EnvToll(1) = Hidden(b_made[B!Build][1].locked, TRUE)
          /\ EnvToll(2) = Hidden(b_made[B!Build][2].locked, TRUE)
          /\ SrcToll(1) = Hidden(b_made[B!Build][1].clean, TRUE)
          /\ SrcToll(2) = Hidden(b_made[B!Build][2].clean, TRUE)
      BY DEF EnvToll, SrcToll, Compared, Publishing
    <2>3. /\ EnvToll(1)' = Hidden(b_made[B!Build][1].locked, TRUE)
          /\ EnvToll(2)' = Hidden(b_made[B!Build][2].locked, TRUE)
          /\ SrcToll(1)' = Hidden(b_made[B!Build][1].clean, TRUE)
          /\ SrcToll(2)' = Hidden(b_made[B!Build][2].clean, TRUE)
      BY <1>2 DEF EnvToll, SrcToll, Compared, Publishing, Hidden
    <2> QED
      BY <2>1, <2>2, <2>3 DEF TollsKnown
  <1> QED
    BY <1>2, <1>3, <1>4 DEF RunKnows, Compared, Building, AfterTool, AfterBuilds, Publishing

\* The last look, and the old stages go.
LEMMA AuthorityKeeps == BuildKnows /\ B!Authority => BuildKnows'
  <1> SUFFICES ASSUME BuildKnows, B!Authority PROVE BuildKnows'
    OBVIOUS
  <1> USE DEF BuildKnows
  <1>1. CASE B!Give /\ UNCHANGED b_dist
    BY <1>1, GivesUp DEF B!Authority, B!Elsewhere, BuildTyped
  <1>2. CASE ~ (B!Give /\ UNCHANGED b_dist)
    <2>1. /\ b_run.at = "authority" /\ B!Goto("copy1")
          /\ b_dist' = [d \in DOMAIN b_dist |-> IF d \in B!Dirs THEN b_dist[d] ELSE B!Absent]
          /\ UNCHANGED <<b_head, b_env, b_src, b_out, b_made, b_count>>
      BY <1>2 DEF B!Authority, B!Elsewhere
    <2>2. /\ b_run' \in [at : BuildSteps, rev : Revisions \cup {0}, hashes : Pairs]
          /\ b_run'.at = "copy1" /\ b_run'.hashes = b_run.hashes /\ B!Build' = B!Build
          /\ OutsKnow' /\ HashKnows' /\ TollsKnown' /\ B!Build' > 0 /\ b_run'.rev \in ValidRevisions
      BY <2>1, ComparedKeeps DEF Compared
    <2>3. b_dist' \in [Places -> Results] /\ \A d \in B!Dirs : b_dist'[d] = b_dist[d]
      BY <2>1, NothingTyped DEF BuildTyped, Places
    <2>4. BuildTyped'
      BY <2>1, <2>2, <2>3 DEF BuildTyped
    <2>5. RunKnows' /\ ~ b_dist'["candidate"].whole
      BY <2>1, <2>2, <2>3 DEF RunKnows, B!Dirs, Clearing, Building, AfterTool, AfterBuilds, Compared
    <2>6. StagesKnow'
      BY <2>2 DEF StagesKnow, Publishing
    <2> QED
      BY <2>2, <2>4, <2>5, <2>6, NothingPublished
  <1> QED
    BY <1>1, <1>2

\* The second output is copied to the stages.
LEMMA CopyKeeps == ASSUME BuildKnows, NEW i \in 1..3, B!Copy(i) PROVE BuildKnows'
  <1> USE DEF BuildKnows
  <1>1. CASE B!Give /\ UNCHANGED b_dist
    BY <1>1, GivesUp DEF B!Copy, B!Elsewhere, BuildTyped
  <1>2. CASE ~ (B!Give /\ UNCHANGED b_dist)
    <2> DEFINE s == IF i = 1 THEN "copy2" ELSE IF i = 2 THEN "copy3" ELSE "staged"
               p == IF i = 1 THEN ".artifact" ELSE IF i = 2 THEN ".harness" ELSE ".compliance"
    <2>0. /\ b_run.at = IF i = 1 THEN "copy1" ELSE IF i = 2 THEN "copy2" ELSE "copy3"
          /\ (IF i = 3 THEN "staged" ELSE B!CopyAt(i + 1)) = s /\ B!Stage(B!Removed[i]) = p
      BY PlacesOf DEF B!Copy, B!CopyAt
    <2>1. /\ B!Goto(s) /\ b_dist' = [b_dist EXCEPT ![p] = B!Copied]
          /\ UNCHANGED <<b_head, b_env, b_src, b_out, b_made, b_count>>
      BY <1>2, <2>0 DEF B!Copy, B!Elsewhere
    <2>2. /\ b_run' \in [at : BuildSteps, rev : Revisions \cup {0}, hashes : Pairs]
          /\ b_run'.at = s /\ b_run'.hashes = b_run.hashes /\ B!Build' = B!Build
          /\ OutsKnow' /\ HashKnows' /\ TollsKnown' /\ B!Build' > 0 /\ b_run'.rev \in ValidRevisions
      BY <2>0, <2>1, ComparedKeeps DEF Compared
    <2>3. B!Copied \in Results /\ B!Copied.whole /\ B!Copied.of = B!Build
      BY DEF B!Copied, Results, BuildTyped, B!Both, B!Build
    <2>4. p \in Places /\ p \notin B!Dirs /\ b_dist \in [Places -> Results]
      BY DEF Places, B!Dirs, BuildTyped
    <2>5. /\ b_dist' \in [Places -> Results] /\ b_dist'[p] = B!Copied
          /\ \A d \in Places \ {p} : b_dist'[d] = b_dist[d]
      <3>1. b_dist' = [b_dist EXCEPT ![p] = B!Copied] /\ B!Copied \in Results
        BY <2>1, <2>3
      <3> QED
        BY ONLY <2>4, <3>1
    <2>6. BuildTyped'
      BY <2>1, <2>2, <2>5 DEF BuildTyped
    <2>7. RunKnows' /\ ~ b_dist'["candidate"].whole
      BY <2>0, <2>2, <2>4, <2>5
      DEF RunKnows, Places, B!Dirs, Clearing, Building, AfterTool, AfterBuilds, Compared
    <2>8. StagesKnow'
      <3>1. {".artifact", ".harness", ".compliance"} \subseteq Places
        BY DEF Places
      <3>2. b_dist'[p].whole /\ b_dist'[p].of = B!Build'
        BY <2>2, <2>3, <2>5
      <3> QED
        BY <2>0, <2>2, <2>5, <3>1, <3>2 DEF StagesKnow, Ready, Publishing
    <2> QED
      BY <2>2, <2>6, <2>7, <2>8, NothingPublished
  <1> QED
    BY <1>1, <1>2

\* The copies are what was hashed.
LEMMA StagedKeeps == BuildKnows /\ B!Staged => BuildKnows'
  <1> SUFFICES ASSUME BuildKnows, B!Staged PROVE BuildKnows'
    OBVIOUS
  <1> USE DEF BuildKnows
  <1>1. CASE B!Give
    BY <1>1, GivesUp DEF B!Staged, B!Elsewhere, BuildTyped
  <1>2. CASE ~ B!Give
    <2>1. /\ b_run.at = "staged" /\ B!Goto("publish1")
          /\ \A d \in B!Dirs : b_dist[B!Stage(d)].bytes = b_run.hashes[2]
          /\ UNCHANGED <<b_head, b_env, b_src, b_out, b_made, b_count, b_dist>>
      BY <1>2 DEF B!Staged, B!Elsewhere
    <2>2. /\ b_run' \in [at : BuildSteps, rev : Revisions \cup {0}, hashes : Pairs]
          /\ b_run'.at = "publish1" /\ b_run'.hashes = b_run.hashes /\ B!Build' = B!Build
          /\ OutsKnow' /\ HashKnows' /\ TollsKnown' /\ B!Build' > 0 /\ b_run'.rev \in ValidRevisions
      BY <2>1, ComparedKeeps DEF Compared, Publishing
    <2>3. BuildTyped'
      BY <2>1, <2>2 DEF BuildTyped
    <2>4. RunKnows' /\ ~ b_dist'["candidate"].whole
      BY <2>1, <2>2
      DEF RunKnows, Clearing, Building, AfterTool, AfterBuilds, Compared, Publishing
    <2>5. b_dist[".artifact"].bytes = b_run.hashes[2]
      BY <2>1, PlacesOf DEF B!Dirs
    <2>6. StagesKnow'
      BY <2>1, <2>2, <2>5 DEF StagesKnow, Ready, Publishing
    <2> QED
      BY <2>2, <2>3, <2>4, <2>6, NothingPublished
  <1> QED
    BY <1>1, <1>2

\* The renames before the last one: still no candidate.
LEMMA PublishKeeps == ASSUME BuildKnows, NEW i \in 1..2, B!Publish(i) PROVE BuildKnows'
  <1> USE DEF BuildKnows
  <1> DEFINE s == IF i = 1 THEN "publish2" ELSE "publish3"
             d == IF i = 1 THEN "compliance" ELSE "harness"
             p == IF i = 1 THEN ".compliance" ELSE ".harness"
  <1>0. /\ b_run.at = IF i = 1 THEN "publish1" ELSE "publish2"
        /\ B!Published[i] = d /\ B!Stage(d) = p /\ i # 3 /\ B!PublishAt(i + 1) = s
    BY PlacesOf DEF B!Publish, B!PublishAt
  <1>1. /\ B!Goto(s) /\ b_dist' = [b_dist EXCEPT ![d] = b_dist[p], ![p] = B!Absent]
        /\ UNCHANGED <<b_head, b_env, b_src, b_out, b_made, b_count>>
    BY <1>0 DEF B!Publish, B!Elsewhere
  <1>2. /\ b_run' \in [at : BuildSteps, rev : Revisions \cup {0}, hashes : Pairs]
        /\ b_run'.at = s /\ b_run'.hashes = b_run.hashes /\ B!Build' = B!Build
        /\ OutsKnow' /\ HashKnows' /\ TollsKnown' /\ B!Build' > 0 /\ b_run'.rev \in ValidRevisions
    BY <1>0, <1>1, ComparedKeeps DEF Compared, Publishing
  <1>3. d \in Places /\ p \in Places /\ d # p /\ b_dist \in [Places -> Results]
    BY DEF Places, B!Dirs, BuildTyped
  <1>4. /\ b_dist' \in [Places -> Results] /\ b_dist'[d] = b_dist[p]
        /\ \A x \in Places \ {p, d} : b_dist'[x] = b_dist[x]
    BY ONLY <1>1, <1>3, NothingTyped
  <1>5. BuildTyped'
    BY <1>1, <1>2, <1>4 DEF BuildTyped
  <1>6. RunKnows' /\ ~ b_dist'["candidate"].whole
    <2>1. "candidate" \in Places \ {p, d}
      BY DEF Places, B!Dirs
    <2>2. ~ b_dist["candidate"].whole
      BY <1>0 DEF RunKnows, Building, AfterTool, AfterBuilds, Compared, Publishing
    <2>3. ~ b_dist'["candidate"].whole
      BY <1>4, <2>1, <2>2
    <2> QED
      BY <1>2, <2>3 DEF RunKnows, Clearing, Building, AfterTool, AfterBuilds, Compared, Publishing
  <1>7. StagesKnow'
    <2>1. {".artifact", ".harness", ".compliance", "compliance", "harness"} \subseteq Places
      BY DEF Places, B!Dirs
    <2>2. Ready(p)
      BY <1>0 DEF StagesKnow, Publishing
    <2>3. Ready(d)'
      BY <1>2, <1>4, <2>2 DEF Ready
    <2> QED
      BY <1>0, <1>2, <1>4, <2>1, <2>3 DEF StagesKnow, Ready, Publishing
  <1> QED
    BY <1>2, <1>5, <1>6, <1>7, NothingPublished

\* The last rename: what can be found now was built twice.
LEMMA PublishesWhole == BuildKnows /\ B!Publish(3) => BuildKnows'
  <1> SUFFICES ASSUME BuildKnows, B!Publish(3) PROVE BuildKnows'
    OBVIOUS
  <1> USE DEF BuildKnows
  <1>a. BuildTyped
    OBVIOUS
  <1>0. b_run.at = "publish3" /\ B!Published[3] = "candidate" /\ B!Stage("candidate") = ".artifact"
    BY PlacesOf DEF B!Publish, B!PublishAt
  <1>1. /\ B!Give /\ b_dist' = [b_dist EXCEPT !["candidate"] = b_dist[".artifact"], ![".artifact"] = B!Absent]
        /\ UNCHANGED <<b_head, b_env, b_src, b_out, b_made, b_count>>
    BY <1>0 DEF B!Publish, B!Elsewhere
  <1>2. /\ b_run' \in [at : BuildSteps, rev : Revisions \cup {0}, hashes : Pairs]
        /\ b_run'.at = "idle"
    BY <1>a, <1>1, GotoTyped
  <1>3. /\ "candidate" \in Places /\ ".artifact" \in Places /\ b_dist \in [Places -> Results]
        /\ {"compliance", "harness"} \subseteq Places
    BY DEF Places, B!Dirs, BuildTyped
  <1>4. /\ b_dist' \in [Places -> Results] /\ b_dist'["candidate"] = b_dist[".artifact"]
        /\ b_dist'["compliance"] = b_dist["compliance"] /\ b_dist'["harness"] = b_dist["harness"]
    BY ONLY <1>1, <1>3, NothingTyped
  <1>5. BuildTyped'
    BY <1>1, <1>2, <1>4 DEF BuildTyped
  <1>6. /\ Ready(".artifact") /\ Ready("compliance") /\ Ready("harness")
        /\ b_dist[".artifact"].bytes = b_run.hashes[2] /\ B!Build > 0
        /\ b_run.hashes[2] = b_made[B!Build][1] /\ b_run.hashes[2] = b_made[B!Build][2] /\ b_run.rev \in ValidRevisions
    BY <1>0 DEF StagesKnow, Publishing, HashKnows, RunKnows, Compared, Building, AfterTool, AfterBuilds
  <1>7. RunKnows' /\ OutsKnow' /\ HashKnows' /\ StagesKnow' /\ TollsKnown'
    <2>0. B!Build \in Nat /\ B!Build' = B!Build
      BY <1>1 DEF B!Build, BuildTyped
    <2>1. b_dist'["candidate"].of \in 1..B!Build'
      BY <1>4, <1>6, <2>0 DEF Ready
    <2> QED
      BY <1>2, <2>1 DEF RunKnows, OutsKnow, OutKnows, HashKnows, StagesKnow, TollsKnown,
         Publishing, Compared, AfterBuilds, AfterTool, Building, Clearing, B!Both
  <1>8. B!PublishedTogether'
    BY <1>4, <1>6 DEF B!PublishedTogether, B!Dirs, Ready
  <1>9. B!PublishedIsReproduced'
    <2> DEFINE b == b_run.hashes[2]
    <2>1. b \in Packed /\ b.rev = b_run.rev
      BY <1>0, <1>6 DEF OutsKnow, OutKnows, B!Both, AfterTool, AfterBuilds, Compared, Publishing, Stems
    <2>2. /\ Hidden(b.locked, TRUE) + Hidden(b.locked, TRUE) <= b_count.disturbed
          /\ Hidden(b.clean, TRUE) + Hidden(b.clean, TRUE) <= b_count.disturbed
      BY <1>0, <1>6 DEF TollsKnown, EnvToll, SrcToll, Building, AfterTool, AfterBuilds, Compared,
         Publishing
    <2>3. (b.locked /\ b.clean) \/ b_count.disturbed >= 4
      BY <2>1, <2>2 DEF Hidden, Off, BuildTyped, Packed
    <2>4. b_dist'["candidate"].bytes = b /\ b_dist'["candidate"].of = B!Build
      BY <1>4, <1>6 DEF Ready
    <2> QED
      BY <1>1, <1>6, <2>1, <2>3, <2>4 DEF B!PublishedIsReproduced
  <1> QED
    BY <1>5, <1>7, <1>8, <1>9 DEF B!PublishedIsWhole

-----------------------------------------------------------------------------
(* Others *)

\* A disturbance adds to the count, and leaves the builder and what it has made.
LEMMA DisturbKeeps ==
  ASSUME BuildKnows, B!Disturb, b_head' \in Revisions, b_env' \in SUBSET {"python", "packages"},
         b_src' \in [B!Both -> BOOLEAN], b_out' \in [B!Both -> Outs]
  PROVE  /\ BuildTyped' /\ RunKnows' /\ StagesKnow' /\ B!PublishedIsWhole' /\ B!Build' = B!Build
         /\ b_count'.disturbed = b_count.disturbed + 1 /\ b_count.disturbed \in Nat
         /\ UNCHANGED <<b_dist, b_run, b_made>>
  <1> USE DEF BuildKnows
  <1>1. /\ b_count' \in [disturbed : Nat, crashed : Nat] /\ b_count.disturbed \in Nat
        /\ b_count'.disturbed = b_count.disturbed + 1
        /\ UNCHANGED <<b_dist, b_run, b_made>> /\ B!Build' = B!Build
    BY DEF B!Disturb, BuildTyped, B!Build
  <1>2. BuildTyped'
    BY <1>1 DEF BuildTyped
  <1>3. RunKnows' /\ StagesKnow'
    BY <1>1 DEF RunKnows, StagesKnow, Ready
  <1>4. B!PublishedIsWhole'
    BY <1>1, PublishedStays
  <1> QED
    BY <1>1, <1>2, <1>3, <1>4

\* While the outputs stay, what is known of them stays.
LEMMA OutsStay ==
  ASSUME BuildKnows, UNCHANGED <<b_out, b_made, b_run>>, B!Build' = B!Build,
         b_count.disturbed \in Nat, b_count'.disturbed \in Nat, b_count'.disturbed >= b_count.disturbed
  PROVE  OutsKnow' /\ HashKnows'
  <1>1. \A k \in B!Both : OutKnows(k)'
    <2> SUFFICES ASSUME NEW k \in B!Both PROVE OutKnows(k)'
      OBVIOUS
    <2>1. OutKnows(k) /\ b_out[k] \in Outs
      BY DEF BuildKnows, OutsKnow, BuildTyped
    <2>2. Stems(b_out[k], b_made[B!Build][k]) => b_out[k].touched \in Nat
      BY DEF Stems, Packed
    <2> QED
      BY <2>1, <2>2 DEF OutKnows, Stems
  <1>2. HashKnows'
    <2>1. Stems(b_run.hashes[1], b_made[B!Build][1]) => b_run.hashes[1].touched \in Nat
      BY DEF Stems, Packed
    <2> QED
      BY <2>1 DEF BuildKnows, HashKnows, Stems
  <1> QED
    BY <1>1, <1>2 DEF BuildKnows, OutsKnow

\* The checkout, the environment and the snapshots change.
LEMMA OutsideKeeps ==
  ASSUME BuildKnows, NEW k \in B!Both, B!Checkout \/ B!Install \/ B!EditSource(k)
  PROVE  BuildKnows'
  <1> USE DEF BuildKnows
  <1>1. /\ B!Disturb /\ b_head' \in Revisions /\ b_env' \in SUBSET {"python", "packages"}
        /\ b_src' \in [B!Both -> BOOLEAN] /\ b_out' \in [B!Both -> Outs] /\ UNCHANGED b_out
    BY DEF B!Checkout, B!Install, B!EditSource, BuildTyped
  <1>2. /\ BuildTyped' /\ RunKnows' /\ StagesKnow' /\ B!PublishedIsWhole' /\ B!Build' = B!Build
        /\ b_count'.disturbed = b_count.disturbed + 1 /\ b_count.disturbed \in Nat
        /\ UNCHANGED <<b_dist, b_run, b_made>>
    BY <1>1, DisturbKeeps
  <1>3. OutsKnow' /\ HashKnows'
    BY <1>1, <1>2, OutsStay
  <1>4. TollsKnown'
    <2>1. b_src \in [B!Both -> BOOLEAN]
      BY DEF BuildTyped
    <2>2. CASE UNCHANGED b_env
      <3>1. /\ EnvToll(1)' = EnvToll(1)
            /\ EnvToll(2)' = EnvToll(2)
        BY <1>2, <2>2 DEF EnvToll, B!EnvironmentIsLocked, B!PythonIsLocked, B!PackagesAreLocked, Off, Hidden
      <3>2. SrcToll(1)' + SrcToll(2)' <= SrcToll(1) + SrcToll(2) + 1
            /\ SrcToll(1) \in 0..2 /\ SrcToll(2) \in 0..2
            /\ SrcToll(1)' \in 0..2 /\ SrcToll(2)' \in 0..2
        <4>1. UNCHANGED b_src \/ b_src' = [b_src EXCEPT ![k] = ~ b_src[k]]
          BY DEF B!Checkout, B!Install, B!EditSource
        <4>2. \/ b_src'[1] = b_src[1]
              \/ b_src'[2] = b_src[2]
          BY <4>1, <2>1 DEF B!Both
        <4>3. /\ b_src'[1] = b_src[1] => SrcToll(1)' = SrcToll(1)
              /\ b_src'[2] = b_src[2] => SrcToll(2)' = SrcToll(2)
          BY <1>2 DEF SrcToll, Hidden, Off
        <4>4. /\ SrcToll(1) \in 0..2 /\ SrcToll(1)' \in 0..2
              /\ SrcToll(1)' <= SrcToll(1) + 1
          BY <1>2 DEF SrcToll, Hidden, Off
        <4>5. /\ SrcToll(2) \in 0..2 /\ SrcToll(2)' \in 0..2
              /\ SrcToll(2)' <= SrcToll(2) + 1
          BY <1>2 DEF SrcToll, Hidden, Off
        <4> QED
          BY <4>2, <4>3, <4>4, <4>5
      <3>3. EnvToll(1) \in 0..2 /\ EnvToll(2) \in 0..2
        BY DEF EnvToll, Hidden, Off
      <3> QED
        BY <1>2, <3>1, <3>2, <3>3 DEF TollsKnown
    <2>3. CASE UNCHANGED b_src
      <3>1. /\ SrcToll(1)' = SrcToll(1)
            /\ SrcToll(2)' = SrcToll(2)
        BY <1>2, <2>3 DEF SrcToll, Off, Hidden
      <3>2. /\ EnvToll(1) \in 0..2 /\ EnvToll(2) \in 0..2
            /\ SrcToll(1) \in 0..2 /\ SrcToll(2) \in 0..2
            /\ EnvToll(1)' \in 0..2 /\ EnvToll(2)' \in 0..2
        BY DEF EnvToll, SrcToll, Hidden, Off
      <3>3. EnvToll(1)' <= EnvToll(1) + 1 /\ EnvToll(2)' <= EnvToll(2) + 1
        BY <1>2 DEF EnvToll, Hidden, Off
      <3>4. EnvToll(1)' = EnvToll(1) \/ EnvToll(2)' = EnvToll(2)
        BY <1>2 DEF EnvToll, Hidden, Off
      <3> QED
        BY <1>2, <3>1, <3>2, <3>3, <3>4 DEF TollsKnown
    <2> QED
      BY <2>2, <2>3 DEF B!Checkout, B!Install, B!EditSource
  <1> QED
    BY <1>2, <1>3, <1>4

\* An output is changed, never in the same way again.
LEMMA EditOutputKeeps == ASSUME BuildKnows, NEW k \in B!Both, B!EditOutput(k) PROVE BuildKnows'
  <1> USE DEF BuildKnows
  <1> DEFINE n == b_count.disturbed + 1
             x == [b_out[k] EXCEPT !.touched = n]
  <1>1. B!Disturb /\ b_out[k] # <<>> /\ b_out' = [b_out EXCEPT ![k] = x] /\ UNCHANGED <<b_head, b_dirty, b_env, b_src>>
    BY DEF B!EditOutput
  <1>2. b_out \in Pairs /\ b_out[k] \in Packed /\ n \in Nat
    BY <1>1 DEF BuildTyped, Outs, Pairs
  <1>3. x \in Packed /\ x \in Outs /\ x.touched = n /\ (\A b : Stems(b_out[k], b) => Stems(x, b))
    BY <1>2 DEF Packed, Outs, Stems
  <1>4. b_out' \in Pairs /\ b_out'[k] = x /\ \A j \in B!Both \ {k} : b_out'[j] = b_out[j]
    <2> HIDE DEF x
    <2> DEFINE q == [b_out EXCEPT ![k] = x]
    <2>1. q \in Pairs /\ q[k] = x /\ \A j \in B!Both \ {k} : q[j] = b_out[j]
      BY <1>2, <1>3, PairPut
    <2>2. b_out' = q
      BY <1>1
    <2> HIDE DEF q
    <2> QED
      BY ONLY <2>1, <2>2
  <1> HIDE DEF x
  <1>5. /\ b_head' \in Revisions /\ b_env' \in SUBSET {"python", "packages"}
        /\ b_src' \in [B!Both -> BOOLEAN] /\ b_out' \in [B!Both -> Outs]
    BY <1>1, <1>4 DEF BuildTyped, Pairs
  <1>6. /\ BuildTyped' /\ RunKnows' /\ StagesKnow' /\ B!PublishedIsWhole' /\ B!Build' = B!Build
        /\ b_count'.disturbed = b_count.disturbed + 1 /\ b_count.disturbed \in Nat
        /\ UNCHANGED <<b_dist, b_run, b_made>>
    BY <1>1, <1>5, DisturbKeeps
  <1>7. \A j \in B!Both : OutKnows(j)'
    <2> SUFFICES ASSUME NEW j \in B!Both PROVE OutKnows(j)'
      OBVIOUS
    <2>1. OutKnows(j)
      BY DEF OutsKnow
    <2>2. Stems(b_out[j], b_made[B!Build][j]) => b_out[j].touched \in Nat
      BY DEF Stems, Packed
    <2>3. CASE j = k
      BY <1>3, <1>4, <1>6, <2>1, <2>3 DEF OutKnows, Stems
    <2>4. CASE j # k
      <3>1. b_out'[j] = b_out[j]
        BY <1>4, <2>4
      <3> QED
        BY <1>6, <2>1, <2>2, <3>1 DEF OutKnows, Stems
    <2> QED
      BY <2>3, <2>4
  <1>8. OutsKnow'
    <2>1. b_run.at \in AfterTool(2) => /\ b_out[1].touched <= b_count.disturbed
                                       /\ b_out[2].touched <= b_count.disturbed
                                       /\ b_out[1] \in Packed /\ b_out[2] \in Packed
      BY DEF OutsKnow, OutKnows, AfterTool, B!Both, Stems
    <2>2. b_run.at \in AfterTool(2) => b_out'[1].touched # b_out'[2].touched
      <3>1. \A b \in Packed : b.touched \in Nat
        BY DEF Packed
      <3>2. CASE k = 1
        BY <1>3, <1>4, <1>6, <2>1, <3>1, <3>2 DEF B!Both
      <3>3. CASE k = 2
        BY <1>3, <1>4, <1>6, <2>1, <3>1, <3>3 DEF B!Both
      <3> QED
        BY <3>2, <3>3 DEF B!Both
    <2> QED
      BY <1>6, <1>7, <2>2 DEF OutsKnow
  <1>9. HashKnows'
    <2>1. b_run.at = "hash2" => /\ Stems(b_run.hashes[1], b_made[B!Build][1])
                                /\ b_run.hashes[1].touched \in Nat
                                /\ b_run.hashes[1].touched <= b_count.disturbed
      BY DEF HashKnows, Stems, Packed
    <2>2. b_out'[2].touched = n \/ b_out'[2] = b_out[2]
      BY <1>3, <1>4 DEF B!Both
    <2> QED
      BY <1>6, <2>1, <2>2 DEF HashKnows, Stems
  <1>10. TollsKnown'
    <2>1. /\ EnvToll(1)' = EnvToll(1)
          /\ EnvToll(2)' = EnvToll(2)
          /\ SrcToll(1)' = SrcToll(1)
          /\ SrcToll(2)' = SrcToll(2)
      BY <1>1, <1>6 DEF EnvToll, SrcToll, B!EnvironmentIsLocked, B!PythonIsLocked, B!PackagesAreLocked,
         Off, Hidden
    <2>2. /\ EnvToll(1) \in 0..2 /\ EnvToll(2) \in 0..2
          /\ SrcToll(1) \in 0..2 /\ SrcToll(2) \in 0..2
      BY DEF EnvToll, SrcToll, Hidden, Off
    <2> QED
      BY <1>6, <2>1, <2>2 DEF TollsKnown
  <1> QED
    BY <1>6, <1>8, <1>9, <1>10

-----------------------------------------------------------------------------
(* The theorem *)

\* The invariant holds at the start.
LEMMA BuildKnowsInit == B!ReleaseBuildAssumption /\ B!Init => BuildKnows
  <1> SUFFICES ASSUME B!ReleaseBuildAssumption, B!Init PROVE BuildKnows
    OBVIOUS
  <1>1. BuildTyped
    BY BuildTypedInit
  <1>2. b_run.at = "idle"
    BY DEF B!Init, B!Idle
  <1>3. b_dist["candidate"] = B!Absent
    BY DEF B!Init, B!Dirs
  <1>4. ~ b_dist["candidate"].whole
    BY <1>3 DEF B!Absent
  <1> QED
    BY <1>1, <1>2, <1>4 DEF BuildKnows, RunKnows, OutsKnow, OutKnows, HashKnows, StagesKnow,
       TollsKnown, Publishing, Compared, AfterBuilds, AfterTool, Building, Clearing, B!Both,
       B!PublishedIsWhole, B!PublishedTogether, B!PublishedIsReproduced

\* Every step keeps it.
LEMMA BuildKnowsStep == BuildKnows /\ [B!Next]_(B!vars) => BuildKnows'
  <1> SUFFICES ASSUME BuildKnows, [B!Next]_(B!vars) PROVE BuildKnows'
    OBVIOUS
  <1>1. CASE B!Begin \/ B!Confirm
    BY <1>1, BeginKeeps
  <1>2. CASE B!Snapshot
    BY <1>2, SnapshotKeeps
  <1>3. CASE B!Inputs
    BY <1>3, InputsKeeps
  <1>4. CASE B!Hash1 \/ B!Hash2
    BY <1>4, HashKeeps
  <1>5. CASE B!Authority
    BY <1>5, AuthorityKeeps
  <1>6. CASE B!Staged
    BY <1>6, StagedKeeps
  <1>7. ASSUME NEW i \in 1..3, B!Clear(i) \/ B!ClearCutOff(i) PROVE BuildKnows'
    BY <1>7, ClearKeeps
  <1>8. ASSUME NEW i \in 1..3, B!Copy(i) PROVE BuildKnows'
    BY <1>8, CopyKeeps
  <1>9. ASSUME NEW i \in 1..3, B!Publish(i) PROVE BuildKnows'
    BY <1>9, PublishKeeps, PublishesWhole
  <1>10. ASSUME NEW k \in B!Both, B!Lock(k) PROVE BuildKnows'
    BY <1>10, LockKeeps
  <1>11. ASSUME NEW k \in B!Both, B!Tool(k) PROVE BuildKnows'
    BY <1>11, ToolKeeps
  <1>12. ASSUME NEW k \in B!Both, B!ToolFails(k) PROVE BuildKnows'
    BY <1>12, GivesUp DEF B!ToolFails, B!Elsewhere, BuildKnows, BuildTyped
  <1>13. ASSUME NEW k \in B!Both, B!Recheck(k) PROVE BuildKnows'
    BY <1>13, RecheckKeeps
  <1>14. CASE B!Checkout \/ B!Install
    <2>1. 1 \in B!Both
      BY DEF B!Both
    <2> QED
      BY <1>14, <2>1, OutsideKeeps
  <1>15. ASSUME NEW k \in B!Both, B!EditSource(k) PROVE BuildKnows'
    BY <1>15, OutsideKeeps
  <1>16. ASSUME NEW k \in B!Both, B!EditOutput(k) PROVE BuildKnows'
    BY <1>16, EditOutputKeeps
  <1>17. CASE B!Crash
    BY <1>17, GivesUp DEF B!Crash, BuildKnows, BuildTyped
  <1>18. CASE UNCHANGED B!vars
    <2>1. UNCHANGED <<b_head, b_env, b_src, b_out, b_dist, b_run, b_made, b_count>> /\ B!Build' = B!Build
      BY <1>18 DEF B!vars, B!Build
    <2>2. BuildTyped' /\ RunKnows' /\ StagesKnow' /\ B!PublishedIsWhole'
      BY <2>1 DEF BuildKnows, BuildTyped, RunKnows, StagesKnow, Ready, B!PublishedIsWhole,
         B!PublishedTogether, B!PublishedIsReproduced
    <2>3. OutsKnow' /\ HashKnows'
      BY <2>1 DEF BuildKnows, OutsKnow, OutKnows, HashKnows
    <2>4. /\ EnvToll(1)' = EnvToll(1)
          /\ EnvToll(2)' = EnvToll(2)
          /\ SrcToll(1)' = SrcToll(1)
          /\ SrcToll(2)' = SrcToll(2)
      BY <2>1 DEF EnvToll, SrcToll, B!EnvironmentIsLocked, B!PythonIsLocked, B!PackagesAreLocked,
         Off, Hidden
    <2>5. TollsKnown'
      BY <2>1, <2>4 DEF BuildKnows, TollsKnown
    <2> QED
      BY <2>2, <2>3, <2>5 DEF BuildKnows
  <1> QED
    BY <1>1, <1>2, <1>3, <1>4, <1>5, <1>6, <1>7, <1>8, <1>9, <1>10, <1>11, <1>12, <1>13,
       <1>14, <1>15, <1>16, <1>17, <1>18 DEF B!Next, B!Builder

\* A candidate that can be found is complete, was reproduced by two tool runs of a
\* valid commit, and holds what the checks did not see only if somebody changed
\* the machine and changed it back around both runs (build_release).
THEOREM PublishedIsWholeHolds == ASSUME B!ReleaseBuildAssumption PROVE B!Spec => []B!PublishedIsWhole
  <1>1. B!Init => BuildKnows
    BY BuildKnowsInit
  <1>2. BuildKnows /\ [B!Next]_(B!vars) => BuildKnows'
    BY BuildKnowsStep
  <1>3. BuildKnows => B!PublishedIsWhole
    BY DEF BuildKnows
  <1> QED
    BY <1>1, <1>2, <1>3, PTL DEF B!Spec
=============================================================================
