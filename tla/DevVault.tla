------------------------------ MODULE DevVault ------------------------------
(***************************************************************************)
(* src/scripts/rebuild-dev-vault.py: a development vault is cleaned, built  *)
(* anew from a seed and marked, as the last step, with a manifest; a later  *)
(* run takes a marked vault that passes the validation for up to date.  A   *)
(* run may die or fail at every step, the directory may be replaced under   *)
(* it, and between and during the runs somebody works with the vault.       *)
(*                                                                         *)
(* A Markdown file and its row have one name here.  The database is there   *)
(* with its schema or not at all (MigrationPublish is about that), and of   *)
(* the metadata of a file the related documents stand for themselves: they  *)
(* are the only part that the validation does not compare.                  *)
(***************************************************************************)
EXTENDS Integers, FiniteSets, Sequences, Functions

CONSTANTS
    Names,        \* of entries
    Counts,       \* of entries asked for; 0: --no-seed
    Seeds,        \* positive
    MaxRuns,      \* bound: calls of the script
    MaxEdits,     \* bound: edits by somebody else
    MaxCrashes,   \* bound: deaths of the script
    MaxFailures   \* bound: steps that fail

\* What an instance must satisfy.
DevVaultAssumption ==
    /\ Counts \subseteq 0..Cardinality(Names)
    /\ Seeds \subseteq Nat \ {0}
    /\ {MaxRuns, MaxEdits, MaxCrashes, MaxFailures} \subseteq Nat

VARIABLES
    root,   \* the directory, see NoRoot
    run,    \* the script
    quiet,  \* nobody else has touched the vault since the run began
    count

vars == <<root, run, quiet, count>>

Dirs == {"db", "vault", "other"}
NoManifest == [count |-> -1, seed |-> 0]
\* safe: no link in it; rows: name -> text; files: name -> text and the seed of
\* the related documents written into it (0: none).  id: the inode, never 0.
NoRoot == [here |-> FALSE, id |-> 1, safe |-> TRUE, dirs |-> {}, db |-> FALSE,
           rows |-> <<>>, files |-> <<>>, manifest |-> NoManifest]
Idle == [at |-> "idle", mode |-> "plain", count |-> 0, seed |-> 0, id |-> 0, todo |-> {},
         mine |-> <<>>, reply |-> "none"]

Init ==
    /\ root = NoRoot
    /\ run = Idle
    /\ quiet = TRUE
    /\ count = [runs |-> 0, edits |-> 0, crashes |-> 0, failures |-> 0]

With(f, n, v) == [m \in DOMAIN f \cup {n} |-> IF m = n THEN v ELSE f[m]]

-----------------------------------------------------------------------------
(* What the script asks of the directory *)

HasContent == root.db \/ root.files # <<>> \/ root.manifest # NoManifest

\* Mutant of Mirrors: the rows are taken for the documents.
RowsOnly == TRUE

\* Each document has one row and one file, and they say the same.
Mirrors == /\ DOMAIN root.rows = DOMAIN root.files
           /\ \A n \in DOMAIN root.rows : root.rows[n] = root.files[n].text
Valid == /\ root.manifest # NoManifest
         /\ root.db
         /\ Cardinality(DOMAIN root.rows) = root.manifest.count
         /\ Mirrors
         /\ root.dirs = Dirs

\* The arguments of the call are those of the manifest.
Requested == /\ (root.manifest.count > 0) = (run.count > 0)
             /\ run.count > 0 => /\ root.manifest.count = run.count
                                 /\ root.manifest.seed = run.seed

SameRoot == root.here /\ root.id = run.id
Stable == SameRoot /\ root.safe

Goto(at) == run' = [run EXCEPT !.at = at]
End(reply) == run' = [Idle EXCEPT !.reply = reply, !.mode = run.mode, !.count = run.count,
                                  !.seed = run.seed]

\* A step with the directory checked before it.
Step(at, Ready, Work) ==
    /\ run.at = at
    /\ \/ ~ Ready /\ End("rejected") /\ UNCHANGED <<root, count>>
       \/ Ready /\ Work
    /\ UNCHANGED quiet

Fails ==
    /\ count.failures < MaxFailures
    /\ count' = [count EXCEPT !.failures = @ + 1]
    /\ End("error")

-----------------------------------------------------------------------------
(* A run *)

Start(mode, n, s) ==
    /\ run.at = "idle" /\ count.runs < MaxRuns
    /\ run' = [Idle EXCEPT !.at = "gate", !.mode = mode, !.count = n, !.seed = s]
    /\ quiet' = TRUE
    /\ count' = [count EXCEPT !.runs = @ + 1]
    /\ UNCHANGED root

\* The scan for links, and the identity of a directory that exists.
Gate ==
    Step("gate", root.here => root.safe,
         /\ run' = [run EXCEPT !.id = IF root.here THEN root.id ELSE 0,
                               !.at = IF run.mode = "check" THEN "check" ELSE "look"]
         /\ UNCHANGED <<root, count>>)

CheckOnly ==
    Step("check", run.id # 0 => Stable,
         \/ End(IF Valid THEN "checked" ELSE "invalid") /\ UNCHANGED <<root, count>>
         \/ Fails /\ UNCHANGED root)

Look ==
    Step("look", run.id # 0 => SameRoot,
         /\ \/ ~ HasContent /\ Goto("make")
            \/ HasContent /\ run.id = 0 /\ End("error")
            \/ HasContent /\ run.id # 0 /\ run.mode = "force" /\ Goto("clean")
            \/ HasContent /\ run.id # 0 /\ run.mode = "plain" /\ Goto("validate")
         /\ UNCHANGED <<root, count>>)

Validate ==
    Step("validate", Stable,
         \/ End(IF Valid /\ Requested THEN "up_to_date" ELSE "invalid") /\ UNCHANGED <<root, count>>
         \/ Fails /\ UNCHANGED root)

\* _cleanup_root lists the children ...
Clean ==
    Step("clean", Stable,
         /\ run' = [run EXCEPT !.at = "wipe",
                               !.todo = root.dirs \cup
                                        IF root.manifest = NoManifest THEN {} ELSE {"manifest"}]
         /\ UNCHANGED <<root, count>>)

\* ... and removes one after the other, in the order of the file system; a
\* directory of documents goes file by file.
Wipe ==
    Step("wipe", SameRoot,
         \/ run.todo = {} /\ Goto("make") /\ UNCHANGED <<root, count>>
         \/ Fails /\ UNCHANGED root
         \/ \E c \in run.todo :
              IF c = "vault" /\ root.files # <<>>
              THEN \E n \in DOMAIN root.files :
                     /\ root' = [root EXCEPT !.files = Restrict(@, DOMAIN @ \ {n})]
                     /\ UNCHANGED <<run, count>>
              ELSE /\ root' = CASE c = "manifest" -> [root EXCEPT !.manifest = NoManifest]
                                [] c = "db" -> [root EXCEPT !.db = FALSE, !.rows = <<>>,
                                                            !.dirs = @ \ {c}]
                                [] OTHER -> [root EXCEPT !.dirs = @ \ {c}]
                   /\ run' = [run EXCEPT !.todo = @ \ {c}]
                   /\ UNCHANGED count)

\* The directory and its identity from here on.
Make ==
    Step("make", root.safe,
         /\ root' = [root EXCEPT !.here = TRUE]
         /\ run' = [run EXCEPT !.id = root.id, !.at = "dirs"]
         /\ UNCHANGED count)

MakeDirs ==
    Step("dirs", Stable,
         \/ root' = [root EXCEPT !.dirs = Dirs] /\ Goto("migrate") /\ UNCHANGED count
         \/ Fails /\ root' \in {[root EXCEPT !.dirs = d] : d \in {root.dirs, root.dirs \cup {"db"}}})

Migrate ==
    Step("migrate", Stable,
         \/ /\ root' = [root EXCEPT !.db = TRUE]
            /\ Goto("entries") /\ UNCHANGED count
         \/ Fails /\ UNCHANGED root)

\* _seed_entries: a file under a free name, then its row; only the first step
\* is preceded by a check.
SaveFile ==
    Step("entries", run.mine = <<>> => Stable,
         IF Len(run.mine) = run.count
         THEN Goto(IF run.count > 1 THEN "relate" ELSE "health") /\ UNCHANGED <<root, count>>
         ELSE \/ \E n \in Names \ DOMAIN root.files :
                   /\ root' = [root EXCEPT !.files = With(@, n, [text |-> "seed", related |-> 0])]
                   /\ run' = [run EXCEPT !.at = "row", !.mine = Append(@, n)]
                   /\ UNCHANGED count
              \/ Fails /\ UNCHANGED root)

InsertRow ==
    Step("row", TRUE,
         \/ /\ root.db
            /\ root' = [root EXCEPT !.rows = With(@, run.mine[Len(run.mine)], "seed")]
            /\ Goto("entries") /\ UNCHANGED count
         \/ Fails /\ UNCHANGED root
         \/ ~ root.db /\ End("error") /\ UNCHANGED <<root, count>>)

\* _update_related_docs reads each file and writes it again in place.
Relate ==
    Step("relate", TRUE,
         IF run.mine = <<>> THEN Goto("health") /\ UNCHANGED <<root, count>>
         ELSE LET n == Head(run.mine)
              IN \/ /\ n \in DOMAIN root.files
                    /\ root' = [root EXCEPT !.files[n].related = run.seed]
                    /\ run' = [run EXCEPT !.mine = Tail(@)] /\ UNCHANGED count
                 \/ Fails /\ UNCHANGED root
                 \/ n \notin DOMAIN root.files /\ End("error") /\ UNCHANGED <<root, count>>)

Health ==
    Step("health", Stable,
         \/ root.db /\ Goto("mark") /\ UNCHANGED <<root, count>>
         \/ ~ root.db /\ End("error") /\ UNCHANGED <<root, count>>
         \/ Fails /\ UNCHANGED root)

Mark ==
    Step("mark", Stable,
         \/ /\ root' = [root EXCEPT !.manifest = [count |-> run.count, seed |-> run.seed]]
            /\ Goto("verify") /\ UNCHANGED count
         \/ Fails /\ UNCHANGED root)

\* The validation of the finished vault; one that fails takes the mark away.
Verify ==
    Step("verify", Stable,
         \/ Valid /\ End("rebuilt") /\ UNCHANGED <<root, count>>
         \/ ~ Valid /\ Goto("unmark") /\ UNCHANGED <<root, count>>
         \/ Fails /\ UNCHANGED root)
Unmark ==
    Step("unmark", TRUE,
         root' = [root EXCEPT !.manifest = NoManifest] /\ End("invalid") /\ UNCHANGED count)

\* Killed; a file that was being written in place may be torn.
Crash ==
    /\ run.at # "idle" /\ count.crashes < MaxCrashes
    /\ run' = Idle
    /\ count' = [count EXCEPT !.crashes = @ + 1]
    /\ \/ UNCHANGED root
       \/ /\ run.at = "relate" /\ run.mine # <<>> /\ Head(run.mine) \in DOMAIN root.files
          /\ root' = [root EXCEPT !.files[Head(run.mine)] = [text |-> "torn", related |-> 0]]
    /\ UNCHANGED quiet

-----------------------------------------------------------------------------
(* Somebody else *)

Edited(to) == /\ root.here /\ count.edits < MaxEdits
              /\ root' = to
              /\ quiet' = FALSE
              /\ count' = [count EXCEPT !.edits = @ + 1]
              /\ UNCHANGED run

\* An application on this vault: an entry is changed, added, or deleted.
AppChanges(n) == n \in DOMAIN root.rows \cap DOMAIN root.files
                 /\ Edited([root EXCEPT !.rows[n] = "edited", !.files[n].text = "edited"])
AppAdds(n) == root.db /\ n \notin DOMAIN root.rows \cup DOMAIN root.files
              /\ Edited([root EXCEPT !.rows = With(@, n, "new"),
                                     !.files = With(@, n, [text |-> "new", related |-> 0])])
AppDeletes(n) == n \in DOMAIN root.rows \cap DOMAIN root.files
                 /\ Edited([root EXCEPT !.rows = Restrict(@, DOMAIN @ \ {n}),
                                        !.files = Restrict(@, DOMAIN @ \ {n})])
\* An editor on a file; the manifest or the whole directory goes; a link comes
\* or goes; another directory takes the place.
FileChanges(n) == n \in DOMAIN root.files /\ Edited([root EXCEPT !.files[n].text = "edited"])
FileGoes(n) == n \in DOMAIN root.files /\ Edited([root EXCEPT !.files = Restrict(@, DOMAIN @ \ {n})])
MarkGoes == root.manifest # NoManifest /\ Edited([root EXCEPT !.manifest = NoManifest])
LinkMoves == Edited([root EXCEPT !.safe = ~ @])
RootGoes == Edited([NoRoot EXCEPT !.id = root.id + 1])
RootIsReplaced == Edited([NoRoot EXCEPT !.here = TRUE, !.id = root.id + 1])

Runs == \/ \E m \in {"plain", "force", "check"}, n \in Counts, s \in Seeds : Start(m, n, s)
        \/ Gate \/ CheckOnly \/ Look \/ Validate \/ Clean \/ Wipe \/ Make \/ MakeDirs \/ Migrate
        \/ SaveFile \/ InsertRow \/ Relate \/ Health \/ Mark \/ Verify \/ Unmark
Others == \/ \E n \in Names : AppChanges(n) \/ AppAdds(n) \/ AppDeletes(n)
                              \/ FileChanges(n) \/ FileGoes(n)
          \/ MarkGoes \/ LinkMoves \/ RootGoes \/ RootIsReplaced
Next == Runs \/ Crash \/ Others
Spec == Init /\ [][Next]_vars

-----------------------------------------------------------------------------
(* Properties *)

\* A vault as the manifest describes it: as many documents as were asked for,
\* each with a row and a file that agree, and the ones that nobody has replaced
\* related by the seed of the manifest.
Whole ==
    /\ root.here /\ root.safe /\ root.db /\ root.dirs = Dirs
    /\ root.manifest # NoManifest
    /\ DOMAIN root.rows = DOMAIN root.files
    /\ Cardinality(DOMAIN root.files) = root.manifest.count
    /\ \A n \in DOMAIN root.files :
         /\ root.rows[n] = root.files[n].text
         /\ root.manifest.count > 1 /\ root.files[n].text = "seed"
              => root.files[n].related = root.manifest.seed

\* Whatever runs, deaths and edits came before, a run that nobody disturbs and
\* that calls the vault rebuilt, up to date or sound is right; the first two
\* are so for the arguments of this run.
VaultIsWhole ==
    run.reply \in {"rebuilt", "up_to_date", "checked"} /\ quiet =>
        /\ Whole
        /\ run.reply # "checked" => Requested
=============================================================================
