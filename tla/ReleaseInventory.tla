-------------------------- MODULE ReleaseInventory --------------------------
(* One build of a release (build_release._build_once) from the tool run to    *)
(* the validated ZIP: release_inventory.py says of every byte of the payload  *)
(* where it came from and whose it is, the license index and the SBOM say on  *)
(* what terms it ships, and the manifest, the ZIP and the last validation     *)
(* hold all of them together.  Each reads the disk again, so each can find    *)
(* something else than the one before it.  The test harness is built after    *)
(* the artifact, by the same tool and under an inventory of its own.          *)
EXTENDS Naturals, FiniteSets

CONSTANTS
  Tocs,       \* the sets of Analysis entries a tool run can report
  Locked,     \* the distributions of the environment lock
  Runtime,    \* those of role runtime
  OwnTerms,   \* the locked components that carry license files
  Overrides,  \* the sets of components the override contract may name
  MaxEdits

\* An entry of the Analysis: name, kind (a program is data named .exe), the
\* source root it was found under, the distributions and Conda packages that
\* own the file, a name that tells a known library, whether COLLECT takes it,
\* whether the policy allows it.
EntryKinds == {"script", "module", "binary", "program", "data"}
InventoryAssumption ==
  /\ Runtime \subseteq Locked /\ MaxEdits \in Nat
  /\ \A toc \in Tocs : \A e \in toc :
       /\ e.kind \in EntryKinds /\ e.root \in {"lib", "site", "library", "source", "work"}
       /\ e.special \in {"none", "msvc", "hook"}
       /\ "msvc" \notin e.dists \cup e.condas     \* native:msvc-runtime is no distribution
       /\ \A f \in toc : e.name = f.name => e = f

VARIABLES
  toc, over,     \* what the tool reports, what the override contract names
  source,        \* the bytes of the sources now
  disk,          \* the payload directory: files, parts of the executable, index, sbom
  job,           \* the builder: step, what it read, the inventory, the manifest
  zip,           \* the archive
  harness,       \* the harness: its program, the copy, what its manifest says, its archive
  edits          \* outside changes so far

vars == <<toc, over, source, disk, job, zip, harness, edits>>

Names(es) == {e.name : e \in es}
Members == {e \in toc : e.kind \in {"script", "module"}}
Collected == {e \in toc : e.kind \notin {"script", "module"} /\ e.final}
Entry(n) == CHOOSE e \in toc : e.name = n
Nothing == [files |-> <<>>, parts |-> <<>>, index |-> <<>>, sbom |-> <<>>]
NoInventory == [files |-> <<>>, parts |-> <<>>, native |-> {}]

Init == /\ toc \in Tocs /\ over \in Overrides
        /\ source = [n \in Names(toc) |-> 0]
        /\ disk = Nothing /\ zip = Nothing /\ edits = 0
        /\ harness = [runtime |-> 0, packaged |-> 0, manifest |-> 0, zip |-> 0]
        /\ job = [at |-> "tool", from |-> "", read |-> <<>>, parts |-> <<>>,
                  inv |-> NoInventory, index |-> <<>>, manifest |-> Nothing]

Refuse == job' = [job EXCEPT !.at = "refused", !.from = job.at]
Goto(s) == job' = [job EXCEPT !.at = s]

-----------------------------------------------------------------------------
(* Whose a file is.                                                           *)

IsNative(e) == e.kind = "binary"
Owned(e) == e.dists \cup e.condas \cup (IF e.root = "lib" THEN {"cpython"} ELSE {})
KnownAs(e) == IF IsNative(e) /\ e.special = "msvc" THEN {"msvc"} ELSE {}
Unowned(e) == IF IsNative(e) /\ Owned(e) = {} THEN {"native:unattributed"} ELSE {}
Classify(e) ==
  LET owners == IF e.special = "hook" THEN (Owned(e) \ {"pyinstaller"}) \cup {"hooks"}
                ELSE Owned(e)
      found == owners \cup KnownAs(e) \cup Unowned(e)
  IN CASE found # {} -> found
       [] found = {} /\ e.root = "source" -> {"project"}
       [] OTHER -> {"unattributed"}

Identity(c) == CASE c = "msvc" -> "classification"
                 [] c \in {"native:unattributed", "unattributed"} -> "unresolved"
                 [] OTHER -> "complete"

Components == UNION {Classify(e) : e \in toc} \cup {"bootloader"}
\* The places in the payload a component has: files and parts of executables.
Holds(c, inv) == {n \in DOMAIN inv.files \cup DOMAIN inv.parts : c \in Classify(Entry(n))}
Places(c, inv) == Holds(c, inv) \cup (IF c = "bootloader" THEN {"exe"} ELSE {})
\* The known libraries that share a file with the component.
Classes(c) == {k \in Components \ {c} : /\ Identity(k) = "classification"
                                        /\ \E e \in toc : {c, k} \subseteq Classify(e)}
\* Native content, as the inventory writes it down and as the SBOM finds it.
NativeIn(inv) == {"bootloader"} \cup
  UNION {Classify(Entry(n)) : n \in {m \in DOMAIN inv.files :
                                       Entry(m).kind \in {"binary", "program"}}}
\* A mutant: programs are not native.
LibrariesFound(inv) == {"bootloader"} \cup
  {c \in Components : \E n \in Holds(c, inv) : Entry(n).kind = "binary"}
NativeFound(inv) == {"bootloader"} \cup
  {c \in Components : \E n \in Holds(c, inv) : Entry(n).kind \in {"binary", "program"}}

-----------------------------------------------------------------------------
(* The build.                                                                 *)

\* PyInstaller: sources are compiled into the executable or copied.
Tool == /\ job.at = "tool"
        /\ disk' = [disk EXCEPT !.files = [n \in Names(Collected) |-> source[n]],
                                !.parts = [n \in Names(Members) |-> source[n]]]
        /\ Goto("sources")
        /\ UNCHANGED <<toc, over, source, zip, harness, edits>>

\* The entries of the Analysis are hashed and their owners looked up; every
\* file a Conda package owns has the bytes of the frozen registry.
Registered == \A e \in toc : e.condas # {} => source[e.name] = 0 /\ Cardinality(e.condas) = 1
ReadSources == /\ job.at = "sources"
               /\ IF Registered
                  THEN job' = [job EXCEPT !.at = "archives", !.read = source]
                  ELSE Refuse
               /\ UNCHANGED <<toc, over, source, disk, zip, harness, edits>>

\* The executable holds the parts its tables announce and no other; each is
\* compiled again from its source, which is read again and has to be the one
\* that was hashed.
PartsAreListed == DOMAIN disk.parts = Names(Members)
PartsMatch == \A n \in Names(Members) : disk.parts[n] = source[n] /\ source[n] = job.read[n]
ReadArchives == /\ job.at = "archives"
                /\ IF PartsAreListed /\ PartsMatch
                   THEN job' = [job EXCEPT !.at = "payload", !.parts = disk.parts]
                   ELSE Refuse
                /\ UNCHANGED <<toc, over, source, disk, zip, harness, edits>>

\* Every file found in the payload is the final target of an entry and has the
\* bytes of its source; what an entry should have given and is missing is not
\* asked for.  No native file and no component stays without an identity.
\* A mutant: a payload file only has to have an entry.
MappedByName(n) == n \in Names(Collected)
Mapped(n) == n \in Names(Collected) /\ disk.files[n] = job.read[n]
WalkPayload ==
  /\ job.at = "payload"
  /\ LET inv == [files |-> disk.files, parts |-> disk.parts, native |-> {}]
     IN IF /\ disk.parts = job.parts
           /\ \A n \in DOMAIN disk.files : Mapped(n)
           /\ \A c \in Components : Identity(c) # "unresolved"
        THEN job' = [job EXCEPT !.at = "bind", !.inv = [inv EXCEPT !.native = NativeIn(inv)]]
        ELSE Refuse
  /\ UNCHANGED <<toc, over, source, disk, zip, harness, edits>>

\* Only runtime distributions ship (of the build tools only PyInstaller), the
\* parts every release has are there, no component is without a place, and
\* the files are still what the inventory says.
Allowed(d) == d \in Runtime \/ (d = "pyinstaller" /\ d \in Locked)
Required == {"project", "bootloader", "cpython", "msvc"}
Bind == /\ job.at = "bind"
        /\ IF /\ \A e \in toc : \A d \in e.dists : Allowed(d)
              /\ Required \subseteq Components
              /\ \A c \in Components : Places(c, job.inv) # {}
              /\ disk.files = job.inv.files /\ disk.parts = job.inv.parts
           THEN Goto("licenses") ELSE Refuse
        /\ UNCHANGED <<toc, over, source, disk, zip, harness, edits>>

(* The terms: a component with native content ships with the terms of its top *)
(* level only, a Conda package with those its metadata declares; they are     *)
(* provisional in the SBOM components, settled in the license index, and      *)
(* worked out once more where both are bound together.                        *)
Listed == {c \in Components : Identity(c) = "complete" /\ c # "project"}
Conda == UNION {e.condas : e \in toc}
Provisional(c, inv) ==
  CASE c \in Conda -> "metadata-only"
    [] c \notin Conda /\ (c \in inv.native \/ "msvc" \in Classes(c)) -> "top-level-only"
    [] OTHER -> "open"
Material(c) == IF c \in {"bootloader", "hooks"} THEN "pyinstaller" ELSE c
Settled(c, inv) == IF Provisional(c, inv) # "open" THEN Provisional(c, inv)
                   ELSE IF Material(c) \in Locked THEN "bound" ELSE "metadata-only"
Expected(c, inv) ==
  IF c \in Conda THEN "metadata-only"
  ELSE IF c \in inv.native \/ Classes(c) \cap {"msvc"} # {} THEN "top-level-only"
  ELSE IF Material(c) \in Locked THEN "bound" ELSE "metadata-only"

\* collect_license_materials: each locked component has license files of its
\* own or an override, and no override is left over.
MaterialsAreComplete == Locked \ OwnTerms = over
\* The components of the SBOM: the inventory's word on native content holds.
Describable(inv) == NativeFound(inv) = inv.native
Licenses == /\ job.at = "licenses"
            /\ IF MaterialsAreComplete /\ Describable(job.inv)
               THEN LET idx == [c \in Listed |-> Settled(c, job.inv)]
                    IN /\ job' = [job EXCEPT !.at = "sbom", !.index = idx]
                       /\ disk' = [disk EXCEPT !.index = idx]
               ELSE Refuse /\ UNCHANGED disk
            /\ UNCHANGED <<toc, over, source, zip, harness, edits>>

\* Index and SBOM list the components of the inventory, with the status the
\* inventory calls for.
CrossBound(inv, index, sbom, status) ==
  /\ DOMAIN index = Listed /\ \A c \in Listed : index[c] = Expected(c, inv)
  /\ sbom = status
Sbom == /\ job.at = "sbom"
        /\ LET raw == [c \in Listed |-> Provisional(c, job.inv)]
           IN IF Describable(job.inv) /\ CrossBound(job.inv, job.index, raw, raw)
              THEN disk' = [disk EXCEPT !.sbom = job.index] /\ Goto("manifest")
              ELSE Refuse /\ UNCHANGED disk
        /\ UNCHANGED <<toc, over, source, zip, harness, edits>>

\* The policy is applied to the payload, every file is hashed into the
\* manifest, and everything is read once more for the archive.
Permitted == \A n \in DOMAIN disk.files \cap Names(toc) : Entry(n).permitted
Manifest == /\ job.at = "manifest"
            /\ IF Permitted
               THEN job' = [job EXCEPT !.at = "zip", !.manifest = disk] ELSE Refuse
            /\ UNCHANGED <<toc, over, source, disk, zip, harness, edits>>
Archive == /\ job.at = "zip" /\ zip' = disk /\ Goto("validate")
           /\ UNCHANGED <<toc, over, source, disk, harness, edits>>

\* The archive is read back: manifest, inventory, index and SBOM against its
\* bytes and against each other.
ReadBack == zip = job.manifest
Validate == /\ job.at = "validate"
            /\ IF /\ ReadBack
                  /\ zip.files = job.inv.files /\ zip.parts = job.inv.parts
                  /\ LET final == [c \in Listed |-> Expected(c, job.inv)]
                     IN CrossBound(job.inv, zip.index, zip.sbom, final)
               THEN Goto("harness") ELSE Refuse
            /\ UNCHANGED <<toc, over, source, disk, zip, harness, edits>>

(* The harness: one program, compared with its inventory's record before and  *)
(* after it is copied, after the manifest was made by a process of its own,   *)
(* and in the archive.                                                        *)
HarnessSteps == {"harness", "record", "package", "describe", "pack", "seal"}
HarnessStep(at, next, ok) ==
  /\ job.at = at
  /\ IF ok THEN Goto(next) ELSE Refuse /\ UNCHANGED harness
  /\ UNCHANGED <<toc, over, source, disk, zip, edits>>
HarnessTool == HarnessStep("harness", "record", TRUE) /\ harness' = [harness EXCEPT !.runtime = 0]
HarnessRecord == HarnessStep("record", "package", harness.runtime = 0) /\ UNCHANGED harness
HarnessPackage == LET ok == harness.runtime = 0
                  IN /\ HarnessStep("package", "describe", ok)
                     /\ ok => harness' = [harness EXCEPT !.packaged = harness.runtime]
HarnessDescribe == /\ HarnessStep("describe", "pack", TRUE)
                   /\ harness' = [harness EXCEPT !.manifest = harness.packaged]
HarnessPack == LET ok == harness.packaged = 0
               IN /\ HarnessStep("pack", "seal", ok)
                  /\ ok => harness' = [harness EXCEPT !.zip = harness.packaged]
HarnessSeal == /\ HarnessStep("seal", "done", harness.packaged = 0 /\ harness.zip = 0)
               /\ UNCHANGED harness

-----------------------------------------------------------------------------
\* Others change a source (and put it back), a file or a part of the payload,
\* add or remove a file, or write another status into the index or the SBOM.
Edit == /\ job.at \notin {"done", "refused"} \cup HarnessSteps /\ edits < MaxEdits /\ edits' = edits + 1
        /\ UNCHANGED <<toc, over, job, zip>>
EditSource == \E n \in DOMAIN source : \E b \in {0, edits + 1} :
                /\ source[n] # b /\ Edit
                /\ source' = [source EXCEPT ![n] = b] /\ UNCHANGED <<disk, harness>>
Spoiled == 10 + edits
Without(f, n) == [m \in DOMAIN f \ {n} |-> f[m]]
With(f, n, v) == [m \in DOMAIN f \cup {n} |-> IF m = n THEN v ELSE f[m]]
EditPayload ==
  /\ job.at # "tool" /\ Edit
  /\ \/ \E n \in DOMAIN disk.files \cup {"extra"} :
          disk' = [disk EXCEPT !.files = With(disk.files, n, Spoiled)]
     \/ \E n \in DOMAIN disk.files : disk' = [disk EXCEPT !.files = Without(disk.files, n)]
     \/ \E n \in DOMAIN disk.parts \cup {"extra"} :
          disk' = [disk EXCEPT !.parts = With(disk.parts, n, Spoiled)]
     \/ \E n \in DOMAIN disk.parts : disk' = [disk EXCEPT !.parts = Without(disk.parts, n)]
  /\ UNCHANGED <<source, harness>>
EditTerms == /\ Edit
             /\ \/ \E c \in DOMAIN disk.index : disk' = [disk EXCEPT !.index[c] = "bound"]
                \/ \E c \in DOMAIN disk.sbom : disk' = [disk EXCEPT !.sbom[c] = "bound"]
             /\ UNCHANGED <<source, harness>>
\* A file of the harness is changed, put back or, with the archive closed,
\* changed in the archive.
EditHarness == /\ job.at \in HarnessSteps /\ edits < MaxEdits /\ edits' = edits + 1
               /\ \E f \in {"runtime", "packaged", "zip"} : \E b \in {0, Spoiled} :
                    harness[f] # b /\ harness' = [harness EXCEPT ![f] = b]
               /\ UNCHANGED <<toc, over, source, disk, job, zip>>

Builder == \/ Tool \/ ReadSources \/ ReadArchives \/ WalkPayload \/ Bind \/ Licenses
           \/ Sbom \/ Manifest \/ Archive \/ Validate \/ HarnessTool \/ HarnessRecord
           \/ HarnessPackage \/ HarnessDescribe \/ HarnessPack \/ HarnessSeal
Next == Builder \/ EditSource \/ EditPayload \/ EditTerms \/ EditHarness
Spec == Init /\ [][Next]_vars

-----------------------------------------------------------------------------
\* Every byte of an archive that passed has its place in the inventory, is the
\* byte of the source the Analysis named, and belongs to a component whose
\* terms are in the index, whatever was changed under the build and when; the
\* harness beside it is the program of its inventory, and no single change
\* gets another one into its manifest (build_release_inventory,
\* _build_bound_release_inventory, validate_artifact_payload,
\* _build_frozen_harness).
Passed == job.at \in HarnessSteps \cup {"done"}
ShippedIsInventoried ==
  /\ Passed =>
    /\ DOMAIN zip.parts = Names(Members) /\ DOMAIN zip.files \subseteq Names(Collected)
    /\ \A n \in Names(Members) : zip.parts[n] = job.read[n]
    /\ \A n \in DOMAIN zip.files :
         /\ zip.files[n] = job.read[n]
         /\ Entry(n).permitted
         /\ \A d \in Entry(n).dists : Allowed(d)
         /\ \E c \in Classify(Entry(n)) : c = "project" \/ c \in DOMAIN zip.index
  /\ job.at = "done" => harness.zip = 0 /\ (harness.manifest = harness.zip \/ edits >= 2)

\* A component whose terms an archive calls complete has nothing native in it
\* and is no Conda package, and index and SBOM agree, also when one of them was
\* changed on the disk before it was packed
\* (_inventory_sbom_components, _bind_license_index_to_inventory,
\* _cross_bind_sbom_components_to_license_index).
BoundMeansBound ==
  Passed =>
    /\ zip.sbom = zip.index
    /\ \A c \in DOMAIN zip.index : zip.index[c] = "bound" =>
         /\ c # "bootloader"
         /\ \A n \in DOMAIN zip.files : c \in Classify(Entry(n)) =>
              Entry(n).kind \notin {"binary", "program"} /\ c \notin Entry(n).condas

\* Both, of every archive that passed.
InventoryIsTrue == ShippedIsInventoried /\ BoundMeansBound

\* A build nobody disturbed is refused by the inventory or the role check, or
\* for its license materials or the policy: the later readers of the same
\* facts (index, SBOM, final validation) never disagree with the earlier ones.
RefusalsComeEarly ==
  job.at = "refused" /\ edits = 0 =>
    \/ job.from \in {"sources", "payload", "bind"}
    \/ job.from = "licenses" /\ Locked \ OwnTerms # over
    \/ job.from = "manifest"
=============================================================================
