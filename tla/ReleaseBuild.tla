---------------------------- MODULE ReleaseBuild ----------------------------
(* scripts/build_release.py: a release is built twice, in two snapshots of    *)
(* the same commit, and published when both builds gave the same bytes.       *)
(* Nothing locks the machine meanwhile: the checkout, the Python environment, *)
(* the snapshots and the outputs can be changed by others between any two     *)
(* steps and changed back, and the builder can die at any of them.  The       *)
(* PyInstaller run is a step that makes bytes of what it finds.               *)
EXTENDS Naturals, Sequences

CONSTANTS Revisions,  \* commits
          Valid,      \* those whose release contracts and compliance files hold
          MaxBuilds, MaxDisturbances, MaxCrashes

ReleaseBuildAssumption ==
  Valid \subseteq Revisions /\ {MaxBuilds, MaxDisturbances, MaxCrashes} \subseteq Nat

VARIABLES
  head, dirty,  \* the checkout
  env,          \* the parts of the environment that are not the locked ones
  src,          \* src[k]: snapshot k holds exactly the bytes of the commit
  out,          \* out[k]: the output directory of build k
  dist,         \* the directories under dist/
  run,          \* the builder: its next step and its local values
  made,         \* made[n][k]: what the k-th tool run of the n-th build gave
  count         \* outside changes and deaths so far

vars == <<head, dirty, env, src, out, dist, run, made, count>>

Both == {1, 2}
Absent == [whole |-> FALSE, of |-> 0, bytes |-> <<>>]
Idle == [at |-> "idle", rev |-> 0, hashes |-> <<<<>>, <<>>>>]
Removed == <<"candidate", "harness", "compliance">>
Published == <<"compliance", "harness", "candidate">>
Stage(d) == CASE d = "candidate" -> ".artifact" [] d = "harness" -> ".harness"
              [] OTHER -> ".compliance"
Dirs == {"candidate", "harness", "compliance"}
Build == Len(made)

Init == /\ head \in Revisions /\ dirty = FALSE /\ env = {}
        /\ src = [k \in Both |-> TRUE] /\ out = [k \in Both |-> <<>>]
        /\ dist = [d \in Dirs \cup {Stage(x) : x \in Dirs} |-> Absent]
        /\ run = Idle /\ made = <<>>
        /\ count = [disturbed |-> 0, crashed |-> 0]

\* The next step of the builder, and its end.
Goto(s) == run' = [run EXCEPT !.at = s]
Give == run' = Idle
Elsewhere == <<head, dirty, env, count>>

-----------------------------------------------------------------------------
\* git_release_identity: a clean checkout and its commit, both read again
\* before the identity counts; nothing else is asked of the checkout later.
Begin == /\ run.at = "idle" /\ Build < MaxBuilds
         /\ ~dirty
         /\ run' = [run EXCEPT !.at = "confirm", !.rev = head]
         /\ UNCHANGED <<head, dirty, env, src, out, dist, made, count>>

Confirm == /\ run.at = "confirm"
           /\ IF head = run.rev /\ ~dirty THEN Goto("clear1") /\ made' = Append(made, <<<<>>, <<>>>>)
              ELSE Give /\ UNCHANGED made
           /\ UNCHANGED <<Elsewhere, src, out, dist>>

\* The results of the last build are removed before anything is made, the
\* artifact first; a removal that is cut off leaves part of a directory.
ClearAt(i) == <<"clear1", "clear2", "clear3">>[i]
AfterClear(i) == IF i = 3 THEN "snapshot" ELSE ClearAt(i + 1)
Clear(i) == /\ run.at = ClearAt(i)
            /\ dist' = [dist EXCEPT ![Removed[i]] = Absent]
            /\ Goto(AfterClear(i))
            /\ UNCHANGED <<Elsewhere, src, out, made>>
ClearCutOff(i) == /\ run.at = ClearAt(i) /\ count.crashed < MaxCrashes
                  /\ dist' = [dist EXCEPT ![Removed[i]].whole = FALSE]
                  /\ Give /\ count' = [count EXCEPT !.crashed = @ + 1]
                  /\ UNCHANGED <<head, dirty, env, src, out, made>>

\* _materialize_git_head, twice: the blobs of the commit, whatever the
\* checkout holds by now.
Snapshot == /\ run.at = "snapshot"
            /\ src' = [k \in Both |-> TRUE] /\ out' = [k \in Both |-> <<>>]
            /\ Goto("inputs")
            /\ UNCHANGED <<Elsewhere, dist, made>>

TreesAreTheCommit == \A k \in Both : src[k]

\* Both trees, their contracts, compliance files and input hashes are equal
\* and valid.
Inputs == /\ run.at = "inputs"
          /\ IF TreesAreTheCommit /\ run.rev \in Valid THEN Goto("lock1") ELSE Give
          /\ UNCHANGED <<Elsewhere, src, out, dist, made>>

\* validate_environment_lock before a build: the interpreter with its runtime
\* files, and the packages.
PythonIsLocked == "python" \notin env
PackagesAreLocked == "packages" \notin env
EnvironmentIsLocked == PythonIsLocked /\ PackagesAreLocked
LockAt(k) == <<"lock1", "lock2">>[k]
Lock(k) == /\ run.at = LockAt(k)
           /\ IF EnvironmentIsLocked THEN Goto(<<"tool1", "tool2">>[k]) ELSE Give
           /\ UNCHANGED <<Elsewhere, src, out, dist, made>>

\* _build_once: the tool works with the source and the packages it finds; its
\* output need not be the same twice.
Bytes(rev, clean, locked, noise) ==
  [rev |-> rev, clean |-> clean, locked |-> locked, noise |-> noise, touched |-> 0]
Tool(k) == /\ run.at = <<"tool1", "tool2">>[k]
           /\ \E noise \in {0, 1} :
                LET b == Bytes(run.rev, src[k], EnvironmentIsLocked, noise)
                IN /\ out' = [out EXCEPT ![k] = b]
                   /\ made' = [made EXCEPT ![Build][k] = b]
           /\ Goto(<<"recheck1", "recheck2">>[k])
           /\ UNCHANGED <<Elsewhere, src, dist>>
ToolFails(k) == /\ run.at = <<"tool1", "tool2">>[k] /\ Give
                /\ UNCHANGED <<Elsewhere, src, out, dist, made>>

\* The environment and the snapshot are still what they were before the build.
Recheck(k) == /\ run.at = <<"recheck1", "recheck2">>[k]
              /\ IF EnvironmentIsLocked /\ src[k] THEN Goto(<<"lock2", "hash1">>[k]) ELSE Give
              /\ UNCHANGED <<Elsewhere, src, out, dist, made>>

\* The hashes of both outputs are taken one after the other and compared; a
\* difference is a reproducibility failure.
Hash1 == /\ run.at = "hash1"
         /\ run' = [run EXCEPT !.at = "hash2", !.hashes[1] = out[1]]
         /\ UNCHANGED <<Elsewhere, src, out, dist, made>>
\* A mutant: the hashes are taken and not compared.
HashOnly == /\ run.at = "hash2"
            /\ run' = [run EXCEPT !.at = "authority", !.hashes[2] = out[2]]
            /\ UNCHANGED <<Elsewhere, src, out, dist, made>>
Hash2 == /\ run.at = "hash2"
         /\ IF run.hashes[1] = out[2]
            THEN run' = [run EXCEPT !.at = "authority", !.hashes[2] = out[2]]
            ELSE Give
         /\ UNCHANGED <<Elsewhere, src, out, dist, made>>

\* Last look at the sources and the environment, then the old stages go.
Authority == /\ run.at = "authority"
             /\ IF TreesAreTheCommit /\ EnvironmentIsLocked
                THEN /\ Goto("copy1")
                     /\ dist' = [d \in DOMAIN dist |-> IF d \in Dirs THEN dist[d] ELSE Absent]
                ELSE Give /\ UNCHANGED dist
             /\ UNCHANGED <<Elsewhere, src, out, made>>

\* The second output is copied to three stages after it was hashed again, and
\* the copies and the output are hashed before anything is published.
Copied == [whole |-> TRUE, of |-> Build, bytes |-> out[2]]
CopyAt(i) == <<"copy1", "copy2", "copy3">>[i]
Copy(i) == /\ run.at = CopyAt(i)
           /\ IF i = 1 /\ out[2] # run.hashes[2] THEN Give /\ UNCHANGED dist
              ELSE /\ dist' = [dist EXCEPT ![Stage(Removed[i])] = Copied]
                   /\ Goto(IF i = 3 THEN "staged" ELSE CopyAt(i + 1))
           /\ UNCHANGED <<Elsewhere, src, out, made>>
Staged == /\ run.at = "staged"
          /\ IF out[2] = run.hashes[2] /\ \A d \in Dirs : dist[Stage(d)].bytes = run.hashes[2]
             THEN Goto("publish1") ELSE Give
          /\ UNCHANGED <<Elsewhere, src, out, dist, made>>

\* Each stage takes its place by one rename, the artifact's the last.
PublishAt(i) == <<"publish1", "publish2", "publish3">>[i]
Publish(i) == /\ run.at = PublishAt(i)
              /\ LET d == Published[i]
                 IN dist' = [dist EXCEPT ![d] = dist[Stage(d)], ![Stage(d)] = Absent]
              /\ IF i = 3 THEN Give ELSE Goto(PublishAt(i + 1))
              /\ UNCHANGED <<Elsewhere, src, out, made>>

Builder == \/ Begin \/ Confirm \/ Snapshot \/ Inputs \/ Hash1 \/ Hash2 \/ Authority \/ Staged
           \/ \E i \in 1..3 : Clear(i) \/ ClearCutOff(i) \/ Copy(i) \/ Publish(i)
           \/ \E k \in Both : Lock(k) \/ Tool(k) \/ ToolFails(k) \/ Recheck(k)

-----------------------------------------------------------------------------
\* Others: commits and edits in the checkout, packages installed and put back,
\* files of a snapshot changed and put back, an output changed (never twice in
\* the same way), the death of the builder.
Disturb == /\ count.disturbed < MaxDisturbances
           /\ count' = [count EXCEPT !.disturbed = @ + 1]
           /\ UNCHANGED <<dist, run, made>>
Checkout == /\ Disturb /\ head' \in Revisions /\ dirty' \in BOOLEAN
            /\ <<head, dirty>>' # <<head, dirty>> /\ UNCHANGED <<env, src, out>>
Install == /\ Disturb
           /\ \E e \in {"python", "packages"} :
                env' = (IF e \in env THEN env \ {e} ELSE env \cup {e})
           /\ UNCHANGED <<head, dirty, src, out>>
EditSource(k) == /\ Disturb /\ src' = [src EXCEPT ![k] = ~@]
                 /\ UNCHANGED <<head, dirty, env, out>>
EditOutput(k) == /\ Disturb /\ out[k] # <<>>
                 /\ out' = [out EXCEPT ![k].touched = count.disturbed + 1]
                 /\ UNCHANGED <<head, dirty, env, src>>
Crash == /\ run.at # "idle" /\ count.crashed < MaxCrashes
         /\ Give /\ count' = [count EXCEPT !.crashed = @ + 1]
         /\ UNCHANGED <<head, dirty, env, src, out, dist, made>>

Next == Builder \/ Checkout \/ Install \/ Crash
        \/ \E k \in Both : EditSource(k) \/ EditOutput(k)
Spec == Init /\ [][Next]_vars

-----------------------------------------------------------------------------
\* A candidate that can be found has its harness and its compliance sources
\* beside it, of the same build, wherever an earlier or a later build died
\* (build_release: the artifact goes first and comes last).
PublishedTogether ==
  dist["candidate"].whole =>
    \A d \in Dirs : dist[d].whole /\ dist[d].of = dist["candidate"].of

\* What is published is byte for byte what two independent tool runs over the
\* frozen commit gave: a package, a snapshot or an output that was other than
\* it should be during one of them does not get through, even when it was put
\* back before the next check; it takes the same change under both builds, and
\* putting it back each time, to get other bytes through (build_release,
\* compare and recheck).
PublishedIsReproduced ==
  dist["candidate"].whole =>
    LET c == dist["candidate"]
    IN /\ c.bytes = made[c.of][1] /\ c.bytes = made[c.of][2]
       /\ c.bytes.rev \in Valid
       /\ (c.bytes.locked /\ c.bytes.clean) \/ count.disturbed >= 4

\* Both, of every candidate that can be found.
PublishedIsWhole == PublishedTogether /\ PublishedIsReproduced
=============================================================================
