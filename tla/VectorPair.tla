----------------------------- MODULE VectorPair -----------------------------
(***************************************************************************)
(* The index/metadata pair of src/storage/vector_store.py.  The labels of  *)
(* an index live in two files that must change together.  A write holds    *)
(* the pair lock, copies both files, publishes a marker that names the     *)
(* copies, records in the marker every file it is about to put in place,   *)
(* replaces the two targets one after the other and removes the marker:    *)
(* that removal is the commit.  An error or a restart that finds a marker  *)
(* restores both files from the copies.  Strict readers take no lock and   *)
(* no part in recovery; they check the marker before and after reading.    *)
(*                                                                         *)
(* A file is an identity and the labels it holds; identities are never     *)
(* reused.  The order of publication is that of the chunk pair; the        *)
(* document pair writes only its index.                                    *)
(***************************************************************************)
EXTENDS Integers, FiniteSets, Sequences

CONSTANTS Labels, Alien,      \* labels, and one only an outside tool writes
          Writers, Readers,   \* writable and strict read-only store objects
          Missing,            \* value of a pair that does not exist
          MaxOps,             \* bound: adds and deletes
          MaxSearches,        \* bound: strict searches
          MaxCrashes, MaxFaults, MaxForeign   \* bounds: what goes wrong

ASSUME VPAssumption == /\ Alien \notin Labels
                       /\ \A v \in SUBSET (Labels \cup {Alien}) : Missing # v
                       /\ \A n \in {MaxOps, MaxSearches, MaxCrashes, MaxFaults,
                                    MaxForeign} : n \in Nat

VARIABLES target,     \* the two published files
          marker,     \* the transaction marker
          aux,        \* rollback copies and staged files in the directory
          lock,       \* set holding the writer inside the pair lock
          writer,     \* volatile state of each writer
          reader,     \* volatile state of each strict reader
          nextId,     \* next file identity
          count       \* how often each bounded event happened

vars == <<target, marker, aux, lock, writer, reader, nextId, count>>

Kinds == {"index", "metadata"}
NoFile == [id |-> 0, val |-> {}, schema |-> "none"]
File(i, v) == [id |-> i, val |-> v, schema |-> "v2"]
Bytes(f) == <<f.val, f.schema>>
Nothing == [k \in Kinds |-> NoFile]
NoMarker == [rev |-> 0, orig |-> Nothing, rollback |-> Nothing,
             out |-> Nothing, rec |-> Nothing]

Value(files) == IF files["index"] = NoFile THEN Missing
                ELSE files["metadata"].val

\* What recovery makes of the directory: the originals while a marker exists.
Committed == Value(IF marker = NoMarker THEN target ELSE marker.orig)

Ops == [kind : {"open", "query"}, label : {Alien}]
         \cup [kind : {"add", "delete"}, label : Labels]
NoOp == [kind |-> "query", label |-> Alien]

DownWriter == [pc |-> "idle", up |-> FALSE, op |-> NoOp, tx |-> NoMarker,
               todo |-> << >>, why |-> "recover"]

IdleReader == [pc |-> "idle", meta |-> NoFile, state |-> NoFile,
               loaded |-> NoFile, cache |-> << >>]

Init == /\ target \in {Nothing,
                       [k \in Kinds |->
                          [id |-> IF k = "index" THEN 1 ELSE 2, val |-> {},
                           schema |-> IF k = "index" THEN "v2" ELSE "legacy"]]}
        /\ marker = NoMarker /\ aux = {} /\ lock = {}
        /\ writer = [w \in Writers |-> DownWriter]
        /\ reader = [r \in Readers |-> IdleReader]
        /\ nextId = 3
        /\ count = [ops |-> 0, searches |-> 0, crashes |-> 0, faults |-> 0,
                    foreign |-> 0]

Goto(w, p) == writer' = [writer EXCEPT ![w].pc = p]
At(w, p) == writer[w].pc = p
Op(w) == writer[w].op
Tx(w) == writer[w].tx
Todo(w) == writer[w].todo
Once(event) == count' = [count EXCEPT ![event] = @ + 1]

-----------------------------------------------------------------------------
(* Entering and leaving an operation.                                      *)

\* An operation takes the pair lock; a store that is not open can only open.
Start(w, o) ==
  /\ At(w, "idle") /\ lock = {}
  /\ o.kind = "open" <=> ~writer[w].up
  /\ IF o.kind \in {"add", "delete"}
       THEN count.ops < MaxOps /\ Once("ops") ELSE UNCHANGED count
  /\ lock' = {w}
  /\ writer' = [writer EXCEPT ![w].pc = "recover", ![w].op = o,
                              ![w].why = "recover"]
  /\ UNCHANGED <<target, marker, aux, reader, nextId>>

\* The lock is given back with the answer; only a successful open opens.
Finish(w) ==
  /\ writer[w].pc \in {"ok", "error"}
  /\ lock' = {}
  /\ writer' = [writer EXCEPT ![w] =
                  [DownWriter EXCEPT !.up = writer[w].up \/ At(w, "ok")]]
  /\ UNCHANGED <<target, marker, aux, reader, nextId, count>>

-----------------------------------------------------------------------------
(* Restoring: the same protocol for the next start and for an exception.   *)

\* Mutant of Recover: only opening the store looks for a marker.
RecoverOnOpen(w) ==
  /\ At(w, "recover")
  /\ writer' = IF marker = NoMarker \/ Op(w).kind # "open"
                 THEN [writer EXCEPT ![w].pc = "load"]
               ELSE [writer EXCEPT ![w].pc = "check", ![w].tx = marker]
  /\ UNCHANGED <<target, marker, aux, lock, reader, nextId, count>>

\* Every locked entry first looks for the marker of an unfinished write.
Recover(w) ==
  /\ At(w, "recover")
  /\ writer' = IF marker = NoMarker THEN [writer EXCEPT ![w].pc = "load"]
               ELSE [writer EXCEPT ![w].pc = "check", ![w].tx = marker]
  /\ UNCHANGED <<target, marker, aux, lock, reader, nextId, count>>

Known(t, k) == {t.orig[k], t.out[k], t.rec[k]} \ {NoFile}

Restorable(t) == \A k \in Kinds :
                   /\ target[k] # NoFile => target[k] \in Known(t, k)
                   /\ t.orig[k] # NoFile => t.rollback[k] \in aux

\* Both targets and both copies are verified before the first write.
RestoreCheck(w) ==
  /\ At(w, "check")
  /\ writer' = IF Restorable(Tx(w))
                 THEN [writer EXCEPT ![w].pc = "restore",
                                     ![w].todo = <<"index", "metadata">>]
                 ELSE [writer EXCEPT ![w].pc = "error"]
  /\ UNCHANGED <<target, marker, aux, lock, reader, nextId, count>>

Restored(t, k) == \/ target[k] = t.orig[k]
                  \/ /\ target[k] = t.rec[k]
                     /\ t.rec[k].val = t.orig[k].val /\ t.orig[k] # NoFile

\* Mutant of Persist: the staged file is remembered but not written down.
PersistForgets(w, t, f, p) ==
  /\ aux' = aux \cup {f}
  /\ writer' = [writer EXCEPT ![w].pc = p, ![w].tx = t]
  /\ UNCHANGED marker

\* Writes the marker again with transaction t and file f in the directory;
\* refused if the marker is not the one this object wrote last.
Persist(w, t, f, p) ==
  IF marker.rev = Tx(w).rev
    THEN LET m == [t EXCEPT !.rev = nextId + 1] IN
         /\ marker' = m
         /\ aux' = aux \cup {f}
         /\ writer' = [writer EXCEPT ![w].pc = p, ![w].tx = m]
    ELSE Goto(w, "error") /\ UNCHANGED <<marker, aux>>

\* A target already in place is skipped; otherwise a copy is staged and
\* recorded in the marker.
RestoreStage(w) ==
  /\ At(w, "restore") /\ Todo(w) # << >>
  /\ LET k == Head(Todo(w))
         f == [Tx(w).rollback[k] EXCEPT !.id = nextId] IN
     /\ Tx(w).orig[k] # NoFile
     /\ IF Restored(Tx(w), k)
          THEN /\ writer' = [writer EXCEPT ![w].todo = Tail(@)]
               /\ UNCHANGED <<marker, aux, nextId>>
          ELSE /\ IF target[k] \in Known(Tx(w), k) \cup {NoFile}
                    THEN Persist(w, [Tx(w) EXCEPT !.rec[k] = f], f, "restorePut")
                    ELSE Goto(w, "error") /\ UNCHANGED <<marker, aux>>
               /\ nextId' = nextId + 2
  /\ UNCHANGED <<target, lock, reader, count>>

RestorePut(w) ==
  /\ At(w, "restorePut")
  /\ LET k == Head(Todo(w)) IN
     /\ target' = [target EXCEPT ![k] = Tx(w).rec[k]]
     /\ aux' = aux \ {Tx(w).rec[k]}
  /\ writer' = [writer EXCEPT ![w].pc = "restore", ![w].todo = Tail(@)]
  /\ UNCHANGED <<marker, lock, reader, nextId, count>>

\* Undoing a creation deletes only what the marker says was created.
RestoreDelete(w) ==
  /\ At(w, "restore") /\ Todo(w) # << >>
  /\ LET k == Head(Todo(w)) IN
     /\ Tx(w).orig[k] = NoFile
     /\ IF target[k] \in {NoFile, Tx(w).out[k]}
          THEN /\ target' = [target EXCEPT ![k] = NoFile]
               /\ writer' = [writer EXCEPT ![w].todo = Tail(@)]
          ELSE Goto(w, "error") /\ UNCHANGED target
  /\ UNCHANGED <<marker, aux, lock, reader, nextId, count>>

RestoreDone(w) ==
  /\ At(w, "restore") /\ Todo(w) = << >>
  /\ Goto(w, "clear")
  /\ UNCHANGED <<target, marker, aux, lock, reader, nextId, count>>

\* The marker goes first, the files it names after it.
Clear(w) ==
  /\ At(w, "clear")
  /\ IF marker.rev = Tx(w).rev
       THEN marker' = NoMarker /\ Goto(w, "sweep")
       ELSE Goto(w, "error") /\ UNCHANGED marker
  /\ UNCHANGED <<target, aux, lock, reader, nextId, count>>

Named(t) == {f[k] : f \in {t.rollback, t.out, t.rec}, k \in Kinds}

Sweep(w) ==
  /\ At(w, "sweep")
  /\ aux' = aux \ Named(Tx(w))
  /\ Goto(w, CASE writer[w].why = "recover" -> "load"
               [] writer[w].why = "undo"    -> "error"
               [] writer[w].why = "commit"  -> "ok")
  /\ UNCHANGED <<target, marker, lock, reader, nextId, count>>

-----------------------------------------------------------------------------
(* One write.                                                              *)

Present(k) == target[k] # NoFile

\* A half pair or a missing one is refused; only opening creates.
Load(w) ==
  /\ At(w, "load")
  /\ target["metadata"].schema # "legacy" \/ ~Present("index")
  /\ writer' =
       [writer EXCEPT ![w].pc =
          CASE \A k \in Kinds : Present(k) ->
                 IF Op(w).kind \in {"open", "query"} THEN "ok" ELSE "copy"
            [] \A k \in Kinds : ~Present(k) ->
                 IF Op(w).kind = "open" THEN "copy" ELSE "error"
            [] OTHER -> "error"]
  /\ UNCHANGED <<target, marker, aux, lock, reader, nextId, count>>

\* Old metadata is upgraded in place, one atomic file, outside any transaction.
Migrate(w) ==
  /\ At(w, "load") /\ Present("index")
  /\ target["metadata"].schema = "legacy"
  /\ target' = [target EXCEPT !["metadata"] = File(nextId, @.val)]
  /\ nextId' = nextId + 1
  /\ UNCHANGED <<marker, aux, lock, writer, reader, count>>

\* Mutant of Result: an addition starts a new mapping.
ResultStartsOver(w, f) == CASE Op(w).kind = "add"    -> {Op(w).label}
                            [] Op(w).kind = "delete" -> f.val \ {Op(w).label}
                            [] OTHER                 -> {}

\* What the operation makes of a file, and the files it replaces, in order.
Result(w, f) == CASE Op(w).kind = "add"    -> f.val \cup {Op(w).label}
                  [] Op(w).kind = "delete" -> f.val \ {Op(w).label}
                  [] OTHER                 -> {}

Plan(w) == CASE Op(w).kind = "open" -> <<"index", "metadata">>
             [] /\ Op(w).kind = "delete"
                /\ \E k \in Kinds : Op(w).label \notin target[k].val -> << >>
             [] OTHER -> <<"metadata", "index">>

\* Rollback copies of both files, before anything names them.
Copy(w) ==
  /\ At(w, "copy")
  /\ LET copies == [k \in Kinds |->
                      IF ~Present(k) THEN NoFile
                      ELSE [target[k] EXCEPT !.id =
                              nextId + (IF k = "index" THEN 0 ELSE 1)]] IN
     /\ aux' = aux \cup ({copies[k] : k \in Kinds} \ {NoFile})
     /\ writer' = [writer EXCEPT ![w].pc = "mark", ![w].todo = Plan(w),
                     ![w].tx = [NoMarker EXCEPT !.orig = target,
                                                !.rollback = copies]]
  /\ nextId' = nextId + 2
  /\ UNCHANGED <<target, marker, lock, reader, count>>

\* The marker is published only where there is none.
Mark(w) ==
  /\ At(w, "mark")
  /\ IF marker = NoMarker
       THEN LET m == [Tx(w) EXCEPT !.rev = nextId] IN
            /\ marker' = m
            /\ writer' = [writer EXCEPT ![w].pc = "stage", ![w].tx = m]
       ELSE Goto(w, "error") /\ UNCHANGED marker
  /\ nextId' = nextId + 1
  /\ UNCHANGED <<target, aux, lock, reader, count>>

\* The staged file is recorded in the marker before it replaces the target;
\* metadata is also compared with what the operation read.
Stage(w) ==
  /\ At(w, "stage") /\ Todo(w) # << >>
  /\ LET k == Head(Todo(w))
         f == File(nextId, Result(w, Tx(w).orig[k])) IN
     /\ IF k = "metadata" /\ Bytes(target[k]) # Bytes(Tx(w).orig[k])
          THEN /\ writer' = [writer EXCEPT ![w].pc = "check", ![w].why = "undo"]
               /\ UNCHANGED <<marker, aux>>
          ELSE Persist(w, [Tx(w) EXCEPT !.out[k] = f], f, "put")
  /\ nextId' = nextId + 2
  /\ UNCHANGED <<target, lock, reader, count>>

Put(w) ==
  /\ At(w, "put")
  /\ LET k == Head(Todo(w)) IN
     /\ target' = [target EXCEPT ![k] = Tx(w).out[k]]
     /\ aux' = aux \ {Tx(w).out[k]}
  /\ writer' = [writer EXCEPT ![w].pc = "stage", ![w].todo = Tail(@)]
  /\ UNCHANGED <<marker, lock, reader, nextId, count>>

Expected(t, k) == IF t.out[k] # NoFile THEN t.out[k] ELSE t.orig[k]

\* Both targets must be the recorded ones before the marker is removed.
Complete(w) ==
  /\ At(w, "stage") /\ Todo(w) = << >>
  /\ writer' = IF \A k \in Kinds : /\ Expected(Tx(w), k) # NoFile
                                   /\ target[k] = Expected(Tx(w), k)
                 THEN [writer EXCEPT ![w].pc = "clear", ![w].why = "commit"]
                 ELSE [writer EXCEPT ![w].pc = "error"]
  /\ UNCHANGED <<target, marker, aux, lock, reader, nextId, count>>

-----------------------------------------------------------------------------
(* What goes wrong.                                                        *)

\* An I/O error.  Inside the guarded body it starts the restore, elsewhere
\* it ends the operation where it stands; what is staged is thrown away,
\* and so are copies no marker names yet.
Fault(w) ==
  /\ count.faults < MaxFaults /\ Once("faults")
  /\ writer[w].pc \notin {"idle", "ok", "error"}
  /\ writer' = IF \/ At(w, "put")
                  \/ At(w, "stage") /\ Todo(w) # << >>
                 THEN [writer EXCEPT ![w].pc = "check", ![w].why = "undo"]
                 ELSE [writer EXCEPT ![w].pc = "error"]
  /\ aux' = CASE At(w, "mark") -> aux \ Named(Tx(w))
              [] At(w, "put") -> aux \ {Tx(w).out[Head(Todo(w))]}
              [] At(w, "restorePut") -> aux \ {Tx(w).rec[Head(Todo(w))]}
              [] OTHER -> aux
  /\ UNCHANGED <<target, marker, lock, reader, nextId>>

\* The marker was written but the call reports an error: the object still
\* knows the previous version only.
LateFault(w) ==
  /\ count.faults < MaxFaults /\ Once("faults")
  /\ \/ /\ At(w, "mark") /\ marker = NoMarker
        /\ marker' = [Tx(w) EXCEPT !.rev = nextId]
        /\ Goto(w, "error")
     \/ /\ At(w, "stage") /\ Todo(w) # << >> /\ marker.rev = Tx(w).rev
        /\ LET k == Head(Todo(w))
               t == [Tx(w) EXCEPT !.out[k] = File(nextId, Result(w, Tx(w).orig[k]))] IN
           /\ marker' = [t EXCEPT !.rev = nextId + 1]
           /\ writer' = [writer EXCEPT ![w].pc = "check", ![w].why = "undo",
                                       ![w].tx = t]
  /\ nextId' = nextId + 2
  /\ UNCHANGED <<target, aux, lock, reader>>

\* The process ends; the operating system gives the lock back.
Crash(w) ==
  /\ count.crashes < MaxCrashes /\ Once("crashes")
  /\ writer[w] # DownWriter
  /\ writer' = [writer EXCEPT ![w] = DownWriter]
  /\ lock' = lock \ {w}
  /\ UNCHANGED <<target, marker, aux, reader, nextId>>

\* An outside tool, which ignores the lock, replaces a file.  The window
\* between the check of a restore and its last replacement is left out: the
\* code cannot close it.
Foreign(k) ==
  /\ count.foreign < MaxForeign /\ Once("foreign")
  /\ \A w \in Writers : writer[w].pc \notin {"restore", "restorePut"}
  /\ target' = [target EXCEPT ![k] = File(nextId, {Alien})]
  /\ nextId' = nextId + 1
  /\ UNCHANGED <<marker, aux, lock, writer, reader>>

-----------------------------------------------------------------------------
(* A strict search: no lock, two snapshots.                                *)

ReaderGoto(r, p) == reader' = [reader EXCEPT ![r].pc = p]
ReaderStep(r, from) == /\ reader[r].pc = from
                       /\ UNCHANGED <<target, marker, aux, lock, writer, nextId>>
Reject(r) == reader' = [reader EXCEPT ![r] = IdleReader]
Published == marker = NoMarker /\ \A k \in Kinds : Present(k)
Readable == target["metadata"].schema = "v2"

Search(r) ==
  /\ count.searches < MaxSearches /\ Once("searches")
  /\ ReaderStep(r, "idle")
  /\ IF Published THEN ReaderGoto(r, "meta") ELSE Reject(r)

ReadMeta(r) ==
  /\ ReaderStep(r, "meta") /\ UNCHANGED count
  /\ IF Readable THEN reader' = [reader EXCEPT ![r].pc = "state",
                                               ![r].meta = target["metadata"]]
     ELSE Reject(r)

ReadState(r) ==
  /\ ReaderStep(r, "state") /\ UNCHANGED count
  /\ IF Present("index") THEN reader' = [reader EXCEPT ![r].pc = "load",
                                            ![r].state = target["index"]]
     ELSE Reject(r)

LoadIndex(r) ==
  /\ ReaderStep(r, "load") /\ UNCHANGED count
  /\ IF Present("index") THEN reader' = [reader EXCEPT ![r].pc = "same",
                                            ![r].loaded = target["index"]]
     ELSE Reject(r)

SameState(r) ==
  /\ ReaderStep(r, "same") /\ UNCHANGED count
  /\ IF target["index"] = reader[r].state THEN ReaderGoto(r, "sameMeta")
     ELSE Reject(r)

SameMeta(r) ==
  /\ ReaderStep(r, "sameMeta") /\ UNCHANGED count
  /\ IF Bytes(target["metadata"]) = Bytes(reader[r].meta)
       THEN ReaderGoto(r, "published") ELSE Reject(r)

\* The index object is accepted: no marker, both files there.
AcceptLoad(r) ==
  /\ ReaderStep(r, "published") /\ UNCHANGED count
  /\ IF Published THEN ReaderGoto(r, "loaded") ELSE Reject(r)

\* The search takes its own snapshot of state and metadata afterwards.
SnapState(r) ==
  /\ ReaderStep(r, "loaded") /\ UNCHANGED count
  /\ IF Present("index") THEN reader' = [reader EXCEPT ![r].pc = "snapMeta",
                                            ![r].state = target["index"]]
     ELSE Reject(r)

SnapMeta(r) ==
  /\ ReaderStep(r, "snapMeta") /\ UNCHANGED count
  /\ IF Readable THEN reader' = [reader EXCEPT ![r].pc = "snapSame",
                                               ![r].meta = target["metadata"]]
     ELSE Reject(r)

SnapSame(r) ==
  /\ ReaderStep(r, "snapSame") /\ UNCHANGED count
  /\ IF target["index"] = reader[r].state THEN ReaderGoto(r, "snapFinal")
     ELSE Reject(r)

SnapFinal(r) ==
  /\ ReaderStep(r, "snapFinal") /\ UNCHANGED count
  /\ IF Bytes(target["metadata"]) = Bytes(reader[r].meta)
       THEN ReaderGoto(r, "snapPublished") ELSE Reject(r)

SnapPublished(r) ==
  /\ ReaderStep(r, "snapPublished") /\ UNCHANGED count
  /\ IF Published THEN ReaderGoto(r, "probe") ELSE Reject(r)

Key(r) == <<reader[r].state.id, Bytes(reader[r].meta)>>
CacheHit(r) == reader[r].cache = Key(r)

\* Mutant of Probe: on any pair the hits only have to be mapped.
ProbeTopK(r) ==
  /\ ReaderStep(r, "probe") /\ UNCHANGED count
  /\ IF reader[r].loaded.val \subseteq reader[r].meta.val
       THEN ReaderGoto(r, "recheck") ELSE Reject(r)

\* A pair seen for the first time is probed for every label; on a cached one
\* the hits only have to be mapped.
Probe(r) ==
  /\ ReaderStep(r, "probe") /\ UNCHANGED count
  /\ LET labels == reader[r].loaded.val
         mapped == reader[r].meta.val IN
     IF CacheHit(r)
       THEN IF mapped = {} \/ (labels # {} /\ labels \subseteq mapped)
              THEN ReaderGoto(r, "answered") ELSE Reject(r)
       ELSE IF labels = mapped THEN ReaderGoto(r, "recheck") ELSE Reject(r)

Recheck(r) ==
  /\ ReaderStep(r, "recheck") /\ UNCHANGED count
  /\ IF target["index"] = reader[r].state
       THEN reader' = [reader EXCEPT ![r].pc = "answered", ![r].cache = Key(r)]
       ELSE Reject(r)

Answer(r) ==
  /\ ReaderStep(r, "answered") /\ UNCHANGED count
  /\ reader' = [reader EXCEPT ![r] = [IdleReader EXCEPT !.cache = reader[r].cache]]

-----------------------------------------------------------------------------
WriterStep(w) ==
  \/ Finish(w) \/ Recover(w) \/ RestoreCheck(w) \/ RestoreStage(w)
  \/ RestorePut(w) \/ RestoreDelete(w) \/ RestoreDone(w) \/ Clear(w) \/ Sweep(w)
  \/ Load(w) \/ Migrate(w) \/ Copy(w) \/ Mark(w) \/ Stage(w) \/ Put(w)
  \/ Complete(w)

Searching(r) ==
  \/ ReadMeta(r) \/ ReadState(r) \/ LoadIndex(r) \/ SameState(r)
  \/ SameMeta(r) \/ AcceptLoad(r) \/ SnapState(r) \/ SnapMeta(r) \/ SnapSame(r)
  \/ SnapFinal(r) \/ SnapPublished(r) \/ Probe(r) \/ Recheck(r) \/ Answer(r)

Next ==
  \/ \E w \in Writers : \/ WriterStep(w) \/ Fault(w) \/ LateFault(w) \/ Crash(w)
                        \/ \E o \in Ops : Start(w, o)
  \/ \E r \in Readers : Search(r) \/ Searching(r)
  \/ \E k \in Kinds : Foreign(k)

Spec == Init /\ [][Next]_vars

\* A process inside an operation runs on, a closed store is opened again and
\* an open one is asked again; searches, errors and crashes are not promised.
FairSpec ==
  /\ Spec
  /\ \A w \in Writers : /\ WF_vars(WriterStep(w))
                        /\ SF_vars(\E o \in Ops : o.kind \in {"open", "query"}
                                                    /\ Start(w, o))

-----------------------------------------------------------------------------
(* Properties.                                                             *)

\* The published files, the marker and the local states have their types.
TypeOK ==
  /\ \A k \in Kinds : /\ target[k].id \in 0 .. nextId
                      /\ target[k].val \subseteq Labels \cup {Alien}
  /\ marker.rev \in 0 .. nextId
  /\ Cardinality(lock) <= 1 /\ lock \subseteq Writers
  /\ \A w \in Writers : writer[w].op \in Ops /\ writer[w].up \in BOOLEAN
  /\ \A f \in aux : f.id \in 1 .. nextId

NoAlien == \A k \in Kinds : Alien \notin target[k].val

\* Without a marker the two files exist together and hold the same labels,
\* after every crash and error: what readers and the next write start from.
PairAtRestIsWhole ==
  marker = NoMarker /\ NoAlien =>
    /\ Present("index") <=> Present("metadata")
    /\ target["index"].val = target["metadata"].val

\* While a marker exists each file is still the original or its copy is still
\* in the directory, so no crash point loses the labels of before the write.
MarkerCanBeUndone ==
  marker # NoMarker =>
    \A k \in Kinds : marker.orig[k] # NoFile =>
      /\ marker.rollback[k] \in aux
      /\ marker.rollback[k].val = marker.orig[k].val

\* Every file that replaced a target was recorded first: recovery recognises
\* whatever a crash leaves in place.
TargetsAreRecorded ==
  marker # NoMarker /\ NoAlien =>
    \A k \in Kinds : target[k] = NoFile \/ target[k] \in Known(marker, k)

\* A call that reports success has its labels in the published pair, and a
\* later recovery does not take them back.
SuccessIsCommitted ==
  \A w \in Writers :
    At(w, "ok") /\ NoAlien =>
      /\ marker = NoMarker
      /\ Op(w).kind = "add" => Op(w).label \in target["index"].val
      /\ Op(w).kind = "delete" => Op(w).label \notin target["index"].val

\* What a crash at any point leaves in the directory, with the types.
PairInv == /\ TypeOK /\ PairAtRestIsWhole /\ MarkerCanBeUndone
           /\ TargetsAreRecorded /\ SuccessIsCommitted

\* Nothing has gone wrong yet: no crash, no error, no outside tool.
Calm == count.crashes = 0 /\ count.faults = 0 /\ count.foreign = 0

\* A search answers from an index and a mapping that name the same labels: as long
\* as no write was undone, and the first search, whose cache is empty, always.  (A
\* mapping seen half way through a write that is then undone can be cached with the
\* index that stays; a later search that meets both again skips the probe.)
SearchAnswersOnePair ==
  Calm \/ count.searches <= 1 =>
    \A r \in Readers : reader[r].pc = "answered" =>
                         reader[r].loaded.val = reader[r].meta.val

\* A file of unknown origin that appears during an unfinished write stays
\* through every recovery, of the same call or of a later one; only the
\* write's own publication can still replace it.
ForeignIsKept ==
  [][\A k \in Kinds :
       /\ marker # NoMarker /\ Alien \in target[k].val
       /\ Alien \notin marker.orig[k].val
       => \/ target'[k] = target[k] \/ count'.foreign # count.foreign
          \/ \E w \in Writers : At(w, "put")]_vars

\* Each change of the committed labels is one whole operation.
Atomic == INSTANCE AtomicPair WITH value <- Committed
ImplementsAtomicPair == Atomic!Spec

\* An unfinished write does not stay: the next call restores the pair.
MarkersGoAway == (marker # NoMarker) ~> (marker = NoMarker)
=============================================================================
