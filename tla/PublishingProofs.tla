-------------------------- MODULE PublishingProofs --------------------------
(***************************************************************************)
(* First the vector pair: what a crash, an error or an outside tool leaves *)
(* of it can always be brought back to one set of labels; without the tool *)
(* the two files, the copies and the marker implement one atomic set, and  *)
(* a strict reader answers from one set.  For any labels, writers, readers *)
(* and bounds.                                                             *)
(*                                                                         *)
(* Then the state space that the runs share: a behaviour of MCPublishing   *)
(* is one of each protocol, whichever part moves, so what is proved of a   *)
(* protocol for every instance holds there.                                *)
(***************************************************************************)
EXTENDS MCPublishing, FiniteSetTheorems, TLAPS

Pcs == {"idle", "recover", "check", "restore", "restorePut", "clear", "sweep",
        "load", "copy", "mark", "stage", "put", "ok", "error"}
RealFiles == [id : Nat \ {0}, val : SUBSET (Labels \cup {Alien}),
              schema : {"legacy", "v2"}]
Pairs == [Kinds -> RealFiles \cup {NoFile}]
Txs == [rev : Nat, orig : Pairs, rollback : Pairs, out : Pairs, rec : Pairs]
Todos == {<< >>, <<"index">>, <<"metadata">>, <<"index", "metadata">>,
          <<"metadata", "index">>}
WriterRecs == [pc : Pcs, up : BOOLEAN, op : Ops, tx : Txs, todo : Todos,
               why : {"recover", "undo", "commit"}]
Counts == [ops : Nat, searches : Nat, crashes : Nat, faults : Nat, foreign : Nat]

TypeInv == /\ target \in Pairs /\ marker \in Txs /\ aux \subseteq RealFiles
           /\ lock \in {{}} \cup {{w} : w \in Writers}
           /\ writer \in [Writers -> WriterRecs]
           /\ nextId \in Nat \ {0} /\ count \in Counts /\ count.foreign <= MaxForeign

\* The files a list of work has still to treat.
Left(todo) == {k \in Kinds : \E i \in DOMAIN todo : todo[i] = k}

Before(files, n) == \A k \in Kinds : files[k].id < n

FreshTx(t, n) == /\ t.rev < n /\ Before(t.orig, n) /\ Before(t.rollback, n)
                 /\ Before(t.out, n) /\ Before(t.rec, n)

\* No identity or marker revision has been used that the next one could repeat.
Fresh == /\ Before(target, nextId) /\ \A f \in aux : f.id < nextId
         /\ FreshTx(marker, nextId) /\ \A w \in Writers : FreshTx(Tx(w), nextId)

LockHeld == \A w \in Writers : ~ At(w, "idle") => lock = {w}

Spotless(files) == \A k \in Kinds : Alien \notin files[k].val

\* Two files that no outside tool wrote exist together and agree.
Whole(files) ==
  Spotless(files) => /\ files["index"] # NoFile <=> files["metadata"] # NoFile
                     /\ files["index"].val = files["metadata"].val

\* Transaction t can be undone from its copies, which no step of it removes.
Undoable(t) ==
  /\ Whole(t.orig)
  /\ \A k \in Kinds :
       /\ t.rec[k] # NoFile => t.orig[k] # NoFile /\ t.rec[k].val = t.orig[k].val
       /\ t.orig[k] # NoFile =>
            /\ target[k] # NoFile
            /\ t.rollback[k] \in aux /\ t.rollback[k].val = t.orig[k].val
            /\ \A j \in Kinds : t.rollback[k].id \notin {t.out[j].id, t.rec[j].id}

RestIsWhole == marker = NoMarker => Whole(target)

MarkerIsGood ==
  marker # NoMarker =>
    /\ marker.rev > 0 /\ Undoable(marker)
    /\ \A k \in Kinds : \/ Alien \in target[k].val \/ target[k] = NoFile
                        \/ target[k] \in Known(marker, k)

SpotlessTx(t) == /\ Spotless(t.orig) /\ Spotless(t.rollback)
                 /\ Spotless(t.out) /\ Spotless(t.rec)

\* A file of unknown origin comes from an outside tool.
Clean == count.foreign = 0 => /\ Spotless(target) /\ SpotlessTx(marker)
                              /\ \A w \in Writers : SpotlessTx(Tx(w))

\* What a writer at each step knows of the marker.
KnowsMarker(w) ==
  /\ writer[w].pc \in {"load", "copy", "mark", "sweep", "ok"} => marker = NoMarker
  /\ At(w, "mark") => Undoable(Tx(w)) /\ Tx(w).out = Nothing /\ Tx(w).rec = Nothing
  /\ writer[w].pc \in {"stage", "put", "restorePut"} => marker = Tx(w)
  /\ writer[w].pc \in {"check", "restore", "clear", "stage", "put", "restorePut"} =>
       /\ marker # NoMarker
       /\ marker.orig = Tx(w).orig /\ marker.rollback = Tx(w).rollback
       /\ marker.rec = Tx(w).rec
       /\ marker.rev = Tx(w).rev => marker = Tx(w)

Commits(w) == writer[w].why = "commit"

\* Only a completed write commits.
KnowsWhy(w) ==
  /\ writer[w].pc \in {"recover", "load", "copy", "mark", "stage", "put"} =>
       writer[w].why = "recover"
  /\ writer[w].pc \in {"check", "restore", "restorePut"} => ~ Commits(w)

\* An opening starts from nothing, an addition or a deletion from a pair.
StartsFrom(op, files) ==
  /\ op.kind # "query"
  /\ op.kind = "open" => \A k \in Kinds : files[k] = NoFile \/ Alien \in files[k].val
  /\ op.kind # "open" => \A k \in Kinds : files[k] # NoFile

\* What operation op makes of file f.
Made(op, f) == CASE op.kind = "add"    -> f.val \cup {op.label}
                 [] op.kind = "delete" -> f.val \ {op.label}
                 [] OTHER              -> {}

\* What is written, and that nothing is written twice or forgotten.
KnowsWrite(w) ==
  /\ At(w, "copy") => StartsFrom(Op(w), target)
  /\ writer[w].pc \in {"mark", "stage", "put"} \/ (At(w, "clear") /\ Commits(w)) =>
       /\ StartsFrom(Op(w), Tx(w).orig)
       /\ \A k \in Kinds : Tx(w).out[k] = NoFile
                             \/ Tx(w).out[k].val = Made(Op(w), Tx(w).orig[k])
       /\ \/ /\ Todo(w) = << >> /\ Op(w).kind = "delete"
             /\ \A k \in Kinds : Tx(w).out[k] = NoFile
             /\ \E k \in Kinds : Op(w).label \notin Tx(w).orig[k].val
          \/ \A k \in Kinds : Tx(w).out[k] # NoFile \/ k \in Left(Todo(w))
  /\ writer[w].pc \in {"mark", "stage"} =>
       \A k \in Left(Todo(w)) : Tx(w).out[k] = NoFile
  /\ At(w, "put") => /\ Todo(w) # << >> /\ Tx(w).out[Head(Todo(w))] # NoFile
                     /\ \A k \in Left(Tail(Todo(w))) : Tx(w).out[k] = NoFile

\* What is restored, and what a restore has still to do.
KnowsRestore(w) ==
  /\ writer[w].pc \in {"restore", "restorePut"} \/ (At(w, "clear") /\ ~ Commits(w)) =>
       \A k \in Kinds \ Left(Todo(w)) : Alien \in target[k].val \/ Restored(Tx(w), k)
  /\ writer[w].pc \in {"clear"} => Todo(w) = << >>
  /\ At(w, "restorePut") => Todo(w) # << >> /\ Tx(w).rec[Head(Todo(w))] # NoFile

\* What a completed write has published.
KnowsResult(w) ==
  /\ At(w, "clear") /\ Commits(w) =>
       \A k \in Kinds : \/ Alien \in target[k].val
                        \/ Expected(Tx(w), k) # NoFile /\ target[k] = Expected(Tx(w), k)
  /\ At(w, "ok") \/ (At(w, "sweep") /\ Commits(w)) =>
       \/ ~ Spotless(target)
       \/ \A k \in Kinds : /\ Op(w).kind = "add" => Op(w).label \in target[k].val
                           /\ Op(w).kind = "delete" => Op(w).label \notin target[k].val

\* What is about to be the original is still in place, but for an outside tool.
KnowsSource(w) ==
  At(w, "mark") => \A k \in Kinds : \/ Alien \in target[k].val
                                    \/ target[k] = Tx(w).orig[k]

WriterKnows(w) == /\ KnowsMarker(w) /\ KnowsWhy(w) /\ KnowsSource(w) /\ KnowsWrite(w)
                  /\ KnowsRestore(w) /\ KnowsResult(w)

VectorInv == /\ TypeInv /\ Fresh /\ LockHeld /\ RestIsWhole /\ MarkerIsGood /\ Clean
             /\ \A w \in Writers : WriterKnows(w)

-----------------------------------------------------------------------------
(* Lists of work, records and the lock *)

\* A list of work covers both kinds, or has none left.
LEMMA LeftFacts ==
  /\ Left(<< >>) = {}
  /\ Left(<<"index", "metadata">>) = Kinds /\ Left(<<"metadata", "index">>) = Kinds
  BY DEF Left, Kinds

\* The work that is left when the first piece is done.
LEMMA LeftAfter ==
  ASSUME NEW todo \in Todos, todo # << >>
  PROVE  /\ Head(todo) \in Kinds /\ Tail(todo) \in Todos
         /\ Head(todo) \in Left(todo) /\ Left(Tail(todo)) = Left(todo) \ {Head(todo)}
  <1>1. /\ Left(<<"index">>) = {"index"} /\ Left(<<"metadata">>) = {"metadata"}
        /\ Left(<<"index", "metadata">>) = Kinds /\ Left(<<"metadata", "index">>) = Kinds
        /\ Left(<< >>) = {}
    BY DEF Left, Kinds
  <1>2. /\ Head(<<"index">>) = "index" /\ Tail(<<"index">>) = << >>
        /\ Head(<<"metadata">>) = "metadata" /\ Tail(<<"metadata">>) = << >>
        /\ Head(<<"index", "metadata">>) = "index"
        /\ Tail(<<"index", "metadata">>) = <<"metadata">>
        /\ Head(<<"metadata", "index">>) = "metadata"
        /\ Tail(<<"metadata", "index">>) = <<"index">>
    OBVIOUS
  <1>3. Kinds \ {"index"} = {"metadata"} /\ Kinds \ {"metadata"} = {"index"}
    BY DEF Kinds
  <1> QED
    BY <1>1, <1>2, <1>3 DEF Todos, Kinds

\* No file and no marker are values of their types, and differ from real ones.
LEMMA NothingTyped ==
  /\ Nothing \in Pairs /\ NoMarker \in Txs /\ NoFile \notin RealFiles
  /\ NoMarker.rev = 0 /\ \A k \in Kinds : Nothing[k] = NoFile
  /\ NoMarker.orig = Nothing /\ NoMarker.rollback = Nothing
  /\ NoMarker.out = Nothing /\ NoMarker.rec = Nothing
  /\ NoFile.id = 0 /\ NoFile.val = {} /\ NoFile.schema = "none"
  <1>1. NoFile \notin RealFiles /\ NoFile.id = 0 /\ NoFile.val = {} /\ NoFile.schema = "none"
    BY DEF NoFile, RealFiles
  <1>2. Nothing \in Pairs /\ \A k \in Kinds : Nothing[k] = NoFile
    BY DEF Nothing, Pairs
  <1> QED
    BY <1>1, <1>2 DEF NoMarker, Txs

\* The other writers stay as they are.
Others(w) == \A v \in Writers \ {w} : writer'[v] = writer[v]

\* Writer w goes on in its operation to step pc.
To(w, pc, tx, todo, why) ==
  /\ writer' \in [Writers -> WriterRecs] /\ Others(w)
  /\ writer'[w].pc = pc /\ writer'[w].op = Op(w) /\ writer'[w].tx = tx
  /\ writer'[w].todo = todo /\ writer'[w].why = why

Why(w) == writer[w].why

\* Each way the actions write the state of a writer.
LEMMA ToHolds ==
  ASSUME TypeInv, NEW w \in Writers, NEW pc \in Pcs, NEW tx \in Txs, NEW todo \in Todos,
         NEW why \in {"recover", "undo", "commit"}
  PROVE  /\ Goto(w, pc) => To(w, pc, Tx(w), Todo(w), Why(w))
         /\ writer' = [writer EXCEPT ![w].pc = pc, ![w].tx = tx]
              => To(w, pc, tx, Todo(w), Why(w))
         /\ writer' = [writer EXCEPT ![w].pc = pc, ![w].todo = todo]
              => To(w, pc, Tx(w), todo, Why(w))
         /\ writer' = [writer EXCEPT ![w].pc = pc, ![w].why = why]
              => To(w, pc, Tx(w), Todo(w), why)
         /\ writer' = [writer EXCEPT ![w].pc = pc, ![w].why = why, ![w].tx = tx]
              => To(w, pc, tx, Todo(w), why)
         /\ writer' = [writer EXCEPT ![w].pc = pc, ![w].todo = todo, ![w].tx = tx]
              => To(w, pc, tx, todo, Why(w))
  <1> DEFINE f1 == [writer EXCEPT ![w].pc = pc]
             f2 == [f1 EXCEPT ![w].tx = tx]
             f3 == [f1 EXCEPT ![w].todo = todo]
             f4 == [f1 EXCEPT ![w].why = why]
             f5 == [f4 EXCEPT ![w].tx = tx]
             f6 == [f3 EXCEPT ![w].tx = tx]
             Is(g, t, d, y) == /\ g \in [Writers -> WriterRecs]
                               /\ \A v \in Writers \ {w} : g[v] = writer[v]
                               /\ g[w].pc = pc /\ g[w].op = Op(w) /\ g[w].tx = t
                               /\ g[w].todo = d /\ g[w].why = y
  <1>1. Is(f1, Tx(w), Todo(w), Why(w))
    BY DEF TypeInv, Tx, Todo, Why, Op, WriterRecs
  <1>2. \A g, t, d, y : writer' = g /\ Is(g, t, d, y) => To(w, pc, t, d, y)
    BY DEF To, Others
  <1> HIDE DEF f1
  <1>3. /\ Is(f2, tx, Todo(w), Why(w)) /\ Is(f3, Tx(w), todo, Why(w))
        /\ Is(f4, Tx(w), Todo(w), why)
    <2>1. Is(f2, tx, Todo(w), Why(w))
      BY <1>1 DEF WriterRecs
    <2>2. Is(f3, Tx(w), todo, Why(w))
      BY <1>1 DEF WriterRecs
    <2>3. Is(f4, Tx(w), Todo(w), why)
      BY <1>1 DEF WriterRecs
    <2> QED
      BY <2>1, <2>2, <2>3
  <1> HIDE DEF f2, f3, f4
  <1>4. Is(f5, tx, Todo(w), why) /\ Is(f6, tx, todo, Why(w))
    <2>1. Is(f5, tx, Todo(w), why)
      BY <1>3 DEF WriterRecs
    <2>2. Is(f6, tx, todo, Why(w))
      BY <1>3 DEF WriterRecs
    <2> QED
      BY <2>1, <2>2
  <1> HIDE DEF Is
  <1> QED
    BY <1>1, <1>2, <1>3, <1>4 DEF Goto, f1, f2, f3, f4

\* A writer outside an operation knows nothing it could be wrong about.
LEMMA OthersKnow ==
  ASSUME LockHeld, NEW w \in Writers, ~ At(w, "idle") \/ lock = {}, Others(w)
  PROVE  /\ \A v \in Writers \ {w} : WriterKnows(v)'
         /\ \A v \in Writers \ {w} : writer'[v].pc = "idle"
  <1>1. ASSUME NEW v \in Writers \ {w} PROVE writer'[v].pc = "idle"
    BY <1>1 DEF LockHeld, At, Others
  <1>2. ASSUME NEW v \in Writers \ {w} PROVE WriterKnows(v)'
    BY <1>1 DEF WriterKnows, KnowsMarker, KnowsWhy, KnowsSource, KnowsWrite, KnowsRestore,
       KnowsResult, At
  <1> QED
    BY <1>1, <1>2

\* A writer has a record of its type.
LEMMA WriterTyped ==
  ASSUME TypeInv, NEW w \in Writers
  PROVE  /\ writer[w] \in WriterRecs /\ Tx(w) \in Txs /\ Todo(w) \in Todos /\ Op(w) \in Ops
         /\ Why(w) \in {"recover", "undo", "commit"} /\ writer[w].pc \in Pcs
         /\ Op(w).kind \in {"open", "query", "add", "delete"}
         /\ Op(w).kind \in {"add", "delete"} => Op(w).label \in Labels
  BY DEF TypeInv, WriterRecs, Tx, Todo, Op, Why, Ops

\* m is transaction tx with f recorded for k, as a copy put back or as new.
RecordsBack(m, tx, k, f) ==
  /\ m \in Txs /\ m.rev = nextId + 1 /\ m.orig = tx.orig /\ m.rollback = tx.rollback
  /\ m.out = tx.out /\ m.rec[k] = f /\ \A j \in Kinds \ {k} : m.rec[j] = tx.rec[j]

RecordsNew(m, tx, k, f) ==
  /\ m \in Txs /\ m.rev = nextId + 1 /\ m.orig = tx.orig /\ m.rollback = tx.rollback
  /\ m.rec = tx.rec /\ m.out[k] = f /\ \A j \in Kinds \ {k} : m.out[j] = tx.out[j]

\* A marker is written again only over the one this writer wrote last.
LEMMA PersistHolds ==
  ASSUME TypeInv, NEW w \in Writers, NEW pc \in Pcs, NEW t \in Txs, NEW f \in RealFiles,
         Persist(w, t, f, pc)
  PROVE  \/ /\ marker.rev = Tx(w).rev /\ marker' = [t EXCEPT !.rev = nextId + 1]
            /\ aux' = aux \cup {f} /\ To(w, pc, marker', Todo(w), Why(w))
         \/ /\ marker.rev # Tx(w).rev /\ UNCHANGED <<marker, aux>>
            /\ To(w, "error", Tx(w), Todo(w), Why(w))
  <1>1. /\ [t EXCEPT !.rev = nextId + 1] \in Txs /\ "error" \in Pcs
        /\ Tx(w) \in Txs /\ Todo(w) \in Todos /\ Why(w) \in {"recover", "undo", "commit"}
    BY DEF TypeInv, Txs, Pcs, Tx, Todo, Why, WriterRecs
  <1> DEFINE m == [t EXCEPT !.rev = nextId + 1]
  <1>2. \/ /\ marker.rev = Tx(w).rev /\ marker' = m /\ aux' = aux \cup {f}
           /\ writer' = [writer EXCEPT ![w].pc = pc, ![w].tx = m]
        \/ marker.rev # Tx(w).rev /\ UNCHANGED <<marker, aux>> /\ Goto(w, "error")
    BY DEF Persist
  <1>3. m \in Txs
    BY <1>1
  <1> HIDE DEF m
  <1>4. CASE writer' = [writer EXCEPT ![w].pc = pc, ![w].tx = m]
    <2>1. To(w, pc, m, Todo(w), Why(w))
      BY <1>1, <1>3, <1>4, ToHolds
    <2> QED
      BY <1>1, <1>2, <2>1, ToHolds DEF m
  <1>5. CASE Goto(w, "error")
    BY <1>1, <1>2, <1>4, <1>5, ToHolds DEF m
  <1> QED
    BY <1>2, <1>4, <1>5

\* What the two ways to record a file leave in the marker.
LEMMA RecordsHold ==
  ASSUME NEW tx \in Txs, NEW k \in Kinds, NEW f \in RealFiles, nextId \in Nat
  PROVE  /\ RecordsBack([[tx EXCEPT !.rec[k] = f] EXCEPT !.rev = nextId + 1], tx, k, f)
         /\ RecordsNew([[tx EXCEPT !.out[k] = f] EXCEPT !.rev = nextId + 1], tx, k, f)
         /\ [tx EXCEPT !.rec[k] = f] \in Txs /\ [tx EXCEPT !.out[k] = f] \in Txs
  <1>1. RecordsBack([[tx EXCEPT !.rec[k] = f] EXCEPT !.rev = nextId + 1], tx, k, f)
    <2> DEFINE t == [tx EXCEPT !.rec[k] = f]
    <2>1. /\ t \in Txs /\ t.orig = tx.orig /\ t.rollback = tx.rollback /\ t.out = tx.out
          /\ t.rec[k] = f /\ \A j \in Kinds \ {k} : t.rec[j] = tx.rec[j]
      BY DEF Txs, Pairs
    <2> HIDE DEF t
    <2>2. RecordsBack([t EXCEPT !.rev = nextId + 1], tx, k, f)
      BY <2>1 DEF RecordsBack, Txs
    <2> QED
      BY <2>2 DEF t
  <1>2. RecordsNew([[tx EXCEPT !.out[k] = f] EXCEPT !.rev = nextId + 1], tx, k, f)
    <2> DEFINE t == [tx EXCEPT !.out[k] = f]
    <2>1. /\ t \in Txs /\ t.orig = tx.orig /\ t.rollback = tx.rollback /\ t.rec = tx.rec
          /\ t.out[k] = f /\ \A j \in Kinds \ {k} : t.out[j] = tx.out[j]
      BY DEF Txs, Pairs
    <2> HIDE DEF t
    <2>2. RecordsNew([t EXCEPT !.rev = nextId + 1], tx, k, f)
      BY <2>1 DEF RecordsNew, Txs
    <2> QED
      BY <2>2 DEF t
  <1>3. [tx EXCEPT !.rec[k] = f] \in Txs /\ [tx EXCEPT !.out[k] = f] \in Txs
    BY DEF Txs, Pairs
  <1> QED
    BY <1>1, <1>2, <1>3

\* A new file has a new identity and the labels of its operation.
LEMMA ResultTyped ==
  ASSUME TypeInv, NEW w \in Writers, NEW k \in Kinds
  PROVE  LET f == File(nextId, Result(w, Tx(w).orig[k])) IN
           f \in RealFiles /\ f.id = nextId /\ f.val = Made(Op(w), Tx(w).orig[k])
  <1>1. Tx(w).orig[k].val \subseteq Labels \cup {Alien}
    BY WriterTyped, NothingTyped DEF Txs, Pairs, RealFiles
  <1>2. Result(w, Tx(w).orig[k]) \subseteq Labels \cup {Alien}
    BY <1>1, WriterTyped DEF Result
  <1>3. Result(w, Tx(w).orig[k]) = Made(Op(w), Tx(w).orig[k])
    BY DEF Result, Made
  <1> QED
    BY <1>2, <1>3 DEF File, RealFiles, TypeInv

\* What an operation makes of a file depends on its labels only; no operation
\* adds the label of an outside tool, and an addition or a deletion keeps it.
LEMMA MadeFacts ==
  ASSUME NEW op \in Ops
  PROVE  /\ \A f, g : f.val = g.val => Made(op, f) = Made(op, g)
         /\ \A f : Alien \notin f.val => Alien \notin Made(op, f)
         /\ \A f : op.kind \in {"add", "delete"} /\ Alien \notin Made(op, f)
                     => Alien \notin f.val
         /\ \A f : op.kind = "add" => op.label \in Made(op, f)
         /\ \A f : op.kind = "delete" => op.label \notin Made(op, f)
         /\ \A f : op.kind \in {"open", "query"} => Made(op, f) = {}
         /\ op.kind \in {"open", "query", "add", "delete"}
  BY VPAssumption DEF Made, Ops

\* Identities that were used stay below the next one.
LEMMA FreshAfter ==
  ASSUME TypeInv, Fresh, nextId' \in Nat, nextId <= nextId'
  PROVE  /\ Before(target, nextId') /\ \A f \in aux : f.id < nextId'
         /\ FreshTx(marker, nextId') /\ \A w \in Writers : FreshTx(Tx(w), nextId')
  <1>1. ASSUME NEW files \in Pairs, Before(files, nextId) PROVE Before(files, nextId')
    <2>1. \A k \in Kinds : files[k].id \in Nat
      BY NothingTyped DEF Pairs, RealFiles
    <2> QED
      BY <1>1, <2>1 DEF TypeInv, Before
  <1>2. ASSUME NEW t \in Txs, FreshTx(t, nextId) PROVE FreshTx(t, nextId')
    <2>1. /\ t.orig \in Pairs /\ t.rollback \in Pairs /\ t.out \in Pairs /\ t.rec \in Pairs
          /\ t.rev \in Nat
      BY DEF Txs
    <2> QED
      BY <1>1, <1>2, <2>1 DEF FreshTx, TypeInv
  <1>3. ASSUME NEW f \in aux PROVE f.id < nextId'
    BY DEF TypeInv, Fresh, RealFiles
  <1> QED
    BY <1>1, <1>2, <1>3, WriterTyped DEF TypeInv, Fresh

\* Identities stay fresh when one writer moves on.
LEMMA FreshKept ==
  ASSUME TypeInv, Fresh, nextId' \in Nat, nextId <= nextId', NEW w \in Writers, Others(w),
         Before(target', nextId'), \A f \in aux' : f.id < nextId',
         FreshTx(marker', nextId'), FreshTx(Tx(w)', nextId')
  PROVE  Fresh'
  <1>1. ASSUME NEW v \in Writers PROVE FreshTx(Tx(v)', nextId')
    <2>1. CASE v = w
      BY <2>1
    <2>2. CASE v # w
      <3>1. Tx(v)' = Tx(v)
        BY <2>2 DEF Tx, Others
      <3> QED
        BY <3>1, FreshAfter
    <2> QED
      BY <2>1, <2>2
  <1> QED
    BY <1>1 DEF Fresh

\* So does what came from no outside tool.
LEMMA CleanKept ==
  ASSUME Clean, NEW w \in Writers, Others(w), count'.foreign = count.foreign,
         count.foreign = 0 => /\ Spotless(target') /\ SpotlessTx(marker')
                              /\ SpotlessTx(Tx(w)')
  PROVE  Clean'
  <1>1. ASSUME NEW v \in Writers, v # w PROVE Tx(v)' = Tx(v)
    BY <1>1 DEF Tx, Others
  <1> QED
    BY <1>1 DEF Clean

\* A marker that is written again keeps its age and its origin.
LEMMA RecordsKeep ==
  ASSUME TypeInv, NEW tx \in Txs, NEW k \in Kinds, NEW f, NEW m, NEW n \in Nat,
         RecordsBack(m, tx, k, f) \/ RecordsNew(m, tx, k, f)
  PROVE  /\ m \in Txs /\ m # NoMarker /\ m.rev = nextId + 1
         /\ m.orig = tx.orig /\ m.rollback = tx.rollback
         /\ FreshTx(tx, n) /\ f.id < n /\ nextId + 1 < n => FreshTx(m, n)
         /\ SpotlessTx(tx) /\ Alien \notin f.val => SpotlessTx(m)
  <1>1. /\ m \in Txs /\ m # NoMarker /\ m.rev = nextId + 1
        /\ m.orig = tx.orig /\ m.rollback = tx.rollback
    BY NothingTyped DEF RecordsBack, RecordsNew, TypeInv
  <1>2. FreshTx(tx, n) /\ f.id < n /\ nextId + 1 < n => FreshTx(m, n)
    BY <1>1 DEF RecordsBack, RecordsNew, FreshTx, Before
  <1>3. SpotlessTx(tx) /\ Alien \notin f.val => SpotlessTx(m)
    BY <1>1 DEF RecordsBack, RecordsNew, SpotlessTx, Spotless
  <1> QED
    BY <1>1, <1>2, <1>3

\* The marker that nothing names is fresh.
LEMMA NoMarkerFresh ==
  ASSUME NEW n \in Nat \ {0}
  PROVE  FreshTx(NoMarker, n) /\ Before(Nothing, n)
  BY NothingTyped DEF FreshTx, Before

\* An operation that ends with an error where it stands.
Fails(w) == /\ UNCHANGED <<target, marker, aux, lock, count>> /\ ~ At(w, "idle")
            /\ nextId' \in Nat /\ nextId <= nextId'
            /\ To(w, "error", Tx(w), Todo(w), Why(w))

\* A restore finds a target in place.
SkipsOne(w, k) ==
  /\ UNCHANGED <<target, marker, aux, lock, nextId, count>> /\ At(w, "restore")
  /\ Restored(Tx(w), k) /\ To(w, "restore", Tx(w), Tail(Todo(w)), Why(w))
  /\ Left(Tail(Todo(w))) = Left(Todo(w)) \ {k}

\* A restore records the copy it is about to put in place.
RecordsCopy(w, k, f) ==
  /\ At(w, "restore") /\ UNCHANGED <<target, lock, count>> /\ nextId' = nextId + 2
  /\ Tx(w).orig[k] # NoFile /\ Todo(w) # << >> /\ k = Head(Todo(w))
  /\ f.id = nextId /\ f.val = Tx(w).rollback[k].val
  /\ ~ Restored(Tx(w), k) /\ marker = Tx(w) /\ marker # NoMarker
  /\ RecordsBack(marker', Tx(w), k, f) /\ aux' = aux \cup {f}
  /\ To(w, "restorePut", marker', Todo(w), Why(w))

\* A write finds that its source has changed.
TurnsBack(w) ==
  /\ UNCHANGED <<target, marker, aux, lock, count>> /\ At(w, "stage")
  /\ nextId' = nextId + 2 /\ To(w, "check", Tx(w), Todo(w), "undo")

\* A write has file f of kind k to record.
Records(w, k, f) ==
  /\ At(w, "stage") /\ marker = Tx(w) /\ marker # NoMarker
  /\ UNCHANGED <<target, lock>> /\ nextId' = nextId + 2
  /\ f.id = nextId /\ f.val = Made(Op(w), Tx(w).orig[k])
  /\ Todo(w) # << >> /\ k = Head(Todo(w)) /\ k \in Left(Todo(w))
  /\ Left(Tail(Todo(w))) = Left(Todo(w)) \ {k}
  /\ RecordsNew(marker', Tx(w), k, f)

\* It knows that it did, or it does not.
RecordsFile(w, k, f) ==
  /\ Records(w, k, f) /\ UNCHANGED count /\ aux' = aux \cup {f}
  /\ To(w, "put", marker', Todo(w), Why(w))

RecordsLate(w, k, f, t) ==
  /\ Records(w, k, f) /\ count' \in Counts /\ count'.foreign = count.foreign
  /\ UNCHANGED aux /\ t \in Txs /\ t.rev = Tx(w).rev
  /\ t.orig = marker'.orig /\ t.rollback = marker'.rollback
  /\ t.out = marker'.out /\ t.rec = marker'.rec
  /\ To(w, "check", t, Todo(w), "undo")

\* The first marker is written but the writer does not know.
MarksLate(w) ==
  /\ UNCHANGED <<target, aux, lock>> /\ nextId' = nextId + 2
  /\ count' \in Counts /\ count'.foreign = count.foreign
  /\ At(w, "mark") /\ marker = NoMarker /\ marker' \in Txs /\ marker'.rev = nextId
  /\ marker'.orig = Tx(w).orig /\ marker'.rollback = Tx(w).rollback
  /\ marker'.out = Tx(w).out /\ marker'.rec = Tx(w).rec
  /\ To(w, "error", Tx(w), Todo(w), Why(w))

\* A completed write has both files, and they agree.
LEMMA CommitIsWhole ==
  ASSUME VectorInv, NEW w \in Writers, At(w, "clear"), Commits(w), marker = Tx(w),
         Spotless(target)
  PROVE  /\ target["index"] # NoFile /\ target["metadata"] # NoFile
         /\ target["index"].val = target["metadata"].val
         /\ \A k \in Kinds : /\ Op(w).kind = "add" => Op(w).label \in target[k].val
                             /\ Op(w).kind = "delete" => Op(w).label \notin target[k].val
                             /\ target[k].val = Made(Op(w), Tx(w).orig[k])
  <1>0. /\ TypeInv /\ Fresh /\ LockHeld /\ RestIsWhole /\ MarkerIsGood /\ Clean
        /\ KnowsMarker(w) /\ KnowsWhy(w) /\ KnowsSource(w) /\ KnowsWrite(w)
        /\ KnowsRestore(w) /\ KnowsResult(w)
    BY DEF VectorInv, WriterKnows
  <1>1. /\ Whole(Tx(w).orig)
        /\ \A k \in Kinds : Expected(Tx(w), k) # NoFile /\ target[k] = Expected(Tx(w), k)
    <2>1. marker # NoMarker /\ Undoable(marker)
      BY <1>0 DEF KnowsMarker, MarkerIsGood, At
    <2> QED
      BY <1>0, <2>1 DEF KnowsResult, Undoable, Spotless
  <1>2. /\ StartsFrom(Op(w), Tx(w).orig) /\ Op(w) \in Ops
        /\ \A k \in Kinds : Tx(w).out[k] = NoFile
                              \/ Tx(w).out[k].val = Made(Op(w), Tx(w).orig[k])
        /\ \/ /\ Op(w).kind = "delete" /\ \A k \in Kinds : Tx(w).out[k] = NoFile
              /\ \E k \in Kinds : Op(w).label \notin Tx(w).orig[k].val
           \/ \A k \in Kinds : Tx(w).out[k] # NoFile
    <2>1. Todo(w) = << >> /\ Left(Todo(w)) = {}
      BY <1>0, LeftFacts DEF KnowsRestore, At
    <2> QED
      BY <1>0, <2>1, WriterTyped DEF KnowsWrite, At
  <1>3. CASE /\ Op(w).kind = "delete" /\ \A k \in Kinds : Tx(w).out[k] = NoFile
             /\ \E k \in Kinds : Op(w).label \notin Tx(w).orig[k].val
    <2>1. \A k \in Kinds : target[k] = Tx(w).orig[k] /\ target[k] # NoFile
      BY <1>1, <1>3 DEF Expected
    <2>2. Tx(w).orig["index"].val = Tx(w).orig["metadata"].val
      BY <1>1, <2>1 DEF Whole, Spotless
    <2>3. \A k \in Kinds : Op(w).label \notin Tx(w).orig[k].val
      BY <1>3, <2>2 DEF Kinds
    <2>4. \A k \in Kinds : Made(Op(w), Tx(w).orig[k]) = Tx(w).orig[k].val
      BY <1>3, <2>3 DEF Made
    <2> QED
      <3>1. \A k \in Kinds : /\ Op(w).kind # "add" /\ Op(w).label \notin target[k].val
                             /\ target[k].val = Made(Op(w), Tx(w).orig[k])
        BY <1>3, <2>1, <2>3, <2>4
      <3>2. "index" \in Kinds /\ "metadata" \in Kinds
        BY DEF Kinds
      <3> QED
        BY <2>1, <2>2, <3>1, <3>2
  <1>4. CASE \A k \in Kinds : Tx(w).out[k] # NoFile
    <2>1. \A k \in Kinds : target[k] # NoFile /\ target[k].val = Made(Op(w), Tx(w).orig[k])
      BY <1>1, <1>2, <1>4 DEF Expected
    <2>2. Made(Op(w), Tx(w).orig["index"]) = Made(Op(w), Tx(w).orig["metadata"])
      <3>1. CASE Op(w).kind \in {"open", "query"}
        BY <1>2, <3>1 DEF Made
      <3>2. CASE Op(w).kind \in {"add", "delete"}
        <4>1. Spotless(Tx(w).orig)
          BY <1>2, <2>1, <3>2, MadeFacts DEF Spotless
        <4>2. Tx(w).orig["index"].val = Tx(w).orig["metadata"].val
          BY <1>1, <4>1 DEF Whole
        <4> QED
          BY <1>2, <4>2, MadeFacts
      <3> QED
        BY <1>2, <3>1, <3>2, MadeFacts
    <2>3. \A k \in Kinds : /\ Op(w).kind = "add" => Op(w).label \in target[k].val
                           /\ Op(w).kind = "delete" => Op(w).label \notin target[k].val
      BY <1>2, <2>1, MadeFacts
    <2> QED
      BY <2>1, <2>2, <2>3 DEF Kinds
  <1> QED
    BY <1>2, <1>3, <1>4

\* A completed restore has both files of before, or none.
LEMMA RestoreIsWhole ==
  ASSUME VectorInv, NEW w \in Writers, At(w, "clear"), ~ Commits(w), marker = Tx(w),
         Spotless(target)
  PROVE  /\ Whole(target)
         /\ \A k \in Kinds : /\ target[k] = NoFile <=> Tx(w).orig[k] = NoFile
                             /\ target[k].val = Tx(w).orig[k].val
  <1>1. Undoable(Tx(w))
    BY DEF VectorInv, WriterKnows, KnowsMarker, MarkerIsGood, At
  <1>2. \A k \in Kinds : Restored(Tx(w), k)
    <2>1. Todo(w) = << >> /\ Left(Todo(w)) = {}
      BY LeftFacts DEF VectorInv, WriterKnows, KnowsRestore, At
    <2> QED
      BY <2>1 DEF VectorInv, WriterKnows, KnowsRestore, At, Spotless
  <1>3. \A k \in Kinds : /\ target[k] = NoFile <=> Tx(w).orig[k] = NoFile
                         /\ target[k].val = Tx(w).orig[k].val
    BY <1>1, <1>2 DEF Undoable, Restored
  <1> QED
    BY <1>1, <1>3 DEF Undoable, Whole, Spotless, Kinds

\* Entering an operation keeps the invariant.
LEMMA StartKeeps ==
  ASSUME VectorInv, NEW w \in Writers, NEW o \in Ops, Start(w, o)
  PROVE  VectorInv'
  <1>0. /\ TypeInv /\ Fresh /\ LockHeld /\ RestIsWhole /\ MarkerIsGood /\ Clean
        /\ KnowsMarker(w) /\ KnowsWhy(w) /\ KnowsSource(w) /\ KnowsWrite(w)
        /\ KnowsRestore(w) /\ KnowsResult(w)
    BY DEF VectorInv, WriterKnows
  <1>1. /\ UNCHANGED <<target, marker, aux, nextId>> /\ lock = {} /\ lock' = {w}
        /\ Others(w) /\ writer' \in [Writers -> WriterRecs] /\ writer'[w].pc = "recover"
        /\ writer'[w].op = o /\ writer'[w].tx = Tx(w) /\ writer'[w].why = "recover"
        /\ count' \in Counts /\ count'.foreign = count.foreign
    <2>1. count' \in Counts /\ count'.foreign = count.foreign
      BY <1>0 DEF TypeInv, Start, Once, Counts
    <2>2. writer' = [writer EXCEPT ![w].pc = "recover", ![w].op = o, ![w].why = "recover"]
      BY DEF Start
    <2>3. /\ writer' \in [Writers -> WriterRecs] /\ Others(w) /\ writer'[w].pc = "recover"
          /\ writer'[w].op = o /\ writer'[w].tx = Tx(w) /\ writer'[w].why = "recover"
      <3> DEFINE f1 == [writer EXCEPT ![w].pc = "recover"]
                 f2 == [f1 EXCEPT ![w].op = o]
      <3>1. /\ f1 \in [Writers -> WriterRecs] /\ f1[w].pc = "recover" /\ f1[w].tx = Tx(w)
            /\ \A v \in Writers \ {w} : f1[v] = writer[v]
        BY <1>0 DEF TypeInv, WriterRecs, Pcs, Tx
      <3> HIDE DEF f1
      <3>2. /\ f2 \in [Writers -> WriterRecs] /\ f2[w].pc = "recover" /\ f2[w].tx = Tx(w)
            /\ f2[w].op = o /\ \A v \in Writers \ {w} : f2[v] = writer[v]
        BY <3>1 DEF WriterRecs
      <3> DEFINE f3 == [f2 EXCEPT ![w].why = "recover"]
      <3> HIDE DEF f2
      <3>3. /\ f3 \in [Writers -> WriterRecs] /\ f3[w].pc = "recover" /\ f3[w].tx = Tx(w)
            /\ f3[w].op = o /\ f3[w].why = "recover"
            /\ \A v \in Writers \ {w} : f3[v] = writer[v]
        BY <3>2 DEF WriterRecs
      <3>4. writer' = f3
        BY <2>2 DEF f1, f2
      <3> HIDE DEF f3
      <3> QED
        BY <3>3, <3>4 DEF Others
    <2> QED
      BY <2>1, <2>3 DEF Start
  <1>2. TypeInv' /\ LockHeld'
    BY <1>0, <1>1 DEF TypeInv, LockHeld, At, Others
  <1>3. Fresh'
    BY <1>0, <1>1, <1>2 DEF TypeInv, Fresh, FreshTx, Before, Tx, To, Others
  <1>4. RestIsWhole'
    BY <1>0, <1>1, <1>2 DEF RestIsWhole, Whole, Spotless, MarkerIsGood, Undoable,
       WriterKnows, KnowsMarker, Tx, To, At
  <1>5. Clean'
    BY <1>0, <1>1, <1>2 DEF Clean, SpotlessTx, Spotless, Tx, To, Others
  <1>6. MarkerIsGood'
    BY <1>0, <1>1, <1>2 DEF MarkerIsGood, Undoable, Whole, Spotless, Known,
       WriterKnows, KnowsMarker, At, Tx
  <1>7. KnowsMarker(w)' /\ KnowsWhy(w)'
    BY <1>0, <1>1, <1>2 DEF KnowsMarker, KnowsWhy, To, Others, Tx,
       Todo, Why, Op, At, Commits
  <1>8. KnowsSource(w)'
    BY <1>0, <1>1, <1>2 DEF KnowsSource, To, Tx, At, Op
  <1>9. KnowsWrite(w)'
    BY <1>0, <1>1, <1>2 DEF KnowsMarker, KnowsWhy, KnowsWrite, To,
       Others, Tx, Todo, Why, Op, At, Commits
  <1>10. KnowsRestore(w)'
    BY <1>0, <1>1, <1>2 DEF KnowsMarker, KnowsWhy, KnowsRestore,
       Restored, To, Others, Tx, Todo, Why, Op, At, Commits
  <1>11. KnowsResult(w)'
    BY <1>0, <1>1, <1>2 DEF KnowsMarker, KnowsWhy, KnowsResult,
       Expected, Spotless, To, Others, Tx, Todo, Why, Op, At, Commits
  <1>12. \A v \in Writers \ {w} : WriterKnows(v)'
    BY <1>0, <1>1, OthersKnow
  <1> QED
    BY <1>2, <1>3, <1>4, <1>5, <1>6, <1>7, <1>8, <1>9, <1>10, <1>11, <1>12
       DEF VectorInv, WriterKnows

\* Answering keeps the invariant: a writer that is done knows nothing.
LEMMA FinishKeeps ==
  ASSUME VectorInv, NEW w \in Writers, Finish(w)
  PROVE  VectorInv'
  <1>0. /\ TypeInv /\ Fresh /\ LockHeld /\ RestIsWhole /\ MarkerIsGood /\ Clean
        /\ KnowsMarker(w) /\ KnowsWhy(w) /\ KnowsSource(w) /\ KnowsWrite(w)
        /\ KnowsRestore(w) /\ KnowsResult(w)
    BY DEF VectorInv, WriterKnows
  <1>1. /\ UNCHANGED <<target, marker, aux, nextId>> /\ lock' = {}
        /\ UNCHANGED count /\ ~ At(w, "idle")
        /\ Others(w) /\ writer' \in [Writers -> WriterRecs]
        /\ writer'[w].pc = "idle" /\ writer'[w].tx = NoMarker
    BY <1>0, NothingTyped DEF TypeInv, Finish, DownWriter, NoOp, Ops, Todos,
       WriterRecs,
       Pcs, Others, At
  <1>2. TypeInv' /\ LockHeld'
    <2>1. \A v \in Writers : writer'[v].pc = "idle"
      BY <1>0, <1>1, OthersKnow
    <2> QED
      BY <1>0, <1>1, <2>1 DEF TypeInv, LockHeld, At
  <1>3. Fresh'
    BY <1>0, <1>1, <1>2, NothingTyped DEF TypeInv, Fresh, FreshTx, Before, Tx,
       To, Others, Pairs, Kinds
  <1>4. RestIsWhole'
    BY <1>0, <1>1, <1>2 DEF RestIsWhole, Whole, Spotless, MarkerIsGood, Undoable,
       WriterKnows, KnowsMarker, Tx, To, At
  <1>5. Clean'
    BY <1>0, <1>1, <1>2, NothingTyped DEF Clean, SpotlessTx, Spotless, Tx, To,
       Others
  <1>6. MarkerIsGood'
    BY <1>0, <1>1, <1>2 DEF MarkerIsGood, Undoable, Whole, Spotless, Known,
       WriterKnows, KnowsMarker, At, Tx
  <1>7. KnowsMarker(w)' /\ KnowsWhy(w)'
    BY <1>0, <1>1, <1>2 DEF KnowsMarker, KnowsWhy, To, Others, Tx,
       Todo, Why, Op, At, Commits
  <1>8. KnowsSource(w)'
    BY <1>0, <1>1, <1>2 DEF KnowsSource, To, Tx, At, Op
  <1>9. KnowsWrite(w)'
    BY <1>0, <1>1, <1>2 DEF KnowsMarker, KnowsWhy, KnowsWrite, To,
       Others, Tx, Todo, Why, Op, At, Commits
  <1>10. KnowsRestore(w)'
    BY <1>0, <1>1, <1>2 DEF KnowsMarker, KnowsWhy, KnowsRestore,
       Restored, To, Others, Tx, Todo, Why, Op, At, Commits
  <1>11. KnowsResult(w)'
    BY <1>0, <1>1, <1>2 DEF KnowsMarker, KnowsWhy, KnowsResult,
       Expected, Spotless, To, Others, Tx, Todo, Why, Op, At, Commits
  <1>12. \A v \in Writers \ {w} : WriterKnows(v)'
    BY <1>0, <1>1, OthersKnow
  <1> QED
    BY <1>2, <1>3, <1>4, <1>5, <1>6, <1>7, <1>8, <1>9, <1>10, <1>11, <1>12
       DEF VectorInv, WriterKnows

\* Looking for a marker keeps the invariant.
LEMMA RecoverKeeps ==
  ASSUME VectorInv, NEW w \in Writers, Recover(w)
  PROVE  VectorInv'
  <1>0. /\ TypeInv /\ Fresh /\ LockHeld /\ RestIsWhole /\ MarkerIsGood /\ Clean
        /\ KnowsMarker(w) /\ KnowsWhy(w) /\ KnowsSource(w) /\ KnowsWrite(w)
        /\ KnowsRestore(w) /\ KnowsResult(w)
    BY DEF VectorInv, WriterKnows
  <1>1. /\ UNCHANGED <<target, marker, aux, nextId>> /\ At(w, "recover")
        /\ UNCHANGED <<lock, count>>
        /\ \/ marker = NoMarker /\ To(w, "load", Tx(w), Todo(w), Why(w))
           \/ marker # NoMarker /\ To(w, "check", marker, Todo(w), Why(w))
    BY <1>0, WriterTyped, ToHolds DEF TypeInv, Recover, Goto, Pcs
  <1>2. TypeInv' /\ LockHeld'
    BY <1>0, <1>1, NothingTyped DEF TypeInv, LockHeld, Pairs, Pcs, To, Others, At
  <1>3. Fresh'
    BY <1>0, <1>1, <1>2 DEF TypeInv, Fresh, FreshTx, Before, Tx, To, Others
  <1>4. RestIsWhole'
    BY <1>0, <1>1, <1>2 DEF RestIsWhole, Whole, Spotless, MarkerIsGood, Undoable,
       WriterKnows, KnowsMarker, Tx, To, At
  <1>5. Clean'
    BY <1>0, <1>1, <1>2 DEF Clean, SpotlessTx, Spotless, Tx, To, Others
  <1>6. MarkerIsGood'
    BY <1>0, <1>1, <1>2 DEF MarkerIsGood, Undoable, Whole, Spotless, Known,
       WriterKnows, KnowsMarker, At, Tx
  <1>7. KnowsMarker(w)' /\ KnowsWhy(w)'
    BY <1>0, <1>1, <1>2 DEF KnowsMarker, KnowsWhy, To, Others, Tx,
       Todo, Why, Op, At, Commits
  <1>8. KnowsSource(w)'
    BY <1>0, <1>1, <1>2 DEF KnowsSource, To, Tx, At, Op
  <1>9. KnowsWrite(w)'
    BY <1>0, <1>1, <1>2 DEF KnowsMarker, KnowsWhy, KnowsWrite, To,
       Others, Tx, Todo, Why, Op, At, Commits
  <1>10. KnowsRestore(w)'
    BY <1>0, <1>1, <1>2 DEF KnowsMarker, KnowsWhy, KnowsRestore,
       Restored, To, Others, Tx, Todo, Why, Op, At, Commits
  <1>11. KnowsResult(w)'
    BY <1>0, <1>1, <1>2 DEF KnowsMarker, KnowsWhy, KnowsResult,
       Expected, Spotless, To, Others, Tx, Todo, Why, Op, At, Commits
  <1>12. \A v \in Writers \ {w} : WriterKnows(v)'
    BY <1>0, <1>1, OthersKnow DEF At, To
  <1> QED
    BY <1>2, <1>3, <1>4, <1>5, <1>6, <1>7, <1>8, <1>9, <1>10, <1>11, <1>12
       DEF VectorInv, WriterKnows

\* The check before a restore keeps the invariant.
LEMMA RestoreCheckKeeps ==
  ASSUME VectorInv, NEW w \in Writers, RestoreCheck(w)
  PROVE  VectorInv'
  <1>0. /\ TypeInv /\ Fresh /\ LockHeld /\ RestIsWhole /\ MarkerIsGood /\ Clean
        /\ KnowsMarker(w) /\ KnowsWhy(w) /\ KnowsSource(w) /\ KnowsWrite(w)
        /\ KnowsRestore(w) /\ KnowsResult(w)
    BY DEF VectorInv, WriterKnows
  <1>1. /\ UNCHANGED <<target, marker, aux, nextId>> /\ At(w, "check")
        /\ UNCHANGED <<lock, count>>
        /\ \/ To(w, "error", Tx(w), Todo(w), Why(w))
           \/ To(w, "restore", Tx(w), <<"index", "metadata">>, Why(w))
    BY <1>0, WriterTyped, ToHolds DEF TypeInv, RestoreCheck, Pcs, Todos, Goto
  <1>2. TypeInv' /\ LockHeld'
    BY <1>0, <1>1, NothingTyped DEF TypeInv, LockHeld, Pairs, Pcs, To, Others, At
  <1>3. Fresh'
    BY <1>0, <1>1, <1>2 DEF TypeInv, Fresh, FreshTx, Before, Tx, To, Others
  <1>4. RestIsWhole'
    BY <1>0, <1>1, <1>2 DEF RestIsWhole, Whole, Spotless, MarkerIsGood, Undoable,
       WriterKnows, KnowsMarker, Tx, To, At
  <1>5. Clean'
    BY <1>0, <1>1, <1>2 DEF Clean, SpotlessTx, Spotless, Tx, To, Others
  <1>6. MarkerIsGood'
    BY <1>0, <1>1, <1>2 DEF MarkerIsGood, Undoable, Whole, Spotless, Known,
       WriterKnows, KnowsMarker, At, Tx
  <1>7. KnowsMarker(w)' /\ KnowsWhy(w)'
    BY <1>0, <1>1, <1>2 DEF KnowsMarker, KnowsWhy, To, Others, Tx,
       Todo, Why, Op, At, Commits
  <1>8. KnowsSource(w)'
    BY <1>0, <1>1, <1>2 DEF KnowsSource, To, Tx, At, Op
  <1>9. KnowsWrite(w)'
    BY <1>0, <1>1, <1>2 DEF KnowsMarker, KnowsWhy, KnowsWrite, To,
       Others, Tx, Todo, Why, Op, At, Commits
  <1>10. KnowsRestore(w)'
    BY <1>0, <1>1, <1>2, LeftFacts DEF KnowsMarker, KnowsWhy,
       KnowsRestore, Restored, To, Others, Tx, Todo, Why, Op, At, Commits
  <1>11. KnowsResult(w)'
    BY <1>0, <1>1, <1>2 DEF KnowsMarker, KnowsWhy, KnowsResult,
       Expected, Spotless, To, Others, Tx, Todo, Why, Op, At, Commits
  <1>12. \A v \in Writers \ {w} : WriterKnows(v)'
    BY <1>0, <1>1, OthersKnow DEF At, To
  <1> QED
    BY <1>2, <1>3, <1>4, <1>5, <1>6, <1>7, <1>8, <1>9, <1>10, <1>11, <1>12
       DEF VectorInv, WriterKnows

\* Ending with an error keeps the invariant.
LEMMA FailsKeeps ==
  ASSUME VectorInv, NEW w \in Writers, Fails(w)
  PROVE  VectorInv'
  <1>0. /\ TypeInv /\ Fresh /\ LockHeld /\ RestIsWhole /\ MarkerIsGood /\ Clean
        /\ KnowsMarker(w) /\ KnowsWhy(w) /\ KnowsSource(w) /\ KnowsWrite(w)
        /\ KnowsRestore(w) /\ KnowsResult(w)
    BY DEF VectorInv, WriterKnows
  <1>1. Fails(w)
    OBVIOUS
  <1>2. TypeInv' /\ LockHeld'
    BY <1>0, <1>1, NothingTyped DEF TypeInv, LockHeld, Pairs, Pcs, To, Others,
       At, Fails
  <1>3. Fresh'
    BY <1>0, <1>1, FreshAfter DEF Fresh, Tx, To, Others, Fails
  <1>4. RestIsWhole'
    BY <1>0, <1>1, <1>2 DEF RestIsWhole, Whole, Spotless, MarkerIsGood, Undoable,
       WriterKnows, KnowsMarker, Tx, To, At, Fails
  <1>5. Clean'
    BY <1>0, <1>1, <1>2 DEF Clean, SpotlessTx, Spotless, Tx, To, Others, Fails
  <1>6. MarkerIsGood'
    BY <1>0, <1>1 DEF MarkerIsGood, Undoable, Fails
  <1>7. KnowsMarker(w)' /\ KnowsWhy(w)'
    BY <1>0, <1>1, <1>2 DEF KnowsMarker, KnowsWhy, To, Others, Tx,
       Todo, Why, Op, At, Commits, Fails
  <1>8. KnowsSource(w)'
    BY <1>0, <1>1, <1>2 DEF KnowsSource, To, Tx, At, Op, Fails
  <1>9. KnowsWrite(w)'
    BY <1>0, <1>1, <1>2 DEF KnowsMarker, KnowsWhy, KnowsWrite, To,
       Others, Tx, Todo, Why, Op, At, Commits, Fails
  <1>10. KnowsRestore(w)'
    BY <1>0, <1>1, <1>2 DEF KnowsMarker, KnowsWhy, KnowsRestore,
       Restored, To, Others, Tx, Todo, Why, Op, At, Commits, Fails
  <1>11. KnowsResult(w)'
    BY <1>0, <1>1, <1>2 DEF KnowsMarker, KnowsWhy, KnowsResult,
       Expected, Spotless, To, Others, Tx, Todo, Why, Op, At, Commits, Fails
  <1>12. \A v \in Writers \ {w} : WriterKnows(v)'
    BY <1>0, <1>1, OthersKnow DEF At, To, Fails
  <1> QED
    BY <1>2, <1>3, <1>4, <1>5, <1>6, <1>7, <1>8, <1>9, <1>10, <1>11, <1>12
       DEF VectorInv, WriterKnows

\* Skipping a target in place keeps the invariant.
LEMMA SkipsOneKeeps ==
  ASSUME VectorInv, NEW w \in Writers, NEW k \in Kinds, SkipsOne(w, k)
  PROVE  VectorInv'
  <1>0. /\ TypeInv /\ Fresh /\ LockHeld /\ RestIsWhole /\ MarkerIsGood /\ Clean
        /\ KnowsMarker(w) /\ KnowsWhy(w) /\ KnowsSource(w) /\ KnowsWrite(w)
        /\ KnowsRestore(w) /\ KnowsResult(w)
    BY DEF VectorInv, WriterKnows
  <1>1. SkipsOne(w, k)
    OBVIOUS
  <1>2. TypeInv' /\ LockHeld'
    BY <1>0, <1>1, NothingTyped DEF TypeInv, LockHeld, Pairs, Pcs, To, Others,
       At, SkipsOne
  <1>3. Fresh'
    BY <1>0, <1>1, <1>2 DEF TypeInv, Fresh, FreshTx, Before, Tx, To, Others,
       SkipsOne
  <1>4. RestIsWhole'
    BY <1>0, <1>1, <1>2 DEF RestIsWhole, Whole, Spotless, MarkerIsGood, Undoable,
       WriterKnows, KnowsMarker, Tx, To, At, SkipsOne
  <1>5. Clean'
    <2>1. /\ Tx(w)' = Tx(w) /\ Others(w) /\ marker' = marker /\ target' = target
          /\ count' = count
      BY <1>1 DEF Tx, To, SkipsOne
    <2> QED
      BY <1>0, <2>1, CleanKept DEF Clean
  <1>6. MarkerIsGood'
    BY <1>0, <1>1, <1>2 DEF MarkerIsGood, Undoable, Whole, Spotless, Known,
       WriterKnows, KnowsMarker, At, Tx, SkipsOne
  <1>7. KnowsMarker(w)' /\ KnowsWhy(w)'
    BY <1>0, <1>1, <1>2 DEF KnowsMarker, KnowsWhy, To, Others, Tx,
       Todo, Why, Op, At, Commits, SkipsOne
  <1>8. KnowsSource(w)'
    BY <1>0, <1>1, <1>2 DEF KnowsSource, To, Tx, At, Op, SkipsOne
  <1>9. KnowsWrite(w)'
    BY <1>0, <1>1, <1>2 DEF KnowsMarker, KnowsWhy, KnowsWrite, To,
       Others, Tx, Todo, Why, Op, At, Commits, SkipsOne
  <1>10. KnowsRestore(w)'
    <2>1. \A j \in Kinds \ Left(Todo(w)') : Alien \in target'[j].val \/ Restored(Tx(w), j)'
      BY <1>0, <1>1 DEF KnowsRestore, Restored, To, Tx, Todo, At,
         SkipsOne
    <2> QED
      BY <1>1, <2>1 DEF KnowsRestore, To, At, Tx, Todo, SkipsOne
  <1>11. KnowsResult(w)'
    BY <1>0, <1>1, <1>2 DEF KnowsMarker, KnowsWhy, KnowsResult,
       Expected, Spotless, To, Others, Tx, Todo, Why, Op, At, Commits, SkipsOne
  <1>12. \A v \in Writers \ {w} : WriterKnows(v)'
    BY <1>0, <1>1, OthersKnow DEF At, To, SkipsOne
  <1> QED
    BY <1>2, <1>3, <1>4, <1>5, <1>6, <1>7, <1>8, <1>9, <1>10, <1>11, <1>12
       DEF VectorInv, WriterKnows

\* Recording a copy keeps the invariant: what it replaces in the marker is not in place.
LEMMA RecordsCopyKeeps ==
  ASSUME VectorInv, NEW w \in Writers, NEW k \in Kinds, NEW f \in RealFiles,
         RecordsCopy(w, k, f)
  PROVE  VectorInv'
  <1>0. /\ TypeInv /\ Fresh /\ LockHeld /\ RestIsWhole /\ MarkerIsGood /\ Clean
        /\ KnowsMarker(w) /\ KnowsWhy(w) /\ KnowsSource(w) /\ KnowsWrite(w)
        /\ KnowsRestore(w) /\ KnowsResult(w)
    BY DEF VectorInv, WriterKnows
  <1>1. /\ RecordsCopy(w, k, f) /\ marker' \in Txs /\ marker' # NoMarker
        /\ marker'.rev = nextId + 1
        /\ marker'.orig = Tx(w).orig /\ marker'.rollback = Tx(w).rollback
        /\ FreshTx(marker', nextId') /\ f.id < nextId' /\ nextId' \in Nat \ {0}
        /\ nextId <= nextId' /\ (SpotlessTx(Tx(w)) /\ Alien \notin f.val => SpotlessTx(marker'))
    <2>1. /\ RecordsBack(marker', Tx(w), k, f) /\ Tx(w) \in Txs /\ f.id < nextId'
          /\ nextId + 1 < nextId' /\ nextId' \in Nat \ {0} /\ nextId <= nextId'
      BY <1>0, WriterTyped DEF TypeInv, RecordsCopy
    <2>2. FreshTx(Tx(w), nextId')
      BY <1>0, <2>1, FreshAfter
    <2> QED
      BY <1>0, <2>1, <2>2, RecordsKeep DEF RecordsBack, RecordsNew
  <1>2. TypeInv' /\ LockHeld'
    BY <1>0, <1>1, FreshAfter DEF TypeInv, LockHeld, Pcs, To, Others, At,
       RecordsCopy, RecordsBack
  <1>3. Fresh'
    BY <1>0, <1>1, FreshAfter DEF TypeInv, Fresh, Tx, To, Others, RecordsCopy,
       RecordsBack
  <1>4. RestIsWhole'
    BY <1>0, <1>1, FreshAfter DEF RestIsWhole, RecordsCopy, RecordsBack
  <1>5. Clean'
    <2>1. count'.foreign = 0 => SpotlessTx(marker')
      <3>1. SpotlessTx(Tx(w)) => Alien \notin f.val
        BY <1>1 DEF SpotlessTx, Spotless, RecordsCopy
      <3> QED
        BY <1>0, <1>1, <3>1 DEF Clean, RecordsCopy
    <2> QED
      BY <1>0, <1>1, <2>1 DEF Clean, Tx, To, Others, RecordsCopy
  <1>6. MarkerIsGood'
    <2>1. /\ marker' \in Txs /\ marker'.rev > 0 /\ aux' = aux \cup {f} /\ target' = target
          /\ marker # NoMarker /\ marker = Tx(w) /\ Undoable(marker)
      BY <1>0, <1>1 DEF TypeInv, RecordsCopy, MarkerIsGood
    <2>2. \A j \in Kinds : marker.rollback[j].id # nextId
      BY <1>0, <2>1, NothingTyped DEF TypeInv, Fresh, FreshTx, Before, Txs, Pairs,
         RealFiles
    <2>3. Undoable(marker)'
      <3>1. /\ marker'.orig = marker.orig /\ marker'.rollback = marker.rollback
            /\ marker'.out = marker.out /\ marker'.rec[k] = f /\ f.id = nextId
            /\ \A j \in Kinds \ {k} : marker'.rec[j] = marker.rec[j]
            /\ marker.orig[k] # NoFile /\ f.val = marker.rollback[k].val
        BY <1>1, <2>1 DEF RecordsCopy, RecordsBack
      <3> QED
        BY <2>1, <2>2, <3>1 DEF Undoable
    <2>4. \A j \in Kinds : \/ Alien \in target'[j].val \/ target'[j] = NoFile
                           \/ target'[j] \in Known(marker', j)
      <3>1. \A j \in Kinds : \/ Alien \in target[j].val \/ target[j] = NoFile
                             \/ target[j] \in Known(marker, j)
        BY <1>0, <2>1 DEF MarkerIsGood
      <3>2. Alien \notin target[k].val /\ target[k] # NoFile => target[k] # marker.rec[k]
        BY <1>1, <2>1 DEF RecordsCopy, Restored, Undoable
      <3> QED
        BY <1>1, <2>1, <3>1, <3>2 DEF Known, RecordsCopy, RecordsBack
    <2> QED
      BY <2>1, <2>3, <2>4 DEF MarkerIsGood
  <1>7. KnowsMarker(w)' /\ KnowsWhy(w)'
    BY <1>0, <1>1, FreshAfter DEF KnowsMarker, WriterKnows, KnowsWhy, Tx, To, At,
       Commits, Why, RecordsCopy, RecordsBack
  <1>8. KnowsSource(w)'
    BY <1>1 DEF KnowsSource, To, At, RecordsCopy, RecordsBack
  <1>9. KnowsWrite(w)'
    BY <1>1 DEF KnowsWrite, To, At, RecordsCopy, RecordsBack
  <1>10. KnowsRestore(w)'
    <2>1. /\ Todo(w)' = Todo(w) /\ Tx(w)' = marker' /\ At(w, "restorePut")'
          /\ target' = target
          /\ k \in Left(Todo(w)) /\ Todo(w) # << >> /\ k = Head(Todo(w))
      BY <1>0, <1>1, WriterTyped, LeftAfter DEF RecordsCopy, To, Todo, Tx, At
    <2>2. \A j \in Kinds \ Left(Todo(w)) : Alien \in target[j].val \/ Restored(Tx(w), j)
      BY <1>0, <1>1 DEF KnowsRestore, RecordsCopy, At
    <2>3. marker'.rec[k] = f /\ marker'.orig = Tx(w).orig
          /\ \A j \in Kinds \ {k} : marker'.rec[j] = Tx(w).rec[j]
      BY <1>1 DEF RecordsCopy, RecordsBack
    <2>4. \A j \in Kinds \ Left(Todo(w)') : Alien \in target'[j].val \/ Restored(Tx(w), j)'
      BY <2>1, <2>2, <2>3 DEF Restored
    <2> QED
      BY <2>1, <2>3, <2>4, NothingTyped DEF KnowsRestore, At
  <1>11. KnowsResult(w)'
    BY <1>1 DEF KnowsResult, To, At, RecordsCopy, RecordsBack
  <1>12. \A v \in Writers \ {w} : WriterKnows(v)'
    BY <1>0, <1>1, OthersKnow DEF At, To, RecordsCopy
  <1> QED
    BY <1>2, <1>3, <1>4, <1>5, <1>6, <1>7, <1>8, <1>9, <1>10, <1>11, <1>12
       DEF VectorInv, WriterKnows

\* What staging a copy does.
LEMMA RestoreStageDoes ==
  ASSUME VectorInv, NEW w \in Writers, RestoreStage(w)
  PROVE  \/ Fails(w) \/ \E k \in Kinds : SkipsOne(w, k)
         \/ \E k \in Kinds, f \in RealFiles : RecordsCopy(w, k, f)
  <1> DEFINE k == Head(Todo(w))
             f == [Tx(w).rollback[k] EXCEPT !.id = nextId]
  <1>0. /\ TypeInv /\ Fresh /\ LockHeld /\ RestIsWhole /\ MarkerIsGood /\ Clean
        /\ KnowsMarker(w) /\ KnowsWhy(w) /\ KnowsSource(w) /\ KnowsWrite(w)
        /\ KnowsRestore(w) /\ KnowsResult(w)
    BY DEF VectorInv, WriterKnows
  <1>1. /\ At(w, "restore") /\ Todo(w) # << >> /\ Tx(w).orig[k] # NoFile
        /\ UNCHANGED <<target, lock, count>>
    BY DEF RestoreStage
  <1>2. /\ k \in Kinds /\ Tail(Todo(w)) \in Todos
        /\ Left(Tail(Todo(w))) = Left(Todo(w)) \ {k}
    BY <1>0, <1>1, LeftAfter, WriterTyped
  <1>3. f \in RealFiles /\ f.id = nextId /\ f.val = Tx(w).rollback[k].val
    <2>1. Tx(w).rollback[k] \in RealFiles /\ nextId \in Nat \ {0}
      BY <1>0, <1>1, <1>2 DEF TypeInv, WriterKnows, KnowsMarker, MarkerIsGood,
         Undoable, At
    <2> QED
      BY <2>1 DEF RealFiles
  <1> HIDE DEF f
  <1>4. CASE Restored(Tx(w), k)
    <2>1. /\ writer' = [writer EXCEPT ![w].todo = Tail(Todo(w))]
          /\ UNCHANGED <<marker, aux, nextId>>
      BY <1>4 DEF RestoreStage, Todo
    <2>2. To(w, "restore", Tx(w), Tail(Todo(w)), Why(w))
      BY <1>0, <1>1, <1>2, <2>1 DEF TypeInv, WriterRecs, To, Others, Tx, Todo, Op,
         Why, At
    <2> QED
      BY <1>1, <1>2, <1>4, <2>1, <2>2 DEF SkipsOne
  <1>5. CASE ~ Restored(Tx(w), k)
    <2>1. /\ nextId' = nextId + 2
          /\ \/ Goto(w, "error") /\ UNCHANGED <<marker, aux>>
             \/ Persist(w, [Tx(w) EXCEPT !.rec[k] = f], f, "restorePut")
      BY <1>5 DEF RestoreStage, f
    <2>2. CASE Goto(w, "error") /\ UNCHANGED <<marker, aux>>
      <3>1. To(w, "error", Tx(w), Todo(w), Why(w))
        BY <1>0, <2>2, WriterTyped, ToHolds DEF Pcs
      <3>2. nextId' \in Nat /\ nextId <= nextId'
        BY <1>0, <2>1 DEF TypeInv
      <3> QED
        BY <1>1, <2>1, <2>2, <3>1, <3>2 DEF Fails, At
    <2>3. CASE Persist(w, [Tx(w) EXCEPT !.rec[k] = f], f, "restorePut")
      <3> DEFINE t == [Tx(w) EXCEPT !.rec[k] = f]
      <3>1. t \in Txs /\ RecordsBack([t EXCEPT !.rev = nextId + 1], Tx(w), k, f)
        BY <1>0, <1>2, <1>3, RecordsHold, WriterTyped DEF TypeInv
      <3> HIDE DEF t
      <3>2. Persist(w, t, f, "restorePut")
        BY <2>3 DEF t
      <3>3. marker # NoMarker /\ (marker.rev = Tx(w).rev => marker = Tx(w))
        BY <1>0, <1>1 DEF KnowsMarker, At
      <3>4. \/ /\ marker.rev = Tx(w).rev /\ marker' = [t EXCEPT !.rev = nextId + 1]
               /\ aux' = aux \cup {f} /\ To(w, "restorePut", marker', Todo(w), Why(w))
            \/ /\ marker.rev # Tx(w).rev /\ UNCHANGED <<marker, aux>>
               /\ To(w, "error", Tx(w), Todo(w), Why(w))
        BY <1>0, <1>3, <3>1, <3>2, PersistHolds DEF Pcs
      <3> QED
        BY <1>0, <1>1, <1>2, <1>3, <1>5, <2>1, <3>1, <3>3, <3>4 DEF TypeInv,
           RecordsCopy,
           Fails, At
    <2> QED
      BY <2>1, <2>2, <2>3
  <1> QED
    BY <1>4, <1>5

\* Staging a copy keeps the invariant.
LEMMA RestoreStageKeeps ==
  ASSUME VectorInv, NEW w \in Writers, RestoreStage(w)
  PROVE  VectorInv'
  <1>1. \/ Fails(w) \/ \E k \in Kinds : SkipsOne(w, k)
        \/ \E k \in Kinds, f \in RealFiles : RecordsCopy(w, k, f)
    BY RestoreStageDoes
  <1> QED
    BY <1>1, FailsKeeps, SkipsOneKeeps, RecordsCopyKeeps

\* What putting a copy back does.
LEMMA RestorePutDoes ==
  ASSUME VectorInv, NEW w \in Writers, RestorePut(w)
  PROVE  /\ At(w, "restorePut") /\ UNCHANGED <<marker, lock, nextId, count>>
         /\ marker = Tx(w) /\ marker # NoMarker 
         /\ \E k \in Kinds :
              /\ k = Head(Todo(w)) /\ Left(Tail(Todo(w))) = Left(Todo(w)) \ {k}
              /\ k \in Left(Todo(w))
              /\ Todo(w) # << >> /\ Tx(w).rec[k] # NoFile
              /\ target' \in Pairs /\ target'[k] = Tx(w).rec[k]
              /\ \A j \in Kinds \ {k} : target'[j] = target[j]
              /\ aux' = aux \ {Tx(w).rec[k]}
              /\ To(w, "restore", Tx(w), Tail(Todo(w)), Why(w))
  <1> DEFINE k == Head(Todo(w))
  <1>0. /\ TypeInv /\ Fresh /\ LockHeld /\ RestIsWhole /\ MarkerIsGood /\ Clean
        /\ KnowsMarker(w) /\ KnowsWhy(w) /\ KnowsSource(w) /\ KnowsWrite(w)
        /\ KnowsRestore(w) /\ KnowsResult(w)
    BY DEF VectorInv, WriterKnows
  <1>1. /\ At(w, "restorePut") /\ Todo(w) # << >> /\ Tx(w).rec[k] # NoFile
        /\ marker = Tx(w) /\ marker # NoMarker
    BY <1>0 DEF KnowsMarker, KnowsRestore, RestorePut, At
  <1>2. /\ k \in Kinds /\ Tail(Todo(w)) \in Todos /\ k \in Left(Todo(w))
        /\ Left(Tail(Todo(w))) = Left(Todo(w)) \ {k} /\ Tx(w).rec \in Pairs
    BY <1>0, <1>1, LeftAfter, WriterTyped DEF Txs
  <1>3. /\ target' = [target EXCEPT ![k] = Tx(w).rec[k]] /\ aux' = aux \ {Tx(w).rec[k]}
        /\ writer' = [writer EXCEPT ![w].pc = "restore", ![w].todo = Tail(Todo(w))]
        /\ UNCHANGED <<marker, lock, nextId, count>>
    BY DEF RestorePut, Todo
  <1>4. /\ target' \in Pairs /\ target'[k] = Tx(w).rec[k]
        /\ \A j \in Kinds \ {k} : target'[j] = target[j]
    BY <1>0, <1>2, <1>3 DEF TypeInv, Pairs
  <1>5. To(w, "restore", Tx(w), Tail(Todo(w)), Why(w))
    BY <1>0, <1>2, <1>3, ToHolds, WriterTyped DEF Pcs
  <1> QED
    BY <1>1, <1>2, <1>3, <1>4, <1>5

\* Putting a copy back keeps the invariant.
LEMMA RestorePutKeeps ==
  ASSUME VectorInv, NEW w \in Writers, RestorePut(w)
  PROVE  VectorInv'
  <1>0. /\ TypeInv /\ Fresh /\ LockHeld /\ RestIsWhole /\ MarkerIsGood /\ Clean
        /\ KnowsMarker(w) /\ KnowsWhy(w) /\ KnowsSource(w) /\ KnowsWrite(w)
        /\ KnowsRestore(w) /\ KnowsResult(w)
    BY DEF VectorInv, WriterKnows
  <1>1. /\ At(w, "restorePut") /\ UNCHANGED <<marker, lock, nextId, count>>
        /\ marker = Tx(w) /\ marker # NoMarker 
        /\ \E k \in Kinds :
             /\ k = Head(Todo(w)) /\ Left(Tail(Todo(w))) = Left(Todo(w)) \ {k}
             /\ k \in Left(Todo(w))
             /\ Todo(w) # << >> /\ Tx(w).rec[k] # NoFile
             /\ target' \in Pairs /\ target'[k] = Tx(w).rec[k]
             /\ \A j \in Kinds \ {k} : target'[j] = target[j]
             /\ aux' = aux \ {Tx(w).rec[k]}
             /\ To(w, "restore", Tx(w), Tail(Todo(w)), Why(w))
    BY RestorePutDoes
  <1>2. TypeInv' /\ LockHeld'
    BY <1>0, <1>1, NothingTyped DEF TypeInv, LockHeld, Pairs, Pcs, To, Others, At
  <1>3. Fresh'
    <2>1. nextId' = nextId /\ nextId \in Nat /\ FreshTx(marker', nextId')
      BY <1>0, <1>1 DEF TypeInv, Fresh
    <2>2. Before(target', nextId') /\ \A f \in aux' : f.id < nextId'
      BY <1>0, <1>1 DEF Fresh, FreshTx, Before
    <2>3. FreshTx(Tx(w)', nextId') /\ Others(w)
      BY <1>0, <1>1 DEF Fresh, Tx, To
    <2> QED
      BY <1>0, <2>1, <2>2, <2>3, FreshKept
  <1>4. RestIsWhole'
    BY <1>0, <1>1, <1>2 DEF RestIsWhole, Whole, Spotless, MarkerIsGood, Undoable,
       WriterKnows, KnowsMarker, Tx, To, At
  <1>5. Clean'
    <2>1. SpotlessTx(Tx(w)) /\ Spotless(target) => Spotless(target')
      BY <1>1 DEF SpotlessTx, Spotless
    <2>2. Tx(w)' = Tx(w) /\ Others(w) /\ marker' = marker /\ count' = count
      BY <1>1 DEF Tx, To
    <2> QED
      BY <1>0, <2>1, <2>2, CleanKept DEF Clean
  <1>6. MarkerIsGood'
    <2>1. marker # NoMarker => Undoable(marker)'
      <3>1. Undoable(marker) /\ marker = Tx(w) /\ marker \in Txs
        BY <1>0, <1>1 DEF MarkerIsGood, TypeInv
      <3>2. ASSUME NEW j \in Kinds, marker.orig[j] # NoFile PROVE target'[j] # NoFile
        BY <1>1, <3>1, <3>2 DEF Undoable
      <3>3. ASSUME NEW j \in Kinds, marker.orig[j] # NoFile
            PROVE  marker.rollback[j] \in aux'
        BY <1>1, <3>1, <3>3 DEF Undoable
      <3> QED
        BY <1>1, <3>1, <3>2, <3>3 DEF Undoable
    <2>2. marker # NoMarker =>
           \A j \in Kinds : \/ Alien \in target[j].val' \/ target[j]' = NoFile
                            \/ target[j]' \in Known(marker', j)
      BY <1>0, <1>1 DEF MarkerIsGood, Known, Restored, WriterKnows, KnowsWrite,
         At
    <2> QED
      BY <1>0, <1>1, <2>1, <2>2, NothingTyped DEF TypeInv, MarkerIsGood
  <1>7. KnowsMarker(w)' /\ KnowsWhy(w)'
    BY <1>0, <1>1, <1>2 DEF KnowsMarker, KnowsWhy, To, Others, Tx,
       Todo, Why, Op, At, Commits
  <1>8. KnowsSource(w)'
    BY <1>0, <1>1, <1>2 DEF KnowsSource, To, Tx, At, Op
  <1>9. KnowsWrite(w)'
    BY <1>0, <1>1, <1>2 DEF KnowsMarker, KnowsWhy, KnowsWrite, To,
       Others, Tx, Todo, Why, Op, At, Commits
  <1>10. KnowsRestore(w)'
    <2>1. PICK k \in Kinds : /\ target'[k] = Tx(w).rec[k] /\ Tx(w).rec[k] # NoFile
                             /\ \A j \in Kinds \ {k} : target'[j] = target[j]
                             /\ Left(Tail(Todo(w))) = Left(Todo(w)) \ {k}
      BY <1>1
    <2>2. /\ At(w, "restore")' /\ Tx(w)' = Tx(w) /\ Left(Todo(w)') = Left(Tail(Todo(w)))
      BY <1>1 DEF To, At, Tx, Todo
    <2>3. \A j \in Kinds \ Left(Todo(w)) : Alien \in target[j].val \/ Restored(Tx(w), j)
      BY <1>0, <1>1 DEF KnowsRestore, At
    <2>4. Restored(Tx(w), k)'
      BY <1>0, <1>1, <2>1, <2>2 DEF MarkerIsGood, Undoable, Restored
    <2>5. \A j \in Kinds \ Left(Todo(w)') : Alien \in target'[j].val \/ Restored(Tx(w), j)'
      BY <2>1, <2>2, <2>3, <2>4 DEF Restored
    <2> QED
      BY <2>2, <2>5 DEF KnowsRestore, At
  <1>11. KnowsResult(w)'
    BY <1>0, <1>1, <1>2 DEF KnowsMarker, KnowsWhy, KnowsResult,
       Expected, Spotless, To, Others, Tx, Todo, Why, Op, At, Commits
  <1>12. \A v \in Writers \ {w} : WriterKnows(v)'
    BY <1>0, <1>1, OthersKnow DEF At, To
  <1> QED
    BY <1>2, <1>3, <1>4, <1>5, <1>6, <1>7, <1>8, <1>9, <1>10, <1>11, <1>12
       DEF VectorInv, WriterKnows

\* What undoing a creation does.
LEMMA RestoreDeleteDoes ==
  ASSUME VectorInv, NEW w \in Writers, RestoreDelete(w)
  PROVE  /\ At(w, "restore") /\ UNCHANGED <<marker, aux, lock, nextId, count>>
         /\ \E k \in Kinds :
              /\ k = Head(Todo(w)) /\ Todo(w) # << >> /\ Tx(w).orig[k] = NoFile
              /\ Left(Tail(Todo(w))) = Left(Todo(w)) \ {k} /\ k \in Left(Todo(w))
              /\ target' \in Pairs
              /\ \/ /\ target'[k] = NoFile /\ \A j \in Kinds \ {k} : target'[j] = target[j]
                    /\ To(w, "restore", Tx(w), Tail(Todo(w)), Why(w))
                 \/ target' = target /\ To(w, "error", Tx(w), Todo(w), Why(w))
  <1> DEFINE k == Head(Todo(w))
  <1>1. /\ At(w, "restore") /\ Todo(w) # << >> /\ Tx(w).orig[k] = NoFile
        /\ UNCHANGED <<marker, aux, lock, nextId, count>>
        /\ \/ /\ target' = [target EXCEPT ![k] = NoFile]
              /\ writer' = [writer EXCEPT ![w].todo = Tail(Todo(w))]
           \/ Goto(w, "error") /\ UNCHANGED target
    BY DEF RestoreDelete, Todo
  <1>2. /\ k \in Kinds /\ Tail(Todo(w)) \in Todos /\ k \in Left(Todo(w))
        /\ Left(Tail(Todo(w))) = Left(Todo(w)) \ {k} /\ target \in Pairs
    BY <1>1, LeftAfter, WriterTyped DEF VectorInv, TypeInv
  <1>3. CASE /\ target' = [target EXCEPT ![k] = NoFile]
             /\ writer' = [writer EXCEPT ![w].todo = Tail(Todo(w))]
    <2>1. /\ target' \in Pairs /\ target'[k] = NoFile
          /\ \A j \in Kinds \ {k} : target'[j] = target[j]
      BY <1>2, <1>3 DEF Pairs
    <2>2. To(w, "restore", Tx(w), Tail(Todo(w)), Why(w))
      <3>1. writer' = [writer EXCEPT ![w].pc = "restore", ![w].todo = Tail(Todo(w))]
        BY <1>1, <1>3 DEF VectorInv, TypeInv, WriterRecs, At
      <3> QED
        BY <1>2, <3>1, WriterTyped, ToHolds DEF VectorInv, Pcs
    <2> QED
      BY <1>1, <1>2, <2>1, <2>2
  <1>4. CASE Goto(w, "error") /\ UNCHANGED target
    BY <1>1, <1>2, <1>4, ToHolds, WriterTyped DEF VectorInv, Pcs
  <1> QED
    BY <1>1, <1>3, <1>4

\* Undoing a creation keeps the invariant.
LEMMA RestoreDeleteKeeps ==
  ASSUME VectorInv, NEW w \in Writers, RestoreDelete(w)
  PROVE  VectorInv'
  <1>0. /\ TypeInv /\ Fresh /\ LockHeld /\ RestIsWhole /\ MarkerIsGood /\ Clean
        /\ KnowsMarker(w) /\ KnowsWhy(w) /\ KnowsSource(w) /\ KnowsWrite(w)
        /\ KnowsRestore(w) /\ KnowsResult(w)
    BY DEF VectorInv, WriterKnows
  <1>1. /\ At(w, "restore") /\ UNCHANGED <<marker, aux, lock, nextId, count>>
        /\ \E k \in Kinds :
             /\ k = Head(Todo(w)) /\ Todo(w) # << >> /\ Tx(w).orig[k] = NoFile
             /\ Left(Tail(Todo(w))) = Left(Todo(w)) \ {k} /\ k \in Left(Todo(w))
             /\ target' \in Pairs
             /\ \/ /\ target'[k] = NoFile /\ \A j \in Kinds \ {k} : target'[j] = target[j]
                   /\ To(w, "restore", Tx(w), Tail(Todo(w)), Why(w))
                \/ target' = target /\ To(w, "error", Tx(w), Todo(w), Why(w))
    BY RestoreDeleteDoes
  <1>2. TypeInv' /\ LockHeld'
    BY <1>0, <1>1, NothingTyped DEF TypeInv, LockHeld, Pairs, Pcs, To, Others, At
  <1>3. Fresh'
    BY <1>0, <1>1, <1>2 DEF TypeInv, Fresh, FreshTx, Before, Tx, To, Others
  <1>4. RestIsWhole'
    BY <1>0, <1>1, <1>2 DEF RestIsWhole, Whole, Spotless, MarkerIsGood, Undoable,
       WriterKnows, KnowsMarker, Tx, To, At
  <1>5. Clean'
    BY <1>0, <1>1, <1>2 DEF Clean, SpotlessTx, Spotless, Tx, To, Others
  <1>6. MarkerIsGood'
    BY <1>0, <1>1, <1>2 DEF MarkerIsGood, Undoable, Whole, Spotless, Known,
       WriterKnows, KnowsMarker, At, Tx
  <1>7. KnowsMarker(w)' /\ KnowsWhy(w)'
    BY <1>0, <1>1, <1>2 DEF KnowsMarker, KnowsWhy, To, Others, Tx,
       Todo, Why, Op, At, Commits
  <1>8. KnowsSource(w)'
    BY <1>0, <1>1, <1>2 DEF KnowsSource, To, Tx, At, Op
  <1>9. KnowsWrite(w)'
    BY <1>0, <1>1, <1>2 DEF KnowsMarker, KnowsWhy, KnowsWrite, To,
       Others, Tx, Todo, Why, Op, At, Commits
  <1>10. KnowsRestore(w)'
    <2>1. \/ At(w, "error")'
          \/ \A j \in Kinds \ Left(Todo(w)') : Alien \in target'[j].val \/ Restored(Tx(w), j)'
      BY <1>0, <1>1 DEF KnowsRestore, Restored, To, Tx, Todo, At
    <2> QED
      BY <1>1, <2>1 DEF KnowsRestore, To, At, Tx, Todo
  <1>11. KnowsResult(w)'
    BY <1>0, <1>1, <1>2 DEF KnowsMarker, KnowsWhy, KnowsResult,
       Expected, Spotless, To, Others, Tx, Todo, Why, Op, At, Commits
  <1>12. \A v \in Writers \ {w} : WriterKnows(v)'
    BY <1>0, <1>1, OthersKnow DEF At, To
  <1> QED
    BY <1>2, <1>3, <1>4, <1>5, <1>6, <1>7, <1>8, <1>9, <1>10, <1>11, <1>12
       DEF VectorInv, WriterKnows

\* The end of a restore keeps the invariant.
LEMMA RestoreDoneKeeps ==
  ASSUME VectorInv, NEW w \in Writers, RestoreDone(w)
  PROVE  VectorInv'
  <1>0. /\ TypeInv /\ Fresh /\ LockHeld /\ RestIsWhole /\ MarkerIsGood /\ Clean
        /\ KnowsMarker(w) /\ KnowsWhy(w) /\ KnowsSource(w) /\ KnowsWrite(w)
        /\ KnowsRestore(w) /\ KnowsResult(w)
    BY DEF VectorInv, WriterKnows
  <1>1. /\ UNCHANGED <<target, marker, aux, nextId>> /\ At(w, "restore")
        /\ UNCHANGED <<lock, count>>
        /\ Todo(w) = << >> /\ To(w, "clear", Tx(w), Todo(w), Why(w))
    BY <1>0, WriterTyped, ToHolds DEF TypeInv, RestoreDone, Pcs
  <1>2. TypeInv' /\ LockHeld'
    BY <1>0, <1>1, NothingTyped DEF TypeInv, LockHeld, Pairs, Pcs, To, Others, At
  <1>3. Fresh'
    BY <1>0, <1>1, <1>2 DEF TypeInv, Fresh, FreshTx, Before, Tx, To, Others
  <1>4. RestIsWhole'
    BY <1>0, <1>1, <1>2 DEF RestIsWhole, Whole, Spotless, MarkerIsGood, Undoable,
       WriterKnows, KnowsMarker, Tx, To, At
  <1>5. Clean'
    BY <1>0, <1>1, <1>2 DEF Clean, SpotlessTx, Spotless, Tx, To, Others
  <1>6. MarkerIsGood'
    BY <1>0, <1>1, <1>2 DEF MarkerIsGood, Undoable, Whole, Spotless, Known,
       WriterKnows, KnowsMarker, At, Tx
  <1>7. KnowsMarker(w)' /\ KnowsWhy(w)'
    BY <1>0, <1>1, <1>2 DEF KnowsMarker, KnowsWhy, To, Others, Tx,
       Todo, Why, Op, At, Commits
  <1>8. KnowsSource(w)'
    BY <1>0, <1>1, <1>2 DEF KnowsSource, To, Tx, At, Op
  <1>9. KnowsWrite(w)'
    BY <1>0, <1>1, <1>2 DEF KnowsMarker, KnowsWhy, KnowsWrite, To,
       Others, Tx, Todo, Why, Op, At, Commits
  <1>10. KnowsRestore(w)'
    BY <1>0, <1>1, <1>2 DEF KnowsMarker, KnowsWhy, KnowsRestore,
       Restored, To, Others, Tx, Todo, Why, Op, At, Commits
  <1>11. KnowsResult(w)'
    BY <1>0, <1>1, <1>2 DEF KnowsMarker, KnowsWhy, KnowsResult,
       Expected, Spotless, To, Others, Tx, Todo, Why, Op, At, Commits
  <1>12. \A v \in Writers \ {w} : WriterKnows(v)'
    BY <1>0, <1>1, OthersKnow DEF At, To
  <1> QED
    BY <1>2, <1>3, <1>4, <1>5, <1>6, <1>7, <1>8, <1>9, <1>10, <1>11, <1>12
       DEF VectorInv, WriterKnows

\* What removing the marker does.
LEMMA ClearDoes ==
  ASSUME VectorInv, NEW w \in Writers, Clear(w)
  PROVE  /\ UNCHANGED <<target, aux, nextId>> /\ At(w, "clear") /\ UNCHANGED <<lock, count>>
         /\ \/ marker = Tx(w) /\ marker' = NoMarker /\ To(w, "sweep", Tx(w), Todo(w), Why(w))
            \/ marker' = marker /\ To(w, "error", Tx(w), Todo(w), Why(w))
  BY WriterTyped, ToHolds DEF VectorInv, TypeInv, Clear, Pcs, WriterKnows,
     KnowsMarker, At

\* Removing the marker keeps the invariant: the pair is whole.
LEMMA ClearKeeps ==
  ASSUME VectorInv, NEW w \in Writers, Clear(w)
  PROVE  VectorInv'
  <1>0. /\ TypeInv /\ Fresh /\ LockHeld /\ RestIsWhole /\ MarkerIsGood /\ Clean
        /\ KnowsMarker(w) /\ KnowsWhy(w) /\ KnowsSource(w) /\ KnowsWrite(w)
        /\ KnowsRestore(w) /\ KnowsResult(w)
    BY DEF VectorInv, WriterKnows
  <1>1. /\ UNCHANGED <<target, aux, nextId>> /\ At(w, "clear") /\ UNCHANGED <<lock, count>>
        /\ \/ marker = Tx(w) /\ marker' = NoMarker /\ To(w, "sweep", Tx(w), Todo(w), Why(w))
           \/ marker' = marker /\ To(w, "error", Tx(w), Todo(w), Why(w))
    BY ClearDoes
  <1>2. TypeInv' /\ LockHeld'
    BY <1>0, <1>1, NothingTyped DEF TypeInv, LockHeld, Pairs, Pcs, To, Others, At
  <1>3. Fresh'
    BY <1>0, <1>1, NoMarkerFresh DEF TypeInv, Fresh, Tx, To, Others
  <1>4. RestIsWhole'
    <2>1. CASE marker = Tx(w) /\ marker' = NoMarker
      <3>1. Spotless(target) /\ Commits(w) => Whole(target)
        BY <1>1, <2>1, CommitIsWhole DEF Whole
      <3>2. Spotless(target) /\ ~ Commits(w) => Whole(target)
        BY <1>1, <2>1, RestoreIsWhole
      <3>3. Whole(target)
        BY <3>1, <3>2 DEF Whole
      <3> QED
        BY <1>1, <3>3 DEF RestIsWhole, Whole, Spotless
    <2>2. CASE marker' = marker
      BY <1>0, <1>1, <2>2 DEF RestIsWhole, Whole, Spotless
    <2> QED
      BY <1>1, <2>1, <2>2
  <1>5. Clean'
    BY <1>0, <1>1, <1>2, NothingTyped DEF Clean, SpotlessTx, Spotless, Tx, To,
       Others
  <1>6. MarkerIsGood'
    BY <1>0, <1>1, <1>2 DEF MarkerIsGood, Undoable, Whole, Spotless, Known,
       WriterKnows, KnowsMarker, At, Tx
  <1>7. KnowsMarker(w)' /\ KnowsWhy(w)'
    BY <1>0, <1>1, <1>2 DEF KnowsMarker, KnowsWhy, To, Others, Tx,
       Todo, Why, Op, At, Commits
  <1>8. KnowsSource(w)'
    BY <1>0, <1>1, <1>2 DEF KnowsSource, To, Tx, At, Op
  <1>9. KnowsWrite(w)'
    BY <1>0, <1>1, <1>2 DEF KnowsMarker, KnowsWhy, KnowsWrite, To,
       Others, Tx, Todo, Why, Op, At, Commits
  <1>10. KnowsRestore(w)'
    BY <1>0, <1>1, <1>2 DEF KnowsMarker, KnowsWhy, KnowsRestore,
       Restored, To, Others, Tx, Todo, Why, Op, At, Commits
  <1>11. KnowsResult(w)'
    <2>1. CASE marker = Tx(w) /\ To(w, "sweep", Tx(w), Todo(w), Why(w))
      <3>1. Commits(w)' = Commits(w) /\ Op(w)' = Op(w) /\ target' = target /\ At(w, "sweep")'
        BY <1>1, <2>1 DEF To, Commits, Why, Op, At
      <3>2. Commits(w) =>
              \/ ~ Spotless(target)
              \/ \A k \in Kinds : /\ Op(w).kind = "add" => Op(w).label \in target[k].val
                                  /\ Op(w).kind = "delete" => Op(w).label \notin target[k].val
        BY <1>1, <2>1, CommitIsWhole
      <3> QED
        BY <3>1, <3>2 DEF KnowsResult, At, Spotless
    <2>2. CASE To(w, "error", Tx(w), Todo(w), Why(w))
      BY <2>2 DEF KnowsResult, To, At
    <2> QED
      BY <1>1, <2>1, <2>2
  <1>12. \A v \in Writers \ {w} : WriterKnows(v)'
    BY <1>0, <1>1, OthersKnow DEF At, To
  <1> QED
    BY <1>2, <1>3, <1>4, <1>5, <1>6, <1>7, <1>8, <1>9, <1>10, <1>11, <1>12
       DEF VectorInv, WriterKnows

\* Removing what the marker named keeps the invariant.
LEMMA SweepKeeps ==
  ASSUME VectorInv, NEW w \in Writers, Sweep(w)
  PROVE  VectorInv'
  <1>0. /\ TypeInv /\ Fresh /\ LockHeld /\ RestIsWhole /\ MarkerIsGood /\ Clean
        /\ KnowsMarker(w) /\ KnowsWhy(w) /\ KnowsSource(w) /\ KnowsWrite(w)
        /\ KnowsRestore(w) /\ KnowsResult(w)
    BY DEF VectorInv, WriterKnows
  <1>1. /\ UNCHANGED <<target, marker, nextId>> /\ At(w, "sweep")
        /\ UNCHANGED <<lock, count>> /\ aux' \subseteq aux
        /\ \/ To(w, "load", Tx(w), Todo(w), Why(w)) /\ Why(w) = "recover"
           \/ To(w, "error", Tx(w), Todo(w), Why(w))
           \/ To(w, "ok", Tx(w), Todo(w), Why(w)) /\ Commits(w)
    <2>1. \/ Goto(w, "load") /\ Why(w) = "recover"
          \/ Goto(w, "error")
          \/ Goto(w, "ok") /\ Commits(w)
      BY <1>0, WriterTyped DEF Sweep, Why, Commits
    <2> QED
      BY <1>0, <2>1, WriterTyped, ToHolds DEF Sweep, Pcs
  <1>2. TypeInv' /\ LockHeld'
    BY <1>0, <1>1, NothingTyped DEF TypeInv, LockHeld, Pairs, Pcs, To, Others, At
  <1>3. Fresh'
    BY <1>0, <1>1, <1>2 DEF TypeInv, Fresh, FreshTx, Before, Tx, To, Others
  <1>4. RestIsWhole'
    BY <1>0, <1>1, <1>2 DEF RestIsWhole, Whole, Spotless, MarkerIsGood, Undoable,
       WriterKnows, KnowsMarker, Tx, To, At
  <1>5. Clean'
    BY <1>0, <1>1, <1>2 DEF Clean, SpotlessTx, Spotless, Tx, To, Others
  <1>6. MarkerIsGood'
    BY <1>0, <1>1, <1>2 DEF MarkerIsGood, Undoable, Whole, Spotless, Known,
       WriterKnows, KnowsMarker, At, Tx
  <1>7. KnowsMarker(w)' /\ KnowsWhy(w)'
    BY <1>0, <1>1, <1>2 DEF KnowsMarker, KnowsWhy, To, Others, Tx,
       Todo, Why, Op, At, Commits
  <1>8. KnowsSource(w)'
    BY <1>0, <1>1, <1>2 DEF KnowsSource, To, Tx, At, Op
  <1>9. KnowsWrite(w)'
    BY <1>0, <1>1, <1>2 DEF KnowsMarker, KnowsWhy, KnowsWrite, To,
       Others, Tx, Todo, Why, Op, At, Commits
  <1>10. KnowsRestore(w)'
    BY <1>0, <1>1, <1>2 DEF KnowsMarker, KnowsWhy, KnowsRestore,
       Restored, To, Others, Tx, Todo, Why, Op, At, Commits
  <1>11. KnowsResult(w)'
    <2>1. At(w, "ok")' => KnowsResult(w)
      BY <1>0, <1>1
    <2> QED
      BY <1>1, <2>1 DEF KnowsResult, To, At, Op, Tx, Commits, Why
  <1>12. \A v \in Writers \ {w} : WriterKnows(v)'
    BY <1>0, <1>1, OthersKnow DEF At, To
  <1> QED
    BY <1>2, <1>3, <1>4, <1>5, <1>6, <1>7, <1>8, <1>9, <1>10, <1>11, <1>12
       DEF VectorInv, WriterKnows

\* Loading keeps the invariant: it refuses a half pair.
LEMMA LoadKeeps ==
  ASSUME VectorInv, NEW w \in Writers, Load(w)
  PROVE  VectorInv'
  <1>0. /\ TypeInv /\ Fresh /\ LockHeld /\ RestIsWhole /\ MarkerIsGood /\ Clean
        /\ KnowsMarker(w) /\ KnowsWhy(w) /\ KnowsSource(w) /\ KnowsWrite(w)
        /\ KnowsRestore(w) /\ KnowsResult(w)
    BY DEF VectorInv, WriterKnows
  <1>1. /\ UNCHANGED <<target, marker, aux, nextId>> /\ At(w, "load")
        /\ UNCHANGED <<lock, count>>
        /\ \/ To(w, "ok", Tx(w), Todo(w), Why(w)) /\ Op(w).kind \in {"open", "query"}
           \/ To(w, "copy", Tx(w), Todo(w), Why(w)) /\ StartsFrom(Op(w), target)
           \/ To(w, "error", Tx(w), Todo(w), Why(w))
    <2>1. \/ Goto(w, "ok") /\ Op(w).kind \in {"open", "query"}
          \/ Goto(w, "copy") /\ StartsFrom(Op(w), target)
          \/ Goto(w, "error")
      BY <1>0, WriterTyped DEF Load, Goto, Present, Kinds, StartsFrom
    <2> QED
      BY <1>0, <2>1, WriterTyped, ToHolds DEF Load, Pcs
  <1>2. TypeInv' /\ LockHeld'
    BY <1>0, <1>1, NothingTyped DEF TypeInv, LockHeld, Pairs, Pcs, To, Others, At
  <1>3. Fresh'
    BY <1>0, <1>1, <1>2 DEF TypeInv, Fresh, FreshTx, Before, Tx, To, Others
  <1>4. RestIsWhole'
    BY <1>0, <1>1, <1>2 DEF RestIsWhole, Whole, Spotless, MarkerIsGood, Undoable,
       WriterKnows, KnowsMarker, Tx, To, At
  <1>5. Clean'
    BY <1>0, <1>1, <1>2 DEF Clean, SpotlessTx, Spotless, Tx, To, Others
  <1>6. MarkerIsGood'
    BY <1>0, <1>1, <1>2 DEF MarkerIsGood, Undoable, Whole, Spotless, Known,
       WriterKnows, KnowsMarker, At, Tx
  <1>7. KnowsMarker(w)' /\ KnowsWhy(w)'
    BY <1>0, <1>1, <1>2 DEF KnowsMarker, KnowsWhy, To, Others, Tx,
       Todo, Why, Op, At, Commits
  <1>8. KnowsSource(w)'
    BY <1>0, <1>1, <1>2 DEF KnowsSource, To, Tx, At, Op
  <1>9. KnowsWrite(w)'
    BY <1>0, <1>1, <1>2 DEF KnowsMarker, KnowsWhy, KnowsWrite, To,
       Others, Tx, Todo, Why, Op, At, Commits
  <1>10. KnowsRestore(w)'
    BY <1>0, <1>1, <1>2 DEF KnowsMarker, KnowsWhy, KnowsRestore,
       Restored, To, Others, Tx, Todo, Why, Op, At, Commits
  <1>11. KnowsResult(w)'
    BY <1>0, <1>1, <1>2 DEF KnowsMarker, KnowsWhy, KnowsResult,
       Expected, Spotless, To, Others, Tx, Todo, Why, Op, At, Commits
  <1>12. \A v \in Writers \ {w} : WriterKnows(v)'
    BY <1>0, <1>1, OthersKnow DEF At, To
  <1> QED
    BY <1>2, <1>3, <1>4, <1>5, <1>6, <1>7, <1>8, <1>9, <1>10, <1>11, <1>12
       DEF VectorInv, WriterKnows

\* What the upgrade of old metadata does.
LEMMA MigrateDoes ==
  ASSUME VectorInv, NEW w \in Writers, Migrate(w)
  PROVE  /\ At(w, "load") /\ UNCHANGED <<marker, aux, lock, writer, count>>
         /\ nextId' = nextId + 1
         /\ target' \in Pairs /\ target'["index"] = target["index"]
         /\ target'["metadata"].id = nextId
         /\ target'["metadata"].val = target["metadata"].val
         /\ target'["metadata"] # NoFile /\ target["metadata"] # NoFile
  <1>1. target \in Pairs /\ target["metadata"] \in RealFiles /\ nextId \in Nat \ {0}
    BY NothingTyped DEF VectorInv, TypeInv, Pairs, Migrate, Kinds
  <1>2. File(nextId, target["metadata"].val) \in RealFiles
    BY <1>1 DEF File, RealFiles
  <1>3. target' = [target EXCEPT !["metadata"] = File(nextId, target["metadata"].val)]
    BY DEF Migrate
  <1>4. /\ target' \in Pairs /\ target'["index"] = target["index"]
        /\ target'["metadata"] = File(nextId, target["metadata"].val)
    BY <1>1, <1>2, <1>3 DEF Pairs, Kinds
  <1> QED
    BY <1>1, <1>2, <1>4, NothingTyped DEF Migrate, File

\* The upgrade of old metadata keeps the labels.
LEMMA MigrateKeeps ==
  ASSUME VectorInv, NEW w \in Writers, Migrate(w)
  PROVE  VectorInv'
  <1>0. /\ TypeInv /\ Fresh /\ LockHeld /\ RestIsWhole /\ MarkerIsGood /\ Clean
        /\ KnowsMarker(w) /\ KnowsWhy(w) /\ KnowsSource(w) /\ KnowsWrite(w)
        /\ KnowsRestore(w) /\ KnowsResult(w)
    BY DEF VectorInv, WriterKnows
  <1>1. /\ At(w, "load") /\ UNCHANGED <<marker, aux, lock, writer, count>>
        /\ nextId' = nextId + 1
        /\ target' \in Pairs /\ target'["index"] = target["index"]
        /\ target'["metadata"].id = nextId
        /\ target'["metadata"].val = target["metadata"].val
        /\ target'["metadata"] # NoFile /\ target["metadata"] # NoFile
    BY MigrateDoes
  <1>2. TypeInv' /\ LockHeld'
    BY <1>0, <1>1, NothingTyped DEF TypeInv, LockHeld, Pairs, Pcs, To, Others,
       At, Kinds
  <1>3. Fresh'
    <2>1. nextId' \in Nat /\ nextId <= nextId' /\ nextId < nextId'
      BY <1>0, <1>1 DEF TypeInv
    <2>2. /\ Before(target, nextId') /\ \A f \in aux : f.id < nextId'
          /\ FreshTx(marker, nextId') /\ \A v \in Writers : FreshTx(Tx(v), nextId')
      BY <1>0, <2>1, FreshAfter
    <2>3. Before(target', nextId')
      BY <1>1, <2>1, <2>2 DEF Before, Kinds
    <2> QED
      BY <1>1, <2>2, <2>3 DEF Fresh, Tx
  <1>4. RestIsWhole'
    BY <1>0, <1>1, <1>2 DEF RestIsWhole, Whole, Spotless, MarkerIsGood, Undoable,
       WriterKnows, KnowsMarker, Tx, To, At, Kinds
  <1>5. Clean'
    BY <1>0, <1>1, <1>2 DEF Clean, SpotlessTx, Spotless, Tx, To, Others, Kinds
  <1>6. MarkerIsGood'
    BY <1>0, <1>1, <1>2 DEF MarkerIsGood, Undoable, Whole, Spotless, Known,
       WriterKnows, KnowsMarker, At, Tx, Kinds
  <1>7. KnowsMarker(w)' /\ KnowsWhy(w)'
    BY <1>0, <1>1, <1>2 DEF KnowsMarker, KnowsWhy, To, Others, Tx,
       Todo, Why, Op, At, Commits, Kinds
  <1>8. KnowsSource(w)'
    BY <1>0, <1>1, <1>2 DEF KnowsSource, To, Tx, At, Op, Kinds
  <1>9. KnowsWrite(w)'
    BY <1>0, <1>1, <1>2 DEF KnowsMarker, KnowsWhy, KnowsWrite, To,
       Others, Tx, Todo, Why, Op, At, Commits, Kinds
  <1>10. KnowsRestore(w)'
    BY <1>0, <1>1, <1>2 DEF KnowsMarker, KnowsWhy, KnowsRestore,
       Restored, To, Others, Tx, Todo, Why, Op, At, Commits, Kinds
  <1>11. KnowsResult(w)'
    BY <1>0, <1>1, <1>2 DEF KnowsMarker, KnowsWhy, KnowsResult,
       Expected, Spotless, To, Others, Tx, Todo, Why, Op, At, Commits, Kinds
  <1>12. \A v \in Writers \ {w} : WriterKnows(v)'
    BY <1>0, <1>1, OthersKnow DEF At, Others
  <1> QED
    BY <1>2, <1>3, <1>4, <1>5, <1>6, <1>7, <1>8, <1>9, <1>10, <1>11, <1>12
       DEF VectorInv, WriterKnows

\* Taking the copies keeps the invariant.
LEMMA CopyKeeps ==
  ASSUME VectorInv, NEW w \in Writers, Copy(w)
  PROVE  VectorInv'
  <1>0. /\ TypeInv /\ Fresh /\ LockHeld /\ RestIsWhole /\ MarkerIsGood /\ Clean
        /\ KnowsMarker(w) /\ KnowsWhy(w) /\ KnowsSource(w) /\ KnowsWrite(w)
        /\ KnowsRestore(w) /\ KnowsResult(w)
    BY DEF VectorInv, WriterKnows
  <1>1. /\ UNCHANGED <<target, marker>> /\ At(w, "copy")
        /\ UNCHANGED <<lock, count>> /\ nextId' = nextId + 2
        /\ \E tx \in Txs, todo \in Todos :
             /\ To(w, "mark", tx, todo, Why(w))
             /\ tx.orig = target /\ tx.out = Nothing /\ tx.rec = Nothing /\ tx.rev = 0
             /\ \A k \in Kinds :
                  /\ target[k] = NoFile => tx.rollback[k] = NoFile
                  /\ target[k] # NoFile =>
                       /\ tx.rollback[k] \in RealFiles /\ tx.rollback[k].val = target[k].val
                       /\ tx.rollback[k].id \in {nextId, nextId + 1}
             /\ aux' = aux \cup ({tx.rollback[k] : k \in Kinds} \ {NoFile})
             /\ \/ /\ todo = << >> /\ Op(w).kind = "delete"
                   /\ \E k \in Kinds : Op(w).label \notin target[k].val
                \/ Left(todo) = Kinds
    <2> DEFINE c == [k \in Kinds |-> IF ~ Present(k) THEN NoFile
                                    ELSE [target[k] EXCEPT !.id =
                                            nextId + (IF k = "index" THEN 0 ELSE 1)]]
               tx == [NoMarker EXCEPT !.orig = target, !.rollback = c]
    <2>1. /\ At(w, "copy") /\ UNCHANGED <<target, marker, lock, count>>
          /\ nextId' = nextId + 2
          /\ aux' = aux \cup ({c[k] : k \in Kinds} \ {NoFile})
          /\ writer' = [writer EXCEPT ![w].pc = "mark", ![w].todo = Plan(w), ![w].tx = tx]
      BY DEF Copy
    <2>2. target \in Pairs /\ nextId \in Nat \ {0}
      BY <1>0 DEF TypeInv
    <2>3. /\ c \in Pairs
          /\ \A k \in Kinds :
               /\ target[k] = NoFile => c[k] = NoFile
               /\ target[k] # NoFile => /\ c[k] \in RealFiles /\ c[k].val = target[k].val
                                        /\ c[k].id \in {nextId, nextId + 1}
      <3>1. ASSUME NEW k \in Kinds, target[k] = NoFile PROVE c[k] = NoFile
        BY <3>1 DEF Present
      <3>2. ASSUME NEW k \in Kinds, target[k] # NoFile
            PROVE /\ c[k] \in RealFiles /\ c[k].val = target[k].val
                  /\ c[k].id \in {nextId, nextId + 1}
        <4> DEFINE n == nextId + (IF k = "index" THEN 0 ELSE 1)
        <4>1. n \in Nat \ {0} /\ n \in {nextId, nextId + 1}
          BY <2>2
        <4>2. target[k] \in RealFiles /\ c[k] = [target[k] EXCEPT !.id = n]
          BY <2>2, <3>2 DEF Present, Pairs
        <4> HIDE DEF n
        <4> QED
          BY <4>1, <4>2 DEF RealFiles
      <3> QED
        BY <3>1, <3>2 DEF Pairs
    <2> HIDE DEF c
    <2>4. /\ tx \in Txs /\ tx.orig = target /\ tx.rollback = c /\ tx.out = Nothing
          /\ tx.rec = Nothing /\ tx.rev = 0
      BY <2>2, <2>3, NothingTyped DEF NoMarker, Txs
    <2> HIDE DEF tx
    <2>5. /\ Plan(w) \in Todos
          /\ \/ /\ Plan(w) = << >> /\ Op(w).kind = "delete"
                /\ \E k \in Kinds : Op(w).label \notin target[k].val
             \/ Left(Plan(w)) = Kinds
      BY LeftFacts DEF Plan, Todos
    <2>6. To(w, "mark", tx, Plan(w), Why(w))
      BY <1>0, <2>1, <2>4, <2>5, WriterTyped, ToHolds DEF Pcs
    <2> QED
      BY <2>1, <2>3, <2>4, <2>5, <2>6
  <1>2. TypeInv' /\ LockHeld'
    BY <1>0, <1>1, NothingTyped DEF TypeInv, LockHeld, Pairs, Pcs, To, Others, At
  <1>3. Fresh'
    <2>1. PICK tx \in Txs : /\ Tx(w)' = tx /\ tx.orig = target /\ tx.rev = 0
                            /\ tx.out = Nothing /\ tx.rec = Nothing
                            /\ aux' = aux \cup ({tx.rollback[k] : k \in Kinds} \ {NoFile})
                            /\ \A k \in Kinds : \/ tx.rollback[k] = NoFile
                                                \/ tx.rollback[k].id \in {nextId, nextId + 1}
      BY <1>1 DEF To, Tx
    <2>2. Before(tx.rollback, nextId') /\ nextId' \in Nat \ {0} /\ nextId <= nextId'
      BY <1>0, <1>1, <2>1, NothingTyped DEF TypeInv, Before
    <2>3. FreshTx(tx, nextId')
      BY <1>0, <2>1, <2>2, FreshAfter, NoMarkerFresh DEF FreshTx
    <2>4. \A f \in aux' : f.id < nextId'
      BY <1>0, <2>1, <2>2, FreshAfter DEF Before
    <2> QED
      BY <1>0, <1>1, <2>1, <2>2, <2>3, <2>4, FreshAfter DEF Fresh, Tx, To, Others
  <1>4. RestIsWhole'
    BY <1>0, <1>1, <1>2 DEF RestIsWhole, Whole, Spotless, MarkerIsGood, Undoable,
       WriterKnows, KnowsMarker, Tx, To, At
  <1>5. Clean'
    BY <1>0, <1>1, <1>2, NothingTyped DEF Clean, SpotlessTx, Spotless, Tx, To,
       Others
  <1>6. MarkerIsGood'
    BY <1>0, <1>1, <1>2 DEF MarkerIsGood, Undoable, Whole, Spotless, Known,
       WriterKnows, KnowsMarker, At, Tx
  <1>7. KnowsMarker(w)' /\ KnowsWhy(w)'
    <2>1. Undoable(Tx(w))'
      BY <1>0, <1>1, <1>2, NothingTyped DEF TypeInv, RestIsWhole, WriterKnows,
         KnowsMarker, Undoable, Whole, Spotless, To, Tx, At, RealFiles, Pairs
    <2> QED
      BY <1>0, <1>1, <2>1 DEF KnowsMarker, KnowsWhy, To, Tx, At,
         Why, Commits
  <1>8. KnowsSource(w)'
    BY <1>0, <1>1, <1>2 DEF KnowsSource, To, Tx, At, Op
  <1>9. KnowsWrite(w)'
    <2>1. PICK tx \in Txs, todo \in Todos :
             /\ Tx(w)' = tx /\ Todo(w)' = todo /\ Op(w)' = Op(w) /\ writer'[w].pc = "mark"
             /\ tx.orig = target /\ tx.out = Nothing
             /\ \/ /\ todo = << >> /\ Op(w).kind = "delete"
                   /\ \E k \in Kinds : Op(w).label \notin target[k].val
                \/ Left(todo) = Kinds
      BY <1>1 DEF To, Tx, Todo, Op
    <2>2. /\ StartsFrom(Op(w), target) /\ \A k \in Kinds : tx.out[k] = NoFile
          /\ Left(todo) \subseteq Kinds
      BY <1>0, <1>1, <2>1, NothingTyped DEF KnowsWrite, At, Left
    <2> QED
      BY <2>1, <2>2 DEF KnowsWrite, At
  <1>10. KnowsRestore(w)'
    BY <1>0, <1>1, <1>2 DEF KnowsMarker, KnowsWhy, KnowsRestore,
       Restored, To, Others, Tx, Todo, Why, Op, At, Commits
  <1>11. KnowsResult(w)'
    BY <1>0, <1>1, <1>2 DEF KnowsMarker, KnowsWhy, KnowsResult,
       Expected, Spotless, To, Others, Tx, Todo, Why, Op, At, Commits
  <1>12. \A v \in Writers \ {w} : WriterKnows(v)'
    BY <1>0, <1>1, OthersKnow DEF At, To
  <1> QED
    BY <1>2, <1>3, <1>4, <1>5, <1>6, <1>7, <1>8, <1>9, <1>10, <1>11, <1>12
       DEF VectorInv, WriterKnows

\* What publishing the marker does.
LEMMA MarkDoes ==
  ASSUME VectorInv, NEW w \in Writers, Mark(w)
  PROVE  /\ UNCHANGED <<target, aux>> /\ At(w, "mark") /\ UNCHANGED <<lock, count>>
         /\ nextId' = nextId + 1
         /\ \/ /\ marker = NoMarker /\ marker' \in Txs /\ marker'.rev = nextId
               /\ marker'.orig = Tx(w).orig /\ marker'.rollback = Tx(w).rollback
               /\ marker'.out = Tx(w).out /\ marker'.rec = Tx(w).rec
               /\ To(w, "stage", marker', Todo(w), Why(w))
            \/ marker' = marker /\ To(w, "error", Tx(w), Todo(w), Why(w))
  <1> DEFINE m == [Tx(w) EXCEPT !.rev = nextId]
  <1>1. /\ At(w, "mark") /\ UNCHANGED <<target, aux, lock, count>> /\ nextId' = nextId + 1
        /\ \/ /\ marker = NoMarker /\ marker' = m
              /\ writer' = [writer EXCEPT ![w].pc = "stage", ![w].tx = m]
           \/ marker' = marker /\ Goto(w, "error")
    BY DEF Mark
  <1>2. /\ m \in Txs /\ m.rev = nextId /\ m.orig = Tx(w).orig /\ m.out = Tx(w).out
        /\ m.rollback = Tx(w).rollback /\ m.rec = Tx(w).rec
    BY WriterTyped DEF VectorInv, TypeInv, Txs
  <1> HIDE DEF m
  <1> QED
    BY <1>1, <1>2, WriterTyped, ToHolds DEF VectorInv, Pcs

\* Publishing the marker keeps the invariant: from here the copies count.
LEMMA MarkKeeps ==
  ASSUME VectorInv, NEW w \in Writers, Mark(w)
  PROVE  VectorInv'
  <1>0. /\ TypeInv /\ Fresh /\ LockHeld /\ RestIsWhole /\ MarkerIsGood /\ Clean
        /\ KnowsMarker(w) /\ KnowsWhy(w) /\ KnowsSource(w) /\ KnowsWrite(w)
        /\ KnowsRestore(w) /\ KnowsResult(w)
    BY DEF VectorInv, WriterKnows
  <1>1. /\ UNCHANGED <<target, aux>> /\ At(w, "mark") /\ UNCHANGED <<lock, count>>
        /\ nextId' = nextId + 1
        /\ \/ /\ marker = NoMarker /\ marker' \in Txs /\ marker'.rev = nextId
              /\ marker'.orig = Tx(w).orig /\ marker'.rollback = Tx(w).rollback
              /\ marker'.out = Tx(w).out /\ marker'.rec = Tx(w).rec
              /\ To(w, "stage", marker', Todo(w), Why(w))
           \/ marker' = marker /\ To(w, "error", Tx(w), Todo(w), Why(w))
    BY MarkDoes
  <1>2. TypeInv' /\ LockHeld'
    BY <1>0, <1>1, NothingTyped DEF TypeInv, LockHeld, Pairs, Pcs, To, Others, At
  <1>3. Fresh'
    <2>1. nextId' \in Nat /\ nextId <= nextId' /\ nextId < nextId' /\ Others(w)
      BY <1>0, <1>1 DEF TypeInv, To
    <2>2. /\ Before(target, nextId') /\ \A f \in aux : f.id < nextId'
          /\ FreshTx(marker, nextId') /\ FreshTx(Tx(w), nextId')
      BY <1>0, <2>1, FreshAfter
    <2>3. FreshTx(marker', nextId')
      BY <1>1, <2>1, <2>2 DEF FreshTx
    <2>4. FreshTx(Tx(w)', nextId')
      BY <1>1, <2>2, <2>3 DEF Tx, To
    <2> QED
      BY <1>0, <1>1, <2>1, <2>2, <2>3, <2>4, FreshKept
  <1>4. RestIsWhole'
    BY <1>0, <1>1, <1>2 DEF RestIsWhole, Whole, Spotless, MarkerIsGood, Undoable,
       WriterKnows, KnowsMarker, Tx, To, At
  <1>5. Clean'
    <2>1. SpotlessTx(Tx(w)) => SpotlessTx(marker') \/ marker' = marker
      BY <1>1 DEF SpotlessTx
    <2>2. Tx(w)' = Tx(w) \/ Tx(w)' = marker'
      BY <1>1 DEF Tx, To
    <2>3. Others(w) /\ target' = target /\ count'.foreign = count.foreign
      BY <1>1 DEF To
    <2> QED
      BY <1>0, <2>1, <2>2, <2>3, CleanKept DEF Clean
  <1>6. MarkerIsGood'
    <2>1. CASE marker' = marker
      BY <1>0, <1>1, <2>1 DEF MarkerIsGood, Undoable
    <2>2. CASE marker = NoMarker /\ marker' # marker
      <3>1. /\ Undoable(Tx(w)) /\ marker'.rev > 0 /\ marker'.orig = Tx(w).orig
            /\ marker'.out = Tx(w).out /\ marker'.rec = Tx(w).rec
            /\ marker'.rollback = Tx(w).rollback
            /\ \A k \in Kinds : Alien \in target[k].val \/ target[k] = Tx(w).orig[k]
        BY <1>0, <1>1, <2>2 DEF TypeInv, WriterKnows, KnowsMarker, KnowsSource, At
      <3>2. Undoable(marker)'
        BY <1>1, <3>1 DEF Undoable
      <3> QED
        BY <1>1, <3>1, <3>2 DEF MarkerIsGood, Known
    <2> QED
      BY <1>1, <2>1, <2>2
  <1>7. KnowsMarker(w)' /\ KnowsWhy(w)'
    BY <1>0, <1>1, NothingTyped DEF TypeInv, WriterKnows, KnowsMarker, KnowsWhy,
       To, Tx, At, Why, Commits
  <1>8. KnowsSource(w)'
    BY <1>0, <1>1, <1>2 DEF KnowsSource, To, Tx, At, Op
  <1>9. KnowsWrite(w)'
    <2>1. writer'[w].pc \in {"stage", "error"} /\ Op(w)' = Op(w) /\ Todo(w)' = Todo(w)
      BY <1>1 DEF To, Op, Todo
    <2>2. Tx(w)'.orig = Tx(w).orig /\ Tx(w)'.out = Tx(w).out
      BY <1>1 DEF To, Tx
    <2> QED
      BY <1>0, <1>1, <2>1, <2>2 DEF KnowsWrite, At
  <1>10. KnowsRestore(w)'
    BY <1>0, <1>1, <1>2 DEF KnowsMarker, KnowsWhy, KnowsRestore,
       Restored, To, Others, Tx, Todo, Why, Op, At, Commits
  <1>11. KnowsResult(w)'
    BY <1>0, <1>1, <1>2 DEF KnowsMarker, KnowsWhy, KnowsResult,
       Expected, Spotless, To, Others, Tx, Todo, Why, Op, At, Commits
  <1>12. \A v \in Writers \ {w} : WriterKnows(v)'
    BY <1>0, <1>1, OthersKnow DEF At, To
  <1> QED
    BY <1>2, <1>3, <1>4, <1>5, <1>6, <1>7, <1>8, <1>9, <1>10, <1>11, <1>12
       DEF VectorInv, WriterKnows

\* Giving up a write whose source changed keeps the invariant.
LEMMA TurnsBackKeeps ==
  ASSUME VectorInv, NEW w \in Writers, TurnsBack(w)
  PROVE  VectorInv'
  <1>0. /\ TypeInv /\ Fresh /\ LockHeld /\ RestIsWhole /\ MarkerIsGood /\ Clean
        /\ KnowsMarker(w) /\ KnowsWhy(w) /\ KnowsSource(w) /\ KnowsWrite(w)
        /\ KnowsRestore(w) /\ KnowsResult(w)
    BY DEF VectorInv, WriterKnows
  <1>1. TurnsBack(w)
    OBVIOUS
  <1>2. TypeInv' /\ LockHeld'
    BY <1>0, <1>1, NothingTyped DEF TypeInv, LockHeld, Pairs, Pcs, To, Others,
       At, TurnsBack
  <1>3. Fresh'
    BY <1>0, <1>1, FreshAfter DEF TypeInv, Fresh, Tx, To, Others, TurnsBack
  <1>4. RestIsWhole'
    BY <1>0, <1>1, <1>2 DEF RestIsWhole, Whole, Spotless, MarkerIsGood, Undoable,
       WriterKnows, KnowsMarker, Tx, To, At, TurnsBack
  <1>5. Clean'
    BY <1>0, <1>1, <1>2 DEF Clean, SpotlessTx, Spotless, Tx, To, Others,
       TurnsBack
  <1>6. MarkerIsGood'
    BY <1>0, <1>1, <1>2 DEF MarkerIsGood, Undoable, Whole, Spotless, Known,
       WriterKnows, KnowsMarker, At, Tx, TurnsBack
  <1>7. KnowsMarker(w)' /\ KnowsWhy(w)'
    BY <1>0, <1>1, <1>2 DEF KnowsMarker, KnowsWhy, To, Others, Tx,
       Todo, Why, Op, At, Commits, TurnsBack
  <1>8. KnowsSource(w)'
    BY <1>0, <1>1, <1>2 DEF KnowsSource, To, Tx, At, Op, TurnsBack
  <1>9. KnowsWrite(w)'
    BY <1>0, <1>1, <1>2 DEF KnowsMarker, KnowsWhy, KnowsWrite, To,
       Others, Tx, Todo, Why, Op, At, Commits, TurnsBack
  <1>10. KnowsRestore(w)'
    BY <1>0, <1>1, <1>2 DEF KnowsMarker, KnowsWhy, KnowsRestore,
       Restored, To, Others, Tx, Todo, Why, Op, At, Commits, TurnsBack
  <1>11. KnowsResult(w)'
    BY <1>0, <1>1, <1>2 DEF KnowsMarker, KnowsWhy, KnowsResult,
       Expected, Spotless, To, Others, Tx, Todo, Why, Op, At, Commits, TurnsBack
  <1>12. \A v \in Writers \ {w} : WriterKnows(v)'
    BY <1>0, <1>1, OthersKnow DEF At, To, TurnsBack
  <1> QED
    BY <1>2, <1>3, <1>4, <1>5, <1>6, <1>7, <1>8, <1>9, <1>10, <1>11, <1>12
       DEF VectorInv, WriterKnows

\* Recording a new file keeps the invariant: it is not in place yet.
LEMMA RecordsFileKeeps ==
  ASSUME VectorInv, NEW w \in Writers, NEW k \in Kinds, NEW f \in RealFiles,
         RecordsFile(w, k, f)
  PROVE  VectorInv'
  <1>0. /\ TypeInv /\ Fresh /\ LockHeld /\ RestIsWhole /\ MarkerIsGood /\ Clean
        /\ KnowsMarker(w) /\ KnowsWhy(w) /\ KnowsSource(w) /\ KnowsWrite(w)
        /\ KnowsRestore(w) /\ KnowsResult(w)
    BY DEF VectorInv, WriterKnows
  <1>1. /\ RecordsFile(w, k, f) /\ marker' \in Txs /\ marker' # NoMarker
        /\ marker'.rev = nextId + 1
        /\ marker'.orig = Tx(w).orig /\ marker'.rollback = Tx(w).rollback
        /\ FreshTx(marker', nextId') /\ f.id < nextId' /\ nextId' \in Nat \ {0}
        /\ nextId <= nextId' /\ (SpotlessTx(Tx(w)) /\ Alien \notin f.val => SpotlessTx(marker'))
    <2>1. /\ RecordsNew(marker', Tx(w), k, f) /\ Tx(w) \in Txs /\ f.id < nextId'
          /\ nextId + 1 < nextId' /\ nextId' \in Nat \ {0} /\ nextId <= nextId'
      BY <1>0, WriterTyped DEF TypeInv, RecordsFile, Records
    <2>2. FreshTx(Tx(w), nextId')
      BY <1>0, <2>1, FreshAfter
    <2> QED
      BY <1>0, <2>1, <2>2, RecordsKeep DEF RecordsBack, RecordsNew
  <1>2. TypeInv' /\ LockHeld'
    BY <1>0, <1>1, FreshAfter DEF TypeInv, LockHeld, Pcs, To, Others, At,
       RecordsFile, Records
  <1>3. Fresh'
    BY <1>0, <1>1, FreshAfter DEF TypeInv, Fresh, Tx, To, Others, RecordsFile,
       Records
  <1>4. RestIsWhole'
    BY <1>0, <1>1, FreshAfter DEF RestIsWhole, RecordsFile, Records
  <1>5. Clean'
    <2>1. ASSUME count'.foreign = 0 PROVE SpotlessTx(marker')
      <3>1. Alien \notin f.val
        BY <1>0, <1>1, <2>1, MadeFacts, WriterTyped DEF Clean, SpotlessTx,
           Spotless, RecordsFile,
           Records
      <3> QED
        BY <1>0, <1>1, <2>1, <3>1 DEF Clean, RecordsFile, Records
    <2> QED
      BY <1>0, <1>1, <2>1 DEF Clean, Tx, To, Others, RecordsFile, Records
  <1>6. MarkerIsGood'
    <2>1. /\ marker' \in Txs /\ marker'.rev > 0 /\ aux \subseteq aux' /\ target' = target
          /\ marker # NoMarker /\ marker = Tx(w) /\ Undoable(marker)
      BY <1>0, <1>1 DEF TypeInv, RecordsFile, Records, MarkerIsGood
    <2>2. /\ marker'.orig = marker.orig /\ marker'.rollback = marker.rollback
          /\ marker'.rec = marker.rec /\ marker'.out[k] = f /\ f.id = nextId
          /\ \A j \in Kinds \ {k} : marker'.out[j] = marker.out[j]
      BY <1>1, <2>1 DEF RecordsFile, Records, RecordsNew
    <2>3. Undoable(marker)'
      <3>1. \A j \in Kinds : marker.rollback[j].id # nextId
        BY <1>0, <2>1, NothingTyped DEF TypeInv, Fresh, FreshTx, Before, Txs,
           Pairs, RealFiles
      <3> QED
        BY <2>1, <2>2, <3>1 DEF Undoable
    <2>4. marker.out[k] = NoFile
      BY <1>1, <2>1 DEF RecordsFile, Records, VectorInv, WriterKnows, KnowsWrite, At
    <2>5. \A j \in Kinds : \/ Alien \in target'[j].val \/ target'[j] = NoFile
                           \/ target'[j] \in Known(marker', j)
      BY <2>1, <2>2, <2>4 DEF Known, VectorInv, MarkerIsGood
    <2> QED
      BY <2>1, <2>3, <2>5 DEF MarkerIsGood
  <1>7. KnowsMarker(w)' /\ KnowsWhy(w)'
    BY <1>0, <1>1, FreshAfter DEF KnowsMarker, WriterKnows, KnowsWhy, Tx, To, At,
       Commits, Why, RecordsFile, Records
  <1>8. KnowsSource(w)'
    BY <1>1 DEF KnowsSource, To, At, RecordsFile, Records
  <1>9. KnowsWrite(w)'
    <2>1. /\ At(w, "put")' /\ Todo(w)' = Todo(w) /\ Tx(w)' = marker' /\ Op(w)' = Op(w)
          /\ Todo(w) # << >> /\ k = Head(Todo(w)) /\ k \in Left(Todo(w))
          /\ Left(Tail(Todo(w))) = Left(Todo(w)) \ {k}
          /\ f.val = Made(Op(w), Tx(w).orig[k])
      BY <1>1 DEF RecordsFile, Records, To, At, Todo, Tx, Op
    <2>2. /\ marker'.orig = Tx(w).orig /\ marker'.out[k] = f /\ f # NoFile
          /\ \A j \in Kinds \ {k} : marker'.out[j] = Tx(w).out[j]
      BY <1>1, NothingTyped DEF RecordsFile, Records, RecordsNew
    <2>3. /\ StartsFrom(Op(w), Tx(w).orig)
          /\ \A j \in Kinds : Tx(w).out[j] = NoFile
                                \/ Tx(w).out[j].val = Made(Op(w), Tx(w).orig[j])
          /\ \A j \in Kinds : Tx(w).out[j] # NoFile \/ j \in Left(Todo(w))
          /\ \A j \in Left(Todo(w)) : Tx(w).out[j] = NoFile
      BY <1>1 DEF RecordsFile, Records, VectorInv, WriterKnows, KnowsWrite, At
    <2>4. \A j \in Left(Tail(Todo(w))) : marker'.out[j] = NoFile
      BY <2>1, <2>2, <2>3 DEF Left
    <2>5. /\ StartsFrom(Op(w)', Tx(w)'.orig)
          /\ \A j \in Kinds : Tx(w)'.out[j] = NoFile
                                \/ Tx(w)'.out[j].val = Made(Op(w)', Tx(w)'.orig[j])
          /\ \A j \in Kinds : Tx(w)'.out[j] # NoFile \/ j \in Left(Todo(w)')
      BY <2>1, <2>2, <2>3
    <2> QED
      BY <2>1, <2>2, <2>4, <2>5 DEF KnowsWrite, At
  <1>10. KnowsRestore(w)'
    BY <1>0, <1>1, FreshAfter DEF KnowsRestore, To, At, Tx, Todo,
       RecordsFile, Records
  <1>11. KnowsResult(w)'
    BY <1>1 DEF KnowsResult, To, At, RecordsFile, Records
  <1>12. \A v \in Writers \ {w} : WriterKnows(v)'
    BY <1>0, <1>1, OthersKnow DEF At, To, RecordsFile, Records
  <1> QED
    BY <1>2, <1>3, <1>4, <1>5, <1>6, <1>7, <1>8, <1>9, <1>10, <1>11, <1>12
       DEF VectorInv, WriterKnows

\* Recording a file without knowing it keeps the invariant.
LEMMA RecordsLateKeeps ==
  ASSUME VectorInv, NEW w \in Writers, NEW k \in Kinds, NEW f \in RealFiles, NEW t,
         RecordsLate(w, k, f, t)
  PROVE  VectorInv'
  <1>0. /\ TypeInv /\ Fresh /\ LockHeld /\ RestIsWhole /\ MarkerIsGood /\ Clean
        /\ KnowsMarker(w) /\ KnowsWhy(w) /\ KnowsSource(w) /\ KnowsWrite(w)
        /\ KnowsRestore(w) /\ KnowsResult(w)
    BY DEF VectorInv, WriterKnows
  <1>1. /\ RecordsLate(w, k, f, t) /\ marker' \in Txs /\ marker' # NoMarker
        /\ marker'.rev = nextId + 1
        /\ marker'.orig = Tx(w).orig /\ marker'.rollback = Tx(w).rollback
        /\ FreshTx(marker', nextId') /\ f.id < nextId' /\ nextId' \in Nat \ {0}
        /\ nextId <= nextId' /\ (SpotlessTx(Tx(w)) /\ Alien \notin f.val => SpotlessTx(marker'))
    <2>1. /\ RecordsNew(marker', Tx(w), k, f) /\ Tx(w) \in Txs /\ f.id < nextId'
          /\ nextId + 1 < nextId' /\ nextId' \in Nat \ {0} /\ nextId <= nextId'
      BY <1>0, WriterTyped DEF TypeInv, RecordsLate, Records
    <2>2. FreshTx(Tx(w), nextId')
      BY <1>0, <2>1, FreshAfter
    <2> QED
      BY <1>0, <2>1, <2>2, RecordsKeep DEF RecordsBack, RecordsNew
  <1>2. TypeInv' /\ LockHeld'
    BY <1>0, <1>1, FreshAfter DEF TypeInv, LockHeld, Pcs, To, Others, At,
       RecordsLate, Records
  <1>3. Fresh'
    <2>1. FreshTx(marker', nextId') /\ \A f2 \in aux' : f2.id < nextId'
      BY <1>0, <1>1, FreshAfter DEF TypeInv, RecordsLate, Records
    <2>2. FreshTx(t, nextId')
      BY <1>0, <1>1, <2>1, FreshAfter DEF TypeInv, RecordsLate, Records, FreshTx
    <2> QED
      BY <1>0, <1>1, <2>1, <2>2, FreshAfter DEF TypeInv, Fresh, Tx, To, Others,
         RecordsLate,
         Records
  <1>4. RestIsWhole'
    BY <1>0, <1>1, FreshAfter DEF RestIsWhole, RecordsLate, Records
  <1>5. Clean'
    <2>1. ASSUME count'.foreign = 0 PROVE SpotlessTx(marker')
      <3>1. Alien \notin f.val
        BY <1>0, <1>1, <2>1, MadeFacts, WriterTyped DEF Clean, SpotlessTx,
           Spotless, RecordsLate,
           Records
      <3> QED
        BY <1>0, <1>1, <2>1, <3>1 DEF Clean, RecordsLate, Records
    <2>2. ASSUME count'.foreign = 0 PROVE SpotlessTx(t)
      BY <1>1, <2>1, <2>2 DEF SpotlessTx, RecordsLate
    <2> QED
      BY <1>0, <1>1, <2>1, <2>2 DEF Clean, Tx, To, Others, RecordsLate, Records
  <1>6. MarkerIsGood'
    <2>1. /\ marker' \in Txs /\ marker'.rev > 0 /\ aux \subseteq aux' /\ target' = target
          /\ marker # NoMarker /\ marker = Tx(w) /\ Undoable(marker)
      BY <1>0, <1>1 DEF TypeInv, RecordsLate, Records, MarkerIsGood
    <2>2. /\ marker'.orig = marker.orig /\ marker'.rollback = marker.rollback
          /\ marker'.rec = marker.rec /\ marker'.out[k] = f /\ f.id = nextId
          /\ \A j \in Kinds \ {k} : marker'.out[j] = marker.out[j]
      BY <1>1, <2>1 DEF RecordsLate, Records, RecordsNew
    <2>3. Undoable(marker)'
      <3>1. \A j \in Kinds : marker.rollback[j].id # nextId
        BY <1>0, <2>1, NothingTyped DEF TypeInv, Fresh, FreshTx, Before, Txs,
           Pairs, RealFiles
      <3> QED
        BY <2>1, <2>2, <3>1 DEF Undoable
    <2>4. marker.out[k] = NoFile
      BY <1>1, <2>1 DEF RecordsLate, Records, VectorInv, WriterKnows, KnowsWrite, At
    <2>5. \A j \in Kinds : \/ Alien \in target'[j].val \/ target'[j] = NoFile
                           \/ target'[j] \in Known(marker', j)
      BY <2>1, <2>2, <2>4 DEF Known, VectorInv, MarkerIsGood
    <2> QED
      BY <2>1, <2>3, <2>5 DEF MarkerIsGood
  <1>7. KnowsMarker(w)' /\ KnowsWhy(w)'
    <2>1. /\ At(w, "check")' /\ Tx(w)' = t /\ t.rev = Tx(w).rev /\ Tx(w).rev \in Nat
          /\ Tx(w).rev < nextId /\ writer'[w].why = "undo"
      BY <1>0, <1>1, WriterTyped DEF RecordsLate, Records, To, At, Tx, Fresh,
         FreshTx, Txs
    <2>2. marker' # NoMarker /\ marker'.rev = nextId + 1
      BY <1>1 DEF RecordsLate
    <2>3. t.orig = marker'.orig /\ t.rollback = marker'.rollback /\ t.rec = marker'.rec
      BY <1>1 DEF RecordsLate
    <2> QED
      BY <2>1, <2>2, <2>3 DEF KnowsMarker, KnowsWhy, Commits, At, VectorInv, TypeInv
  <1>8. KnowsSource(w)'
    BY <1>1 DEF KnowsSource, To, At, RecordsLate, Records
  <1>9. KnowsWrite(w)'
    BY <1>1 DEF KnowsWrite, To, At, RecordsLate, Records
  <1>10. KnowsRestore(w)'
    BY <1>0, <1>1, FreshAfter DEF KnowsRestore, To, At, Tx, Todo,
       RecordsLate, Records
  <1>11. KnowsResult(w)'
    BY <1>1 DEF KnowsResult, To, At, RecordsLate, Records
  <1>12. \A v \in Writers \ {w} : WriterKnows(v)'
    BY <1>0, <1>1, OthersKnow DEF At, To, RecordsLate, Records
  <1> QED
    BY <1>2, <1>3, <1>4, <1>5, <1>6, <1>7, <1>8, <1>9, <1>10, <1>11, <1>12
       DEF VectorInv, WriterKnows

\* Publishing the marker without knowing it keeps the invariant.
LEMMA MarksLateKeeps ==
  ASSUME VectorInv, NEW w \in Writers, MarksLate(w)
  PROVE  VectorInv'
  <1>0. /\ TypeInv /\ Fresh /\ LockHeld /\ RestIsWhole /\ MarkerIsGood /\ Clean
        /\ KnowsMarker(w) /\ KnowsWhy(w) /\ KnowsSource(w) /\ KnowsWrite(w)
        /\ KnowsRestore(w) /\ KnowsResult(w)
    BY DEF VectorInv, WriterKnows
  <1>1. MarksLate(w)
    OBVIOUS
  <1>2. TypeInv' /\ LockHeld'
    BY <1>0, <1>1, NothingTyped DEF TypeInv, LockHeld, Pairs, Pcs, To, Others,
       At, MarksLate
  <1>3. Fresh'
    <2>1. nextId' \in Nat /\ nextId <= nextId' /\ nextId < nextId' /\ Others(w)
      BY <1>0, <1>1 DEF TypeInv, To, MarksLate
    <2>2. /\ Before(target, nextId') /\ \A f \in aux : f.id < nextId'
          /\ FreshTx(marker, nextId') /\ FreshTx(Tx(w), nextId')
      BY <1>0, <2>1, FreshAfter
    <2>3. FreshTx(marker', nextId')
      BY <1>1, <2>1, <2>2 DEF FreshTx, MarksLate
    <2>4. FreshTx(Tx(w)', nextId')
      BY <1>1, <2>2, <2>3 DEF Tx, To, MarksLate
    <2> QED
      BY <1>0, <1>1, <2>1, <2>2, <2>3, <2>4, FreshKept DEF MarksLate
  <1>4. RestIsWhole'
    BY <1>0, <1>1, <1>2 DEF RestIsWhole, Whole, Spotless, MarkerIsGood, Undoable,
       WriterKnows, KnowsMarker, Tx, To, At, MarksLate
  <1>5. Clean'
    <2>1. SpotlessTx(Tx(w)) => SpotlessTx(marker') \/ marker' = marker
      BY <1>1 DEF SpotlessTx, MarksLate
    <2>2. Tx(w)' = Tx(w) \/ Tx(w)' = marker'
      BY <1>1 DEF Tx, To, MarksLate
    <2>3. Others(w) /\ target' = target /\ count'.foreign = count.foreign
      BY <1>1 DEF To, MarksLate
    <2> QED
      BY <1>0, <2>1, <2>2, <2>3, CleanKept DEF Clean
  <1>6. MarkerIsGood'
    <2>1. /\ Undoable(Tx(w)) /\ marker'.rev > 0 /\ marker'.orig = Tx(w).orig
          /\ marker'.out = Tx(w).out /\ marker'.rec = Tx(w).rec
          /\ marker'.rollback = Tx(w).rollback /\ UNCHANGED <<target, aux>>
          /\ \A k \in Kinds : Alien \in target[k].val \/ target[k] = Tx(w).orig[k]
      BY <1>0, <1>1 DEF TypeInv, WriterKnows, KnowsMarker, KnowsSource, At, MarksLate
    <2>2. Undoable(marker)'
      BY <2>1 DEF Undoable
    <2> QED
      BY <2>1, <2>2 DEF MarkerIsGood, Known
  <1>7. KnowsMarker(w)' /\ KnowsWhy(w)'
    BY <1>1 DEF KnowsMarker, KnowsWhy, To, At, MarksLate
  <1>8. KnowsSource(w)'
    BY <1>0, <1>1, <1>2 DEF KnowsSource, To, Tx, At, Op, MarksLate
  <1>9. KnowsWrite(w)'
    BY <1>0, <1>1, <1>2 DEF KnowsMarker, KnowsWhy, KnowsWrite, To,
       Others, Tx, Todo, Why, Op, At, Commits, MarksLate
  <1>10. KnowsRestore(w)'
    BY <1>0, <1>1, <1>2 DEF KnowsMarker, KnowsWhy, KnowsRestore,
       Restored, To, Others, Tx, Todo, Why, Op, At, Commits, MarksLate
  <1>11. KnowsResult(w)'
    BY <1>0, <1>1, <1>2 DEF KnowsMarker, KnowsWhy, KnowsResult,
       Expected, Spotless, To, Others, Tx, Todo, Why, Op, At, Commits, MarksLate
  <1>12. \A v \in Writers \ {w} : WriterKnows(v)'
    BY <1>0, <1>1, OthersKnow DEF At, To, MarksLate
  <1> QED
    BY <1>2, <1>3, <1>4, <1>5, <1>6, <1>7, <1>8, <1>9, <1>10, <1>11, <1>12
       DEF VectorInv, WriterKnows

\* What staging a new file does.
LEMMA StageDoes ==
  ASSUME VectorInv, NEW w \in Writers, Stage(w)
  PROVE  \/ Fails(w) \/ TurnsBack(w)
         \/ \E k \in Kinds, f \in RealFiles : RecordsFile(w, k, f)
  <1> DEFINE k == Head(Todo(w))
             f == File(nextId, Result(w, Tx(w).orig[k]))
  <1>0. /\ TypeInv /\ Fresh /\ LockHeld /\ RestIsWhole /\ MarkerIsGood /\ Clean
        /\ KnowsMarker(w) /\ KnowsWhy(w) /\ KnowsSource(w) /\ KnowsWrite(w)
        /\ KnowsRestore(w) /\ KnowsResult(w)
    BY DEF VectorInv, WriterKnows
  <1>a. At(w, "stage") /\ marker = Tx(w) /\ marker # NoMarker
    BY <1>0 DEF KnowsMarker, Stage, At
  <1>1. /\ At(w, "stage") /\ Todo(w) # << >> /\ nextId' = nextId + 2
        /\ UNCHANGED <<target, lock, count>>
        /\ \/ /\ UNCHANGED <<marker, aux>>
              /\ writer' = [writer EXCEPT ![w].pc = "check", ![w].why = "undo"]
           \/ Persist(w, [Tx(w) EXCEPT !.out[k] = f], f, "put")
    BY DEF Stage
  <1>2. /\ k \in Kinds /\ k \in Left(Todo(w)) /\ Left(Tail(Todo(w))) = Left(Todo(w)) \ {k}
    BY <1>0, <1>1, LeftAfter, WriterTyped
  <1>3. f \in RealFiles /\ f.id = nextId /\ f.val = Made(Op(w), Tx(w).orig[k])
    BY <1>0, <1>2, ResultTyped
  <1> HIDE DEF f
  <1>4. CASE UNCHANGED <<marker, aux>> /\ writer' = [writer EXCEPT ![w].pc = "check", ![w].why = "undo"]
    BY <1>0, <1>a, <1>1, <1>4, WriterTyped, ToHolds DEF Pcs, TurnsBack
  <1>5. CASE Persist(w, [Tx(w) EXCEPT !.out[k] = f], f, "put")
    <2> DEFINE t == [Tx(w) EXCEPT !.out[k] = f]
    <2>1. t \in Txs /\ RecordsNew([t EXCEPT !.rev = nextId + 1], Tx(w), k, f)
      BY <1>0, <1>2, <1>3, RecordsHold, WriterTyped DEF TypeInv
    <2> HIDE DEF t
    <2>2. Persist(w, t, f, "put")
      BY <1>5 DEF t
    <2>3. \/ /\ marker.rev = Tx(w).rev /\ marker' = [t EXCEPT !.rev = nextId + 1]
             /\ aux' = aux \cup {f} /\ To(w, "put", marker', Todo(w), Why(w))
          \/ /\ marker.rev # Tx(w).rev /\ UNCHANGED <<marker, aux>>
             /\ To(w, "error", Tx(w), Todo(w), Why(w))
      BY <1>0, <1>3, <2>1, <2>2, PersistHolds DEF Pcs
    <2> QED
      <3>1. CASE marker' = [t EXCEPT !.rev = nextId + 1] /\ aux' = aux \cup {f}
                 /\ To(w, "put", marker', Todo(w), Why(w))
        BY <1>a, <1>1, <1>2, <1>3, <2>1, <3>1 DEF RecordsFile, Records
      <3>2. CASE UNCHANGED <<marker, aux>> /\ To(w, "error", Tx(w), Todo(w), Why(w))
        BY <1>0, <1>1, <3>2 DEF TypeInv, Fails, At
      <3> QED
        BY <2>3, <3>1, <3>2
  <1> QED
    BY <1>0, <1>1, <1>4, <1>5

\* Staging a new file keeps the invariant.
LEMMA StageKeeps ==
  ASSUME VectorInv, NEW w \in Writers, Stage(w)
  PROVE  VectorInv'
  <1>1. \/ Fails(w) \/ TurnsBack(w)
        \/ \E k \in Kinds, f \in RealFiles : RecordsFile(w, k, f)
    BY StageDoes
  <1> QED
    BY <1>1, FailsKeeps, TurnsBackKeeps, RecordsFileKeeps

\* What replacing a target does.
LEMMA PutDoes ==
  ASSUME VectorInv, NEW w \in Writers, Put(w)
  PROVE  /\ At(w, "put") /\ UNCHANGED <<marker, lock, nextId, count>>
         /\ marker = Tx(w) /\ marker # NoMarker 
         /\ \E k \in Kinds :
              /\ k = Head(Todo(w)) /\ Left(Tail(Todo(w))) = Left(Todo(w)) \ {k}
              /\ k \in Left(Todo(w))
              /\ Todo(w) # << >> /\ Tx(w).out[k] # NoFile
              /\ target' \in Pairs /\ target'[k] = Tx(w).out[k]
              /\ \A j \in Kinds \ {k} : target'[j] = target[j]
              /\ aux' = aux \ {Tx(w).out[k]}
              /\ To(w, "stage", Tx(w), Tail(Todo(w)), Why(w))
  <1> DEFINE k == Head(Todo(w))
  <1>0. /\ TypeInv /\ Fresh /\ LockHeld /\ RestIsWhole /\ MarkerIsGood /\ Clean
        /\ KnowsMarker(w) /\ KnowsWhy(w) /\ KnowsSource(w) /\ KnowsWrite(w)
        /\ KnowsRestore(w) /\ KnowsResult(w)
    BY DEF VectorInv, WriterKnows
  <1>1. /\ At(w, "put") /\ Todo(w) # << >> /\ Tx(w).out[k] # NoFile
        /\ marker = Tx(w) /\ marker # NoMarker
    BY <1>0 DEF KnowsMarker, KnowsWrite, Put, At
  <1>2. /\ k \in Kinds /\ Tail(Todo(w)) \in Todos /\ k \in Left(Todo(w))
        /\ Left(Tail(Todo(w))) = Left(Todo(w)) \ {k} /\ Tx(w).out \in Pairs
    BY <1>0, <1>1, LeftAfter, WriterTyped DEF Txs
  <1>3. /\ target' = [target EXCEPT ![k] = Tx(w).out[k]] /\ aux' = aux \ {Tx(w).out[k]}
        /\ writer' = [writer EXCEPT ![w].pc = "stage", ![w].todo = Tail(Todo(w))]
        /\ UNCHANGED <<marker, lock, nextId, count>>
    BY DEF Put, Todo
  <1>4. /\ target' \in Pairs /\ target'[k] = Tx(w).out[k]
        /\ \A j \in Kinds \ {k} : target'[j] = target[j]
    BY <1>0, <1>2, <1>3 DEF TypeInv, Pairs
  <1>5. To(w, "stage", Tx(w), Tail(Todo(w)), Why(w))
    BY <1>0, <1>2, <1>3, ToHolds, WriterTyped DEF Pcs
  <1> QED
    BY <1>1, <1>2, <1>3, <1>4, <1>5

\* Replacing a target keeps the invariant: the marker names the new file.
LEMMA PutKeeps ==
  ASSUME VectorInv, NEW w \in Writers, Put(w)
  PROVE  VectorInv'
  <1>0. /\ TypeInv /\ Fresh /\ LockHeld /\ RestIsWhole /\ MarkerIsGood /\ Clean
        /\ KnowsMarker(w) /\ KnowsWhy(w) /\ KnowsSource(w) /\ KnowsWrite(w)
        /\ KnowsRestore(w) /\ KnowsResult(w)
    BY DEF VectorInv, WriterKnows
  <1>1. /\ At(w, "put") /\ UNCHANGED <<marker, lock, nextId, count>>
        /\ marker = Tx(w) /\ marker # NoMarker 
        /\ \E k \in Kinds :
             /\ k = Head(Todo(w)) /\ Left(Tail(Todo(w))) = Left(Todo(w)) \ {k}
             /\ k \in Left(Todo(w))
             /\ Todo(w) # << >> /\ Tx(w).out[k] # NoFile
             /\ target' \in Pairs /\ target'[k] = Tx(w).out[k]
             /\ \A j \in Kinds \ {k} : target'[j] = target[j]
             /\ aux' = aux \ {Tx(w).out[k]}
             /\ To(w, "stage", Tx(w), Tail(Todo(w)), Why(w))
    BY PutDoes
  <1>2. TypeInv' /\ LockHeld'
    BY <1>0, <1>1, NothingTyped DEF TypeInv, LockHeld, Pairs, Pcs, To, Others, At
  <1>3. Fresh'
    <2>1. nextId' = nextId /\ nextId \in Nat /\ FreshTx(marker', nextId')
      BY <1>0, <1>1 DEF TypeInv, Fresh
    <2>2. Before(target', nextId') /\ \A f \in aux' : f.id < nextId'
      BY <1>0, <1>1 DEF Fresh, FreshTx, Before
    <2>3. FreshTx(Tx(w)', nextId') /\ Others(w)
      BY <1>0, <1>1 DEF Fresh, Tx, To
    <2> QED
      BY <1>0, <2>1, <2>2, <2>3, FreshKept
  <1>4. RestIsWhole'
    BY <1>0, <1>1, <1>2 DEF RestIsWhole, Whole, Spotless, MarkerIsGood, Undoable,
       WriterKnows, KnowsMarker, Tx, To, At
  <1>5. Clean'
    <2>1. SpotlessTx(Tx(w)) /\ Spotless(target) => Spotless(target')
      BY <1>1 DEF SpotlessTx, Spotless
    <2>2. Tx(w)' = Tx(w) /\ Others(w) /\ marker' = marker /\ count' = count
      BY <1>1 DEF Tx, To
    <2> QED
      BY <1>0, <2>1, <2>2, CleanKept DEF Clean
  <1>6. MarkerIsGood'
    <2>1. marker # NoMarker => Undoable(marker)'
      <3>1. Undoable(marker) /\ marker = Tx(w) /\ marker \in Txs
        BY <1>0, <1>1 DEF MarkerIsGood, TypeInv
      <3>2. ASSUME NEW j \in Kinds, marker.orig[j] # NoFile PROVE target'[j] # NoFile
        BY <1>1, <3>1, <3>2 DEF Undoable
      <3>3. ASSUME NEW j \in Kinds, marker.orig[j] # NoFile
            PROVE  marker.rollback[j] \in aux'
        BY <1>1, <3>1, <3>3 DEF Undoable
      <3> QED
        BY <1>1, <3>1, <3>2, <3>3 DEF Undoable
    <2>2. marker # NoMarker =>
           \A j \in Kinds : \/ Alien \in target[j].val' \/ target[j]' = NoFile
                            \/ target[j]' \in Known(marker', j)
      BY <1>0, <1>1 DEF MarkerIsGood, Known, Restored, WriterKnows, KnowsWrite,
         At
    <2> QED
      BY <1>0, <1>1, <2>1, <2>2, NothingTyped DEF TypeInv, MarkerIsGood
  <1>7. KnowsMarker(w)' /\ KnowsWhy(w)'
    BY <1>0, <1>1, <1>2 DEF KnowsMarker, KnowsWhy, To, Others, Tx,
       Todo, Why, Op, At, Commits
  <1>8. KnowsSource(w)'
    BY <1>0, <1>1, <1>2 DEF KnowsSource, To, Tx, At, Op
  <1>9. KnowsWrite(w)'
    <2>1. /\ writer'[w].pc = "stage" /\ Op(w)' = Op(w) /\ Todo(w)' = Tail(Todo(w))
          /\ Tx(w)' = Tx(w)
      BY <1>1 DEF To, Op, Todo, Tx
    <2> QED
      BY <1>0, <1>1, <2>1 DEF KnowsWrite, At
  <1>10. KnowsRestore(w)'
    BY <1>0, <1>1, <1>2 DEF KnowsMarker, KnowsWhy, KnowsRestore,
       Restored, To, Others, Tx, Todo, Why, Op, At, Commits
  <1>11. KnowsResult(w)'
    BY <1>0, <1>1, <1>2 DEF KnowsMarker, KnowsWhy, KnowsResult,
       Expected, Spotless, To, Others, Tx, Todo, Why, Op, At, Commits
  <1>12. \A v \in Writers \ {w} : WriterKnows(v)'
    BY <1>0, <1>1, OthersKnow DEF At, To
  <1> QED
    BY <1>2, <1>3, <1>4, <1>5, <1>6, <1>7, <1>8, <1>9, <1>10, <1>11, <1>12
       DEF VectorInv, WriterKnows

\* The last check of a write keeps the invariant: both targets are the new ones.
LEMMA CompleteKeeps ==
  ASSUME VectorInv, NEW w \in Writers, Complete(w)
  PROVE  VectorInv'
  <1>0. /\ TypeInv /\ Fresh /\ LockHeld /\ RestIsWhole /\ MarkerIsGood /\ Clean
        /\ KnowsMarker(w) /\ KnowsWhy(w) /\ KnowsSource(w) /\ KnowsWrite(w)
        /\ KnowsRestore(w) /\ KnowsResult(w)
    BY DEF VectorInv, WriterKnows
  <1>1. /\ UNCHANGED <<target, marker, aux, nextId>> /\ At(w, "stage")
        /\ UNCHANGED <<lock, count>>
        /\ \/ /\ To(w, "clear", Tx(w), Todo(w), "commit") /\ Todo(w) = << >>
              /\ \A k \in Kinds : Expected(Tx(w), k) # NoFile /\ target[k] = Expected(Tx(w), k)
           \/ To(w, "error", Tx(w), Todo(w), Why(w))
    <2>1. \/ /\ writer' = [writer EXCEPT ![w].pc = "clear", ![w].why = "commit"]
             /\ \A k \in Kinds : Expected(Tx(w), k) # NoFile /\ target[k] = Expected(Tx(w), k)
          \/ Goto(w, "error")
      BY DEF Complete, Goto
    <2> QED
      BY <1>0, <2>1, WriterTyped, ToHolds DEF Pcs, Complete
  <1>2. TypeInv' /\ LockHeld'
    BY <1>0, <1>1, NothingTyped DEF TypeInv, LockHeld, Pairs, Pcs, To, Others, At
  <1>3. Fresh'
    BY <1>0, <1>1, <1>2 DEF TypeInv, Fresh, FreshTx, Before, Tx, To, Others
  <1>4. RestIsWhole'
    BY <1>0, <1>1, <1>2 DEF RestIsWhole, Whole, Spotless, MarkerIsGood, Undoable,
       WriterKnows, KnowsMarker, Tx, To, At
  <1>5. Clean'
    BY <1>0, <1>1, <1>2 DEF Clean, SpotlessTx, Spotless, Tx, To, Others
  <1>6. MarkerIsGood'
    BY <1>0, <1>1, <1>2 DEF MarkerIsGood, Undoable, Whole, Spotless, Known,
       WriterKnows, KnowsMarker, At, Tx
  <1>7. KnowsMarker(w)' /\ KnowsWhy(w)'
    BY <1>0, <1>1, <1>2 DEF KnowsMarker, KnowsWhy, To, Others, Tx,
       Todo, Why, Op, At, Commits
  <1>8. KnowsSource(w)'
    BY <1>0, <1>1, <1>2 DEF KnowsSource, To, Tx, At, Op
  <1>9. KnowsWrite(w)'
    BY <1>0, <1>1 DEF KnowsWrite, To, At, Tx, Todo, Op
  <1>10. KnowsRestore(w)'
    BY <1>0, <1>1, <1>2 DEF KnowsMarker, KnowsWhy, KnowsRestore,
       Restored, To, Others, Tx, Todo, Why, Op, At, Commits
  <1>11. KnowsResult(w)'
    BY <1>1 DEF KnowsResult, To, At, Tx, Commits, Expected
  <1>12. \A v \in Writers \ {w} : WriterKnows(v)'
    BY <1>0, <1>1, OthersKnow DEF At, To
  <1> QED
    BY <1>2, <1>3, <1>4, <1>5, <1>6, <1>7, <1>8, <1>9, <1>10, <1>11, <1>12
       DEF VectorInv, WriterKnows

\* An error keeps the invariant: it loses no copy that a marker names.
LEMMA FaultKeeps ==
  ASSUME VectorInv, NEW w \in Writers, Fault(w)
  PROVE  VectorInv'
  <1>0. /\ TypeInv /\ Fresh /\ LockHeld /\ RestIsWhole /\ MarkerIsGood /\ Clean
        /\ KnowsMarker(w) /\ KnowsWhy(w) /\ KnowsSource(w) /\ KnowsWrite(w)
        /\ KnowsRestore(w) /\ KnowsResult(w)
    BY DEF VectorInv, WriterKnows
  <1>1. /\ UNCHANGED <<target, marker, lock, nextId>> /\ ~ At(w, "idle")
        /\ aux' \subseteq aux
        /\ count' \in Counts /\ count'.foreign = count.foreign
        /\ \/ writer[w].pc \in {"put", "stage"} /\ To(w, "check", Tx(w), Todo(w), "undo")
           \/ To(w, "error", Tx(w), Todo(w), Why(w))
        /\ \A f \in aux \ aux' : \/ marker = NoMarker
                                 \/ \E k \in Kinds : /\ marker = Tx(w)
                                                     /\ f.id \in {Tx(w).out[k].id, Tx(w).rec[k].id}
    <2>1. count' \in Counts /\ count'.foreign = count.foreign
      BY <1>0 DEF TypeInv, Fault, Once, Counts
    <2>2. \/ /\ writer[w].pc \in {"put", "stage"}
             /\ writer' = [writer EXCEPT ![w].pc = "check", ![w].why = "undo"]
          \/ Goto(w, "error")
      BY DEF Fault, Goto, At
    <2>3. /\ UNCHANGED <<target, marker, lock, nextId>> /\ ~ At(w, "idle")
          /\ \/ At(w, "mark") /\ aux' = aux \ Named(Tx(w))
             \/ At(w, "put") /\ aux' = aux \ {Tx(w).out[Head(Todo(w))]}
             \/ At(w, "restorePut") /\ aux' = aux \ {Tx(w).rec[Head(Todo(w))]}
             \/ aux' = aux
      BY DEF Fault, At
    <2>4. At(w, "put") \/ At(w, "restorePut") => Head(Todo(w)) \in Kinds /\ marker = Tx(w)
      BY <1>0, WriterTyped, LeftAfter DEF KnowsMarker, KnowsWrite,
         KnowsRestore, At
    <2>5. At(w, "mark") => marker = NoMarker
      BY <1>0 DEF KnowsMarker, At
    <2> QED
      BY <1>0, <2>1, <2>2, <2>3, <2>4, <2>5, WriterTyped, ToHolds DEF Pcs
  <1>2. TypeInv' /\ LockHeld'
    BY <1>0, <1>1, NothingTyped DEF TypeInv, LockHeld, Pairs, Pcs, To, Others, At
  <1>3. Fresh'
    <2>1. nextId' = nextId /\ nextId \in Nat /\ FreshTx(marker', nextId')
      BY <1>0, <1>1 DEF TypeInv, Fresh
    <2>2. Before(target', nextId') /\ \A f \in aux' : f.id < nextId'
      BY <1>0, <1>1 DEF Fresh, FreshTx, Before
    <2>3. FreshTx(Tx(w)', nextId') /\ Others(w)
      BY <1>0, <1>1 DEF Fresh, Tx, To
    <2> QED
      BY <1>0, <2>1, <2>2, <2>3, FreshKept
  <1>4. RestIsWhole'
    BY <1>0, <1>1, <1>2 DEF RestIsWhole, Whole, Spotless, MarkerIsGood, Undoable,
       WriterKnows, KnowsMarker, Tx, To, At
  <1>5. Clean'
    <2>1. /\ Tx(w)' = Tx(w) /\ Others(w) /\ marker' = marker /\ target' = target
          /\ count'.foreign = count.foreign
      BY <1>1 DEF Tx, To
    <2> QED
      BY <1>0, <2>1, CleanKept DEF Clean
  <1>6. MarkerIsGood'
    BY <1>0, <1>1 DEF MarkerIsGood, Undoable
  <1>7. KnowsMarker(w)' /\ KnowsWhy(w)'
    BY <1>0, <1>1, <1>2 DEF KnowsMarker, KnowsWhy, To, Others, Tx,
       Todo, Why, Op, At, Commits
  <1>8. KnowsSource(w)'
    BY <1>0, <1>1, <1>2 DEF KnowsSource, To, Tx, At, Op
  <1>9. KnowsWrite(w)'
    BY <1>0, <1>1, <1>2 DEF KnowsMarker, KnowsWhy, KnowsWrite, To,
       Others, Tx, Todo, Why, Op, At, Commits
  <1>10. KnowsRestore(w)'
    BY <1>0, <1>1, <1>2 DEF KnowsMarker, KnowsWhy, KnowsRestore,
       Restored, To, Others, Tx, Todo, Why, Op, At, Commits
  <1>11. KnowsResult(w)'
    BY <1>0, <1>1, <1>2 DEF KnowsMarker, KnowsWhy, KnowsResult,
       Expected, Spotless, To, Others, Tx, Todo, Why, Op, At, Commits
  <1>12. \A v \in Writers \ {w} : WriterKnows(v)'
    BY <1>0, <1>1, OthersKnow DEF At, To
  <1> QED
    BY <1>2, <1>3, <1>4, <1>5, <1>6, <1>7, <1>8, <1>9, <1>10, <1>11, <1>12
       DEF VectorInv, WriterKnows

\* What a marker that was written although the call failed leaves.
LEMMA LateFaultDoes ==
  ASSUME VectorInv, NEW w \in Writers, LateFault(w)
  PROVE  \/ MarksLate(w)
         \/ \E k \in Kinds, f \in RealFiles, t \in Txs : RecordsLate(w, k, f, t)
  <1>0. /\ TypeInv /\ Fresh /\ LockHeld /\ RestIsWhole /\ MarkerIsGood /\ Clean
        /\ KnowsMarker(w) /\ KnowsWhy(w) /\ KnowsSource(w) /\ KnowsWrite(w)
        /\ KnowsRestore(w) /\ KnowsResult(w)
    BY DEF VectorInv, WriterKnows
  <1>1. /\ count' \in Counts /\ count'.foreign = count.foreign
        /\ UNCHANGED <<target, aux, lock>> /\ nextId' = nextId + 2
    <2>1. count \in Counts /\ Once("faults")
      BY <1>0 DEF TypeInv, LateFault
    <2>2. count' \in Counts /\ count'.foreign = count.foreign
      BY <2>1 DEF Once, Counts
    <2> QED
      BY <2>2 DEF LateFault
  <1>2. CASE /\ At(w, "mark") /\ marker = NoMarker /\ Goto(w, "error")
             /\ marker' = [Tx(w) EXCEPT !.rev = nextId]
    <2> DEFINE m == [Tx(w) EXCEPT !.rev = nextId]
    <2>1. /\ m \in Txs /\ m.rev = nextId /\ m.orig = Tx(w).orig /\ m.out = Tx(w).out
          /\ m.rollback = Tx(w).rollback /\ m.rec = Tx(w).rec
      BY <1>0, WriterTyped DEF TypeInv, Txs
    <2> HIDE DEF m
    <2> QED
      BY <1>0, <1>1, <1>2, <2>1, WriterTyped, ToHolds DEF Pcs, m, MarksLate
  <1>3. CASE /\ At(w, "stage") /\ Todo(w) # << >>
             /\ LET k == Head(Todo(w))
                    t == [Tx(w) EXCEPT !.out[k] = File(nextId, Result(w, Tx(w).orig[k]))]
                IN /\ marker' = [t EXCEPT !.rev = nextId + 1]
                   /\ writer' = [writer EXCEPT ![w].pc = "check", ![w].why = "undo",
                                               ![w].tx = t]
    <2> DEFINE k == Head(Todo(w))
               f == File(nextId, Result(w, Tx(w).orig[k]))
               t == [Tx(w) EXCEPT !.out[k] = f]
    <2>0. marker = Tx(w) /\ marker # NoMarker
      BY <1>0, <1>3 DEF KnowsMarker, At
    <2>1. /\ k \in Kinds /\ k \in Left(Todo(w))
          /\ Left(Tail(Todo(w))) = Left(Todo(w)) \ {k}
      BY <1>0, <1>3, LeftAfter, WriterTyped
    <2>2. f \in RealFiles /\ f.id = nextId /\ f.val = Made(Op(w), Tx(w).orig[k])
      BY <1>0, <2>1, ResultTyped
    <2> HIDE DEF f
    <2>3. t \in Txs /\ RecordsNew([t EXCEPT !.rev = nextId + 1], Tx(w), k, f)
      BY <1>0, <2>1, <2>2, RecordsHold, WriterTyped DEF TypeInv
    <2>4. t.rev = Tx(w).rev
      BY <1>0, WriterTyped DEF Txs
    <2>5. marker' = [t EXCEPT !.rev = nextId + 1]
      BY <1>3 DEF f
    <2>6. writer' = [writer EXCEPT ![w].pc = "check", ![w].why = "undo", ![w].tx = t]
      BY <1>3 DEF f
    <2> HIDE DEF t
    <2>7. [t EXCEPT !.rev = nextId + 1].orig = t.orig
          /\ [t EXCEPT !.rev = nextId + 1].rollback = t.rollback
          /\ [t EXCEPT !.rev = nextId + 1].out = t.out
          /\ [t EXCEPT !.rev = nextId + 1].rec = t.rec
      BY <2>3 DEF Txs
    <2>8. To(w, "check", t, Todo(w), "undo")
      BY <1>0, <2>3, <2>6, WriterTyped, ToHolds DEF Pcs
    <2> QED
      BY <1>1, <1>3, <2>0, <2>1, <2>2, <2>3, <2>4, <2>5, <2>7, <2>8 DEF RecordsLate, Records
  <1> QED
    BY <1>2, <1>3 DEF LateFault

\* A marker that was written although the call failed keeps the invariant.
LEMMA LateFaultKeeps ==
  ASSUME VectorInv, NEW w \in Writers, LateFault(w)
  PROVE  VectorInv'
  <1>1. \/ MarksLate(w)
        \/ \E k \in Kinds, f \in RealFiles, t \in Txs : RecordsLate(w, k, f, t)
    BY LateFaultDoes
  <1> QED
    BY <1>1, MarksLateKeeps, RecordsLateKeeps

-----------------------------------------------------------------------------
(* What ends an operation from outside, and what is no operation. *)

\* A writer knows what it knew while nothing it knows of changes.
LEMMA StillKnows ==
  ASSUME NEW w \in Writers, WriterKnows(w), UNCHANGED <<target, marker, aux>>,
         writer'[w] = writer[w]
  PROVE  WriterKnows(w)'
  <1>1. KnowsMarker(w)' /\ KnowsWhy(w)' /\ KnowsSource(w)'
    <2>1. KnowsMarker(w) /\ KnowsWhy(w) /\ KnowsSource(w)
      BY DEF WriterKnows
    <2>2. KnowsMarker(w)'
      <3>1. ASSUME NEW t, Undoable(t) PROVE Undoable(t)'
        BY <3>1 DEF Undoable
      <3>2. Tx(w)' = Tx(w) /\ \A p \in Pcs : At(w, p)' = At(w, p)
        BY DEF Tx, At
      <3> QED
        BY <2>1, <3>1, <3>2 DEF KnowsMarker, At
    <2>3. KnowsWhy(w)'
      BY <2>1 DEF KnowsWhy, At, Commits
    <2>4. KnowsSource(w)'
      BY <2>1 DEF KnowsSource, At, Tx
    <2> QED
      BY <2>2, <2>3, <2>4
  <1>2. KnowsWrite(w)'
    BY DEF WriterKnows, KnowsWrite, At, Tx, Op, Todo, Commits
  <1>3. KnowsRestore(w)'
    BY DEF WriterKnows, KnowsRestore, Restored, At, Tx, Todo, Commits
  <1>4. KnowsResult(w)'
    BY DEF WriterKnows, KnowsResult, Spotless, At, Tx, Op, Commits
  <1> QED
    BY <1>1, <1>2, <1>3, <1>4 DEF WriterKnows

\* The end of the process keeps the invariant: the files stay, the writer forgets.
LEMMA CrashKeeps ==
  ASSUME VectorInv, NEW w \in Writers, Crash(w)
  PROVE  VectorInv'
  <1>0. /\ TypeInv /\ Fresh /\ LockHeld /\ RestIsWhole /\ MarkerIsGood /\ Clean
        /\ KnowsMarker(w) /\ KnowsWhy(w) /\ KnowsSource(w) /\ KnowsWrite(w)
        /\ KnowsRestore(w) /\ KnowsResult(w)
    BY DEF VectorInv, WriterKnows
  <1>1. /\ UNCHANGED <<target, marker, aux, nextId>> /\ lock' = lock \ {w} /\ Others(w)
        /\ writer' \in [Writers -> WriterRecs] /\ writer'[w].pc = "idle"
        /\ writer'[w].tx = NoMarker /\ count' \in Counts /\ count'.foreign = count.foreign
    <2>1. DownWriter \in WriterRecs /\ DownWriter.pc = "idle" /\ DownWriter.tx = NoMarker
      BY NothingTyped DEF DownWriter, NoOp, Ops, Todos, WriterRecs, Pcs
    <2>2. count' \in Counts /\ count'.foreign = count.foreign
      BY <1>0 DEF TypeInv, Crash, Once, Counts
    <2> QED
      BY <1>0, <2>1, <2>2 DEF TypeInv, Crash, Others
  <1>2. TypeInv' /\ LockHeld'
    BY <1>0, <1>1 DEF TypeInv, LockHeld, At, Others
  <1>3. Fresh' /\ Clean'
    <2>1. ASSUME NEW v \in Writers PROVE Tx(v)' = Tx(v) \/ Tx(v)' = NoMarker
      BY <1>1 DEF Tx, Others
    <2>2. FreshTx(NoMarker, nextId) /\ SpotlessTx(NoMarker)
      BY <1>0, NoMarkerFresh, NothingTyped DEF TypeInv, SpotlessTx, Spotless
    <2> QED
      BY <1>0, <1>1, <2>1, <2>2 DEF Fresh, Clean, Spotless
  <1>4. RestIsWhole' /\ MarkerIsGood'
    BY <1>0, <1>1 DEF RestIsWhole, Whole, Spotless, MarkerIsGood, Undoable
  <1>5. ASSUME NEW v \in Writers PROVE WriterKnows(v)'
    <2>1. CASE v = w
      BY <1>1, <2>1 DEF WriterKnows, KnowsMarker, KnowsWhy, KnowsSource, KnowsWrite,
         KnowsRestore,
         KnowsResult, At
    <2>2. CASE v # w
      BY <1>1, <2>2, StillKnows DEF VectorInv, Others
    <2> QED
      BY <2>1, <2>2
  <1> QED
    BY <1>2, <1>3, <1>4, <1>5 DEF VectorInv

\* A file of an outside tool keeps the invariant: it is told from every other.
LEMMA ForeignKeeps ==
  ASSUME VectorInv, NEW k \in Kinds, Foreign(k)
  PROVE  VectorInv'
  <1>1. /\ UNCHANGED <<marker, aux, lock, writer>> /\ nextId' = nextId + 1
        /\ target' \in Pairs /\ target'[k].id = nextId /\ target'[k].val = {Alien}
        /\ target'[k] # NoFile /\ \A j \in Kinds \ {k} : target'[j] = target[j]
        /\ count' \in Counts /\ count'.foreign # 0 /\ count'.foreign <= MaxForeign
        /\ \A w \in Writers : writer[w].pc \notin {"restore", "restorePut"}
    <2>1. File(nextId, {Alien}) \in RealFiles
      BY DEF VectorInv, TypeInv, File, RealFiles
    <2>2. /\ target' = [target EXCEPT ![k] = File(nextId, {Alien})]
          /\ target' \in Pairs /\ target'[k] = File(nextId, {Alien})
          /\ \A j \in Kinds \ {k} : target'[j] = target[j]
      BY <2>1 DEF VectorInv, TypeInv, Foreign, Pairs
    <2>3. count' \in Counts /\ count'.foreign # 0 /\ count'.foreign <= MaxForeign
      BY VPAssumption DEF VectorInv, TypeInv, Foreign, Once, Counts
    <2> QED
      BY <2>1, <2>2, <2>3, NothingTyped DEF Foreign, File
  <1>2. TypeInv' /\ LockHeld'
    BY <1>1 DEF VectorInv, TypeInv, LockHeld, At
  <1>3. Fresh' /\ Clean'
    BY <1>1, FreshAfter DEF VectorInv, TypeInv, Fresh, Before, Clean, Tx
  <1>4. ASSUME NEW t, Undoable(t) PROVE Undoable(t)'
    BY <1>1, <1>4 DEF Undoable
  <1>5. RestIsWhole' /\ MarkerIsGood'
    <2>1. RestIsWhole'
      BY <1>1 DEF RestIsWhole, Whole, Spotless
    <2>2. MarkerIsGood'
      BY <1>1 DEF VectorInv, MarkerIsGood, Undoable
    <2> QED
      BY <2>1, <2>2
  <1>6. ASSUME NEW w \in Writers PROVE WriterKnows(w)'
    <2>1. KnowsMarker(w)' /\ KnowsWhy(w)' /\ KnowsSource(w)'
      <3>1. KnowsMarker(w) /\ KnowsWhy(w) /\ KnowsSource(w)
        BY DEF VectorInv, WriterKnows
      <3>2. KnowsMarker(w)'
        BY <1>1, <3>1 DEF KnowsMarker, Undoable, At, Tx
      <3>3. KnowsWhy(w)'
        BY <1>1, <3>1 DEF KnowsWhy, At, Commits
      <3>4. KnowsSource(w)'
        BY <1>1, <3>1 DEF KnowsSource, At, Tx
      <3> QED
        BY <3>2, <3>3, <3>4
    <2>2. KnowsWrite(w)'
      BY <1>1 DEF VectorInv, WriterKnows, KnowsWrite, StartsFrom, At, Tx, Op, Todo, Commits
    <2>3. KnowsRestore(w)'
      BY <1>1 DEF VectorInv, WriterKnows, KnowsRestore, Restored, At, Tx, Todo, Commits
    <2>4. KnowsResult(w)'
      BY <1>1 DEF VectorInv, WriterKnows, KnowsResult, Spotless, At, Tx, Op, Commits
    <2> QED
      BY <2>1, <2>2, <2>3, <2>4 DEF WriterKnows
  <1> QED
    BY <1>2, <1>3, <1>5, <1>6 DEF VectorInv

\* A step of a reader, and no step at all, keep the invariant.
LEMMA QuietKeeps ==
  ASSUME VectorInv, UNCHANGED <<target, marker, aux, lock, writer, nextId>>,
         count' \in Counts, count'.foreign = count.foreign
  PROVE  VectorInv'
  <1>1. TypeInv' /\ LockHeld'
    BY DEF VectorInv, TypeInv, LockHeld, At
  <1>2. Fresh' /\ Clean'
    BY DEF VectorInv, Fresh, Clean, Spotless, Tx
  <1>3. RestIsWhole' /\ MarkerIsGood'
    BY DEF VectorInv, RestIsWhole, Whole, Spotless, MarkerIsGood, Undoable
  <1>4. \A w \in Writers : WriterKnows(w)'
    BY StillKnows DEF VectorInv
  <1> QED
    BY <1>1, <1>2, <1>3, <1>4 DEF VectorInv

\* What the steps of a reader leave alone.
LEMMA ReaderDoes ==
  ASSUME VectorInv, NEW r \in Readers, Search(r) \/ Searching(r)
  PROVE  /\ UNCHANGED <<target, marker, aux, lock, writer, nextId>>
         /\ count' \in Counts /\ count'.foreign = count.foreign
  <1>1. CASE Search(r)
    BY <1>1 DEF VectorInv, TypeInv, Search, ReaderStep, Once, Counts
  <1>2. CASE Searching(r)
    BY <1>2 DEF VectorInv, TypeInv, Searching, ReaderStep, ReadMeta, ReadState, LoadIndex,
       SameState, SameMeta, AcceptLoad, SnapState, SnapMeta, SnapSame, SnapFinal, SnapPublished,
       Probe, Recheck, Answer
  <1> QED
    BY <1>1, <1>2

\* The first state satisfies the invariant.
LEMMA InitHolds ==
  ASSUME Init
  PROVE  VectorInv
  <1>1. /\ DownWriter \in WriterRecs /\ DownWriter.pc = "idle" /\ DownWriter.tx = NoMarker
    BY NothingTyped DEF DownWriter, NoOp, Ops, Todos, WriterRecs, Pcs
  <1>2. /\ target \in Pairs /\ \A k \in Kinds : target[k].id < 3 /\ target[k].val = {}
        /\ target["index"] = NoFile <=> target["metadata"] = NoFile
    BY NothingTyped DEF Init, Pairs, RealFiles, Kinds
  <1>3. TypeInv /\ LockHeld
    BY <1>1, <1>2, NothingTyped, VPAssumption DEF Init, TypeInv, LockHeld, At, Counts
  <1>4. Fresh /\ Clean
    <2>1. FreshTx(NoMarker, nextId) /\ SpotlessTx(NoMarker) /\ Before(target, nextId)
      BY <1>2, NoMarkerFresh, NothingTyped DEF Init, SpotlessTx, Spotless, Before
    <2> QED
      BY <1>1, <1>2, <2>1 DEF Init, Fresh, Clean, Spotless, Tx
  <1>5. RestIsWhole /\ MarkerIsGood
    BY <1>2 DEF Init, RestIsWhole, Whole, MarkerIsGood, Kinds
  <1>6. \A w \in Writers : WriterKnows(w)
    BY <1>1 DEF Init, WriterKnows, KnowsMarker, KnowsWhy, KnowsSource, KnowsWrite,
       KnowsRestore,
       KnowsResult, At
  <1> QED
    BY <1>3, <1>4, <1>5, <1>6 DEF VectorInv

\* Every step keeps the invariant.
LEMMA StepKeeps ==
  ASSUME VectorInv, [Next]_vars
  PROVE  VectorInv'
  <1>1. ASSUME NEW w \in Writers, WriterStep(w) PROVE VectorInv'
    BY <1>1, FinishKeeps, RecoverKeeps, RestoreCheckKeeps, RestoreStageKeeps,
       RestorePutKeeps,
       RestoreDeleteKeeps, RestoreDoneKeeps, ClearKeeps, SweepKeeps, LoadKeeps, MigrateKeeps,
       CopyKeeps, MarkKeeps, StageKeeps, PutKeeps, CompleteKeeps DEF WriterStep
  <1>2. ASSUME NEW w \in Writers, Fault(w) \/ LateFault(w) \/ Crash(w) PROVE VectorInv'
    BY <1>2, FaultKeeps, LateFaultKeeps, CrashKeeps
  <1>3. ASSUME NEW w \in Writers, NEW o \in Ops, Start(w, o) PROVE VectorInv'
    BY <1>3, StartKeeps
  <1>4. ASSUME NEW r \in Readers, Search(r) \/ Searching(r) PROVE VectorInv'
    BY <1>4, ReaderDoes, QuietKeeps
  <1>5. ASSUME NEW k \in Kinds, Foreign(k) PROVE VectorInv'
    BY <1>5, ForeignKeeps
  <1>6. CASE UNCHANGED vars
    <2>1. /\ UNCHANGED <<target, marker, aux, lock, writer, nextId>>
          /\ count' \in Counts /\ count'.foreign = count.foreign
      BY <1>6 DEF vars, VectorInv, TypeInv
    <2> QED
      BY <2>1, QuietKeeps
  <1> QED
    BY <1>1, <1>2, <1>3, <1>4, <1>5, <1>6 DEF Next

\* The invariant says what a crash at any point leaves in the directory.
LEMMA InvImpliesPairInv ==
  ASSUME VectorInv
  PROVE  PairInv
  <1>1. ASSUME NEW f \in RealFiles \cup {NoFile}, f.id < nextId
        PROVE  f.id \in 0 .. nextId /\ f.val \subseteq Labels \cup {Alien}
    BY <1>1, NothingTyped DEF RealFiles, VectorInv, TypeInv
  <1>2. TypeOK
    <2>1. \A k \in Kinds : /\ target[k].id \in 0 .. nextId
                           /\ target[k].val \subseteq Labels \cup {Alien}
      BY <1>1 DEF VectorInv, TypeInv, Fresh, Before, Pairs
    <2>2. marker.rev \in 0 .. nextId
      BY DEF VectorInv, TypeInv, Fresh, FreshTx, Txs
    <2>3. Cardinality(lock) <= 1 /\ lock \subseteq Writers
      <3>1. lock = {} \/ \E w \in Writers : lock = {w}
        BY DEF VectorInv, TypeInv
      <3>2. CASE lock = {}
        BY <3>2, FS_EmptySet
      <3>3. CASE \E w \in Writers : lock = {w}
        <4>1. PICK w \in Writers : lock = {w}
          BY <3>3
        <4>2. Cardinality(lock) = 1
          BY <4>1, FS_Singleton
        <4> QED
          BY <4>1, <4>2
      <3> QED
        BY <3>1, <3>2, <3>3
    <2>4. \A w \in Writers : writer[w].op \in Ops /\ writer[w].up \in BOOLEAN
      BY DEF VectorInv, TypeInv, WriterRecs
    <2>5. \A f \in aux : f.id \in 1 .. nextId
      BY DEF VectorInv, TypeInv, Fresh, RealFiles
    <2> QED
      BY <2>1, <2>2, <2>3, <2>4, <2>5 DEF TypeOK
  <1>3. PairAtRestIsWhole
    BY DEF VectorInv, PairAtRestIsWhole, RestIsWhole, Whole, Spotless, NoAlien, Present
  <1>4. MarkerCanBeUndone /\ TargetsAreRecorded
    BY DEF VectorInv, MarkerCanBeUndone, TargetsAreRecorded, MarkerIsGood, Undoable, NoAlien
  <1>5. SuccessIsCommitted
    <2>1. ASSUME NEW w \in Writers, At(w, "ok"), NoAlien
          PROVE  /\ marker = NoMarker
                 /\ Op(w).kind = "add" => Op(w).label \in target["index"].val
                 /\ Op(w).kind = "delete" => Op(w).label \notin target["index"].val
      <3>1. KnowsMarker(w) /\ KnowsResult(w) /\ Spotless(target)
        BY <2>1 DEF VectorInv, WriterKnows, Spotless, NoAlien
      <3>2. marker = NoMarker
        BY <2>1, <3>1 DEF KnowsMarker, At
      <3>3. \A k \in Kinds : /\ Op(w).kind = "add" => Op(w).label \in target[k].val
                             /\ Op(w).kind = "delete" => Op(w).label \notin target[k].val
        BY <2>1, <3>1 DEF KnowsResult, At, Commits
      <3> QED
        BY <3>2, <3>3 DEF Kinds
    <2> QED
      BY <2>1 DEF SuccessIsCommitted
  <1> QED
    BY <1>2, <1>3, <1>4, <1>5 DEF PairInv

\* The invariant holds in every reachable state.
LEMMA VectorInvHolds == Spec => []VectorInv
  <1>1. Init => VectorInv
    BY InitHolds
  <1>2. VectorInv /\ [Next]_vars => VectorInv'
    BY StepKeeps
  <1> QED
    BY <1>1, <1>2, PTL DEF Spec

\* Whatever a crash, an error or an outside tool leaves in the directory, the
\* pair at rest is whole, an unfinished write can be undone from copies that
\* are still there, and what a call reported done stays done.
THEOREM PairInvHolds == Spec => []PairInv
  <1>1. VectorInv => PairInv
    BY InvImpliesPairInv
  <1> QED
    BY <1>1, VectorInvHolds, PTL

-----------------------------------------------------------------------------
(* The refinement. *)

\* The value of a pair depends on which files exist and on the labels.
LEMMA SameValue ==
  ASSUME NEW f \in Pairs, NEW g \in Pairs,
         f["index"] = NoFile <=> g["index"] = NoFile, f["metadata"].val = g["metadata"].val
  PROVE  Value(f) = Value(g)
  BY DEF Value

\* While a marker stays, with its originals, the committed labels stay.
LEMMA MarkedStays ==
  ASSUME marker # NoMarker, marker' # NoMarker, marker'.orig = marker.orig
  PROVE  Committed' = Committed
  BY DEF Committed, Value

\* Without an outside tool no file has a label of unknown origin.
LEMMA NoneForeign ==
  ASSUME VectorInv, MaxForeign = 0
  PROVE  /\ Spotless(target) /\ \A w \in Writers : SpotlessTx(Tx(w))
  BY DEF VectorInv, TypeInv, Counts, Clean

\* Removing the marker of a completed write is one whole operation.
LEMMA CommitIsAtomic ==
  ASSUME VectorInv, MaxForeign = 0, NEW w \in Writers, At(w, "clear"), Commits(w),
         marker = Tx(w), marker' = NoMarker, UNCHANGED target
  PROVE  Atomic!Next
  <1>1. /\ target["index"] # NoFile
        /\ target["metadata"].val = Made(Op(w), Tx(w).orig["metadata"])
    BY NoneForeign, CommitIsWhole DEF Kinds
  <1>2. Committed' = Made(Op(w), Tx(w).orig["metadata"])
    BY <1>1 DEF Committed, Value
  <1>3. marker # NoMarker /\ Committed = Value(Tx(w).orig)
    BY DEF VectorInv, WriterKnows, KnowsMarker, At, Committed
  <1>4. /\ StartsFrom(Op(w), Tx(w).orig) /\ Op(w) \in Ops /\ Spotless(Tx(w).orig)
        /\ Tx(w).orig \in Pairs
    BY NoneForeign, WriterTyped DEF VectorInv, WriterKnows, KnowsWrite, At, SpotlessTx, Txs
  <1>5. CASE Op(w).kind = "open"
    <2>1. Committed = Missing
      BY <1>3, <1>4, <1>5 DEF StartsFrom, Spotless, Value, Kinds
    <2>2. Committed' = {}
      BY <1>2, <1>5 DEF Made
    <2> QED
      BY <2>1, <2>2 DEF Atomic!Next, Atomic!Create
  <1>6. CASE Op(w).kind \in {"add", "delete"}
    <2>1. Committed = Tx(w).orig["metadata"].val
      BY <1>3, <1>4, <1>6 DEF StartsFrom, Value, Kinds
    <2>2. Committed # Missing
      <3>1. Tx(w).orig["metadata"].val \in SUBSET (Labels \cup {Alien})
        BY <1>4, NothingTyped DEF Pairs, RealFiles, Kinds
      <3> QED
        BY <2>1, <3>1, VPAssumption
    <2>3. Op(w).label \in Labels
      BY <1>4, <1>6, WriterTyped DEF VectorInv
    <2>4. Op(w).kind = "add" => Atomic!Add(Op(w).label)
      BY <1>2, <2>1, <2>2 DEF Made, Atomic!Add
    <2>5. Op(w).kind = "delete" => Atomic!Delete(Op(w).label)
      BY <1>2, <2>1, <2>2 DEF Made, Atomic!Delete
    <2> QED
      BY <1>6, <2>3, <2>4, <2>5 DEF Atomic!Next
  <1> QED
    BY <1>4, <1>5, <1>6, WriterTyped DEF StartsFrom, VectorInv

\* Removing the marker after a restore changes no committed label.
LEMMA UndoStays ==
  ASSUME VectorInv, MaxForeign = 0, NEW w \in Writers, At(w, "clear"), ~ Commits(w),
         marker = Tx(w), marker' = NoMarker, UNCHANGED target
  PROVE  Committed' = Committed
  <1>1. \A k \in Kinds : /\ target[k] = NoFile <=> Tx(w).orig[k] = NoFile
                         /\ target[k].val = Tx(w).orig[k].val
    BY NoneForeign, RestoreIsWhole
  <1>2. marker # NoMarker
    BY DEF VectorInv, WriterKnows, KnowsMarker, At
  <1> QED
    BY <1>1, <1>2 DEF Committed, Value, Kinds

\* The originals of a new marker are the files in place.
LEMMA MarkStays ==
  ASSUME VectorInv, MaxForeign = 0, NEW w \in Writers, At(w, "mark"), marker = NoMarker,
         marker'.rev = nextId, marker'.orig = Tx(w).orig, UNCHANGED target
  PROVE  Committed' = Committed
  <1>1. \A k \in Kinds : target[k] = Tx(w).orig[k]
    BY NoneForeign DEF VectorInv, WriterKnows, KnowsSource, Spotless
  <1>2. marker' # NoMarker
    BY NothingTyped DEF VectorInv, TypeInv
  <1> QED
    BY <1>1, <1>2 DEF Committed, Value, Kinds

\* Each step of one writer is a whole operation or changes no committed label.
LEMMA WriterRefines ==
  ASSUME VectorInv, MaxForeign = 0, NEW w \in Writers,
         WriterStep(w) \/ Fault(w) \/ LateFault(w) \/ Crash(w)
  PROVE  Atomic!Next \/ Committed' = Committed
  <1>1. ASSUME UNCHANGED <<target, marker>> PROVE Committed' = Committed
    BY <1>1 DEF Committed, Value
  <1>2. CASE \/ Finish(w) \/ Recover(w) \/ RestoreCheck(w) \/ RestoreDone(w) \/ Sweep(w)
             \/ Load(w) \/ Copy(w) \/ Complete(w) \/ Fault(w) \/ Crash(w)
    BY <1>1, <1>2 DEF Finish, Recover, RestoreCheck, RestoreDone, Sweep, Load, Copy,
       Complete,
       Fault, Crash
  <1>3. CASE RestoreStage(w)
    <2>1. CASE UNCHANGED <<target, marker>>
      BY <1>1, <2>1
    <2>2. CASE \E k \in Kinds, f \in RealFiles : RecordsCopy(w, k, f)
      <3>1. marker # NoMarker /\ marker'.orig = marker.orig /\ marker'.rev = nextId + 1
        BY <2>2 DEF RecordsCopy, RecordsBack
      <3>2. marker' # NoMarker
        BY <3>1, NothingTyped DEF VectorInv, TypeInv
      <3> QED
        BY <3>1, <3>2, MarkedStays
    <2> QED
      BY <1>3, <2>1, <2>2, RestoreStageDoes DEF Fails, SkipsOne
  <1>4. CASE RestorePut(w) \/ Put(w)
    <2>1. marker # NoMarker /\ marker' = marker
      BY <1>4, RestorePutDoes, PutDoes
    <2> QED
      BY <2>1, MarkedStays
  <1>5. CASE RestoreDelete(w)
    <2>1. marker # NoMarker /\ marker' = marker
      BY <1>5 DEF RestoreDelete, VectorInv, WriterKnows, KnowsMarker, At
    <2> QED
      BY <2>1, MarkedStays
  <1>6. CASE Clear(w)
    <2>1. /\ UNCHANGED target /\ At(w, "clear")
          /\ \/ marker = Tx(w) /\ marker' = NoMarker
             \/ marker' = marker
      BY <1>6, ClearDoes
    <2> QED
      BY <1>1, <2>1, CommitIsAtomic, UndoStays
  <1>7. CASE Migrate(w)
    <2>1. /\ marker' = marker /\ target'["index"] = target["index"]
          /\ target'["metadata"].val = target["metadata"].val
      BY <1>7, MigrateDoes
    <2>2. marker = NoMarker
      BY <1>7 DEF Migrate, VectorInv, WriterKnows, KnowsMarker, At
    <2> QED
      BY <2>1, <2>2 DEF Committed, Value
  <1>8. CASE Mark(w)
    <2>1. /\ UNCHANGED target /\ At(w, "mark")
          /\ \/ marker = NoMarker /\ marker'.rev = nextId /\ marker'.orig = Tx(w).orig
             \/ marker' = marker
      BY <1>8, MarkDoes
    <2> QED
      BY <1>1, <2>1, MarkStays
  <1>9. CASE Stage(w)
    <2>1. CASE UNCHANGED <<target, marker>>
      BY <1>1, <2>1
    <2>2. CASE \E k \in Kinds, f \in RealFiles : RecordsFile(w, k, f)
      <3>1. marker # NoMarker /\ marker'.orig = marker.orig /\ marker'.rev = nextId + 1
        BY <2>2 DEF RecordsFile, Records, RecordsNew
      <3>2. marker' # NoMarker
        BY <3>1, NothingTyped DEF VectorInv, TypeInv
      <3> QED
        BY <3>1, <3>2, MarkedStays
    <2> QED
      BY <1>9, <2>1, <2>2, StageDoes DEF Fails, TurnsBack
  <1>10. CASE LateFault(w)
    <2>1. CASE MarksLate(w)
      BY <2>1, MarkStays DEF MarksLate
    <2>2. CASE \E k \in Kinds, f \in RealFiles, t \in Txs : RecordsLate(w, k, f, t)
      <3>1. marker # NoMarker /\ marker'.orig = marker.orig /\ marker'.rev = nextId + 1
        BY <2>2 DEF RecordsLate, Records, RecordsNew
      <3>2. marker' # NoMarker
        BY <3>1, NothingTyped DEF VectorInv, TypeInv
      <3> QED
        BY <3>1, <3>2, MarkedStays
    <2> QED
      BY <1>10, <2>1, <2>2, LateFaultDoes
  <1> QED
    BY <1>2, <1>3, <1>4, <1>5, <1>6, <1>7, <1>8, <1>9, <1>10 DEF WriterStep

\* Each step is a whole operation of the abstract set or changes nothing of it.
LEMMA StepRefines ==
  ASSUME VectorInv, MaxForeign = 0, [Next]_vars
  PROVE  [Atomic!Next]_Committed
  <1>1. ASSUME UNCHANGED <<target, marker>> PROVE Committed' = Committed
    BY <1>1 DEF Committed, Value
  <1>2. ASSUME NEW w \in Writers, NEW o \in Ops, Start(w, o) PROVE Committed' = Committed
    BY <1>1, <1>2 DEF Start
  <1>3. ASSUME NEW r \in Readers, Search(r) \/ Searching(r) PROVE Committed' = Committed
    BY <1>1, <1>3, ReaderDoes
  <1>4. ~ \E k \in Kinds : Foreign(k)
    BY DEF Foreign, VectorInv, TypeInv, Counts
  <1>5. CASE UNCHANGED vars
    BY <1>1, <1>5 DEF vars
  <1> QED
    BY <1>2, <1>3, <1>4, <1>5, WriterRefines DEF Next

\* Without an outside tool, two files, their copies and a marker are one set of
\* labels that every write changes in one step or not at all, whatever crashes,
\* errors and concurrent calls come between.
THEOREM ImplementsAtomicPairHolds ==
  ASSUME MaxForeign = 0
  PROVE  Spec => ImplementsAtomicPair
  <1>1. Init => Atomic!Init
    BY DEF Init, Atomic!Init, Committed, Value, Nothing, NoFile, Kinds
  <1>2. VectorInv /\ [Next]_vars => [Atomic!Next]_Committed
    BY StepRefines
  <1> QED
    BY <1>1, <1>2, VectorInvHolds, PTL DEF Spec, ImplementsAtomicPair, Atomic!Spec

-----------------------------------------------------------------------------
(* The answers of a strict reader *)

Writing(w) == writer[w].pc \in {"stage", "put"}

\* What a write has still to replace is as before, the rest is as recorded.
TargetsFollow(w) ==
  \A k \in Kinds :
    /\ k \in Left(Todo(w)) =>
         /\ target[k] = Tx(w).orig[k]
         /\ Tx(w).out[k] # NoFile => Tx(w).out[k].id # target[k].id
    /\ k \notin Left(Todo(w)) =>
         Expected(Tx(w), k) # NoFile /\ target[k] = Expected(Tx(w), k)

\* A writer that nothing disturbs never has to restore.
CalmWriter(w) ==
  /\ writer[w].pc \notin {"check", "restore", "restorePut"}
  /\ At(w, "idle") => Tx(w) = NoMarker
  /\ At(w, "clear") => Commits(w) /\ marker = Tx(w)
  /\ Writing(w) => TargetsFollow(w)
  /\ writer[w].pc \in {"mark", "stage", "put"} =>
       \/ Op(w).kind = "open" \/ "metadata" \notin Left(Todo(w))
       \/ Todo(w) = <<"metadata", "index">>

MarkerIsHeld == marker # NoMarker => \E w \in Writers : Writing(w) \/ At(w, "clear")

\* An index with identity i is the published one or will never be it again.
Recent(i) ==
  /\ i \in Nat \ {0} /\ i < nextId
  /\ \A w \in Writers : Tx(w).out["index"].id = i => Tx(w).out["index"] = target["index"]

NewestIsRecent == target["index"] # NoFile => Recent(target["index"].id)

CalmInv == /\ \A w \in Writers : CalmWriter(w)
           /\ MarkerIsHeld /\ NewestIsRecent

\* The write under way is going to replace the index.
Replacing == \E w \in Writers : Writing(w) /\ "index" \in Left(Todo(w))

ReaderPcs == {"idle", "meta", "state", "load", "same", "sameMeta", "published", "loaded",
              "snapMeta", "snapSame", "snapFinal", "snapPublished", "probe", "recheck",
              "answered"}
Keys == Nat \X ((SUBSET (Labels \cup {Alien})) \X {"none", "legacy", "v2"})
ReaderRecs == [pc : ReaderPcs, meta : RealFiles \cup {NoFile},
               state : RealFiles \cup {NoFile}, loaded : RealFiles \cup {NoFile},
               cache : Keys \cup {<< >>}]
ReadersTyped == reader \in [Readers -> ReaderRecs]

\* The search has its state, and its mapping as well.
HasState == {"snapMeta", "snapSame", "snapFinal", "snapPublished", "probe"}
HasPair == (HasState \ {"snapMeta"}) \cup {"recheck"}

\* The mapping is that of the state, or a write that was seen half way is going to
\* replace the state, which the search then finds out.
KnowsPair(r) ==
  /\ reader[r].pc \in HasState \cup {"recheck"} => Recent(reader[r].state.id)
  /\ reader[r].pc \in HasPair /\ target["index"] = reader[r].state =>
       \/ reader[r].state.val = reader[r].meta.val
       \/ reader[r].pc \in {"snapSame", "snapFinal", "snapPublished"} /\ Replacing

\* A cached key names one index and its labels; a search that meets this index
\* as its state has loaded no other.
KnowsCache(r) ==
  reader[r].cache # << >> =>
    LET i == reader[r].cache[1]
        v == reader[r].cache[2][1] IN
    /\ Recent(i) /\ (target["index"].id = i => target["index"].val = v)
    /\ reader[r].pc \in {"same", "sameMeta", "published", "loaded"} \cup HasState
         /\ reader[r].loaded.id = i => reader[r].loaded.val = v
    /\ reader[r].pc \in {"same", "sameMeta", "published", "loaded"}
         /\ target["index"].id = i => reader[r].loaded.id = i
    /\ reader[r].pc \in HasState /\ reader[r].state.id = i => reader[r].loaded.id = i

KnowsAnswer(r) == reader[r].pc \in {"recheck", "answered"} =>
                    reader[r].loaded.val = reader[r].meta.val

ReaderKnows(r) == KnowsPair(r) /\ KnowsCache(r) /\ KnowsAnswer(r)

\* The first search meets an empty cache.
FirstKnows(r) ==
  /\ reader[r].pc = "recheck" => reader[r].loaded.val = reader[r].meta.val
  /\ count.searches = 0 => reader[r].cache = << >> /\ reader[r].pc = "idle"
  /\ count.searches = 1 =>
       /\ reader[r].pc \notin {"idle", "answered"} => reader[r].cache = << >>
       /\ reader[r].pc = "answered" => reader[r].loaded.val = reader[r].meta.val

ReaderInv == /\ ReadersTyped /\ \A r \in Readers : FirstKnows(r)
             /\ Calm => CalmInv /\ \A r \in Readers : ReaderKnows(r)

\* What a writer's step does to the readers: an index that has been replaced does
\* not come back, and a write that is going to replace it does so.
Moves ==
  /\ nextId' \in Nat /\ nextId <= nextId'
  /\ \A i : Recent(i) =>
       Recent(i)' /\ (target'["index"].id = i => target'["index"] = target["index"])
  /\ Replacing /\ target'["index"] = target["index"] => Replacing'

\* Without a write under way there is no marker.
LEMMA CalmMarker ==
  ASSUME VectorInv, CalmInv, NEW w \in Writers, ~ Writing(w), ~ At(w, "clear"),
         \A v \in Writers \ {w} : At(v, "idle")
  PROVE  marker = NoMarker /\ ~ Replacing
  BY DEF CalmInv, MarkerIsHeld, Writing, Replacing, At

\* A step that leaves the index in place and records none but a new one.
LEMMA CalmAfter ==
  ASSUME VectorInv, CalmInv, NEW w \in Writers, \A v \in Writers \ {w} : At(v, "idle"),
         Others(w), nextId' \in Nat, nextId <= nextId', target'["index"] = target["index"],
         \/ Tx(w)'.out["index"] \in {Tx(w).out["index"], NoFile}
         \/ Tx(w)'.out["index"].id \in Nat /\ Tx(w)'.out["index"].id >= nextId,
         CalmWriter(w)', marker' # NoMarker => (Writing(w) \/ At(w, "clear"))',
         Writing(w) /\ "index" \in Left(Todo(w)) => (Writing(w) /\ "index" \in Left(Todo(w)))'
  PROVE  CalmInv' /\ Moves
  <1>1. ASSUME NEW i, Recent(i) PROVE Recent(i)'
    <2>1. i \in Nat \ {0} /\ i < nextId' /\ nextId \in Nat
      BY <1>1 DEF Recent, VectorInv, TypeInv
    <2>2. ASSUME NEW v \in Writers, Tx(v)'.out["index"].id = i
          PROVE  Tx(v)'.out["index"] = target'["index"]
      <3>1. CASE v # w
        BY <1>1, <2>2, <3>1 DEF Others, Recent, Tx
      <3>2. CASE v = w
        BY <1>1, <2>1, <2>2, <3>2, NothingTyped DEF Recent
      <3> QED
        BY <3>1, <3>2
    <2> QED
      BY <2>1, <2>2 DEF Recent
  <1>2. \A v \in Writers : CalmWriter(v)'
    <2>1. ASSUME NEW v \in Writers, v # w PROVE CalmWriter(v)'
      BY <2>1 DEF CalmInv, CalmWriter, Writing, At, Others, Tx
    <2> QED
      BY <2>1
  <1>3. MarkerIsHeld'
    BY DEF MarkerIsHeld
  <1>4. NewestIsRecent'
    BY <1>1 DEF CalmInv, NewestIsRecent
  <1>5. Replacing => Replacing'
    <2>1. ASSUME Replacing PROVE Writing(w) /\ "index" \in Left(Todo(w))
      BY <2>1 DEF Replacing, Writing, At
    <2> QED
      BY <2>1 DEF Replacing
  <1>6. nextId' \in Nat /\ nextId <= nextId'
    OBVIOUS
  <1> QED
    BY <1>1, <1>2, <1>3, <1>4, <1>5, <1>6 DEF CalmInv, Moves

\* While a writer is in an operation the others are not.
LEMMA OneAtWork ==
  ASSUME VectorInv, NEW w \in Writers, ~ At(w, "idle") \/ lock = {}
  PROVE  \A v \in Writers \ {w} : At(v, "idle")
  BY DEF VectorInv, LockHeld, At

\* A step of one writer that stands apart from any write.
LEMMA CalmQuiet ==
  ASSUME VectorInv, CalmInv, NEW w \in Writers, ~ At(w, "idle") \/ lock = {}, ~ Writing(w),
         NEW tx, Others(w), writer'[w].tx = tx, tx \in {Tx(w), NoMarker} \/ tx.out = Nothing,
         ~ At(w, "clear") \/ marker' = NoMarker,
         writer'[w].pc \in {"idle", "recover", "load", "copy", "sweep", "ok", "error"},
         writer'[w].pc = "idle" => tx = NoMarker,
         target'["index"] = target["index"], marker' \in {marker, NoMarker},
         nextId' \in Nat, nextId <= nextId'
  PROVE  CalmInv' /\ Moves /\ marker' = NoMarker
  <1>1. \A v \in Writers \ {w} : At(v, "idle")
    BY OneAtWork
  <1>2. marker' = NoMarker
    BY <1>1, CalmMarker
  <1>3. Tx(w)'.out["index"] \in {Tx(w).out["index"], NoFile}
    BY NothingTyped DEF Tx, Kinds
  <1>4. CalmWriter(w)'
    BY DEF CalmWriter, Writing, At, Tx
  <1> QED
    BY <1>1, <1>2, <1>3, <1>4, CalmAfter

\* Entering an operation, and the steps before the first marker and after the last.
LEMMA CalmOutside ==
  ASSUME VectorInv, CalmInv, NEW w \in Writers,
         \/ \E o \in Ops : Start(w, o)
         \/ Finish(w) \/ Recover(w) \/ Clear(w) \/ Sweep(w) \/ Load(w) \/ Migrate(w)
  PROVE  CalmInv' /\ Moves
  <1>0. nextId \in Nat /\ CalmWriter(w) /\ TypeInv /\ writer[w] \in WriterRecs
    BY WriterTyped DEF VectorInv, TypeInv, CalmInv
  <1>1. CASE \E o \in Ops : Start(w, o)
    <2>1. PICK o \in Ops : Start(w, o)
      BY <1>1
    <2>2. /\ writer'[w].tx = Tx(w) /\ writer'[w].pc = "recover" /\ Others(w)
          /\ At(w, "idle") /\ lock = {} /\ UNCHANGED <<target, marker, nextId>>
      BY <1>0, <2>1 DEF Start, Others, Tx, VectorInv, TypeInv, WriterRecs
    <2>3. ~ Writing(w) /\ ~ At(w, "clear")
      BY <2>2 DEF Writing, At
    <2> QED
      BY <1>0, <2>2, <2>3, CalmQuiet
  <1>2. CASE Finish(w)
    <2>1. /\ writer'[w].tx = NoMarker /\ writer'[w].pc = "idle" /\ Others(w)
          /\ UNCHANGED <<target, marker, nextId>>
      BY <1>0, <1>2 DEF Finish, Others, VectorInv, TypeInv, DownWriter
    <2>2. ~ Writing(w) /\ ~ At(w, "clear") /\ ~ At(w, "idle")
      BY <1>2 DEF Finish, Writing, At
    <2> QED
      BY <1>0, <2>1, <2>2, CalmQuiet
  <1>3. CASE Recover(w)
    <2>1. ~ Writing(w) /\ ~ At(w, "clear") /\ ~ At(w, "idle")
      BY <1>3 DEF Recover, Writing, At
    <2>2. marker = NoMarker
      BY <2>1, OneAtWork, CalmMarker
    <2>3. /\ writer'[w].tx = Tx(w) /\ writer'[w].pc = "load" /\ Others(w)
          /\ UNCHANGED <<target, marker, nextId>>
      BY <1>0, <1>3, <2>2 DEF Recover, Others, VectorInv, TypeInv, WriterRecs, Tx
    <2> QED
      BY <1>0, <2>1, <2>3, CalmQuiet
  <1>4. CASE Clear(w)
    <2>1. marker = Tx(w)
      BY <1>4 DEF Clear, CalmInv, CalmWriter
    <2>2. /\ writer'[w].tx = Tx(w) /\ writer'[w].pc = "sweep" /\ Others(w)
          /\ UNCHANGED <<target, nextId>> /\ marker' = NoMarker
      BY <1>0, <1>4, <2>1 DEF Clear, Goto, Others, VectorInv, TypeInv, WriterRecs, Tx
    <2>3. ~ Writing(w) /\ ~ At(w, "idle")
      BY <1>4 DEF Clear, Writing, At
    <2> QED
      BY <1>0, <2>2, <2>3, CalmQuiet
  <1>5. CASE Sweep(w)
    <2>1. /\ writer'[w].tx = Tx(w) /\ writer'[w].pc \in {"load", "error", "ok"} /\ Others(w)
          /\ UNCHANGED <<target, marker, nextId>>
      BY <1>0, <1>5 DEF Sweep, Goto, Others, VectorInv, TypeInv, WriterRecs, Tx
    <2>2. ~ Writing(w) /\ ~ At(w, "clear") /\ ~ At(w, "idle")
      BY <1>5 DEF Sweep, Writing, At
    <2> QED
      BY <1>0, <2>1, <2>2, CalmQuiet
  <1>6. CASE Load(w)
    <2>1. /\ writer'[w].tx = Tx(w) /\ writer'[w].pc \in {"ok", "copy", "error"} /\ Others(w)
          /\ UNCHANGED <<target, marker, nextId>>
      BY <1>0, <1>6 DEF Load, Others, VectorInv, TypeInv, WriterRecs, Tx
    <2>2. ~ Writing(w) /\ ~ At(w, "clear") /\ ~ At(w, "idle")
      BY <1>6 DEF Load, Writing, At
    <2> QED
      BY <1>0, <2>1, <2>2, CalmQuiet
  <1>7. CASE Migrate(w)
    <2>1. /\ writer'[w].tx = Tx(w) /\ writer'[w].pc = "load" /\ Others(w) /\ marker' = marker
          /\ target'["index"] = target["index"] /\ nextId' = nextId + 1
      BY <1>0, <1>7, MigrateDoes DEF Others, Tx, At
    <2>2. ~ Writing(w) /\ ~ At(w, "clear") /\ ~ At(w, "idle")
      BY <1>7 DEF Migrate, Writing, At
    <2> QED
      BY <1>0, <2>1, <2>2, CalmQuiet
  <1> QED
    BY <1>1, <1>2, <1>3, <1>4, <1>5, <1>6, <1>7

\* The plan of an addition or a deletion replaces the mapping first.
LEMMA PlanFacts ==
  ASSUME NEW w \in Writers
  PROVE  \/ Op(w).kind = "open" \/ "metadata" \notin Left(Plan(w))
         \/ Plan(w) = <<"metadata", "index">>
  BY LeftFacts DEF Plan

\* Copies of both files are made.
LEMMA CalmCopy ==
  ASSUME VectorInv, CalmInv, NEW w \in Writers, Copy(w)
  PROVE  CalmInv' /\ Moves
  <1>1. /\ At(w, "copy") /\ ~ At(w, "idle") /\ ~ Writing(w) /\ ~ At(w, "clear")
        /\ nextId \in Nat /\ writer[w] \in WriterRecs
    BY WriterTyped DEF Copy, At, Writing, VectorInv, TypeInv
  <1>2. /\ Others(w) /\ writer'[w].pc = "mark" /\ writer'[w].todo = Plan(w)
        /\ writer'[w].op = Op(w) /\ writer'[w].tx.out = Nothing
        /\ UNCHANGED <<target, marker>> /\ nextId' = nextId + 2
    BY <1>1 DEF Copy, Others, Op, VectorInv, TypeInv, WriterRecs, NoMarker
  <1>3. \A v \in Writers \ {w} : At(v, "idle")
    BY <1>1, OneAtWork
  <1>4. marker' = NoMarker
    BY <1>1, <1>2, <1>3, CalmMarker
  <1>5. Tx(w)'.out["index"] = NoFile
    BY <1>2, NothingTyped DEF Tx, Kinds
  <1>6. CalmWriter(w)'
    BY <1>2, PlanFacts DEF CalmWriter, Writing, At, Op, Todo
  <1> QED
    BY <1>1, <1>2, <1>3, <1>4, <1>5, <1>6, CalmAfter

\* The marker is published: nothing has been replaced yet.
LEMMA CalmMark ==
  ASSUME VectorInv, CalmInv, Calm, NEW w \in Writers, Mark(w)
  PROVE  CalmInv' /\ Moves
  <1>1. /\ At(w, "mark") /\ ~ At(w, "idle") /\ ~ Writing(w) /\ ~ At(w, "clear")
        /\ nextId \in Nat /\ KnowsMarker(w) /\ KnowsSource(w) /\ KnowsWrite(w)
        /\ CalmWriter(w)
    BY DEF Mark, At, Writing, VectorInv, TypeInv, WriterKnows, CalmInv
  <1>2. \A v \in Writers \ {w} : At(v, "idle")
    BY <1>1, OneAtWork
  <1>3. marker = NoMarker
    BY <1>1, <1>2, CalmMarker
  <1>4. /\ UNCHANGED target /\ nextId' = nextId + 1
        /\ marker'.orig = Tx(w).orig /\ marker'.out = Tx(w).out
        /\ To(w, "stage", marker', Todo(w), Why(w))
    <2>1. writer'[w].pc = "stage"
      BY <1>1, <1>3, WriterTyped DEF Mark, VectorInv, TypeInv, WriterRecs
    <2> QED
      BY <2>1, MarkDoes DEF To
  <1>5. \A k \in Kinds : target[k] = Tx(w).orig[k] /\ Tx(w).out[k] = NoFile
    <2>1. \A k \in Kinds : target[k] = Tx(w).orig[k]
      BY <1>1 DEF KnowsSource, VectorInv, Clean, Calm, Spotless
    <2> QED
      BY <1>1, <2>1, NothingTyped DEF KnowsMarker
  <1>6. \A k \in Kinds : k \notin Left(Todo(w)) => target[k] # NoFile
    BY <1>1, <1>5 DEF KnowsWrite, StartsFrom, At
  <1>7. /\ Tx(w)'.orig = Tx(w).orig /\ Tx(w)'.out = Tx(w).out /\ Todo(w)' = Todo(w)
        /\ At(w, "stage")' /\ Op(w)' = Op(w) /\ Others(w) /\ Writing(w)'
    BY <1>4 DEF To, Tx, Todo, At, Op, Writing
  <1>8. TargetsFollow(w)'
    BY <1>4, <1>5, <1>6, <1>7 DEF TargetsFollow, Expected
  <1>9. CalmWriter(w)'
    BY <1>1, <1>7, <1>8 DEF CalmWriter, At
  <1> QED
    BY <1>1, <1>2, <1>4, <1>5, <1>7, <1>9, CalmAfter DEF Kinds

\* A staged file is recorded: it has an identity of its own.
LEMMA CalmStage ==
  ASSUME VectorInv, CalmInv, NEW w \in Writers, Stage(w)
  PROVE  CalmInv' /\ Moves
  <1>1. /\ At(w, "stage") /\ ~ At(w, "idle") /\ Writing(w) /\ nextId \in Nat /\ TypeInv /\ Fresh
        /\ KnowsMarker(w) /\ CalmWriter(w) /\ TargetsFollow(w) /\ Todo(w) # << >>
        /\ marker = Tx(w)
    BY DEF Stage, At, Writing, VectorInv, TypeInv, WriterKnows, CalmInv, CalmWriter, KnowsMarker
  <1>2. \A v \in Writers \ {w} : At(v, "idle")
    BY <1>1, OneAtWork
  <1>3. writer'[w].pc = "put"
    <2> DEFINE k == Head(Todo(w))
               f == File(nextId, Result(w, Tx(w).orig[k]))
               t == [Tx(w) EXCEPT !.out[k] = f]
    <2>1. k \in Kinds /\ target[k] = Tx(w).orig[k]
      BY <1>1, LeftAfter, WriterTyped DEF TargetsFollow
    <2>2. Persist(w, t, f, "put")
      BY <2>1 DEF Stage
    <2> HIDE DEF t
    <2> QED
      BY <1>1, <2>2 DEF Persist, TypeInv, WriterRecs
  <1>4. PICK k \in Kinds, f \in RealFiles : RecordsFile(w, k, f)
    BY <1>3, StageDoes DEF Fails, TurnsBack, To
  <1>5. /\ Tx(w)'.orig = Tx(w).orig /\ Tx(w)'.out[k] = f /\ f.id = nextId
        /\ \A j \in Kinds \ {k} : Tx(w)'.out[j] = Tx(w).out[j]
        /\ Todo(w)' = Todo(w) /\ k \in Left(Todo(w))
        /\ At(w, "put")' /\ Op(w)' = Op(w) /\ Others(w) /\ Writing(w)' /\ UNCHANGED target
        /\ nextId' = nextId + 2
    BY <1>4 DEF RecordsFile, Records, RecordsNew, To, Tx, Todo, At, Op, Writing
  <1>6. TargetsFollow(w)'
    <2>1. \A j \in Kinds : target[j].id < nextId
      BY <1>1 DEF Fresh, Before
    <2>2. ASSUME NEW j \in Kinds, j \in Left(Todo(w))
          PROVE  /\ target[j] = Tx(w)'.orig[j]
                 /\ Tx(w)'.out[j] # NoFile => Tx(w)'.out[j].id # target[j].id
      BY <1>1, <1>5, <2>1, <2>2 DEF TargetsFollow
    <2>3. ASSUME NEW j \in Kinds, j \notin Left(Todo(w))
          PROVE  Expected(Tx(w), j)' # NoFile /\ target[j] = Expected(Tx(w), j)'
      BY <1>1, <1>5, <2>3 DEF TargetsFollow, Expected
    <2> QED
      BY <1>5, <2>2, <2>3 DEF TargetsFollow
  <1>7. CalmWriter(w)'
    BY <1>1, <1>5, <1>6 DEF CalmWriter, At
  <1>8. \/ Tx(w)'.out["index"] = Tx(w).out["index"]
        \/ Tx(w)'.out["index"].id = nextId
    BY <1>5 DEF Kinds
  <1> QED
    BY <1>1, <1>2, <1>5, <1>7, <1>8, CalmAfter DEF Kinds

\* All files are in place: the marker can go.
LEMMA CalmComplete ==
  ASSUME VectorInv, CalmInv, NEW w \in Writers, Complete(w)
  PROVE  CalmInv' /\ Moves
  <1>1. /\ At(w, "stage") /\ ~ At(w, "idle") /\ Writing(w) /\ nextId \in Nat
        /\ KnowsMarker(w) /\ CalmWriter(w) /\ TargetsFollow(w) /\ Todo(w) = << >>
        /\ marker = Tx(w) /\ writer[w] \in WriterRecs
    BY WriterTyped DEF Complete, At, Writing, VectorInv, TypeInv, WriterKnows, CalmInv,
       CalmWriter, KnowsMarker
  <1>2. \A v \in Writers \ {w} : At(v, "idle")
    BY <1>1, OneAtWork
  <1>3. "index" \notin Left(Todo(w))
    BY <1>1, LeftFacts
  <1>4. \A k \in Kinds : Expected(Tx(w), k) # NoFile /\ target[k] = Expected(Tx(w), k)
    BY <1>1, LeftFacts DEF TargetsFollow
  <1>5. /\ writer'[w].pc = "clear" /\ writer'[w].why = "commit" /\ writer'[w].tx = Tx(w)
        /\ Others(w) /\ UNCHANGED <<target, marker, nextId>>
    BY <1>1, <1>4 DEF Complete, Others, VectorInv, TypeInv, WriterRecs, Tx
  <1>6. CalmWriter(w)' /\ At(w, "clear")' /\ Tx(w)' = Tx(w)
    BY <1>1, <1>5 DEF CalmWriter, At, Tx, Writing, Commits
  <1> QED
    BY <1>1, <1>2, <1>3, <1>5, <1>6, CalmAfter DEF Kinds

\* A target is replaced by the file on record.  An index that goes does not come
\* back: no record names it.
LEMMA CalmPut ==
  ASSUME VectorInv, CalmInv, NEW w \in Writers, Put(w)
  PROVE  CalmInv' /\ Moves
  <1>1. /\ At(w, "put") /\ ~ At(w, "idle") /\ Writing(w) /\ nextId \in Nat /\ TypeInv /\ Fresh
        /\ KnowsMarker(w) /\ CalmWriter(w) /\ TargetsFollow(w) /\ UNCHANGED <<marker, nextId>>
        /\ marker = Tx(w)
    BY DEF Put, At, Writing, VectorInv, TypeInv, WriterKnows, CalmInv, CalmWriter, KnowsMarker
  <1>2. \A v \in Writers \ {w} : At(v, "idle") /\ Tx(v) = NoMarker
    BY <1>1, OneAtWork DEF CalmInv, CalmWriter
  <1>3. PICK k \in Kinds :
          /\ k = Head(Todo(w)) /\ Left(Tail(Todo(w))) = Left(Todo(w)) \ {k}
          /\ k \in Left(Todo(w)) /\ Tx(w).out[k] # NoFile
          /\ target' \in Pairs /\ target'[k] = Tx(w).out[k]
          /\ \A j \in Kinds \ {k} : target'[j] = target[j]
          /\ To(w, "stage", Tx(w), Tail(Todo(w)), Why(w))
    BY PutDoes
  <1>4. /\ Tx(w)' = Tx(w) /\ Todo(w)' = Tail(Todo(w)) /\ At(w, "stage")' /\ Writing(w)'
        /\ Op(w)' = Op(w) /\ Others(w)
    BY <1>3 DEF To, Tx, Todo, At, Writing, Op
  <1>5. TargetsFollow(w)'
    BY <1>1, <1>3, <1>4 DEF TargetsFollow, Expected
  <1>6. \/ Op(w).kind = "open" \/ "metadata" \notin Left(Tail(Todo(w)))
    <2>1. Todo(w) = <<"metadata", "index">> => Head(Todo(w)) = "metadata"
      OBVIOUS
    <2>2. \/ Op(w).kind = "open" \/ "metadata" \notin Left(Todo(w))
          \/ Todo(w) = <<"metadata", "index">>
      BY <1>1 DEF CalmWriter, At
    <2> QED
      BY <1>3, <2>1, <2>2
  <1>7. CalmWriter(w)'
    BY <1>4, <1>5, <1>6 DEF CalmWriter, At
  <1>8. CASE k # "index"
    <2>1. target'["index"] = target["index"]
      BY <1>3, <1>8 DEF Kinds
    <2>2. "index" \in Left(Todo(w)) => ("index" \in Left(Todo(w)))'
      BY <1>3, <1>4, <1>8
    <2>3. \A v \in Writers \ {w} : At(v, "idle")
      BY <1>2
    <2>4. Writing(w) /\ "index" \in Left(Todo(w)) => (Writing(w) /\ "index" \in Left(Todo(w)))'
      BY <1>4, <2>2
    <2>5. Tx(w)'.out["index"] = Tx(w).out["index"] /\ nextId' \in Nat /\ nextId <= nextId'
      BY <1>1, <1>4
    <2>6. marker' # NoMarker => (Writing(w) \/ At(w, "clear"))'
      BY <1>4
    <2> QED
      BY <1>4, <1>7, <2>1, <2>3, <2>4, <2>5, <2>6, CalmAfter
  <1>9. CASE k = "index"
    <2>1. target'["index"] = Tx(w).out["index"] /\ target'["index"].id # target["index"].id
      BY <1>1, <1>3, <1>9 DEF TargetsFollow
    <2>2. ASSUME NEW i, i \in Nat \ {0}, i < nextId,
                 Tx(w).out["index"].id = i => Tx(w).out["index"] = target'["index"]
          PROVE  Recent(i)'
      <3>1. \A v \in Writers :
              Tx(v)'.out["index"].id = i => Tx(v)'.out["index"] = target'["index"]
        BY <1>2, <1>4, <2>2, NothingTyped DEF Others, Tx, Kinds
      <3> QED
        BY <1>1, <2>2, <3>1 DEF Recent
    <2>3. ASSUME NEW i, Recent(i)
          PROVE  Recent(i)' /\ (target'["index"].id = i => target'["index"] = target["index"])
      BY <2>1, <2>2, <2>3 DEF Recent
    <2>4. NewestIsRecent'
      <3>1. Tx(w).out["index"] \in RealFiles /\ Tx(w).out["index"].id < nextId
        BY <1>1, <1>3, <1>9, WriterTyped DEF Txs, Pairs, Fresh, FreshTx, Before, Kinds
      <3>2. Tx(w).out["index"].id \in Nat \ {0}
        BY <3>1 DEF RealFiles
      <3> QED
        BY <2>1, <2>2, <3>1, <3>2 DEF NewestIsRecent
    <2>5. \A v \in Writers : CalmWriter(v)'
      <3>1. ASSUME NEW v \in Writers, v # w PROVE CalmWriter(v)'
        BY <1>2, <1>4, <3>1 DEF CalmWriter, Writing, At, Others, Tx
      <3> QED
        BY <1>7, <3>1
    <2>6. MarkerIsHeld'
      BY <1>4 DEF MarkerIsHeld
    <2> QED
      BY <1>1, <2>1, <2>3, <2>4, <2>5, <2>6 DEF CalmInv, Moves
  <1> QED
    BY <1>8, <1>9

\* As long as nothing goes wrong, every step of the writers keeps it so.
LEMMA CalmStep ==
  ASSUME VectorInv, CalmInv, Calm, Calm', NEW w \in Writers,
         \/ WriterStep(w) \/ Fault(w) \/ LateFault(w) \/ Crash(w)
         \/ \E o \in Ops : Start(w, o)
  PROVE  CalmInv' /\ Moves
  <1>1. ~ (Fault(w) \/ LateFault(w) \/ Crash(w))
    BY DEF Calm, Fault, LateFault, Crash, Once, VectorInv, TypeInv, Counts
  <1>2. CalmWriter(w)
    BY DEF CalmInv
  <1>3. ~ (RestoreCheck(w) \/ RestoreStage(w) \/ RestorePut(w) \/ RestoreDelete(w)
            \/ RestoreDone(w))
    BY <1>2 DEF CalmWriter, RestoreCheck, RestoreStage, RestorePut, RestoreDelete, RestoreDone,
       At
  <1> QED
    BY <1>1, <1>3, CalmOutside, CalmCopy, CalmMark, CalmStage, CalmPut, CalmComplete
    DEF WriterStep

\* What is in place of a whole pair and of a completed part of a write agrees.
LEMMA WrittenIsWhole ==
  ASSUME VectorInv, Calm, NEW w \in Writers, At(w, "stage"), Todo(w) = << >>, TargetsFollow(w)
  PROVE  target["index"].val = target["metadata"].val
  <1>1. /\ KnowsMarker(w) /\ KnowsWrite(w) /\ MarkerIsGood /\ Op(w) \in Ops
        /\ \A k \in Kinds : Expected(Tx(w), k) # NoFile /\ target[k] = Expected(Tx(w), k)
    BY WriterTyped, LeftFacts DEF VectorInv, WriterKnows, TargetsFollow
  <1>2. Whole(Tx(w).orig) /\ Spotless(Tx(w).orig)
    BY <1>1 DEF KnowsMarker, MarkerIsGood, Undoable, At, VectorInv, Clean, Calm, SpotlessTx
  <1>3. StartsFrom(Op(w), Tx(w).orig)
    BY <1>1 DEF KnowsWrite, At
  <1>4. Tx(w).orig["index"].val = Tx(w).orig["metadata"].val
    BY <1>2 DEF Whole
  <1>5. \/ \A k \in Kinds : target[k] = Tx(w).orig[k]
        \/ \A k \in Kinds : target[k].val = Made(Op(w), Tx(w).orig[k])
    BY <1>1, LeftFacts DEF KnowsWrite, Expected, At
  <1> QED
    BY <1>1, <1>4, <1>5, MadeFacts DEF Kinds

\* What a reader finds at any moment is one pair, or a write is going to replace
\* the index.
LEMMA PairSeen ==
  ASSUME VectorInv, CalmInv, Calm
  PROVE  target["index"].val = target["metadata"].val \/ Replacing
  <1>0. Spotless(target)
    BY DEF VectorInv, Clean, Calm
  <1>1. CASE marker = NoMarker
    BY <1>0, <1>1 DEF VectorInv, RestIsWhole, Whole
  <1>2. ASSUME NEW w \in Writers, At(w, "clear")
        PROVE  target["index"].val = target["metadata"].val
    BY <1>0, <1>2, CommitIsWhole DEF CalmInv, CalmWriter
  <1>3. ASSUME NEW w \in Writers, Writing(w), ~ Replacing
        PROVE  target["index"].val = target["metadata"].val
    <2>1. /\ TargetsFollow(w) /\ "index" \notin Left(Todo(w)) /\ Todo(w) \in Todos
          /\ CalmWriter(w) /\ KnowsWrite(w) /\ KnowsMarker(w) /\ MarkerIsGood
      BY <1>3, WriterTyped DEF CalmInv, CalmWriter, Replacing, VectorInv, WriterKnows
    <2>2. CASE "metadata" \in Left(Todo(w))
      <3>1. Op(w).kind = "open"
        BY <1>3, <2>1, <2>2, LeftFacts DEF CalmWriter, Writing, Kinds
      <3>2. StartsFrom(Op(w), Tx(w).orig) /\ SpotlessTx(Tx(w))
        BY <1>3, <2>1 DEF KnowsWrite, Writing, VectorInv, Clean, Calm
      <3>3. \A k \in Kinds : Tx(w).orig[k] = NoFile
        BY <3>1, <3>2 DEF StartsFrom, SpotlessTx, Spotless
      <3>4. target["metadata"] = NoFile /\ target["index"] = Tx(w).out["index"]
            /\ Tx(w).out["index"] # NoFile
        BY <2>1, <2>2, <3>3 DEF TargetsFollow, Expected, Kinds
      <3>5. Tx(w).out["index"].val = Made(Op(w), Tx(w).orig["index"])
        BY <1>3, <2>1, <3>4 DEF KnowsWrite, Writing, Kinds
      <3>6. target["index"].val = {} /\ target["metadata"].val = {}
        BY <3>1, <3>4, <3>5, NothingTyped DEF Made
      <3> QED
        BY <3>6
    <2>3. CASE "metadata" \notin Left(Todo(w))
      <3>1. Left(Todo(w)) = {}
        BY <2>1, <2>3 DEF Left, Kinds
      <3>2. Todo(w) = << >>
        BY <2>1, <3>1, LeftAfter
      <3>3. At(w, "stage")
        BY <1>3, <2>1, <3>2 DEF Writing, KnowsWrite, At
      <3> QED
        BY <2>1, <3>2, <3>3, WrittenIsWhole
    <2> QED
      BY <2>2, <2>3
  <1> QED
    BY <1>1, <1>2, <1>3 DEF CalmInv, MarkerIsHeld

\* Where no marker is, no write is going to replace the index.
LEMMA NoMarkerNoWrite ==
  ASSUME VectorInv, marker = NoMarker
  PROVE  ~ Replacing
  BY DEF VectorInv, WriterKnows, KnowsMarker, Replacing, Writing

\* A search goes on to step pc with what it has read.
Reads(r, pc, meta, state, loaded, cache) ==
  /\ reader' \in [Readers -> ReaderRecs] /\ \A q \in Readers \ {r} : reader'[q] = reader[q]
  /\ reader'[r].pc = pc /\ reader'[r].meta = meta /\ reader'[r].state = state
  /\ reader'[r].loaded = loaded /\ reader'[r].cache = cache

\* Each way the actions write the state of a reader.
LEMMA ReadsHolds ==
  ASSUME ReadersTyped, NEW r \in Readers, NEW pc \in ReaderPcs,
         NEW f \in RealFiles \cup {NoFile}, NEW key \in Keys
  PROVE  LET x == reader[r] IN
         /\ ReaderGoto(r, pc) => Reads(r, pc, x.meta, x.state, x.loaded, x.cache)
         /\ reader' = [reader EXCEPT ![r].pc = pc, ![r].meta = f]
              => Reads(r, pc, f, x.state, x.loaded, x.cache)
         /\ reader' = [reader EXCEPT ![r].pc = pc, ![r].state = f]
              => Reads(r, pc, x.meta, f, x.loaded, x.cache)
         /\ reader' = [reader EXCEPT ![r].pc = pc, ![r].loaded = f]
              => Reads(r, pc, x.meta, x.state, f, x.cache)
         /\ reader' = [reader EXCEPT ![r].pc = pc, ![r].cache = key]
              => Reads(r, pc, x.meta, x.state, x.loaded, key)
         /\ Reject(r) => Reads(r, "idle", NoFile, NoFile, NoFile, << >>)
         /\ reader' = [reader EXCEPT ![r] = [IdleReader EXCEPT !.cache = reader[r].cache]]
              => Reads(r, "idle", NoFile, NoFile, NoFile, x.cache)
  <1>0. reader \in [Readers -> ReaderRecs] /\ reader[r] \in ReaderRecs
    BY DEF ReadersTyped
  <1> DEFINE g == [reader EXCEPT ![r].pc = pc]
             x == reader[r]
             Is(h, m, t, l, c) == /\ h \in [Readers -> ReaderRecs]
                                  /\ \A q \in Readers \ {r} : h[q] = reader[q]
                                  /\ h[r].pc = pc /\ h[r].meta = m /\ h[r].state = t
                                  /\ h[r].loaded = l /\ h[r].cache = c
  <1>1. Is(g, x.meta, x.state, x.loaded, x.cache)
    BY <1>0 DEF ReaderRecs
  <1>2. \A h, m, t, l, c : reader' = h /\ Is(h, m, t, l, c) => Reads(r, pc, m, t, l, c)
    BY DEF Reads
  <1> HIDE DEF g
  <1>3. Is([g EXCEPT ![r].meta = f], f, x.state, x.loaded, x.cache)
    BY <1>1 DEF ReaderRecs
  <1>4. Is([g EXCEPT ![r].state = f], x.meta, f, x.loaded, x.cache)
    BY <1>1 DEF ReaderRecs
  <1>5. Is([g EXCEPT ![r].loaded = f], x.meta, x.state, f, x.cache)
    BY <1>1 DEF ReaderRecs
  <1>9. Is([g EXCEPT ![r].cache = key], x.meta, x.state, x.loaded, key)
    BY <1>1 DEF ReaderRecs
  <1>6. IdleReader \in ReaderRecs
    BY DEF IdleReader, ReaderRecs, ReaderPcs
  <1>7. Reject(r) => Reads(r, "idle", NoFile, NoFile, NoFile, << >>)
    BY <1>0, <1>6 DEF Reject, Reads, IdleReader
  <1>8. reader' = [reader EXCEPT ![r] = [IdleReader EXCEPT !.cache = reader[r].cache]]
          => Reads(r, "idle", NoFile, NoFile, NoFile, reader[r].cache)
    <2>1. [IdleReader EXCEPT !.cache = reader[r].cache] \in ReaderRecs
      BY <1>0, <1>6 DEF ReaderRecs
    <2> QED
      BY <1>0, <2>1 DEF Reads, IdleReader
  <1> HIDE DEF Is
  <1> QED
    BY <1>1, <1>2, <1>3, <1>4, <1>5, <1>7, <1>8, <1>9 DEF ReaderGoto, g

\* What is read is of its type.
LEMMA ReadTyped ==
  ASSUME VectorInv, ReadersTyped, NEW r \in Readers
  PROVE  /\ \A k \in Kinds : target[k] \in RealFiles \cup {NoFile}
         /\ Key(r) \in Keys /\ Key(r) # << >>
         /\ Key(r)[1] = reader[r].state.id /\ Key(r)[2][1] = reader[r].meta.val
  <1>1. /\ reader[r].state \in RealFiles \cup {NoFile}
        /\ reader[r].meta \in RealFiles \cup {NoFile}
    BY DEF ReadersTyped, ReaderRecs
  <1>2. \A f \in RealFiles \cup {NoFile} :
          /\ f.id \in Nat /\ f.val \in SUBSET (Labels \cup {Alien})
          /\ f.schema \in {"none", "legacy", "v2"}
    BY NothingTyped DEF RealFiles
  <1>3. Key(r) \in Keys
    BY <1>1, <1>2 DEF Key, Bytes, Keys
  <1>4. \A k \in Kinds : target[k] \in RealFiles \cup {NoFile}
    BY DEF VectorInv, TypeInv, Pairs
  <1> QED
    BY <1>3, <1>4 DEF Key, Bytes

\* What a step of a reader leaves alone.
Aside == UNCHANGED <<target, marker, writer, nextId>>

\* The facts about the writers and the files stay with them.
LEMMA AsideStays ==
  ASSUME Aside
  PROVE  /\ \A i : Recent(i)' <=> Recent(i)
         /\ Replacing' <=> Replacing
         /\ CalmInv => CalmInv'
  <1>1. \A i : Recent(i)' <=> Recent(i)
    BY DEF Aside, Recent, Tx
  <1>2. Replacing' <=> Replacing
    BY DEF Aside, Replacing, Writing, Todo
  <1>3. \A w \in Writers : CalmWriter(w) => CalmWriter(w)'
    BY DEF Aside, CalmWriter, Writing, At, Tx, Todo, Op, Commits, TargetsFollow, Expected
  <1>4. MarkerIsHeld => MarkerIsHeld'
    BY DEF Aside, MarkerIsHeld, Writing, At
  <1>5. NewestIsRecent => NewestIsRecent'
    BY <1>1 DEF Aside, NewestIsRecent
  <1> QED
    BY <1>1, <1>2, <1>3, <1>4, <1>5 DEF CalmInv

\* The step of one reader keeps what it knows, and its first answer.
Keeps(r) ==
  /\ reader' \in [Readers -> ReaderRecs] /\ \A q \in Readers \ {r} : reader'[q] = reader[q]
  /\ FirstKnows(r)'
  /\ Calm /\ CalmInv => ReaderKnows(r)'

\* A search that is refused knows nothing.
LEMMA RejectKeeps ==
  ASSUME ReadersTyped, NEW r \in Readers, Reject(r)
  PROVE  Keeps(r)
  <1>1. Reads(r, "idle", NoFile, NoFile, NoFile, << >>)
    <2>1. "idle" \in ReaderPcs /\ NoFile \in RealFiles \cup {NoFile}
      BY DEF ReaderPcs
    <2>2. \E key : key \in Keys
      <3>1. <<0, <<{}, "none">>>> \in Keys
        BY DEF Keys
      <3> QED
        BY <3>1
    <2> QED
      BY <2>1, <2>2, ReadsHolds
  <1> QED
    BY <1>1 DEF Reads, Keeps, FirstKnows, ReaderKnows, KnowsPair, KnowsCache, KnowsAnswer,
       HasState, HasPair

\* The loader reads mapping, state and index.
LEMMA LoadingKeeps ==
  ASSUME VectorInv, ReaderInv, NEW r \in Readers, Aside, UNCHANGED count,
         ReadMeta(r) \/ ReadState(r) \/ LoadIndex(r) \/ SameState(r) \/ SameMeta(r)
           \/ AcceptLoad(r)
  PROVE  Keeps(r)
  <1>0. /\ ReadersTyped /\ FirstKnows(r)
        /\ \A k \in Kinds : target[k] \in RealFiles \cup {NoFile}
        /\ {"state", "load", "same", "sameMeta", "published", "loaded"} \subseteq ReaderPcs
        /\ Key(r) \in Keys /\ "index" \in Kinds /\ "metadata" \in Kinds
        /\ Calm /\ CalmInv => ReaderKnows(r)
    BY ReadTyped DEF ReaderInv, ReaderPcs, Kinds
  <1>1. CASE Reject(r)
    BY <1>0, <1>1, RejectKeeps
  <1>2. ASSUME NEW p \in {"state", "load", "sameMeta", "published", "loaded"},
               reader[r].pc \notin {"idle", "recheck", "answered"} \cup HasState,
               reader'[r].pc = p,
               reader' \in [Readers -> ReaderRecs],
               \A q \in Readers \ {r} : reader'[q] = reader[q],
               reader'[r].cache = reader[r].cache,
               p \in {"sameMeta", "published", "loaded"} =>
                 /\ reader[r].pc \in {"same", "sameMeta", "published"}
                 /\ reader'[r].loaded = reader[r].loaded
        PROVE  Keeps(r)
    <2>1. FirstKnows(r)'
      BY <1>0, <1>2 DEF FirstKnows
    <2>2. ASSUME Calm, CalmInv PROVE ReaderKnows(r)'
      <3>1. KnowsPair(r)' /\ KnowsAnswer(r)'
        BY <1>2 DEF KnowsPair, KnowsAnswer, HasState, HasPair
      <3>2. KnowsCache(r)'
        BY <1>0, <1>2, <2>2, AsideStays DEF ReaderKnows, KnowsCache, Aside, HasState
      <3> QED
        BY <3>1, <3>2 DEF ReaderKnows
    <2> QED
      BY <1>2, <2>1, <2>2 DEF Keeps
  <1>3. CASE ReadMeta(r) /\ ~ Reject(r)
    <2>1. reader[r].pc = "meta"
          /\ Reads(r, "state", target["metadata"], reader[r].state, reader[r].loaded,
                   reader[r].cache)
      BY <1>0, <1>3, ReadsHolds DEF ReadMeta, ReaderStep
    <2> QED
      BY <1>2, <2>1 DEF Reads, HasState
  <1>4. CASE ReadState(r) /\ ~ Reject(r)
    <2>1. reader[r].pc = "state"
          /\ Reads(r, "load", reader[r].meta, target["index"], reader[r].loaded,
                   reader[r].cache)
      BY <1>0, <1>4, ReadsHolds DEF ReadState, ReaderStep
    <2> QED
      BY <1>2, <2>1 DEF Reads, HasState
  <1>5. CASE LoadIndex(r) /\ ~ Reject(r)
    <2>1. reader[r].pc = "load"
          /\ Reads(r, "same", reader[r].meta, reader[r].state, target["index"],
                   reader[r].cache)
      BY <1>0, <1>5, ReadsHolds DEF LoadIndex, ReaderStep
    <2>2. FirstKnows(r)'
      BY <1>0, <2>1 DEF FirstKnows, Reads
    <2>3. ASSUME Calm, CalmInv PROVE ReaderKnows(r)'
      <3>1. KnowsPair(r)' /\ KnowsAnswer(r)'
        BY <2>1 DEF KnowsPair, KnowsAnswer, HasState, HasPair, Reads
      <3>2. KnowsCache(r)'
        BY <1>0, <2>1, <2>3, AsideStays DEF ReaderKnows, KnowsCache, Aside, HasState, Reads
      <3> QED
        BY <3>1, <3>2 DEF ReaderKnows
    <2> QED
      BY <2>1, <2>2, <2>3 DEF Keeps, Reads
  <1>6. CASE (SameState(r) \/ SameMeta(r) \/ AcceptLoad(r)) /\ ~ Reject(r)
    <2>1. \E p \in {"sameMeta", "published", "loaded"} :
            /\ reader[r].pc \in {"same", "sameMeta", "published"}
            /\ Reads(r, p, reader[r].meta, reader[r].state, reader[r].loaded, reader[r].cache)
      BY <1>0, <1>6, ReadsHolds DEF SameState, SameMeta, AcceptLoad, ReaderStep
    <2> QED
      BY <1>2, <2>1 DEF Reads, HasState
  <1> QED
    BY <1>1, <1>3, <1>4, <1>5, <1>6

\* The search takes its own state and mapping, and compares them with the disk.
LEMMA SnapKeeps ==
  ASSUME VectorInv, ReaderInv, NEW r \in Readers, Aside, UNCHANGED count,
         SnapState(r) \/ SnapMeta(r) \/ SnapSame(r) \/ SnapFinal(r) \/ SnapPublished(r)
  PROVE  Keeps(r)
  <1>0. /\ ReadersTyped /\ FirstKnows(r)
        /\ \A k \in Kinds : target[k] \in RealFiles \cup {NoFile}
        /\ {"snapMeta", "snapSame", "snapFinal", "snapPublished", "probe"} \subseteq ReaderPcs
        /\ Key(r) \in Keys /\ "index" \in Kinds /\ "metadata" \in Kinds
        /\ Calm /\ CalmInv => ReaderKnows(r)
    BY ReadTyped DEF ReaderInv, ReaderPcs, Kinds
  <1>1. CASE Reject(r)
    BY <1>0, <1>1, RejectKeeps
  <1>2. CASE SnapState(r) /\ ~ Reject(r)
    <2>1. /\ reader[r].pc = "loaded" /\ target["index"] # NoFile
          /\ Reads(r, "snapMeta", reader[r].meta, target["index"], reader[r].loaded,
                   reader[r].cache)
      BY <1>0, <1>2, ReadsHolds DEF SnapState, ReaderStep, Present
    <2>2. FirstKnows(r)'
      BY <1>0, <2>1 DEF FirstKnows, Reads
    <2>3. ASSUME Calm, CalmInv PROVE ReaderKnows(r)'
      <3>1. KnowsPair(r)' /\ KnowsAnswer(r)'
        BY <2>1, <2>3, AsideStays
        DEF CalmInv, NewestIsRecent, KnowsPair, KnowsAnswer, HasState, HasPair, Reads
      <3>2. KnowsCache(r)'
        BY <1>0, <2>1, <2>3, AsideStays DEF ReaderKnows, KnowsCache, Aside, HasState, Reads
      <3> QED
        BY <3>1, <3>2 DEF ReaderKnows
    <2> QED
      BY <2>1, <2>2, <2>3 DEF Keeps, Reads
  <1>3. CASE SnapMeta(r) /\ ~ Reject(r)
    <2>1. /\ reader[r].pc = "snapMeta"
          /\ Reads(r, "snapSame", target["metadata"], reader[r].state, reader[r].loaded,
                   reader[r].cache)
      BY <1>0, <1>3, ReadsHolds DEF SnapMeta, ReaderStep
    <2>2. FirstKnows(r)'
      BY <1>0, <2>1 DEF FirstKnows, Reads
    <2>3. ASSUME Calm, CalmInv PROVE ReaderKnows(r)'
      <3>1. KnowsPair(r)' /\ KnowsAnswer(r)'
        BY <1>0, <2>1, <2>3, AsideStays, PairSeen
        DEF ReaderKnows, KnowsPair, KnowsAnswer, HasState, HasPair, Reads, Aside
      <3>2. KnowsCache(r)'
        BY <1>0, <2>1, <2>3, AsideStays DEF ReaderKnows, KnowsCache, Aside, HasState, Reads
      <3> QED
        BY <3>1, <3>2 DEF ReaderKnows
    <2> QED
      BY <2>1, <2>2, <2>3 DEF Keeps, Reads
  <1>4. CASE (SnapSame(r) \/ SnapFinal(r) \/ SnapPublished(r)) /\ ~ Reject(r)
    <2>1. PICK p \in {"snapFinal", "snapPublished", "probe"} :
            /\ reader[r].pc \in {"snapSame", "snapFinal", "snapPublished"}
            /\ p = "probe" => marker = NoMarker
            /\ Reads(r, p, reader[r].meta, reader[r].state, reader[r].loaded, reader[r].cache)
      BY <1>0, <1>4, ReadsHolds DEF SnapSame, SnapFinal, SnapPublished, ReaderStep, Published
    <2>2. FirstKnows(r)'
      BY <1>0, <2>1 DEF FirstKnows, Reads
    <2>3. ASSUME Calm, CalmInv PROVE ReaderKnows(r)'
      <3>1. KnowsPair(r)' /\ KnowsAnswer(r)'
        BY <1>0, <2>1, <2>3, AsideStays, NoMarkerNoWrite
        DEF ReaderKnows, KnowsPair, KnowsAnswer, HasState, HasPair, Reads, Aside
      <3>2. KnowsCache(r)'
        BY <1>0, <2>1, <2>3, AsideStays DEF ReaderKnows, KnowsCache, Aside, HasState, Reads
      <3> QED
        BY <3>1, <3>2 DEF ReaderKnows
    <2> QED
      BY <2>1, <2>2, <2>3 DEF Keeps, Reads
  <1> QED
    BY <1>1, <1>2, <1>3, <1>4

\* An index seen for the first time is probed for every label; one that the cache
\* names is the one that was.
LEMMA ProbeKeeps ==
  ASSUME VectorInv, ReaderInv, NEW r \in Readers, Aside, UNCHANGED count, Probe(r)
  PROVE  Keeps(r)
  <1>0. /\ ReadersTyped /\ FirstKnows(r)
        /\ \A p \in {"recheck", "answered"} : p \in ReaderPcs
        /\ Key(r) \in Keys /\ Key(r) # << >> /\ NoFile \in RealFiles \cup {NoFile}
        /\ Key(r)[1] = reader[r].state.id /\ Key(r)[2][1] = reader[r].meta.val
        /\ reader[r].pc = "probe" /\ Calm /\ CalmInv => ReaderKnows(r)
    BY ReadTyped DEF ReaderInv, ReaderPcs
  <1>1. reader[r].pc = "probe"
    BY DEF Probe, ReaderStep
  <1>2. CASE Reject(r)
    BY <1>0, <1>2, RejectKeeps
  <1>3. CASE ReaderGoto(r, "recheck") /\ reader[r].loaded.val = reader[r].meta.val
    <2>1. Reads(r, "recheck", reader[r].meta, reader[r].state, reader[r].loaded,
                reader[r].cache)
      BY <1>0, <1>3, ReadsHolds
    <2>2. FirstKnows(r)'
      BY <1>0, <1>1, <1>3, <2>1 DEF FirstKnows, Reads
    <2>3. ASSUME Calm, CalmInv PROVE ReaderKnows(r)'
      <3>1. KnowsPair(r)' /\ KnowsAnswer(r)'
        BY <1>0, <1>1, <1>3, <2>1, <2>3, AsideStays
        DEF ReaderKnows, KnowsPair, KnowsAnswer, HasState, HasPair, Reads, Aside
      <3>2. KnowsCache(r)'
        BY <1>0, <1>1, <2>1, <2>3, AsideStays
        DEF ReaderKnows, KnowsCache, Aside, HasState, Reads
      <3> QED
        BY <3>1, <3>2 DEF ReaderKnows
    <2> QED
      BY <2>1, <2>2, <2>3 DEF Keeps, Reads
  <1>4. CASE ReaderGoto(r, "answered") /\ CacheHit(r)
    <2>1. /\ Reads(r, "answered", reader[r].meta, reader[r].state, reader[r].loaded,
                   reader[r].cache)
          /\ reader[r].cache = Key(r) /\ reader[r].cache # << >>
      BY <1>0, <1>4, ReadsHolds DEF CacheHit
    <2>2. FirstKnows(r)'
      BY <1>0, <1>1, <2>1 DEF FirstKnows, Reads
    <2>3. ASSUME Calm, CalmInv PROVE ReaderKnows(r)'
      <3>1. reader[r].loaded.val = reader[r].meta.val
        BY <1>0, <1>1, <2>1, <2>3 DEF ReaderKnows, KnowsCache, HasState
      <3>2. KnowsPair(r)' /\ KnowsAnswer(r)'
        BY <2>1, <3>1 DEF KnowsPair, KnowsAnswer, HasState, HasPair, Reads
      <3>3. KnowsCache(r)'
        BY <1>0, <1>1, <2>1, <2>3, AsideStays
        DEF ReaderKnows, KnowsCache, Aside, HasState, Reads
      <3> QED
        BY <3>2, <3>3 DEF ReaderKnows
    <2> QED
      BY <2>1, <2>2, <2>3 DEF Keeps, Reads
  <1> QED
    BY <1>2, <1>3, <1>4 DEF Probe

\* The state is still in place: the key is that of one pair.
LEMMA RecheckKeeps ==
  ASSUME VectorInv, ReaderInv, NEW r \in Readers, Aside, UNCHANGED count, Recheck(r)
  PROVE  Keeps(r)
  <1>0. /\ ReadersTyped /\ FirstKnows(r) /\ "answered" \in ReaderPcs
        /\ Key(r) \in Keys /\ Key(r) # << >> /\ NoFile \in RealFiles \cup {NoFile}
        /\ Key(r)[1] = reader[r].state.id /\ Key(r)[2][1] = reader[r].meta.val
        /\ Calm /\ CalmInv => ReaderKnows(r)
    BY ReadTyped DEF ReaderInv, ReaderPcs
  <1>1. reader[r].pc = "recheck"
    BY DEF Recheck, ReaderStep
  <1>2. CASE Reject(r)
    BY <1>0, <1>2, RejectKeeps
  <1>3. CASE ~ Reject(r)
    <2>1. /\ target["index"] = reader[r].state
          /\ Reads(r, "answered", reader[r].meta, reader[r].state, reader[r].loaded, Key(r))
      BY <1>0, <1>3, ReadsHolds DEF Recheck
    <2>2. FirstKnows(r)'
      BY <1>0, <1>1, <2>1 DEF FirstKnows, Reads
    <2>3. ASSUME Calm, CalmInv PROVE ReaderKnows(r)'
      <3>1. /\ Recent(reader[r].state.id) /\ reader[r].state.val = reader[r].meta.val
            /\ reader[r].loaded.val = reader[r].meta.val
        BY <1>0, <1>1, <2>1, <2>3 DEF ReaderKnows, KnowsPair, KnowsAnswer, HasPair, HasState
      <3>2. KnowsPair(r)' /\ KnowsAnswer(r)'
        BY <2>1, <3>1 DEF KnowsPair, KnowsAnswer, HasState, HasPair, Reads
      <3>3. KnowsCache(r)'
        BY <1>0, <2>1, <3>1, AsideStays DEF KnowsCache, Aside, HasState, Reads
      <3> QED
        BY <3>2, <3>3 DEF ReaderKnows
    <2> QED
      BY <2>1, <2>2, <2>3 DEF Keeps, Reads
  <1> QED
    BY <1>2, <1>3

\* The answer is given, and the key stays.
LEMMA AnswerKeeps ==
  ASSUME VectorInv, ReaderInv, NEW r \in Readers, Aside, UNCHANGED count, Answer(r)
  PROVE  Keeps(r)
  <1>0. /\ ReadersTyped /\ FirstKnows(r) /\ "idle" \in ReaderPcs /\ Key(r) \in Keys
        /\ NoFile \in RealFiles \cup {NoFile}
        /\ Calm /\ CalmInv => ReaderKnows(r)
    BY ReadTyped DEF ReaderInv, ReaderPcs
  <1>1. /\ reader[r].pc = "answered"
        /\ Reads(r, "idle", NoFile, NoFile, NoFile, reader[r].cache)
    BY <1>0, ReadsHolds DEF Answer, ReaderStep
  <1>2. FirstKnows(r)'
    BY <1>0, <1>1 DEF FirstKnows, Reads
  <1>3. ASSUME Calm, CalmInv PROVE ReaderKnows(r)'
    <2>1. KnowsPair(r)' /\ KnowsAnswer(r)'
      BY <1>1 DEF KnowsPair, KnowsAnswer, HasState, HasPair, Reads
    <2>2. KnowsCache(r)'
      BY <1>0, <1>1, <1>3, AsideStays DEF ReaderKnows, KnowsCache, Aside, HasState, Reads
    <2> QED
      BY <2>1, <2>2 DEF ReaderKnows
  <1> QED
    BY <1>1, <1>2, <1>3 DEF Keeps, Reads

\* A reader that does not move goes on to know what it knew.
LEMMA OthersRead ==
  ASSUME NEW q \in Readers, reader'[q] = reader[q], Aside, ReaderKnows(q)
  PROVE  ReaderKnows(q)'
  <1>1. KnowsPair(q)'
    BY AsideStays DEF ReaderKnows, KnowsPair, Aside
  <1>2. KnowsCache(q)'
    BY AsideStays DEF ReaderKnows, KnowsCache, Aside
  <1>3. KnowsAnswer(q)'
    BY DEF ReaderKnows, KnowsAnswer
  <1> QED
    BY <1>1, <1>2, <1>3 DEF ReaderKnows

\* Every step of a search keeps the invariant.
LEMMA SearchingKeeps ==
  ASSUME VectorInv, ReaderInv, NEW r \in Readers, Searching(r)
  PROVE  ReaderInv'
  <1>1. Aside /\ UNCHANGED count
    BY DEF Searching, ReaderStep, Aside, ReadMeta, ReadState, LoadIndex, SameState, SameMeta,
       AcceptLoad, SnapState, SnapMeta, SnapSame, SnapFinal, SnapPublished, Probe, Recheck,
       Answer
  <1>2. Keeps(r)
    BY <1>1, LoadingKeeps, SnapKeeps, ProbeKeeps, RecheckKeeps, AnswerKeeps DEF Searching
  <1>3. Calm' <=> Calm
    BY <1>1 DEF Calm
  <1>4. ASSUME NEW q \in Readers PROVE FirstKnows(q)'
    <2>1. CASE q # r
      BY <1>1, <1>2, <2>1 DEF Keeps, FirstKnows, ReaderInv
    <2> QED
      BY <1>2, <2>1 DEF Keeps
  <1>5. ASSUME Calm, NEW q \in Readers PROVE ReaderKnows(q)'
    <2>1. CASE q # r
      BY <1>1, <1>2, <1>5, <2>1, OthersRead DEF Keeps, ReaderInv
    <2> QED
      BY <1>2, <1>5, <2>1 DEF Keeps, ReaderInv
  <1>6. Calm => CalmInv'
    BY <1>1, AsideStays DEF ReaderInv
  <1> QED
    BY <1>2, <1>3, <1>4, <1>5, <1>6 DEF ReaderInv, ReadersTyped, Keeps

\* A search begins: the first one with an empty cache.
LEMMA SearchKeeps ==
  ASSUME VectorInv, ReaderInv, NEW r \in Readers, Search(r)
  PROVE  ReaderInv'
  <1>0. /\ ReadersTyped /\ "meta" \in ReaderPcs /\ Key(r) \in Keys
        /\ NoFile \in RealFiles \cup {NoFile} /\ count \in Counts
        /\ \A q \in Readers : FirstKnows(q)
    BY ReadTyped DEF ReaderInv, ReaderPcs, VectorInv, TypeInv
  <1>1. /\ reader[r].pc = "idle" /\ Aside /\ count'.searches = count.searches + 1
        /\ (Calm' <=> Calm)
    BY <1>0 DEF Search, ReaderStep, Aside, Once, Counts, Calm
  <1>2. /\ reader' \in [Readers -> ReaderRecs]
        /\ \A q \in Readers \ {r} : reader'[q] = reader[q]
        /\ reader'[r].pc \in {"idle", "meta"}
        /\ reader'[r].cache \in {reader[r].cache, << >>}
    <2>1. CASE ReaderGoto(r, "meta")
      BY <1>0, <2>1, ReadsHolds DEF Reads
    <2>2. CASE Reject(r)
      <3>1. Reads(r, "idle", NoFile, NoFile, NoFile, << >>)
        BY <1>0, <2>2, ReadsHolds
      <3> QED
        BY <3>1 DEF Reads
    <2> QED
      BY <2>1, <2>2 DEF Search
  <1>3. ASSUME NEW q \in Readers PROVE FirstKnows(q)'
    <2>1. count.searches \in Nat
      BY <1>0 DEF Counts
    <2>2. /\ count'.searches # 0
          /\ count'.searches = 1 => count.searches = 0
      BY <1>1, <2>1
    <2>3. CASE q = r
      BY <1>0, <1>2, <2>2, <2>3 DEF FirstKnows
    <2>4. CASE q # r
      BY <1>0, <1>2, <2>2, <2>4 DEF FirstKnows
    <2> QED
      BY <2>3, <2>4
  <1>4. ASSUME Calm, NEW q \in Readers PROVE ReaderKnows(q)'
    <2>0. ReaderKnows(q)
      BY <1>4 DEF ReaderInv
    <2>1. CASE q # r
      BY <1>1, <1>2, <2>0, <2>1, OthersRead
    <2>2. CASE q = r
      <3>1. KnowsPair(r)' /\ KnowsAnswer(r)'
        BY <1>2 DEF KnowsPair, KnowsAnswer, HasState, HasPair
      <3>2. KnowsCache(r)'
        BY <1>1, <1>2, <2>0, <2>2, AsideStays DEF ReaderKnows, KnowsCache, Aside, HasState
      <3> QED
        BY <2>2, <3>1, <3>2 DEF ReaderKnows
    <2> QED
      BY <2>1, <2>2
  <1>5. Calm => CalmInv'
    BY <1>1, AsideStays DEF ReaderInv
  <1> QED
    BY <1>1, <1>2, <1>3, <1>4, <1>5 DEF ReaderInv, ReadersTyped

\* What the steps of the writers leave of a reader's knowledge.
LEMMA MovesKeep ==
  ASSUME Moves, NEW q \in Readers, UNCHANGED reader, ReaderKnows(q)
  PROVE  ReaderKnows(q)'
  <1>1. KnowsPair(q)'
    BY DEF ReaderKnows, KnowsPair, Moves, HasPair, HasState
  <1>2. KnowsCache(q)'
    BY DEF ReaderKnows, KnowsCache, Moves
  <1>3. KnowsAnswer(q)'
    BY DEF ReaderKnows, KnowsAnswer
  <1> QED
    BY <1>1, <1>2, <1>3 DEF ReaderKnows

\* What the writers and an outside tool leave alone.
LEMMA WritersDo ==
  ASSUME VectorInv,
         \/ \E w \in Writers : \/ WriterStep(w) \/ Fault(w) \/ LateFault(w) \/ Crash(w)
                               \/ \E o \in Ops : Start(w, o)
         \/ \E k \in Kinds : Foreign(k)
  PROVE  /\ UNCHANGED reader /\ count'.searches = count.searches
         /\ Calm' => Calm
  <1>0. count \in Counts
    BY DEF VectorInv, TypeInv
  <1>1. ASSUME NEW w \in Writers, WriterStep(w) PROVE UNCHANGED <<reader, count>>
    BY <1>1 DEF WriterStep, Finish, Recover, RestoreCheck, RestoreStage, RestorePut,
       RestoreDelete, RestoreDone, Clear, Sweep, Load, Migrate, Copy, Mark, Stage, Put, Complete
  <1>2. ASSUME NEW w \in Writers, NEW o \in Ops, Start(w, o)
        PROVE  /\ UNCHANGED reader /\ count'.searches = count.searches /\ (Calm' => Calm)
    BY <1>0, <1>2 DEF Start, Once, Counts, Calm
  <1>3. ASSUME NEW w \in Writers, Fault(w) \/ LateFault(w) \/ Crash(w)
        PROVE  /\ UNCHANGED reader /\ count'.searches = count.searches /\ ~ Calm'
    <2>1. /\ UNCHANGED reader
          /\ Once("faults") \/ Once("crashes")
      BY <1>3 DEF Fault, LateFault, Crash
    <2> QED
      BY <1>0, <2>1 DEF Once, Counts, Calm
  <1>4. ASSUME NEW k \in Kinds, Foreign(k)
        PROVE  /\ UNCHANGED reader /\ count'.searches = count.searches /\ ~ Calm'
    BY <1>0, <1>4 DEF Foreign, Once, Counts, Calm
  <1> QED
    BY <1>1, <1>2, <1>3, <1>4 DEF Calm

\* Every step keeps the invariant of the searches.
LEMMA SearchStep ==
  ASSUME VectorInv, ReaderInv, [Next]_vars
  PROVE  ReaderInv'
  <1>1. ASSUME NEW r \in Readers, Search(r) \/ Searching(r) PROVE ReaderInv'
    BY <1>1, SearchKeeps, SearchingKeeps
  <1>2. ASSUME \/ \E w \in Writers : \/ WriterStep(w) \/ Fault(w) \/ LateFault(w) \/ Crash(w)
                                     \/ \E o \in Ops : Start(w, o)
               \/ \E k \in Kinds : Foreign(k)
        PROVE  ReaderInv'
    <2>1. UNCHANGED reader /\ count'.searches = count.searches /\ (Calm' => Calm)
      BY <1>2, WritersDo
    <2>2. ReadersTyped' /\ \A r \in Readers : FirstKnows(r)'
      BY <2>1 DEF ReaderInv, ReadersTyped, FirstKnows
    <2>3. ASSUME Calm' PROVE CalmInv' /\ Moves
      <3>1. Calm /\ CalmInv
        BY <2>1, <2>3 DEF ReaderInv
      <3>2. ~ \E k \in Kinds : Foreign(k)
        BY <2>3, <3>1 DEF Calm, Foreign, Once, VectorInv, TypeInv, Counts
      <3> QED
        BY <1>2, <2>3, <3>1, <3>2, CalmStep
    <2>4. ASSUME Calm', NEW r \in Readers PROVE ReaderKnows(r)'
      BY <2>1, <2>3, <2>4, MovesKeep DEF ReaderInv
    <2> QED
      BY <2>2, <2>3, <2>4 DEF ReaderInv
  <1>3. CASE UNCHANGED vars
    <2>1. Aside /\ UNCHANGED <<reader, count>>
      BY <1>3 DEF vars, Aside
    <2>2. \A r \in Readers : ReaderKnows(r) => ReaderKnows(r)'
      BY <2>1, OthersRead
    <2>3. ReadersTyped' /\ \A r \in Readers : FirstKnows(r)'
      BY <2>1 DEF ReaderInv, ReadersTyped, FirstKnows
    <2> QED
      BY <2>1, <2>2, <2>3, AsideStays DEF ReaderInv, Calm
  <1> QED
    BY <1>1, <1>2, <1>3 DEF Next

\* At first no search has begun and no writer is at work.
LEMMA SearchInit ==
  ASSUME Init
  PROVE  ReaderInv
  <1>1. DownWriter.pc = "idle" /\ DownWriter.tx = NoMarker
    BY DEF DownWriter
  <1>2. /\ IdleReader \in ReaderRecs /\ IdleReader.pc = "idle" /\ IdleReader.cache = << >>
    BY DEF IdleReader, ReaderRecs, ReaderPcs
  <1>3. ReadersTyped /\ \A r \in Readers : FirstKnows(r) /\ ReaderKnows(r)
    BY <1>2 DEF Init, ReadersTyped, FirstKnows, ReaderKnows, KnowsPair, KnowsCache,
       KnowsAnswer, HasState, HasPair
  <1>4. \A w \in Writers : CalmWriter(w)
    BY <1>1 DEF Init, CalmWriter, At, Writing, Tx
  <1>5. MarkerIsHeld /\ NewestIsRecent
    <2>1. target["index"] = NoFile \/ target["index"].id = 1
      BY NothingTyped DEF Init, Kinds
    <2>2. \A w \in Writers : Tx(w).out["index"].id = 0
      BY <1>1, NothingTyped DEF Init, Tx, Kinds
    <2> QED
      BY <2>1, <2>2 DEF Init, MarkerIsHeld, NewestIsRecent, Recent
  <1> QED
    BY <1>3, <1>4, <1>5 DEF ReaderInv, CalmInv

\* A search answers from an index and a mapping that name the same labels: always as
\* long as no write has been undone, because no index comes back and a mapping seen
\* half way belongs to a write that replaces the index; and in any case the first
\* search, which meets an empty cache.
THEOREM SearchAnswersOnePairHolds == Spec => []SearchAnswersOnePair
  <1>1. Init => VectorInv /\ ReaderInv
    BY InitHolds, SearchInit
  <1>2. VectorInv /\ ReaderInv /\ [Next]_vars => (VectorInv /\ ReaderInv)'
    BY StepKeeps, SearchStep
  <1>3. VectorInv /\ ReaderInv => SearchAnswersOnePair
    <2>1. ASSUME ReaderInv, Calm PROVE SearchAnswersOnePair
      BY <2>1 DEF ReaderInv, ReaderKnows, KnowsAnswer, SearchAnswersOnePair
    <2>2. ASSUME VectorInv, ReaderInv, count.searches <= 1 PROVE SearchAnswersOnePair
      <3>1. count.searches \in {0, 1}
        BY <2>2 DEF VectorInv, TypeInv, Counts
      <3> QED
        BY <2>2, <3>1 DEF ReaderInv, FirstKnows, SearchAnswersOnePair
    <2> QED
      BY <2>1, <2>2 DEF SearchAnswersOnePair
  <1> QED
    BY <1>1, <1>2, <1>3, PTL DEF Spec

-----------------------------------------------------------------------------
(* The protocols of the run *)

\* The theorems about files that are replaced, for the instances of the run.
FP == INSTANCE FileProofs WITH
  Migrators <- {m1, m2}, Apps <- {a1}, Rows <- {ra}, Latest <- 3, OldVersion <- 1,
  NoOne <- nobody, MaxTries <- IF Live THEN 2 ELSE 3, MaxCrashes <- 1,
  MaxFailures <- IF Live THEN 1 ELSE 0, MaxMistakes <- IF Live THEN 0 ELSE 1,
  db <- m_db, lock <- m_lock, backups <- m_backups, mig <- m_mig, conn <- m_conn,
  acked <- m_acked, nextId <- m_nextId, count <- m_count,
  Patches <- {pa, pb}, Base <- base, None <- none,
  Faults <- IF Live THEN PatchKinds \cup {"moved"} ELSE PatchKinds, Peers <- FALSE,
  MaxEdits <- IF Live THEN 1 ELSE 2, MaxPatchCrashes <- 2, MaxFaults <- IF Live THEN 1 ELSE 2,
  MaxCalls <- IF Live THEN 3 ELSE 4,
  p_primary <- p_primary, p_slot <- p_slot, p_row <- p_row, p_proof <- p_proof,
  p_journal <- p_journal, p_run <- p_run, p_blocked <- p_blocked, p_expected <- p_expected,
  p_count <- p_count

\* Every behaviour of the run is a behaviour of the migration.
LEMMA RunIsMigration == MCSpec => Migration!Spec
  <1>1. MCInit => Migration!Init
    BY DEF MCInit
  <1>2. [MCNext]_mcvars => [Migration!Next]_(Migration!vars)
    BY DEF MCNext, InPair, InMigration, InPatch, InVault, InBuild, migration, mcvars, Migration!vars
  <1> QED
    BY <1>1, <1>2, PTL DEF MCSpec, Migration!Spec

\* The migration of the run is the one the theorems are about.
LEMMA MigrationIsFP == Migration!Spec => FP!Spec
  <1>1. Migration!Init => FP!Init
    BY DEF Migration!Init, FP!Init, Migration!NoDb, FP!NoDb, Migration!NoLock, FP!NoLock,
       Migration!IdleMigrator, FP!IdleMigrator
  <1>2. Migration!Next => FP!Next
    BY DEF Migration!Next, FP!Next, Migration!Begin, FP!Begin, Migration!BeginFresh,
       FP!BeginFresh, Migration!Upgrading, FP!Upgrading, Migration!Starting, FP!Starting,
       Migration!Fail, FP!Fail, Migration!Crash, FP!Crash, Migration!AppOpen, FP!AppOpen,
       Migration!AppCommit, FP!AppCommit, Migration!RemoveStaleLock, FP!RemoveStaleLock,
       Migration!RemoveLiveLock, FP!RemoveLiveLock, Migration!Lock, FP!Lock,
       Migration!Recheck, FP!Recheck, Migration!Backup, FP!Backup, Migration!Copy,
       FP!Copy, Migration!Apply, FP!Apply, Migration!Check, FP!Check,
       Migration!PublishLink, FP!PublishLink, Migration!PublishReplace, FP!PublishReplace,
       Migration!Release, FP!Release, Migration!Build, FP!Build, Migration!PublishFresh,
       FP!PublishFresh, Migration!At, FP!At, Migration!Goto, FP!Goto, Migration!Once,
       FP!Once, Migration!Work, FP!Work, Migration!State, FP!State, Migration!Fingerprint,
       FP!Fingerprint, Migration!Pending, FP!Pending, Migration!NoDb, FP!NoDb,
       Migration!NoLock, FP!NoLock, Migration!IdleMigrator, FP!IdleMigrator
  <1>3. [Migration!Next]_(Migration!vars) => [FP!Next]_(FP!vars)
    BY <1>2 DEF Migration!vars, FP!vars
  <1> QED
    BY <1>1, <1>3, PTL DEF Migration!Spec, FP!Spec

\* The constants of the run satisfy the assumption.
LEMMA MigrationAssumed == FP!MPAssumption
  BY PublishingAssumption DEF Migration!MPAssumption, FP!MPAssumption

\* The database of the run is never half migrated, and upgrades exclude one another.
THEOREM MigrationInvLift == MCSpec => []MigrationInv
  <1>1. FP!Spec => []FP!MigrationInv
    BY FP!MigrationInvHolds, MigrationAssumed
  <1>2. FP!MigrationInv => MigrationInv
    <2>1. FP!TypeOK => Migration!TypeOK
      BY DEF Migration!TypeOK, FP!TypeOK, Migration!Databases, FP!Databases,
         Migration!Steps, FP!Steps, Migration!Attempts, FP!Attempts
    <2>2. FP!ProductsAreApart => Migration!ProductsAreApart
      BY DEF Migration!ProductsAreApart, FP!ProductsAreApart, Migration!Inspected,
         FP!Inspected, Migration!HasProduct, FP!HasProduct, Migration!Work, FP!Work
    <2>3. FP!NeverHalfMigrated => Migration!NeverHalfMigrated
      BY DEF Migration!NeverHalfMigrated, FP!NeverHalfMigrated, Migration!NoDb, FP!NoDb
    <2>4. FP!PrintsTell => Migration!PrintsTell
      BY DEF Migration!PrintsTell, FP!PrintsTell, Migration!Inspected, FP!Inspected,
         Migration!Work, FP!Work
    <2>5. FP!LocksAreOwned => Migration!LocksAreOwned
      BY DEF Migration!LocksAreOwned, FP!LocksAreOwned, Migration!Inside, FP!Inside,
         Migration!Inspected, FP!Inspected, Migration!State, FP!State, Migration!NoDb,
         FP!NoDb
    <2>6. FP!OneUpgrade => Migration!OneUpgrade
      <3>1. {m \in {m1, m2} : Migration!Inside(m)} = {m \in {m1, m2} : FP!Inside(m)}
        BY DEF Migration!Inside, FP!Inside
      <3> QED
        BY <3>1 DEF Migration!OneUpgrade, FP!OneUpgrade, Migration!Cardinality, FP!Cardinality
    <2> QED
      BY <2>1, <2>2, <2>3, <2>4, <2>5, <2>6
         DEF MigrationInv, Migration!MigrationInv, FP!MigrationInv
  <1> QED
    BY RunIsMigration, MigrationIsFP, <1>1, <1>2, PTL

\* No step of the run does what an upgrade may never do.
THEOREM UpgradeIsSafeLift == MCSpec => UpgradeIsSafe
  <1>1. FP!Spec => FP!UpgradeIsSafe
    BY FP!UpgradeIsSafeHolds, MigrationAssumed
  <1>2. FP!UpgradeIsSafe => UpgradeIsSafe
    BY DEF UpgradeIsSafe, Migration!UpgradeIsSafe, FP!UpgradeIsSafe,
       Migration!ProductHasAllRows, FP!ProductHasAllRows,
       Migration!ReadyIsFinal, FP!ReadyIsFinal, Migration!LockIsMine, FP!LockIsMine,
       Migration!At, FP!At,
       Migration!Work, FP!Work, Migration!State, FP!State, Migration!NoDb, FP!NoDb,
       Migration!NoLock, FP!NoLock, Migration!vars, FP!vars
  <1> QED
    BY RunIsMigration, MigrationIsFP, <1>1, <1>2, PTL

-----------------------------------------------------------------------------
(* The patched Markdown file *)

\* Every behaviour of the run is a behaviour of the patch.
LEMMA RunIsPatch == MCSpec => Patch!Spec
  <1>1. MCInit => Patch!Init
    BY DEF MCInit
  <1>2. [MCNext]_mcvars => [Patch!Next]_(Patch!vars)
    BY DEF MCNext, InPair, InMigration, InPatch, InVault, InBuild, patch, mcvars, Patch!vars
  <1> QED
    BY <1>1, <1>2, PTL DEF MCSpec, Patch!Spec

\* The patch of the run is the one the theorems are about.
LEMMA PatchIsFP == Patch!Spec => FP!P!Spec
  <1>1. Patch!Init => FP!P!Init
    BY DEF Patch!Init, FP!P!Init, Patch!NoRecord, FP!P!NoRecord, Patch!Idle, FP!P!Idle
  <1>2. Patch!Next => FP!P!Next
    BY DEF Patch!Next, FP!P!Next, Patch!Runs, FP!P!Runs, Patch!Recovers, FP!P!Recovers,
           Patch!Start, FP!P!Start, Patch!Plan, FP!P!Plan, Patch!PlanUnrecorded,
           FP!P!PlanUnrecorded, Patch!Quarantine, FP!P!Quarantine, Patch!QuarantineStuck,
           FP!P!QuarantineStuck, Patch!RecordQuarantine, FP!P!RecordQuarantine,
           Patch!Publish, FP!P!Publish, Patch!PublishUnverified, FP!P!PublishUnverified,
           Patch!RecordPrimary, FP!P!RecordPrimary, Patch!Commit, FP!P!Commit,
           Patch!CommitRaises, FP!P!CommitRaises, Patch!CommitUnknown, FP!P!CommitUnknown,
           Patch!RecordCompensating, FP!P!RecordCompensating, Patch!RecordFails,
           FP!P!RecordFails, Patch!Undo, FP!P!Undo, Patch!Restore, FP!P!Restore,
           Patch!RecordIndex, FP!P!RecordIndex, Patch!RecordIndexFails,
           FP!P!RecordIndexFails, Patch!Purge, FP!P!Purge, Patch!PurgeFails,
           FP!P!PurgeFails, Patch!Finish, FP!P!Finish, Patch!FinishFails, FP!P!FinishFails,
           Patch!Resolve, FP!P!Resolve, Patch!RecoverUndo, FP!P!RecoverUndo,
           Patch!RecoverRestore, FP!P!RecoverRestore, Patch!RecoverWrite,
           FP!P!RecoverWrite, Patch!UserWrites, FP!P!UserWrites, Patch!Crash, FP!P!Crash,
           Patch!At, FP!P!At, Patch!Goto, FP!P!Goto, Patch!Ends, FP!P!Ends, Patch!Once,
           FP!P!Once, Patch!Fault, FP!P!Fault, Patch!Writes, FP!P!Writes, Patch!Rec, FP!P!Rec,
           Patch!Rev, FP!P!Rev, Patch!Interrupted, FP!P!Interrupted, Patch!Versions,
           FP!P!Versions, Patch!Probe, FP!P!Probe, Patch!Verdict, FP!P!Verdict,
           Patch!NoRecord, FP!P!NoRecord, Patch!Idle, FP!P!Idle, Patch!stores, FP!P!stores
  <1>3. [Patch!Next]_(Patch!vars) => [FP!P!Next]_(FP!P!vars)
    BY <1>2 DEF Patch!vars, FP!P!vars
  <1> QED
    BY <1>1, <1>3, PTL DEF Patch!Spec, FP!P!Spec

\* The constants of the run satisfy the assumption.
LEMMA PatchAssumed == FP!P!PSAssumption
  BY PublishingAssumption
     DEF Patch!PSAssumption, FP!P!PSAssumption, Patch!FaultKinds, FP!P!FaultKinds

\* Records, proofs and stores of the patches of the run agree where a move
\* that fails is moved back, as in the runs for safety.
THEOREM PatchInvLift ==
  ASSUME ~ Live
  PROVE  MCSpec => []PatchInv
  <1>1. FP!P!Spec => []FP!P!PatchInv
    <2>1. "moved" \notin IF Live THEN PatchKinds \cup {"moved"} ELSE PatchKinds
      BY DEF PatchKinds
    <2> QED
      BY <2>1, PatchAssumed, FP!PatchInvHolds
  <1>2. FP!P!PatchInv => PatchInv
    <2>1. FP!P!TypeOK => Patch!TypeOK
      BY DEF Patch!TypeOK, FP!P!TypeOK, Patch!Files, FP!P!Files, Patch!Versions,
             FP!P!Versions, Patch!Rec, FP!P!Rec, Patch!Checkpoints, FP!P!Checkpoints
    <2>2. FP!P!CommitsAreProved => Patch!CommitsAreProved
      BY DEF Patch!CommitsAreProved, FP!P!CommitsAreProved, Patch!Rec, FP!P!Rec
    <2>3. FP!P!StoresAgreeAtRest => Patch!StoresAgreeAtRest
      BY DEF Patch!StoresAgreeAtRest, FP!P!StoresAgreeAtRest, Patch!Idle, FP!P!Idle,
             Patch!Interrupted, FP!P!Interrupted, Patch!Rec, FP!P!Rec, Patch!Rev, FP!P!Rev,
             Patch!Versions, FP!P!Versions
    <2>4. FP!P!OneOfARevision => Patch!OneOfARevision
      BY DEF Patch!OneOfARevision, FP!P!OneOfARevision
    <2>5. FP!P!OnlyPublicationBlocks => Patch!OnlyPublicationBlocks
      BY DEF Patch!OnlyPublicationBlocks, FP!P!OnlyPublicationBlocks, Patch!Rec, FP!P!Rec
    <2> QED
      BY <2>1, <2>2, <2>3, <2>4, <2>5 DEF PatchInv, Patch!PatchInv, FP!P!PatchInv
  <1> QED
    BY RunIsPatch, PatchIsFP, <1>1, <1>2, PTL

\* No step of the run loses a Markdown file.
THEOREM FilesAreKeptLift == MCSpec => FilesAreKept
  <1>1. FP!P!Spec => FP!P!FilesAreKept
    BY FP!FilesAreKeptHolds, PatchAssumed
  <1>2. FP!P!FilesAreKept => FilesAreKept
    BY DEF FilesAreKept, Patch!FilesAreKept, FP!P!FilesAreKept, Patch!NoFileIsLost,
           FP!P!NoFileIsLost, Patch!OldPrimaryIsKept, FP!P!OldPrimaryIsKept, Patch!vars,
           FP!P!vars
  <1> QED
    BY RunIsPatch, PatchIsFP, <1>1, <1>2, PTL

-----------------------------------------------------------------------------
(* The development vault and the release candidate *)

\* The theorems about what the scripts make, for the instances of the run.
SP == INSTANCE ScriptProofs WITH
  Names <- 1..3, Counts <- {0, 2}, Seeds <- {1, 2},
  MaxRuns <- 3, MaxEdits <- 1, MaxCrashes <- 1, MaxFailures <- 1,
  root <- d_root, run <- d_run, quiet <- d_quiet, count <- d_count,
  Revisions <- {1, 2}, ValidRevisions <- {1}, MaxBuilds <- 2, MaxDisturbances <- 2,
  MaxBuildCrashes <- 1,
  b_head <- b_head, b_dirty <- b_dirty, b_env <- b_env, b_src <- b_src, b_out <- b_out,
  b_dist <- b_dist, b_run <- b_run, b_made <- b_made, b_count <- b_count

\* Every behaviour of the run is a behaviour of the rebuilt vault, whose calls it
\* narrows.
LEMMA RunIsVault == MCSpec => Vaults!Spec
  <1>1. MCInit => Vaults!Init
    BY DEF MCInit
  <1>2. [MCNext]_mcvars => [Vaults!Next]_(Vaults!vars)
    BY DEF MCNext, InPair, InMigration, InPatch, InVault, InBuild, vault, mcvars, Vaults!vars
  <1> QED
    BY <1>1, <1>2, PTL DEF MCSpec, Vaults!Spec

\* The vault of the run is the one the theorems are about.
LEMMA VaultIsSP == Vaults!Spec => SP!Spec
  <1>1. Vaults!Init => SP!Init
    BY DEF Vaults!Init, SP!Init, Vaults!NoRoot, SP!NoRoot, Vaults!NoManifest, SP!NoManifest,
       Vaults!Idle, SP!Idle
  <1>2. Vaults!Next => SP!Next
    BY DEF Vaults!Next, SP!Next,
           Vaults!Dirs, SP!Dirs, Vaults!NoManifest, SP!NoManifest, Vaults!NoRoot, SP!NoRoot,
           Vaults!Idle, SP!Idle, Vaults!With, SP!With, Vaults!HasContent, SP!HasContent,
           Vaults!Mirrors, SP!Mirrors, Vaults!Valid, SP!Valid, Vaults!Requested,
           SP!Requested, Vaults!SameRoot, SP!SameRoot, Vaults!Stable, SP!Stable,
           Vaults!Goto, SP!Goto, Vaults!End, SP!End, Vaults!Step, SP!Step, Vaults!Fails,
           SP!Fails, Vaults!Start, SP!Start, Vaults!Gate, SP!Gate, Vaults!CheckOnly,
           SP!CheckOnly, Vaults!Look, SP!Look, Vaults!Validate, SP!Validate, Vaults!Clean,
           SP!Clean, Vaults!Wipe, SP!Wipe, Vaults!Make, SP!Make, Vaults!MakeDirs,
           SP!MakeDirs, Vaults!Migrate, SP!Migrate, Vaults!SaveFile, SP!SaveFile,
           Vaults!InsertRow, SP!InsertRow, Vaults!Relate, SP!Relate, Vaults!Health,
           SP!Health, Vaults!Mark, SP!Mark, Vaults!Verify, SP!Verify, Vaults!Unmark,
           SP!Unmark, Vaults!Crash, SP!Crash, Vaults!Edited, SP!Edited, Vaults!AppChanges,
           SP!AppChanges, Vaults!AppAdds, SP!AppAdds, Vaults!AppDeletes, SP!AppDeletes,
           Vaults!FileChanges, SP!FileChanges, Vaults!FileGoes, SP!FileGoes,
           Vaults!MarkGoes, SP!MarkGoes, Vaults!LinkMoves, SP!LinkMoves, Vaults!RootGoes,
           SP!RootGoes, Vaults!RootIsReplaced, SP!RootIsReplaced, Vaults!Runs, SP!Runs,
           Vaults!Others, SP!Others, Vaults!Restrict, SP!Restrict, Vaults!Cardinality,
           SP!Cardinality
  <1>3. [Vaults!Next]_(Vaults!vars) => [SP!Next]_(SP!vars)
    BY <1>2 DEF Vaults!vars, SP!vars
  <1> QED
    BY <1>1, <1>3, PTL DEF Vaults!Spec, SP!Spec

\* The constants of the run satisfy the assumption.
LEMMA VaultAssumed == SP!DevVaultAssumption
  BY PublishingAssumption DEF Vaults!DevVaultAssumption, SP!DevVaultAssumption,
     Vaults!Cardinality, SP!Cardinality

\* A vault of the run that is called rebuilt, up to date or sound is whole.
THEOREM VaultIsWholeLift == MCSpec => []VaultIsWhole
  <1>1. SP!Spec => []SP!VaultIsWhole
    BY SP!VaultIsWholeHolds, VaultAssumed
  <1>2. SP!VaultIsWhole => VaultIsWhole
    BY DEF VaultIsWhole, Vaults!VaultIsWhole, SP!VaultIsWhole, Vaults!Whole, SP!Whole,
       Vaults!Requested, SP!Requested, Vaults!Dirs, SP!Dirs, Vaults!NoManifest, SP!NoManifest,
       Vaults!Cardinality, SP!Cardinality
  <1> QED
    BY RunIsVault, VaultIsSP, <1>1, <1>2, PTL

\* Every behaviour of the run is a behaviour of the builds.
LEMMA RunIsBuild == MCSpec => Builds!Spec
  <1>1. MCInit => Builds!Init
    BY DEF MCInit
  <1>2. [MCNext]_mcvars => [Builds!Next]_(Builds!vars)
    BY DEF MCNext, InPair, InMigration, InPatch, InVault, InBuild, build, mcvars, Builds!vars
  <1> QED
    BY <1>1, <1>2, PTL DEF MCSpec, Builds!Spec

\* The builds of the run are the ones the theorems are about.
LEMMA BuildIsSP == Builds!Spec => SP!B!Spec
  <1>1. Builds!Init => SP!B!Init
    BY DEF Builds!Init, SP!B!Init,
           Builds!Both, SP!B!Both, Builds!Absent, SP!B!Absent, Builds!Idle, SP!B!Idle,
           Builds!Stage, SP!B!Stage, Builds!Dirs, SP!B!Dirs
  <1>2. Builds!Next => SP!B!Next
    BY DEF Builds!Next, SP!B!Next,
           Builds!Both, SP!B!Both, Builds!Absent, SP!B!Absent, Builds!Idle, SP!B!Idle,
           Builds!Removed, SP!B!Removed, Builds!Published, SP!B!Published, Builds!Stage,
           SP!B!Stage, Builds!Dirs, SP!B!Dirs, Builds!Build, SP!B!Build, Builds!Goto,
           SP!B!Goto, Builds!Give, SP!B!Give, Builds!Elsewhere, SP!B!Elsewhere,
           Builds!Begin, SP!B!Begin, Builds!Confirm, SP!B!Confirm, Builds!ClearAt,
           SP!B!ClearAt, Builds!AfterClear, SP!B!AfterClear, Builds!Clear, SP!B!Clear,
           Builds!ClearCutOff, SP!B!ClearCutOff, Builds!Snapshot, SP!B!Snapshot,
           Builds!TreesAreTheCommit, SP!B!TreesAreTheCommit, Builds!Inputs, SP!B!Inputs,
           Builds!PythonIsLocked, SP!B!PythonIsLocked, Builds!PackagesAreLocked,
           SP!B!PackagesAreLocked, Builds!EnvironmentIsLocked, SP!B!EnvironmentIsLocked,
           Builds!LockAt, SP!B!LockAt, Builds!Lock, SP!B!Lock, Builds!Bytes, SP!B!Bytes,
           Builds!Tool, SP!B!Tool, Builds!ToolFails, SP!B!ToolFails, Builds!Recheck,
           SP!B!Recheck, Builds!Hash1, SP!B!Hash1, Builds!HashOnly, SP!B!HashOnly,
           Builds!Hash2, SP!B!Hash2, Builds!Authority, SP!B!Authority, Builds!Copied,
           SP!B!Copied, Builds!CopyAt, SP!B!CopyAt, Builds!Copy, SP!B!Copy, Builds!Staged,
           SP!B!Staged, Builds!PublishAt, SP!B!PublishAt, Builds!Publish, SP!B!Publish,
           Builds!Builder, SP!B!Builder, Builds!Disturb, SP!B!Disturb, Builds!Checkout,
           SP!B!Checkout, Builds!Install, SP!B!Install, Builds!EditSource, SP!B!EditSource,
           Builds!EditOutput, SP!B!EditOutput, Builds!Crash, SP!B!Crash,
           Builds!PublishedTogether, SP!B!PublishedTogether, Builds!PublishedIsReproduced,
           SP!B!PublishedIsReproduced
  <1>3. [Builds!Next]_(Builds!vars) => [SP!B!Next]_(SP!B!vars)
    BY <1>2 DEF Builds!vars, SP!B!vars
  <1> QED
    BY <1>1, <1>3, PTL DEF Builds!Spec, SP!B!Spec

\* The constants of the run satisfy the assumption.
LEMMA BuildAssumed == SP!B!ReleaseBuildAssumption
  BY PublishingAssumption DEF Builds!ReleaseBuildAssumption, SP!B!ReleaseBuildAssumption

\* A candidate that the run has published is whole and reproduced.
THEOREM PublishedIsWholeLift == MCSpec => []PublishedIsWhole
  <1>1. SP!B!Spec => []SP!B!PublishedIsWhole
    BY SP!PublishedIsWholeHolds, BuildAssumed
  <1>2. SP!B!PublishedIsWhole => PublishedIsWhole
    BY DEF PublishedIsWhole, Builds!PublishedIsWhole, SP!B!PublishedIsWhole,
           Builds!Both, SP!B!Both, Builds!Absent, SP!B!Absent, Builds!Idle, SP!B!Idle,
           Builds!Removed, SP!B!Removed, Builds!Published, SP!B!Published, Builds!Stage,
           SP!B!Stage, Builds!Dirs, SP!B!Dirs, Builds!Build, SP!B!Build, Builds!Goto,
           SP!B!Goto, Builds!Give, SP!B!Give, Builds!Elsewhere, SP!B!Elsewhere,
           Builds!Begin, SP!B!Begin, Builds!Confirm, SP!B!Confirm, Builds!ClearAt,
           SP!B!ClearAt, Builds!AfterClear, SP!B!AfterClear, Builds!Clear, SP!B!Clear,
           Builds!ClearCutOff, SP!B!ClearCutOff, Builds!Snapshot, SP!B!Snapshot,
           Builds!TreesAreTheCommit, SP!B!TreesAreTheCommit, Builds!Inputs, SP!B!Inputs,
           Builds!PythonIsLocked, SP!B!PythonIsLocked, Builds!PackagesAreLocked,
           SP!B!PackagesAreLocked, Builds!EnvironmentIsLocked, SP!B!EnvironmentIsLocked,
           Builds!LockAt, SP!B!LockAt, Builds!Lock, SP!B!Lock, Builds!Bytes, SP!B!Bytes,
           Builds!Tool, SP!B!Tool, Builds!ToolFails, SP!B!ToolFails, Builds!Recheck,
           SP!B!Recheck, Builds!Hash1, SP!B!Hash1, Builds!HashOnly, SP!B!HashOnly,
           Builds!Hash2, SP!B!Hash2, Builds!Authority, SP!B!Authority, Builds!Copied,
           SP!B!Copied, Builds!CopyAt, SP!B!CopyAt, Builds!Copy, SP!B!Copy, Builds!Staged,
           SP!B!Staged, Builds!PublishAt, SP!B!PublishAt, Builds!Publish, SP!B!Publish,
           Builds!Builder, SP!B!Builder, Builds!Disturb, SP!B!Disturb, Builds!Checkout,
           SP!B!Checkout, Builds!Install, SP!B!Install, Builds!EditSource, SP!B!EditSource,
           Builds!EditOutput, SP!B!EditOutput, Builds!Crash, SP!B!Crash,
           Builds!PublishedTogether, SP!B!PublishedTogether, Builds!PublishedIsReproduced,
           SP!B!PublishedIsReproduced
  <1> QED
    BY RunIsBuild, BuildIsSP, <1>1, <1>2, PTL

=============================================================================
