--------------------------- MODULE KnowledgeSearch ---------------------------
(***************************************************************************)
(* One search, from the question to the answer that is published:          *)
(* src/src/retrieval, KnowledgeApplication.search and related, and the     *)
(* projections of src/src/mcp/tools.py and src/src/cli/commands.py.        *)
(*                                                                         *)
(* A keyword branch reads SQLite, a vector branch reads one bound          *)
(* generation of the index and then SQLite once for each hit; a hybrid     *)
(* search runs both in two threads.  None of them holds the write lease,   *)
(* so documents are archived, patched and deleted meanwhile.               *)
(*                                                                         *)
(* The text of a document is what it means for the question: all of its    *)
(* tokens match, some do, or none.  The order in which SQLite's bm25() and *)
(* the distances put documents is any order.  A generation holds exactly   *)
(* the documents of its source, which is what EmbeddingGeneration shows    *)
(* of a ready binding; a commit makes it not ready.                        *)
(***************************************************************************)
EXTENDS Integers, FiniteSets, Sequences, SequencesExt

CONSTANTS
    Docs,
    Facets,       \* values of a source type or tag; "" is an empty field
    Stores,       \* the tables a behaviour may start from
    Strategies,   \* subset of {"auto", "bm25", "vector", "hybrid", "related"}
    Limits,
    Floor,        \* the least number of candidates of a branch; 20 in the code
    MaxWrites,    \* bound: commits during the search
    MaxFailures   \* bound: steps of the search that fail

\* What an instance must satisfy; the module that instantiates it assumes it.
SearchAssumption ==
    /\ Limits \subseteq Nat \ {0} /\ {Floor, MaxWrites, MaxFailures} \subseteq Nat
    /\ Strategies \subseteq {"auto", "bm25", "vector", "hybrid", "related"}

VARIABLES
    rows,    \* rows[d]: what SQLite says of d, or Gone
    index,   \* the active generation in order of distance, or NotReady
    job,     \* the search
    seen,    \* history: seen[d]: the rows of d since the search began
    writes

vars == <<rows, index, job, seen, writes>>

Gone == [match |-> "gone", facet |-> ""]
Rows == [match : {"all", "some", "none"}, facet : Facets \cup {""}]
NotReady == <<0>>
Present == {d \in Docs : rows[d] # Gone}
\* The tokens of the question: none at all, one, fewer than the threshold of
\* the router (5 for MCP, 10 for the CLI), or as many.
Questions == {"tokenless", "one", "few", "many"}

Cut(s, n) == SubSeq(s, 1, IF Len(s) < n THEN Len(s) ELSE n)
Branch(at) == [at |-> at, status |-> "none", hits |-> <<>>, todo |-> <<>>, lost |-> FALSE]
NoJob == [at |-> "idle", route |-> "none", question |-> "one", limit |-> 1, seed |-> 0,
          bound |-> NotReady, lexical |-> Branch("off"), semantic |-> Branch("off"),
          failures |-> 0, broken |-> FALSE, status |-> "none", found |-> <<>>,
          shown |-> <<>>, filter |-> ""]

Init ==
    /\ rows \in Stores
    /\ index \in {NotReady} \cup SetToSeqs(Present)
    /\ job = NoJob /\ writes = 0
    /\ seen = [d \in Docs |-> {}]

-----------------------------------------------------------------------------
(* The vault beside the search *)

\* An archive, a patch or a delete commits one row; the generation is of an
\* older source from then on.
Write(d) ==
    /\ writes < MaxWrites
    /\ rows' \in {[rows EXCEPT ![d] = r] : r \in (Rows \cup {Gone}) \ {rows[d]}}
    /\ seen' = [seen EXCEPT ![d] = @ \cup {rows'[d]}]
    /\ index' = NotReady
    /\ writes' = writes + 1
    /\ UNCHANGED job

\* A rebuild activates a generation of the present rows.
Rebuild ==
    /\ index = NotReady
    /\ index' \in SetToSeqs(Present)
    /\ UNCHANGED <<rows, job, seen, writes>>

-----------------------------------------------------------------------------
(* The question *)

\* QueryRouter.search
Routed(q) == CASE q = "tokenless" -> "router" [] q = "many" -> "hybrid" [] OTHER -> "bm25"

Answered(status, found) == [job EXCEPT !.at = "done", !.status = status,
                                       !.found = found, !.shown = found]
\* A step that fails: what it does instead of its work.
Fails(instead) ==
    /\ job.failures < MaxFailures
    /\ job' = [instead EXCEPT !.failures = @ + 1, !.broken = TRUE]

Ask(strategy, question, limit, seed) ==
    /\ job.at = "idle"
    /\ LET route == IF strategy = "auto" THEN Routed(question) ELSE strategy
           start == [NoJob EXCEPT !.route = route, !.question = question,
                                  !.limit = limit,
                                  !.seed = IF route = "related" THEN seed ELSE 0]
       IN job' = CASE route = "router" -> [start EXCEPT !.at = "done", !.status = "invalid"]
                   [] route = "related" -> [start EXCEPT !.at = "lookup"]
                   [] route = "bm25" -> [start EXCEPT !.at = "run", !.lexical = Branch("strict")]
                   [] OTHER -> [start EXCEPT !.at = "bind"]
    /\ seen' = [d \in Docs |-> {rows[d]}]
    /\ UNCHANGED <<rows, index, writes>>

\* related: the row of the document that is asked about.
Lookup ==
    /\ job.at = "lookup"
    /\ \/ job' = IF rows[job.seed] = Gone THEN Answered("no_hits", <<>>)
                 ELSE [job EXCEPT !.at = "bind"]
       \/ Fails(Answered("error", <<>>))
    /\ UNCHANGED <<rows, index, seen, writes>>

\* The binding that a whole search keeps.  Without one a vector search ends, a
\* hybrid search goes on with a branch that always fails, and related degrades.
Bound ==
    CASE job.route = "related" ->
           IF job.seed \in ToSet(index)
           THEN [job EXCEPT !.at = "run", !.bound = index,
                            !.semantic = [Branch("map") EXCEPT !.todo = Cut(index, job.limit + 1)]]
           ELSE [Answered("degraded", <<>>) EXCEPT !.broken = TRUE]
      [] job.route = "vector" ->
           [job EXCEPT !.at = "run", !.bound = index, !.semantic = Branch("nearest")]
      [] job.route = "hybrid" ->
           [job EXCEPT !.at = "run", !.bound = index, !.lexical = Branch("strict"),
                       !.semantic = Branch("nearest")]
Unbound ==
    CASE job.route = "related" -> Answered("degraded", <<>>)
      [] job.route = "vector" -> Answered("error", <<>>)
      [] job.route = "hybrid" ->
           [job EXCEPT !.at = "run", !.lexical = Branch("strict"),
                       !.semantic = [Branch("done") EXCEPT !.status = "error"]]

Bind ==
    /\ job.at = "bind"
    /\ \/ index # NotReady /\ job' = Bound
       \/ index = NotReady /\ job' = [Unbound EXCEPT !.broken = TRUE]
       \/ index # NotReady /\ Fails(Unbound)
    /\ UNCHANGED <<rows, index, seen, writes>>

-----------------------------------------------------------------------------
(* The branches *)

Candidates == IF job.route # "hybrid" THEN job.limit
              ELSE IF 2 * job.limit > Floor THEN 2 * job.limit ELSE Floor

\* One MATCH statement: the rows it sees, in the order of bm25().
Matching(modes) ==
    {[i \in DOMAIN s |-> [doc |-> s[i], row |-> rows[s[i]]]] :
       s \in {Cut(r, Candidates) : r \in SetToSeqs({d \in Docs : rows[d].match \in modes})}}

Completed(hits) == [Branch("done") EXCEPT !.hits = hits,
                                          !.status = IF hits = <<>> THEN "no_hits" ELSE "success"]
Failed == [Branch("done") EXCEPT !.status = "error"]

\* BM25Retriever.search: every token ...
Strict ==
    /\ job.at = "run" /\ job.lexical.at = "strict"
    /\ \/ /\ job.question = "tokenless"
          /\ job' = [job EXCEPT !.lexical = [Branch("done") EXCEPT !.status = "invalid"]]
       \/ /\ job.question # "tokenless"
          /\ \E hits \in Matching({"all"}) :
                job' = [job EXCEPT !.lexical =
                          IF hits = <<>> /\ job.question # "one"
                          THEN Branch("relaxed") ELSE Completed(hits)]
       \/ Fails([job EXCEPT !.lexical = Failed])
    /\ UNCHANGED <<rows, index, seen, writes>>

\* ... and when no document has all of them, any token: a second statement.
Relaxed ==
    /\ job.at = "run" /\ job.lexical.at = "relaxed"
    /\ \/ \E hits \in Matching({"all", "some"}) :
             job' = [job EXCEPT !.lexical = Completed(hits)]
       \/ Fails([job EXCEPT !.lexical = Failed])
    /\ UNCHANGED <<rows, index, seen, writes>>

\* VectorRetriever.search: open the generation, embed the question, search.
Nearest ==
    /\ job.at = "run" /\ job.semantic.at = "nearest"
    /\ \/ job' = [job EXCEPT !.semantic =
                    IF job.bound = <<>> THEN Completed(<<>>)
                    ELSE [Branch("map") EXCEPT !.todo = Cut(job.bound, Candidates)]]
       \/ Fails([job EXCEPT !.semantic = Failed])
    /\ UNCHANGED <<rows, index, seen, writes>>

\* Mutant of Mapped: a hit without a row is no news.
MappedQuietly(b) ==
    IF b.todo # <<>> THEN b ELSE Completed(b.hits)

\* _mapped_response, once every hit is mapped
Mapped(b) ==
    IF b.todo # <<>> THEN b
    ELSE IF ~ b.lost THEN Completed(b.hits)
    ELSE IF b.hits = <<>> THEN Failed
    ELSE [b EXCEPT !.at = "done", !.status = "degraded"]

\* _map_document_hits: the row of the next hit, read on a connection of its own.
MapHit ==
    LET b == job.semantic
        d == Head(b.todo)
        rest == [b EXCEPT !.todo = Tail(b.todo)]
        lost == Mapped([rest EXCEPT !.lost = TRUE])
    IN /\ job.at = "run" /\ b.at = "map" /\ job.route # "related"
       /\ \/ /\ rows[d] # Gone
             /\ job' = [job EXCEPT !.semantic =
                          Mapped([rest EXCEPT !.hits = Append(@, [doc |-> d, row |-> rows[d]])])]
          \/ /\ rows[d] = Gone
             /\ job' = [job EXCEPT !.semantic = lost, !.broken = TRUE]
          \/ Fails([job EXCEPT !.semantic = lost])
       /\ UNCHANGED <<rows, index, seen, writes>>

\* related reads the neighbours the same way, but a missing row ends it.
MapNeighbour ==
    LET b == job.semantic
        d == Head(b.todo)
    IN /\ job.at = "run" /\ b.at = "map" /\ job.route = "related"
       /\ \/ /\ b.todo = <<>> \/ Len(b.hits) = job.limit
             /\ job' = Answered(Completed(b.hits).status, b.hits)
          \/ /\ b.todo # <<>> /\ Len(b.hits) < job.limit
             /\ \/ d = job.seed /\ job' = [job EXCEPT !.semantic.todo = Tail(@)]
                \/ d # job.seed /\ rows[d] = Gone
                   /\ job' = [Answered("error", <<>>) EXCEPT !.broken = TRUE]
                \/ d # job.seed /\ rows[d] # Gone
                   /\ job' = [job EXCEPT !.semantic.todo = Tail(@),
                                         !.semantic.hits = Append(@, [doc |-> d, row |-> rows[d]])]
                \/ d # job.seed /\ Fails(Answered("error", <<>>))
       /\ UNCHANGED <<rows, index, seen, writes>>

-----------------------------------------------------------------------------
(* Fusion *)

DocsOf(hits) == {hits[i].doc : i \in DOMAIN hits}
\* The place of d in a list; 0 when it is not in it.
Place(hits, d) == IF d \in DocsOf(hits) THEN CHOOSE i \in DOMAIN hits : hits[i].doc = d ELSE 0

\* A score 0.4/(60+i) + 0.6/(60+j) as a fraction.
Score(i, j) ==
    LET a == 60 + i
        b == 60 + j
    IN CASE i = 0 -> [up |-> 3, down |-> b]
         [] j = 0 -> [up |-> 2, down |-> a]
         [] OTHER -> [up |-> 2 * b + 3 * a, down |-> a * b]
RRF(l, v, d) == Score(Place(l, d), Place(v, d))
Below(p, q) == p.up * q.down < q.up * p.down

\* _merge_result: the keyword row, its empty fields from the vector row.
Merged(l, v, d) ==
    LET i == Place(l, d)
        j == Place(v, d)
        row == IF i = 0 THEN v[j].row ELSE l[i].row
    IN [doc |-> d, row |-> IF row.facet = "" /\ j # 0
                           THEN [row EXCEPT !.facet = v[j].row.facet] ELSE row]

\* _combine_results; equal scores come in any order.
Combined(l, v, n) ==
    IF l = <<>> \/ v = <<>> THEN {Cut(l \o v, n)}
    ELSE {Cut([i \in DOMAIN s |-> Merged(l, v, s[i])], n) :
            s \in {t \in SetToSeqs(DocsOf(l) \cup DocsOf(v)) :
                     \A i, k \in DOMAIN t :
                        i < k => ~ Below(RRF(l, v, t[i]), RRF(l, v, t[k]))}}

\* HybridRetriever.search, once both threads have ended.
HybridAnswer(found) ==
    LET ends == <<job.lexical.status, job.semantic.status>>
        ill == {i \in 1..2 : ends[i] \in {"invalid", "error", "degraded"}}
    IN IF ill = {} THEN Answered(Completed(found).status, found)
       ELSE IF ill = {1, 2} /\ "degraded" \notin ToSet(ends)
       THEN Answered(IF ends = <<"invalid", "invalid">> THEN "invalid" ELSE "error", <<>>)
       ELSE Answered("degraded", found)

\* _serialize_search_response: the filter of the MCP tool; the CLI has none.
Filtered(answer, f) ==
    LET shown == IF f = "" THEN answer.found
                 ELSE SelectSeq(answer.found, LAMBDA h : h.row.facet = f)
    IN [answer EXCEPT !.filter = f, !.shown = shown,
          !.status = IF @ = "success" /\ shown = <<>> THEN "no_hits" ELSE @]

Finish(f) ==
    /\ job.at = "run" /\ job.route # "related"
    /\ job.lexical.at \in {"off", "done"} /\ job.semantic.at \in {"off", "done"}
    /\ \/ /\ job.route = "bm25"
          /\ job' = Filtered(Answered(job.lexical.status, job.lexical.hits), f)
       \/ /\ job.route = "vector"
          /\ job' = Filtered(Answered(job.semantic.status, job.semantic.hits), f)
       \/ /\ job.route = "hybrid"
          /\ \E found \in Combined(job.lexical.hits, job.semantic.hits, job.limit) :
                job' = Filtered(HybridAnswer(found), f)
    /\ UNCHANGED <<rows, index, seen, writes>>

Next ==
    \/ \E d \in Docs : Write(d)
    \/ Rebuild
    \/ \E s \in Strategies, q \in Questions, n \in Limits, d \in Docs : Ask(s, q, n, d)
    \/ Lookup \/ Bind \/ Strict \/ Relaxed \/ Nearest \/ MapHit \/ MapNeighbour
    \/ \E f \in Facets \cup {""} : Finish(f)

-----------------------------------------------------------------------------
(* Properties *)

Done == job.at = "done"
Quiet == Done /\ job.status \in {"success", "no_hits"}
\* What has stayed as it is since the search began.
Steady == {d \in Docs : \E r \in Rows : seen[d] = {r}}
Once(match) == \E d \in Docs : \E r \in seen[d] : r.match = match
\* The documents a search owes its caller: the generation has every one; all
\* keywords match, or some where no document has had them all meanwhile.
Owed ==
    CASE job.route = "related" -> IF job.seed \in Steady THEN Steady \ {job.seed} ELSE {}
      [] job.route \in {"vector", "hybrid"} -> Steady
      [] OTHER -> {d \in Steady : \E r \in seen[d] :
                     \/ r.match = "all"
                     \/ r.match = "some" /\ job.question # "one" /\ ~ Once("all")}

\* An answer that reports nothing wrong had nothing go wrong, and with room left
\* in it no document is missing that was there all the time: an outage, a lost
\* row or a commit between two reads is never an empty or a shorter answer.
QuietAnswersAreWhole ==
    Quiet => /\ ~ job.broken
             /\ Len(job.found) < job.limit => Owed \subseteq DocsOf(job.found)

\* What is shown was there during the search, with the value that the filter
\* asks for, each document once, no more than the limit.
ShownWasThere ==
    /\ Cardinality(DocsOf(job.shown)) = Len(job.shown) /\ Len(job.shown) <= job.limit
    /\ job.route = "related" => job.seed \notin DocsOf(job.shown)
    /\ \A d \in DocsOf(job.shown) :
          \E r \in seen[d] \ {Gone} : job.filter = "" \/ r.facet = job.filter

\* A document that both branches put before another one stays before it.
Ahead(d, e) ==
    \A hits \in {job.lexical.hits, job.semantic.hits} :
        Place(hits, d) # 0 /\ (Place(hits, e) # 0 => Place(hits, d) < Place(hits, e))
BetterStaysFirst ==
    \A d, e \in Docs :
        Ahead(d, e) /\ e \in DocsOf(job.found) =>
            d \in DocsOf(job.found) /\ Place(job.found, d) < Place(job.found, e)

\* The documents of an answer, whole or degraded, are real and in an order that
\* both branches can agree to.
ShownIsRanked == Done => ShownWasThere /\ (job.route = "hybrid" => BetterStaysFirst)
=============================================================================
