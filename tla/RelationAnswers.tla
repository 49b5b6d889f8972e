--------------------------- MODULE RelationAnswers ---------------------------
(* The questions about the relation graph: query_subgraph, explain_relation,  *)
(* find_bridges, contrast and collect_evidence.  A question takes no lease    *)
(* and no snapshot: it lists the relations of one document at a time, so      *)
(* archives and deletes may change the table between two lists.  The MCP      *)
(* tools rebuild what they can of an answer and refuse one that does not fit  *)
(* (_strict_*_payload); the *Strict operators are these projections.          *)
(*                                                                            *)
(* Wording, locators, evidence payloads, weights and scores are left out: a   *)
(* list is in the order of updated_at, and the score of a bridge only says    *)
(* whether the candidate is kept.                                             *)
EXTENDS Integers, Sequences, FiniteSets

CONSTANTS Docs,       \* knowledge ids
          Types,      \* relation types
          Stores,     \* the tables a behaviour may start with, newest row last
          Outside,    \* sets of documents whose file is outside the vault
          Kinds,      \* the questions that are asked
          Depths,     \* the depths they are asked with
          Hits,       \* retrieval answers: sequences of [doc, chunk], chunk 0 for a document
          Limits,     \* [rows, nodes, edges]: what one list and one subgraph may hold
          TopK,
          MaxEdits    \* bound on changes of the table

RelationAssumption ==
  /\ Docs \subseteq Nat \ {0}
  /\ IsFiniteSet(Docs)
  /\ Depths \subseteq Nat \ {0}
  /\ Limits \subseteq [rows : Nat \ {0}, nodes : Nat \ {0}, edges : Nat \ {0}]
  /\ TopK \in Nat \ {0} /\ MaxEdits \in Nat
  /\ Kinds \subseteq {"subgraph", "explain", "bridges", "contrast", "evidence"}

Ends(r) == {r.src, r.dst}
\* _resolve_neighbor_knowledge_id
Other(n, r) == IF r.src = n THEN r.dst ELSE r.src
Newest(s) == [i \in 1..Len(s) |-> s[Len(s) + 1 - i]]
First(s, n) == SubSeq(s, 1, IF Len(s) < n THEN Len(s) ELSE n)
Ids(s) == {s[i].id : i \in DOMAIN s}

Rows == [id : Nat \ {0}, src : Docs, dst : Docs, type : Types]

ASSUME RelationStores ==
  /\ RelationAssumption
  /\ \A s \in Stores : s \in Seq(Rows) /\ Ids(s) = 1..Len(s)

VARIABLES rels,     \* knowledge_relations, by updated_at
          outside,  \* documents that fail resolve_vault_file_path
          job,      \* the question being answered
          lastId,   \* the AUTOINCREMENT counter of relation_id
          edits
tables == <<rels, outside, lastId, edits>>
vars == <<rels, outside, job, lastId, edits>>

\* What list_relations returns of a document, and whether rows were left out.
RowsOf(n) == SelectSeq(Newest(rels), LAMBDA r : n \in Ends(r))
ListRelations(n, limit) == First(RowsOf(n), limit)
Cuts(n, limit) == Len(RowsOf(n)) > limit

NoPath == <<>>
Idle == [at |-> "idle", kind |-> "none", seed |-> 0, depth |-> 0,
         max |-> [rows |-> 0, nodes |-> 0, edges |-> 0],
         depths |-> <<>>, edges |-> {}, truncated |-> FALSE,
         queue |-> <<>>, cur |-> 0, path |-> NoPath, list |-> <<>>, best |-> <<>>,
         todo |-> <<>>, got |-> <<>>, items |-> <<>>, alike |-> FALSE,
         cut |-> FALSE, quiet |-> TRUE]

Safe(n) == n \notin outside
SafeRows(s) == \A i \in DOMAIN s : \A n \in Ends(s[i]) : Safe(n)

(* query_subgraph: breadth first, one list per visited node.                  *)
StartSubgraph(kind, seed, depth, max) ==
  [Idle EXCEPT !.at = "visit", !.kind = kind, !.seed = seed, !.depth = depth,
               !.max = max, !.depths = [n \in {seed} |-> 0], !.queue = <<seed>>]

AskSubgraph ==
  /\ job.at = "idle" /\ "subgraph" \in Kinds
  /\ \E s \in Docs, d \in Depths, l \in Limits :
       job' = StartSubgraph("subgraph", s, d, [l EXCEPT !.rows = l.nodes])
  /\ UNCHANGED tables

\* find_bridges looks at nothing when the seed itself is not in the vault.
AskBridges ==
  /\ job.at = "idle" /\ "bridges" \in Kinds
  /\ \E s \in Docs, d \in Depths, l \in Limits, a \in BOOLEAN :
       /\ Safe(s)
       /\ job' = [StartSubgraph("bridges", s, d, l) EXCEPT !.alike = a]
  /\ UNCHANGED tables

Visit ==
  /\ job.at = "visit" /\ job.queue # <<>>
  /\ job' = [job EXCEPT !.at = "collect", !.cur = Head(job.queue), !.queue = Tail(@),
                        !.list = ListRelations(Head(job.queue), job.max.rows),
                        !.cut = @ \/ Cuts(Head(job.queue), job.max.rows)]
  /\ UNCHANGED tables

\* A new node past max_nodes and a new edge past max_edges are left out.
Fits(n, r) ==
  /\ n \in DOMAIN job.depths \/ Cardinality(DOMAIN job.depths) < job.max.nodes
  /\ r \in job.edges \/ Cardinality(job.edges) < job.max.edges

\* One record of the list; what does not fit is told by truncated.
Collect ==
  /\ job.at = "collect"
  /\ IF job.list = <<>> THEN job' = [job EXCEPT !.at = "visit"]
     ELSE LET r == Head(job.list)
              n == Other(job.cur, r)
              next == job.depths[job.cur] + 1
          IN IF ~Fits(n, r)
             THEN job' = [job EXCEPT !.list = Tail(@), !.truncated = TRUE]
             ELSE IF n \in DOMAIN job.depths
             THEN job' = [job EXCEPT !.list = Tail(@), !.edges = @ \cup {r}]
             ELSE job' = [job EXCEPT
                    !.list = Tail(@), !.edges = @ \cup {r},
                    !.depths = [m \in DOMAIN @ \cup {n} |-> IF m = n THEN next ELSE @[m]],
                    !.queue = IF next < job.depth THEN Append(@, n) ELSE @]
  /\ UNCHANGED tables

(* find_bridges: what of the subgraph may be shown, and who joins its parts.  *)
PublicDepths == [n \in {m \in DOMAIN job.depths : Safe(m)} |-> job.depths[n]]
PublicEdges == {e \in job.edges : \A n \in Ends(e) : Safe(n)}
Neighbors(n, edges) == {Other(n, e) : e \in {f \in edges : n \in Ends(f)}}
Joined(pair, edges) == \E e \in edges : Ends(e) = pair
PairsOf(ns) == {p \in SUBSET ns : Cardinality(p) = 2}
DepthSpan(ns, depths) ==
  LET ds == {depths[n] : n \in ns}
  IN (CHOOSE d \in ds : \A e \in ds : e <= d) - (CHOOSE d \in ds : \A e \in ds : d <= e)
Frontier(seed, ns, depths) == seed \in ns /\ \E n \in ns \ {seed} : depths[n] > 1

\* _compute_graph_bridge_score(...) >= 0.45, over the common denominator.
GraphSignal(seed, ns, edges, depths, depth) ==
  LET pairs == Cardinality(PairsOf(ns))
      apart == Cardinality({p \in PairsOf(ns) : ~Joined(p, edges)})
  IN 55 * apart * depth + 25 * DepthSpan(ns, depths) * pairs
       + (IF Frontier(seed, ns, depths) THEN 20 * pairs * depth ELSE 0)
     >= 45 * pairs * depth

\* Mutant of IsCandidate: neighbors outside the vault count.
CandidateOfAll(n) ==
  LET ns == Neighbors(n, job.edges)
  IN n # job.seed /\ Safe(n) /\ Cardinality(ns) >= 2

IsCandidate(n) ==
  LET ns == Neighbors(n, PublicEdges)
  IN /\ n # job.seed /\ Cardinality(ns) >= 2
     /\ job.alike \/ GraphSignal(job.seed, ns, PublicEdges, PublicDepths, job.depth)

\* The documents of a set by id.
Sorted(ns) == CHOOSE s \in [1..Cardinality(ns) -> ns] :
                \A i, j \in DOMAIN s : i < j => s[i] < s[j]

EndSubgraph ==
  /\ job.at = "visit" /\ job.queue = <<>>
  /\ LET cs == Sorted({n \in Docs : IsCandidate(n)})
     IN job' = IF job.kind = "subgraph" THEN [job EXCEPT !.at = "done"]
               ELSE [job EXCEPT !.at = "next",
                                !.todo = [i \in DOMAIN cs |-> <<job.seed, cs[i]>>]]
  /\ UNCHANGED tables

(* explain_relation: a list for the direct relations, then a search.          *)
AskExplanation ==
  /\ job.at = "idle" /\ "explain" \in Kinds
  /\ \E a, b \in Docs, d \in Depths, l \in Limits :
       /\ a # b
       /\ job' = [Idle EXCEPT !.at = "next", !.kind = "explain", !.seed = a, !.depth = d,
                              !.max = l, !.todo = <<<<a, b>>>>]
  /\ UNCHANGED tables

Explained(found, path, support) ==
  [job EXCEPT !.at = "next", !.todo = Tail(@), !.queue = <<>>, !.list = <<>>,
              !.best = <<>>, !.path = NoPath,
              !.got = Append(@, [ends |-> Head(job.todo), found |-> found,
                                 path |-> path, support |-> support])]

\* get_relations_between lists twice the limit of the first document.
Direct ==
  /\ job.at = "next" /\ job.todo # <<>>
  /\ LET a == Head(job.todo)[1]
         b == Head(job.todo)[2]
         rows == First(SelectSeq(ListRelations(a, 2 * job.max.rows),
                                 LAMBDA r : Ends(r) = {a, b}), job.max.rows)
     IN IF rows # <<>>
        THEN job' = [Explained(TRUE, <<rows[1]>>, rows)
                       EXCEPT !.cut = @ \/ Cuts(a, 2 * job.max.rows)]
        ELSE job' = [job EXCEPT !.at = "search", !.queue = <<[doc |-> a, path |-> NoPath]>>,
                                !.best = [n \in {a} |-> 0],
                                !.cut = @ \/ Cuts(a, 2 * job.max.rows)]
  /\ UNCHANGED tables

\* _find_shortest_path
Search ==
  /\ job.at = "search"
  /\ IF job.queue = <<>> THEN job' = Explained(FALSE, NoPath, <<>>)
     ELSE LET h == Head(job.queue)
          IN job' = [job EXCEPT !.at = "scan", !.cur = h.doc, !.path = h.path, !.queue = Tail(@),
                                !.list = ListRelations(h.doc, job.max.rows),
                                !.cut = @ \/ Cuts(h.doc, job.max.rows)]
  /\ UNCHANGED tables

\* Mutant of MayGrow: off by one.
MayGrowOnce(path) == Len(path) <= job.depth
MayGrow(path) == Len(path) < job.depth

Scan ==
  /\ job.at = "scan"
  /\ IF job.list = <<>> THEN job' = [job EXCEPT !.at = "search"]
     ELSE LET r == Head(job.list)
              n == Other(job.cur, r)
              path == Append(job.path, r)
          IN CASE n = Head(job.todo)[2] -> job' = Explained(TRUE, path, path)
               [] n # Head(job.todo)[2] /\ MayGrow(path)
                    /\ (n \notin DOMAIN job.best \/ job.best[n] > Len(path))
                  -> job' = [job EXCEPT
                         !.list = Tail(@),
                         !.best = [m \in DOMAIN @ \cup {n} |-> IF m = n THEN Len(path) ELSE @[m]],
                         !.queue = Append(@, [doc |-> n, path |-> path])]
               [] OTHER -> job' = [job EXCEPT !.list = Tail(@)]
  /\ UNCHANGED tables

(* contrast: two retrieval answers and an explanation for every pair.         *)
Retrieved(s) == SelectSeq(s, LAMBDA h : Safe(h.doc))

AskContrast ==
  /\ job.at = "idle" /\ "contrast" \in Kinds
  /\ \E s, t \in {h \in Hits : \A i \in DOMAIN h : h[i].chunk = 0}, l \in Limits :
       LET a == Retrieved(s)
           b == Retrieved(t)
           all == [i \in 1..(Len(a) * Len(b)) |->
                     <<a[((i - 1) \div Len(b)) + 1].doc, b[((i - 1) % Len(b)) + 1].doc>>]
       IN job' = [Idle EXCEPT !.at = "next", !.kind = "contrast", !.depth = 2, !.max = l,
                              !.todo = SelectSeq(all, LAMBDA p : p[1] # p[2])]
  /\ UNCHANGED tables

(* collect_evidence: the first hit is the seed, its best chunk stands for it; *)
(* the other chunks follow, then the documents no chunk stands for.  Chunks   *)
(* come only from a searcher that is injected: the router of the application  *)
(* builds its retrievers late and shows none (_search_chunk_results).         *)
BestChunk(chunks, doc) == SelectSeq(chunks, LAMBDA c : c.doc = doc)
EvidenceItems(hits, chunks) ==
  LET seed == IF hits # <<>> THEN Head(hits) ELSE Head(chunks)
      own == BestChunk(chunks, seed.doc)
      first == IF own # <<>> THEN Head(own) ELSE seed
      others == First(SelectSeq(chunks, LAMBDA c : c # first), TopK - 1)
      shown == {first.doc} \cup {others[i].doc : i \in DOMAIN others}
  IN <<first>> \o others \o SelectSeq(hits, LAMBDA h : h.doc \notin shown)

AskEvidence ==
  /\ job.at = "idle" /\ "evidence" \in Kinds
  /\ \E s, t \in Hits, d \in Depths, l \in Limits :
       LET hits == Retrieved(s)
           chunks == Retrieved(t)
           items == EvidenceItems(hits, chunks)
           asked == SelectSeq(items, LAMBDA h : h.doc # items[1].doc)
       IN /\ \A i \in DOMAIN s : s[i].chunk = 0
          /\ \A i \in DOMAIN t : t[i].chunk # 0
          /\ hits \o chunks # <<>>
          /\ job' = [Idle EXCEPT !.at = "next", !.kind = "evidence", !.seed = items[1].doc,
                       !.depth = d, !.max = l, !.items = items,
                       !.todo = [i \in DOMAIN asked |-> <<items[1].doc, asked[i].doc>>]]
  /\ UNCHANGED tables

EndExplanations ==
  /\ job.at = "next" /\ job.todo = <<>>
  /\ job' = [job EXCEPT !.at = "done"]
  /\ UNCHANGED tables

Reply == job.at = "done" /\ job' = Idle /\ UNCHANGED tables

(* The writers: upsert_relation, and the deletes of relations.                *)
Disturbed == IF job.at = "idle" THEN job ELSE [job EXCEPT !.quiet = FALSE]

Upsert ==
  /\ edits < MaxEdits
  /\ \E a, b \in Docs, ty \in Types :
       LET same(r) == r.src = a /\ r.dst = b /\ r.type = ty
           old == SelectSeq(rels, same)
           id == IF old # <<>> THEN old[1].id ELSE lastId + 1
       IN /\ a # b
          /\ lastId' = lastId + (IF old # <<>> THEN 0 ELSE 1)
          /\ rels' = Append(SelectSeq(rels, LAMBDA r : ~same(r)),
                            [id |-> id, src |-> a, dst |-> b, type |-> ty])
  /\ edits' = edits + 1 /\ job' = Disturbed
  /\ UNCHANGED outside

DeleteOutgoing ==
  /\ edits < MaxEdits
  /\ \E a \in Docs : rels' = SelectSeq(rels, LAMBDA r : r.src # a) /\ rels' # rels
  /\ edits' = edits + 1 /\ job' = Disturbed
  /\ UNCHANGED <<outside, lastId>>

Init ==
  /\ rels \in Stores /\ outside \in Outside
  /\ job = Idle /\ lastId = Len(rels) /\ edits = 0

Next ==
  \/ AskSubgraph \/ AskBridges \/ AskExplanation \/ AskContrast \/ AskEvidence
  \/ Visit \/ Collect \/ EndSubgraph \/ Direct \/ Search \/ Scan
  \/ EndExplanations \/ Reply
  \/ Upsert \/ DeleteOutgoing
Spec == Init /\ [][Next]_vars

-----------------------------------------------------------------------------
(* What the tools accept of an answer.                                        *)
\* _walk_relation_path: the documents of a path, none of them twice.
NodesOf(a, path) ==
  LET node[i \in 0..Len(path)] == IF i = 0 THEN a ELSE Other(node[i - 1], path[i])
  IN [i \in 1..(Len(path) + 1) |-> node[i - 1]]
Walks(a, b, path) ==
  LET ns == NodesOf(a, path)
  IN /\ \A i \in DOMAIN path : ns[i] \in Ends(path[i])
     /\ \A i, j \in DOMAIN ns : i # j => ns[i] # ns[j]
     /\ ns[Len(ns)] = b

SubgraphStrict ==
  /\ Cardinality(DOMAIN job.depths) <= job.max.nodes /\ Cardinality(job.edges) <= job.max.edges
  /\ \A n \in DOMAIN job.depths :
       /\ job.depths[n] <= job.depth
       /\ job.depths[n] = 0 <=> n = job.seed
       /\ n = job.seed \/ \E e \in job.edges :
            n \in Ends(e) /\ job.depths[Other(n, e)] = job.depths[n] - 1
  /\ \A e \in job.edges : Ends(e) \subseteq DOMAIN job.depths
  /\ \A e, f \in job.edges : e.id = f.id => e = f
  /\ job.truncated => \/ Cardinality(DOMAIN job.depths) = job.max.nodes
                      \/ Cardinality(job.edges) = job.max.edges

ExplanationStrict(x, depth) ==
  LET a == x.ends[1]
      b == x.ends[2]
  IN \/ /\ x.found /\ Len(x.path) = 1 /\ x.support # <<>> /\ x.path[1] = x.support[1]
        /\ \A i \in DOMAIN x.support : Ends(x.support[i]) = {a, b}
     \/ /\ x.found /\ Len(x.path) \in 2..depth /\ x.support = x.path /\ Walks(a, b, x.path)
     \/ /\ ~x.found /\ x.path = <<>> /\ x.support = <<>>

\* _build_bridge_evidence_path: the path that explains the candidate and, next
\* to it, every public edge of the candidate.
EvidencePath(x) == {x.path[i] : i \in DOMAIN x.path} \cup
                   {e \in PublicEdges : x.ends[2] \in Ends(e)}

\* _bridge_supporting_subgraph_is_coherent: nodes, depths and edges from which
\* the scores of candidate n can be computed again.
SupportStrict(n, ns) ==
  /\ n \in DOMAIN PublicDepths /\ PublicDepths[n] \in 1..job.depth
  /\ ns \subseteq DOMAIN PublicDepths
  /\ \A m \in DOMAIN PublicDepths : PublicDepths[m] = 0 <=> m = job.seed
  /\ \A e \in PublicEdges : \A a, b \in Ends(e) :
       {a, b} \subseteq DOMAIN PublicDepths /\ PublicDepths[a] - PublicDepths[b] <= 1
  /\ ns = Neighbors(n, PublicEdges)

\* _strict_bridge_payload, one item.
BridgeStrict(x) ==
  LET n == x.ends[2]
      path == EvidencePath(x)
      ns == Neighbors(n, path)
  IN /\ Cardinality(ns) >= 2 /\ n \notin ns
     /\ SupportStrict(n, ns)
     /\ Len(x.path) \in 1..job.depth /\ Walks(job.seed, n, x.path)
     /\ \A e \in path : \E f \in PublicEdges : e.id = f.id
     /\ job.alike \/ GraphSignal(job.seed, ns, PublicEdges, PublicDepths, job.depth)

\* The bridges and the pairs of a contrast that are shown: explained, and with
\* no document outside the vault on the way.
Shown == {i \in DOMAIN job.got : /\ job.got[i].found
                                 /\ SafeRows(job.got[i].path) /\ SafeRows(job.got[i].support)}
TypesOf(s) == {s[i].type : i \in DOMAIN s}
ContrastStrict(x) == /\ Len(x.path) \in 1..2 /\ Walks(x.ends[1], x.ends[2], x.path)
                     /\ TypesOf(x.path) = TypesOf(x.path) \cup TypesOf(x.support)

\* An item of collected evidence; the seed is there once.
EvidenceItemStrict(x) ==
  x.found => /\ Len(x.path) \in 1..job.depth /\ Walks(x.ends[1], x.ends[2], x.path)
             /\ x.support = x.path
OneSeed == Cardinality({i \in DOMAIN job.items : job.items[i].doc = job.seed}) = 1

Answered(kind) == job.at = "done" /\ job.kind = kind
Explanations == {job.got[i] : i \in DOMAIN job.got}

-----------------------------------------------------------------------------
(* The graph as it is, to compare the answers with.                           *)
Ball(n, depth) ==
  LET ball[k \in 0..depth] == IF k = 0 THEN {n}
                              ELSE ball[k - 1] \cup
                                   UNION {Ends(rels[i]) : i \in {j \in DOMAIN rels :
                                                     Ends(rels[j]) \cap ball[k - 1] # {}}}
  IN ball[depth]
Distance(a, b) == CHOOSE k \in 0..Cardinality(Docs) :
                    b \in Ball(a, k) /\ (k = 0 \/ b \notin Ball(a, k - 1))

ATypeOK ==
  /\ rels \in Seq(Rows) /\ outside \subseteq Docs
  /\ lastId \in Nat /\ edits \in 0..MaxEdits
  /\ job.at \in {"idle", "visit", "collect", "next", "search", "scan", "done"}
  /\ DOMAIN job.depths \subseteq Docs /\ job.edges \subseteq Rows
  /\ job.list \in Seq(Rows) /\ job.path \in Seq(Rows)

\* Whatever is written between its lists, a subgraph is connected to its seed
\* by the edges it shows, its ends are among its nodes, and it says truncated
\* only when a limit was met: the tool never has to refuse it.
SubgraphsAreCoherent == job.kind \in {"subgraph", "bridges"} => SubgraphStrict

\* The three parts of a bridge come from separate reads: the subgraph, the
\* list of direct relations and the path search.  When the table stood still
\* and no list was cut they agree, truncated or not, and the tool accepts them.
AgreeingReads == job.quiet /\ ~job.cut
BridgesAreAccepted ==
  Answered("bridges") /\ AgreeingReads => \A i \in Shown : BridgeStrict(job.got[i])

\* An explanation is accepted when the table stood still, and it is then the
\* shortest there is; it says not found only when the documents are too far.
ExplanationsAreShortest ==
  Answered("explain") /\ job.quiet =>
    \A x \in Explanations :
      /\ ExplanationStrict(x, job.depth)
      /\ ~job.cut =>
           /\ x.found <=> x.ends[2] \in Ball(x.ends[1], job.depth)
           /\ x.found => Len(x.path) = Distance(x.ends[1], x.ends[2])

\* A subgraph that is not truncated and whose lists were not cut is the whole
\* ball around the seed, with the true distances and every edge but those
\* between two of its outermost documents.
SubgraphsAreComplete ==
  /\ Answered("subgraph") /\ AgreeingReads /\ ~job.truncated
  => /\ DOMAIN job.depths = Ball(job.seed, job.depth)
     /\ \A n \in DOMAIN job.depths : job.depths[n] = Distance(job.seed, n)
     /\ \A i \in DOMAIN rels :
          Ends(rels[i]) \cap Ball(job.seed, job.depth - 1) # {} => rels[i] \in job.edges

\* No document outside the vault is named by a bridge or a contrast.
NothingOutsideIsShown ==
  job.at = "done" /\ job.kind \in {"bridges", "contrast"} =>
    \A i \in Shown : \A n \in {job.got[i].ends[1], job.got[i].ends[2]} \cup
                              UNION {Ends(job.got[i].path[j]) : j \in DOMAIN job.got[i].path} :
                       Safe(n)

\* Two documents joined by one relation only, and one chunk of the seed: what
\* contrast and collect_evidence answer is then accepted.
SingleRelations ==
  \A i, j \in DOMAIN rels : Ends(rels[i]) = Ends(rels[j]) => i = j
PairsAreAccepted ==
  job.quiet /\ SingleRelations =>
    /\ Answered("contrast") => \A i \in Shown : ContrastStrict(job.got[i])
    /\ Answered("evidence") => \A x \in Explanations : EvidenceItemStrict(x)

AnswersAreAccepted == SubgraphsAreCoherent /\ BridgesAreAccepted /\ PairsAreAccepted
AnswersAreTrue == ExplanationsAreShortest /\ SubgraphsAreComplete /\ NothingOutsideIsShown

\* What _strict_collected_evidence_payload asserts of every answer of
\* collect_evidence.  Two relations between the seed and an item break it (and
\* so would two chunks of the seed from an injected searcher).
EvidenceIsAccepted ==
  Answered("evidence") /\ job.quiet => OneSeed /\ \A x \in Explanations : EvidenceItemStrict(x)
\* The literal edge_completeness of a bridge's support.
TruncationIsTold ==
  Answered("bridges") /\ job.quiet /\ ~job.truncated =>
    DOMAIN job.depths = Ball(job.seed, job.depth)
=============================================================================
