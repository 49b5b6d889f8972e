----------------------------- MODULE MCServices -----------------------------
(* The relation graph, the search, the answers from several reads, an archive *)
(* call and the inventory of a release build on small instances, in one state *)
(* space.  Each behaviour chooses at its start the one that moves (part); the *)
(* others stay in one initial state.                                          *)
EXTENDS RelationAnswers, TLC

CONSTANTS
  Tocs, Locked, Runtime, OwnTerms, Overrides, InventoryEdits,            \* ReleaseInventory
  SearchDocs, Facets, SearchStores, Strategies, SearchLimits, Floor,
  MaxWrites, SearchFailures,                                             \* KnowledgeSearch
  Adapters, MaxOthers, ArchiveFailures,                                  \* ArchiveRequest
  ReadDocs, Times, ReadStores, Contents, ReadLimits, MaxChanges,         \* EntryReads
  t1

VARIABLES part,
          i_toc, i_over, i_source, i_disk, i_job, i_zip, i_harness, i_edits,
          k_rows, k_index, k_job, k_seen, k_writes,
          c_q0, c_mine, c_q1, c_q2, c_doc, c_lease, c_call, c_count,
          e_rows, e_files, e_job, e_quiet, e_seen, e_changes

Inventories == INSTANCE ReleaseInventory WITH
  MaxEdits <- InventoryEdits,
  toc <- i_toc, over <- i_over, source <- i_source, disk <- i_disk, job <- i_job,
  zip <- i_zip, harness <- i_harness, edits <- i_edits

Searches == INSTANCE KnowledgeSearch WITH
  Docs <- SearchDocs, Stores <- SearchStores, Limits <- SearchLimits,
  MaxFailures <- SearchFailures,
  rows <- k_rows, index <- k_index, job <- k_job, seen <- k_seen, writes <- k_writes

Archives == INSTANCE ArchiveRequest WITH
  MaxFailures <- ArchiveFailures,
  q0 <- c_q0, mine <- c_mine, q1 <- c_q1, q2 <- c_q2, doc <- c_doc, lease <- c_lease,
  call <- c_call, count <- c_count

Reading == INSTANCE EntryReads WITH
  Docs <- ReadDocs, Stores <- ReadStores, Limits <- ReadLimits,
  rows <- e_rows, files <- e_files, job <- e_job, quiet <- e_quiet, seen <- e_seen,
  changes <- e_changes

ASSUME ServicesAssumption == /\ Inventories!InventoryAssumption
                             /\ Searches!SearchAssumption
                             /\ Archives!ArchiveRequestAssumption
                             /\ Reading!EntryReadsAssumption

-----------------------------------------------------------------------------
(* The instances.                                                             *)

\* What a tool run reports: a program and a library of the runtime, and two of
\* ten other entries, one for each way in which an entry has an owner.
Item(n, k, r, d, c, s, f, p) == [name |-> n, kind |-> k, root |-> r, dists |-> d,
                                 condas |-> c, special |-> s, final |-> f, permitted |-> p]
Base == {Item("main", "script", "source", {}, {}, "none", FALSE, TRUE),
         Item("dll", "binary", "lib", {}, {}, "msvc", TRUE, TRUE)}
Extra == {Item("lib", "module", "site", {"dist"}, {}, "none", FALSE, TRUE),
          Item("ext", "binary", "site", {"dist"}, {}, "none", TRUE, TRUE),
          Item("sq", "binary", "library", {}, {"conda"}, "none", TRUE, TRUE),
          Item("hook", "script", "site", {"pyinstaller"}, {}, "hook", FALSE, TRUE),
          Item("cert", "data", "site", {"dist"}, {}, "none", TRUE, FALSE),
          Item("tool", "data", "site", {"tool"}, {}, "none", TRUE, TRUE),
          Item("stray", "binary", "site", {}, {}, "none", TRUE, TRUE),
          Item("odd", "data", "work", {}, {}, "none", TRUE, TRUE),
          Item("w9", "program", "site", {"dist2"}, {}, "none", TRUE, TRUE),
          Item("other", "data", "site", {"dist2"}, {}, "none", FALSE, TRUE)}
MCReports == {Base} \cup {Base \cup {x, y} : x, y \in Extra} \cup {{x} : x \in Base}
MCOverrides == {{"dist2"}, {}, {"dist2", "tool"}}

Says(m, f) == [match |-> m, facet |-> f]
Missing == [match |-> "gone", facet |-> ""]
MCSearchDocs == 1..3
MCSearchStores == {<<Says("all", "x"), Says("all", ""), Says("some", "x")>>,
                   <<Says("some", "x"), Says("none", ""), Says("some", "")>>,
                   <<Says("all", ""), Says("all", "x"), Says("all", "")>>,
                   <<Missing, Says("some", ""), Says("all", "x")>>,
                   <<Says("none", "x"), Missing, Says("none", "")>>,
                   <<Missing, Missing, Missing>>}

\* An entry with two times, with one or two that are no date, and with none and
\* no text; the second entry is a plain one, or its patched file.
Dated(e, a, t) == [event |-> e, archived |-> a, text |-> t]
Entries == {Dated(1, 2, "v1"), Dated(0, -1, "v1"), Dated(-1, 2, "v2"), Dated(0, 0, "empty")}
Absent == Dated(0, 0, "none")
MCReadStores ==
  {<<<<x, y>>, <<v, w>>>> : x, v \in Entries \cup {Absent}, y \in {Dated(1, 2, "v1"), Absent},
                           w \in {Dated(1, 2, "v1"), Dated(0, 1, "v2")}}

inventory == <<i_toc, i_over, i_source, i_disk, i_job, i_zip, i_harness, i_edits>>
search == <<k_rows, k_index, k_job, k_seen, k_writes>>
archive == <<c_q0, c_mine, c_q1, c_q2, c_doc, c_lease, c_call, c_count>>
reading == <<e_rows, e_files, e_job, e_quiet, e_seen, e_changes>>
mcvars == <<part, vars, inventory, search, archive, reading>>

-----------------------------------------------------------------------------
MCDocs == 1..4
Row(i, e) == [id |-> i, src |-> e[1], dst |-> e[2], type |-> e[3]]
Table(s) == [i \in DOMAIN s |-> Row(i, s[i])]
Pairs == <<<<1, 2, t1>>, <<3, 1, t1>>, <<2, 3, t1>>, <<4, 2, t1>>, <<3, 4, t1>>, <<1, 4, t1>>>>
Mirror(s) == [i \in DOMAIN s |-> s[Len(s) + 1 - i]]
\* Every graph of single relations, in two orders of age, and a few with two
\* relations between the same documents.
Graphs == LET picks == {SelectSeq(Pairs, LAMBDA e : e \in p) :
                          p \in SUBSET {Pairs[i] : i \in DOMAIN Pairs}}
          IN picks \cup {Mirror(s) : s \in picks}
MCStores == {Table(s) : s \in Graphs} \cup
            {Table(<<<<1, 2, t1>>, <<2, 1, t1>>>> \o s) : s \in {<<>>, <<<<1, 3, t1>>>>}}
MCLimits == {[rows |-> 4, nodes |-> 3, edges |-> 3], [rows |-> 4, nodes |-> 4, edges |-> 6],
             [rows |-> 2, nodes |-> 4, edges |-> 4]}
MCOutside == {{}, {3}}
Doc(n) == [doc |-> n, chunk |-> 0]
\* Documents only: the router of the application has no searcher for chunks.
MCHits == {<<>>, <<Doc(1)>>, <<Doc(3), Doc(1)>>, <<Doc(1), Doc(4), Doc(2)>>}

\* The table changes next to a running question only (a change before it is
\* another table), and the changes are tried with small tables.
Edited == job.at \notin {"idle", "done"} /\ outside = {} /\ Len(rels) <= 2
          /\ job.max.nodes = 4 /\ job.max.rows = 4
\* Larger tables are asked from two documents only (the tables hold every
\* graph, so the other documents are these two in another graph), and not for
\* contrast and evidence, which are several explanations.
Asked == \/ Len(rels) <= 2
         \/ job'.seed \in {0, 1, 2} /\ job'.kind \notin {"contrast", "evidence"}
         \/ Len(rels) = 3 /\ job'.max.nodes = 4 /\ job'.max.rows = 4
-----------------------------------------------------------------------------
\* The generation holds the documents in one order (the tables differ in which
\* document is what); documents are committed and generations built next to a
\* running search only.
Arranged == \A i \in 2..Len(k_index) : k_index[i - 1] < k_index[i]
\* The number of keywords tells nothing to the vector branch, and one that is
\* not "one" is like another to the keyword branch.
Searched ==
    /\ k_job.at = "idle" => \/ k_job'.route \in {"vector", "related"} /\ k_job'.question = "one"
                            \/ k_job'.route \in {"bm25", "router"}
                            \/ k_job'.route = "hybrid" /\ k_job'.question # "few"
    /\ k_writes' # k_writes => k_job.at \notin {"idle", "done"}
    /\ k_writes' = k_writes /\ k_index' # k_index => k_job.at \in {"lookup", "bind"}
-----------------------------------------------------------------------------
\* Entries change next to running reads only.
Changing == e_changes' # e_changes => e_job.at \notin {"idle", "done"}
-----------------------------------------------------------------------------
InRelations(A) == part = "relations" /\ A
                  /\ UNCHANGED <<part, inventory, search, archive, reading>>
InInventory(A) == part = "inventory" /\ A
                  /\ UNCHANGED <<part, vars, search, archive, reading>>
InSearch(A) == part = "search" /\ A /\ UNCHANGED <<part, vars, inventory, archive, reading>>
InArchive(A) == part = "archive" /\ A /\ UNCHANGED <<part, vars, inventory, search, reading>>
InReads(A) == part = "reads" /\ A /\ UNCHANGED <<part, vars, inventory, search, archive>>

MCInit == /\ part \in {"relations", "inventory", "search", "archive", "reads"}
          /\ Init /\ (part # "relations" => rels = <<>> /\ outside = {})
          /\ Inventories!Init /\ (part # "inventory" => i_over = {} /\ i_toc = {e \in Base : e.name = "main"})
          /\ Searches!Init /\ Arranged
          /\ (part # "search" => k_index = <<0>> /\ k_rows = <<Missing, Missing, Missing>>)
          /\ Archives!Init
          /\ Reading!Init /\ (part # "reads" => e_rows = <<Absent, Absent>>
                                             /\ e_files = <<Absent, Dated(0, 1, "v2")>>)
MCNext == \/ InRelations(Next /\ (edits' # edits => Edited) /\ Asked)
          \/ InInventory(Inventories!Next)
          \/ InSearch(Searches!Next /\ Arranged' /\ Searched)
          \/ InArchive(Archives!Next)
          \/ InReads(Reading!Next /\ Changing)
MCSpec == MCInit /\ [][MCNext]_mcvars

\* The inventory of an archive says what is in it, and its later readers agree
\* with it, see ReleaseInventory.
InventoryInv == Inventories!InventoryIsTrue /\ Inventories!RefusalsComeEarly
\* An answer that reports nothing wrong is whole, and what is shown is real and
\* ranked, see KnowledgeSearch.
SearchInv == Searches!QuietAnswersAreWhole /\ Searches!ShownIsRanked
\* Several reads make one answer that holds, see EntryReads.
ReadsHold == Reading!ReadsHold
\* What the caller of an archive is told is so, see ArchiveRequest.
RepliesAreTrue == Archives!RepliesAreTrue
=============================================================================
