----------------------------- MODULE EntryReads -----------------------------
(***************************************************************************)
(* The answers about entries that are put together from several reads:      *)
(* list_entries, get_entry and timeline_of of src/src/mcp/tools.py, and the *)
(* resources of src/src/mcp/resources.py for the statistics, the content of *)
(* an entry and the metadata field that an item of a timeline cites.  Every *)
(* read takes a connection or opens a file of its own, and other processes  *)
(* archive, patch and delete in between.                                   *)
(*                                                                         *)
(* A row and the front matter of its file have two of the times, the event  *)
(* and the archiving (the publication is read like the event); a time is a  *)
(* positive number, Odd (no date) or Never (none).  Search is a ranking of  *)
(* documents.                                                              *)
(***************************************************************************)
EXTENDS Integers, FiniteSets, SequencesExt

CONSTANTS
    Docs,        \* positive integers
    Times,       \* dates: positive integers
    Stores,      \* initial pairs <<rows, files>>
    Contents,    \* what other processes write: Records but None
    Limits,      \* of a page and of a timeline
    MaxChanges   \* bound: changes by other processes

Fields == <<"event", "archived">>
Never == 0
Odd == -1
Values == Times \cup {Odd, Never}
None == [event |-> Never, archived |-> Never, text |-> "none"]
Records == {r \in [event : Values, archived : Values, text : {"none", "empty", "v1", "v2"}] :
              r.text = "none" => r = None}

\* What an instance must satisfy.
EntryReadsAssumption ==
    /\ IsFiniteSet(Docs) /\ Docs \cup Times \subseteq Nat \ {0}
    /\ \A s \in Stores : s[1] \in [Docs -> Records] /\ s[2] \in [Docs -> Records]
    /\ Contents \subseteq Records \ {None}
    /\ Limits \subseteq Nat \ {0} /\ MaxChanges \in Nat

VARIABLES
    rows, files,   \* None: no such row, no such file
    job,           \* the question
    quiet,         \* nothing has changed since it was asked
    seen,          \* the <<field, value>> that the document being read has had
                   \* since the read of its row: history
    changes

vars == <<rows, files, job, quiet, seen, changes>>

Present == {d \in Docs : rows[d] # None}
NoJob == [at |-> "idle", kind |-> "none", limit |-> 0, order |-> "asc", doc |-> 0, row |-> None,
          todo |-> <<>>, times |-> <<>>, items |-> <<>>, counts |-> <<>>, reply |-> "none"]

Init ==
    /\ \E s \in Stores : rows = s[1] /\ files = s[2]
    /\ job = NoJob /\ quiet = TRUE /\ seen = {} /\ changes = 0

World == <<rows, files, quiet, changes>>
Goto(at) == job' = [job EXCEPT !.at = at]
Answer(reply) == job' = [job EXCEPT !.at = "done", !.reply = reply]
Read(at, Work) == job.at = at /\ Work /\ UNCHANGED World
\* The answer when a read raises an exception, here and in every step below.
Breaks == Answer("failed") /\ UNCHANGED seen

\* read_persisted_metadata_field on a row that was read before: nothing without
\* a file, the row first, then the front matter.
Persisted(d, row, f) == CASE files[d] = None -> Never
                          [] row[f] # Never -> row[f]
                          [] OTHER -> files[d][f]
Held(d) == {<<f, rows[d][f]>> : f \in {"event", "archived"}} \cup
           {<<f, files[d][f]>> : f \in {"event", "archived"}}

-----------------------------------------------------------------------------
(* Pages, statistics, one entry, one field *)

Ask(kind, limit, order, d) ==
    /\ job.at = "idle"
    /\ job' = [NoJob EXCEPT !.kind = kind, !.limit = limit, !.order = order, !.doc = d,
                            !.at = CASE kind = "list" -> "page" [] kind = "stats" -> "total"
                                     [] kind = "timeline" -> "search" [] OTHER -> "row"]
    /\ quiet' = TRUE
    /\ UNCHANGED <<rows, files, seen, changes>>

\* One page: some of the entries, then how many there are.
ListPage ==
    Read("page", \/ /\ \E n \in 0..job.limit : n <= Cardinality(Present) /\ job' =
                         [job EXCEPT !.counts = <<n>>, !.at = "count"]
                    /\ UNCHANGED seen
                 \/ Breaks)
CountEntries ==
    Read("count", \/ /\ Answer(IF Cardinality(Present) < job.counts[1] THEN "refused" ELSE "answered")
                     /\ UNCHANGED seen
                  \/ Breaks)

\* get_statistics: the entries, the entries of each source, the uses of tags.
StatTotal ==
    Read("total", \/ /\ job' = [job EXCEPT !.counts = <<Cardinality(Present)>>, !.at = "sources"]
                     /\ UNCHANGED seen
                  \/ Breaks)
StatSources ==
    Read("sources", \/ /\ job' = [job EXCEPT !.counts = Append(@, Cardinality(Present)), !.at = "tags"]
                       /\ UNCHANGED seen
                    \/ Breaks)
StatTags ==
    Read("tags", \/ \E most \in 0..Cardinality(Present) :
                      /\ Answer(IF job.counts[1] = job.counts[2] /\ most <= job.counts[1]
                                THEN "answered" ELSE "refused")
                      /\ UNCHANGED seen
                 \/ Breaks)

\* The row, and that its file is in the vault, ...
ReadEntry ==
    Read("row", \/ /\ rows[job.doc] = None /\ Answer("missing") /\ UNCHANGED seen
                \/ /\ rows[job.doc] # None
                   /\ job' = [job EXCEPT !.row = rows[job.doc],
                                         !.at = IF job.kind = "content" THEN "inside" ELSE job.kind]
                   /\ seen' = Held(job.doc)
                \/ Breaks)
RequireFile ==
    Read("inside", IF files[job.doc] = None THEN Breaks ELSE Goto("content") /\ UNCHANGED seen)
\* ... then the text of the file, which get_entry can do without, ...
ReadContent ==
    Read("content", IF files[job.doc].text \in {"none", "empty"} THEN Breaks
                    ELSE Answer("answered") /\ UNCHANGED seen)
ReadText ==
    Read("entry", /\ Answer(IF files[job.doc].text \in {"none", "empty"} THEN "degraded" ELSE "answered")
                  /\ UNCHANGED seen)
\* ... or one field.
ReadField ==
    Read("field", /\ LET v == Persisted(job.doc, job.row, job.order)
                     IN job' = [job EXCEPT !.at = "done", !.times = <<v>>,
                                           !.reply = IF v = Never THEN "missing" ELSE "answered"]
                  /\ UNCHANGED seen)

-----------------------------------------------------------------------------
(* The timeline *)

\* The hits, with what their metadata say of the archiving.
Search ==
    Read("search", \/ /\ \E s \in SetToSeqs(Present) :
                           job' = [job EXCEPT !.at = "item", !.todo =
                              [i \in 1..(IF Len(s) < job.limit THEN Len(s) ELSE job.limit) |->
                                 [doc |-> s[i], archived |-> rows[s[i]].archived]]]
                      /\ UNCHANGED seen
                   \/ Breaks)

\* The row of the next hit; without a row or a file it is left out.
ReadHit ==
    Read("item",
         IF job.todo = <<>> THEN Goto("close") /\ UNCHANGED seen
         ELSE \/ LET d == Head(job.todo).doc
                 IN /\ job' = IF rows[d] = None \/ files[d] = None
                              THEN [job EXCEPT !.todo = Tail(@)]
                              ELSE [job EXCEPT !.row = rows[d], !.times = <<>>, !.at = "times"]
                    /\ seen' = Held(d)
              \/ Breaks)

\* A candidate counts when it is what is kept under its name at this moment:
\* the row's own value, then the one the hit came with.
Candidates(hit, f) ==
    <<job.row[f]>> \o IF f = "archived" THEN <<hit.archived>> ELSE <<>>
\* Mutant of Resolved: the first candidate that is there.
ResolvedByHit(hit, f) ==
    IF job.row[f] # Never THEN job.row[f] ELSE IF f = "archived" THEN hit.archived ELSE Never
Resolved(hit, f) ==
    LET kept == Persisted(hit.doc, job.row, f)
    IN IF kept # Never /\ kept \in ToSet(Candidates(hit, f)) THEN kept ELSE Never

\* _resolve_time_fields, one field after the other, and the item.
Priority(times) == IF times[1] # Never THEN 1 ELSE IF times[2] # Never THEN 2 ELSE 0
Item(hit, times) ==
    LET p == Priority(times)
    IN [doc |-> hit.doc, times |-> times,
        source |-> IF p = 0 THEN "unavailable" ELSE Fields[p],
        value |-> IF p = 0 THEN Never ELSE times[p],
        held |-> p = 0 \/ <<Fields[p], times[p]>> \in seen]
ReadTimes ==
    Read("times",
         LET hit == Head(job.todo)
             times == Append(job.times, Resolved(hit, Fields[Len(job.times) + 1]))
         IN /\ job' = IF Len(times) < 2 THEN [job EXCEPT !.times = times]
                      ELSE [job EXCEPT !.items = Append(@, Item(hit, times)),
                                       !.todo = Tail(@), !.at = "item"]
            /\ UNCHANGED seen)

\* Dates in the order asked for, then what is no date, then no time at all.
Rank(x) == IF x.value = Never THEN 3 ELSE IF x.value = Odd THEN 2 ELSE 1
Before(x, y) ==
    \/ Rank(x) < Rank(y)
    \/ /\ Rank(x) = Rank(y)
       /\ IF Rank(x) = 1 /\ x.value # y.value
          THEN (x.value < y.value) = (job.order = "asc") ELSE x.doc < y.doc

\* list.sort with that key.
Sorted(items) ==
    CHOOSE s \in {[i \in DOMAIN items |-> items[p[i]]] : p \in Injection(DOMAIN items, DOMAIN items)} :
        \A i, j \in DOMAIN items : i < j => ~ Before(s[j], s[i])

\* The field most items have their time from; dates decide when there is one.
Inferred(items) ==
    LET From(f, dated) == Cardinality({i \in DOMAIN items :
                             items[i].source = f /\ (dated => items[i].value \in Times)})
        dated == \E f \in ToSet(Fields) : From(f, TRUE) > 0
        event == From("event", dated)
        archived == From("archived", dated)
    IN CASE event + archived = 0 -> "unavailable" [] event = archived -> "mixed"
         [] event > archived -> "event" [] OTHER -> "archived"

\* The contract of the tool.
ItemIsCoherent(x) ==
    IF x.source = "unavailable" THEN x.value = Never /\ x.times = <<Never, Never>>
    ELSE x.value # Never /\ \E i \in 1..2 : Fields[i] = x.source /\ x.times[i] = x.value
TimelineStrict(items) ==
    /\ Len(items) <= job.limit
    /\ \A i, j \in DOMAIN items : items[i].doc = items[j].doc => i = j
    /\ \A i \in DOMAIN items : ItemIsCoherent(items[i])
    /\ \A i \in 2..Len(items) : Before(items[i - 1], items[i])

EndTimeline ==
    Read("close",
         LET items == Sorted(job.items)
         IN /\ job' = [job EXCEPT !.at = "done", !.items = items, !.counts = <<Inferred(items)>>,
                                  !.reply = IF TimelineStrict(items) THEN "answered" ELSE "refused"]
            /\ UNCHANGED seen)

-----------------------------------------------------------------------------
(* Other processes *)

Change(d, row, file) ==
    /\ changes < MaxChanges /\ changes' = changes + 1
    /\ rows' = [rows EXCEPT ![d] = row] /\ files' = [files EXCEPT ![d] = file]
    /\ quiet' = FALSE
    /\ seen' = IF job.at = "times" /\ Head(job.todo).doc = d THEN seen \cup Held(d)' ELSE seen
    /\ UNCHANGED job

\* An archive publishes the file and then the row, a delete takes the file and
\* then the row, a patch replaces the file and then the row.
Publish(d, r) == rows[d] = None /\ files[d] = None /\ Change(d, None, r)
Commit(d) == rows[d] = None /\ files[d] # None /\ Change(d, files[d], files[d])
TakeFile(d) == files[d] # None /\ Change(d, rows[d], None)
Forget(d) == rows[d] # None /\ files[d] = None /\ Change(d, None, None)
Rewrite(d, r) == rows[d] # None /\ files[d] \notin {None, r} /\ Change(d, rows[d], r)
Follow(d) == rows[d] # None /\ files[d] # None /\ rows[d] # files[d] /\ Change(d, files[d], files[d])

Reads == \/ \E k \in {"list", "timeline"}, n \in Limits, o \in {"asc", "desc"} : Ask(k, n, o, 0)
         \/ Ask("stats", 0, "asc", 0)
         \/ \E d \in Docs : \/ \E k \in {"entry", "content"} : Ask(k, 0, "asc", d)
                            \/ \E f \in ToSet(Fields) : Ask("field", 0, f, d)
         \/ ListPage \/ CountEntries \/ StatTotal \/ StatSources \/ StatTags
         \/ ReadEntry \/ RequireFile \/ ReadContent \/ ReadText \/ ReadField
         \/ Search \/ ReadHit \/ ReadTimes \/ EndTimeline
Changes == \E d \in Docs : \/ Commit(d) \/ TakeFile(d) \/ Forget(d) \/ Follow(d)
                           \/ \E r \in Contents : Publish(d, r) \/ Rewrite(d, r)
Next == Reads \/ Changes
Spec == Init /\ [][Next]_vars

-----------------------------------------------------------------------------
(* Properties *)

Done(kind) == job.at = "done" /\ job.kind = kind

\* Whatever changes between its reads, a timeline is one the tool publishes, and
\* every time in it was kept in the row or in the file of its document since the
\* row was read: the locator of an item never cites a time that only the search
\* had.  While nothing changes it cites what the metadata resource then returns,
\* the first of the times that the row has.
TimelineIsCited ==
    Done("timeline") /\ job.reply # "failed" =>
        /\ job.reply = "answered"
        /\ \A i \in DOMAIN job.items :
             LET x == job.items[i]
             IN /\ x.held
                /\ quiet /\ x.source # "unavailable" => Persisted(x.doc, rows[x.doc], x.source) = x.value
                /\ quiet => x.source = IF rows[x.doc].event # Never THEN "event"
                                       ELSE IF rows[x.doc].archived # Never THEN "archived"
                                       ELSE "unavailable"

\* A page and the statistics are refused only when entries came or went between
\* their reads.
RefusalsAreRaces == Done("list") \/ Done("stats") => (job.reply = "refused" => ~ quiet)

ReadsHold == TimelineIsCited /\ RefusalsAreRaces
=============================================================================
