---------------------------- MODULE ArchiveRequest ----------------------------
(***************************************************************************)
(* One archive call and what its caller is told: archive_url, archive_text  *)
(* and archive_cli_input of KnowledgeApplication with                       *)
(* _run_r4_ingress_request and R4IngressLifecycle.submit_and_drain, and the *)
(* replies that src/src/mcp/tools.py and src/src/cli/commands.py publish.   *)
(*                                                                         *)
(* The call takes and gives back the write lease several times; whenever it *)
(* does not hold it, another process may, and that process works on the     *)
(* same task or deletes the document.  What happens inside one lease scope  *)
(* is one step: IngressLifecycle, ContentLifecycle and DerivationLifecycle  *)
(* are about its inside.  Here the three tasks are what the reply tells     *)
(* apart.                                                                  *)
(***************************************************************************)
EXTENDS Integers, FiniteSets

CONSTANTS
    Adapters,     \* subset of {"mcp", "cli", "json"}; json: archive-text --format json
    MaxOthers,    \* bound: steps of another process
    MaxFailures   \* bound: steps of the call that fail

\* What an instance must satisfy.
ArchiveRequestAssumption ==
    /\ Adapters \subseteq {"mcp", "cli", "json"}
    /\ {MaxOthers, MaxFailures} \subseteq Nat

VARIABLES
    q0,     \* the ingress task of this call: "none", one of OpenQ0 or "rejected"
    mine,   \* the claim on a processing task is this call's
    q1,     \* its content task: "none", "open", "committed", or "ended" (rejected,
            \* superseded or for repair by hand)
    q2,     \* its derivation: "none", "pending", "completed", or "held" (no budget,
            \* no authorization, superseded, or to be retried later)
    doc,    \* the row and the file: "none", "there", "torn" (no file) or "gone"
    lease,  \* "free" or "other"; the call holds it within one step only
    call,
    count

vars == <<q0, mine, q1, q2, doc, lease, call, count>>

OpenQ0 == {"accepted", "processing", "prepared", "submitted", "retry_required"}
NoResult == [q0 |-> "none", q1 |-> "none", error |-> FALSE]
NoReply == [kind |-> "none", hold |-> FALSE, id |-> FALSE]

Init ==
    /\ q0 = "none" /\ mine = FALSE /\ q1 = "none" /\ q2 = "none" /\ doc = "none"
    /\ lease = "free"
    /\ call = [at |-> "idle", adapter |-> "none", own |-> FALSE, drained |-> FALSE,
               result |-> NoResult, id |-> FALSE, ready |-> FALSE, reply |-> NoReply]
    /\ count = [others |-> 0, failures |-> 0]

-----------------------------------------------------------------------------
(* The reply *)

\* What the MCP tool does not accept of the application ...
ToolRefuses(r, status) == \/ r.kind = "pending" /\ status \notin OpenQ0
                          \/ r.kind = "repair" /\ ~ r.id
\* ... and what the two commands do not; the JSON form of an error has no mark.
CommandRefuses(r, status) == r.kind = "pending" /\ status \notin OpenQ0
JsonForgets(r) == r.kind = "repair"

\* A result that breaks their contract becomes an error without a mark.
Published(adapter, r, status) ==
    IF \/ adapter = "mcp" /\ ToolRefuses(r, status)
       \/ adapter # "mcp" /\ CommandRefuses(r, status)
       \/ adapter = "json" /\ JsonForgets(r)
    THEN [NoReply EXCEPT !.kind = "error"] ELSE r

Reply(kind, hold, id) ==
    [call EXCEPT !.at = "replied",
                 !.reply = Published(call.adapter, [kind |-> kind, hold |-> hold, id |-> id],
                                     call.result.q0)]
\* _workflow_failure: the code of the error and nothing else.
Error == Reply("error", FALSE, FALSE)
Busy == Reply("busy", FALSE, FALSE)

Goto(at) == call' = [call EXCEPT !.at = at]
Durable == <<q0, mine, q1, q2, doc>>

\* The step fails for a reason of its own: storage, the network, another task.
Fails ==
    /\ count.failures < MaxFailures
    /\ count' = [count EXCEPT !.failures = @ + 1]

\* A lease scope: another writer ends the call with write_busy.
Scope(at, Work) ==
    /\ call.at = at
    /\ \/ lease = "other" /\ call' = Busy /\ UNCHANGED <<Durable, count>>
       \/ lease = "free" /\ Work
    /\ UNCHANGED lease

-----------------------------------------------------------------------------
(* The call *)

Ask(adapter, valid) ==
    /\ call.at = "idle"
    /\ LET asked == [call EXCEPT !.adapter = adapter, !.at = "admit"]
       IN call' = IF valid THEN asked
                  ELSE [asked EXCEPT !.at = "replied", !.reply.kind = "error"]
    /\ UNCHANGED <<Durable, lease, count>>

\* admit: the request file, the row, the workspace.
Admit ==
    Scope("admit",
        \/ q0' = "accepted" /\ Goto("recover") /\ UNCHANGED <<mine, q1, q2, doc, count>>
        \/ Fails /\ call' = Error /\ q0' \in {"none", "accepted"} /\ UNCHANGED <<mine, q1, q2, doc>>)

\* recover_and_drain: claims that have run out ...
Recover ==
    Scope("recover",
        \/ Goto("pass") /\ UNCHANGED <<Durable, count>>
        \/ Fails /\ call' = Error /\ UNCHANGED Durable)

\* ... then up to eight open tasks, in the order of their age: older
\* ones come before this one, and may take all the places.  An exception of one
\* of them ends this call.
Pass ==
    /\ call.at = "pass"
    /\ \/ /\ q0 \in OpenQ0 \ {"submitted"}
          /\ call' = [call EXCEPT !.at = "drain", !.own = TRUE] /\ UNCHANGED count
       \/ Goto("close") /\ UNCHANGED count
       \/ lease = "other" /\ call' = Busy /\ UNCHANGED count
       \/ Fails /\ call' = Error
    /\ UNCHANGED <<Durable, lease>>

Returned(s0, s1, failed) ==
    [call EXCEPT !.result = [q0 |-> s0, q1 |-> s1, error |-> failed], !.drained = TRUE,
                 !.at = IF call.own THEN "close" ELSE "result"]

\* R4ContentLifecycle.drain_task of the content task of this call: done before,
\* committed now, or left (an older task is first, a step failed, the row is
\* there but the commit is not proven).
Q1Drained ==
    \/ q1 \in {"committed", "ended"} /\ UNCHANGED <<q1, q2, doc>>
    \/ /\ q1 \in {"none", "open"}
       /\ \/ q1' = "committed" /\ q2' \in {"pending", "held"} /\ doc' = "there"
          \/ q1' = "open" /\ doc' \in {doc, "there"} /\ UNCHANGED q2
          \/ q1' = "ended" /\ UNCHANGED <<q2, doc>>

\* _submit_prepared_under_lease
Submit ==
    \/ /\ q0' = "submitted" /\ Q1Drained
       /\ call' = Returned("submitted", q1', FALSE) /\ UNCHANGED <<mine, count>>
    \/ /\ Fails /\ call' = Error
       /\ \E tasks \in {<<q0, q1>>} \cup
                 IF q1 = "none" THEN {<<"prepared", "open">>, <<"submitted", "open">>}
                 ELSE {<<"submitted", q1>>} :
             q0' = tasks[1] /\ q1' = tasks[2]
       /\ UNCHANGED <<mine, q2, doc>>

\* drain_task up to the claim
Drain ==
    Scope("drain",
        \/ q0 \in {"prepared", "submitted"} /\ Submit
        \/ /\ q0 \in {"processing", "rejected"}
           /\ call' = Returned(q0, "none", FALSE) /\ UNCHANGED <<Durable, count>>
        \/ /\ q0 \in {"accepted", "retry_required"}
           /\ q0' = "processing" /\ mine' = TRUE /\ Goto("parse") /\ UNCHANGED <<q1, q2, doc, count>>
        \/ \* not due yet, or just claimed
           /\ q0 = "retry_required"
           /\ call' = Returned(q0, "none", FALSE) /\ UNCHANGED <<Durable, count>>)

\* The parser runs without the lease.
Parse ==
    /\ call.at = "parse"
    /\ \/ Goto("store") /\ UNCHANGED count
       \/ Fails /\ call' \in {[call EXCEPT !.at = a] : a \in {"defer", "deny"}}
    /\ UNCHANGED <<Durable, lease>>

\* The fence: a claim that ran out and was given to another is refused.
Fenced(Work) == \/ mine /\ Work
                \/ ~ mine /\ call' = Error /\ UNCHANGED <<Durable, count>>

Store ==
    Scope("store",
        Fenced(\/ /\ q0' = "submitted" /\ mine' = FALSE /\ Q1Drained
                  /\ call' = Returned("submitted", q1', FALSE) /\ UNCHANGED count
               \/ /\ Fails /\ call' = Error
                  /\ \E tasks \in {<<"processing", "none">>, <<"prepared", "none">>,
                                   <<"prepared", "open">>, <<"submitted", "open">>} :
                        q0' = tasks[1] /\ q1' = tasks[2]
                  /\ mine' = (q0' = "processing") /\ UNCHANGED <<q2, doc>>))
\* _mark_prepare_failure
Defer ==
    Scope("defer",
        Fenced(/\ q0' = "retry_required" /\ mine' = FALSE
               /\ call' = Returned(q0', "none", TRUE) /\ UNCHANGED <<q1, q2, doc, count>>))
Deny ==
    Scope("deny",
        Fenced(/\ q0' = "rejected" /\ mine' = FALSE
               /\ call' = Returned(q0', "none", TRUE) /\ UNCHANGED <<q1, q2, doc, count>>))

\* The end of the pass drains content tasks; the result of this call's own task
\* is the one from before.
Close ==
    Scope("close",
        \/ /\ \/ q1 = "none" /\ UNCHANGED <<q1, q2, doc>>
              \/ q1 # "none" /\ Q1Drained
           /\ call' = [call EXCEPT !.own = FALSE,
                                   !.at = IF call.drained THEN "result" ELSE "drain"]
           /\ UNCHANGED <<q0, mine, count>>
        \/ Fails /\ call' = Error /\ UNCHANGED Durable)

\* _run_r4_ingress_request on the result
Result ==
    /\ call.at = "result"
    /\ call' = CASE call.result.error -> Reply("failed", FALSE, TRUE)
                 [] call.result.q1 = "none" -> Reply("pending", TRUE, TRUE)
                 [] OTHER -> [call EXCEPT !.at = "journal"]
    /\ UNCHANGED <<Durable, lease, count>>

\* The knowledge id, from the operation journal.
Journal ==
    /\ call.at = "journal"
    /\ \/ call' = [call EXCEPT !.at = "trigger", !.id = TRUE] /\ UNCHANGED count
       \/ Fails /\ Goto("trigger")
    /\ UNCHANGED <<Durable, lease>>

\* A worker on the derivation of this document; it needs the lease to begin.
Derived(from) == q2' \in IF q2 \in from /\ lease = "free"
                         THEN {"pending", "completed", "held"} ELSE {q2}

\* recover_and_drain of the derivations, whose errors are swallowed
Trigger ==
    /\ call.at = "trigger"
    /\ Derived({"pending", "held"})
    /\ Goto("derive")
    /\ UNCHANGED <<q0, mine, q1, doc, lease, count>>

\* Mutant of Derive: the commit is not asked for.
DeriveOnly ==
    /\ call.at = "derive"
    /\ \/ /\ Derived({"pending"}) /\ UNCHANGED count
          /\ call' = [call EXCEPT !.ready = q2' = "completed", !.at = "row"]
       \/ Fails /\ call' = Error /\ UNCHANGED q2
    /\ UNCHANGED <<q0, mine, q1, doc, lease>>

\* The state of the derivation, after one more try when it is pending; then
\* whether the content has been committed.
Derive ==
    /\ call.at = "derive"
    /\ \/ /\ Derived({"pending"}) /\ UNCHANGED count
          /\ call' = IF call.result.q1 = "committed"
                     THEN [call EXCEPT !.ready = q2' = "completed", !.at = "row"]
                     ELSE Reply("pending", TRUE, TRUE)
       \/ Fails /\ call' = Error /\ UNCHANGED q2
    /\ UNCHANGED <<q0, mine, q1, doc, lease>>

\* _r4_committed_archive_projection: the row, then the file
ReadRow ==
    /\ call.at = "row"
    /\ \/ call.id /\ doc \in {"there", "torn"} /\ Goto("file") /\ UNCHANGED count
       \/ /\ ~ call.id \/ doc = "gone"
          /\ call' = Reply("repair", TRUE, call.id) /\ UNCHANGED count
       \/ Fails /\ call' = Reply("repair", TRUE, call.id)
    /\ UNCHANGED <<Durable, lease>>

ReadFile ==
    /\ call.at = "file"
    /\ \/ /\ doc = "there"
          /\ call' = Reply(IF call.ready THEN "success" ELSE "degraded", TRUE, TRUE)
          /\ UNCHANGED count
       \/ doc # "there" /\ call' = Reply("repair", TRUE, TRUE) /\ UNCHANGED count
       \/ Fails /\ call' = Reply("repair", TRUE, TRUE)
    /\ UNCHANGED <<Durable, lease>>

-----------------------------------------------------------------------------
(* Another process of the same vault *)

Other(Work) ==
    /\ call.at \notin {"idle", "replied"} /\ count.others < MaxOthers
    /\ count' = [count EXCEPT !.others = @ + 1]
    /\ Work
    /\ UNCHANGED call

OtherTakes == Other(lease = "free" /\ lease' = "other" /\ UNCHANGED Durable)
OtherGives == lease = "other" /\ lease' = "free" /\ UNCHANGED <<Durable, call, count>>

\* It takes over a task that waits or whose claim has run out, and brings it on.
OtherClaims ==
    Other(/\ lease = "other" /\ q0 \in {"accepted", "processing", "retry_required"}
          /\ q0' \in {"processing", "retry_required", "rejected"} /\ mine' = FALSE
          /\ UNCHANGED <<q1, q2, doc, lease>>)
OtherSubmits ==
    Other(/\ lease = "other" /\ q0 \in {"processing", "prepared", "submitted"} /\ ~ mine
          /\ q0' = "submitted" /\ Q1Drained /\ UNCHANGED <<mine, lease>>)
OtherDerives ==
    Other(q2 \in {"pending", "held"} /\ q2' \in {"completed", "held"} /\ UNCHANGED <<q0, mine, q1, doc, lease>>)
\* It deletes the document, or the file goes.
OtherRemoves ==
    Other(/\ q1 = "committed"
          /\ \/ doc = "there" /\ doc' = "torn"
             \/ lease = "other" /\ doc # "gone" /\ doc' = "gone"
          /\ UNCHANGED <<q0, mine, q1, q2, lease>>)

Call == \/ \E a \in Adapters, v \in BOOLEAN : Ask(a, v)
        \/ Admit \/ Recover \/ Pass \/ Drain \/ Parse \/ Store \/ Defer \/ Deny \/ Close
        \/ Result \/ Journal \/ Trigger \/ Derive \/ ReadRow \/ ReadFile
Next == \/ Call
        \/ OtherTakes \/ OtherGives \/ OtherClaims \/ OtherSubmits
        \/ OtherDerives \/ OtherRemoves
Spec == Init /\ [][Next]_vars

-----------------------------------------------------------------------------
(* Properties *)

\* What the caller is told is so, whatever another process does to the task
\* meanwhile: an archive that is reported has been committed, it is reported
\* complete only with its derivation complete, a call to repair means that the
\* content was committed, "do not retry" means that a durable task exists, and
\* whoever learns of one without an error learns not to retry.
Told(r) ==
    /\ r.kind \in {"success", "degraded", "repair"} => q1 = "committed"
    /\ r.kind \in {"success", "degraded"} => r.id
    /\ r.kind = "success" => q2 = "completed"
    /\ r.hold => q0 # "none"
    /\ r.kind \in {"success", "degraded", "repair", "pending"} => r.hold
RepliesAreTrue == [][call'.at = "replied" => Told(call.reply)']_vars

\* write_busy may be retried: nothing of the request is left
\* (docs/modules/mcp/MCP_SERVICE_DESIGN.md:775).
BusyLeavesNoTask == call.reply.kind = "busy" => q0 = "none"
=============================================================================
