--------------------------- MODULE ServicesProofs ---------------------------
(***************************************************************************)
(* Theorems about the services that hold no lease while they answer, in    *)
(* the state space that the runs share: an archive call and what its       *)
(* caller is told, for any number of steps of another process and of       *)
(* failures; the inventory of a release, for any reports of the tool,      *)
(* environment locks, license materials and edits; and the answers of      *)
(* several reads, for any documents and any changes by other processes.    *)
(***************************************************************************)
EXTENDS MCServices, FiniteSetTheorems, WellFoundedInduction, SequenceTheorems, TLAPS

-----------------------------------------------------------------------------
(* Numbers *)

\* A set of natural numbers has a least one.
LEMMA LeastOf ==
  ASSUME NEW S \in SUBSET Nat, S # {}
  PROVE \E x \in S : \A y \in S : x <= y
  <1> DEFINE R == {ss \in Nat \X Nat : ss[1] < ss[2]}
  <1>1. IsWellFoundedOn(R, Nat)
    BY NatLessThanWellFounded DEF OpToRel
  <1>2. PICK x \in S : \A y \in S : ~ <<y, x>> \in R
    <2> HIDE DEF R
    <2> QED BY <1>1, WFMin
  <1>3. ASSUME NEW y \in S PROVE x <= y
    <2>1. ~ y < x
      BY <1>2
    <2> QED
      BY <2>1
  <1> QED
    BY <1>3

\* A set of numbers that has 0 and what follows each of its members has them all.
LEMMA AllNumbers ==
  ASSUME NEW P \in SUBSET Nat, 0 \in P, \A n \in P : n + 1 \in P
  PROVE  P = Nat
  <1> SUFFICES ASSUME Nat \ P # {} PROVE FALSE
    OBVIOUS
  <1>1. PICK x \in Nat \ P : \A y \in Nat \ P : x <= y
    BY LeastOf
  <1>2. x - 1 \in Nat /\ x - 1 \in P
    BY <1>1
  <1> QED
    BY <1>1, <1>2

\* An order of the first numbers.
Sorts(m, p, R) == /\ p \in [1..m -> 1..m]
                  /\ \A i, j \in 1..m : p[i] = p[j] => i = j
                  /\ \A i, j \in 1..m : i < j => <<p[i], p[j]>> \in R
\* A relation that is a total order of the first numbers.
Orders(R, n) == /\ \A i, j \in 1..n : i # j => <<i, j>> \in R \/ <<j, i>> \in R
                /\ \A i, j, k \in 1..n : <<i, j>> \in R /\ <<j, k>> \in R => <<i, k>> \in R

\* One more number has a place in an order.
LEMMA Inserted ==
  ASSUME NEW m \in Nat, NEW R, Orders(R, m + 1), NEW p, Sorts(m, p, R)
  PROVE  \E q : Sorts(m + 1, q, R)
  <1> DEFINE S == {i \in 1..m : <<m + 1, p[i]>> \in R} \cup {m + 1}
  <1>p. \A i \in 1..m : p[i] \in 1..m /\ p[i] \in 1..(m + 1) /\ p[i] # m + 1
    BY DEF Sorts
  <1>0. S \in SUBSET Nat /\ m + 1 \in S
    OBVIOUS
  <1>1. PICK k \in S : \A i \in S : k <= i
    <2> HIDE DEF S
    <2> QED
      BY <1>0, LeastOf
  <1>2. /\ k \in 1..(m + 1)
        /\ k <= m => <<m + 1, p[k]>> \in R
        /\ \A i \in 1..m : i < k => <<p[i], m + 1>> \in R
    <2>1. k \in 1..(m + 1) /\ (k <= m => <<m + 1, p[k]>> \in R)
      BY <1>1
    <2>2. ASSUME NEW i \in 1..m, i < k PROVE <<p[i], m + 1>> \in R
      <3>1. <<m + 1, p[i]>> \notin R
        BY <1>1, <2>1, <2>2
      <3> QED
        BY <1>p, <3>1 DEF Orders
    <2> QED
      BY <2>1, <2>2
  <1> HIDE DEF S
  <1>3. PICK q : q = [i \in 1..(m + 1) |-> IF i < k THEN p[i]
                                           ELSE IF i = k THEN m + 1 ELSE p[i - 1]]
    OBVIOUS
  <1>4. ASSUME NEW i \in 1..(m + 1)
        PROVE  /\ i < k => i \in 1..m /\ q[i] = p[i]
               /\ i = k => q[i] = m + 1
               /\ i > k => i - 1 \in 1..m /\ q[i] = p[i - 1]
    BY <1>2, <1>3
  <1>5. \A i \in 1..(m + 1) : q[i] \in 1..(m + 1)
    BY <1>2, <1>4, <1>p
  <1>6. ASSUME NEW i \in 1..(m + 1), NEW j \in 1..(m + 1), i < j
        PROVE  q[i] # q[j] /\ <<q[i], q[j]>> \in R
    <2>1. CASE j < k
      BY <1>2, <1>4, <1>6, <2>1 DEF Sorts
    <2>2. CASE k < i
      <3>1. i - 1 \in 1..m /\ j - 1 \in 1..m /\ q[i] = p[i - 1] /\ q[j] = p[j - 1] /\ i - 1 < j - 1
        BY <1>2, <1>4, <1>6, <2>2
      <3> QED
        BY <3>1 DEF Sorts
    <2>3. CASE i < k /\ k < j
      <3>1. i \in 1..m /\ j - 1 \in 1..m /\ q[i] = p[i] /\ q[j] = p[j - 1] /\ i < j - 1
        BY <1>2, <1>4, <1>6, <2>3
      <3> QED
        BY <3>1 DEF Sorts
    <2>4. CASE j = k
      BY <1>2, <1>4, <1>6, <1>p, <2>4
    <2>5. CASE i = k
      <3>1. k \in 1..m /\ <<m + 1, p[k]>> \in R /\ q[i] = m + 1
        BY <1>2, <1>4, <1>6, <2>5
      <3>2. j - 1 \in 1..m /\ q[j] = p[j - 1] /\ k <= j - 1
        BY <1>2, <1>4, <1>6, <2>5
      <3>3. k < j - 1 => <<p[k], p[j - 1]>> \in R
        BY <3>1, <3>2 DEF Sorts
      <3>4. <<m + 1, p[j - 1]>> \in R
        <4>1. p[k] \in 1..(m + 1) /\ p[j - 1] \in 1..(m + 1) /\ m + 1 \in 1..(m + 1)
          BY <1>p, <3>1, <3>2
        <4>2. k = j - 1 \/ k < j - 1
          BY <3>1, <3>2
        <4> QED
          BY <3>1, <3>3, <4>1, <4>2 DEF Orders
      <3> QED
        BY <1>p, <3>1, <3>2, <3>4
    <2> QED
      BY <1>2, <1>6, <2>1, <2>2, <2>3, <2>4, <2>5
  <1>7. \A i, j \in 1..(m + 1) : q[i] = q[j] => i = j
    <2> SUFFICES ASSUME NEW i \in 1..(m + 1), NEW j \in 1..(m + 1), q[i] = q[j], i # j
                 PROVE  FALSE
      OBVIOUS
    <2>1. i < j \/ j < i
      OBVIOUS
    <2> QED
      BY <1>6, <2>1
  <1>8. q \in [1..(m + 1) -> 1..(m + 1)]
    BY <1>3, <1>5
  <1> QED
    BY <1>6, <1>7, <1>8 DEF Sorts

\* Numbers in a total order can be put into that order.
LEMMA Sortable ==
  ASSUME NEW n \in Nat, NEW R, Orders(R, n)
  PROVE  \E p : Sorts(n, p, R)
  <1> DEFINE P == {m \in Nat : m <= n => \E p : Sorts(m, p, R)}
  <1>1. 0 \in P
    <2>1. Sorts(0, <<>>, R)
      BY DEF Sorts
    <2> QED
      BY <2>1
  <1>2. ASSUME NEW m \in Nat, m \in P PROVE m + 1 \in P
    <2> SUFFICES ASSUME m + 1 <= n PROVE \E q : Sorts(m + 1, q, R)
      OBVIOUS
    <2>1. PICK p : Sorts(m, p, R)
      BY <1>2
    <2>2. Orders(R, m + 1)
      BY DEF Orders
    <2> QED
      BY <2>1, <2>2, Inserted
  <1>3. P \in SUBSET Nat
    OBVIOUS
  <1>4. n \in P
    <2> HIDE DEF P
    <2> QED
      BY <1>1, <1>2, <1>3, AllNumbers
  <1> QED
    BY <1>4
-----------------------------------------------------------------------------
(* An archive call and its replies *)

\* Every behaviour of the run is a behaviour of one archive call.
LEMMA RunIsArchive == MCSpec => Archives!Spec
  <1>1. MCInit => Archives!Init
    BY DEF MCInit
  <1>2. [MCNext]_mcvars => [Archives!Next]_(Archives!vars)
    BY DEF MCNext, InRelations, InInventory, InSearch, InArchive, InReads, archive, mcvars,
           Archives!vars
  <1> QED
    BY <1>1, <1>2, PTL DEF MCSpec, Archives!Spec

ReplyKinds == {"none", "error", "busy", "failed", "pending", "repair", "degraded", "success"}
Replies == [kind : ReplyKinds, hold : BOOLEAN, id : BOOLEAN]
CallSteps == {"idle", "admit", "recover", "pass", "drain", "parse", "store", "defer", "deny",
              "close", "result", "journal", "trigger", "derive", "row", "file", "replied"}
Tasks0 == Archives!OpenQ0 \cup {"none", "rejected"}
Tasks1 == {"none", "open", "committed", "ended"}
Results == [q0 : Tasks0, q1 : Tasks1, error : BOOLEAN]
Calls == [at : CallSteps, adapter : {"none"} \cup Adapters, own : BOOLEAN, drained : BOOLEAN,
          result : Results, id : BOOLEAN, ready : BOOLEAN, reply : Replies]
\* A claim is on a task that is being processed, and a content task comes from one
\* that is prepared.
TasksFit == /\ c_q0 \in Tasks0 /\ c_q1 \in Tasks1 /\ c_mine \in BOOLEAN
            /\ c_mine => c_q0 = "processing"
            /\ c_q1 # "none" => c_q0 \in {"prepared", "submitted"}
CallTyped == TasksFit /\ c_call \in Calls

\* What the call knows on its way to a reply: the request is a durable task
\* once it is admitted; a commit that the call has read, and a derivation that
\* it has found complete, stay so whatever another process does.
CallKnows ==
  /\ CallTyped
  /\ c_call.at \in {"idle", "admit"} => c_q0 = "none"
  /\ c_call.at \notin {"idle", "admit", "replied"} => c_q0 # "none"
  /\ c_call.at # "replied" => ~ c_call.reply.hold
  /\ c_call.result.q1 = "committed" => c_q1 = "committed"
  /\ c_call.at \in {"row", "file"} =>
       c_call.result.q1 = "committed" /\ (c_call.ready => c_q2 = "completed")
  /\ c_call.at = "replied" => Archives!Told(c_call.reply)

\* A call that has not begun knows nothing, and that is so.
LEMMA CallInit == Archives!Init => CallKnows
  <1> SUFFICES ASSUME Archives!Init PROVE CallKnows
    OBVIOUS
  <1>1. TasksFit
    BY DEF Archives!Init, TasksFit, Tasks0, Tasks1
  <1>2. [kind |-> "none", hold |-> FALSE, id |-> FALSE] \in Replies
    BY DEF Replies, ReplyKinds
  <1>3. [q0 |-> "none", q1 |-> "none", error |-> FALSE] \in Results
    BY DEF Results, Tasks0, Tasks1
  <1>4. c_call \in Calls
    BY <1>2, <1>3 DEF Archives!Init, Calls, CallSteps, Archives!NoResult, Archives!NoReply
  <1>5. /\ c_q0 = "none" /\ c_call.at = "idle" /\ c_call.result.q1 = "none"
        /\ ~ c_call.reply.hold
    BY DEF Archives!Init, Archives!NoResult, Archives!NoReply
  <1> QED
    BY <1>1, <1>4, <1>5 DEF CallKnows, CallTyped

\* An adapter publishes a reply or an error that promises nothing.
LEMMA PublishedIs ==
  ASSUME NEW a, NEW r, NEW s
  PROVE  \/ Archives!Published(a, r, s) = r
         \/ Archives!Published(a, r, s) = [kind |-> "error", hold |-> FALSE, id |-> FALSE]
  BY DEF Archives!Published, Archives!NoReply

\* A reply whose promises are kept ends the call well: what the step does to the
\* tasks is known before.
LEMMA ReplyHolds ==
  ASSUME CallKnows, NEW k \in ReplyKinds, NEW h \in BOOLEAN, NEW i \in BOOLEAN,
         c_call' = Archives!Reply(k, h, i), TasksFit',
         c_q1 = "committed" => c_q1' = "committed",
         Archives!Told([kind |-> k, hold |-> h, id |-> i])'
  PROVE  CallKnows'
  <1> DEFINE r == [kind |-> k, hold |-> h, id |-> i]
  <1>0. PICK p : p = Archives!Published(c_call.adapter, r, c_call.result.q0)
    OBVIOUS
  <1>1. p = r \/ p = [kind |-> "error", hold |-> FALSE, id |-> FALSE]
    BY <1>0, PublishedIs
  <1>2. c_call' = [c_call EXCEPT !.at = "replied", !.reply = p]
    BY <1>0 DEF Archives!Reply
  <1>3. p \in Replies
    <2>1. "error" \in ReplyKinds
      BY DEF ReplyKinds
    <2>2. [kind |-> "error", hold |-> FALSE, id |-> FALSE] \in Replies /\ r \in Replies
      BY <2>1 DEF Replies
    <2> QED
      BY <1>1, <2>2
  <1>4. Archives!Told(p)'
    BY <1>1 DEF Archives!Told
  <1>5. c_call' \in Calls /\ c_call'.at = "replied" /\ c_call'.reply = p
        /\ c_call'.result = c_call.result
    BY <1>2, <1>3 DEF CallKnows, CallTyped, TasksFit, Calls, CallSteps
  <1>6. Archives!Told(c_call.reply)'
    BY <1>4, <1>5 DEF Archives!Told
  <1> QED
    BY <1>5, <1>6 DEF CallKnows, CallTyped, TasksFit

\* An error promises nothing.
LEMMA ErrorHolds ==
  ASSUME CallKnows, c_call' \in {Archives!Error, Archives!Busy}, TasksFit',
         c_q1 = "committed" => c_q1' = "committed"
  PROVE  CallKnows'
  <1>1. \E k \in {"error", "busy"} : c_call' = Archives!Reply(k, FALSE, FALSE)
    BY DEF Archives!Error, Archives!Busy
  <1>2. PICK k \in {"error", "busy"} : c_call' = Archives!Reply(k, FALSE, FALSE)
    BY <1>1
  <1>3. Archives!Told([kind |-> k, hold |-> FALSE, id |-> FALSE])'
    BY <1>2 DEF Archives!Told
  <1> QED
    BY <1>2, <1>3, ReplyHolds DEF ReplyKinds

\* A drain of the content task takes back no commit, and leaves the derivation
\* of a committed one alone.
LEMMA DrainedKeeps ==
  ASSUME CallTyped, TasksFit, Archives!Q1Drained
  PROVE  /\ c_q1' \in Tasks1 /\ (c_q1' = "none" => c_q1 = "none")
         /\ c_q1 = "committed" => c_q1' = "committed" /\ c_q2' = c_q2
  BY DEF Archives!Q1Drained, CallTyped, TasksFit, Tasks1

\* A call that goes on with another step, and has learned nothing but a result
\* that is so.
LEMMA GoOnHolds ==
  ASSUME CallKnows, c_call' \in Calls, TasksFit', c_q0' # "none",
         c_call'.at \notin {"idle", "admit", "replied", "row", "file"},
         c_call'.reply = c_call.reply, c_call.at # "replied",
         c_call'.result.q1 = "committed" => c_q1' = "committed"
  PROVE  CallKnows'
  BY DEF CallKnows, CallTyped, TasksFit

\* The steps up to the result.
LEMMA CallBegins ==
  ASSUME CallKnows,
         \/ \E a \in Adapters, v \in BOOLEAN : Archives!Ask(a, v)
         \/ Archives!Admit \/ Archives!Recover \/ Archives!Pass
  PROVE  CallKnows'
  <1> USE DEF Archives!Durable
  <1>1. ASSUME NEW a \in Adapters, NEW v \in BOOLEAN, Archives!Ask(a, v) PROVE CallKnows'
    <2>1. CASE v
      BY <1>1, <2>1 DEF Archives!Ask, CallKnows, CallTyped, TasksFit, Calls, CallSteps
    <2>2. CASE ~ v
      <3>1. c_call' = [[c_call EXCEPT !.adapter = a, !.at = "admit"]
                         EXCEPT !.at = "replied", !.reply.kind = "error"]
        BY <1>1, <2>2 DEF Archives!Ask
      <3>2. c_call' \in Calls /\ c_call'.at = "replied" /\ c_call'.reply.kind = "error"
            /\ c_call'.reply.hold = c_call.reply.hold /\ c_call'.result = c_call.result
        BY <3>1 DEF CallKnows, CallTyped, TasksFit, Calls, CallSteps, Replies, ReplyKinds
      <3>3. ~ c_call'.reply.hold
        BY <1>1, <3>2 DEF Archives!Ask, CallKnows
      <3> QED
        BY <1>1, <3>2, <3>3 DEF Archives!Ask, CallKnows, CallTyped, TasksFit, Archives!Told
    <2> QED
      BY <2>1, <2>2
  <1>2. ASSUME Archives!Admit PROVE CallKnows'
    <2>1. CASE c_call' \in {Archives!Error, Archives!Busy}
      BY <1>2, <2>1, ErrorHolds DEF Archives!Admit, Archives!Scope, CallKnows, CallTyped, TasksFit,
         Tasks0, Archives!OpenQ0
    <2>2. CASE c_call' \notin {Archives!Error, Archives!Busy}
      BY <1>2, <2>2, GoOnHolds DEF Archives!Admit, Archives!Scope, Archives!Goto, CallKnows,
         CallTyped, TasksFit, Calls, CallSteps, Tasks0, Archives!OpenQ0
    <2> QED
      BY <2>1, <2>2
  <1>3. ASSUME Archives!Recover \/ Archives!Pass PROVE CallKnows'
    <2>0. UNCHANGED <<c_q0, c_q1, c_mine>> /\ c_q0 # "none" /\ c_call.at \notin {"idle", "replied"}
      BY <1>3 DEF Archives!Recover, Archives!Pass, Archives!Scope, CallKnows
    <2>1. CASE c_call' \in {Archives!Error, Archives!Busy}
      BY <2>0, <2>1, ErrorHolds DEF CallKnows, CallTyped, TasksFit
    <2>2. CASE c_call' \notin {Archives!Error, Archives!Busy}
      BY <1>3, <2>0, <2>2, GoOnHolds DEF Archives!Recover, Archives!Pass, Archives!Scope,
         Archives!Goto, CallKnows, CallTyped, TasksFit, Calls, CallSteps
    <2> QED
      BY <2>1, <2>2
  <1> QED
    BY <1>1, <1>2, <1>3

\* The steps that work on the tasks.
LEMMA CallWorks ==
  ASSUME CallKnows,
         \/ Archives!Drain \/ Archives!Parse \/ Archives!Store \/ Archives!Defer
         \/ Archives!Deny \/ Archives!Close
  PROVE  CallKnows'
  <1> USE DEF Archives!Durable
  <1>0. c_q0 # "none" /\ c_call.at \notin {"idle", "replied"} /\ CallTyped
    BY DEF Archives!Drain, Archives!Parse, Archives!Store, Archives!Defer, Archives!Deny,
           Archives!Close, Archives!Scope, CallKnows, CallTyped, TasksFit
  <1>a. ASSUME NEW s0 \in Tasks0, NEW s1 \in Tasks1, NEW b \in BOOLEAN,
               c_call' = Archives!Returned(s0, s1, b)
        PROVE  /\ c_call' \in Calls /\ c_call'.at \in {"close", "result"}
               /\ c_call'.reply = c_call.reply /\ c_call'.result.q1 = s1
    <2>1. PICK r \in Results : r = [q0 |-> s0, q1 |-> s1, error |-> b]
      BY DEF Results
    <2>2. PICK next \in {"close", "result"} : next = IF c_call.own THEN "close" ELSE "result"
      OBVIOUS
    <2>3. c_call' = [c_call EXCEPT !.result = r, !.drained = TRUE, !.at = next]
      BY <1>a, <2>1, <2>2 DEF Archives!Returned
    <2>4. /\ c_call' \in Calls /\ c_call'.at = next /\ c_call'.reply = c_call.reply
          /\ c_call'.result = r
      BY <1>0, <2>3 DEF CallTyped, TasksFit, Calls, CallSteps
    <2> QED
      BY <2>1, <2>2, <2>4
  <1>b. /\ TasksFit' /\ c_q0' # "none"
        /\ c_q1 = "committed" => c_q1' = "committed"
    <2>1. CASE Archives!Drain
      <3>1. CASE c_q0 \in {"prepared", "submitted"} /\ Archives!Submit
        <4>0. c_mine' = c_mine
          BY <3>1 DEF Archives!Submit
        <4>1. CASE c_q0' = "submitted" /\ Archives!Q1Drained
          BY <1>0, <3>1, <4>0, <4>1, DrainedKeeps DEF CallTyped, TasksFit, Tasks0, Archives!OpenQ0
        <4>2. CASE \E tasks \in {<<c_q0, c_q1>>} \cup
                       IF c_q1 = "none" THEN {<<"prepared", "open">>, <<"submitted", "open">>}
                       ELSE {<<"submitted", c_q1>>} :
                     c_q0' = tasks[1] /\ c_q1' = tasks[2]
          <5>1. \/ c_q0' = c_q0 /\ c_q1' = c_q1
                \/ c_q1 = "none" /\ c_q0' \in {"prepared", "submitted"} /\ c_q1' = "open"
                \/ c_q0' = "submitted" /\ c_q1' = c_q1
            BY <4>2
          <5> QED
            BY <1>0, <3>1, <4>0, <5>1 DEF CallTyped, TasksFit, Tasks0, Tasks1, Archives!OpenQ0
        <4> QED
          BY <3>1, <4>1, <4>2 DEF Archives!Submit
      <3>2. CASE ~ (c_q0 \in {"prepared", "submitted"} /\ Archives!Submit)
        <4>1. \/ UNCHANGED <<c_q0, c_q1, c_mine>>
              \/ /\ c_q0 \in {"accepted", "retry_required"} /\ c_q0' = "processing"
                 /\ c_mine' = TRUE /\ c_q1' = c_q1
          BY <2>1, <3>2 DEF Archives!Drain, Archives!Scope
        <4>2. CASE UNCHANGED <<c_q0, c_q1, c_mine>>
          BY <1>0, <4>2 DEF CallTyped, TasksFit
        <4>3. CASE /\ c_q0 \in {"accepted", "retry_required"} /\ c_q0' = "processing"
                   /\ c_mine' = TRUE /\ c_q1' = c_q1
          <5>1. c_q1 = "none" /\ c_q1 \in Tasks1
            BY <1>0, <4>3 DEF CallTyped, TasksFit
          <5>2. c_q0' \in Tasks0
            BY <4>3 DEF Tasks0, Archives!OpenQ0
          <5> QED
            BY <4>3, <5>1, <5>2 DEF TasksFit
        <4> QED
          BY <4>1, <4>2, <4>3
      <3> QED
        BY <3>1, <3>2
    <2>2. CASE Archives!Parse
      BY <1>0, <2>2 DEF Archives!Parse, CallTyped, TasksFit
    <2>3. CASE Archives!Store
      <3>1. CASE c_q0' = "submitted" /\ Archives!Q1Drained /\ c_mine' = FALSE
        BY <1>0, <3>1, DrainedKeeps DEF CallTyped, TasksFit, Tasks0, Archives!OpenQ0
      <3>2. CASE c_mine /\ (c_mine' = (c_q0' = "processing")) /\ \E tasks \in {<<"processing", "none">>, <<"prepared", "none">>,
                                        <<"prepared", "open">>, <<"submitted", "open">>} :
                               c_q0' = tasks[1] /\ c_q1' = tasks[2]
        <4>1. /\ c_q0' \in {"processing", "prepared", "submitted"} /\ c_q1' \in {"none", "open"}
              /\ c_q1' = "open" => c_q0' # "processing"
          BY <3>2
        <4>2. c_mine' \in BOOLEAN /\ (c_mine' => c_q0' = "processing")
          BY <3>2
        <4>3. c_q1 = "none"
          BY <1>0, <3>2 DEF CallTyped, TasksFit
        <4> QED
          BY <1>0, <4>1, <4>2, <4>3 DEF CallKnows, CallTyped, TasksFit, Tasks0, Tasks1, Archives!OpenQ0
      <3>3. CASE UNCHANGED <<c_q0, c_q1, c_mine>>
        BY <1>0, <3>3 DEF CallTyped, TasksFit
      <3> QED
        BY <2>3, <3>1, <3>2, <3>3 DEF Archives!Store, Archives!Scope, Archives!Fenced
    <2>4. CASE Archives!Defer \/ Archives!Deny
      <3>1. \/ UNCHANGED <<c_q0, c_q1, c_mine>>
            \/ /\ c_mine /\ c_q0' \in {"retry_required", "rejected"}
               /\ c_mine' = FALSE /\ c_q1' = c_q1
        BY <2>4 DEF Archives!Defer, Archives!Deny, Archives!Scope, Archives!Fenced
      <3>2. CASE UNCHANGED <<c_q0, c_q1, c_mine>>
        BY <1>0, <3>2 DEF CallTyped, TasksFit
      <3>3. CASE /\ c_mine /\ c_q0' \in {"retry_required", "rejected"}
                 /\ c_mine' = FALSE /\ c_q1' = c_q1
        <4>1. c_q1 = "none" /\ c_q1 \in Tasks1
          BY <1>0, <3>3 DEF CallTyped, TasksFit
        <4>2. c_q0' \in Tasks0 /\ c_q0' # "none"
          BY <3>3 DEF Tasks0, Archives!OpenQ0
        <4> QED
          BY <3>3, <4>1, <4>2 DEF TasksFit
      <3> QED
        BY <3>1, <3>2, <3>3
    <2>5. CASE Archives!Close
      BY <1>0, <2>5, DrainedKeeps DEF Archives!Close, Archives!Scope, CallTyped, TasksFit
    <2> QED
      BY <2>1, <2>2, <2>3, <2>4, <2>5
  <1>1. CASE c_call' \in {Archives!Error, Archives!Busy}
    BY <1>1, <1>b, ErrorHolds
  <1>2. CASE c_call' \notin {Archives!Error, Archives!Busy}
    <2>1. /\ c_call' \in Calls /\ c_call'.reply = c_call.reply
          /\ c_call'.at \notin {"idle", "admit", "replied", "row", "file"}
          /\ c_call'.result.q1 = "committed" => c_q1' = "committed"
      <3>1. CASE Archives!Drain
        BY <1>0, <1>a, <1>b, <1>2, <3>1 DEF Archives!Drain, Archives!Scope, Archives!Submit,
           Archives!Goto, CallKnows, CallTyped, TasksFit, Calls, CallSteps, Tasks1
      <3>2. CASE Archives!Parse
        BY <1>0, <1>2, <3>2 DEF Archives!Parse, Archives!Goto, CallKnows, CallTyped, TasksFit, Calls, CallSteps
      <3>3. CASE Archives!Store
        <4>1. c_call' = Archives!Returned("submitted", c_q1', FALSE)
          BY <1>2, <3>3 DEF Archives!Store, Archives!Scope, Archives!Fenced
        <4>2. "submitted" \in Tasks0 /\ c_q1' \in Tasks1
          BY <1>b DEF TasksFit, Tasks0, Archives!OpenQ0
        <4> QED
          BY <1>a, <4>1, <4>2
      <3>4. CASE Archives!Defer \/ Archives!Deny
        <4>1. PICK s0 \in {"retry_required", "rejected"} : c_call' = Archives!Returned(s0, "none", TRUE)
          BY <1>2, <3>4 DEF Archives!Defer, Archives!Deny, Archives!Scope, Archives!Fenced
        <4>2. s0 \in Tasks0 /\ "none" \in Tasks1
          BY DEF Tasks0, Tasks1, Archives!OpenQ0
        <4> QED
          BY <1>a, <4>1, <4>2
      <3>5. CASE Archives!Close
        BY <1>0, <1>b, <1>2, <3>5 DEF Archives!Close, Archives!Scope, CallKnows, CallTyped, TasksFit,
           Calls, CallSteps
      <3> QED
        BY <3>1, <3>2, <3>3, <3>4, <3>5
    <2> QED
      BY <1>0, <1>b, <2>1, GoOnHolds
  <1> QED
    BY <1>1, <1>2

\* The steps from the result to the reply.
LEMMA CallEnds ==
  ASSUME CallKnows,
         \/ Archives!Result \/ Archives!Journal \/ Archives!Trigger \/ Archives!Derive
         \/ Archives!ReadRow \/ Archives!ReadFile
  PROVE  CallKnows'
  <1> USE DEF Archives!Durable
  <1>e. c_call.at \notin {"idle", "admit", "replied"} /\ UNCHANGED <<c_q0, c_q1, c_mine>>
    BY DEF Archives!Result, Archives!Journal, Archives!Trigger, Archives!Derive,
           Archives!ReadRow, Archives!ReadFile
  <1>0. /\ TasksFit /\ c_q0 # "none" /\ c_call \in Calls
        /\ c_call.at \notin {"idle", "replied"} /\ UNCHANGED <<c_q0, c_q1, c_mine>>
        /\ TasksFit' /\ c_q0' # "none"
    BY <1>e DEF CallKnows, CallTyped, TasksFit
  <1>a. \A i \in BOOLEAN : c_call' = Archives!Reply("pending", TRUE, i) => CallKnows'
    <2> SUFFICES ASSUME NEW i \in BOOLEAN, c_call' = Archives!Reply("pending", TRUE, i)
                 PROVE  CallKnows'
      OBVIOUS
    <2>1. Archives!Told([kind |-> "pending", hold |-> TRUE, id |-> i])'
      BY <1>0 DEF Archives!Told
    <2> QED
      BY <1>0, <2>1, ReplyHolds DEF ReplyKinds
  <1>b. c_call' = Archives!Reply("failed", FALSE, TRUE) => CallKnows'
    <2> SUFFICES ASSUME c_call' = Archives!Reply("failed", FALSE, TRUE) PROVE CallKnows'
      OBVIOUS
    <2>1. Archives!Told([kind |-> "failed", hold |-> FALSE, id |-> TRUE])'
      BY <1>0 DEF Archives!Told
    <2> QED
      BY <1>0, <2>1, ReplyHolds DEF ReplyKinds
  <1>c. \A i \in BOOLEAN : c_q1 = "committed" /\ c_call' = Archives!Reply("repair", TRUE, i) => CallKnows'
    <2> SUFFICES ASSUME NEW i \in BOOLEAN, c_q1 = "committed",
                        c_call' = Archives!Reply("repair", TRUE, i)
                 PROVE  CallKnows'
      OBVIOUS
    <2>1. Archives!Told([kind |-> "repair", hold |-> TRUE, id |-> i])'
      BY <1>0 DEF Archives!Told
    <2> QED
      BY <1>0, <2>1, ReplyHolds DEF ReplyKinds
  <1>d. c_call' \in {Archives!Error, Archives!Busy} => CallKnows'
    BY <1>0, ErrorHolds
  <1>1. CASE Archives!Result
    <2>1. CASE c_call' = [c_call EXCEPT !.at = "journal"]
      BY <1>0, <2>1, GoOnHolds DEF Calls, CallSteps, CallKnows
    <2>2. \/ c_call' = Archives!Reply("failed", FALSE, TRUE)
          \/ c_call' = Archives!Reply("pending", TRUE, TRUE)
          \/ c_call' = [c_call EXCEPT !.at = "journal"]
      BY <1>1 DEF Archives!Result, Archives!Reply
    <2> QED
      BY <1>a, <1>b, <2>1, <2>2
  <1>2. CASE Archives!Journal
    BY <1>0, <1>2, GoOnHolds DEF Archives!Journal, Archives!Goto, Calls, CallSteps, CallKnows
  <1>3. CASE Archives!Trigger
    BY <1>0, <1>3, GoOnHolds DEF Archives!Trigger, Archives!Goto, Calls, CallSteps, CallKnows
  <1>4. CASE Archives!Derive
    <2>1. CASE c_call' = [c_call EXCEPT !.ready = c_q2' = "completed", !.at = "row"]
               /\ c_call.result.q1 = "committed"
      <3>1. /\ c_call' \in Calls /\ c_call'.at = "row" /\ c_call'.reply = c_call.reply
            /\ c_call'.result = c_call.result /\ (c_call'.ready => c_q2' = "completed")
        BY <1>0, <2>1 DEF Calls, CallSteps
      <3> QED
        BY <1>0, <2>1, <3>1 DEF CallKnows, CallTyped, TasksFit
    <2> QED
      BY <1>4, <1>a, <1>d, <2>1 DEF Archives!Derive
  <1>5. CASE Archives!ReadRow
    <2>1. c_q1 = "committed" /\ c_call.id \in BOOLEAN
      BY <1>0, <1>5 DEF Archives!ReadRow, CallKnows, Calls
    <2>2. CASE c_call' = [c_call EXCEPT !.at = "file"]
      <3>1. /\ c_call' \in Calls /\ c_call'.at = "file" /\ c_call'.reply = c_call.reply
            /\ c_call'.result = c_call.result /\ c_call'.ready = c_call.ready
        BY <1>0, <2>2 DEF Calls, CallSteps
      <3> QED
        BY <1>0, <1>5, <3>1 DEF Archives!ReadRow, CallKnows, CallTyped, TasksFit
    <2> QED
      BY <1>5, <1>c, <2>1, <2>2 DEF Archives!ReadRow, Archives!Goto
  <1>6. CASE Archives!ReadFile
    <2>1. /\ c_q1 = "committed" /\ c_q2' = c_q2
          /\ c_call.ready \in BOOLEAN /\ (c_call.ready => c_q2 = "completed")
      BY <1>0, <1>6 DEF Archives!ReadFile, CallKnows, Calls
    <2>2. CASE c_call' = Archives!Reply(IF c_call.ready THEN "success" ELSE "degraded", TRUE, TRUE)
      <3>0. PICK k \in ReplyKinds : k = IF c_call.ready THEN "success" ELSE "degraded"
        BY DEF ReplyKinds
      <3>1. Archives!Told([kind |-> k, hold |-> TRUE, id |-> TRUE])'
        BY <1>0, <2>1, <3>0 DEF Archives!Told
      <3> QED
        BY <1>0, <2>2, <3>0, <3>1, ReplyHolds
    <2> QED
      BY <1>6, <1>c, <2>1, <2>2 DEF Archives!ReadFile
  <1> QED
    BY <1>1, <1>2, <1>3, <1>4, <1>5, <1>6

\* Another process takes nothing back that the call has told or relies on.
LEMMA OthersKeep ==
  ASSUME CallKnows,
         \/ Archives!OtherTakes \/ Archives!OtherGives \/ Archives!OtherClaims
         \/ Archives!OtherSubmits \/ Archives!OtherDerives \/ Archives!OtherRemoves
  PROVE  CallKnows'
  <1> USE DEF Archives!Durable, Archives!Other
  <1>1. CASE Archives!OtherTakes
    BY <1>1 DEF Archives!OtherTakes, CallKnows, CallTyped, TasksFit
  <1>2. CASE Archives!OtherGives
    BY <1>2 DEF Archives!OtherGives, CallKnows, CallTyped, TasksFit, Archives!Told
  <1>3. CASE Archives!OtherClaims
    BY <1>3 DEF Archives!OtherClaims, CallKnows, CallTyped, TasksFit, Tasks0, Archives!OpenQ0
  <1>4. CASE Archives!OtherSubmits
    BY <1>4, DrainedKeeps DEF Archives!OtherSubmits, CallKnows, CallTyped, TasksFit, Tasks0, Archives!OpenQ0
  <1>5. CASE Archives!OtherDerives
    BY <1>5 DEF Archives!OtherDerives, CallKnows, CallTyped, TasksFit
  <1>6. CASE Archives!OtherRemoves
    BY <1>6 DEF Archives!OtherRemoves, CallKnows, CallTyped, TasksFit
  <1> QED
    BY <1>1, <1>2, <1>3, <1>4, <1>5, <1>6

\* Every step keeps what the call knows.
LEMMA CallStep == CallKnows /\ [Archives!Next]_(Archives!vars) => CallKnows'
  <1> SUFFICES ASSUME CallKnows, [Archives!Next]_(Archives!vars) PROVE CallKnows'
    OBVIOUS
  <1>1. CASE Archives!Next
    BY <1>1, CallBegins, CallWorks, CallEnds, OthersKeep DEF Archives!Next, Archives!Call
  <1>2. CASE UNCHANGED Archives!vars
    BY <1>2 DEF Archives!vars, CallKnows, CallTyped, TasksFit, Archives!Told
  <1> QED
    BY <1>1, <1>2

\* What the caller of an archive is told is so at the moment he is told it.
THEOREM RepliesAreTrueHolds == MCSpec => RepliesAreTrue
  <1>1. CallKnows' => (c_call'.at = "replied" => Archives!Told(c_call.reply)')
    BY DEF CallKnows
  <1>2. Archives!Spec => RepliesAreTrue
    BY <1>1, CallInit, CallStep, PTL DEF Archives!Spec, RepliesAreTrue, Archives!RepliesAreTrue
  <1> QED
    BY RunIsArchive, <1>2, PTL

-----------------------------------------------------------------------------
(* The inventory of a release *)

\* Every behaviour of the run is a behaviour of one build and its harness.
LEMMA RunIsInventory == MCSpec => Inventories!Spec
  <1>1. MCInit => Inventories!Init
    BY DEF MCInit
  <1>2. [MCNext]_mcvars => [Inventories!Next]_(Inventories!vars)
    BY DEF MCNext, InRelations, InInventory, InSearch, InArchive, InReads, inventory, mcvars,
           Inventories!vars
  <1> QED
    BY <1>1, <1>2, PTL DEF MCSpec, Inventories!Spec

\* The steps of the build that come after a point of it.
PassedSteps == Inventories!HarnessSteps \cup {"done"}
ArchivedSteps == PassedSteps \cup {"validate"}
ManifestSteps == ArchivedSteps \cup {"zip"}
SbomSteps == ManifestSteps \cup {"manifest"}
IndexSteps == SbomSteps \cup {"sbom"}
BoundSteps == IndexSteps \cup {"licenses"}
MappedSteps == BoundSteps \cup {"bind"}
PartsSteps == MappedSteps \cup {"payload"}

IsJob(j) == j = [at |-> j.at, from |-> j.from, read |-> j.read, parts |-> j.parts,
                 inv |-> j.inv, index |-> j.index, manifest |-> j.manifest]
IsDisk(d) == /\ d = [files |-> d.files, parts |-> d.parts, index |-> d.index, sbom |-> d.sbom]
             /\ d.index = [c \in DOMAIN d.index |-> d.index[c]]
IsHarness(h) == h = [runtime |-> h.runtime, packaged |-> h.packaged, manifest |-> h.manifest,
                     zip |-> h.zip]
Shapes == /\ i_toc \in Tocs /\ i_edits \in Nat
          /\ IsJob(i_job) /\ IsDisk(i_disk) /\ IsDisk(i_zip) /\ IsHarness(i_harness)

\* The parts that the executable had when it was read are those of the sources
\* that were hashed.
PartsKnow(k) ==
  k.at \in PartsSteps =>
    /\ DOMAIN k.parts = Inventories!Names(Inventories!Members)
    /\ \A n \in Inventories!Names(Inventories!Members) : k.parts[n] = k.read[n]

\* The inventory: its files are final targets with the bytes that were hashed,
\* its native content is counted once, and nothing is without an owner.
FilesKnow(k) ==
  k.at \in MappedSteps =>
    /\ k.inv.parts = k.parts
    /\ DOMAIN k.inv.files \subseteq Inventories!Names(Inventories!Collected)
    /\ \A n \in DOMAIN k.inv.files : k.inv.files[n] = k.read[n]
    /\ k.inv.native = Inventories!NativeIn(k.inv)
    /\ \A c \in Inventories!Components : Inventories!Identity(c) # "unresolved"
RolesKnow(k) ==
  k.at \in BoundSteps => \A e \in i_toc : \A d \in e.dists : Inventories!Allowed(d)

\* The status that the index was written with is the one it is checked against.
Terms(inv) == [c \in Inventories!Listed |-> Inventories!Expected(c, inv)]
IndexKnows(k) == k.at \in IndexSteps => k.index = Terms(k.inv)
PolicyKnows(k) ==
  k.at \in ManifestSteps =>
    \A n \in DOMAIN k.manifest.files \cap Inventories!Names(i_toc) : Inventories!Entry(n).permitted

\* What was validated is the manifest, the inventory and the terms, all of one
\* archive.
ZipKnows(k) ==
  k.at \in PassedSteps =>
    /\ i_zip = k.manifest /\ i_zip.files = k.inv.files /\ i_zip.parts = k.inv.parts
    /\ Inventories!CrossBound(k.inv, i_zip.index, i_zip.sbom, Terms(k.inv))

\* A program other than the recorded one gets into the manifest of the harness by
\* one change, and past the next comparison by another.
HarnessKnows ==
  /\ i_job.at \notin {"pack", "seal", "done", "refused"} => i_harness.manifest = 0
  /\ i_job.at = "describe" => i_harness.packaged = 0 \/ i_edits >= 1
  /\ i_job.at = "pack" /\ i_harness.manifest # 0 =>
       i_edits >= 1 /\ (i_harness.packaged # 0 \/ i_edits >= 2)
  /\ i_job.at \in {"seal", "done"} /\ i_harness.manifest # 0 => i_edits >= 2
  /\ i_job.at = "done" => i_harness.zip = 0

\* While nobody changes anything every reader finds what the one before it found.
Undisturbed ==
  i_edits = 0 =>
    /\ i_source = [n \in Inventories!Names(i_toc) |-> 0]
    /\ i_harness = [runtime |-> 0, packaged |-> 0, manifest |-> 0, zip |-> 0]
    /\ i_job.at \notin {"tool", "refused"} =>
         i_disk.parts = [n \in Inventories!Names(Inventories!Members) |-> i_source[n]]
    /\ i_job.at \in PartsSteps \cup {"archives"} => i_job.read = i_source
    /\ i_job.at \in MappedSteps =>
         i_disk.files = i_job.inv.files /\ i_disk.parts = i_job.inv.parts
    /\ i_job.at \in IndexSteps => i_disk.index = i_job.index
    /\ i_job.at \in SbomSteps => i_disk.sbom = i_job.index
    /\ i_job.at \in ManifestSteps => i_job.manifest = i_disk
    /\ i_job.at \in ArchivedSteps => i_zip = i_disk

InventoryKnows ==
  /\ Shapes /\ PartsKnow(i_job) /\ FilesKnow(i_job) /\ RolesKnow(i_job) /\ IndexKnows(i_job)
  /\ PolicyKnows(i_job) /\ ZipKnows(i_job) /\ HarnessKnows /\ Undisturbed
  /\ Inventories!RefusalsComeEarly

\* Nothing but the start chooses what the tool reports, so what is worked out of
\* the report alone stays.
LEMMA EntriesStay ==
  ASSUME i_toc' = i_toc, NEW n
  PROVE  Inventories!Entry(n)' = Inventories!Entry(n)
  BY DEF Inventories!Entry

\* The sets that are worked out of the report.
LEMMA ReportStays ==
  ASSUME i_toc' = i_toc
  PROVE  /\ Inventories!Members' = Inventories!Members
         /\ Inventories!Collected' = Inventories!Collected
         /\ Inventories!Components' = Inventories!Components
         /\ Inventories!Conda' = Inventories!Conda
  BY DEF Inventories!Members, Inventories!Collected, Inventories!Components, Inventories!Conda

\* What is worked out of the report and an inventory or a component.
LEMMA ReadingStays ==
  ASSUME i_toc' = i_toc, NEW c, NEW inv
  PROVE  /\ Inventories!NativeIn(inv)' = Inventories!NativeIn(inv)
         /\ Inventories!Classes(c)' = Inventories!Classes(c)
         /\ Inventories!Listed' = Inventories!Listed
         /\ Inventories!Expected(c, inv)' = Inventories!Expected(c, inv)
  <1>1. Inventories!NativeIn(inv)' = Inventories!NativeIn(inv)
    BY EntriesStay DEF Inventories!NativeIn
  <1>2. Inventories!Classes(c)' = Inventories!Classes(c)
    BY ReportStays DEF Inventories!Classes
  <1>3. Inventories!Listed' = Inventories!Listed
    BY ReportStays DEF Inventories!Listed
  <1>4. Inventories!Expected(c, inv)' = Inventories!Expected(c, inv)
    BY <1>2, ReportStays DEF Inventories!Expected
  <1> QED
    BY <1>1, <1>2, <1>3, <1>4

\* What one knows of a builder and an archive does not change while they stay.
LEMMA KnowingStays ==
  ASSUME i_toc' = i_toc, NEW k
  PROVE  /\ PartsKnow(k) => PartsKnow(k)'
         /\ FilesKnow(k) => FilesKnow(k)'
         /\ RolesKnow(k) => RolesKnow(k)'
         /\ IndexKnows(k) => IndexKnows(k)'
         /\ PolicyKnows(k) => PolicyKnows(k)'
         /\ ZipKnows(k) /\ i_zip' = i_zip => ZipKnows(k)'
         /\ Terms(k.inv)' = Terms(k.inv)
  <1>0. Terms(k.inv)' = Terms(k.inv)
    BY ReadingStays DEF Terms
  <1>1. PartsKnow(k) => PartsKnow(k)'
    BY ReportStays DEF PartsKnow, Inventories!Names
  <1>2. FilesKnow(k) => FilesKnow(k)'
    BY ReportStays, ReadingStays DEF FilesKnow, Inventories!Names
  <1>3. RolesKnow(k) => RolesKnow(k)'
    BY DEF RolesKnow, Inventories!Allowed
  <1>4. IndexKnows(k) => IndexKnows(k)'
    BY <1>0 DEF IndexKnows
  <1>5. PolicyKnows(k) => PolicyKnows(k)'
    BY EntriesStay DEF PolicyKnows, Inventories!Names
  <1>6. ZipKnows(k) /\ i_zip' = i_zip => ZipKnows(k)'
    BY <1>0, ReadingStays DEF ZipKnows, Inventories!CrossBound
  <1> QED
    BY <1>0, <1>1, <1>2, <1>3, <1>4, <1>5, <1>6

\* Before the tool runs nothing is known, and that is so.
LEMMA InventoryInit == Inventories!Init => InventoryKnows
  <1> SUFFICES ASSUME Inventories!Init PROVE InventoryKnows
    OBVIOUS
  <1>1. i_job.at = "tool" /\ IsJob(i_job)
    BY DEF Inventories!Init, IsJob
  <1>2. IsDisk(i_disk) /\ IsDisk(i_zip)
    <2>1. << >> = [c \in DOMAIN << >> |-> << >>[c]]
      OBVIOUS
    <2> QED
      BY <2>1 DEF Inventories!Init, Inventories!Nothing, IsDisk
  <1>3. Shapes
    BY <1>1, <1>2 DEF Inventories!Init, Shapes, IsHarness
  <1>4. "tool" \notin PartsSteps \cup {"refused", "archives"}
    BY DEF PartsSteps, MappedSteps, BoundSteps, IndexSteps, SbomSteps, ManifestSteps,
           ArchivedSteps, PassedSteps, Inventories!HarnessSteps
  <1>5. Undisturbed
    BY <1>1, <1>4 DEF Undisturbed, Inventories!Init, PartsSteps, MappedSteps, BoundSteps,
       IndexSteps, SbomSteps, ManifestSteps, ArchivedSteps
  <1>6. HarnessKnows
    BY <1>1 DEF HarnessKnows, Inventories!Init
  <1>7. /\ PartsKnow(i_job) /\ FilesKnow(i_job) /\ RolesKnow(i_job) /\ IndexKnows(i_job)
        /\ PolicyKnows(i_job) /\ ZipKnows(i_job)
    BY <1>1, <1>4 DEF PartsKnow, FilesKnow, RolesKnow, IndexKnows, PolicyKnows, ZipKnows,
       PartsSteps, MappedSteps, BoundSteps, IndexSteps, SbomSteps, ManifestSteps, ArchivedSteps
  <1> QED
    BY <1>1, <1>3, <1>5, <1>6, <1>7 DEF InventoryKnows, Inventories!RefusalsComeEarly

\* A step of the builder that goes on.
LEMMA GoesOn ==
  ASSUME InventoryKnows, i_toc' = i_toc, i_edits' = i_edits,
         NEW k, i_job' = k, k.at # "refused", IsJob(k),
         IsDisk(i_disk'), IsDisk(i_zip'), IsHarness(i_harness'),
         PartsKnow(k), FilesKnow(k), RolesKnow(k), IndexKnows(k), PolicyKnows(k),
         ZipKnows(k)', HarnessKnows', Undisturbed'
  PROVE  InventoryKnows'
  <1>1. /\ PartsKnow(k)' /\ FilesKnow(k)' /\ RolesKnow(k)' /\ IndexKnows(k)' /\ PolicyKnows(k)'
    BY KnowingStays
  <1>2. Shapes'
    BY DEF Shapes, InventoryKnows
  <1>3. Inventories!RefusalsComeEarly'
    BY DEF Inventories!RefusalsComeEarly
  <1> QED
    BY <1>1, <1>2, <1>3 DEF InventoryKnows

\* A refusal is the end; an undisturbed build is refused by the early readers.
LEMMA RefusalHolds ==
  ASSUME InventoryKnows, Inventories!Refuse,
         UNCHANGED <<i_toc, i_over, i_source, i_disk, i_zip, i_harness, i_edits>>,
         i_edits = 0 => \/ i_job.at \in {"sources", "payload", "bind", "manifest"}
                        \/ i_job.at = "licenses" /\ Locked \ OwnTerms # i_over
  PROVE  InventoryKnows'
  <1>1. i_job' = [i_job EXCEPT !.at = "refused", !.from = i_job.at] /\ IsJob(i_job)
    BY DEF Inventories!Refuse, InventoryKnows, Shapes
  <1>2. IsJob(i_job') /\ i_job'.at = "refused" /\ i_job'.from = i_job.at
    BY <1>1 DEF IsJob
  <1>3. "refused" \notin PartsSteps \cup {"archives"}
    BY DEF PartsSteps, MappedSteps, BoundSteps, IndexSteps, SbomSteps, ManifestSteps,
           ArchivedSteps, PassedSteps, Inventories!HarnessSteps
  <1>4. Shapes'
    BY <1>2 DEF InventoryKnows, Shapes
  <1>5. /\ PartsKnow(i_job)' /\ FilesKnow(i_job)' /\ RolesKnow(i_job)' /\ IndexKnows(i_job)'
        /\ PolicyKnows(i_job)' /\ ZipKnows(i_job)'
    BY <1>2, <1>3 DEF PartsKnow, FilesKnow, RolesKnow, IndexKnows, PolicyKnows, ZipKnows,
       PartsSteps, MappedSteps, BoundSteps, IndexSteps, SbomSteps, ManifestSteps, ArchivedSteps
  <1>6. HarnessKnows'
    BY <1>2 DEF HarnessKnows
  <1>7. Undisturbed'
    BY <1>2, <1>3 DEF Undisturbed, InventoryKnows, PartsSteps, MappedSteps, BoundSteps,
       IndexSteps, SbomSteps, ManifestSteps, ArchivedSteps, Inventories!Names
  <1>8. Inventories!RefusalsComeEarly'
    BY <1>2 DEF Inventories!RefusalsComeEarly
  <1> QED
    BY <1>4, <1>5, <1>6, <1>7, <1>8 DEF InventoryKnows

\* Goto changes the step only.
LEMMA GotoIs ==
  ASSUME IsJob(i_job), NEW s, Inventories!Goto(s)
  PROVE  /\ IsJob(i_job') /\ i_job'.at = s /\ i_job'.read = i_job.read
         /\ i_job'.parts = i_job.parts /\ i_job'.inv = i_job.inv
         /\ i_job'.index = i_job.index /\ i_job'.manifest = i_job.manifest
  BY DEF Inventories!Goto, IsJob

-----------------------------------------------------------------------------
(* The steps of the build *)

\* The tool: sources are compiled or copied.
LEMMA ToolHolds == ASSUME InventoryKnows, Inventories!Tool PROVE InventoryKnows'
  <1> USE DEF PartsSteps, MappedSteps, BoundSteps, IndexSteps, SbomSteps, ManifestSteps,
              ArchivedSteps, PassedSteps, Inventories!HarnessSteps
  <1>0. i_job.at = "tool" /\ UNCHANGED <<i_toc, i_over, i_source, i_zip, i_harness, i_edits>>
    BY DEF Inventories!Tool
  <1>1. PICK k : k = i_job'
    OBVIOUS
  <1>2. IsJob(k) /\ k.at = "sources"
    BY <1>1, GotoIs DEF Inventories!Tool, InventoryKnows, Shapes
  <1>3. /\ IsDisk(i_disk')
        /\ i_disk'.parts = [n \in Inventories!Names(Inventories!Members) |-> i_source[n]]
    BY DEF Inventories!Tool, InventoryKnows, Shapes, IsDisk
  <1>4. Undisturbed'
    BY <1>0, <1>1, <1>2, <1>3, ReportStays DEF Undisturbed, InventoryKnows, Inventories!Names
  <1>5. HarnessKnows'
    BY <1>0, <1>1, <1>2 DEF HarnessKnows, InventoryKnows
  <1>6. /\ PartsKnow(k) /\ FilesKnow(k) /\ RolesKnow(k) /\ IndexKnows(k) /\ PolicyKnows(k)
        /\ ZipKnows(k)'
    BY <1>2 DEF PartsKnow, FilesKnow, RolesKnow, IndexKnows, PolicyKnows, ZipKnows
  <1> QED
    BY <1>0, <1>1, <1>2, <1>3, <1>4, <1>5, <1>6, GoesOn DEF InventoryKnows, Shapes

\* The sources are hashed.
LEMMA ReadSourcesHolds == ASSUME InventoryKnows, Inventories!ReadSources PROVE InventoryKnows'
  <1> USE DEF PartsSteps, MappedSteps, BoundSteps, IndexSteps, SbomSteps, ManifestSteps,
              ArchivedSteps, PassedSteps, Inventories!HarnessSteps
  <1>0. /\ i_job.at = "sources"
        /\ UNCHANGED <<i_toc, i_over, i_source, i_disk, i_zip, i_harness, i_edits>>
    BY DEF Inventories!ReadSources
  <1>1. CASE Inventories!Refuse
    BY <1>0, <1>1, RefusalHolds
  <1>2. CASE ~ Inventories!Refuse
    <2>1. PICK k : k = i_job'
      OBVIOUS
    <2>2. k = [i_job EXCEPT !.at = "archives", !.read = i_source]
      BY <1>2, <2>1 DEF Inventories!ReadSources
    <2>3. IsJob(k) /\ k.at = "archives" /\ k.read = i_source
      BY <2>2 DEF InventoryKnows, Shapes, IsJob
    <2>4. Undisturbed'
      BY <1>0, <2>1, <2>3, ReportStays DEF Undisturbed, InventoryKnows, Inventories!Names
    <2>5. HarnessKnows'
      BY <1>0, <2>1, <2>3 DEF HarnessKnows, InventoryKnows
    <2>6. /\ PartsKnow(k) /\ FilesKnow(k) /\ RolesKnow(k) /\ IndexKnows(k) /\ PolicyKnows(k)
          /\ ZipKnows(k)'
      BY <2>3 DEF PartsKnow, FilesKnow, RolesKnow, IndexKnows, PolicyKnows, ZipKnows
    <2> QED
      BY <1>0, <2>1, <2>3, <2>4, <2>5, <2>6, GoesOn DEF InventoryKnows, Shapes
  <1> QED
    BY <1>1, <1>2

\* The executable is opened: its parts are the announced ones.
LEMMA ReadArchivesHolds == ASSUME InventoryKnows, Inventories!ReadArchives PROVE InventoryKnows'
  <1> USE DEF PartsSteps, MappedSteps, BoundSteps, IndexSteps, SbomSteps, ManifestSteps,
              ArchivedSteps, PassedSteps, Inventories!HarnessSteps
  <1>0. /\ i_job.at = "archives"
        /\ UNCHANGED <<i_toc, i_over, i_source, i_disk, i_zip, i_harness, i_edits>>
    BY DEF Inventories!ReadArchives
  <1>1. CASE ~ (Inventories!PartsAreListed /\ Inventories!PartsMatch)
    <2>1. i_edits # 0
      <3> SUFFICES ASSUME i_edits = 0 PROVE FALSE
        OBVIOUS
      <3>1. /\ i_disk.parts = [n \in Inventories!Names(Inventories!Members) |-> i_source[n]]
            /\ i_job.read = i_source
        BY <1>0 DEF InventoryKnows, Undisturbed
      <3> QED
        BY <1>1, <3>1 DEF Inventories!PartsAreListed, Inventories!PartsMatch
    <2> QED
      BY <1>0, <1>1, <2>1, RefusalHolds DEF Inventories!ReadArchives
  <1>2. CASE Inventories!PartsAreListed /\ Inventories!PartsMatch
    <2>1. PICK k : k = i_job'
      OBVIOUS
    <2>2. k = [i_job EXCEPT !.at = "payload", !.parts = i_disk.parts]
      BY <1>2, <2>1 DEF Inventories!ReadArchives
    <2>3. IsJob(k) /\ k.at = "payload" /\ k.read = i_job.read /\ k.parts = i_disk.parts
      BY <2>2 DEF InventoryKnows, Shapes, IsJob
    <2>4. Undisturbed'
      BY <1>0, <2>1, <2>3, ReportStays DEF Undisturbed, InventoryKnows, Inventories!Names
    <2>5. HarnessKnows'
      BY <1>0, <2>1, <2>3 DEF HarnessKnows, InventoryKnows
    <2>6. PartsKnow(k)
      BY <1>2, <2>3 DEF PartsKnow, Inventories!PartsAreListed, Inventories!PartsMatch
    <2>7. /\ FilesKnow(k) /\ RolesKnow(k) /\ IndexKnows(k) /\ PolicyKnows(k) /\ ZipKnows(k)'
      BY <2>3 DEF FilesKnow, RolesKnow, IndexKnows, PolicyKnows, ZipKnows
    <2> QED
      BY <1>0, <2>1, <2>3, <2>4, <2>5, <2>6, <2>7, GoesOn DEF InventoryKnows, Shapes
  <1> QED
    BY <1>1, <1>2

\* The payload is walked: the inventory is written.
LEMMA WalkPayloadHolds == ASSUME InventoryKnows, Inventories!WalkPayload PROVE InventoryKnows'
  <1> USE DEF PartsSteps, MappedSteps, BoundSteps, IndexSteps, SbomSteps, ManifestSteps,
              ArchivedSteps, PassedSteps, Inventories!HarnessSteps
  <1>0. /\ i_job.at = "payload"
        /\ UNCHANGED <<i_toc, i_over, i_source, i_disk, i_zip, i_harness, i_edits>>
    BY DEF Inventories!WalkPayload
  <1>1. CASE Inventories!Refuse
    BY <1>0, <1>1, RefusalHolds
  <1>2. CASE ~ Inventories!Refuse
    <2> DEFINE bare == [files |-> i_disk.files, parts |-> i_disk.parts, native |-> {}]
    <2>1. PICK k : k = i_job'
      OBVIOUS
    <2>a. PICK inv : inv = [files |-> i_disk.files, parts |-> i_disk.parts,
                            native |-> Inventories!NativeIn(bare)]
      OBVIOUS
    <2>b. [bare EXCEPT !.native = Inventories!NativeIn(bare)] = inv
      BY <2>a
    <2>2. /\ k = [i_job EXCEPT !.at = "bind", !.inv = inv]
          /\ i_disk.parts = i_job.parts
          /\ \A n \in DOMAIN i_disk.files : Inventories!Mapped(n)
          /\ \A c \in Inventories!Components : Inventories!Identity(c) # "unresolved"
      BY <1>2, <2>1, <2>b DEF Inventories!WalkPayload
    <2>3. /\ IsJob(k) /\ k.at = "bind" /\ k.read = i_job.read /\ k.parts = i_job.parts
          /\ k.inv = inv
      BY <2>2 DEF InventoryKnows, Shapes, IsJob
    <2>4. Undisturbed'
      BY <1>0, <2>1, <2>3, <2>a, ReportStays DEF Undisturbed, InventoryKnows, Inventories!Names
    <2>5. HarnessKnows'
      BY <1>0, <2>1, <2>3 DEF HarnessKnows, InventoryKnows
    <2>6. PartsKnow(k)
      BY <1>0, <2>3 DEF PartsKnow, InventoryKnows
    <2>7. FilesKnow(k)
      <3>1. inv.native = Inventories!NativeIn(inv)
        BY <2>a DEF Inventories!NativeIn
      <3> QED
        BY <2>2, <2>3, <2>a, <3>1 DEF FilesKnow, Inventories!Mapped
    <2>8. /\ RolesKnow(k) /\ IndexKnows(k) /\ PolicyKnows(k) /\ ZipKnows(k)'
      BY <2>3 DEF RolesKnow, IndexKnows, PolicyKnows, ZipKnows
    <2> QED
      BY <1>0, <2>1, <2>3, <2>4, <2>5, <2>6, <2>7, <2>8, GoesOn DEF InventoryKnows, Shapes
  <1> QED
    BY <1>1, <1>2

\* The roles and the places are checked.
LEMMA BindHolds == ASSUME InventoryKnows, Inventories!Bind PROVE InventoryKnows'
  <1> USE DEF PartsSteps, MappedSteps, BoundSteps, IndexSteps, SbomSteps, ManifestSteps,
              ArchivedSteps, PassedSteps, Inventories!HarnessSteps
  <1>0. /\ i_job.at = "bind"
        /\ UNCHANGED <<i_toc, i_over, i_source, i_disk, i_zip, i_harness, i_edits>>
    BY DEF Inventories!Bind
  <1>1. CASE Inventories!Refuse
    BY <1>0, <1>1, RefusalHolds
  <1>2. CASE ~ Inventories!Refuse
    <2>1. PICK k : k = i_job'
      OBVIOUS
    <2>2. /\ Inventories!Goto("licenses")
          /\ \A e \in i_toc : \A d \in e.dists : Inventories!Allowed(d)
      BY <1>2 DEF Inventories!Bind
    <2>3. /\ IsJob(k) /\ k.at = "licenses" /\ k.read = i_job.read /\ k.parts = i_job.parts
          /\ k.inv = i_job.inv
      BY <2>1, <2>2, GotoIs DEF InventoryKnows, Shapes
    <2>4. Undisturbed'
      BY <1>0, <2>1, <2>3, ReportStays DEF Undisturbed, InventoryKnows, Inventories!Names
    <2>5. HarnessKnows'
      BY <1>0, <2>1, <2>3 DEF HarnessKnows, InventoryKnows
    <2>6. PartsKnow(k) /\ FilesKnow(k)
      BY <1>0, <2>3 DEF PartsKnow, FilesKnow, InventoryKnows
    <2>7. RolesKnow(k)
      BY <2>2 DEF RolesKnow
    <2>8. IndexKnows(k) /\ PolicyKnows(k) /\ ZipKnows(k)'
      BY <2>3 DEF IndexKnows, PolicyKnows, ZipKnows
    <2> QED
      BY <1>0, <2>1, <2>3, <2>4, <2>5, <2>6, <2>7, <2>8, GoesOn DEF InventoryKnows, Shapes
  <1> QED
    BY <1>1, <1>2

\* A name has one entry.
LEMMA EntryOf ==
  ASSUME i_toc \in Tocs, NEW es \in SUBSET i_toc, NEW n \in Inventories!Names(es)
  PROVE  Inventories!Entry(n) \in es /\ Inventories!Entry(n).name = n
  <1>1. PICK e \in es : e.name = n
    BY DEF Inventories!Names
  <1>2. Inventories!Entry(n) \in i_toc /\ Inventories!Entry(n).name = n
    BY <1>1 DEF Inventories!Entry
  <1>3. Inventories!Entry(n) = e
    BY <1>1, <1>2, ServicesAssumption DEF Inventories!InventoryAssumption
  <1> QED
    BY <1>1, <1>2, <1>3

\* A file of the inventory is the final target of an entry, a part is a member.
LEMMA EntriesOfInventory ==
  ASSUME Shapes, PartsKnow(i_job), FilesKnow(i_job), i_job.at \in MappedSteps
  PROVE  /\ \A n \in DOMAIN i_job.inv.files : Inventories!Entry(n) \in Inventories!Collected
         /\ \A n \in DOMAIN i_job.inv.parts : Inventories!Entry(n) \in Inventories!Members
  <1>1. Inventories!Collected \in SUBSET i_toc /\ Inventories!Members \in SUBSET i_toc
    BY DEF Inventories!Collected, Inventories!Members
  <1>2. /\ DOMAIN i_job.inv.files \subseteq Inventories!Names(Inventories!Collected)
        /\ DOMAIN i_job.inv.parts = Inventories!Names(Inventories!Members)
    BY DEF FilesKnow, PartsKnow, PartsSteps
  <1> QED
    BY <1>1, <1>2, EntryOf DEF Shapes

\* The SBOM finds the native content that the inventory wrote down.
LEMMA NativeIsFound ==
  ASSUME Shapes, PartsKnow(i_job), FilesKnow(i_job), i_job.at \in MappedSteps
  PROVE  Inventories!Describable(i_job.inv)
  <1> DEFINE inv == i_job.inv
  <1>1. /\ \A n \in DOMAIN inv.files : Inventories!Entry(n) \in i_toc
        /\ \A n \in DOMAIN inv.parts : Inventories!Entry(n).kind \in {"script", "module"}
    BY EntriesOfInventory DEF Inventories!Collected, Inventories!Members
  <1>2. inv.native = Inventories!NativeIn(inv)
    BY DEF FilesKnow
  <1>3. ASSUME NEW c PROVE c \in Inventories!NativeIn(inv) <=> c \in Inventories!NativeFound(inv)
    <2>1. ASSUME c \in Inventories!NativeIn(inv), c # "bootloader"
          PROVE  c \in Inventories!NativeFound(inv)
      <3>1. PICK n \in DOMAIN inv.files : /\ Inventories!Entry(n).kind \in {"binary", "program"}
                                          /\ c \in Inventories!Classify(Inventories!Entry(n))
        BY <2>1 DEF Inventories!NativeIn
      <3>2. c \in Inventories!Components
        BY <1>1, <3>1 DEF Inventories!Components
      <3>3. n \in Inventories!Holds(c, inv)
        BY <3>1 DEF Inventories!Holds
      <3> QED
        BY <3>1, <3>2, <3>3 DEF Inventories!NativeFound
    <2>2. ASSUME c \in Inventories!NativeFound(inv), c # "bootloader"
          PROVE  c \in Inventories!NativeIn(inv)
      <3>1. PICK n \in Inventories!Holds(c, inv) :
                   Inventories!Entry(n).kind \in {"binary", "program"}
        BY <2>2 DEF Inventories!NativeFound
      <3>2. n \in DOMAIN inv.files /\ c \in Inventories!Classify(Inventories!Entry(n))
        BY <1>1, <3>1 DEF Inventories!Holds
      <3> QED
        BY <3>1, <3>2 DEF Inventories!NativeIn
    <2>3. "bootloader" \in Inventories!NativeIn(inv) /\ "bootloader" \in Inventories!NativeFound(inv)
      BY DEF Inventories!NativeIn, Inventories!NativeFound
    <2> QED
      BY <2>1, <2>2, <2>3
  <1>4. Inventories!NativeIn(inv) = Inventories!NativeFound(inv)
    BY <1>3
  <1> QED
    BY <1>2, <1>4 DEF Inventories!Describable

\* The status that is settled for the index is the one worked out again later.
LEMMA SettledIsExpected ==
  ASSUME NEW inv
  PROVE  [c \in Inventories!Listed |-> Inventories!Settled(c, inv)] = Terms(inv)
  <1>1. ASSUME NEW c PROVE Inventories!Settled(c, inv) = Inventories!Expected(c, inv)
    <2> DEFINE msvc == "msvc" \in Inventories!Classes(c)
    <2>1. msvc <=> Inventories!Classes(c) \cap {"msvc"} # {}
      OBVIOUS
    <2>2. CASE c \in Inventories!Conda
      BY <2>2 DEF Inventories!Settled, Inventories!Expected, Inventories!Provisional
    <2>3. CASE c \notin Inventories!Conda /\ (c \in inv.native \/ msvc)
      BY <2>1, <2>3 DEF Inventories!Settled, Inventories!Expected, Inventories!Provisional
    <2>4. CASE c \notin Inventories!Conda /\ ~ (c \in inv.native \/ msvc)
      <3>1. Inventories!Provisional(c, inv) = "open"
        BY <2>4 DEF Inventories!Provisional
      <3> QED
        BY <2>1, <2>4, <3>1 DEF Inventories!Settled, Inventories!Expected
    <2> QED
      BY <2>2, <2>3, <2>4
  <1> QED
    BY <1>1 DEF Terms

\* The license index is written.
LEMMA LicensesHolds == ASSUME InventoryKnows, Inventories!Licenses PROVE InventoryKnows'
  <1> USE DEF PartsSteps, MappedSteps, BoundSteps, IndexSteps, SbomSteps, ManifestSteps,
              ArchivedSteps, PassedSteps, Inventories!HarnessSteps
  <1>0. /\ i_job.at = "licenses"
        /\ UNCHANGED <<i_toc, i_over, i_source, i_zip, i_harness, i_edits>>
    BY DEF Inventories!Licenses
  <1>d. Inventories!Describable(i_job.inv)
    BY <1>0, NativeIsFound DEF InventoryKnows
  <1>1. CASE ~ Inventories!MaterialsAreComplete
    <2>1. Locked \ OwnTerms # i_over /\ Inventories!Refuse /\ UNCHANGED i_disk
      BY <1>1 DEF Inventories!MaterialsAreComplete, Inventories!Licenses
    <2> QED
      BY <1>0, <2>1, RefusalHolds
  <1>2. CASE Inventories!MaterialsAreComplete
    <2>1. PICK k : k = i_job'
      OBVIOUS
    <2>2. /\ k = [i_job EXCEPT !.at = "sbom", !.index = Terms(i_job.inv)]
          /\ i_disk' = [i_disk EXCEPT !.index = Terms(i_job.inv)]
      BY <1>2, <1>d, <2>1, SettledIsExpected DEF Inventories!Licenses
    <2>3. /\ IsJob(k) /\ k.at = "sbom" /\ k.read = i_job.read /\ k.parts = i_job.parts
          /\ k.inv = i_job.inv /\ k.index = Terms(i_job.inv)
      BY <2>2 DEF InventoryKnows, Shapes, IsJob
    <2>d. /\ IsDisk(i_disk') /\ i_disk'.index = Terms(i_job.inv)
          /\ i_disk'.files = i_disk.files /\ i_disk'.parts = i_disk.parts
      <3>1. Terms(i_job.inv) = [c \in DOMAIN Terms(i_job.inv) |-> Terms(i_job.inv)[c]]
        BY DEF Terms
      <3> QED
        BY <2>2, <3>1 DEF InventoryKnows, Shapes, IsDisk
    <2>4. Undisturbed'
      BY <1>0, <2>1, <2>3, <2>d, ReportStays DEF Undisturbed, InventoryKnows, Inventories!Names
    <2>5. HarnessKnows'
      BY <1>0, <2>1, <2>3 DEF HarnessKnows, InventoryKnows
    <2>6. PartsKnow(k) /\ FilesKnow(k) /\ RolesKnow(k)
      BY <1>0, <2>3 DEF PartsKnow, FilesKnow, RolesKnow, InventoryKnows
    <2>7. IndexKnows(k)
      BY <2>3 DEF IndexKnows
    <2>8. PolicyKnows(k) /\ ZipKnows(k)'
      BY <2>3 DEF PolicyKnows, ZipKnows
    <2> QED
      BY <1>0, <2>1, <2>3, <2>4, <2>5, <2>6, <2>7, <2>8, <2>d, GoesOn DEF InventoryKnows, Shapes
  <1> QED
    BY <1>1, <1>2

\* The SBOM is written; what it is bound to has not changed.
LEMMA SbomHolds == ASSUME InventoryKnows, Inventories!Sbom PROVE InventoryKnows'
  <1> USE DEF PartsSteps, MappedSteps, BoundSteps, IndexSteps, SbomSteps, ManifestSteps,
              ArchivedSteps, PassedSteps, Inventories!HarnessSteps
  <1>0. /\ i_job.at = "sbom"
        /\ UNCHANGED <<i_toc, i_over, i_source, i_zip, i_harness, i_edits>>
    BY DEF Inventories!Sbom
  <1>d. Inventories!Describable(i_job.inv)
    BY <1>0, NativeIsFound DEF InventoryKnows
  <1>i. i_job.index = Terms(i_job.inv)
    BY <1>0 DEF InventoryKnows, IndexKnows
  <1>c. ASSUME NEW raw PROVE Inventories!CrossBound(i_job.inv, i_job.index, raw, raw)
    BY <1>i DEF Inventories!CrossBound, Terms
  <1>1. PICK k : k = i_job'
    OBVIOUS
  <1>2. Inventories!Goto("manifest") /\ i_disk' = [i_disk EXCEPT !.sbom = i_job.index]
    BY <1>d, <1>c DEF Inventories!Sbom
  <1>3. /\ IsJob(k) /\ k.at = "manifest" /\ k.read = i_job.read /\ k.parts = i_job.parts
        /\ k.inv = i_job.inv /\ k.index = i_job.index
    BY <1>1, <1>2, GotoIs DEF InventoryKnows, Shapes
  <1>4. /\ IsDisk(i_disk') /\ i_disk'.index = i_disk.index /\ i_disk'.sbom = i_job.index
        /\ i_disk'.files = i_disk.files /\ i_disk'.parts = i_disk.parts
    BY <1>2 DEF InventoryKnows, Shapes, IsDisk
  <1>5. Undisturbed'
    BY <1>0, <1>1, <1>3, <1>4, ReportStays DEF Undisturbed, InventoryKnows, Inventories!Names
  <1>6. HarnessKnows'
    BY <1>0, <1>1, <1>3 DEF HarnessKnows, InventoryKnows
  <1>7. PartsKnow(k) /\ FilesKnow(k) /\ RolesKnow(k) /\ IndexKnows(k)
    BY <1>0, <1>3 DEF PartsKnow, FilesKnow, RolesKnow, IndexKnows, InventoryKnows
  <1>8. PolicyKnows(k) /\ ZipKnows(k)'
    BY <1>3 DEF PolicyKnows, ZipKnows
  <1> QED
    BY <1>0, <1>1, <1>3, <1>4, <1>5, <1>6, <1>7, <1>8, GoesOn DEF InventoryKnows, Shapes

\* The policy is applied and the manifest is written.
LEMMA ManifestHolds == ASSUME InventoryKnows, Inventories!Manifest PROVE InventoryKnows'
  <1> USE DEF PartsSteps, MappedSteps, BoundSteps, IndexSteps, SbomSteps, ManifestSteps,
              ArchivedSteps, PassedSteps, Inventories!HarnessSteps
  <1>0. /\ i_job.at = "manifest"
        /\ UNCHANGED <<i_toc, i_over, i_source, i_disk, i_zip, i_harness, i_edits>>
    BY DEF Inventories!Manifest
  <1>1. CASE ~ Inventories!Permitted
    BY <1>0, <1>1, RefusalHolds DEF Inventories!Manifest
  <1>2. CASE Inventories!Permitted
    <2>1. PICK k : k = i_job'
      OBVIOUS
    <2>2. k = [i_job EXCEPT !.at = "zip", !.manifest = i_disk]
      BY <1>2, <2>1 DEF Inventories!Manifest
    <2>3. /\ IsJob(k) /\ k.at = "zip" /\ k.read = i_job.read /\ k.parts = i_job.parts
          /\ k.inv = i_job.inv /\ k.index = i_job.index /\ k.manifest = i_disk
      BY <2>2 DEF InventoryKnows, Shapes, IsJob
    <2>4. Undisturbed'
      BY <1>0, <2>1, <2>3, ReportStays DEF Undisturbed, InventoryKnows, Inventories!Names
    <2>5. HarnessKnows'
      BY <1>0, <2>1, <2>3 DEF HarnessKnows, InventoryKnows
    <2>6. PartsKnow(k) /\ FilesKnow(k) /\ RolesKnow(k) /\ IndexKnows(k)
      BY <1>0, <2>3 DEF PartsKnow, FilesKnow, RolesKnow, IndexKnows, InventoryKnows
    <2>7. PolicyKnows(k)
      BY <1>2, <2>3 DEF PolicyKnows, Inventories!Permitted
    <2>8. ZipKnows(k)'
      BY <2>3 DEF ZipKnows
    <2> QED
      BY <1>0, <2>1, <2>3, <2>4, <2>5, <2>6, <2>7, <2>8, GoesOn DEF InventoryKnows, Shapes
  <1> QED
    BY <1>1, <1>2

\* The archive is written from what is on the disk now.
LEMMA ArchiveHolds == ASSUME InventoryKnows, Inventories!Archive PROVE InventoryKnows'
  <1> USE DEF PartsSteps, MappedSteps, BoundSteps, IndexSteps, SbomSteps, ManifestSteps,
              ArchivedSteps, PassedSteps, Inventories!HarnessSteps
  <1>0. /\ i_job.at = "zip" /\ i_zip' = i_disk /\ Inventories!Goto("validate")
        /\ UNCHANGED <<i_toc, i_over, i_source, i_disk, i_harness, i_edits>>
    BY DEF Inventories!Archive
  <1>1. PICK k : k = i_job'
    OBVIOUS
  <1>2. /\ IsJob(k) /\ k.at = "validate" /\ k.read = i_job.read /\ k.parts = i_job.parts
        /\ k.inv = i_job.inv /\ k.index = i_job.index /\ k.manifest = i_job.manifest
    BY <1>0, <1>1, GotoIs DEF InventoryKnows, Shapes
  <1>3. Undisturbed'
    BY <1>0, <1>1, <1>2, ReportStays DEF Undisturbed, InventoryKnows, Inventories!Names
  <1>4. HarnessKnows'
    BY <1>0, <1>1, <1>2 DEF HarnessKnows, InventoryKnows
  <1>5. /\ PartsKnow(k) /\ FilesKnow(k) /\ RolesKnow(k) /\ IndexKnows(k) /\ PolicyKnows(k)
    BY <1>0, <1>2 DEF PartsKnow, FilesKnow, RolesKnow, IndexKnows, PolicyKnows, InventoryKnows
  <1>6. ZipKnows(k)'
    BY <1>2 DEF ZipKnows
  <1> QED
    BY <1>0, <1>1, <1>2, <1>3, <1>4, <1>5, <1>6, GoesOn DEF InventoryKnows, Shapes

\* What is validated is known from then on; nothing is found when nobody
\* disturbed the build.
LEMMA ValidateHolds == ASSUME InventoryKnows, Inventories!Validate PROVE InventoryKnows'
  <1> USE DEF PartsSteps, MappedSteps, BoundSteps, IndexSteps, SbomSteps, ManifestSteps,
              ArchivedSteps, PassedSteps, Inventories!HarnessSteps
  <1> DEFINE ok == /\ Inventories!ReadBack
                   /\ i_zip.files = i_job.inv.files /\ i_zip.parts = i_job.inv.parts
                   /\ Inventories!CrossBound(i_job.inv, i_zip.index, i_zip.sbom, Terms(i_job.inv))
  <1>0. /\ i_job.at = "validate"
        /\ UNCHANGED <<i_toc, i_over, i_source, i_disk, i_zip, i_harness, i_edits>>
        /\ IF ok THEN Inventories!Goto("harness") ELSE Inventories!Refuse
    BY DEF Inventories!Validate, Terms
  <1>1. CASE ~ ok
    <2>1. ASSUME i_edits = 0 PROVE ok
      <3>1. /\ i_disk.files = i_job.inv.files /\ i_disk.parts = i_job.inv.parts
            /\ i_disk.index = i_job.index /\ i_disk.sbom = i_job.index
            /\ i_job.manifest = i_disk /\ i_zip = i_disk
        BY <1>0, <2>1 DEF InventoryKnows, Undisturbed
      <3>2. i_job.index = Terms(i_job.inv)
        BY <1>0 DEF InventoryKnows, IndexKnows
      <3>3. Inventories!CrossBound(i_job.inv, Terms(i_job.inv), Terms(i_job.inv), Terms(i_job.inv))
        BY DEF Inventories!CrossBound, Terms
      <3> QED
        BY <3>1, <3>2, <3>3 DEF Inventories!ReadBack
    <2> QED
      BY <1>0, <1>1, <2>1, RefusalHolds
  <1>2. CASE ok
    <2>1. PICK k : k = i_job'
      OBVIOUS
    <2>2. /\ IsJob(k) /\ k.at = "harness" /\ k.read = i_job.read /\ k.parts = i_job.parts
          /\ k.inv = i_job.inv /\ k.index = i_job.index /\ k.manifest = i_job.manifest
      BY <1>0, <1>2, <2>1, GotoIs DEF InventoryKnows, Shapes
    <2>3. Undisturbed'
      BY <1>0, <2>1, <2>2, ReportStays DEF Undisturbed, InventoryKnows, Inventories!Names
    <2>4. HarnessKnows'
      BY <1>0, <2>1, <2>2 DEF HarnessKnows, InventoryKnows
    <2>5. /\ PartsKnow(k) /\ FilesKnow(k) /\ RolesKnow(k) /\ IndexKnows(k) /\ PolicyKnows(k)
      BY <1>0, <2>2 DEF PartsKnow, FilesKnow, RolesKnow, IndexKnows, PolicyKnows, InventoryKnows
    <2>6. ZipKnows(k)
      BY <1>2, <2>2 DEF ZipKnows, Inventories!ReadBack
    <2> QED
      BY <1>0, <2>1, <2>2, <2>3, <2>4, <2>5, <2>6, KnowingStays, GoesOn DEF InventoryKnows, Shapes
  <1> QED
    BY <1>1, <1>2

-----------------------------------------------------------------------------
(* The harness *)

\* A step of the harness that goes on keeps what the build knows.
LEMMA HarnessGoesOn ==
  ASSUME InventoryKnows, i_job.at \in Inventories!HarnessSteps, NEW s \in PassedSteps,
         Inventories!Goto(s),
         UNCHANGED <<i_toc, i_over, i_source, i_disk, i_zip, i_edits>>,
         IsHarness(i_harness'), i_edits = 0 => i_harness' = i_harness, HarnessKnows'
  PROVE  InventoryKnows'
  <1> USE DEF PartsSteps, MappedSteps, BoundSteps, IndexSteps, SbomSteps, ManifestSteps,
              ArchivedSteps, PassedSteps, Inventories!HarnessSteps
  <1>1. PICK k : k = i_job'
    OBVIOUS
  <1>2. /\ IsJob(k) /\ k.at = s /\ k.read = i_job.read /\ k.parts = i_job.parts
        /\ k.inv = i_job.inv /\ k.index = i_job.index /\ k.manifest = i_job.manifest
    BY <1>1, GotoIs DEF InventoryKnows, Shapes
  <1>3. Undisturbed'
    BY <1>1, <1>2, ReportStays DEF Undisturbed, InventoryKnows, Inventories!Names
  <1>4. /\ PartsKnow(k) /\ FilesKnow(k) /\ RolesKnow(k) /\ IndexKnows(k) /\ PolicyKnows(k)
        /\ ZipKnows(k)
    BY <1>2 DEF PartsKnow, FilesKnow, RolesKnow, IndexKnows, PolicyKnows, ZipKnows, InventoryKnows
  <1> QED
    BY <1>1, <1>2, <1>3, <1>4, KnowingStays, GoesOn DEF InventoryKnows, Shapes

\* Undisturbed, the harness is everywhere the program of its record.
LEMMA HarnessIsClean ==
  ASSUME InventoryKnows, i_edits = 0
  PROVE  i_harness = [runtime |-> 0, packaged |-> 0, manifest |-> 0, zip |-> 0]
  BY DEF InventoryKnows, Undisturbed

\* The tool builds the program, and it is recorded.
LEMMA HarnessToolHolds ==
  ASSUME InventoryKnows, Inventories!HarnessTool \/ Inventories!HarnessRecord
  PROVE  InventoryKnows'
  <1>1. CASE Inventories!HarnessTool
    <2>1. /\ i_job.at = "harness" /\ Inventories!Goto("record")
          /\ UNCHANGED <<i_toc, i_over, i_source, i_disk, i_zip, i_edits>>
          /\ i_harness' = [i_harness EXCEPT !.runtime = 0]
      BY <1>1 DEF Inventories!HarnessTool, Inventories!HarnessStep
    <2>2. IsHarness(i_harness') /\ i_harness'.manifest = i_harness.manifest
      BY <2>1 DEF InventoryKnows, Shapes, IsHarness
    <2>3. i_edits = 0 => i_harness' = i_harness
      BY <2>1, HarnessIsClean
    <2>4. i_job'.at = "record"
      BY <2>1, GotoIs DEF InventoryKnows, Shapes
    <2>5. HarnessKnows'
      BY <2>1, <2>2, <2>4 DEF HarnessKnows, InventoryKnows
    <2> QED
      BY <2>1, <2>2, <2>3, <2>5, HarnessGoesOn DEF Inventories!HarnessSteps, PassedSteps
  <1>2. CASE Inventories!HarnessRecord /\ i_harness.runtime = 0
    <2>1. /\ i_job.at = "record" /\ Inventories!Goto("package")
          /\ UNCHANGED <<i_toc, i_over, i_source, i_disk, i_zip, i_edits, i_harness>>
      BY <1>2 DEF Inventories!HarnessRecord, Inventories!HarnessStep
    <2>2. i_job'.at = "package"
      BY <2>1, GotoIs DEF InventoryKnows, Shapes
    <2>3. HarnessKnows'
      BY <2>1, <2>2 DEF HarnessKnows, InventoryKnows
    <2> QED
      BY <2>1, <2>3, HarnessGoesOn DEF Inventories!HarnessSteps, PassedSteps, InventoryKnows, Shapes
  <1>3. CASE Inventories!HarnessRecord /\ i_harness.runtime # 0
    <2>1. /\ Inventories!Refuse
          /\ UNCHANGED <<i_toc, i_over, i_source, i_disk, i_zip, i_edits, i_harness>>
      BY <1>3 DEF Inventories!HarnessRecord, Inventories!HarnessStep
    <2> QED
      BY <1>3, <2>1, HarnessIsClean, RefusalHolds
  <1> QED
    BY <1>1, <1>2, <1>3

\* The program is compared and copied; the manifest is made of the copy.
LEMMA HarnessPackageHolds ==
  ASSUME InventoryKnows, Inventories!HarnessPackage \/ Inventories!HarnessDescribe
  PROVE  InventoryKnows'
  <1>1. CASE Inventories!HarnessPackage /\ i_harness.runtime = 0
    <2>1. /\ i_job.at = "package" /\ Inventories!Goto("describe")
          /\ UNCHANGED <<i_toc, i_over, i_source, i_disk, i_zip, i_edits>>
          /\ i_harness' = [i_harness EXCEPT !.packaged = i_harness.runtime]
      BY <1>1 DEF Inventories!HarnessPackage, Inventories!HarnessStep
    <2>2. /\ IsHarness(i_harness') /\ i_harness'.manifest = i_harness.manifest
          /\ i_harness'.packaged = 0
      BY <1>1, <2>1 DEF InventoryKnows, Shapes, IsHarness
    <2>3. i_edits = 0 => i_harness' = i_harness
      BY <2>1, HarnessIsClean
    <2>4. i_job'.at = "describe"
      BY <2>1, GotoIs DEF InventoryKnows, Shapes
    <2>5. HarnessKnows'
      BY <2>1, <2>2, <2>4 DEF HarnessKnows, InventoryKnows
    <2> QED
      BY <2>1, <2>2, <2>3, <2>5, HarnessGoesOn DEF Inventories!HarnessSteps, PassedSteps
  <1>2. CASE Inventories!HarnessPackage /\ i_harness.runtime # 0
    <2>1. /\ Inventories!Refuse
          /\ UNCHANGED <<i_toc, i_over, i_source, i_disk, i_zip, i_edits, i_harness>>
      BY <1>2 DEF Inventories!HarnessPackage, Inventories!HarnessStep
    <2> QED
      BY <1>2, <2>1, HarnessIsClean, RefusalHolds
  <1>3. CASE Inventories!HarnessDescribe
    <2>1. /\ i_job.at = "describe" /\ Inventories!Goto("pack")
          /\ UNCHANGED <<i_toc, i_over, i_source, i_disk, i_zip, i_edits>>
          /\ i_harness' = [i_harness EXCEPT !.manifest = i_harness.packaged]
      BY <1>3 DEF Inventories!HarnessDescribe, Inventories!HarnessStep
    <2>2. /\ IsHarness(i_harness') /\ i_harness'.manifest = i_harness.packaged
          /\ i_harness'.packaged = i_harness.packaged
      BY <2>1 DEF InventoryKnows, Shapes, IsHarness
    <2>3. i_edits = 0 => i_harness' = i_harness
      BY <2>1, HarnessIsClean
    <2>4. i_job'.at = "pack"
      BY <2>1, GotoIs DEF InventoryKnows, Shapes
    <2>5. HarnessKnows'
      BY <2>1, <2>2, <2>4 DEF HarnessKnows, InventoryKnows
    <2> QED
      BY <2>1, <2>2, <2>3, <2>5, HarnessGoesOn DEF Inventories!HarnessSteps, PassedSteps
  <1> QED
    BY <1>1, <1>2, <1>3

\* The copy is compared and packed, and compared in the archive.
LEMMA HarnessPackHolds ==
  ASSUME InventoryKnows, Inventories!HarnessPack \/ Inventories!HarnessSeal
  PROVE  InventoryKnows'
  <1>1. CASE Inventories!HarnessPack /\ i_harness.packaged = 0
    <2>1. /\ i_job.at = "pack" /\ Inventories!Goto("seal")
          /\ UNCHANGED <<i_toc, i_over, i_source, i_disk, i_zip, i_edits>>
          /\ i_harness' = [i_harness EXCEPT !.zip = i_harness.packaged]
      BY <1>1 DEF Inventories!HarnessPack, Inventories!HarnessStep
    <2>2. IsHarness(i_harness') /\ i_harness'.manifest = i_harness.manifest
      BY <2>1 DEF InventoryKnows, Shapes, IsHarness
    <2>3. i_edits = 0 => i_harness' = i_harness
      BY <2>1, HarnessIsClean
    <2>4. i_job'.at = "seal"
      BY <2>1, GotoIs DEF InventoryKnows, Shapes
    <2>5. HarnessKnows'
      BY <1>1, <2>1, <2>2, <2>4 DEF HarnessKnows, InventoryKnows
    <2> QED
      BY <2>1, <2>2, <2>3, <2>5, HarnessGoesOn DEF Inventories!HarnessSteps, PassedSteps
  <1>2. CASE Inventories!HarnessPack /\ i_harness.packaged # 0
    <2>1. /\ Inventories!Refuse
          /\ UNCHANGED <<i_toc, i_over, i_source, i_disk, i_zip, i_edits, i_harness>>
      BY <1>2 DEF Inventories!HarnessPack, Inventories!HarnessStep
    <2> QED
      BY <1>2, <2>1, HarnessIsClean, RefusalHolds
  <1>3. CASE Inventories!HarnessSeal /\ i_harness.packaged = 0 /\ i_harness.zip = 0
    <2>1. /\ i_job.at = "seal" /\ Inventories!Goto("done")
          /\ UNCHANGED <<i_toc, i_over, i_source, i_disk, i_zip, i_edits, i_harness>>
      BY <1>3 DEF Inventories!HarnessSeal, Inventories!HarnessStep
    <2>2. i_job'.at = "done"
      BY <2>1, GotoIs DEF InventoryKnows, Shapes
    <2>3. HarnessKnows'
      BY <1>3, <2>1, <2>2 DEF HarnessKnows, InventoryKnows
    <2> QED
      BY <2>1, <2>3, HarnessGoesOn DEF Inventories!HarnessSteps, PassedSteps, InventoryKnows, Shapes
  <1>4. CASE Inventories!HarnessSeal /\ ~ (i_harness.packaged = 0 /\ i_harness.zip = 0)
    <2>1. /\ Inventories!Refuse
          /\ UNCHANGED <<i_toc, i_over, i_source, i_disk, i_zip, i_edits, i_harness>>
      BY <1>4 DEF Inventories!HarnessSeal, Inventories!HarnessStep
    <2> QED
      BY <1>4, <2>1, HarnessIsClean, RefusalHolds
  <1> QED
    BY <1>1, <1>2, <1>3, <1>4

-----------------------------------------------------------------------------
(* The edits *)

\* What one knows of the build stays when others change something beside it.
LEMMA EditedHolds ==
  ASSUME InventoryKnows, i_edits' = i_edits + 1, i_job.at \notin {"done", "refused"},
         UNCHANGED <<i_toc, i_job, i_zip>>, IsDisk(i_disk'), IsHarness(i_harness'), HarnessKnows'
  PROVE  InventoryKnows'
  <1>1. PICK k : k = i_job'
    OBVIOUS
  <1>2. /\ PartsKnow(k) /\ FilesKnow(k) /\ RolesKnow(k) /\ IndexKnows(k) /\ PolicyKnows(k)
        /\ ZipKnows(k)
    BY <1>1 DEF InventoryKnows
  <1>3. /\ PartsKnow(k)' /\ FilesKnow(k)' /\ RolesKnow(k)' /\ IndexKnows(k)' /\ PolicyKnows(k)'
        /\ ZipKnows(k)'
    BY <1>2, KnowingStays
  <1>4. Shapes'
    BY DEF InventoryKnows, Shapes
  <1>5. Undisturbed'
    BY <1>4 DEF InventoryKnows, Shapes, Undisturbed
  <1>6. Inventories!RefusalsComeEarly'
    BY DEF Inventories!RefusalsComeEarly
  <1> QED
    BY <1>1, <1>3, <1>4, <1>5, <1>6 DEF InventoryKnows

\* A change of a source, of the payload or of the terms, before the harness.
LEMMA EditHolds ==
  ASSUME InventoryKnows,
         Inventories!EditSource \/ Inventories!EditPayload \/ Inventories!EditTerms
  PROVE  InventoryKnows'
  <1>1. /\ i_job.at \notin {"done", "refused"} \cup Inventories!HarnessSteps
        /\ i_edits' = i_edits + 1 /\ UNCHANGED <<i_toc, i_job, i_zip, i_harness>>
    BY DEF Inventories!EditSource, Inventories!EditPayload, Inventories!EditTerms, Inventories!Edit
  <1>2. IsDisk(i_disk')
    <2>1. IsDisk(i_disk)
      BY DEF InventoryKnows, Shapes
    <2>2. ASSUME NEW f, \/ i_disk' = [i_disk EXCEPT !.files = f]
                        \/ i_disk' = [i_disk EXCEPT !.parts = f]
          PROVE  IsDisk(i_disk')
      BY <2>1, <2>2 DEF IsDisk
    <2>3. ASSUME NEW c \in DOMAIN i_disk.index, i_disk' = [i_disk EXCEPT !.index[c] = "bound"]
          PROVE  IsDisk(i_disk')
      <3>1. PICK f : f = [i_disk.index EXCEPT ![c] = "bound"]
        OBVIOUS
      <3>2. f = [d \in DOMAIN f |-> f[d]]
        BY <3>1
      <3>3. i_disk' = [i_disk EXCEPT !.index = f]
        BY <2>3, <3>1
      <3> QED
        BY <2>1, <3>2, <3>3 DEF IsDisk
    <2>4. ASSUME NEW c \in DOMAIN i_disk.sbom, i_disk' = [i_disk EXCEPT !.sbom[c] = "bound"]
          PROVE  IsDisk(i_disk')
      BY <2>1, <2>4 DEF IsDisk
    <2> QED
      BY <2>1, <2>2, <2>3, <2>4 DEF Inventories!EditSource, Inventories!EditPayload,
         Inventories!EditTerms
  <1>3. HarnessKnows'
    BY <1>1 DEF HarnessKnows, InventoryKnows, Inventories!HarnessSteps
  <1> QED
    BY <1>1, <1>2, <1>3, EditedHolds DEF InventoryKnows, Shapes

\* A change of the harness.
LEMMA EditHarnessHolds == ASSUME InventoryKnows, Inventories!EditHarness PROVE InventoryKnows'
  <1>1. /\ i_job.at \in Inventories!HarnessSteps /\ i_edits' = i_edits + 1
        /\ UNCHANGED <<i_toc, i_job, i_zip, i_disk>>
    BY DEF Inventories!EditHarness
  <1>2. IsHarness(i_harness') /\ i_harness'.manifest = i_harness.manifest
    <2>1. PICK f \in {"runtime", "packaged", "zip"}, b \in {0, Inventories!Spoiled} :
                 i_harness' = [i_harness EXCEPT ![f] = b]
      BY DEF Inventories!EditHarness
    <2>2. IsHarness(i_harness)
      BY DEF InventoryKnows, Shapes
    <2>3. CASE f = "runtime"
      BY <2>1, <2>2, <2>3 DEF IsHarness
    <2>4. CASE f = "packaged"
      BY <2>1, <2>2, <2>4 DEF IsHarness
    <2>5. CASE f = "zip"
      BY <2>1, <2>2, <2>5 DEF IsHarness
    <2> QED
      BY <2>1, <2>3, <2>4, <2>5
  <1>3. HarnessKnows'
    BY <1>1, <1>2 DEF HarnessKnows, InventoryKnows, Shapes, Inventories!HarnessSteps
  <1> QED
    BY <1>1, <1>2, <1>3, EditedHolds DEF InventoryKnows, Shapes, Inventories!HarnessSteps

\* Every step keeps it.
LEMMA InventoryStep ==
  ASSUME InventoryKnows, [Inventories!Next]_(Inventories!vars)
  PROVE  InventoryKnows'
  <1>1. CASE UNCHANGED Inventories!vars
    <2>1. UNCHANGED <<i_toc, i_over, i_source, i_disk, i_job, i_zip, i_harness, i_edits>>
      BY <1>1 DEF Inventories!vars
    <2>2. PICK k : k = i_job'
      OBVIOUS
    <2>3. /\ PartsKnow(k) /\ FilesKnow(k) /\ RolesKnow(k) /\ IndexKnows(k) /\ PolicyKnows(k)
          /\ ZipKnows(k)
      BY <2>1, <2>2 DEF InventoryKnows
    <2>4. /\ PartsKnow(k)' /\ FilesKnow(k)' /\ RolesKnow(k)' /\ IndexKnows(k)' /\ PolicyKnows(k)'
          /\ ZipKnows(k)'
      BY <2>1, <2>3, KnowingStays
    <2>5. Shapes' /\ HarnessKnows' /\ Inventories!RefusalsComeEarly'
      BY <2>1 DEF InventoryKnows, Shapes, HarnessKnows, Inventories!RefusalsComeEarly
    <2>6. Undisturbed'
      BY <2>1, ReportStays DEF InventoryKnows, Undisturbed, Inventories!Names
    <2> QED
      BY <2>2, <2>4, <2>5, <2>6 DEF InventoryKnows
  <1>2. CASE Inventories!Builder
    BY <1>2, ToolHolds, ReadSourcesHolds, ReadArchivesHolds, WalkPayloadHolds, BindHolds,
       LicensesHolds, SbomHolds, ManifestHolds, ArchiveHolds, ValidateHolds, HarnessToolHolds,
       HarnessPackageHolds, HarnessPackHolds DEF Inventories!Builder
  <1> QED
    BY <1>1, <1>2, EditHolds, EditHarnessHolds DEF Inventories!Next

-----------------------------------------------------------------------------
(* What is shipped *)

\* When no component is without an identity, an entry of the Analysis belongs to
\* the project or to a component of the license index.
LEMMA EntryIsListed ==
  ASSUME i_toc \in Tocs, NEW e \in i_toc,
         \A c \in Inventories!Components : Inventories!Identity(c) # "unresolved"
  PROVE  \E c \in Inventories!Classify(e) : c = "project" \/ c \in Inventories!Listed
  <1> DEFINE owners == IF e.special = "hook"
                       THEN (Inventories!Owned(e) \ {"pyinstaller"}) \cup {"hooks"}
                       ELSE Inventories!Owned(e)
             found == owners \cup Inventories!KnownAs(e) \cup Inventories!Unowned(e)
  <1>1. Inventories!Classify(e) = CASE found # {} -> found
                                    [] found = {} /\ e.root = "source" -> {"project"}
                                    [] OTHER -> {"unattributed"}
    BY DEF Inventories!Classify
  <1>2. \A c \in Inventories!Classify(e) : c \in Inventories!Components
    BY DEF Inventories!Components
  <1>3. ASSUME NEW c \in Inventories!Classify(e), c # "msvc", c # "project"
        PROVE  c \in Inventories!Listed
    BY <1>2, <1>3 DEF Inventories!Listed, Inventories!Identity
  <1>4. CASE found = {}
    <2>1. CASE e.root = "source"
      BY <1>1, <1>4, <2>1
    <2>2. CASE e.root # "source"
      <3>1. "unattributed" \in Inventories!Classify(e)
        BY <1>1, <1>4, <2>2
      <3> QED
        BY <1>2, <3>1 DEF Inventories!Identity
    <2> QED
      BY <2>1, <2>2
  <1>5. CASE found # {}
    <2>0. Inventories!Classify(e) = found
      BY <1>1, <1>5
    <2>1. CASE e.special = "hook"
      BY <1>3, <2>0, <2>1
    <2>2. CASE e.special # "hook" /\ Inventories!Owned(e) # {}
      <3>1. PICK c \in Inventories!Owned(e) : TRUE
        BY <2>2
      <3>2. c \in Inventories!Classify(e)
        BY <2>0, <2>2
      <3>3. c # "msvc"
        BY ServicesAssumption DEF Inventories!InventoryAssumption, Inventories!Owned
      <3> QED
        BY <1>3, <3>2, <3>3
    <2>3. CASE e.special # "hook" /\ Inventories!Owned(e) = {}
      <3>1. Inventories!IsNative(e)
        BY <1>5, <2>3 DEF Inventories!KnownAs, Inventories!Unowned
      <3>2. "native:unattributed" \in Inventories!Classify(e)
        BY <2>0, <2>3, <3>1 DEF Inventories!Unowned
      <3> QED
        BY <1>2, <3>2 DEF Inventories!Identity
    <2> QED
      BY <2>1, <2>2, <2>3
  <1> QED
    BY <1>4, <1>5

\* What an archive that passed holds is in its inventory.
LEMMA ShippedIs == InventoryKnows => Inventories!ShippedIsInventoried
  <1> SUFFICES ASSUME InventoryKnows PROVE Inventories!ShippedIsInventoried
    OBVIOUS
  <1>1. ASSUME Inventories!Passed
        PROVE  /\ DOMAIN i_zip.parts = Inventories!Names(Inventories!Members)
               /\ DOMAIN i_zip.files \subseteq Inventories!Names(Inventories!Collected)
               /\ \A n \in Inventories!Names(Inventories!Members) : i_zip.parts[n] = i_job.read[n]
               /\ \A n \in DOMAIN i_zip.files :
                    /\ i_zip.files[n] = i_job.read[n]
                    /\ Inventories!Entry(n).permitted
                    /\ \A d \in Inventories!Entry(n).dists : Inventories!Allowed(d)
                    /\ \E c \in Inventories!Classify(Inventories!Entry(n)) :
                         c = "project" \/ c \in DOMAIN i_zip.index
    <2>1. i_job.at \in PassedSteps
      BY <1>1 DEF Inventories!Passed, PassedSteps
    <2>2. /\ i_job.at \in PartsSteps /\ i_job.at \in MappedSteps /\ i_job.at \in BoundSteps
          /\ i_job.at \in ManifestSteps
      BY <2>1 DEF PartsSteps, MappedSteps, BoundSteps, IndexSteps, SbomSteps, ManifestSteps,
         ArchivedSteps
    <2>3. /\ i_zip = i_job.manifest /\ i_zip.files = i_job.inv.files
          /\ i_zip.parts = i_job.inv.parts /\ DOMAIN i_zip.index = Inventories!Listed
      BY <2>1 DEF InventoryKnows, ZipKnows, Inventories!CrossBound
    <2>4. /\ DOMAIN i_zip.parts = Inventories!Names(Inventories!Members)
          /\ \A n \in Inventories!Names(Inventories!Members) : i_zip.parts[n] = i_job.read[n]
          /\ DOMAIN i_zip.files \subseteq Inventories!Names(Inventories!Collected)
          /\ \A n \in DOMAIN i_zip.files : i_zip.files[n] = i_job.read[n]
          /\ \A c \in Inventories!Components : Inventories!Identity(c) # "unresolved"
      BY <2>2, <2>3 DEF InventoryKnows, PartsKnow, FilesKnow
    <2>5. ASSUME NEW n \in DOMAIN i_zip.files PROVE Inventories!Entry(n) \in i_toc
      BY <2>2, <2>3, <2>5, EntriesOfInventory DEF InventoryKnows, Inventories!Collected
    <2>6. ASSUME NEW n \in DOMAIN i_zip.files PROVE Inventories!Entry(n).permitted
      <3>1. n \in Inventories!Names(i_toc)
        BY <2>4 DEF Inventories!Names, Inventories!Collected
      <3> QED
        BY <2>2, <2>3, <3>1 DEF InventoryKnows, PolicyKnows
    <2>7. ASSUME NEW n \in DOMAIN i_zip.files
          PROVE  \A d \in Inventories!Entry(n).dists : Inventories!Allowed(d)
      BY <2>2, <2>5 DEF InventoryKnows, RolesKnow
    <2>8. ASSUME NEW n \in DOMAIN i_zip.files
          PROVE  \E c \in Inventories!Classify(Inventories!Entry(n)) :
                   c = "project" \/ c \in DOMAIN i_zip.index
      BY <2>3, <2>4, <2>5, EntryIsListed DEF InventoryKnows, Shapes
    <2> QED
      BY <2>4, <2>6, <2>7, <2>8
  <1>2. ASSUME i_job.at = "done"
        PROVE  /\ i_harness.zip = 0
               /\ i_harness.manifest = i_harness.zip \/ i_edits >= 2
    BY <1>2 DEF InventoryKnows, HarnessKnows
  <1> QED
    BY <1>1, <1>2 DEF Inventories!ShippedIsInventoried

\* A component whose terms are complete has nothing native and is no Conda package.
LEMMA BoundIs == InventoryKnows => Inventories!BoundMeansBound
  <1> SUFFICES ASSUME InventoryKnows, Inventories!Passed
               PROVE  /\ i_zip.sbom = i_zip.index
                      /\ \A c \in DOMAIN i_zip.index : i_zip.index[c] = "bound" =>
                           /\ c # "bootloader"
                           /\ \A n \in DOMAIN i_zip.files :
                                c \in Inventories!Classify(Inventories!Entry(n)) =>
                                  /\ Inventories!Entry(n).kind \notin {"binary", "program"}
                                  /\ c \notin Inventories!Entry(n).condas
    BY DEF Inventories!BoundMeansBound
  <1>1. i_job.at \in PassedSteps /\ i_job.at \in MappedSteps
    BY DEF Inventories!Passed, PassedSteps, PartsSteps, MappedSteps, BoundSteps, IndexSteps,
       SbomSteps, ManifestSteps, ArchivedSteps
  <1>2. /\ DOMAIN i_zip.index = Inventories!Listed /\ i_zip.sbom = Terms(i_job.inv)
        /\ \A c \in Inventories!Listed : i_zip.index[c] = Inventories!Expected(c, i_job.inv)
        /\ i_zip.files = i_job.inv.files
    BY <1>1 DEF InventoryKnows, ZipKnows, Inventories!CrossBound
  <1>3. i_zip.sbom = i_zip.index
    <2>1. i_zip.index = [c \in DOMAIN i_zip.index |-> i_zip.index[c]]
      BY DEF InventoryKnows, Shapes, IsDisk
    <2> QED
      BY <1>2, <2>1 DEF Terms
  <1>4. ASSUME NEW c \in DOMAIN i_zip.index, i_zip.index[c] = "bound"
        PROVE  c \notin Inventories!Conda /\ c \notin Inventories!NativeIn(i_job.inv)
    BY <1>1, <1>2, <1>4 DEF Inventories!Expected, InventoryKnows, FilesKnow
  <1>5. ASSUME NEW c \in DOMAIN i_zip.index, i_zip.index[c] = "bound",
               NEW n \in DOMAIN i_zip.files, c \in Inventories!Classify(Inventories!Entry(n))
        PROVE  /\ Inventories!Entry(n).kind \notin {"binary", "program"}
               /\ c \notin Inventories!Entry(n).condas
    <2>1. Inventories!Entry(n) \in i_toc
      BY <1>1, <1>2, EntriesOfInventory DEF InventoryKnows, Inventories!Collected
    <2>2. c \notin Inventories!Entry(n).condas
      BY <1>4, <1>5, <2>1 DEF Inventories!Conda
    <2>3. Inventories!Entry(n).kind \notin {"binary", "program"}
      BY <1>2, <1>4, <1>5 DEF Inventories!NativeIn
    <2> QED
      BY <2>2, <2>3
  <1>6. "bootloader" \in Inventories!NativeIn(i_job.inv)
    BY DEF Inventories!NativeIn
  <1> QED
    BY <1>3, <1>4, <1>5, <1>6

\* The inventory of an archive that passed says of every byte of it whose it is
\* and on what terms it ships, and an undisturbed build is refused early or not
\* at all: for any reports of the tool, locks, materials and edits.
THEOREM InventoryInvHolds == MCSpec => []InventoryInv
  <1>1. MCInit => InventoryKnows
    BY InventoryInit DEF MCInit
  <1>2. InventoryKnows /\ [MCNext]_mcvars => InventoryKnows'
    <2>1. [MCNext]_mcvars => [Inventories!Next]_(Inventories!vars)
      BY DEF MCNext, InRelations, InInventory, InSearch, InArchive, InReads, inventory, mcvars,
             Inventories!vars
    <2> QED
      BY <2>1, InventoryStep
  <1>3. InventoryKnows => InventoryInv
    BY ShippedIs, BoundIs DEF InventoryInv, Inventories!InventoryIsTrue, InventoryKnows
  <1> QED
    BY <1>1, <1>2, <1>3, PTL DEF MCSpec

-----------------------------------------------------------------------------
(* Answers from several reads *)

\* Every behaviour of the run is a behaviour of one reader and the vault.
LEMMA RunIsReading == MCSpec => Reading!Spec
  <1>1. MCInit => Reading!Init
    BY DEF MCInit
  <1>2. [MCNext]_mcvars => [Reading!Next]_(Reading!vars)
    BY DEF MCNext, InRelations, InInventory, InSearch, InArchive, InReads, reading, mcvars,
           Reading!vars
  <1> QED
    BY <1>1, <1>2, PTL DEF MCSpec, Reading!Spec

\* The steps of a timeline that has its hits.
Telling == {"item", "times", "close"}

IsReader(k) ==
  k = [at |-> k.at, kind |-> k.kind, limit |-> k.limit, order |-> k.order, doc |-> k.doc,
       row |-> k.row, todo |-> k.todo, times |-> k.times, items |-> k.items,
       counts |-> k.counts, reply |-> k.reply]
KindFits(k) ==
  /\ k.at \in {"page", "count"} => k.kind = "list"
  /\ k.at \in {"total", "sources", "tags"} => k.kind = "stats"
  /\ k.at \in {"row", "inside", "content", "entry", "field"} => k.kind \in {"entry", "content", "field"}
  /\ k.at \in Telling \cup {"search"} =>
       k.kind = "timeline" /\ k.limit \in Nat /\ k.order \in {"asc", "desc"} /\ k.reply = "none"
  /\ k.at = "search" => k.items = <<>>

\* An item says of one document, with the first of its times, what was held.
GoodItem(x) ==
  /\ x = [doc |-> x.doc, times |-> <<x.times[1], x.times[2]>>, source |-> x.source,
          value |-> x.value, held |-> TRUE]
  /\ x.doc \in ReadDocs /\ x.times[1] \in Reading!Values /\ x.times[2] \in Reading!Values
  /\ x.source = IF x.times[1] # Reading!Never THEN "event"
                ELSE IF x.times[2] # Reading!Never THEN "archived" ELSE "unavailable"
  /\ x.value = IF x.times[1] # Reading!Never THEN x.times[1] ELSE x.times[2]
HitSet == [doc : ReadDocs, archived : Reading!Values]
ItemSet == {x \in [doc : ReadDocs, times : Reading!Values \X Reading!Values,
                   source : {"event", "archived", "unavailable"},
                   value : Reading!Values, held : {TRUE}] : GoodItem(x)}

\* Each document is a hit to come or an item, and neither twice.
Distinct(t) == \A i, n \in DOMAIN t : t[i].doc = t[n].doc => i = n
Apart(t, u) == \A i \in DOMAIN t, n \in DOMAIN u : t[i].doc # u[n].doc
HitsFit(k) ==
  k.at \in Telling =>
    /\ k.todo \in Seq(HitSet) /\ k.items \in Seq(ItemSet)
    /\ Distinct(k.todo) /\ Distinct(k.items) /\ Apart(k.items, k.todo)
    /\ Len(k.items) + Len(k.todo) <= k.limit

\* Between the read of a row and the item, the history has every value that row
\* or file hold, had at the read of the row, or gave a time.
HeldOf(r, f, d) == {<<x, r[d][x]>> : x \in {"event", "archived"}} \cup
                   {<<x, f[d][x]>> : x \in {"event", "archived"}}
TimesFit(k, s, r, f) ==
  k.at = "times" =>
    /\ k.todo # <<>> /\ k.row \in Reading!Records
    /\ HeldOf(r, f, Head(k.todo).doc) \subseteq s
    /\ <<"event", k.row.event>> \in s /\ <<"archived", k.row.archived>> \in s
    /\ \/ k.times = <<>>
       \/ /\ k.times = <<k.times[1]>> /\ k.times[1] \in Reading!Values
          /\ k.times[1] # Reading!Never => <<"event", k.times[1]>> \in s

\* While nothing changes a reader has what is there.
Told(k) == k.at = "done" /\ k.kind = "timeline" /\ k.reply # "failed"
QuietFits(k, r, f) ==
  /\ k.at \in {"item", "times"} =>
       \A i \in DOMAIN k.todo : k.todo[i].archived = r[k.todo[i].doc].archived
  /\ k.at = "times" => LET d == Head(k.todo).doc
                       IN /\ k.row = r[d] /\ f[d] # Reading!None
                          /\ k.times # <<>> => k.times = <<r[d].event>>
  /\ k.at \in Telling \/ Told(k) =>
       \A i \in DOMAIN k.items : LET x == k.items[i]
                                 IN f[x.doc] # Reading!None
                                    /\ x.times = <<r[x.doc].event, r[x.doc].archived>>
  /\ LET n == Cardinality({d \in ReadDocs : r[d] # Reading!None})
     IN /\ k.at = "count" => /\ k.counts = <<k.counts[1]>>
                            /\ k.counts[1] \in Nat /\ k.counts[1] <= n
        /\ k.at = "sources" => k.counts = <<n>>
        /\ k.at = "tags" => k.counts = <<n, n>>

DoneFits(k, q) ==
  /\ Told(k) => k.reply = "answered" /\ \A i \in DOMAIN k.items : GoodItem(k.items[i])
  /\ k.at = "done" /\ k.kind \in {"list", "stats"} /\ k.reply = "refused" => ~ q

ReaderKnows(k, s, r, f, q) ==
  /\ IsReader(k) /\ KindFits(k) /\ HitsFit(k) /\ TimesFit(k, s, r, f) /\ DoneFits(k, q)
  /\ q => QuietFits(k, r, f)
StoreKnows(r, f) == r \in [ReadDocs -> Reading!Records] /\ f \in [ReadDocs -> Reading!Records]
ReadsKnow == /\ StoreKnows(e_rows, e_files) /\ e_quiet \in BOOLEAN
             /\ ReaderKnows(e_job, e_seen, e_rows, e_files, e_quiet)

\* A function from the first numbers is a sequence.
LEMMA FunctionIsSeq ==
  ASSUME NEW S, NEW n \in Nat, NEW f \in [1..n -> S]
  PROVE  f \in Seq(S) /\ Len(f) = n /\ DOMAIN f = 1..n
  OBVIOUS

\* A second element.
LEMMA AppendOne == ASSUME NEW n, NEW m PROVE Append(<<n>>, m) = <<n, m>>
  <1>1. Append(<<n>>, m) = [i \in 1..2 |-> IF i = 1 THEN n ELSE m]
    OBVIOUS
  <1>2. <<n, m>> = [i \in 1..2 |-> IF i = 1 THEN n ELSE m]
    OBVIOUS
  <1> QED
    BY <1>1, <1>2

\* Sizes are the same in every module.
LEMMA SameSizes ==
  ASSUME NEW S
  PROVE  /\ Reading!Cardinality(S) = Cardinality(S)
         /\ Reading!IsFiniteSet(S) <=> IsFiniteSet(S)
  <1>1. Reading!Cardinality(S) = Cardinality(S)
    BY DEF Reading!Cardinality, Cardinality
  <1>2. Reading!IsFiniteSet(S) <=> IsFiniteSet(S)
    BY DEF Reading!IsFiniteSet, IsFiniteSet
  <1> QED
    BY <1>1, <1>2

\* What the instance must satisfy.
LEMMA ReadingConstants ==
  /\ ReadDocs \subseteq Nat \ {0} /\ Times \subseteq Nat \ {0} /\ IsFiniteSet(ReadDocs)
  /\ Contents \subseteq Reading!Records \ {Reading!None} /\ ReadLimits \subseteq Nat
  /\ Reading!None \in Reading!Records /\ Reading!Values \subseteq Int
  /\ \A s \in ReadStores : s[1] \in [ReadDocs -> Reading!Records]
                           /\ s[2] \in [ReadDocs -> Reading!Records]
  <1>1. /\ ReadDocs \subseteq Nat \ {0} /\ Times \subseteq Nat \ {0} /\ Reading!IsFiniteSet(ReadDocs)
        /\ Contents \subseteq Reading!Records \ {Reading!None} /\ ReadLimits \subseteq Nat
        /\ \A s \in ReadStores : s[1] \in [ReadDocs -> Reading!Records]
                                 /\ s[2] \in [ReadDocs -> Reading!Records]
    BY ServicesAssumption DEF Reading!EntryReadsAssumption
  <1>2. Reading!None \in Reading!Records /\ Reading!Values \subseteq Int
    BY <1>1 DEF Reading!Records, Reading!None, Reading!Values, Reading!Never, Reading!Odd
  <1> QED
    BY <1>1, <1>2, SameSizes

\* The times of a row or a file.
LEMMA RecordHas ==
  ASSUME NEW r \in Reading!Records
  PROVE  /\ r.event \in Reading!Values /\ r.archived \in Reading!Values
         /\ r["event"] = r.event /\ r["archived"] = r.archived
  BY DEF Reading!Records

\* A reader that goes on, while the vault stays.
LEMMA ReaderGoesOn ==
  ASSUME ReadsKnow, UNCHANGED <<e_rows, e_files, e_quiet>>, NEW k, e_job' = k,
         ReaderKnows(k, e_seen', e_rows, e_files, e_quiet)
  PROVE  ReadsKnow'
  BY DEF ReadsKnow

\* A reader that is through; what it knew on the way does not matter then.
LEMMA AnsweredFits ==
  ASSUME NEW k, NEW s, NEW r, NEW f, NEW q, IsReader(k), k.at = "done", DoneFits(k, q),
         ~ Told(k)
  PROVE  ReaderKnows(k, s, r, f, q)
  BY DEF ReaderKnows, KindFits, HitsFit, TimesFit, QuietFits, Telling

\* The reply that ends a question.
LEMMA AnswerIs ==
  ASSUME IsReader(e_job), NEW reply, Reading!Answer(reply)
  PROVE  /\ IsReader(e_job') /\ e_job'.at = "done" /\ e_job'.reply = reply
         /\ e_job'.kind = e_job.kind
  BY DEF Reading!Answer, IsReader

\* A read that raises an exception.
LEMMA BreaksHolds ==
  ASSUME ReadsKnow, UNCHANGED <<e_rows, e_files, e_quiet>>, Reading!Breaks
  PROVE  ReadsKnow'
  <1>1. PICK k : k = e_job'
    OBVIOUS
  <1>2. IsReader(k) /\ k.at = "done" /\ k.reply = "failed"
    BY <1>1, AnswerIs DEF Reading!Breaks, ReadsKnow, ReaderKnows
  <1>3. ~ Told(k) /\ DoneFits(k, e_quiet)
    BY <1>2 DEF Told, DoneFits
  <1> QED
    BY <1>1, <1>2, <1>3, AnsweredFits, ReaderGoesOn

\* A reply about one entry.
LEMMA EntryAnswerHolds ==
  ASSUME ReadsKnow, UNCHANGED <<e_rows, e_files, e_quiet>>,
         e_job.kind \notin {"timeline", "list", "stats"}, NEW reply, Reading!Answer(reply)
  PROVE  ReadsKnow'
  <1>1. PICK k : k = e_job'
    OBVIOUS
  <1>2. IsReader(k) /\ k.at = "done" /\ k.kind = e_job.kind
    BY <1>1, AnswerIs DEF ReadsKnow, ReaderKnows
  <1>3. ~ Told(k) /\ DoneFits(k, e_quiet)
    BY <1>2 DEF Told, DoneFits
  <1> QED
    BY <1>1, <1>2, <1>3, AnsweredFits, ReaderGoesOn

\* A refusal or an answer to a page or the statistics.
LEMMA CountAnswerHolds ==
  ASSUME ReadsKnow, UNCHANGED <<e_rows, e_files, e_quiet>>,
         e_job.kind \in {"list", "stats"}, NEW reply, Reading!Answer(reply),
         reply = "refused" => ~ e_quiet
  PROVE  ReadsKnow'
  <1>1. PICK k : k = e_job'
    OBVIOUS
  <1>2. IsReader(k) /\ k.at = "done" /\ k.kind = e_job.kind /\ k.reply = reply
    BY <1>1, AnswerIs DEF ReadsKnow, ReaderKnows
  <1>3. ~ Told(k) /\ DoneFits(k, e_quiet)
    BY <1>2 DEF Told, DoneFits
  <1> QED
    BY <1>1, <1>2, <1>3, AnsweredFits, ReaderGoesOn

\* A question is asked.
LEMMA AskHolds ==
  ASSUME ReadsKnow, NEW kind, NEW limit, NEW order, NEW d, Reading!Ask(kind, limit, order, d),
         \/ kind \in {"list", "timeline"} /\ limit \in ReadLimits /\ order \in {"asc", "desc"}
         \/ kind \in {"stats", "entry", "content", "field"}
  PROVE  ReadsKnow'
  <1> DEFINE at == CASE kind = "list" -> "page" [] kind = "stats" -> "total"
                     [] kind = "timeline" -> "search" [] OTHER -> "row"
  <1>0. /\ UNCHANGED <<e_rows, e_files, e_seen>> /\ e_quiet' = TRUE
        /\ e_job' = [Reading!NoJob EXCEPT !.kind = kind, !.limit = limit, !.order = order,
                                          !.doc = d, !.at = at]
    BY DEF Reading!Ask
  <1>1. PICK k : k = e_job'
    OBVIOUS
  <1>2. /\ IsReader(k) /\ k.at = at /\ k.kind = kind /\ k.limit = limit /\ k.order = order
        /\ k.items = <<>> /\ k.reply = "none"
    BY <1>0, <1>1 DEF Reading!NoJob, IsReader
  <1>3. KindFits(k)
    BY <1>2, ReadingConstants DEF KindFits, Telling
  <1>4. HitsFit(k) /\ TimesFit(k, e_seen, e_rows, e_files) /\ QuietFits(k, e_rows, e_files)
    BY <1>2 DEF HitsFit, TimesFit, QuietFits, Telling, Told
  <1>5. DoneFits(k, TRUE)
    BY <1>2 DEF DoneFits, Told
  <1>6. ReaderKnows(k, e_seen, e_rows, e_files, TRUE)
    BY <1>2, <1>3, <1>4, <1>5 DEF ReaderKnows
  <1> QED
    BY <1>0, <1>1, <1>6 DEF ReadsKnow

\* A page, and how many entries there are.
LEMMA ListHolds ==
  ASSUME ReadsKnow, Reading!ListPage \/ Reading!CountEntries
  PROVE  ReadsKnow'
  <1> DEFINE n == Cardinality({d \in ReadDocs : e_rows[d] # Reading!None})
  <1>0. /\ UNCHANGED <<e_rows, e_files, e_quiet>> /\ n = Cardinality(Reading!Present) /\ n \in Nat
        /\ IsReader(e_job) /\ KindFits(e_job)
    <2>1. n \in Nat
      BY ReadingConstants, FS_Subset, FS_CardinalityType
    <2> QED
      BY <2>1 DEF Reading!ListPage, Reading!CountEntries, Reading!Read, Reading!World,
         Reading!Present, ReadsKnow, ReaderKnows
  <1> HIDE DEF n
  <1>1. CASE Reading!Breaks
    BY <1>0, <1>1, BreaksHolds
  <1>2. CASE Reading!ListPage /\ ~ Reading!Breaks
    <2>a. PICK m \in 0..e_job.limit :
                 /\ m <= Reading!Cardinality(Reading!Present) /\ UNCHANGED e_seen
                 /\ e_job' = [e_job EXCEPT !.counts = <<m>>, !.at = "count"]
      BY <1>2 DEF Reading!ListPage, Reading!Read
    <2>1. /\ m <= Cardinality(Reading!Present) /\ UNCHANGED e_seen /\ m \in Nat
          /\ e_job' = [e_job EXCEPT !.counts = <<m>>, !.at = "count"]
      BY <2>a, SameSizes
    <2>2. PICK k : k = e_job'
      OBVIOUS
    <2>3. IsReader(k) /\ k.at = "count" /\ k.kind = e_job.kind /\ k.counts = <<m>>
      BY <1>0, <2>1, <2>2 DEF IsReader
    <2>4. KindFits(k) /\ HitsFit(k) /\ TimesFit(k, e_seen, e_rows, e_files)
          /\ DoneFits(k, e_quiet)
      BY <1>0, <1>2, <2>3 DEF KindFits, HitsFit, TimesFit, DoneFits, Told, Telling,
         Reading!ListPage, Reading!Read
    <2>5. QuietFits(k, e_rows, e_files)
      BY <1>0, <2>1, <2>3 DEF QuietFits, Told, Telling, n
    <2>6. ReaderKnows(k, e_seen, e_rows, e_files, e_quiet)
      BY <2>3, <2>4, <2>5 DEF ReaderKnows
    <2> QED
      BY <1>0, <2>1, <2>2, <2>6, ReaderGoesOn
  <1>3. CASE Reading!CountEntries /\ ~ Reading!Breaks
    <2>1. /\ e_job.at = "count" /\ e_job.kind = "list"
          /\ Reading!Answer(IF n < e_job.counts[1] THEN "refused" ELSE "answered")
      BY <1>0, <1>3, SameSizes DEF Reading!CountEntries, Reading!Read, KindFits
    <2>2. e_quiet => ~ n < e_job.counts[1]
      BY <1>0, <2>1 DEF ReadsKnow, ReaderKnows, QuietFits, n
    <2>3. PICK reply : reply = IF n < e_job.counts[1] THEN "refused" ELSE "answered"
      OBVIOUS
    <2> QED
      BY <1>0, <2>1, <2>2, <2>3, CountAnswerHolds
  <1> QED
    BY <1>1, <1>2, <1>3

\* The statistics: how many entries, entries of each source, uses of a tag.
LEMMA StatsHold ==
  ASSUME ReadsKnow, Reading!StatTotal \/ Reading!StatSources \/ Reading!StatTags
  PROVE  ReadsKnow'
  <1> DEFINE n == Cardinality({d \in ReadDocs : e_rows[d] # Reading!None})
  <1>0. /\ UNCHANGED <<e_rows, e_files, e_quiet>> /\ n = Cardinality(Reading!Present) /\ n \in Nat
        /\ IsReader(e_job) /\ KindFits(e_job)
    <2>1. n \in Nat
      BY ReadingConstants, FS_Subset, FS_CardinalityType
    <2> QED
      BY <2>1 DEF Reading!StatTotal, Reading!StatSources, Reading!StatTags, Reading!Read,
         Reading!World, Reading!Present, ReadsKnow, ReaderKnows
  <1> HIDE DEF n
  <1>1. CASE Reading!Breaks
    BY <1>0, <1>1, BreaksHolds
  <1>2. CASE (Reading!StatTotal \/ Reading!StatSources) /\ ~ Reading!Breaks
    <2>1. /\ UNCHANGED e_seen /\ e_job.kind = "stats"
          /\ \/ e_job' = [e_job EXCEPT !.counts = <<n>>, !.at = "sources"]
             \/ e_job.at = "sources"
                /\ e_job' = [e_job EXCEPT !.counts = Append(e_job.counts, n), !.at = "tags"]
      BY <1>0, <1>2, SameSizes DEF Reading!StatTotal, Reading!StatSources, Reading!Read, KindFits
    <2>2. PICK k : k = e_job'
      OBVIOUS
    <2>3. /\ IsReader(k) /\ k.kind = "stats" /\ k.at \in {"sources", "tags"}
          /\ k.at = "sources" => k.counts = <<n>>
          /\ k.at = "tags" => e_job.at = "sources" /\ k.counts = Append(e_job.counts, n)
      BY <1>0, <2>1, <2>2 DEF IsReader
    <2>4. KindFits(k) /\ HitsFit(k) /\ TimesFit(k, e_seen, e_rows, e_files)
          /\ DoneFits(k, e_quiet)
      BY <2>3 DEF KindFits, HitsFit, TimesFit, DoneFits, Told, Telling
    <2>5. e_quiet => QuietFits(k, e_rows, e_files)
      <3>1. e_quiet /\ k.at = "tags" => k.counts = <<n, n>>
        <4>1. e_quiet /\ k.at = "tags" => e_job.counts = <<n>>
          BY <2>3 DEF ReadsKnow, ReaderKnows, QuietFits, n
        <4>2. Append(<<n>>, n) = <<n, n>>
          BY AppendOne
        <4> QED
          BY <2>3, <4>1, <4>2
      <3> QED
        BY <2>3, <3>1 DEF QuietFits, Told, Telling, n
    <2>6. ReaderKnows(k, e_seen, e_rows, e_files, e_quiet)
      BY <2>3, <2>4, <2>5 DEF ReaderKnows
    <2> QED
      BY <1>0, <2>1, <2>2, <2>6, ReaderGoesOn
  <1>3. CASE Reading!StatTags /\ ~ Reading!Breaks
    <2>1. PICK most \in 0..Cardinality(Reading!Present) :
                 /\ e_job.at = "tags" /\ e_job.kind = "stats"
                 /\ Reading!Answer(IF e_job.counts[1] = e_job.counts[2] /\ most <= e_job.counts[1]
                                   THEN "answered" ELSE "refused")
      BY <1>0, <1>3, SameSizes DEF Reading!StatTags, Reading!Read, KindFits
    <2>2. e_quiet => e_job.counts = <<n, n>>
      BY <2>1 DEF ReadsKnow, ReaderKnows, QuietFits, n
    <2>3. e_quiet => e_job.counts[1] = e_job.counts[2] /\ most <= e_job.counts[1]
      BY <1>0, <2>1, <2>2
    <2>4. PICK reply : reply = IF e_job.counts[1] = e_job.counts[2] /\ most <= e_job.counts[1]
                               THEN "answered" ELSE "refused"
      OBVIOUS
    <2> QED
      BY <1>0, <2>1, <2>3, <2>4, CountAnswerHolds
  <1> QED
    BY <1>1, <1>2, <1>3

\* One entry, its text or one field of it.
LEMMA EntryHolds ==
  ASSUME ReadsKnow,
         \/ Reading!ReadEntry \/ Reading!RequireFile \/ Reading!ReadContent \/ Reading!ReadText
         \/ Reading!ReadField
  PROVE  ReadsKnow'
  <1>0. /\ UNCHANGED <<e_rows, e_files, e_quiet>> /\ IsReader(e_job)
        /\ e_job.at \in {"row", "inside", "content", "entry", "field"}
        /\ e_job.kind \in {"entry", "content", "field"}
    <2>1. /\ UNCHANGED <<e_rows, e_files, e_quiet>>
          /\ e_job.at \in {"row", "inside", "content", "entry", "field"}
      BY DEF Reading!ReadEntry, Reading!RequireFile, Reading!ReadContent, Reading!ReadText,
         Reading!ReadField, Reading!Read, Reading!World
    <2> QED
      BY <2>1 DEF ReadsKnow, ReaderKnows, KindFits
  <1>a. ASSUME NEW reply, Reading!Answer(reply) PROVE ReadsKnow'
    BY <1>0, <1>a, EntryAnswerHolds
  <1>b. ASSUME Reading!Breaks PROVE ReadsKnow'
    BY <1>0, <1>b, BreaksHolds
  <1>c. ASSUME NEW k, e_job' = k, IsReader(k), k.kind = e_job.kind,
               k.at \in {"inside", "content", "entry", "field"}
        PROVE  ReadsKnow'
    <2>1. /\ KindFits(k) /\ HitsFit(k) /\ TimesFit(k, e_seen', e_rows, e_files)
          /\ DoneFits(k, e_quiet) /\ QuietFits(k, e_rows, e_files)
      BY <1>0, <1>c DEF KindFits, HitsFit, TimesFit, DoneFits, QuietFits, Told, Telling
    <2>2. ReaderKnows(k, e_seen', e_rows, e_files, e_quiet)
      BY <1>c, <2>1 DEF ReaderKnows
    <2> QED
      BY <1>0, <1>c, <2>2, ReaderGoesOn
  <1>1. CASE Reading!ReadEntry
    <2>1. CASE Reading!Answer("missing") \/ Reading!Breaks
      BY <1>a, <1>b, <2>1
    <2>2. CASE ~ (Reading!Answer("missing") \/ Reading!Breaks)
      <3>1. PICK k : k = e_job'
        OBVIOUS
      <3>2. k = [e_job EXCEPT !.row = e_rows[e_job.doc],
                              !.at = IF e_job.kind = "content" THEN "inside" ELSE e_job.kind]
        BY <1>1, <2>2, <3>1 DEF Reading!ReadEntry, Reading!Read
      <3>3. /\ IsReader(k) /\ k.kind = e_job.kind
            /\ k.at = IF e_job.kind = "content" THEN "inside" ELSE e_job.kind
        BY <1>0, <3>2 DEF IsReader
      <3> QED
        BY <1>0, <1>c, <3>1, <3>3
    <2> QED
      BY <2>1, <2>2
  <1>2. CASE Reading!RequireFile
    <2>1. CASE Reading!Breaks
      BY <1>b, <2>1
    <2>2. CASE ~ Reading!Breaks
      <3>1. PICK k : k = e_job'
        OBVIOUS
      <3>2. k = [e_job EXCEPT !.at = "content"]
        BY <1>2, <2>2, <3>1 DEF Reading!RequireFile, Reading!Read, Reading!Goto
      <3>3. IsReader(k) /\ k.kind = e_job.kind /\ k.at = "content"
        BY <1>0, <3>2 DEF IsReader
      <3> QED
        BY <1>c, <3>1, <3>3
    <2> QED
      BY <2>1, <2>2
  <1>3. CASE Reading!ReadContent
    BY <1>3, <1>a, <1>b DEF Reading!ReadContent, Reading!Read
  <1>4. CASE Reading!ReadText
    <2>1. PICK reply : reply = IF e_files[e_job.doc].text \in {"none", "empty"} THEN "degraded"
                               ELSE "answered"
      OBVIOUS
    <2> QED
      BY <1>4, <1>a, <2>1 DEF Reading!ReadText, Reading!Read
  <1>5. CASE Reading!ReadField
    <2>1. PICK k : k = e_job'
      OBVIOUS
    <2>2. PICK v, reply : k = [e_job EXCEPT !.at = "done", !.times = <<v>>, !.reply = reply]
      BY <1>5, <2>1 DEF Reading!ReadField, Reading!Read
    <2>3. IsReader(k) /\ k.at = "done" /\ k.kind = e_job.kind
      BY <1>0, <2>2 DEF IsReader
    <2>4. ~ Told(k) /\ DoneFits(k, e_quiet)
      BY <1>0, <2>3 DEF Told, DoneFits
    <2> QED
      BY <1>0, <2>1, <2>3, <2>4, AnsweredFits, ReaderGoesOn
  <1> QED
    BY <1>1, <1>2, <1>3, <1>4, <1>5

\* The hits of a timeline: each document once.
LEMMA SearchHolds == ASSUME ReadsKnow, Reading!Search PROVE ReadsKnow'
  <1>0. /\ UNCHANGED <<e_rows, e_files, e_quiet>> /\ IsReader(e_job) /\ e_job.at = "search"
        /\ e_rows \in [ReadDocs -> Reading!Records] /\ e_job.limit \in Nat /\ e_job.items = <<>>
        /\ e_job.kind = "timeline" /\ e_job.order \in {"asc", "desc"} /\ e_job.reply = "none"
    <2>1. UNCHANGED <<e_rows, e_files, e_quiet>> /\ e_job.at = "search"
      BY DEF Reading!Search, Reading!Read, Reading!World
    <2> QED
      BY <2>1 DEF ReadsKnow, ReaderKnows, KindFits, StoreKnows
  <1>1. CASE Reading!Breaks
    BY <1>0, <1>1, BreaksHolds
  <1>2. CASE ~ Reading!Breaks
    <2>1. PICK s \in Reading!SetToSeqs(Reading!Present) :
                 /\ e_job' = [e_job EXCEPT !.at = "item", !.todo =
                      [i \in 1..(IF Len(s) < e_job.limit THEN Len(s) ELSE e_job.limit) |->
                         [doc |-> s[i], archived |-> e_rows[s[i]].archived]]]
                 /\ UNCHANGED e_seen
      BY <1>2 DEF Reading!Search, Reading!Read
    <2>2. /\ s \in [1..Cardinality(Reading!Present) -> Reading!Present]
          /\ \A i, j \in 1..Cardinality(Reading!Present) : i # j => s[i] # s[j]
          /\ Cardinality(Reading!Present) \in Nat
      <3>1. Cardinality(Reading!Present) \in Nat
        BY ReadingConstants, FS_Subset, FS_CardinalityType DEF Reading!Present
      <3>2. Reading!Cardinality(Reading!Present) = Cardinality(Reading!Present)
        BY SameSizes
      <3> QED
        BY <2>1, <3>1, <3>2 DEF Reading!SetToSeqs
    <2>3. PICK n : n = IF Len(s) < e_job.limit THEN Len(s) ELSE e_job.limit
      OBVIOUS
    <2>4. n \in Nat /\ n <= e_job.limit /\ 1..n \subseteq 1..Cardinality(Reading!Present)
      <3>1. Len(s) = Cardinality(Reading!Present)
        BY <2>2
      <3> QED
        BY <1>0, <2>2, <2>3, <3>1
    <2>5. PICK todo : todo = [i \in 1..n |-> [doc |-> s[i], archived |-> e_rows[s[i]].archived]]
      OBVIOUS
    <2>6. PICK k : k = e_job'
      OBVIOUS
    <2>7. k = [e_job EXCEPT !.at = "item", !.todo = todo]
      BY <2>1, <2>3, <2>5, <2>6
    <2>8. /\ IsReader(k) /\ k.at = "item" /\ k.todo = todo /\ k.items = <<>> /\ k.kind = e_job.kind
          /\ k.limit = e_job.limit /\ k.order = e_job.order /\ k.reply = e_job.reply
      BY <1>0, <2>7 DEF IsReader
    <2>9. \A i \in 1..n : /\ todo[i].doc = s[i] /\ s[i] \in ReadDocs
                          /\ todo[i].archived = e_rows[s[i]].archived
                          /\ todo[i] \in HitSet
      <3>1. ASSUME NEW i \in 1..n
            PROVE  /\ todo[i] = [doc |-> s[i], archived |-> e_rows[s[i]].archived]
                   /\ s[i] \in ReadDocs /\ e_rows[s[i]].archived \in Reading!Values
        <4>1. s[i] \in ReadDocs
          BY <2>2, <2>4 DEF Reading!Present
        <4> QED
          BY <1>0, <2>5, <4>1, RecordHas
      <3>2. ASSUME NEW i \in 1..n
            PROVE  /\ todo[i].doc = s[i] /\ s[i] \in ReadDocs
                   /\ todo[i].archived = e_rows[s[i]].archived
                   /\ todo[i] \in HitSet
        <4>1. PICK d, a : d = s[i] /\ a = e_rows[s[i]].archived
          OBVIOUS
        <4>2. todo[i] = [doc |-> d, archived |-> a] /\ d \in ReadDocs /\ a \in Reading!Values
          BY <3>1, <4>1
        <4> QED
          BY <4>1, <4>2 DEF HitSet
      <3> QED
        BY <3>2
    <2>10. todo \in Seq(HitSet) /\ Len(todo) = n
           /\ DOMAIN todo = 1..n
      <3>1. DOMAIN todo = 1..n
        BY <2>5
      <3>2. todo \in [1..n -> HitSet]
        BY <2>5, <2>9
      <3> QED
        BY <2>4, <3>1, <3>2, FunctionIsSeq
    <2>11. HitsFit(k)
      <3>1. Distinct(todo)
        BY <2>2, <2>4, <2>9, <2>10 DEF Distinct
      <3>2. /\ Distinct(<< >>) /\ Apart(<< >>, todo) /\ Len(<< >>) = 0
            /\ << >> \in Seq(ItemSet)
        BY DEF Distinct, Apart
      <3>3. Len(<< >>) + Len(todo) <= e_job.limit
        BY <1>0, <2>4, <2>10, <3>2
      <3> QED
        BY <2>8, <2>10, <3>1, <3>2, <3>3 DEF HitsFit
    <2>12. /\ KindFits(k) /\ TimesFit(k, e_seen, e_rows, e_files) /\ DoneFits(k, e_quiet)
      BY <1>0, <2>8 DEF KindFits, TimesFit, DoneFits, Told, Telling
    <2>13. QuietFits(k, e_rows, e_files)
      <3>1. DOMAIN << >> = {}
        OBVIOUS
      <3> QED
        BY <2>8, <2>9, <2>10, <3>1 DEF QuietFits, Told, Telling
    <2>14. ReaderKnows(k, e_seen, e_rows, e_files, e_quiet)
      BY <2>8, <2>11, <2>12, <2>13 DEF ReaderKnows
    <2> QED
      BY <1>0, <2>1, <2>6, <2>14, ReaderGoesOn
  <1> QED
    BY <1>1, <1>2

\* What is left of a sequence.
LEMMA TailIs ==
  ASSUME NEW S, NEW s \in Seq(S), s # <<>>
  PROVE  /\ Tail(s) \in Seq(S) /\ Len(Tail(s)) = Len(s) - 1 /\ Len(s) \in Nat
         /\ Head(s) = s[1] /\ 1 \in DOMAIN s /\ s[1] \in S
         /\ DOMAIN s = 1..Len(s) /\ DOMAIN Tail(s) = 1..(Len(s) - 1)
         /\ \A i \in DOMAIN Tail(s) : i + 1 \in DOMAIN s /\ Tail(s)[i] = s[i + 1]
  OBVIOUS

\* A sequence with one more element.
LEMMA AppendIs ==
  ASSUME NEW S, NEW s \in Seq(S), NEW x \in S
  PROVE  /\ Append(s, x) \in Seq(S) /\ Len(Append(s, x)) = Len(s) + 1 /\ Len(s) \in Nat
         /\ DOMAIN s = 1..Len(s) /\ DOMAIN Append(s, x) = 1..(Len(s) + 1)
         /\ \A i \in DOMAIN s : Append(s, x)[i] = s[i]
         /\ Append(s, x)[Len(s) + 1] = x
  OBVIOUS

\* The hits without the first are still each a document of its own.
LEMMA RestFits ==
  ASSUME NEW k, HitsFit(k), k.at \in Telling, k.limit \in Nat, k.todo # <<>>
  PROVE  /\ Tail(k.todo) \in Seq(HitSet) /\ Distinct(Tail(k.todo))
         /\ Apart(k.items, Tail(k.todo)) /\ Len(k.items) + Len(Tail(k.todo)) <= k.limit
         /\ Len(k.items) + Len(Tail(k.todo)) + 1 <= k.limit
         /\ \A n \in DOMAIN Tail(k.todo) : Tail(k.todo)[n].doc # Head(k.todo).doc
  <1>1. /\ k.todo \in Seq(HitSet) /\ k.items \in Seq(ItemSet)
        /\ Distinct(k.todo) /\ Apart(k.items, k.todo) /\ Len(k.items) + Len(k.todo) <= k.limit
    BY DEF HitsFit
  <1>2. PICK t, u, items : t = k.todo /\ u = Tail(k.todo) /\ items = k.items
    OBVIOUS
  <1>3. /\ u \in Seq(HitSet) /\ Len(u) = Len(t) - 1 /\ Len(t) \in Nat
        /\ DOMAIN u = 1..(Len(t) - 1) /\ Head(t) = t[1] /\ 1 \in DOMAIN t
        /\ \A i \in DOMAIN u : i + 1 \in DOMAIN t /\ u[i] = t[i + 1]
    BY <1>1, <1>2, TailIs
  <1>4. Distinct(u)
    <2> SUFFICES ASSUME NEW i \in DOMAIN u, NEW n \in DOMAIN u, u[i].doc = u[n].doc
                 PROVE  i = n
      BY DEF Distinct
    <2>1. i + 1 = n + 1
      BY <1>1, <1>2, <1>3 DEF Distinct
    <2>2. i \in Int /\ n \in Int
      BY <1>3
    <2> QED
      BY <2>1, <2>2
  <1>5. Apart(items, u)
    BY <1>1, <1>2, <1>3 DEF Apart
  <1>6. Len(items) + Len(u) + 1 <= k.limit /\ Len(items) + Len(u) <= k.limit
    <2>1. Len(items) \in Nat
      BY <1>1, <1>2, LenProperties
    <2>2. Len(u) = Len(t) - 1 /\ Len(t) \in Nat /\ Len(items) + Len(t) <= k.limit
      BY <1>1, <1>2, <1>3
    <2> QED
      BY <2>1, <2>2
  <1>7. \A n \in DOMAIN u : u[n].doc # Head(t).doc
    <2> SUFFICES ASSUME NEW n \in DOMAIN u, u[n].doc = t[1].doc PROVE FALSE
      BY <1>3
    <2>1. n + 1 = 1 /\ n \in 1..(Len(t) - 1)
      BY <1>1, <1>2, <1>3 DEF Distinct
    <2> QED
      BY <1>3, <2>1
  <1> QED
    BY <1>2, <1>3, <1>4, <1>5, <1>6, <1>7

\* The row of the next hit.
LEMMA ReadHitHolds == ASSUME ReadsKnow, Reading!ReadHit PROVE ReadsKnow'
  <1>0. /\ UNCHANGED <<e_rows, e_files, e_quiet>> /\ e_job.at = "item" /\ IsReader(e_job)
        /\ e_job.limit \in Nat /\ HitsFit(e_job) /\ KindFits(e_job) /\ e_job.reply = "none"
        /\ e_job.kind = "timeline" /\ e_job.order \in {"asc", "desc"}
        /\ StoreKnows(e_rows, e_files) /\ (e_quiet => QuietFits(e_job, e_rows, e_files))
    <2>1. UNCHANGED <<e_rows, e_files, e_quiet>> /\ e_job.at = "item"
      BY DEF Reading!ReadHit, Reading!Read, Reading!World
    <2> QED
      BY <2>1 DEF ReadsKnow, ReaderKnows, KindFits, Telling
  <1>k. ASSUME NEW k, e_job' = k, IsReader(k), k.at \in Telling, k.kind = e_job.kind,
               k.limit = e_job.limit, k.order = e_job.order, k.reply = e_job.reply,
               HitsFit(k), TimesFit(k, e_seen', e_rows, e_files),
               e_quiet => QuietFits(k, e_rows, e_files)
        PROVE  ReadsKnow'
    <2>1. KindFits(k) /\ DoneFits(k, e_quiet)
      BY <1>0, <1>k DEF KindFits, DoneFits, Told, Telling
    <2>2. ReaderKnows(k, e_seen', e_rows, e_files, e_quiet)
      BY <1>k, <2>1 DEF ReaderKnows
    <2> QED
      BY <1>0, <1>k, <2>2, ReaderGoesOn
  <1>1. CASE Reading!Breaks
    BY <1>0, <1>1, BreaksHolds
  <1>2. CASE e_job.todo = <<>>
    <2>1. PICK k : k = e_job'
      OBVIOUS
    <2>2. k = [e_job EXCEPT !.at = "close"] /\ UNCHANGED e_seen
      BY <1>2, <2>1 DEF Reading!ReadHit, Reading!Read, Reading!Goto
    <2>3. /\ IsReader(k) /\ k.at = "close" /\ k.kind = e_job.kind /\ k.limit = e_job.limit
          /\ k.order = e_job.order /\ k.reply = e_job.reply /\ k.items = e_job.items
          /\ k.todo = e_job.todo
      BY <1>0, <2>2 DEF IsReader
    <2>4. HitsFit(k) /\ TimesFit(k, e_seen', e_rows, e_files)
      BY <1>0, <2>3 DEF HitsFit, TimesFit, Telling
    <2>5. e_quiet => QuietFits(k, e_rows, e_files)
      BY <1>0, <2>3 DEF QuietFits, Told, Telling
    <2> QED
      BY <1>k, <2>1, <2>3, <2>4, <2>5 DEF Telling
  <1>3. CASE e_job.todo # <<>> /\ ~ Reading!Breaks
    <2> DEFINE d == Head(e_job.todo).doc
               gone == e_rows[d] = Reading!None \/ e_files[d] = Reading!None
    <2>0. /\ e_seen' = Reading!Held(d)
          /\ e_job' = IF gone THEN [e_job EXCEPT !.todo = Tail(e_job.todo)]
                      ELSE [e_job EXCEPT !.row = e_rows[d], !.times = <<>>, !.at = "times"]
      BY <1>3 DEF Reading!ReadHit, Reading!Read
    <2>t. /\ e_job.todo \in Seq(HitSet)
          /\ Head(e_job.todo) = e_job.todo[1] /\ d \in ReadDocs /\ 1 \in DOMAIN e_job.todo
          /\ \A i \in DOMAIN Tail(e_job.todo) : i + 1 \in DOMAIN e_job.todo
                                                /\ Tail(e_job.todo)[i] = e_job.todo[i + 1]
      <3>1. e_job.todo \in Seq(HitSet)
        BY <1>0 DEF HitsFit, Telling
      <3>2. /\ Head(e_job.todo) = e_job.todo[1] /\ e_job.todo[1] \in HitSet /\ 1 \in DOMAIN e_job.todo
            /\ \A i \in DOMAIN Tail(e_job.todo) : i + 1 \in DOMAIN e_job.todo
                                                  /\ Tail(e_job.todo)[i] = e_job.todo[i + 1]
        <4> HIDE DEF gone
        <4> QED
          BY <1>3, <3>1, TailIs
      <3>3. d \in ReadDocs
        BY <3>2 DEF HitSet
      <3> QED
        BY <3>1, <3>2, <3>3
    <2>1. PICK k : k = e_job'
      OBVIOUS
    <2>2. CASE gone
      <3>1. /\ IsReader(k) /\ k.at = "item" /\ k.kind = e_job.kind /\ k.limit = e_job.limit
            /\ k.order = e_job.order /\ k.reply = e_job.reply /\ k.items = e_job.items
            /\ k.todo = Tail(e_job.todo)
        BY <1>0, <2>0, <2>1, <2>2 DEF IsReader
      <3>2. HitsFit(k)
        BY <1>0, <1>3, <3>1, RestFits DEF HitsFit, Telling
      <3>3. TimesFit(k, e_seen', e_rows, e_files)
        BY <3>1 DEF TimesFit
      <3>4. e_quiet => QuietFits(k, e_rows, e_files)
        BY <1>0, <2>t, <3>1 DEF QuietFits, Told, Telling
      <3> QED
        BY <1>k, <2>1, <3>1, <3>2, <3>3, <3>4 DEF Telling
    <2>3. CASE ~ gone
      <3>1. /\ IsReader(k) /\ k.at = "times" /\ k.kind = e_job.kind /\ k.limit = e_job.limit
            /\ k.order = e_job.order /\ k.reply = e_job.reply /\ k.items = e_job.items
            /\ k.todo = e_job.todo /\ k.row = e_rows[d] /\ k.times = <<>>
        BY <1>0, <2>0, <2>1, <2>3 DEF IsReader
      <3>2. HitsFit(k)
        BY <1>0, <3>1 DEF HitsFit, Telling
      <3>h. Reading!Held(d) = HeldOf(e_rows, e_files, d)
        BY DEF Reading!Held, HeldOf
      <3>r. k.row \in Reading!Records
        BY <1>0, <2>t, <3>1 DEF StoreKnows
      <3>s. /\ <<"event", k.row.event>> \in Reading!Held(d)
            /\ <<"archived", k.row.archived>> \in Reading!Held(d)
        BY <3>1, <3>r, RecordHas DEF Reading!Held
      <3>3. TimesFit(k, e_seen', e_rows, e_files)
        BY <1>3, <2>0, <3>1, <3>h, <3>r, <3>s DEF TimesFit
      <3>4. e_quiet => QuietFits(k, e_rows, e_files)
        BY <1>0, <2>3, <2>t, <3>1 DEF QuietFits, Told, Telling
      <3> QED
        BY <1>k, <2>1, <3>1, <3>2, <3>3, <3>4 DEF Telling
    <2> QED
      BY <2>2, <2>3
  <1> QED
    BY <1>1, <1>2, <1>3

\* The candidates for a time: the value of the row, and for the archiving that of
\* the hit.
LEMMA CandidatesAre ==
  ASSUME NEW hit, NEW f
  PROVE  Reading!ToSet(Reading!Candidates(hit, f)) =
           {e_job.row[f]} \cup (IF f = "archived" THEN {hit.archived} ELSE {})
  <1> DEFINE c == Reading!Candidates(hit, f)
  <1>1. CASE f = "archived"
    <2>1. c = <<e_job.row[f]>> \o <<hit.archived>>
      BY <1>1 DEF Reading!Candidates
    <2>2. DOMAIN c = 1..2 /\ c[1] = e_job.row[f] /\ c[2] = hit.archived
      BY <2>1
    <2>3. \A i \in DOMAIN c : i = 1 \/ i = 2
      BY <2>2
    <2> QED
      BY <1>1, <2>2, <2>3 DEF Reading!ToSet
  <1>2. CASE f # "archived"
    <2>1. c = <<e_job.row[f]>> \o << >>
      BY <1>2 DEF Reading!Candidates
    <2>2. DOMAIN c = 1..1 /\ c[1] = e_job.row[f]
      BY <2>1
    <2>3. \A i \in DOMAIN c : i = 1
      BY <2>2
    <2> QED
      BY <1>2, <2>2, <2>3 DEF Reading!ToSet
  <1> QED
    BY <1>1, <1>2

\* A time that is resolved was held since the row was read; while nothing
\* changes it is the one of the row.
LEMMA ResolvedFits ==
  ASSUME StoreKnows(e_rows, e_files), TimesFit(e_job, e_seen, e_rows, e_files),
         e_job.at = "times", NEW hit, hit = Head(e_job.todo), hit.doc \in ReadDocs,
         NEW f \in {"event", "archived"}
  PROVE  LET v == Reading!Resolved(hit, f)
         IN /\ v \in Reading!Values
            /\ v # Reading!Never => <<f, v>> \in e_seen
            /\ /\ e_job.row = e_rows[hit.doc] /\ e_files[hit.doc] # Reading!None
               /\ hit.archived = e_rows[hit.doc].archived
               => v = e_rows[hit.doc][f]
  <1> DEFINE d == hit.doc
             kept == Reading!Persisted(d, e_job.row, f)
             among == kept \in Reading!ToSet(Reading!Candidates(hit, f))
  <1>1. /\ e_job.row \in Reading!Records /\ HeldOf(e_rows, e_files, d) \subseteq e_seen
        /\ <<"event", e_job.row.event>> \in e_seen /\ <<"archived", e_job.row.archived>> \in e_seen
    BY DEF TimesFit
  <1>2. e_rows[d] \in Reading!Records /\ e_files[d] \in Reading!Records
    BY DEF StoreKnows
  <1>3. /\ e_job.row[f] \in Reading!Values /\ e_rows[d][f] \in Reading!Values
        /\ e_files[d][f] \in Reading!Values /\ Reading!Never \in Reading!Values
    BY <1>1, <1>2, RecordHas DEF Reading!Values
  <1>4. <<f, e_job.row[f]>> \in e_seen /\ <<f, e_files[d][f]>> \in e_seen
    <2>1. <<f, e_job.row[f]>> \in e_seen
      BY <1>1, RecordHas
    <2>2. <<f, e_files[d][f]>> \in HeldOf(e_rows, e_files, d)
      BY DEF HeldOf
    <2> QED
      BY <1>1, <2>1, <2>2
  <1>5. Reading!Resolved(hit, f) = IF kept # Reading!Never /\ among THEN kept ELSE Reading!Never
    BY DEF Reading!Resolved
  <1>6. kept = CASE e_files[d] = Reading!None -> Reading!Never
                 [] e_job.row[f] # Reading!Never -> e_job.row[f]
                 [] OTHER -> e_files[d][f]
    BY DEF Reading!Persisted
  <1>7. Reading!Resolved(hit, f) \in {Reading!Never, e_job.row[f], e_files[d][f]}
    <2>1. CASE e_files[d] = Reading!None
      BY <1>5, <1>6, <2>1
    <2>2. CASE e_files[d] # Reading!None /\ e_job.row[f] # Reading!Never
      <3>1. kept = e_job.row[f]
        BY <1>6, <2>2
      <3> QED
        BY <1>5, <3>1
    <2>3. CASE e_files[d] # Reading!None /\ e_job.row[f] = Reading!Never
      <3>1. kept = Reading!Never \/ kept = e_files[d][f]
        BY <1>6, <2>3
      <3> QED
        BY <1>5, <3>1
    <2> QED
      BY <2>1, <2>2, <2>3
  <1>8. ASSUME e_job.row = e_rows[d], e_files[d] # Reading!None,
               hit.archived = e_rows[d].archived
        PROVE  Reading!Resolved(hit, f) = e_rows[d][f]
    <2>0. Reading!ToSet(Reading!Candidates(hit, f)) = {e_rows[d][f]}
      <3>1. f = "archived" => hit.archived = e_rows[d][f]
        BY <1>2, <1>8, RecordHas
      <3>2. PICK v : v = e_rows[d][f]
        OBVIOUS
      <3>3. Reading!ToSet(Reading!Candidates(hit, f)) =
              {v} \cup (IF f = "archived" THEN {hit.archived} ELSE {})
        BY <1>8, <3>2, CandidatesAre
      <3> QED
        BY <3>1, <3>2, <3>3
    <2>1. CASE e_rows[d][f] # Reading!Never
      <3>1. kept = e_rows[d][f]
        BY <1>6, <1>8, <2>1
      <3> QED
        BY <1>5, <2>0, <2>1, <3>1
    <2>2. CASE e_rows[d][f] = Reading!Never
      <3>1. kept # Reading!Never => ~ among
        BY <2>0, <2>2
      <3> QED
        BY <1>5, <2>2, <3>1
    <2> QED
      BY <2>1, <2>2
  <1> QED
    BY <1>3, <1>4, <1>7, <1>8

\* Two times make an item, held when they were.
LEMMA ItemIs ==
  ASSUME NEW d \in ReadDocs, NEW hit, hit.doc = d, NEW a \in Reading!Values, NEW b \in Reading!Values,
         a # Reading!Never => <<"event", a>> \in e_seen,
         b # Reading!Never => <<"archived", b>> \in e_seen
  PROVE  /\ Reading!Item(hit, <<a, b>>) \in ItemSet
         /\ Reading!Item(hit, <<a, b>>).doc = d
         /\ Reading!Item(hit, <<a, b>>).times = <<a, b>>
  <1>0. PICK times : times = <<a, b>>
    OBVIOUS
  <1>s. PICK source : source = IF a # Reading!Never THEN "event"
                               ELSE IF b # Reading!Never THEN "archived" ELSE "unavailable"
    OBVIOUS
  <1>v. PICK value : value = IF a # Reading!Never THEN a ELSE b
    OBVIOUS
  <1>p. PICK p : p = IF a # Reading!Never THEN 1 ELSE IF b # Reading!Never THEN 2 ELSE 0
    OBVIOUS
  <1>1. times[1] = a /\ times[2] = b
    BY <1>0
  <1>2. Reading!Priority(times) = p
    BY <1>1, <1>p DEF Reading!Priority
  <1>3. Reading!Fields[1] = "event" /\ Reading!Fields[2] = "archived"
    BY DEF Reading!Fields
  <1>4. Reading!Item(hit, times) = [doc |-> d, times |-> times, source |-> source,
                                    value |-> value, held |-> TRUE]
    <2>1. Reading!Item(hit, times) =
            [doc |-> hit.doc, times |-> times,
             source |-> IF p = 0 THEN "unavailable" ELSE Reading!Fields[p],
             value |-> IF p = 0 THEN Reading!Never ELSE times[p],
             held |-> p = 0 \/ <<Reading!Fields[p], times[p]>> \in e_seen]
      BY <1>2 DEF Reading!Item
    <2>2. /\ source = IF p = 0 THEN "unavailable" ELSE Reading!Fields[p]
          /\ value = IF p = 0 THEN Reading!Never ELSE times[p]
          /\ p = 0 \/ <<Reading!Fields[p], times[p]>> \in e_seen
      <3>1. CASE a # Reading!Never
        <4>1. p = 1 /\ source = "event" /\ value = a
          BY <1>p, <1>s, <1>v, <3>1
        <4>2. <<Reading!Fields[1], times[1]>> \in e_seen
          BY <1>1, <1>3, <3>1
        <4> QED
          BY <1>1, <1>3, <4>1, <4>2
      <3>2. CASE a = Reading!Never /\ b # Reading!Never
        <4>1. p = 2 /\ source = "archived" /\ value = b
          BY <1>p, <1>s, <1>v, <3>2
        <4>2. <<Reading!Fields[2], times[2]>> \in e_seen
          BY <1>1, <1>3, <3>2
        <4> QED
          BY <1>1, <1>3, <4>1, <4>2
      <3>3. CASE a = Reading!Never /\ b = Reading!Never
        <4>1. p = 0 /\ source = "unavailable" /\ value = Reading!Never
          BY <1>p, <1>s, <1>v, <3>3
        <4> QED
          BY <4>1
      <3> QED
        BY <3>1, <3>2, <3>3
    <2> QED
      BY <2>1, <2>2
  <1>5. PICK x : x = Reading!Item(hit, times)
    OBVIOUS
  <1>6. x.doc = d /\ x.times = times /\ x.source = source /\ x.value = value /\ x.held = TRUE
    BY <1>4, <1>5
  <1>7. GoodItem(x)
    <2>1. x = [doc |-> x.doc, times |-> <<x.times[1], x.times[2]>>, source |-> x.source,
               value |-> x.value, held |-> TRUE]
      BY <1>0, <1>1, <1>4, <1>5, <1>6
    <2>2. x.times[1] = a /\ x.times[2] = b
      BY <1>1, <1>6
    <2>3. /\ x.doc \in ReadDocs /\ x.times[1] \in Reading!Values /\ x.times[2] \in Reading!Values
      BY <1>6, <2>2
    <2>4. x.source = IF x.times[1] # Reading!Never THEN "event"
                     ELSE IF x.times[2] # Reading!Never THEN "archived" ELSE "unavailable"
      BY <1>6, <1>s, <2>2
    <2>5. x.value = IF x.times[1] # Reading!Never THEN x.times[1] ELSE x.times[2]
      BY <1>6, <1>v, <2>2
    <2> QED
      BY <2>1, <2>3, <2>4, <2>5 DEF GoodItem
  <1>8. x \in [doc : ReadDocs, times : Reading!Values \X Reading!Values,
               source : {"event", "archived", "unavailable"},
               value : Reading!Values, held : {TRUE}]
    <2>1. value \in Reading!Values /\ source \in {"event", "archived", "unavailable"}
      BY <1>s, <1>v
    <2>2. times \in Reading!Values \X Reading!Values
      BY <1>0
    <2> QED
      BY <1>4, <1>5, <2>1, <2>2
  <1>9. x \in ItemSet
    BY <1>7, <1>8 DEF ItemSet
  <1> QED
    BY <1>0, <1>5, <1>6, <1>9

\* A timeline that goes on, while the vault stays.
LEMMA TellingGoesOn ==
  ASSUME ReadsKnow, UNCHANGED <<e_rows, e_files, e_quiet>>, e_job.at \in Telling,
         NEW k, e_job' = k, IsReader(k), k.at \in Telling, k.kind = e_job.kind,
         k.limit = e_job.limit, k.order = e_job.order, k.reply = e_job.reply,
         HitsFit(k), TimesFit(k, e_seen', e_rows, e_files),
         e_quiet => QuietFits(k, e_rows, e_files)
  PROVE  ReadsKnow'
  <1>1. KindFits(k) /\ DoneFits(k, e_quiet)
    BY DEF KindFits, DoneFits, Told, Telling, ReadsKnow, ReaderKnows
  <1>2. ReaderKnows(k, e_seen', e_rows, e_files, e_quiet)
    BY <1>1 DEF ReaderKnows
  <1> QED
    BY <1>2, ReaderGoesOn

\* One more item: the first hit becomes it.
LEMMA ItemFits ==
  ASSUME NEW k, HitsFit(k), k.at \in Telling, k.limit \in Nat, k.todo # <<>>,
         NEW x \in ItemSet, x.doc = Head(k.todo).doc
  PROVE  /\ Append(k.items, x) \in Seq(ItemSet) /\ Distinct(Append(k.items, x))
         /\ Apart(Append(k.items, x), Tail(k.todo))
         /\ Len(Append(k.items, x)) + Len(Tail(k.todo)) <= k.limit
  <1>0. /\ k.todo \in Seq(HitSet) /\ k.items \in Seq(ItemSet)
        /\ Distinct(k.items) /\ Apart(k.items, k.todo)
    BY DEF HitsFit
  <1>1. PICK t, u, items, more : /\ t = k.todo /\ u = Tail(k.todo) /\ items = k.items
                                 /\ more = Append(items, x)
    OBVIOUS
  <1>2. /\ Apart(items, u) /\ Len(items) + Len(u) + 1 <= k.limit /\ u \in Seq(HitSet)
        /\ \A n \in DOMAIN u : u[n].doc # Head(t).doc
    BY <1>1, RestFits
  <1>3. Head(t) = t[1] /\ 1 \in DOMAIN t
    BY <1>0, <1>1, TailIs
  <1>4. /\ more \in Seq(ItemSet) /\ Len(more) = Len(items) + 1 /\ Len(items) \in Nat
        /\ DOMAIN items = 1..Len(items) /\ DOMAIN more = 1..(Len(items) + 1)
        /\ \A i \in DOMAIN items : more[i] = items[i]
        /\ more[Len(items) + 1] = x
    BY <1>0, <1>1, AppendIs
  <1>5. ASSUME NEW i \in DOMAIN more
        PROVE  \/ i \in DOMAIN items /\ more[i] = items[i]
               \/ i = Len(items) + 1 /\ more[i] = x
    BY <1>4
  <1>6. \A i \in DOMAIN items : items[i].doc # x.doc
    BY <1>0, <1>1, <1>3 DEF Apart
  <1>7. Distinct(more)
    <2> SUFFICES ASSUME NEW i \in DOMAIN more, NEW n \in DOMAIN more, more[i].doc = more[n].doc
                 PROVE  i = n
      BY DEF Distinct
    <2> QED
      BY <1>0, <1>1, <1>5, <1>6 DEF Distinct
  <1>8. Apart(more, u)
    BY <1>1, <1>2, <1>5 DEF Apart
  <1>9. Len(more) + Len(u) <= k.limit
    <2>1. Len(u) \in Nat
      BY <1>2, LenProperties
    <2> QED
      BY <1>2, <1>4, <2>1
  <1> QED
    BY <1>1, <1>4, <1>7, <1>8, <1>9

\* A time of the hit, and after the second the item.
LEMMA ReadTimesHolds == ASSUME ReadsKnow, Reading!ReadTimes PROVE ReadsKnow'
  <1>0. /\ UNCHANGED <<e_rows, e_files, e_quiet>> /\ e_job.at = "times" /\ IsReader(e_job)
        /\ e_job.limit \in Nat /\ HitsFit(e_job) /\ StoreKnows(e_rows, e_files)
        /\ TimesFit(e_job, e_seen, e_rows, e_files)
        /\ (e_quiet => QuietFits(e_job, e_rows, e_files)) /\ UNCHANGED e_seen
        /\ e_job.at \in Telling
    <2>1. UNCHANGED <<e_rows, e_files, e_quiet, e_seen>> /\ e_job.at = "times"
      BY DEF Reading!ReadTimes, Reading!Read, Reading!World
    <2> QED
      BY <2>1 DEF ReadsKnow, ReaderKnows, KindFits, Telling
  <1>1. PICK hit, d : hit = Head(e_job.todo) /\ d = hit.doc
    OBVIOUS
  <1>2. e_job.todo # <<>> /\ e_job.todo \in Seq(HitSet)
    BY <1>0 DEF TimesFit, HitsFit
  <1>3. /\ hit = e_job.todo[1] /\ 1 \in DOMAIN e_job.todo /\ e_job.todo[1] \in HitSet
        /\ \A i \in DOMAIN Tail(e_job.todo) : i + 1 \in DOMAIN e_job.todo
                                              /\ Tail(e_job.todo)[i] = e_job.todo[i + 1]
    BY <1>1, <1>2, TailIs
  <1>4. d \in ReadDocs
    BY <1>1, <1>3 DEF HitSet
  <1>5. e_quiet => /\ e_job.row = e_rows[d] /\ e_files[d] # Reading!None
                   /\ hit.archived = e_rows[d].archived
                   /\ e_job.times # <<>> => e_job.times = <<e_rows[d].event>>
    BY <1>0, <1>1, <1>3 DEF QuietFits
  <1>6. Reading!Fields[1] = "event" /\ Reading!Fields[2] = "archived"
    BY DEF Reading!Fields
  <1>7. PICK k : k = e_job'
    OBVIOUS
  <1>8. CASE e_job.times = <<>>
    <2>1. PICK v : v = Reading!Resolved(hit, "event")
      OBVIOUS
    <2>2. Append(e_job.times, v) = <<v>> /\ Len(<<v>>) < 2 /\ Len(e_job.times) + 1 = 1
      BY <1>8
    <2>3. k = [e_job EXCEPT !.times = <<v>>]
      BY <1>1, <1>6, <1>7, <2>1, <2>2 DEF Reading!ReadTimes, Reading!Read
    <2>4. /\ IsReader(k) /\ k.at = "times" /\ k.kind = e_job.kind /\ k.limit = e_job.limit
          /\ k.order = e_job.order /\ k.reply = e_job.reply /\ k.items = e_job.items
          /\ k.todo = e_job.todo /\ k.row = e_job.row /\ k.times = <<v>>
      BY <1>0, <2>3 DEF IsReader
    <2>5. /\ v \in Reading!Values /\ (v # Reading!Never => <<"event", v>> \in e_seen)
          /\ (e_quiet => v = e_rows[d].event)
      <3>1. /\ v \in Reading!Values /\ (v # Reading!Never => <<"event", v>> \in e_seen)
            /\ (e_quiet => v = e_rows[d]["event"])
        BY <1>0, <1>1, <1>4, <1>5, <2>1, ResolvedFits
      <3>2. e_rows[d] \in Reading!Records
        BY <1>0, <1>4 DEF StoreKnows
      <3> QED
        BY <3>1, <3>2, RecordHas
    <2>6. HitsFit(k)
      BY <1>0, <2>4 DEF HitsFit
    <2>7. TimesFit(k, e_seen', e_rows, e_files)
      <3>1. k.times[1] = v /\ k.times = <<k.times[1]>>
        BY <2>4
      <3> QED
        BY <1>0, <2>4, <2>5, <3>1 DEF TimesFit
    <2>8. e_quiet => QuietFits(k, e_rows, e_files)
      BY <1>0, <1>1, <2>4, <2>5 DEF QuietFits, Told, Telling
    <2> QED
      BY <1>0, <1>7, <2>4, <2>6, <2>7, <2>8, TellingGoesOn DEF Telling
  <1>9. CASE e_job.times # <<>>
    <2>1. PICK a : /\ e_job.times = <<a>> /\ a \in Reading!Values
                   /\ a # Reading!Never => <<"event", a>> \in e_seen
      BY <1>0, <1>9 DEF TimesFit
    <2>2. PICK b : b = Reading!Resolved(hit, "archived")
      OBVIOUS
    <2>3. Append(e_job.times, b) = <<a, b>> /\ ~ Len(<<a, b>>) < 2 /\ Len(e_job.times) + 1 = 2
      <3>1. Append(<<a>>, b) = <<a, b>>
        BY AppendOne
      <3> QED
        BY <2>1, <3>1
    <2>4. PICK x : x = Reading!Item(hit, <<a, b>>)
      OBVIOUS
    <2>5. k = [e_job EXCEPT !.items = Append(e_job.items, x), !.todo = Tail(e_job.todo),
                            !.at = "item"]
      BY <1>1, <1>6, <1>7, <2>2, <2>3, <2>4 DEF Reading!ReadTimes, Reading!Read
    <2>6. /\ IsReader(k) /\ k.at = "item" /\ k.kind = e_job.kind /\ k.limit = e_job.limit
          /\ k.order = e_job.order /\ k.reply = e_job.reply
          /\ k.items = Append(e_job.items, x) /\ k.todo = Tail(e_job.todo)
      BY <1>0, <2>5 DEF IsReader
    <2>7. /\ b \in Reading!Values /\ (b # Reading!Never => <<"archived", b>> \in e_seen)
          /\ (e_quiet => b = e_rows[d].archived)
      <3>1. /\ b \in Reading!Values /\ (b # Reading!Never => <<"archived", b>> \in e_seen)
            /\ (e_quiet => b = e_rows[d]["archived"])
        BY <1>0, <1>1, <1>4, <1>5, <2>2, ResolvedFits
      <3>2. e_rows[d] \in Reading!Records
        BY <1>0, <1>4 DEF StoreKnows
      <3> QED
        BY <3>1, <3>2, RecordHas
    <2>8. x \in ItemSet /\ x.doc = d /\ x.times = <<a, b>>
      BY <1>1, <1>4, <2>1, <2>4, <2>7, ItemIs
    <2>9. HitsFit(k)
      <3>1. /\ Append(e_job.items, x) \in Seq(ItemSet) /\ Distinct(Append(e_job.items, x))
            /\ Apart(Append(e_job.items, x), Tail(e_job.todo))
            /\ Len(Append(e_job.items, x)) + Len(Tail(e_job.todo)) <= e_job.limit
        BY <1>0, <1>1, <1>2, <2>8, ItemFits
      <3>2. Tail(e_job.todo) \in Seq(HitSet) /\ Distinct(Tail(e_job.todo))
        BY <1>0, <1>2, RestFits
      <3> QED
        BY <2>6, <3>1, <3>2 DEF HitsFit
    <2>10. TimesFit(k, e_seen', e_rows, e_files)
      BY <2>6 DEF TimesFit
    <2>11. ASSUME e_quiet PROVE QuietFits(k, e_rows, e_files)
      <3>1. \A i \in DOMAIN k.todo : k.todo[i].archived = e_rows[k.todo[i].doc].archived
        BY <1>0, <1>3, <2>6, <2>11 DEF QuietFits
      <3>2. ASSUME NEW i \in DOMAIN k.items
            PROVE  /\ e_files[k.items[i].doc] # Reading!None
                   /\ k.items[i].times = <<e_rows[k.items[i].doc].event,
                                           e_rows[k.items[i].doc].archived>>
        <4>1. e_job.items \in Seq(ItemSet)
          BY <1>0 DEF HitsFit
        <4>2. \/ i \in DOMAIN e_job.items /\ k.items[i] = e_job.items[i]
              \/ k.items[i] = x
          BY <2>6, <2>8, <4>1, AppendIs
        <4>3. a = e_rows[d].event
          BY <1>5, <1>9, <2>1, <2>11
        <4> QED
          BY <1>0, <1>5, <2>7, <2>8, <2>11, <4>2, <4>3 DEF QuietFits
      <3> QED
        BY <2>6, <3>1, <3>2 DEF QuietFits, Told, Telling
    <2> QED
      BY <1>0, <1>7, <2>6, <2>9, <2>10, <2>11, TellingGoesOn DEF Telling
  <1> QED
    BY <1>8, <1>9

\* What the order of a timeline looks at: the earlier value is the smaller weight,
\* or the greater one.
Weight(x) == IF e_job.order = "asc" THEN x.value ELSE -x.value
LEMMA BeforeIs ==
  ASSUME NEW x \in ItemSet, NEW y \in ItemSet, e_job.order \in {"asc", "desc"}
  PROVE  /\ Reading!Rank(x) \in 1..3 /\ Weight(x) \in Int /\ x.doc \in Int
         /\ Reading!Before(x, y) <=>
              \/ Reading!Rank(x) < Reading!Rank(y)
              \/ /\ Reading!Rank(x) = Reading!Rank(y)
                 /\ \/ Reading!Rank(x) = 1 /\ Weight(x) < Weight(y)
                    \/ (Reading!Rank(x) # 1 \/ Weight(x) = Weight(y)) /\ x.doc < y.doc
  <1>0. ASSUME NEW z \in ItemSet PROVE z.value \in Int /\ z.doc \in Int
    <2>1. GoodItem(z)
      BY DEF ItemSet
    <2>2. z.doc \in ReadDocs /\ (z.value \in Reading!Values)
      BY <2>1 DEF GoodItem
    <2>3. ReadDocs \subseteq Nat /\ Reading!Values \subseteq Int
      BY ReadingConstants
    <2>4. \A n \in Nat : n \in Int
      OBVIOUS
    <2> QED
      BY <2>2, <2>3, <2>4, Zenon
  <1>1. /\ x.value \in Int /\ x.doc \in Int /\ y.value \in Int /\ y.doc \in Int
    BY <1>0
  <1>2. Reading!Rank(x) \in 1..3
    BY DEF Reading!Rank
  <1>3. PICK rx, ry, vx, vy, dx, dy :
          /\ rx = Reading!Rank(x) /\ ry = Reading!Rank(y) /\ vx = x.value /\ vy = y.value
          /\ dx = x.doc /\ dy = y.doc
    OBVIOUS
  <1>4. Reading!Before(x, y) <=> \/ rx < ry
                                 \/ /\ rx = ry
                                    /\ IF rx = 1 /\ vx # vy
                                       THEN (vx < vy) <=> (e_job.order = "asc") ELSE dx < dy
    BY <1>3 DEF Reading!Before
  <1>5. CASE e_job.order = "asc"
    <2>1. Weight(x) = vx /\ Weight(y) = vy
      BY <1>3, <1>5 DEF Weight
    <2> QED
      BY <1>1, <1>2, <1>3, <1>4, <1>5, <2>1
  <1>6. CASE e_job.order = "desc"
    <2>1. Weight(x) = -vx /\ Weight(y) = -vy /\ e_job.order # "asc"
      BY <1>3, <1>6 DEF Weight
    <2> QED
      BY <1>1, <1>2, <1>3, <1>4, <2>1
  <1> QED
    BY <1>5, <1>6

\* The order is strict and total on the items of different documents.
LEMMA BeforeOrders ==
  ASSUME e_job.order \in {"asc", "desc"}
  PROVE  /\ \A x, y \in ItemSet : x.doc # y.doc => Reading!Before(x, y) \/ Reading!Before(y, x)
         /\ \A x, y \in ItemSet : ~ (Reading!Before(x, y) /\ Reading!Before(y, x))
         /\ \A x, y, z \in ItemSet :
              Reading!Before(x, y) /\ Reading!Before(y, z) => Reading!Before(x, z)
  <1>1. ASSUME NEW x \in ItemSet, NEW y \in ItemSet
        PROVE  /\ x.doc # y.doc => Reading!Before(x, y) \/ Reading!Before(y, x)
               /\ ~ (Reading!Before(x, y) /\ Reading!Before(y, x))
    <2>1. PICK rx, ry, vx, vy, dx, dy :
            /\ rx = Reading!Rank(x) /\ ry = Reading!Rank(y) /\ vx = Weight(x) /\ vy = Weight(y)
            /\ dx = x.doc /\ dy = y.doc
      OBVIOUS
    <2>2. rx \in Int /\ ry \in Int /\ vx \in Int /\ vy \in Int /\ dx \in Int /\ dy \in Int
      BY <2>1, BeforeIs
    <2>3. Reading!Before(x, y) <=>
            rx < ry \/ (rx = ry /\ ((rx = 1 /\ vx < vy) \/ ((rx # 1 \/ vx = vy) /\ dx < dy)))
      BY <2>1, BeforeIs
    <2>4. Reading!Before(y, x) <=>
            ry < rx \/ (ry = rx /\ ((ry = 1 /\ vy < vx) \/ ((ry # 1 \/ vy = vx) /\ dy < dx)))
      BY <2>1, BeforeIs
    <2> QED
      BY <2>1, <2>2, <2>3, <2>4
  <1>2. ASSUME NEW x \in ItemSet, NEW y \in ItemSet, NEW z \in ItemSet,
               Reading!Before(x, y), Reading!Before(y, z)
        PROVE  Reading!Before(x, z)
    <2>1. PICK rx, ry, rz, vx, vy, vz, dx, dy, dz :
            /\ rx = Reading!Rank(x) /\ ry = Reading!Rank(y) /\ rz = Reading!Rank(z)
            /\ vx = Weight(x) /\ vy = Weight(y) /\ vz = Weight(z)
            /\ dx = x.doc /\ dy = y.doc /\ dz = z.doc
      OBVIOUS
    <2>2. /\ rx \in Int /\ ry \in Int /\ vx \in Int /\ vy \in Int /\ dx \in Int /\ dy \in Int
          /\ rz \in Int /\ vz \in Int /\ dz \in Int
      BY <2>1, BeforeIs
    <2>3. rx < ry \/ (rx = ry /\ ((rx = 1 /\ vx < vy) \/ ((rx # 1 \/ vx = vy) /\ dx < dy)))
      BY <1>2, <2>1, BeforeIs
    <2>4. ry < rz \/ (ry = rz /\ ((ry = 1 /\ vy < vz) \/ ((ry # 1 \/ vy = vz) /\ dy < dz)))
      BY <1>2, <2>1, BeforeIs
    <2>5. Reading!Before(x, z) <=>
            rx < rz \/ (rx = rz /\ ((rx = 1 /\ vx < vz) \/ ((rx # 1 \/ vx = vz) /\ dx < dz)))
      BY <2>1, BeforeIs
    <2> QED
      BY <2>2, <2>3, <2>4, <2>5
  <1> QED
    BY <1>1, <1>2

\* The items of different documents can be sorted, and Sorted does it: the same
\* items, each before the next.
LEMMA SortedIs ==
  ASSUME e_job.order \in {"asc", "desc"}, NEW t \in Seq(ItemSet), Distinct(t)
  PROVE  LET s == Reading!Sorted(t)
         IN /\ s \in Seq(ItemSet) /\ Len(s) = Len(t) /\ Distinct(s)
            /\ \A i \in DOMAIN s : \E j \in DOMAIN t : s[i] = t[j]
            /\ \A i, j \in DOMAIN s : i < j => Reading!Before(s[i], s[j])
  <1>0. PICK n : n = Len(t) /\ n \in Nat /\ DOMAIN t = 1..n /\ \A i \in 1..n : t[i] \in ItemSet
    BY LenProperties
  <1>1. PICK R : R = {ss \in (1..n) \X (1..n) : Reading!Before(t[ss[1]], t[ss[2]])}
    OBVIOUS
  <1>2. \A i, j \in 1..n : <<i, j>> \in R <=> Reading!Before(t[i], t[j])
    BY <1>1
  <1>3. Orders(R, n)
    <2>1. ASSUME NEW i \in 1..n, NEW j \in 1..n, i # j PROVE <<i, j>> \in R \/ <<j, i>> \in R
      <3>1. t[i].doc # t[j].doc
        BY <1>0, <2>1 DEF Distinct
      <3> QED
        BY <1>0, <1>2, <3>1, BeforeOrders
    <2>2. ASSUME NEW i \in 1..n, NEW j \in 1..n, NEW k \in 1..n, <<i, j>> \in R, <<j, k>> \in R
          PROVE  <<i, k>> \in R
      <3>1. Reading!Before(t[i], t[j]) /\ Reading!Before(t[j], t[k])
        BY <1>2, <2>2
      <3> QED
        BY <1>0, <1>2, <3>1, BeforeOrders
    <2> QED
      BY <2>1, <2>2 DEF Orders
  <1>4. PICK p : Sorts(n, p, R)
    BY <1>0, <1>3, Sortable
  <1> DEFINE Way == Reading!Injection(DOMAIN t, DOMAIN t)
             Permuted(q) == [i \in DOMAIN t |-> t[q[i]]]
             Ascends(s) == \A i, j \in DOMAIN t : i < j => ~ Reading!Before(s[j], s[i])
  <1>5. \A q : q \in Way <=> q \in [1..n -> 1..n] /\ \A i, j \in 1..n : q[i] = q[j] => i = j
    BY <1>0 DEF Reading!Injection, Reading!IsInjective
  <1>6. p \in Way
    BY <1>4, <1>5 DEF Sorts
  <1>7. Ascends(Permuted(p))
    <2> SUFFICES ASSUME NEW i \in 1..n, NEW j \in 1..n, i < j
                 PROVE  ~ Reading!Before(Permuted(p)[j], Permuted(p)[i])
      BY <1>0
    <2>1. <<p[i], p[j]>> \in R /\ p[i] \in 1..n /\ p[j] \in 1..n
      BY <1>4 DEF Sorts
    <2>2. Permuted(p)[i] = t[p[i]] /\ Permuted(p)[j] = t[p[j]]
      BY <1>0
    <2> QED
      BY <1>0, <1>2, <2>1, <2>2, BeforeOrders
  <1>8. Reading!Sorted(t) = CHOOSE s \in {Permuted(q) : q \in Way} : Ascends(s)
    BY DEF Reading!Sorted
  <1>9. \E s \in {Permuted(q) : q \in Way} : Ascends(s)
    BY <1>6, <1>7
  <1>10. PICK s : s = Reading!Sorted(t)
    OBVIOUS
  <1>11. s \in {Permuted(q) : q \in Way} /\ Ascends(s)
    <2> HIDE DEF Way, Permuted, Ascends
    <2> QED
      BY <1>8, <1>9, <1>10
  <1>12. PICK q \in Way : s = Permuted(q)
    BY <1>11
  <1>13. /\ q \in [1..n -> 1..n] /\ \A i, j \in 1..n : q[i] = q[j] => i = j
    BY <1>5
  <1>14. s = [i \in 1..n |-> t[q[i]]]
    BY <1>0, <1>12
  <1>15. \A i \in 1..n : q[i] \in 1..n /\ s[i] = t[q[i]] /\ s[i] \in ItemSet
    BY <1>0, <1>13, <1>14
  <1>16. \A i, j \in 1..n : i < j => ~ Reading!Before(s[j], s[i])
    BY <1>0, <1>11
  <1> HIDE DEF Way, Permuted, Ascends
  <1>17. s \in Seq(ItemSet) /\ Len(s) = n /\ DOMAIN s = 1..n
    <2>1. s \in [1..n -> ItemSet]
      BY <1>14, <1>15
    <2> QED
      BY <1>0, <2>1, FunctionIsSeq
  <1>18. Distinct(s)
    <2> SUFFICES ASSUME NEW i \in 1..n, NEW j \in 1..n, s[i].doc = s[j].doc PROVE i = j
      BY <1>17 DEF Distinct
    <2>1. q[i] = q[j]
      BY <1>0, <1>15 DEF Distinct
    <2> QED
      BY <1>13, <2>1
  <1>19. ASSUME NEW i \in 1..n, NEW j \in 1..n, i < j PROVE Reading!Before(s[i], s[j])
    <2>1. s[i].doc # s[j].doc
      BY <1>17, <1>18, <1>19 DEF Distinct
    <2> QED
      BY <1>15, <1>16, <1>19, <2>1, BeforeOrders
  <1> QED
    BY <1>0, <1>10, <1>15, <1>17, <1>18, <1>19

\* A good item keeps the contract of the tool.
LEMMA GoodIsCoherent ==
  ASSUME NEW x \in ItemSet
  PROVE  Reading!ItemIsCoherent(x)
  <1>0. GoodItem(x)
    BY DEF ItemSet
  <1>1. PICK a, b : a = x.times[1] /\ b = x.times[2]
    OBVIOUS
  <1>2. /\ x = [doc |-> x.doc, times |-> <<a, b>>, source |-> x.source,
                value |-> x.value, held |-> TRUE]
        /\ x.source = IF a # Reading!Never THEN "event"
                      ELSE IF b # Reading!Never THEN "archived" ELSE "unavailable"
        /\ x.value = IF a # Reading!Never THEN a ELSE b
    BY <1>0, <1>1 DEF GoodItem
  <1>3. x.times = <<a, b>>
    BY <1>2
  <1>4. Reading!Fields[1] = "event" /\ Reading!Fields[2] = "archived"
    BY DEF Reading!Fields
  <1>5. CASE a # Reading!Never
    <2>1. x.source = "event" /\ x.value = a
      BY <1>2, <1>5
    <2>2. 1 \in 1..2
      OBVIOUS
    <2> QED
      BY <1>1, <1>4, <1>5, <2>1, <2>2 DEF Reading!ItemIsCoherent
  <1>6. CASE a = Reading!Never /\ b # Reading!Never
    <2>1. x.source = "archived" /\ x.value = b
      BY <1>2, <1>6
    <2>2. 2 \in 1..2
      OBVIOUS
    <2> QED
      BY <1>1, <1>4, <1>6, <2>1, <2>2 DEF Reading!ItemIsCoherent
  <1>7. CASE a = Reading!Never /\ b = Reading!Never
    BY <1>2, <1>3, <1>7 DEF Reading!ItemIsCoherent
  <1> QED
    BY <1>5, <1>6, <1>7

\* The items in order are the reply.
LEMMA EndTimelineHolds == ASSUME ReadsKnow, Reading!EndTimeline PROVE ReadsKnow'
  <1>0. /\ UNCHANGED <<e_rows, e_files, e_quiet>> /\ e_job.at = "close" /\ IsReader(e_job)
        /\ e_job.limit \in Nat /\ HitsFit(e_job) /\ e_job.at \in Telling
        /\ (e_quiet => QuietFits(e_job, e_rows, e_files)) /\ e_job.kind = "timeline"
        /\ e_job.order \in {"asc", "desc"}
    <2>1. UNCHANGED <<e_rows, e_files, e_quiet>> /\ e_job.at = "close"
      BY DEF Reading!EndTimeline, Reading!Read, Reading!World
    <2> QED
      BY <2>1 DEF ReadsKnow, ReaderKnows, KindFits, Telling
  <1>1. PICK t, s, c : /\ t = e_job.items /\ s = Reading!Sorted(t) /\ c = <<Reading!Inferred(s)>>
    OBVIOUS
  <1>2. /\ t \in Seq(ItemSet) /\ Distinct(t) /\ Len(t) <= e_job.limit /\ Len(t) \in Nat
    <2>1. /\ t \in Seq(ItemSet) /\ Distinct(t) /\ Len(t) + Len(e_job.todo) <= e_job.limit
          /\ e_job.todo \in Seq(HitSet)
      BY <1>0, <1>1 DEF HitsFit
    <2>2. Len(t) \in Nat /\ Len(e_job.todo) \in Nat
      BY <2>1, LenProperties
    <2> QED
      BY <1>0, <2>1, <2>2
  <1>3. /\ s \in Seq(ItemSet) /\ Len(s) = Len(t) /\ Distinct(s)
        /\ \A i \in DOMAIN s : \E j \in DOMAIN t : s[i] = t[j]
        /\ \A i, j \in DOMAIN s : i < j => Reading!Before(s[i], s[j])
    BY <1>0, <1>1, <1>2, SortedIs
  <1>4. DOMAIN s = 1..Len(s) /\ Len(s) \in Nat /\ \A i \in DOMAIN s : s[i] \in ItemSet
    BY <1>3, LenProperties
  <1>5. Reading!TimelineStrict(s)
    <2>1. \A i, j \in DOMAIN s : s[i].doc = s[j].doc => i = j
      BY <1>3 DEF Distinct
    <2>2. \A i \in DOMAIN s : Reading!ItemIsCoherent(s[i])
      BY <1>4, GoodIsCoherent
    <2>3. \A i \in 2..Len(s) : Reading!Before(s[i - 1], s[i])
      <3>1. \A i \in 2..Len(s) : i - 1 \in DOMAIN s /\ i \in DOMAIN s /\ i - 1 < i
        BY <1>4
      <3> QED
        BY <1>3, <3>1
    <2> QED
      BY <1>2, <1>3, <2>1, <2>2, <2>3 DEF Reading!TimelineStrict
  <1>6. PICK k : k = e_job'
    OBVIOUS
  <1>7. k = [e_job EXCEPT !.at = "done", !.items = s, !.counts = c, !.reply = "answered"]
    BY <1>1, <1>5, <1>6 DEF Reading!EndTimeline, Reading!Read
  <1>8. /\ IsReader(k) /\ k.at = "done" /\ k.kind = "timeline" /\ k.items = s
        /\ k.reply = "answered"
    BY <1>0, <1>7 DEF IsReader
  <1>9. DoneFits(k, e_quiet)
    BY <1>4, <1>8 DEF DoneFits, Told, ItemSet
  <1>10. KindFits(k) /\ HitsFit(k) /\ TimesFit(k, e_seen', e_rows, e_files)
    BY <1>8 DEF KindFits, HitsFit, TimesFit, Telling
  <1>11. ASSUME e_quiet PROVE QuietFits(k, e_rows, e_files)
    <2>1. ASSUME NEW i \in DOMAIN s
          PROVE  /\ e_files[s[i].doc] # Reading!None
                 /\ s[i].times = <<e_rows[s[i].doc].event, e_rows[s[i].doc].archived>>
      <3>1. PICK j \in DOMAIN t : s[i] = t[j]
        BY <1>3
      <3> QED
        BY <1>0, <1>1, <1>11, <3>1 DEF QuietFits
    <2> QED
      BY <1>8, <2>1 DEF QuietFits, Telling
  <1>12. ReaderKnows(k, e_seen', e_rows, e_files, e_quiet)
    BY <1>8, <1>9, <1>10, <1>11 DEF ReaderKnows
  <1> QED
    BY <1>0, <1>6, <1>12, ReaderGoesOn

\* Another process changes a row, a file or both.
LEMMA ChangeHolds ==
  ASSUME ReadsKnow, NEW d \in ReadDocs, NEW row \in Reading!Records, NEW file \in Reading!Records,
         Reading!Change(d, row, file)
  PROVE  ReadsKnow'
  <1>0. /\ e_rows' = [e_rows EXCEPT ![d] = row] /\ e_files' = [e_files EXCEPT ![d] = file]
        /\ e_quiet' = FALSE /\ UNCHANGED e_job
        /\ e_seen' = IF e_job.at = "times" /\ Head(e_job.todo).doc = d
                     THEN e_seen \cup Reading!Held(d)' ELSE e_seen
    BY DEF Reading!Change
  <1>1. StoreKnows(e_rows, e_files) /\ ReaderKnows(e_job, e_seen, e_rows, e_files, e_quiet)
    BY DEF ReadsKnow
  <1>2. PICK k, r, f, s : k = e_job /\ r = e_rows' /\ f = e_files' /\ s = e_seen'
    OBVIOUS
  <1>3. StoreKnows(r, f)
    BY <1>0, <1>1, <1>2 DEF StoreKnows
  <1>4. TimesFit(k, s, r, f)
    <2> SUFFICES ASSUME k.at = "times" PROVE TimesFit(k, s, r, f)
      BY DEF TimesFit
    <2>1. TimesFit(k, e_seen, e_rows, e_files) /\ HitsFit(k) /\ k.at \in Telling
      BY <1>1, <1>2 DEF ReaderKnows, Telling
    <2>2. PICK c : c = Head(k.todo).doc
      OBVIOUS
    <2>3. c \in ReadDocs
      <3>1. k.todo \in Seq(HitSet) /\ k.todo # <<>>
        BY <2>1 DEF HitsFit, TimesFit
      <3>2. Head(k.todo) \in HitSet
        BY <3>1, TailIs
      <3> QED
        BY <2>2, <3>2 DEF HitSet
    <2>4. HeldOf(e_rows, e_files, c) \subseteq e_seen
      BY <2>1, <2>2 DEF TimesFit
    <2>5. HeldOf(r, f, c) \subseteq s /\ e_seen \subseteq s
      <3>1. CASE c = d
        <4>1. s = e_seen \cup Reading!Held(d)'
          BY <1>0, <1>2, <2>2, <3>1
        <4>2. Reading!Held(d)' = HeldOf(r, f, d)
          BY <1>2 DEF Reading!Held, HeldOf
        <4> QED
          BY <3>1, <4>1, <4>2
      <3>2. CASE c # d
        <4>1. s = e_seen
          BY <1>0, <1>2, <2>2, <3>2
        <4>2. r[c] = e_rows[c] /\ f[c] = e_files[c]
          BY <1>0, <1>1, <1>2, <2>3, <3>2 DEF StoreKnows
        <4>3. HeldOf(r, f, c) = HeldOf(e_rows, e_files, c)
          BY <4>2 DEF HeldOf
        <4> QED
          BY <2>4, <4>1, <4>3
      <3> QED
        BY <3>1, <3>2
    <2> QED
      BY <2>1, <2>2, <2>5 DEF TimesFit
  <1>5. DoneFits(k, FALSE)
    BY <1>1, <1>2 DEF ReaderKnows, DoneFits
  <1>6. ReaderKnows(k, s, r, f, FALSE)
    BY <1>1, <1>2, <1>4, <1>5 DEF ReaderKnows
  <1> QED
    BY <1>0, <1>2, <1>3, <1>6 DEF ReadsKnow

\* What other processes put in place are records, or nothing.
LEMMA ChangesHold == ASSUME ReadsKnow, Reading!Changes PROVE ReadsKnow'
  <1>1. PICK d \in ReadDocs :
          \/ Reading!Commit(d) \/ Reading!TakeFile(d) \/ Reading!Forget(d) \/ Reading!Follow(d)
          \/ \E r \in Contents : Reading!Publish(d, r) \/ Reading!Rewrite(d, r)
    BY DEF Reading!Changes
  <1>2. /\ e_rows[d] \in Reading!Records /\ e_files[d] \in Reading!Records
        /\ Reading!None \in Reading!Records /\ Contents \subseteq Reading!Records
    <2>1. Reading!None \in Reading!Records /\ Contents \subseteq Reading!Records
      BY ReadingConstants
    <2> QED
      BY <2>1 DEF ReadsKnow, StoreKnows
  <1>3. CASE Reading!Commit(d) \/ Reading!Follow(d)
    <2>1. Reading!Change(d, e_files[d], e_files[d])
      BY <1>3 DEF Reading!Commit, Reading!Follow
    <2> QED
      BY <1>2, <2>1, ChangeHolds
  <1>4. CASE Reading!TakeFile(d)
    <2>1. Reading!Change(d, e_rows[d], Reading!None)
      BY <1>4 DEF Reading!TakeFile
    <2> QED
      BY <1>2, <2>1, ChangeHolds
  <1>5. CASE Reading!Forget(d)
    <2>1. Reading!Change(d, Reading!None, Reading!None)
      BY <1>5 DEF Reading!Forget
    <2> QED
      BY <1>2, <2>1, ChangeHolds
  <1>6. ASSUME NEW r \in Contents, Reading!Publish(d, r) PROVE ReadsKnow'
    <2>1. Reading!Change(d, Reading!None, r)
      BY <1>6 DEF Reading!Publish
    <2> QED
      BY <1>2, <2>1, ChangeHolds
  <1>7. ASSUME NEW r \in Contents, Reading!Rewrite(d, r) PROVE ReadsKnow'
    <2>1. Reading!Change(d, e_rows[d], r)
      BY <1>7 DEF Reading!Rewrite
    <2> QED
      BY <1>2, <2>1, ChangeHolds
  <1> QED
    BY <1>1, <1>3, <1>4, <1>5, <1>6, <1>7

\* No question has been asked.
LEMMA ReadsInit == ASSUME Reading!Init PROVE ReadsKnow
  <1>1. StoreKnows(e_rows, e_files)
    <2>1. PICK s \in ReadStores : e_rows = s[1] /\ e_files = s[2]
      BY DEF Reading!Init
    <2> QED
      BY <2>1, ReadingConstants DEF StoreKnows
  <1>2. e_quiet = TRUE /\ e_job = Reading!NoJob
    BY DEF Reading!Init
  <1>3. PICK k : k = e_job
    OBVIOUS
  <1>4. IsReader(k) /\ k.at = "idle"
    BY <1>2, <1>3 DEF Reading!NoJob, IsReader
  <1>5. KindFits(k) /\ HitsFit(k) /\ TimesFit(k, e_seen, e_rows, e_files) /\ DoneFits(k, e_quiet)
        /\ QuietFits(k, e_rows, e_files)
    BY <1>4 DEF KindFits, HitsFit, TimesFit, DoneFits, QuietFits, Told, Telling
  <1>6. ReaderKnows(k, e_seen, e_rows, e_files, e_quiet)
    BY <1>4, <1>5 DEF ReaderKnows
  <1> QED
    BY <1>1, <1>2, <1>3, <1>6 DEF ReadsKnow

\* Every read, every change by another process and every step of the other
\* parts keeps it.
LEMMA ReadsStep == ASSUME ReadsKnow, [Reading!Next]_(Reading!vars) PROVE ReadsKnow'
  <1>1. CASE Reading!Reads
    <2>1. ASSUME NEW kind \in {"list", "timeline"}, NEW n \in ReadLimits, NEW o \in {"asc", "desc"},
                 Reading!Ask(kind, n, o, 0)
          PROVE  ReadsKnow'
      BY <2>1, AskHolds
    <2>2. CASE Reading!Ask("stats", 0, "asc", 0)
      <3>1. PICK kind : kind = "stats"
        OBVIOUS
      <3> QED
        BY <2>2, <3>1, AskHolds
    <2>3. ASSUME NEW d \in ReadDocs, NEW kind \in {"entry", "content"}, Reading!Ask(kind, 0, "asc", d)
          PROVE  ReadsKnow'
      BY <2>3, AskHolds
    <2>4. ASSUME NEW d \in ReadDocs, NEW f, Reading!Ask("field", 0, f, d)
          PROVE  ReadsKnow'
      <3>1. PICK kind : kind = "field"
        OBVIOUS
      <3> QED
        BY <2>4, <3>1, AskHolds
    <2> QED
      BY <1>1, <2>1, <2>2, <2>3, <2>4, ListHolds, StatsHold, EntryHolds, SearchHolds,
         ReadHitHolds, ReadTimesHolds, EndTimelineHolds DEF Reading!Reads
  <1>2. CASE Reading!Changes
    BY <1>2, ChangesHold
  <1>3. CASE UNCHANGED Reading!vars
    BY <1>3 DEF ReadsKnow, Reading!vars
  <1> QED
    BY <1>1, <1>2, <1>3 DEF Reading!Next

\* What is known says what the properties say.
LEMMA ReadsAreTrue == ASSUME ReadsKnow PROVE ReadsHold
  <1>0. /\ StoreKnows(e_rows, e_files) /\ DoneFits(e_job, e_quiet)
        /\ (e_quiet => QuietFits(e_job, e_rows, e_files))
    BY DEF ReadsKnow, ReaderKnows
  <1>1. Reading!RefusalsAreRaces
    BY <1>0 DEF Reading!RefusalsAreRaces, Reading!Done, DoneFits
  <1>2. ASSUME Told(e_job)
        PROVE  /\ e_job.reply = "answered"
               /\ \A i \in DOMAIN e_job.items :
                    LET x == e_job.items[i]
                    IN /\ x.held
                       /\ e_quiet /\ x.source # "unavailable" =>
                            Reading!Persisted(x.doc, e_rows[x.doc], x.source) = x.value
                       /\ e_quiet => x.source = IF e_rows[x.doc].event # Reading!Never THEN "event"
                                                ELSE IF e_rows[x.doc].archived # Reading!Never
                                                THEN "archived" ELSE "unavailable"
    <2>1. e_job.reply = "answered" /\ \A i \in DOMAIN e_job.items : GoodItem(e_job.items[i])
      BY <1>0, <1>2 DEF DoneFits
    <2>2. ASSUME NEW i \in DOMAIN e_job.items, NEW x, x = e_job.items[i]
          PROVE  /\ x.held
                 /\ e_quiet /\ x.source # "unavailable" =>
                      Reading!Persisted(x.doc, e_rows[x.doc], x.source) = x.value
                 /\ e_quiet => x.source = IF e_rows[x.doc].event # Reading!Never THEN "event"
                                          ELSE IF e_rows[x.doc].archived # Reading!Never
                                          THEN "archived" ELSE "unavailable"
      <3>1. GoodItem(x)
        BY <2>1, <2>2
      <3>2. x.held
        <4>1. x = [doc |-> x.doc, times |-> <<x.times[1], x.times[2]>>, source |-> x.source,
                   value |-> x.value, held |-> TRUE]
          BY <3>1 DEF GoodItem
        <4> QED
          BY <4>1
      <3>3. ASSUME e_quiet
            PROVE  /\ x.source # "unavailable" =>
                        Reading!Persisted(x.doc, e_rows[x.doc], x.source) = x.value
                   /\ x.source = IF e_rows[x.doc].event # Reading!Never THEN "event"
                                 ELSE IF e_rows[x.doc].archived # Reading!Never
                                 THEN "archived" ELSE "unavailable"
        <4>1. PICK d, row : d = x.doc /\ row = e_rows[d]
          OBVIOUS
        <4>2. /\ e_files[d] # Reading!None /\ x.times = <<row.event, row.archived>>
          BY <1>0, <1>2, <2>2, <3>3, <4>1 DEF QuietFits
        <4>3. row \in Reading!Records
          BY <1>0, <3>1, <4>1 DEF StoreKnows, GoodItem
        <4>4. row["event"] = row.event /\ row["archived"] = row.archived
          BY <4>3, RecordHas
        <4>5. /\ x.source = IF row.event # Reading!Never THEN "event"
                            ELSE IF row.archived # Reading!Never THEN "archived" ELSE "unavailable"
              /\ x.value = IF row.event # Reading!Never THEN row.event ELSE row.archived
          <5>1. x.times[1] = row.event /\ x.times[2] = row.archived
            BY <4>2
          <5> QED
            BY <3>1, <5>1 DEF GoodItem
        <4>6. x.source # "unavailable" => Reading!Persisted(d, row, x.source) = x.value
          <5>1. CASE row.event # Reading!Never
            <6>1. x.source = "event" /\ x.value = row.event
              BY <4>5, <5>1
            <6> QED
              BY <4>2, <4>4, <5>1, <6>1 DEF Reading!Persisted
          <5>2. CASE row.event = Reading!Never /\ row.archived # Reading!Never
            <6>1. x.source = "archived" /\ x.value = row.archived
              BY <4>5, <5>2
            <6> QED
              BY <4>2, <4>4, <5>2, <6>1 DEF Reading!Persisted
          <5>3. CASE row.event = Reading!Never /\ row.archived = Reading!Never
            BY <4>5, <5>3
          <5> QED
            BY <5>1, <5>2, <5>3
        <4> QED
          BY <4>1, <4>5, <4>6
      <3> QED
        BY <3>2, <3>3
    <2> QED
      BY <2>1, <2>2
  <1>3. Reading!TimelineIsCited
    BY <1>2 DEF Reading!TimelineIsCited, Reading!Done, Told
  <1> QED
    BY <1>1, <1>3 DEF ReadsHold, Reading!ReadsHold

\* A timeline is one the tool publishes and cites what was kept, and a page or
\* the statistics are refused only when entries came or went between their
\* reads: for any documents, dates, limits and number of changes by others.
THEOREM ReadsHoldHolds == MCSpec => []ReadsHold
  <1>1. MCInit => ReadsKnow
    BY ReadsInit DEF MCInit
  <1>2. ReadsKnow /\ [MCNext]_mcvars => ReadsKnow'
    <2>1. [MCNext]_mcvars => [Reading!Next]_(Reading!vars)
      BY DEF MCNext, InRelations, InInventory, InSearch, InArchive, InReads, reading, mcvars,
             Reading!vars
    <2> QED
      BY <2>1, ReadsStep
  <1>3. ReadsKnow => ReadsHold
    BY ReadsAreTrue
  <1> QED
    BY <1>1, <1>2, <1>3, PTL DEF MCSpec

=============================================================================
