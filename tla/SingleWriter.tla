---------------------------- MODULE SingleWriter ----------------------------
(***************************************************************************)
(* What the data-root write lease promises its callers, with nothing of    *)
(* how it is kept: a data root belongs to at most one process at a time,   *)
(* only actors of that process write, and the root changes hands only      *)
(* when none of them is still writing, or when the process dies.           *)
(***************************************************************************)
CONSTANTS
    Procs,    \* the processes that open the data root
    Actors,   \* the tasks and worker threads of a process
    NoProc    \* nobody holds the data root

VARIABLES
    holder,   \* the process that holds the data root, or NoProc
    writers   \* <<process, actor>> pairs inside a write scope

vars == <<holder, writers>>

Init ==
    /\ holder = NoProc
    /\ writers = {}

Grant(p) ==
    /\ holder = NoProc
    /\ holder' = p
    /\ \/ UNCHANGED writers
       \/ \E a \in Actors : writers' = {<<p, a>>}

Enter(p, a) ==
    /\ holder = p
    /\ writers' = writers \cup {<<p, a>>}
    /\ UNCHANGED holder

Leave(p, a) ==
    /\ <<p, a>> \in writers
    /\ writers' = writers \ {<<p, a>>}
    /\ \/ UNCHANGED holder
       \/ writers' = {} /\ holder' = NoProc

HandBack(p) ==
    /\ holder = p
    /\ writers = {}
    /\ holder' = NoProc
    /\ UNCHANGED writers

Die(p) ==
    /\ holder = p
    /\ holder' = NoProc
    /\ writers' = {}

Next ==
    \E p \in Procs :
        \/ Grant(p) \/ HandBack(p) \/ Die(p)
        \/ \E a \in Actors : Enter(p, a) \/ Leave(p, a)

Spec == Init /\ [][Next]_vars
=============================================================================
