----------------------------- MODULE AtomicPair -----------------------------
(***************************************************************************)
(* What a vector index promises its users: one set of labels, which every  *)
(* write changes in a single step or not at all.  The two files, the       *)
(* rollback copies and the transaction marker of VectorPair are how the    *)
(* code keeps that promise across crashes.                                 *)
(***************************************************************************)
CONSTANTS Labels,       \* the labels that can be written
          Missing       \* the value of an index that was never created

VARIABLE value

Init == value \in {Missing, {}}

Create == value = Missing /\ value' = {}

Add(l) == value # Missing /\ value' = value \cup {l}

Delete(l) == value # Missing /\ value' = value \ {l}

Next == Create \/ \E l \in Labels : Add(l) \/ Delete(l)

Spec == Init /\ [][Next]_value
=============================================================================
