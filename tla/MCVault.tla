------------------------------ MODULE MCVault ------------------------------
(* The storage coordinator on a small instance.                              *)
EXTENDS StorageCoordinator

CONSTANTS a1, a2, d1

\* Every delete is of the row the first archive inserts.
MCTarget == [d \in Deletes |-> a1]
AllFaults == FaultKinds
=============================================================================
