--------------------------- MODULE MCReplication ---------------------------
(***************************************************************************)
(* Replication on small instances.                                         *)
(***************************************************************************)
EXTENDS ReplicationInvariant, TLC

\* Publishers, and slaves, are interchangeable (safety runs only).
Symmetry == Permutations(Publishers) \cup Permutations(Slaves)

=============================================================================
