-------------------------- MODULE MCStorageServer --------------------------
(* StorageServer for TLC: worker threads and stop handlers are alike. *)
EXTENDS StorageServer, TLC

Symmetry == Permutations(Workers) \cup Permutations(Stoppers)

=============================================================================
