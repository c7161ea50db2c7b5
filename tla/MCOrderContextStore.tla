------------------------ MODULE MCOrderContextStore -------------------------
(* Instances of OrderContextStore for TLC. *)
EXTENDS OrderContextStore, TLC

\* Workers, orders and inodes are interchangeable.
StoreSymmetry == Permutations(Workers) \cup Permutations(Orders) \cup Permutations(Inodes)
=============================================================================
