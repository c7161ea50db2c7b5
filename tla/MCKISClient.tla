----------------------------- MODULE MCKISClient ----------------------------
(* Instances of KISClient for TLC. *)
EXTENDS KISClient, TLC

CONSTANTS c1, c2, k1, k2

\* Requests are interchangeable.
Symmetry == Permutations(Requests)

\* Two accounts, each with its own app key.
OneKeyEach == (c1 :> {k1} @@ c2 :> {k2})

OneKeyOneClient == (c1 :> {k1})
=============================================================================
