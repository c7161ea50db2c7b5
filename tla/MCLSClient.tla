----------------------------- MODULE MCLSClient -----------------------------
(* Instances of LSClient for TLC. *)
EXTENDS LSClient, TLC

CONSTANTS c1, c2, k1, k2

\* Requests are interchangeable.
Symmetry == Permutations(Requests)

\* Two accounts that share one app key, hence one limiter and one issuance; the
\* first is logged in with a key of its own in turn.
SharedAndSwitched == (c1 :> {k1, k2} @@ c2 :> {k1})

OneKeyOneClient == (c1 :> {k1})
=============================================================================
