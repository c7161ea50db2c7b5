----------------------------- MODULE MCLSOrders -----------------------------
(* Instances of LSOrders for TLC. *)
EXTENDS LSOrders, TLC

\* Requests, order numbers and app keys are interchangeable.
Symmetry == Permutations(Requests) \cup Permutations(Numbers) \cup Permutations(Creds)

\* Two days with orders of other programs, a disk that fails, or orders of two
\* shares.
OneHazardEach ==
  {[diskFails |-> FALSE, others |-> TRUE,  settles |-> TRUE,
    qty |-> 1, days |-> 2, perDay |-> 2, stores |-> 2],
   [diskFails |-> TRUE,  others |-> FALSE, settles |-> FALSE,
    qty |-> 1, days |-> 1, perDay |-> 3, stores |-> 3],
   [diskFails |-> FALSE, others |-> FALSE, settles |-> TRUE,
    qty |-> 2, days |-> 1, perDay |-> 2, stores |-> 2]}
=============================================================================
