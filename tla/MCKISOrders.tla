----------------------------- MODULE MCKISOrders ----------------------------
(* Instances of KISOrders for TLC. *)
EXTENDS KISOrders, TLC

\* Requests and order numbers are interchangeable.
Symmetry == Permutations(Requests) \cup Permutations(Numbers)

\* Requests about an order and its successor overlap and every list can be read,
\* or requests come one at a time and the lists may be out of reach.
OneHazardEach == {[overlap |-> TRUE, lookupsFail |-> FALSE, accepts |-> 2],
                  [overlap |-> FALSE, lookupsFail |-> TRUE, accepts |-> 3]}

OneAtATime == {[overlap |-> FALSE, lookupsFail |-> TRUE, accepts |-> 2]}
=============================================================================
