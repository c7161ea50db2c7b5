----------------------------- MODULE MCAdapters -----------------------------
(* What the adapters keep or put together, for TLC: the orders of a Kiwoom   *)
(* and of a Toss account, and the answers made of several pages.  They share *)
(* nothing, and each behaviour is about one of them.                         *)
EXTENDS KiwoomOrders, TossOrders, Paging, TLC

VARIABLE part  \* what the behaviour is about, which does not change

vars == <<part, ordersVars, tossOrderVars, pagingVars>>

\* The ids of Toss are the same model values as the numbers of Kiwoom.
Symmetry == Permutations(Requests) \cup Permutations(Numbers)

\* One hazard at a time: overlapping requests, lists that are cut, lists that fail.
OneHazardEach ==
  {[overlap |-> TRUE, lists |-> "whole", accepts |-> 2],
   [overlap |-> FALSE, lists |-> "short", accepts |-> 2],
   [overlap |-> FALSE, lists |-> "fail", accepts |-> 3]}

\* A bound of the model: where three ids are in use, every order is of one share, and
\* records of refused cancellations have that quantity or none.
TossBound ==
  \/ \E o \in OrderIds : tossBook[o].state = "none"
  \/ \A o \in OrderIds :
       LET r == tossBook[o]
       IN  \/ r.quantity = [n |-> 1, scale |-> 0]
           \/ r.quantity = Blank /\ r.state \in (Absent \cup Refused) \ {"replace"}

\* States that differ only in an answer of the Toss adapter that no property but the types
\* is about, and that no action reads, are one.
AnswersOfGetOrder ==
  <<part, ordersVars, pagingVars, tossBook, asked, IF told.op = "get" THEN told ELSE Nothing>>

\* Periods of three days, the first of them cut.
Weeks == [b \in 1..Days |-> b \div 3]

\* Charts with and without gaps, ranges and limits; accounts and lists of every length
\* up to one page more than is collected, with rows left out.
NoRange == [from |-> 0, to |-> 0, limit |-> 0, grouped |-> FALSE]

Charts ==
  {[loop |-> l, book |-> b, void |-> {}, broker |-> w, opts |-> o] :
     l \in {"kiwoom_chart", "kis_chart"},
     b \in {1..6, {1, 2, 4, 5}, {2, 3, 5, 6}},
     w \in {"honest", "ignores"},
     o \in [from : {0, 2, 3}, to : {0, 5}, limit : 0..2, grouped : BOOLEAN]}

Accounts ==
  {[loop |-> l, book |-> 1..n, void |-> v, broker |-> w, opts |-> [NoRange EXCEPT !.limit = k]] :
     l \in {"kiwoom_rows", "ls_balance", "ls_master"}, n \in 0..6, v \in {{}, {2, 4}},
     w \in {"honest", "ignores"}, k \in {0, 3}}

AllListings ==
  {c \in Charts : c.opts.grouped => c.loop = "kis_chart"}
    \cup {c \in Accounts : c.opts.limit # 0 => c.loop = "ls_master"}

TypeOK == OrdersTypeOK /\ TossOrdersTypeOK /\ PagingTypeOK

Init ==
  /\ part \in {"kiwoom", "toss", "pages"}
  /\ OrdersInit /\ TossOrdersInit /\ PagingInit
  /\ part # "kiwoom" => world = CHOOSE w \in Worlds : TRUE
  /\ part # "pages" => listing = CHOOSE l \in Listings : TRUE

Next ==
  /\ \/ part = "kiwoom" /\ OrdersNext /\ UNCHANGED <<tossOrderVars, pagingVars>>
     \/ part = "toss" /\ TossOrdersNext /\ TossBound' /\ UNCHANGED <<ordersVars, pagingVars>>
     \/ part = "pages" /\ PagingNext /\ UNCHANGED <<ordersVars, tossOrderVars>>
  /\ UNCHANGED part

Spec == Init /\ [][Next]_vars
=============================================================================
