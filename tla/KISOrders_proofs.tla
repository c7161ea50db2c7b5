--------------------------- MODULE KISOrders_proofs -------------------------
(***************************************************************************)
(* What the KIS adapter remembers and answers about its orders is true of  *)
(* the exchange, for any number of requests, orders and contexts kept      *)
(* (module KISOrders).                                                     *)
(***************************************************************************)
EXTENDS KISOrders, FiniteSetTheorems, TLAPS

\* Status s of order id is what the exchange x says of it or of the order that
\* replaced it; filled and rejected are only claimed while the lists are read.
TrueOf(x, fails, id, s) ==
  (s = "cancelled" \/ (s \in {"filled", "rejected"} /\ ~ fails)) =>
    \E m \in Numbers : (m = id \/ x[m].parent = id) /\ x[m].state = s

\* What a step of the exchange leaves alone: an order that has ended stays as it
\* ended, and an order stays what it is.
Kept(x, y) ==
  \A m \in Numbers :
    /\ x[m].state # "none" => /\ y[m].state # "none"
                              /\ y[m].parent = x[m].parent
                              /\ y[m].overseas = x[m].overseas
    /\ x[m].state \notin {"none", "open"} => y[m].state = x[m].state

ExchOK ==
  /\ world \in Worlds
  /\ exch \in [Numbers -> [state : {"none", "open", "replaced"} \cup Settled,
                           parent : Numbers \cup {None},
                           overseas : BOOLEAN]]
  /\ gone \subseteq Numbers

OrdersOK ==
  /\ orders \in [Numbers -> Contexts]
  /\ IsFiniteSet(Stored) /\ Cardinality(Stored) <= Limit

RequestsOK ==
  /\ pc \in [Requests -> {"idle", "resolve", "list", "keep", "call", "store", "alias",
                          "remove", "daily", "open", "record", "answered"}]
  /\ op \in [Requests -> Ops]
  /\ num \in [Requests -> Numbers \cup {None}]
  /\ meta \in [Requests -> Contexts]
  /\ new \in [Requests -> Numbers \cup {None}]
  /\ found \in [Requests -> Statuses]
  /\ answer \in [Requests -> Answers]
  /\ before \in [Requests -> SUBSET Numbers]

\* Context c says the truth.
ContextTrue(x, fails, c) ==
  /\ c = NoContext \/ c.id \in Numbers
  /\ TrueOf(x, fails, c.id, c.status)

ContextsTrue == \A n \in Numbers : ContextTrue(exch, world.lookupsFail, orders[n])

\* Which steps belong to which requests, and what is in hand there.
InHand(r) ==
  /\ op[r] \notin {"none", "place"} => num[r] \in Numbers /\ exch[num[r]].state # "none"
  /\ pc[r] \in {"resolve", "list", "keep", "alias", "remove", "daily", "open", "record"} =>
       op[r] \notin {"none", "place"}
  /\ pc[r] = "alias" => op[r] = "cancel"
  /\ pc[r] \in {"keep", "alias", "daily", "open", "record"} => meta[r].id \in Numbers
  /\ pc[r] \in {"call", "store"} /\ op[r] \in {"cancel", "modify"} => meta[r].id \in Numbers
  /\ pc[r] = "store" /\ op[r] \in {"place", "modify"} => new[r] \in Numbers
  /\ pc[r] \in {"idle", "resolve", "list", "keep"} => found[r] = "pending"
  /\ pc[r] # "answered" => answer[r] = "none"
  /\ pc[r] = "open" => world.lookupsFail

\* What a request has found out is true.
RequestTrue(r) ==
  /\ ContextTrue(exch, world.lookupsFail, meta[r])
  /\ TrueOf(exch, world.lookupsFail, meta[r].id, found[r])
  /\ answer[r] \in Statuses => TrueOf(exch, world.lookupsFail, meta[r].id, answer[r])
  /\ pc[r] \in {"store", "alias"} /\ op[r] = "cancel" => exch[meta[r].id].state = "cancelled"
  /\ answer[r] = "notfound" =>
       /\ num[r] \in Numbers
       /\ exch[num[r]].state # "none"
       /\ exch[num[r]].state # "open" \/ exch[num[r]].overseas

\* The inductive invariant.
IInv ==
  /\ ExchOK /\ OrdersOK /\ RequestsOK
  /\ ContextsTrue
  /\ \A r \in Requests : InHand(r) /\ RequestTrue(r)

LEMMA IInvImplies ==
  ASSUME IInv
  PROVE  TypeOK /\ CancelledIsCancelled /\ FilledIsFilled /\ OpenOrderIsFound
<1>1. TypeOK
  BY DEF IInv, ExchOK, OrdersOK, RequestsOK, TypeOK
<1>2. CancelledIsCancelled
  <2>1. \A id \in Numbers \cup {None} :
          TrueOf(exch, world.lookupsFail, id, "cancelled") => IsOrBecame(id, "cancelled")
    BY DEF TrueOf, IsOrBecame, Family
  <2>2. \A n \in Numbers :
          orders[n].status = "cancelled" => IsOrBecame(orders[n].id, "cancelled")
    BY <2>1 DEF IInv, ContextsTrue, ContextTrue, OrdersOK, Contexts
  <2>3. \A r \in Requests :
          answer[r] = "cancelled" => IsOrBecame(meta[r].id, "cancelled")
    BY <2>1 DEF IInv, RequestTrue, RequestsOK, Contexts, Statuses, Settled
  <2> QED
    BY <2>2, <2>3 DEF CancelledIsCancelled
<1>3. FilledIsFilled
  <2>1. ASSUME ~ world.lookupsFail
        PROVE  \A id \in Numbers \cup {None}, s \in {"filled", "rejected"} :
                 TrueOf(exch, world.lookupsFail, id, s) => IsOrBecame(id, s)
    BY <2>1 DEF TrueOf, IsOrBecame, Family
  <2> QED
    BY <2>1 DEF IInv, ContextsTrue, ContextTrue, OrdersOK, Contexts, FilledIsFilled
<1>4. OpenOrderIsFound
  BY DEF IInv, RequestTrue, OpenOrderIsFound
<1> QED
  BY <1>1, <1>2, <1>3, <1>4

LEMMA IInvInit == ASSUME Init PROVE IInv
<1> USE KISOrdersAssumption
<1>1. ExchOK /\ RequestsOK
  BY DEF Init, ExchOK, RequestsOK, Contexts, NoContext, Statuses, Ops, Answers
<1>2. OrdersOK
  <2>1. Stored = {}
    BY DEF Init, Stored
  <2>2. orders \in [Numbers -> Contexts]
    BY DEF Init, Contexts, NoContext, Statuses
  <2> QED
    BY <2>1, <2>2, FS_EmptySet DEF OrdersOK
<1>3. ContextsTrue /\ \A r \in Requests : InHand(r) /\ RequestTrue(r)
  BY DEF Init, ContextsTrue, ContextTrue, TrueOf, NoContext, InHand, RequestTrue, Statuses, Settled
<1> QED
  BY <1>1, <1>2, <1>3 DEF IInv

\* The truth about an order that has ended stays the truth.
LEMMA TrueOfKept ==
  ASSUME NEW x, NEW y, Kept(x, y), NEW fails, NEW id, NEW s, TrueOf(x, fails, id, s)
  PROVE  TrueOf(y, fails, id, s)
BY DEF Kept, TrueOf

\* A request that takes no step.
Rests(q) ==
  /\ pc'[q] = pc[q] /\ op'[q] = op[q] /\ num'[q] = num[q] /\ meta'[q] = meta[q]
  /\ new'[q] = new[q] /\ found'[q] = found[q] /\ answer'[q] = answer[q]

LEMMA RestsKeeps ==
  ASSUME IInv, world' = world, Kept(exch, exch'), NEW q \in Requests, Rests(q)
  PROVE  InHand(q)' /\ RequestTrue(q)'
<1>1. InHand(q)'
  BY DEF IInv, Rests, Kept, InHand
<1>2. /\ TrueOf(exch', world.lookupsFail, meta[q].id, meta[q].status)
      /\ TrueOf(exch', world.lookupsFail, meta[q].id, found[q])
      /\ answer[q] \in Statuses => TrueOf(exch', world.lookupsFail, meta[q].id, answer[q])
  BY TrueOfKept DEF IInv, RequestTrue, ContextTrue
<1>3. RequestTrue(q)'
  BY <1>2 DEF IInv, Rests, Kept, InHand, RequestTrue, ContextTrue
<1> QED
  BY <1>1, <1>3

\* The exchange moves, or the contexts change while it does not: what stays true
\* of the contexts.
LEMMA ContextsKept ==
  ASSUME IInv, world' = world, Kept(exch, exch'),
         \A m \in Numbers : ContextTrue(exch, world.lookupsFail, orders'[m])
  PROVE  ContextsTrue'
BY TrueOfKept DEF ContextsTrue, ContextTrue

\* Storing a context that is true, whatever is evicted for it.
LEMMA StoreKeeps ==
  ASSUME IInv, NEW n \in Numbers, NEW c \in Contexts,
         ContextTrue(exch, world.lookupsFail, c), storeOrderContext(n, c)
  PROVE  /\ OrdersOK'
         /\ \A m \in Numbers : ContextTrue(exch, world.lookupsFail, orders'[m])
<1> USE DEF IInv, OrdersOK
<1> DEFINE stored == [orders EXCEPT ![n] = c]
           present == {m \in Numbers : stored[m] # NoContext}
<1>1. stored \in [Numbers -> Contexts]
  OBVIOUS
<1>2. \A m \in Numbers : ContextTrue(exch, world.lookupsFail, stored[m])
  BY DEF ContextsTrue
<1>3. IsFiniteSet(present)
  <2>1. present \subseteq Stored \cup {n}
    BY DEF Stored
  <2>2. IsFiniteSet(Stored \cup {n})
    BY FS_AddElement
  <2> QED
    BY <2>1, <2>2, FS_Subset
<1>4. CASE Cardinality(present) <= Limit /\ orders' = stored
  <2>1. Stored' = present
    BY <1>4 DEF Stored
  <2> QED
    BY <1>1, <1>2, <1>3, <1>4, <2>1
<1>5. ASSUME NEW S \in SUBSET present, Cardinality(S) = Limit,
             orders' = [m \in Numbers |-> IF m \in S THEN stored[m] ELSE NoContext]
      PROVE  /\ OrdersOK'
             /\ \A m \in Numbers : ContextTrue(exch, world.lookupsFail, orders'[m])
  <2>1. NoContext \in Contexts /\ ContextTrue(exch, world.lookupsFail, NoContext)
    BY DEF NoContext, Contexts, Statuses, ContextTrue, TrueOf
  <2>2. orders' \in [Numbers -> Contexts]
    BY <1>1, <1>5, <2>1
  <2>3. \A m \in Numbers : ContextTrue(exch, world.lookupsFail, orders'[m])
    BY <1>2, <1>5, <2>1
  <2>4. Stored' = S
    BY <1>5 DEF Stored
  <2>5. IsFiniteSet(S)
    BY <1>3, FS_Subset
  <2>6. Cardinality(S) <= Limit
    BY <1>5, KISOrdersAssumption
  <2> QED
    BY <2>2, <2>3, <2>4, <2>5, <2>6
<1>6. \/ Cardinality(present) <= Limit /\ orders' = stored
      \/ \E S \in SUBSET present :
           /\ Cardinality(S) = Limit
           /\ orders' = [m \in Numbers |-> IF m \in S THEN stored[m] ELSE NoContext]
  BY DEF storeOrderContext
<1> QED
  BY <1>4, <1>5, <1>6

\* A step of request r: what is left to show of it.
LEMMA StepKeeps ==
  ASSUME IInv, NEW r \in Requests, world' = world, gone' \subseteq Numbers,
         Kept(exch, exch'), ExchOK', OrdersOK', RequestsOK',
         \A m \in Numbers : ContextTrue(exch, world.lookupsFail, orders'[m]),
         \A q \in Requests \ {r} : Rests(q),
         InHand(r)', RequestTrue(r)'
  PROVE  IInv'
<1>1. ContextsTrue'
  BY ContextsKept
<1>2. \A q \in Requests : InHand(q)' /\ RequestTrue(q)'
  BY RestsKeeps
<1> QED
  BY <1>1, <1>2 DEF IInv

\* The same for a step that leaves the exchange and the contexts alone.
LEMMA QuietStepKeeps ==
  ASSUME IInv, NEW r \in Requests, UNCHANGED <<world, exch, orders, gone>>, RequestsOK',
         \A q \in Requests \ {r} : Rests(q), InHand(r)', RequestTrue(r)'
  PROVE  IInv'
<1>1. Kept(exch, exch') /\ ExchOK' /\ OrdersOK'
  BY DEF IInv, ExchOK, OrdersOK, Stored, Kept
<1>2. \A m \in Numbers : ContextTrue(exch, world.lookupsFail, orders'[m])
  BY DEF IInv, ContextsTrue
<1> QED
  BY <1>1, <1>2, StepKeeps DEF IInv, ExchOK

\* A request ends; what it answers must be true.
LEMMA EndKeeps ==
  ASSUME IInv, NEW r \in Requests, NEW a \in Answers, world' = world, Kept(exch, exch'),
         pc[r] # "answered", End(r, a), UNCHANGED <<op, num, meta, found, before>>,
         new' \in [Requests -> Numbers \cup {None}], \A q \in Requests \ {r} : new'[q] = new[q],
         a \in Statuses => TrueOf(exch', world.lookupsFail, meta[r].id, a),
         a = "notfound" =>
           /\ num[r] \in Numbers
           /\ exch'[num[r]].state # "none"
           /\ exch'[num[r]].state # "open" \/ exch'[num[r]].overseas
  PROVE  /\ RequestsOK'
         /\ \A q \in Requests \ {r} : Rests(q)
         /\ InHand(r)' /\ RequestTrue(r)'
<1>1. pc'[r] = "answered" /\ answer'[r] = a
  BY DEF IInv, RequestsOK, End, Goto
<1>2. RequestsOK' /\ \A q \in Requests \ {r} : Rests(q)
  BY DEF IInv, RequestsOK, End, Goto, Rests
<1>3. InHand(r)'
  BY <1>1 DEF IInv, InHand, Kept
<1>4. /\ TrueOf(exch', world.lookupsFail, meta[r].id, meta[r].status)
      /\ TrueOf(exch', world.lookupsFail, meta[r].id, found[r])
  BY TrueOfKept DEF IInv, RequestTrue, ContextTrue
<1>5. RequestTrue(r)'
  BY <1>1, <1>4 DEF IInv, RequestTrue, ContextTrue
<1> QED
  BY <1>2, <1>3, <1>5

\* A request goes on; what it has found must be true.
LEMMA MoveKeeps ==
  ASSUME IInv, NEW r \in Requests, world' = world, Kept(exch, exch'),
         NEW l \in {"call", "store", "alias", "remove", "daily", "open", "record"},
         pc[r] # "answered", Goto(r, l), UNCHANGED <<op, num, meta, answer, before>>,
         new' \in [Requests -> Numbers \cup {None}], \A q \in Requests \ {r} : new'[q] = new[q],
         found' \in [Requests -> Statuses], \A q \in Requests \ {r} : found'[q] = found[q],
         TrueOf(exch', world.lookupsFail, meta[r].id, found'[r]),
         l \in {"store", "alias"} /\ op[r] = "cancel" => exch'[meta[r].id].state = "cancelled",
         l \in {"alias", "remove", "daily", "open", "record"} => op[r] \notin {"none", "place"},
         l = "alias" => op[r] = "cancel",
         l \in {"alias", "daily", "open", "record"} => meta[r].id \in Numbers,
         l \in {"call", "store"} /\ op[r] \in {"cancel", "modify"} => meta[r].id \in Numbers,
         l = "store" /\ op[r] \in {"place", "modify"} => new'[r] \in Numbers,
         l = "open" => world.lookupsFail
  PROVE  /\ RequestsOK'
         /\ \A q \in Requests \ {r} : Rests(q)
         /\ InHand(r)' /\ RequestTrue(r)'
<1>1. pc'[r] = l /\ answer'[r] = "none"
  BY DEF IInv, RequestsOK, InHand, Goto
<1>2. RequestsOK' /\ \A q \in Requests \ {r} : Rests(q)
  BY DEF IInv, RequestsOK, Goto, Rests
<1>3. InHand(r)'
  BY <1>1 DEF IInv, InHand, Kept
<1>4. TrueOf(exch', world.lookupsFail, meta[r].id, meta[r].status)
  BY TrueOfKept DEF IInv, RequestTrue, ContextTrue
<1>5. RequestTrue(r)'
  BY <1>1, <1>4 DEF IInv, RequestTrue, ContextTrue, Statuses, Settled
<1> QED
  BY <1>2, <1>3, <1>5

\* A step that only stores, or does nothing, to the contexts.
LEMMA KeptSame ==
  ASSUME IInv, UNCHANGED <<world, exch>>, gone' \subseteq Numbers
  PROVE  Kept(exch, exch') /\ ExchOK'
BY DEF IInv, ExchOK, Kept

-----------------------------------------------------------------------------
(* The steps of a request.                                                 *)

\* The context of the order is known: the request goes on with it.
LEMMA ResolvedKeeps ==
  ASSUME IInv, NEW r \in Requests, NEW c \in Contexts,
         pc[r] \in {"resolve", "list", "keep"}, Resolved(r, c),
         c.id \in Numbers, TrueOf(exch, world.lookupsFail, c.id, c.status),
         meta' = [meta EXCEPT ![r] = c],
         UNCHANGED <<world, exch, op, num, new, before>>
  PROVE  /\ RequestsOK'
         /\ \A q \in Requests \ {r} : Rests(q)
         /\ InHand(r)' /\ RequestTrue(r)'
<1>1. op[r] \in {"cancel", "modify", "get", "fills"} /\ InHand(r)
  BY DEF IInv, InHand, RequestsOK, Ops
<1>2. CASE op[r] \in {"cancel", "modify"}
  <2>1. Goto(r, "call") /\ UNCHANGED <<found, answer>>
    BY <1>2 DEF Resolved
  <2> QED
    BY <1>1, <1>2, <2>1
       DEF IInv, RequestsOK, Rests, InHand, RequestTrue, ContextTrue, TrueOf, Goto, Statuses, Settled
<1>3. CASE op[r] = "get" /\ c.status = "cancelled"
  <2>1. Goto(r, "record") /\ found' = [found EXCEPT ![r] = "cancelled"] /\ UNCHANGED answer
    BY <1>3 DEF Resolved
  <2> QED
    BY <1>1, <1>3, <2>1
       DEF IInv, RequestsOK, Rests, InHand, RequestTrue, ContextTrue, Goto, Statuses, Settled
<1>4. CASE op[r] = "get" /\ c.status # "cancelled"
  <2>1. Goto(r, "daily") /\ UNCHANGED <<found, answer>>
    BY <1>4 DEF Resolved
  <2> QED
    BY <1>1, <1>4, <2>1
       DEF IInv, RequestsOK, Rests, InHand, RequestTrue, ContextTrue, TrueOf, Goto, Statuses, Settled
<1>5. CASE op[r] = "fills"
  <2>1. End(r, "ok") /\ UNCHANGED found
    BY <1>5 DEF Resolved
  <2> QED
    BY <1>1, <1>5, <2>1
       DEF IInv, RequestsOK, Rests, InHand, RequestTrue, ContextTrue, TrueOf, Goto, End,
           Statuses, Settled, Answers
<1> QED
  BY <1>1, <1>2, <1>3, <1>4, <1>5

\* An error changes nothing but the request.
LEMMA ErrorKeeps ==
  ASSUME IInv, NEW r \in Requests, pc[r] # "answered", End(r, "error"),
         UNCHANGED <<world, exch, orders, gone, op, num, meta, new, found, before>>
  PROVE  IInv'
<1>1. Kept(exch, exch') /\ new' \in [Requests -> Numbers \cup {None}]
  BY DEF Kept, IInv, RequestsOK
<1>2. /\ RequestsOK' /\ \A q \in Requests \ {r} : Rests(q)
      /\ InHand(r)' /\ RequestTrue(r)'
  BY <1>1, EndKeeps DEF Answers, Statuses, Settled
<1> QED
  BY <1>2, QuietStepKeeps

LEMMA BeginKeeps ==
  ASSUME IInv, NEW r \in Requests,
         BeginPlace(r) \/ \E o \in Ops \ {"none", "place"}, n \in Numbers : Begin(r, o, n)
  PROVE  IInv'
<1>1. CASE BeginPlace(r)
  BY <1>1, QuietStepKeeps
     DEF BeginPlace, MayBegin, Goto, IInv, RequestsOK, Rests, InHand, RequestTrue, ContextTrue,
         Ops, Statuses, Settled
<1>2. ASSUME NEW o \in Ops \ {"none", "place"}, NEW n \in Numbers, Begin(r, o, n)
      PROVE  IInv'
  BY <1>2, QuietStepKeeps
     DEF Begin, MayBegin, Goto, IInv, ExchOK, RequestsOK, Rests, InHand, RequestTrue, ContextTrue,
         Ops, Statuses, Settled
<1> QED
  BY <1>1, <1>2

LEMMA ResolveKeeps == ASSUME IInv, NEW r \in Requests, Resolve(r) PROVE IInv'
<1> DEFINE c == orders[num[r]]
<1>1. num[r] \in Numbers /\ exch[num[r]].state # "none" /\ pc[r] = "resolve"
  BY DEF Resolve, IInv, InHand
<1>2. c \in Contexts /\ ContextTrue(exch, world.lookupsFail, c)
  BY <1>1 DEF IInv, OrdersOK, ContextsTrue
<1>3. CASE c.overseas \/ c.org
  <2>1. c # NoContext
    BY <1>3 DEF NoContext
  <2> QED
    BY <1>1, <1>2, <1>3, <2>1, ResolvedKeeps, QuietStepKeeps DEF Resolve, ContextTrue
<1>4. CASE ~ (c.overseas \/ c.org)
  <2>1. /\ meta' = [meta EXCEPT ![r] = c]
        /\ Goto(r, "list")
        /\ UNCHANGED <<world, exch, orders, gone, op, num, new, found, answer, before>>
    BY <1>4 DEF Resolve
  <2>2. RequestsOK' /\ \A q \in Requests \ {r} : Rests(q)
    BY <1>2, <2>1 DEF IInv, RequestsOK, Rests, Goto
  <2>3. InHand(r)'
    BY <1>1, <2>1 DEF IInv, RequestsOK, InHand, Goto
  <2>4. RequestTrue(r)'
    BY <1>1, <1>2, <2>1
       DEF IInv, RequestsOK, InHand, RequestTrue, TrueOf, Goto, Statuses, Settled
  <2> QED
    BY <2>1, <2>2, <2>3, <2>4, QuietStepKeeps
<1> QED
  BY <1>3, <1>4

\* The list has nothing to offer: the context in hand must do.
LEMMA FallBackKeeps ==
  ASSUME IInv, NEW r \in Requests, pc[r] = "list", meta[r] # NoContext, Resolved(r, meta[r]),
         UNCHANGED <<world, exch, orders, gone, op, num, meta, new, before>>
  PROVE  IInv'
<1>1. meta[r] \in Contexts /\ ContextTrue(exch, world.lookupsFail, meta[r])
  BY DEF IInv, RequestsOK, RequestTrue
<1>2. meta' = [meta EXCEPT ![r] = meta[r]]
  BY DEF IInv, RequestsOK
<1> QED
  BY <1>1, <1>2, ResolvedKeeps, QuietStepKeeps DEF ContextTrue

LEMMA ListFailsKeeps == ASSUME IInv, NEW r \in Requests, ListFails(r) PROVE IInv'
<1>1. CASE meta[r] # NoContext
  BY <1>1, FallBackKeeps DEF ListFails
<1>2. CASE meta[r] = NoContext
  <2>1. /\ pc[r] = "list" /\ End(r, "error")
        /\ UNCHANGED <<world, exch, orders, gone, op, num, meta, new, found, before>>
    BY <1>2 DEF ListFails
  <2> QED
    BY <2>1, ErrorKeeps
<1> QED
  BY <1>1, <1>2

LEMMA ListKeeps == ASSUME IInv, NEW r \in Requests, List(r) PROVE IInv'
<1>1. pc[r] = "list" /\ InHand(r) /\ num[r] \in Numbers /\ exch[num[r]].state # "none"
  BY DEF List, IInv, InHand
<1>2. ASSUME NEW n \in OpenList \cap Family(num[r]),
             meta' = [meta EXCEPT ![r] = [id |-> n, org |-> TRUE, overseas |-> FALSE,
                                          status |-> "pending"]],
             Goto(r, "keep"),
             UNCHANGED <<world, exch, orders, gone, op, num, new, found, answer, before>>
      PROVE  IInv'
  <2>1. n \in Numbers
    BY DEF OpenList
  <2>2. RequestsOK' /\ \A q \in Requests \ {r} : Rests(q)
    BY <1>2, <2>1 DEF IInv, RequestsOK, Rests, Goto, Contexts, Statuses
  <2>3. InHand(r)'
    BY <1>1, <1>2, <2>1 DEF IInv, RequestsOK, InHand, Goto
  <2>4. RequestTrue(r)'
    BY <1>1, <1>2, <2>1
       DEF IInv, RequestsOK, InHand, RequestTrue, ContextTrue, TrueOf, Goto, Statuses, Settled
  <2> QED
    BY <1>2, <2>2, <2>3, <2>4, QuietStepKeeps
<1>3. CASE /\ OpenList \cap Family(num[r]) = {}
           /\ UNCHANGED <<world, exch, orders, gone, op, num, meta, new, before>>
           /\ IF meta[r] # NoContext THEN Resolved(r, meta[r])
                ELSE End(r, "notfound") /\ UNCHANGED found
  <2>1. CASE meta[r] # NoContext
    BY <1>1, <1>3, <2>1, FallBackKeeps
  <2>2. CASE meta[r] = NoContext
    <3>1. exch[num[r]].state # "open" \/ exch[num[r]].overseas
      BY <1>1, <1>3 DEF OpenList, Family
    <3>2. End(r, "notfound") /\ UNCHANGED found
      BY <1>3, <2>2
    <3>3. Kept(exch, exch') /\ new' \in [Requests -> Numbers \cup {None}]
      BY <1>3 DEF Kept, IInv, RequestsOK
    <3>4. /\ RequestsOK' /\ \A q \in Requests \ {r} : Rests(q)
          /\ InHand(r)' /\ RequestTrue(r)'
      BY <1>1, <1>3, <3>1, <3>2, <3>3, EndKeeps DEF Answers, Statuses, Settled
    <3> QED
      BY <1>3, <3>4, QuietStepKeeps
  <2> QED
    BY <2>1, <2>2
<1> QED
  BY <1>2, <1>3 DEF List

LEMMA KeepKeeps == ASSUME IInv, NEW r \in Requests, Keep(r) PROVE IInv'
<1>1. /\ pc[r] = "keep" /\ meta[r].id \in Numbers /\ meta[r] \in Contexts
      /\ ContextTrue(exch, world.lookupsFail, meta[r])
  BY DEF Keep, IInv, InHand, RequestsOK, RequestTrue
<1>2. meta' = [meta EXCEPT ![r] = meta[r]]
  BY DEF Keep, IInv, RequestsOK
<1>3. /\ OrdersOK'
      /\ \A m \in Numbers : ContextTrue(exch, world.lookupsFail, orders'[m])
  BY <1>1, StoreKeeps DEF Keep
<1>4. /\ RequestsOK' /\ \A q \in Requests \ {r} : Rests(q)
      /\ InHand(r)' /\ RequestTrue(r)'
  BY <1>1, <1>2, ResolvedKeeps DEF Keep, ContextTrue
<1>5. Kept(exch, exch') /\ ExchOK' /\ world' = world /\ gone' \subseteq Numbers
  BY DEF Keep, Kept, IInv, ExchOK
<1> QED
  BY <1>3, <1>4, <1>5, StepKeeps

\* The exchange opens an order: one that has ended stays as it ended.
LEMMA AcceptKept ==
  ASSUME IInv, NEW n \in Numbers, NEW parent \in Numbers \cup {None}, NEW overseas \in BOOLEAN,
         Accept(n, parent, overseas), world' = world, gone' \subseteq Numbers,
         parent = None \/ exch[parent].state = "open"
  PROVE  Kept(exch, exch') /\ ExchOK'
<1> USE KISOrdersAssumption
<1>1. ExchOK'
  BY DEF Accept, IInv, ExchOK, Settled
<1>2. Kept(exch, exch')
  BY DEF Accept, IInv, ExchOK, Kept
<1> QED
  BY <1>1, <1>2

LEMMA CallPlaceKeeps ==
  ASSUME IInv, NEW r \in Requests, NEW n \in Numbers, NEW overseas \in BOOLEAN,
         CallPlace(r, n, overseas)
  PROVE  IInv'
<1>1. Kept(exch, exch') /\ ExchOK'
  BY AcceptKept DEF CallPlace, IInv, ExchOK
<1>2. OrdersOK' /\ \A m \in Numbers : ContextTrue(exch, world.lookupsFail, orders'[m])
  BY DEF CallPlace, IInv, OrdersOK, Stored, ContextsTrue
<1>3. /\ new' \in [Requests -> Numbers \cup {None}] /\ new'[r] = n
      /\ \A q \in Requests \ {r} : new'[q] = new[q]
  BY DEF CallPlace, IInv, RequestsOK
<1>4. /\ RequestsOK' /\ \A q \in Requests \ {r} : Rests(q)
      /\ InHand(r)' /\ RequestTrue(r)'
  <2>1. CASE End(r, "error")
    BY <1>1, <1>3, <2>1, EndKeeps DEF CallPlace, Answers, Statuses, Settled
  <2>2. CASE Goto(r, "store") /\ UNCHANGED answer
    <3>1. TrueOf(exch', world.lookupsFail, meta[r].id, found[r])
      BY <1>1, TrueOfKept DEF IInv, RequestTrue
    <3> QED
      BY <1>1, <1>3, <2>2, <3>1, MoveKeeps DEF CallPlace, IInv, RequestsOK
  <2> QED
    BY <2>1, <2>2 DEF CallPlace, ArrivesOrNot
<1> QED
  BY <1>1, <1>2, <1>4, StepKeeps DEF CallPlace, IInv, ExchOK

LEMMA CallModifyKeeps ==
  ASSUME IInv, NEW r \in Requests, NEW n \in Numbers, CallModify(r, n)
  PROVE  IInv'
<1>1. /\ meta[r].id \in Numbers /\ meta[r].overseas \in BOOLEAN /\ num[r] \in Numbers
      /\ pc[r] = "call" /\ op[r] = "modify" /\ exch[meta[r].id].state = "open"
  BY DEF CallModify, IInv, InHand, RequestsOK, Contexts
<1>2. Kept(exch, exch') /\ ExchOK'
  BY <1>1, AcceptKept DEF CallModify, IInv, ExchOK
<1>3. OrdersOK' /\ \A m \in Numbers : ContextTrue(exch, world.lookupsFail, orders'[m])
  BY DEF CallModify, IInv, OrdersOK, Stored, ContextsTrue
<1>4. /\ new' \in [Requests -> Numbers \cup {None}] /\ new'[r] \in Numbers
      /\ \A q \in Requests \ {r} : new'[q] = new[q]
  BY <1>1 DEF CallModify, IInv, RequestsOK
<1>5. /\ RequestsOK' /\ \A q \in Requests \ {r} : Rests(q)
      /\ InHand(r)' /\ RequestTrue(r)'
  <2>1. CASE End(r, "error")
    BY <1>1, <1>2, <1>4, <2>1, EndKeeps DEF CallModify, Answers, Statuses, Settled
  <2>2. CASE Goto(r, "store") /\ UNCHANGED answer
    <3>1. TrueOf(exch', world.lookupsFail, meta[r].id, found[r])
      BY <1>2, TrueOfKept DEF IInv, RequestTrue
    <3> QED
      BY <1>1, <1>2, <1>4, <2>2, <3>1, MoveKeeps DEF CallModify, IInv, RequestsOK
  <2> QED
    BY <2>1, <2>2 DEF CallModify, ArrivesOrNot
<1> QED
  BY <1>2, <1>3, <1>5, StepKeeps DEF CallModify, IInv, ExchOK

LEMMA CallCancelKeeps == ASSUME IInv, NEW r \in Requests, CallCancel(r) PROVE IInv'
<1>1. /\ meta[r].id \in Numbers /\ pc[r] = "call" /\ op[r] = "cancel"
      /\ exch[meta[r].id].state = "open"
  BY DEF CallCancel, IInv, InHand
<1>2. /\ Kept(exch, exch') /\ ExchOK'
      /\ exch'[meta[r].id].state = "cancelled"
  BY <1>1 DEF CallCancel, Kept, IInv, ExchOK, Settled
<1>3. OrdersOK' /\ \A m \in Numbers : ContextTrue(exch, world.lookupsFail, orders'[m])
  BY DEF CallCancel, IInv, OrdersOK, Stored, ContextsTrue
<1>4. /\ RequestsOK' /\ \A q \in Requests \ {r} : Rests(q)
      /\ InHand(r)' /\ RequestTrue(r)'
  <2>1. CASE End(r, "error")
    BY <1>1, <1>2, <2>1, EndKeeps DEF CallCancel, IInv, RequestsOK, Answers, Statuses, Settled
  <2>2. CASE Goto(r, "store") /\ UNCHANGED answer
    <3>1. TrueOf(exch', world.lookupsFail, meta[r].id, found[r])
      BY <1>2, TrueOfKept DEF IInv, RequestTrue
    <3> QED
      BY <1>1, <1>2, <2>2, <3>1, MoveKeeps DEF CallCancel, IInv, RequestsOK
  <2> QED
    BY <2>1, <2>2 DEF CallCancel, ArrivesOrNot
<1> QED
  BY <1>2, <1>3, <1>4, StepKeeps DEF CallCancel, IInv, ExchOK

-----------------------------------------------------------------------------
(* The steps that store a context.                                         *)

LEMMA StorePlacedKeeps == ASSUME IInv, NEW r \in Requests, StorePlaced(r) PROVE IInv'
<1> DEFINE c == [id |-> new[r], org |-> ~ exch[new[r]].overseas,
                 overseas |-> exch[new[r]].overseas, status |-> "pending"]
<1>1. pc[r] = "store" /\ op[r] = "place" /\ new[r] \in Numbers
  BY DEF StorePlaced, IInv, InHand
<1>2. c \in Contexts /\ ContextTrue(exch, world.lookupsFail, c)
  BY <1>1 DEF IInv, ExchOK, Contexts, Statuses, ContextTrue, TrueOf
<1>3. Kept(exch, exch') /\ ExchOK'
  BY KeptSame DEF StorePlaced, IInv, ExchOK
<1>4. /\ OrdersOK'
      /\ \A m \in Numbers : ContextTrue(exch, world.lookupsFail, orders'[m])
  BY <1>1, <1>2, StoreKeeps DEF StorePlaced
<1>5. /\ RequestsOK' /\ \A q \in Requests \ {r} : Rests(q)
      /\ InHand(r)' /\ RequestTrue(r)'
  BY <1>1, <1>3, EndKeeps DEF StorePlaced, IInv, RequestsOK, Answers, Statuses, Settled
<1> QED
  BY <1>3, <1>4, <1>5, StepKeeps DEF StorePlaced, IInv, ExchOK

LEMMA CancelledTrue ==
  ASSUME IInv, NEW r \in Requests, pc[r] \in {"store", "alias"}, op[r] = "cancel"
  PROVE  /\ meta[r].id \in Numbers
         /\ Cancelled(r) \in Contexts
         /\ ContextTrue(exch, world.lookupsFail, Cancelled(r))
<1>1. meta[r].id \in Numbers /\ meta[r] \in Contexts /\ exch[meta[r].id].state = "cancelled"
  BY DEF IInv, InHand, RequestsOK, RequestTrue
<1>2. Cancelled(r) \in Contexts /\ Cancelled(r).id = meta[r].id /\ Cancelled(r).status = "cancelled"
  BY <1>1 DEF Cancelled, Contexts, Statuses, Settled
<1> QED
  BY <1>1, <1>2 DEF ContextTrue, TrueOf

LEMMA StoreCancelledKeeps == ASSUME IInv, NEW r \in Requests, StoreCancelled(r) PROVE IInv'
<1>1. /\ pc[r] = "store" /\ op[r] = "cancel" /\ meta[r].id \in Numbers
      /\ Cancelled(r) \in Contexts /\ ContextTrue(exch, world.lookupsFail, Cancelled(r))
      /\ exch[meta[r].id].state = "cancelled"
  BY CancelledTrue DEF StoreCancelled, IInv, RequestTrue
<1>2. gone' \subseteq Numbers
  BY <1>1 DEF StoreCancelled, EndCancelled, IInv, ExchOK
<1>3. Kept(exch, exch') /\ ExchOK'
  BY <1>2, KeptSame DEF StoreCancelled
<1>4. /\ OrdersOK'
      /\ \A m \in Numbers : ContextTrue(exch, world.lookupsFail, orders'[m])
  BY <1>1, StoreKeeps DEF StoreCancelled
<1>5. /\ RequestsOK' /\ \A q \in Requests \ {r} : Rests(q)
      /\ InHand(r)' /\ RequestTrue(r)'
  <2>1. CASE meta[r].id # num[r]
    <3>1. Goto(r, "alias") /\ UNCHANGED answer /\ exch' = exch
      BY <2>1 DEF StoreCancelled
    <3>2. TrueOf(exch', world.lookupsFail, meta[r].id, found[r])
      BY <3>1 DEF IInv, RequestTrue
    <3> QED
      BY <1>1, <1>3, <3>1, <3>2, MoveKeeps DEF StoreCancelled, IInv, RequestsOK
  <2>2. CASE meta[r].id = num[r]
    <3>1. End(r, "ok")
      BY <2>2 DEF StoreCancelled, EndCancelled
    <3> QED
      BY <1>1, <1>3, <3>1, EndKeeps DEF StoreCancelled, IInv, RequestsOK, Answers, Statuses, Settled
  <2> QED
    BY <2>1, <2>2
<1> QED
  BY <1>2, <1>3, <1>4, <1>5, StepKeeps DEF StoreCancelled

LEMMA StoreAliasKeeps == ASSUME IInv, NEW r \in Requests, StoreAlias(r) PROVE IInv'
<1>1. pc[r] = "alias" /\ op[r] = "cancel" /\ num[r] \in Numbers
  BY DEF StoreAlias, IInv, InHand
<1>2. /\ meta[r].id \in Numbers /\ Cancelled(r) \in Contexts
      /\ ContextTrue(exch, world.lookupsFail, Cancelled(r))
  BY <1>1, CancelledTrue
<1>3. gone' \subseteq Numbers
  BY <1>2 DEF StoreAlias, EndCancelled, IInv, ExchOK
<1>4. Kept(exch, exch') /\ ExchOK'
  BY <1>3, KeptSame DEF StoreAlias
<1>5. /\ OrdersOK'
      /\ \A m \in Numbers : ContextTrue(exch, world.lookupsFail, orders'[m])
  BY <1>1, <1>2, StoreKeeps DEF StoreAlias
<1>6. /\ RequestsOK' /\ \A q \in Requests \ {r} : Rests(q)
      /\ InHand(r)' /\ RequestTrue(r)'
  BY <1>1, <1>4, EndKeeps
     DEF StoreAlias, EndCancelled, IInv, RequestsOK, Answers, Statuses, Settled
<1> QED
  BY <1>3, <1>4, <1>5, <1>6, StepKeeps DEF StoreAlias

LEMMA StoreModifiedKeeps ==
  ASSUME IInv, NEW r \in Requests, NEW org \in BOOLEAN, StoreModified(r, org)
  PROVE  IInv'
<1> DEFINE c == [meta[r] EXCEPT !.id = new[r], !.org = org, !.status = "pending"]
<1>1. pc[r] = "store" /\ op[r] = "modify" /\ new[r] \in Numbers /\ meta[r] \in Contexts
  BY DEF StoreModified, IInv, InHand, RequestsOK
<1>2. c \in Contexts /\ ContextTrue(exch, world.lookupsFail, c)
  <2>1. c \in Contexts /\ c.id = new[r] /\ c.status = "pending"
    BY <1>1 DEF Contexts, Statuses
  <2> QED
    BY <1>1, <2>1 DEF ContextTrue, TrueOf
<1>3. Kept(exch, exch') /\ ExchOK'
  BY KeptSame DEF StoreModified, IInv, ExchOK
<1>4. /\ OrdersOK'
      /\ \A m \in Numbers : ContextTrue(exch, world.lookupsFail, orders'[m])
  BY <1>1, <1>2, StoreKeeps DEF StoreModified
<1>5. /\ RequestsOK' /\ \A q \in Requests \ {r} : Rests(q)
      /\ InHand(r)' /\ RequestTrue(r)'
  <2>1. CASE new[r] # num[r]
    <3>1. Goto(r, "remove") /\ UNCHANGED answer /\ exch' = exch
      BY <2>1 DEF StoreModified
    <3>2. TrueOf(exch', world.lookupsFail, meta[r].id, found[r])
      BY <3>1 DEF IInv, RequestTrue
    <3> QED
      BY <1>1, <1>3, <3>1, <3>2, MoveKeeps DEF StoreModified, IInv, RequestsOK
  <2>2. CASE new[r] = num[r]
    <3>1. End(r, "ok")
      BY <2>2 DEF StoreModified
    <3> QED
      BY <1>1, <1>3, <3>1, EndKeeps DEF StoreModified, IInv, RequestsOK, Answers, Statuses, Settled
  <2> QED
    BY <2>1, <2>2
<1> QED
  BY <1>3, <1>4, <1>5, StepKeeps DEF StoreModified, IInv, ExchOK

LEMMA RemoveKeeps == ASSUME IInv, NEW r \in Requests, removeOrderContext(r) PROVE IInv'
<1>1. pc[r] = "remove" /\ num[r] \in Numbers
  BY DEF removeOrderContext, IInv, InHand
<1>2. Kept(exch, exch') /\ ExchOK'
  BY KeptSame DEF removeOrderContext, IInv, ExchOK
<1>3. NoContext \in Contexts /\ ContextTrue(exch, world.lookupsFail, NoContext)
  BY DEF NoContext, Contexts, Statuses, ContextTrue, TrueOf
<1>4. \A m \in Numbers : ContextTrue(exch, world.lookupsFail, orders'[m])
  BY <1>1, <1>3 DEF removeOrderContext, IInv, OrdersOK, ContextsTrue
<1>5. OrdersOK'
  <2>1. orders' \in [Numbers -> Contexts]
    BY <1>1, <1>3 DEF removeOrderContext, IInv, OrdersOK
  <2>2. Stored' \subseteq Stored
    BY <1>1 DEF removeOrderContext, IInv, OrdersOK, Stored
  <2>3. IsFiniteSet(Stored') /\ Cardinality(Stored') <= Cardinality(Stored)
    BY <2>2, FS_Subset DEF IInv, OrdersOK
  <2>4. Cardinality(Stored) \in Nat /\ Cardinality(Stored') \in Nat
    BY <2>3, FS_CardinalityType DEF IInv, OrdersOK
  <2> QED
    BY <2>1, <2>3, <2>4, KISOrdersAssumption DEF IInv, OrdersOK
<1>6. /\ RequestsOK' /\ \A q \in Requests \ {r} : Rests(q)
      /\ InHand(r)' /\ RequestTrue(r)'
  BY <1>1, <1>2, EndKeeps
     DEF removeOrderContext, IInv, RequestsOK, Answers, Statuses, Settled
<1> QED
  BY <1>2, <1>4, <1>5, <1>6, StepKeeps DEF removeOrderContext, IInv, ExchOK

LEMMA CallFailsKeeps == ASSUME IInv, NEW r \in Requests, CallFails(r) PROVE IInv'
BY ErrorKeeps DEF CallFails

-----------------------------------------------------------------------------
(* GetOrder.                                                               *)

\* Something was found out about the order, and nothing else happened.
LEMMA FoundKeeps ==
  ASSUME IInv, NEW r \in Requests, NEW l \in {"record", "open"}, NEW s \in Statuses,
         pc[r] \in {"daily", "open"}, l = "open" => world.lookupsFail,
         TrueOf(exch, world.lookupsFail, meta[r].id, s),
         found' = [found EXCEPT ![r] = s], Goto(r, l),
         UNCHANGED <<world, exch, orders, gone, op, num, meta, new, answer, before>>
  PROVE  IInv'
<1>1. /\ Kept(exch, exch') /\ new' \in [Requests -> Numbers \cup {None}]
      /\ found' \in [Requests -> Statuses] /\ found'[r] = s
      /\ \A q \in Requests \ {r} : found'[q] = found[q]
  BY DEF Kept, IInv, RequestsOK
<1>2. op[r] \notin {"none", "place"} /\ meta[r].id \in Numbers
  BY DEF IInv, InHand
<1>3. /\ RequestsOK' /\ \A q \in Requests \ {r} : Rests(q)
      /\ InHand(r)' /\ RequestTrue(r)'
  BY <1>1, <1>2, MoveKeeps
<1> QED
  BY <1>3, QuietStepKeeps

LEMMA DailyKeeps == ASSUME IInv, NEW r \in Requests, Daily(r) PROVE IInv'
<1>1. PICK n \in Family(meta[r].id) : found' = [found EXCEPT ![r] = Listed(n)]
  BY DEF Daily
<1>2. n \in Numbers /\ (n = meta[r].id \/ exch[n].parent = meta[r].id)
  BY DEF Family
<1>3. /\ Listed(n) \in Statuses
      /\ Listed(n) \in Settled => exch[n].state = Listed(n)
  BY <1>2 DEF Listed, IInv, ExchOK, Statuses, Settled
<1>4. TrueOf(exch, world.lookupsFail, meta[r].id, Listed(n))
  BY <1>2, <1>3 DEF TrueOf, Settled
<1> QED
  BY <1>1, <1>3, <1>4, FoundKeeps DEF Daily

LEMMA DailyFailsKeeps == ASSUME IInv, NEW r \in Requests, DailyFails(r) PROVE IInv'
<1>1. meta[r].status \in Statuses
  BY DEF IInv, RequestsOK, Contexts
<1>2. TrueOf(exch, world.lookupsFail, meta[r].id, meta[r].status)
  BY DEF IInv, RequestTrue, ContextTrue
<1>3. CASE meta[r].overseas
  BY <1>1, <1>2, <1>3, FoundKeeps DEF DailyFails
<1>4. CASE ~ meta[r].overseas
  BY <1>1, <1>2, <1>4, FoundKeeps DEF DailyFails
<1> QED
  BY <1>3, <1>4

LEMMA CheckOpenKeeps == ASSUME IInv, NEW r \in Requests, CheckOpen(r) PROVE IInv'
<1> DEFINE s == IF OpenList \cap Family(meta[r].id) # {} THEN "pending"
                ELSE IF found[r] = "pending" THEN "filled" ELSE found[r]
<1>1. /\ pc[r] = "open" /\ world.lookupsFail /\ found[r] \in Statuses
      /\ TrueOf(exch, world.lookupsFail, meta[r].id, found[r])
  BY DEF CheckOpen, IInv, InHand, RequestsOK, RequestTrue
<1>2. s \in Statuses /\ TrueOf(exch, world.lookupsFail, meta[r].id, s)
  BY <1>1 DEF Statuses, Settled, TrueOf
<1>3. found' = [found EXCEPT ![r] = s]
  BY DEF CheckOpen
<1> HIDE DEF s
<1> QED
  BY <1>1, <1>2, <1>3, FoundKeeps DEF CheckOpen

LEMMA OpenFailsKeeps == ASSUME IInv, NEW r \in Requests, OpenFails(r) PROVE IInv'
<1>1. /\ pc[r] = "open" /\ found[r] \in Statuses
      /\ TrueOf(exch, world.lookupsFail, meta[r].id, found[r])
      /\ found' = [found EXCEPT ![r] = found[r]]
  BY DEF OpenFails, IInv, RequestsOK, RequestTrue
<1> QED
  BY <1>1, FoundKeeps DEF OpenFails

LEMMA RecordKeeps == ASSUME IInv, NEW r \in Requests, Record(r) PROVE IInv'
<1> DEFINE c == [meta[r] EXCEPT !.status = found[r]]
<1>1. /\ pc[r] = "record" /\ meta[r].id \in Numbers /\ meta[r] \in Contexts
      /\ found[r] \in Statuses /\ TrueOf(exch, world.lookupsFail, meta[r].id, found[r])
  BY DEF Record, IInv, InHand, RequestsOK, RequestTrue
<1>2. Kept(exch, exch') /\ ExchOK'
  BY KeptSame DEF Record, IInv, ExchOK
<1>3. OrdersOK' /\ \A m \in Numbers : ContextTrue(exch, world.lookupsFail, orders'[m])
  <2>1. CASE found[r] # meta[r].status
    <3>1. c \in Contexts /\ c.id = meta[r].id /\ c.status = found[r]
      BY <1>1 DEF Contexts
    <3>2. ContextTrue(exch, world.lookupsFail, c)
      BY <1>1, <3>1 DEF ContextTrue
    <3>3. storeOrderContext(meta[r].id, c)
      BY <2>1 DEF Record
    <3> QED
      BY <1>1, <3>1, <3>2, <3>3, StoreKeeps
  <2>2. CASE found[r] = meta[r].status
    BY <2>2 DEF Record, IInv, OrdersOK, Stored, ContextsTrue
  <2> QED
    BY <2>1, <2>2
<1>4. /\ RequestsOK' /\ \A q \in Requests \ {r} : Rests(q)
      /\ InHand(r)' /\ RequestTrue(r)'
  <2>1. found[r] \in Answers /\ found[r] # "notfound"
    BY <1>1 DEF Answers, Statuses, Settled
  <2>2. TrueOf(exch', world.lookupsFail, meta[r].id, found[r]) /\ End(r, found[r])
    BY <1>1 DEF Record
  <2> QED
    BY <1>1, <1>2, <2>1, <2>2, EndKeeps DEF Record, IInv, RequestsOK
<1> QED
  BY <1>2, <1>3, <1>4, StepKeeps DEF Record, IInv, ExchOK

-----------------------------------------------------------------------------
(* The other steps, and all of them.                                       *)

LEMMA ReturnKeeps == ASSUME IInv, NEW r \in Requests, Return(r) PROVE IInv'
<1>1. RequestsOK' /\ \A q \in Requests \ {r} : Rests(q)
  BY DEF Return, Goto, IInv, RequestsOK, Rests, Ops, Contexts, NoContext, Statuses, Answers
<1>2. /\ pc'[r] = "idle" /\ op'[r] = "none" /\ meta'[r] = NoContext
      /\ found'[r] = "pending" /\ answer'[r] = "none"
  BY DEF Return, Goto, IInv, RequestsOK
<1>3. InHand(r)' /\ RequestTrue(r)'
  BY <1>2 DEF InHand, RequestTrue, ContextTrue, TrueOf, NoContext, Statuses, Settled
<1> QED
  BY <1>1, <1>3, QuietStepKeeps DEF Return

LEMMA RestartKeeps == ASSUME IInv, Restart PROVE IInv'
<1>1. RequestsOK'
  BY DEF Restart, RequestsOK, Ops, Contexts, NoContext, Statuses, Answers
<1>2. ExchOK' /\ OrdersOK' /\ ContextsTrue'
  BY DEF Restart, IInv, ExchOK, OrdersOK, Stored, ContextsTrue
<1>3. \A r \in Requests : InHand(r)' /\ RequestTrue(r)'
  BY DEF Restart, InHand, RequestTrue, ContextTrue, TrueOf, NoContext, Statuses, Settled
<1> QED
  BY <1>1, <1>2, <1>3 DEF IInv

LEMMA SettleKeeps ==
  ASSUME IInv, NEW n \in Numbers, NEW s \in Settled, Settle(n, s)
  PROVE  IInv'
<1>1. Kept(exch, exch') /\ ExchOK'
  BY DEF Settle, Kept, IInv, ExchOK, Settled
<1>2. ContextsTrue'
  BY <1>1, ContextsKept DEF Settle, IInv, ContextsTrue
<1>3. \A r \in Requests : InHand(r)' /\ RequestTrue(r)'
  BY <1>1, RestsKeeps DEF Settle, request, Rests
<1>4. OrdersOK' /\ RequestsOK'
  BY DEF Settle, request, IInv, OrdersOK, Stored, RequestsOK
<1> QED
  BY <1>1, <1>2, <1>3, <1>4 DEF IInv

LEMMA StutterKeeps == ASSUME IInv, UNCHANGED vars PROVE IInv'
BY DEF vars, request, IInv, ExchOK, OrdersOK, Stored, RequestsOK, ContextsTrue, ContextTrue,
       InHand, RequestTrue, TrueOf

LEMMA IInvNext == ASSUME IInv, [Next]_vars PROVE IInv'
<1>1. ASSUME NEW r \in Requests, Step(r)
      PROVE  IInv'
  BY <1>1, ResolveKeeps, ListFailsKeeps, ListKeeps, KeepKeeps, CallFailsKeeps, CallCancelKeeps,
     CallPlaceKeeps, CallModifyKeeps, StoreModifiedKeeps, StorePlacedKeeps, StoreCancelledKeeps,
     StoreAliasKeeps, RemoveKeeps, DailyKeeps, DailyFailsKeeps, CheckOpenKeeps, OpenFailsKeeps,
     RecordKeeps, ReturnKeeps
     DEF Step
<1>2. ASSUME NEW r \in Requests,
             BeginPlace(r) \/ \E o \in Ops \ {"none", "place"}, n \in Numbers : Begin(r, o, n)
      PROVE  IInv'
  BY <1>2, BeginKeeps
<1>3. ASSUME NEW n \in Numbers, NEW s \in Settled, Settle(n, s)
      PROVE  IInv'
  BY <1>3, SettleKeeps
<1> QED
  BY <1>1, <1>2, <1>3, RestartKeeps, StutterKeeps DEF Next

LEMMA IInvAlways == Spec => []IInv
<1>1. Init => IInv
  BY IInvInit
<1>2. IInv /\ [Next]_vars => IInv'
  BY IInvNext
<1> QED
  BY <1>1, <1>2, PTL DEF Spec

-----------------------------------------------------------------------------
(* The theorems.                                                           *)

\* The variables keep their types, and the adapter never keeps more than Limit
\* contexts: storeOrderContext compacts in the critical section that stores.
THEOREM KISOrdersTypeOK == Spec => []TypeOK
<1>1. IInv => TypeOK
  BY IInvImplies
<1> QED
  BY <1>1, IInvAlways, PTL

\* Only a cancelled order is remembered or answered as cancelled, although the
\* status is copied between contexts and lookups of requests that interleave.
THEOREM KISOrdersCancelledIsCancelled == Spec => []CancelledIsCancelled
<1>1. IInv => CancelledIsCancelled
  BY IInvImplies
<1> QED
  BY <1>1, IInvAlways, PTL

\* An order is remembered as filled or rejected only when it was, as long as the
\* broker's lists can be read.
THEOREM KISOrdersFilledIsFilled == Spec => []FilledIsFilled
<1>1. IInv => FilledIsFilled
  BY IInvImplies
<1> QED
  BY <1>1, IInvAlways, PTL

\* A domestic order that is open is never answered as not found.
THEOREM KISOrdersOpenOrderIsFound == Spec => []OpenOrderIsFound
<1>1. IInv => OpenOrderIsFound
  BY IInvImplies
<1> QED
  BY <1>1, IInvAlways, PTL

-----------------------------------------------------------------------------
(* That a cancellation is remembered.                                    *)

\* Overlapping requests and lists that fail are not met together.
Apart == ~ (world.overlap /\ world.lookupsFail)

\* The orders whose ends the lists do not show: that they are cancelled has to be
\* remembered.
Watched(id) == exch[id].overseas \/ world.lookupsFail

\* An order is replaced by one of its kind, and a client is told of the truth.
ExchRight ==
  /\ \A m \in Numbers :
       exch[m].parent \in Numbers =>
         /\ exch[m].state # "none"
         /\ exch[exch[m].parent].state = "replaced"
         /\ exch[exch[m].parent].overseas = exch[m].overseas
  /\ \A n \in gone : exch[n].state = "cancelled"

\* Context c is of an order of the exchange.
Known(c) ==
  c # NoContext =>
    /\ c.id \in Numbers
    /\ exch[c.id].state # "none"
    /\ exch[c.id].overseas = c.overseas

\* A context under another number than its own is of an order that was cancelled under
\* that number; a cancellation that has to be remembered is.
ContextRight(k, c) ==
  c # NoContext =>
    /\ Known(c)
    /\ c.id # k => c.status = "cancelled" /\ exch[c.id].state = "cancelled"
    /\ c.id \in gone /\ Watched(c.id) => c.status = "cancelled"

\* Nobody knows order n but the request that has just had its number.
Unknown(n) ==
  /\ \A k \in Numbers : orders[k].id # n
  /\ \A q \in Requests : meta[q].id # n

\* The request has a number of the broker's in hand, which it will store.
HasNew(r) == pc[r] = "store" /\ op[r] \in {"place", "modify"}

\* The order a request works with is the one it was asked for, or the domestic one
\* that replaced it.
MetaRight(r) ==
  /\ Known(meta[r])
  /\ pc[r] = "list" => ~ meta[r].overseas
  /\ pc[r] = "keep" => ~ meta[r].overseas /\ meta[r].status = "pending"
                       /\ meta[r].id \notin before[r]
  /\ pc[r] \in {"list", "keep", "call"} /\ op[r] \in {"cancel", "modify"} /\ meta[r] # NoContext =>
       \/ meta[r].id = num[r]
       \/ exch[meta[r].id].parent = num[r] /\ ~ meta[r].overseas
       \/ exch[meta[r].id].state = "cancelled"
  /\ pc[r] \in {"store", "alias"} /\ op[r] = "cancel" =>
       meta[r].id = num[r] \/ ~ meta[r].overseas

NewRight(r) ==
  HasNew(r) =>
    /\ exch[new[r]].state # "none"
    /\ op[r] = "modify" => exch[new[r]].overseas = meta[r].overseas
    /\ exch[new[r]].state # "replaced" =>
         /\ Watched(new[r]) => new[r] \notin gone
         /\ exch[new[r]].overseas => Unknown(new[r])

\* A lookup that began when the order's cancellation was known finds it.
LookupRight(r) ==
  /\ before[r] \subseteq gone
  /\ pc[r] \in {"daily", "open"} => meta[r].status # "cancelled"
  /\ pc[r] = "record" /\ meta[r].status = "cancelled" => found[r] = "cancelled"
  /\ pc[r] = "record" /\ ~ world.lookupsFail /\ meta[r].overseas
       /\ exch[meta[r].id].state \in {"open", "cancelled"} => found[r] = meta[r].status
  /\ meta[r].id \in before[r] =>
       /\ pc[r] = "daily" => ~ meta[r].overseas
       /\ pc[r] = "record" => found[r] = "cancelled"
       /\ pc[r] = "answered" /\ answer[r] \in Statuses => answer[r] = "cancelled"

\* Where the lists fail, nobody else may change what is remembered.
AloneRight(r) ==
  world.lookupsFail =>
    /\ pc[r] = "keep" => meta[r].id \notin gone
    /\ pc[r] \in {"list", "daily", "open", "record"} /\ meta[r].id \in gone =>
         meta[r].status = "cancelled"
    /\ pc[r] = "alias" =>
         orders[meta[r].id] = NoContext \/ orders[meta[r].id].status = "cancelled"

\* Two requests never have the number of one new order in hand.
Distinct ==
  \A q, r \in Requests :
    q # r /\ HasNew(q) /\ HasNew(r) /\ new[q] = new[r] => exch[new[r]].state = "replaced"

Alone ==
  ~ world.overlap =>
    \A q, r \in Requests : pc[q] # "idle" /\ pc[r] # "idle" => q = r

RequestRight(r) == MetaRight(r) /\ NewRight(r) /\ LookupRight(r) /\ AloneRight(r)

\* What CancelledStays needs besides IInv.
CInv ==
  /\ ExchRight
  /\ \A k \in Numbers : ContextRight(k, orders[k])
  /\ \A r \in Requests : RequestRight(r)
  /\ Distinct /\ Alone

LEMMA CInvImplies == ASSUME IInv, CInv PROVE CancelledStays
<1>1. ASSUME NEW r \in Requests, answer[r] \in Statuses, meta[r].id \in before[r]
      PROVE  answer[r] = "cancelled"
  <2>1. LookupRight(r)
    BY DEF CInv, RequestRight
  <2>2. pc[r] = "answered"
    BY <1>1 DEF IInv, InHand, Statuses, Settled
  <2> QED
    BY <1>1, <2>1, <2>2 DEF LookupRight
<1> QED
  BY <1>1 DEF CancelledStays

LEMMA CInvInit == ASSUME Init PROVE CInv
<1> USE KISOrdersAssumption
<1>1. ExchRight
  BY DEF Init, ExchRight
<1>2. \A k \in Numbers : ContextRight(k, orders[k])
  BY DEF Init, ContextRight
<1>3. \A r \in Requests : RequestRight(r)
  BY DEF Init, RequestRight, MetaRight, NewRight, LookupRight, AloneRight, Known, HasNew, Statuses,
         Settled
<1>4. Distinct /\ Alone
  BY DEF Init, Distinct, HasNew, Alone
<1> QED
  BY <1>1, <1>2, <1>3, <1>4 DEF CInv

-----------------------------------------------------------------------------
(* What a step of request r leaves right of the others.                    *)

RestsAll(q) == Rests(q) /\ before'[q] = before[q]

\* An overseas order stays unknown, unless it is the one r stores.
StillUnknown(r) ==
  \A n \in Numbers :
    exch[n].overseas /\ Unknown(n) /\ ~ (HasNew(r) /\ new[r] = n) => Unknown(n)'

\* What a step does not do: change the world, take back what it told, or, where
\* the lists fail, run next to another request.
Quiet(r) ==
  /\ world' = world /\ Kept(exch, exch')
  /\ gone \subseteq gone' /\ gone' \subseteq gone \cup {meta[r].id}
  /\ pc[r] = "idle" => UNCHANGED <<orders, gone>>
  /\ StillUnknown(r)
  /\ \A q \in Requests \ {r} : RestsAll(q)

LEMMA OthersMeta ==
  ASSUME IInv, CInv, Kept(exch, exch'), NEW q \in Requests, RestsAll(q)
  PROVE  MetaRight(q)'
<1>1. MetaRight(q)
  BY DEF CInv, RequestRight
<1>2. meta[q] # NoContext => meta[q].id \in Numbers /\ exch[meta[q].id].state # "none"
  BY <1>1 DEF MetaRight, Known
<1> QED
  BY <1>1, <1>2 DEF MetaRight, Known, Kept, RestsAll, Rests

LEMMA OthersNew ==
  ASSUME IInv, CInv, NEW r \in Requests, Quiet(r), NEW q \in Requests \ {r},
         world.lookupsFail => pc[q] = "idle" \/ UNCHANGED gone
  PROVE  NewRight(q)'
<1>1. NewRight(q) /\ (pc[r] # "idle" => Alone)
  BY DEF CInv, RequestRight
<1>2. RestsAll(q) /\ HasNew(q)' = HasNew(q)
  BY DEF Quiet, RestsAll, Rests, HasNew
<1>3. ASSUME HasNew(q)
      PROVE  /\ new[q] \in Numbers /\ exch[new[q]].state # "none"
             /\ exch'[new[q]].state # "none" /\ exch'[new[q]].overseas = exch[new[q]].overseas
             /\ exch[new[q]].state = "replaced" => exch'[new[q]].state = "replaced"
  BY <1>1, <1>3 DEF HasNew, NewRight, IInv, InHand, Quiet, Kept
<1>4. ASSUME HasNew(q), exch'[new[q]].state # "replaced", exch[new[q]].overseas
      PROVE  Unknown(new[q])' /\ new[q] \notin gone'
  <2>1. exch[new[q]].state # "replaced" /\ Unknown(new[q]) /\ new[q] \notin gone
    BY <1>1, <1>3, <1>4 DEF NewRight, Watched
  <2>2. ~ (HasNew(r) /\ new[r] = new[q])
    BY <1>4, <2>1 DEF CInv, Distinct
  <2>3. Unknown(new[q])'
    <3>1. new'[q] = new[q]
      BY <1>2 DEF RestsAll, Rests
    <3>2. /\ \A k \in Numbers : orders'[k].id # new[q]
          /\ \A p \in Requests : meta'[p].id # new[q]
      BY <1>3, <1>4, <2>1, <2>2 DEF Quiet, StillUnknown, Unknown
    <3> QED
      BY <3>1, <3>2 DEF Unknown
  <2>4. meta[r].id # new[q]
    BY <2>1 DEF Unknown
  <2> QED
    BY <2>1, <2>3, <2>4 DEF Quiet
<1>5. ASSUME HasNew(q), exch'[new[q]].state # "replaced", world.lookupsFail
      PROVE  new[q] \notin gone'
  BY <1>1, <1>3, <1>5 DEF NewRight, Watched, HasNew
<1>6. new'[q] = new[q] /\ op'[q] = op[q] /\ meta'[q] = meta[q] /\ world' = world
  BY <1>2 DEF RestsAll, Rests, Quiet
<1>7. ASSUME HasNew(q)
      PROVE  /\ exch'[new[q]].state # "none"
             /\ op[q] = "modify" => exch'[new[q]].overseas = meta[q].overseas
             /\ exch'[new[q]].state # "replaced" =>
                  /\ exch'[new[q]].overseas \/ world.lookupsFail => new[q] \notin gone'
                  /\ exch'[new[q]].overseas => Unknown(new[q])'
  BY <1>1, <1>3, <1>4, <1>5, <1>7 DEF NewRight
<1> QED
  BY <1>2, <1>6, <1>7 DEF NewRight, Watched, Unknown

LEMMA OthersLookup ==
  ASSUME IInv, CInv, NEW r \in Requests, Quiet(r), NEW q \in Requests \ {r}
  PROVE  LookupRight(q)'
<1>1. LookupRight(q) /\ MetaRight(q)
  BY DEF CInv, RequestRight
<1>2. RestsAll(q) /\ world' = world /\ gone \subseteq gone'
  BY DEF Quiet
<1>3. ASSUME pc[q] = "record", meta[q].overseas, exch'[meta[q].id].state \in {"open", "cancelled"}
      PROVE  exch[meta[q].id].state \in {"open", "cancelled"}
  <2>1. meta[q] # NoContext
    BY <1>3 DEF NoContext
  <2>2. meta[q].id \in Numbers /\ exch[meta[q].id].state # "none"
    BY <1>1, <2>1 DEF MetaRight, Known
  <2> QED
    BY <1>3, <2>2 DEF Quiet, Kept
<1> QED
  BY <1>1, <1>2, <1>3 DEF LookupRight, RestsAll, Rests

LEMMA OthersAlone ==
  ASSUME IInv, CInv, world' = world, NEW q \in Requests, RestsAll(q),
         world.lookupsFail => pc[q] = "idle" \/ UNCHANGED <<orders, gone>>
  PROVE  AloneRight(q)'
BY DEF CInv, RequestRight, AloneRight, RestsAll, Rests

\* A step of request r: what is left to show.
LEMMA StepStays ==
  ASSUME IInv, CInv, Apart, NEW r \in Requests, Quiet(r), pc[r] = "idle" => Alone',
         ExchRight', \A k \in Numbers : ContextRight(k, orders[k])', RequestRight(r)',
         HasNew(r)' => \A q \in Requests \ {r} :
                         HasNew(q) /\ new[q] = new'[r] => exch'[new'[r]].state = "replaced"
  PROVE  CInv'
<1>1. \A q \in Requests \ {r} : RestsAll(q) /\ world' = world /\ Kept(exch, exch')
  BY DEF Quiet
<1>2. \A q \in Requests \ {r} : world.lookupsFail => pc[q] = "idle" \/ UNCHANGED <<orders, gone>>
  BY DEF Quiet, CInv, Alone, Apart
<1>3. \A q \in Requests \ {r} : MetaRight(q)' /\ NewRight(q)' /\ LookupRight(q)' /\ AloneRight(q)'
  BY <1>1, <1>2, OthersMeta, OthersNew, OthersLookup, OthersAlone
<1>4. \A q \in Requests : RequestRight(q)'
  BY <1>3 DEF RequestRight
<1>5. Distinct'
  <2>1. \A q \in Requests \ {r} : HasNew(q)' = HasNew(q) /\ new'[q] = new[q]
    BY <1>1 DEF RestsAll, Rests, HasNew
  <2>2. \A q \in Requests : HasNew(q) => new[q] \in Numbers
    BY DEF IInv, InHand, HasNew
  <2>3. \A p, q \in Requests \ {r} :
          p # q /\ HasNew(p) /\ HasNew(q) /\ new[p] = new[q] => exch'[new[q]].state = "replaced"
    BY <1>1, <2>2 DEF CInv, Distinct, Kept
  <2> QED
    BY <2>1, <2>3 DEF Distinct
<1>6. Alone'
  <2>1. CASE pc[r] # "idle"
    BY <1>1, <2>1 DEF Quiet, CInv, Alone, RestsAll, Rests
  <2> QED
    BY <2>1
<1> QED
  BY <1>4, <1>5, <1>6 DEF CInv

-----------------------------------------------------------------------------
(* What a step leaves right of its own request.                            *)

\* The context is stored under its number, and others are at most evicted.
LEMMA StoredThere ==
  ASSUME IInv, NEW n \in Numbers, NEW c, storeOrderContext(n, c)
  PROVE  /\ orders'[n] = c
         /\ \A k \in Numbers \ {n} : orders'[k] \in {orders[k], NoContext}
BY DEF storeOrderContext, IInv, OrdersOK

LEMMA KnownKept ==
  ASSUME IInv, Kept(exch, exch'), NEW c, Known(c)
  PROVE  c # NoContext => /\ c.id \in Numbers
                          /\ exch'[c.id].state # "none"
                          /\ exch'[c.id].overseas = c.overseas
BY DEF Known, Kept

\* A step that leaves the exchange and the contexts alone.
LEMMA QuietStays ==
  ASSUME IInv, CInv, Apart, NEW r \in Requests, UNCHANGED <<world, exch, orders, gone>>,
         pc[r] = "idle" => Alone',
         \A q \in Requests \ {r} : RestsAll(q),
         \A n \in Numbers : exch[n].overseas /\ meta'[r].id = n => ~ Unknown(n),
         RequestRight(r)', ~ HasNew(r)'
  PROVE  CInv'
<1>1. StillUnknown(r)
  <2>1. ASSUME NEW n \in Numbers, exch[n].overseas, Unknown(n)
        PROVE  Unknown(n)'
    <3>1. \A q \in Requests : meta'[q].id # n
      BY <2>1 DEF RestsAll, Rests, Unknown
    <3> QED
      BY <2>1, <3>1 DEF Unknown
  <2> QED
    BY <2>1 DEF StillUnknown
<1>2. Quiet(r)
  BY <1>1 DEF Quiet, Kept
<1>3. ExchRight' /\ \A k \in Numbers : ContextRight(k, orders[k])'
  BY DEF CInv, ExchRight, ContextRight, Known, Watched
<1> QED
  BY <1>2, <1>3, StepStays

LEMMA EndRight ==
  ASSUME IInv, CInv, NEW r \in Requests, NEW a \in Answers, End(r, a),
         UNCHANGED <<world, op, num, meta, before>>, Kept(exch, exch'), gone \subseteq gone',
         a \in Statuses /\ meta[r].id \in before[r] => a = "cancelled"
  PROVE  /\ RequestRight(r)' /\ ~ HasNew(r)'
         /\ \A q \in Requests \ {r} : pc'[q] = pc[q] /\ answer'[q] = answer[q]
<1>1. pc'[r] = "answered" /\ answer'[r] = a
  BY DEF End, Goto, IInv, RequestsOK
<1>2. MetaRight(r)'
  <2>1. Known(meta[r])
    BY DEF CInv, RequestRight, MetaRight
  <2>2. Known(meta[r])'
    BY <2>1, KnownKept DEF Known
  <2> QED
    BY <1>1, <2>2 DEF MetaRight
<1>3. NewRight(r)' /\ ~ HasNew(r)' /\ AloneRight(r)'
  BY <1>1 DEF NewRight, HasNew, AloneRight
<1>4. LookupRight(r)'
  BY <1>1 DEF LookupRight, CInv, RequestRight
<1> QED
  BY <1>2, <1>3, <1>4 DEF RequestRight, End, Goto, IInv, RequestsOK

LEMMA ErrorStays ==
  ASSUME IInv, CInv, Apart, NEW r \in Requests, pc[r] # "idle",
         NEW a \in {"ok", "error", "notfound"}, End(r, a),
         UNCHANGED <<world, exch, orders, gone, op, num, meta, new, found, before>>
  PROVE  CInv'
<1>1. /\ RequestRight(r)' /\ ~ HasNew(r)'
      /\ \A q \in Requests \ {r} : pc'[q] = pc[q] /\ answer'[q] = answer[q]
  BY EndRight DEF Kept, Answers, Statuses, Settled
<1>2. \A q \in Requests \ {r} : RestsAll(q)
  BY <1>1 DEF RestsAll, Rests
<1>3. \A n \in Numbers : meta'[r].id = n => ~ Unknown(n)
  BY DEF Unknown
<1> QED
  BY <1>1, <1>2, <1>3, QuietStays

\* A request that begins.
LEMMA BeginStays ==
  ASSUME IInv, CInv, Apart, NEW r \in Requests,
         BeginPlace(r) \/ \E o \in Ops \ {"none", "place"}, n \in Numbers : Begin(r, o, n)
  PROVE  CInv'
<1> DEFINE Begun == /\ pc[r] = "idle" /\ MayBegin(r)
                    /\ UNCHANGED <<world, exch, orders, gone, meta>>
                    /\ \A q \in Requests \ {r} : RestsAll(q)
                    /\ \/ pc'[r] = "call" /\ op'[r] = "place" /\ before'[r] = before[r]
                       \/ pc'[r] = "resolve" /\ before'[r] \subseteq gone
<1>1. Begun
  <2>1. CASE BeginPlace(r)
    BY <2>1 DEF BeginPlace, MayBegin, Goto, IInv, RequestsOK, RestsAll, Rests
  <2>2. ASSUME NEW o \in Ops \ {"none", "place"}, NEW n \in Numbers, Begin(r, o, n)
        PROVE  Begun
    <3>1. pc'[r] = "resolve" /\ before'[r] \subseteq gone
      BY <2>2 DEF Begin, Goto, IInv, RequestsOK
    <3> QED
      BY <2>2, <3>1 DEF Begin, MayBegin, Goto, IInv, RequestsOK, RestsAll, Rests
  <2> QED
    BY <2>1, <2>2
<1>2. RequestRight(r)' /\ ~ HasNew(r)'
  BY <1>1 DEF CInv, RequestRight, MetaRight, Known, NewRight, HasNew, LookupRight, AloneRight
<1>3. Alone'
  BY <1>1 DEF MayBegin, Alone, CInv, RestsAll, Rests
<1>4. \A n \in Numbers : meta'[r].id = n => ~ Unknown(n)
  BY <1>1 DEF Unknown
<1> QED
  BY <1>1, <1>2, <1>3, <1>4, QuietStays

\* The context of the order is known: the request goes on with it.
LEMMA ResolvedRight ==
  ASSUME IInv, CInv, NEW r \in Requests, NEW c \in Contexts, c # NoContext,
         pc[r] \in {"resolve", "list", "keep"}, Resolved(r, c), Known(c),
         meta' = [meta EXCEPT ![r] = c],
         UNCHANGED <<world, exch, gone, op, num, new, before>>,
         op[r] \in {"cancel", "modify"} =>
           \/ c.id = num[r]
           \/ exch[c.id].parent = num[r] /\ ~ c.overseas
           \/ exch[c.id].state = "cancelled",
         c.status # "cancelled" /\ c.id \in before[r] => ~ c.overseas,
         world.lookupsFail /\ c.id \in gone => c.status = "cancelled"
  PROVE  /\ RequestRight(r)' /\ ~ HasNew(r)'
         /\ \A q \in Requests \ {r} : RestsAll(q)
<1> DEFINE Done(l) == /\ pc'[r] = l /\ meta'[r] = c
                      /\ \A q \in Requests \ {r} : RestsAll(q)
<1>1. op[r] \in {"cancel", "modify", "get", "fills"} /\ pc[r] # "answered" /\ answer[r] = "none"
      /\ before[r] \subseteq gone
  BY DEF IInv, InHand, RequestsOK, Ops, CInv, RequestRight, LookupRight
<1>2. CASE op[r] \in {"cancel", "modify"}
  <2>1. Done("call")
    BY <1>2 DEF Resolved, Goto, IInv, RequestsOK, RestsAll, Rests
  <2> QED
    BY <1>1, <2>1 DEF RequestRight, MetaRight, Known, NewRight, HasNew, LookupRight, AloneRight
<1>3. CASE op[r] = "get" /\ c.status = "cancelled"
  <2>1. Done("record") /\ found'[r] = "cancelled"
    BY <1>3 DEF Resolved, Goto, IInv, RequestsOK, RestsAll, Rests
  <2> QED
    BY <1>1, <1>3, <2>1
       DEF RequestRight, MetaRight, Known, NewRight, HasNew, LookupRight, AloneRight
<1>4. CASE op[r] = "get" /\ c.status # "cancelled"
  <2>1. Done("daily")
    BY <1>4 DEF Resolved, Goto, IInv, RequestsOK, RestsAll, Rests
  <2> QED
    BY <1>1, <1>4, <2>1
       DEF RequestRight, MetaRight, Known, NewRight, HasNew, LookupRight, AloneRight
<1>5. CASE op[r] = "fills"
  <2>1. Done("answered") /\ answer'[r] = "ok"
    BY <1>5 DEF Resolved, End, Goto, IInv, RequestsOK, RestsAll, Rests
  <2> QED
    BY <1>1, <2>1
       DEF RequestRight, MetaRight, Known, NewRight, HasNew, LookupRight, AloneRight, Statuses,
           Settled
<1> QED
  BY <1>1, <1>2, <1>3, <1>4, <1>5

LEMMA ResolveStays == ASSUME IInv, CInv, Apart, NEW r \in Requests, Resolve(r) PROVE CInv'
<1> DEFINE c == orders[num[r]]
<1>1. num[r] \in Numbers /\ pc[r] = "resolve"
  BY DEF Resolve, IInv, InHand
<1>2. c \in Contexts /\ ContextRight(num[r], c)
  BY <1>1 DEF IInv, OrdersOK, CInv
<1>3. /\ meta' = [meta EXCEPT ![r] = c] /\ meta'[r] = c
      /\ UNCHANGED <<world, exch, orders, gone, op, num, new, before>>
  BY DEF Resolve, IInv, RequestsOK
<1>4. \A n \in Numbers : meta'[r].id = n => ~ Unknown(n)
  BY <1>1, <1>3 DEF Unknown
<1>5. CASE c.overseas \/ c.org
  <2>1. c # NoContext /\ Resolved(r, c)
    BY <1>5 DEF NoContext, Resolve
  <2>2. before[r] \subseteq gone
    BY DEF CInv, RequestRight, LookupRight
  <2>3. c.status # "cancelled" /\ c.id \in before[r] => ~ c.overseas
    BY <1>2, <2>1, <2>2 DEF ContextRight, Known, Watched
  <2>4. /\ RequestRight(r)' /\ ~ HasNew(r)'
        /\ \A q \in Requests \ {r} : RestsAll(q)
    BY <1>1, <1>2, <1>3, <2>1, <2>3, ResolvedRight DEF ContextRight, Watched
  <2> QED
    BY <1>1, <1>3, <1>4, <2>4, QuietStays
<1>6. CASE ~ (c.overseas \/ c.org)
  <2>1. /\ pc'[r] = "list" /\ UNCHANGED <<found, answer>>
        /\ \A q \in Requests \ {r} : RestsAll(q)
    <3>1. Goto(r, "list") /\ UNCHANGED <<found, answer>>
      BY <1>6 DEF Resolve
    <3> QED
      BY <1>3, <3>1 DEF Goto, IInv, RequestsOK, RestsAll, Rests
  <2>2. RequestRight(r)' /\ ~ HasNew(r)'
    <3>1. MetaRight(r)'
      BY <1>2, <1>3, <1>6, <2>1 DEF MetaRight, ContextRight, Known
    <3>2. NewRight(r)' /\ ~ HasNew(r)'
      BY <2>1 DEF NewRight, HasNew
    <3>3. LookupRight(r)'
      BY <1>3, <2>1 DEF LookupRight, CInv, RequestRight
    <3>4. AloneRight(r)'
      <4>1. world.lookupsFail /\ c.id \in gone => c.status = "cancelled"
        BY <1>2, KISOrdersAssumption DEF ContextRight, Watched, NoContext, IInv, ExchOK
      <4> QED
        BY <1>3, <2>1, <4>1 DEF AloneRight
    <3> QED
      BY <3>1, <3>2, <3>3, <3>4 DEF RequestRight
  <2> QED
    BY <1>1, <1>3, <1>4, <2>1, <2>2, QuietStays
<1> QED
  BY <1>5, <1>6

\* The list has nothing to offer: the context in hand must do.
LEMMA FallBackStays ==
  ASSUME IInv, CInv, Apart, NEW r \in Requests, pc[r] = "list", meta[r] # NoContext,
         Resolved(r, meta[r]), UNCHANGED <<world, exch, orders, gone, op, num, meta, new, before>>
  PROVE  CInv'
<1>1. meta[r] \in Contexts /\ meta' = [meta EXCEPT ![r] = meta[r]] /\ MetaRight(r) /\ AloneRight(r)
  BY DEF IInv, RequestsOK, CInv, RequestRight
<1>2. \A n \in Numbers : meta'[r].id = n => ~ Unknown(n)
  BY DEF Unknown
<1>3. /\ RequestRight(r)' /\ ~ HasNew(r)'
      /\ \A q \in Requests \ {r} : RestsAll(q)
  BY <1>1, ResolvedRight DEF MetaRight, AloneRight
<1> QED
  BY <1>2, <1>3, QuietStays

LEMMA ListFailsStays == ASSUME IInv, CInv, Apart, NEW r \in Requests, ListFails(r) PROVE CInv'
<1>1. CASE meta[r] # NoContext
  BY <1>1, FallBackStays DEF ListFails
<1>2. CASE meta[r] = NoContext
  <2>1. /\ pc[r] = "list" /\ End(r, "error")
        /\ UNCHANGED <<world, exch, orders, gone, op, num, meta, new, found, before>>
    BY <1>2 DEF ListFails
  <2> QED
    BY <2>1, ErrorStays
<1> QED
  BY <1>1, <1>2

LEMMA ListStays == ASSUME IInv, CInv, Apart, NEW r \in Requests, List(r) PROVE CInv'
<1>1. pc[r] = "list" /\ num[r] \in Numbers /\ before[r] \subseteq gone /\ ExchRight
  BY DEF List, IInv, InHand, CInv, RequestRight, LookupRight
<1>2. ASSUME NEW n \in OpenList \cap Family(num[r]),
             meta' = [meta EXCEPT ![r] = [id |-> n, org |-> TRUE, overseas |-> FALSE,
                                          status |-> "pending"]],
             Goto(r, "keep"),
             UNCHANGED <<world, exch, orders, gone, op, num, new, found, answer, before>>
      PROVE  CInv'
  <2>1. /\ n \in Numbers /\ exch[n].state = "open" /\ exch[n].overseas = FALSE
        /\ n = num[r] \/ exch[n].parent = num[r]
    BY DEF OpenList, Family, IInv, ExchOK
  <2>2. n \notin gone
    BY <1>1, <2>1 DEF ExchRight
  <2>3. /\ pc'[r] = "keep" /\ meta'[r].id = n /\ meta'[r].status = "pending"
        /\ meta'[r].overseas = FALSE
        /\ \A q \in Requests \ {r} : RestsAll(q)
    BY <1>2 DEF Goto, IInv, RequestsOK, RestsAll, Rests
  <2>4. RequestRight(r)' /\ ~ HasNew(r)'
    <3>1. MetaRight(r)'
      BY <1>1, <1>2, <2>1, <2>2, <2>3 DEF MetaRight, Known
    <3>2. NewRight(r)' /\ ~ HasNew(r)'
      BY <2>3 DEF NewRight, HasNew
    <3>3. LookupRight(r)'
      BY <1>1, <1>2, <2>3 DEF LookupRight
    <3>4. AloneRight(r)'
      BY <1>2, <2>2, <2>3 DEF AloneRight
    <3> QED
      BY <3>1, <3>2, <3>3, <3>4 DEF RequestRight
  <2> QED
    BY <1>1, <1>2, <2>1, <2>3, <2>4, QuietStays
<1>3. CASE /\ OpenList \cap Family(num[r]) = {}
           /\ UNCHANGED <<world, exch, orders, gone, op, num, meta, new, before>>
           /\ IF meta[r] # NoContext THEN Resolved(r, meta[r])
                ELSE End(r, "notfound") /\ UNCHANGED found
  <2>1. CASE meta[r] # NoContext
    BY <1>1, <1>3, <2>1, FallBackStays
  <2>2. CASE meta[r] = NoContext
    <3>1. End(r, "notfound") /\ UNCHANGED found
      BY <1>3, <2>2
    <3> QED
      BY <1>1, <1>3, <3>1, ErrorStays
  <2> QED
    BY <2>1, <2>2
<1> QED
  BY <1>2, <1>3 DEF List

-----------------------------------------------------------------------------
(* The steps that store a context, and the broker's calls.                 *)

\* A context that is right is stored where it belongs, while the exchange and what
\* was told stay.
LEMMA StoreRight ==
  ASSUME IInv, CInv, NEW r \in Requests, NEW n \in Numbers, NEW c, storeOrderContext(n, c),
         UNCHANGED <<world, exch, gone>>, ContextRight(n, c),
         \A q \in Requests \ {r} : RestsAll(q), pc[r] # "idle",
         meta'[r] \in {meta[r], NoContext},
         c.id \in Numbers,
         exch[c.id].overseas => ~ Unknown(c.id) \/ (HasNew(r) /\ new[r] = c.id)
  PROVE  /\ Quiet(r) /\ ExchRight'
         /\ \A k \in Numbers : ContextRight(k, orders[k])'
<1> USE KISOrdersAssumption
<1>1. /\ orders'[n] = c
      /\ \A k \in Numbers \ {n} : orders'[k] \in {orders[k], NoContext}
  BY StoredThere
<1>2. NoContext.id = None
  BY DEF NoContext
<1>3. StillUnknown(r)
  <2>1. ASSUME NEW m \in Numbers, exch[m].overseas, Unknown(m), ~ (HasNew(r) /\ new[r] = m)
        PROVE  Unknown(m)'
    <3>1. c.id # m
      BY <2>1
    <3>2. \A k \in Numbers : orders'[k].id # m
      BY <1>1, <1>2, <2>1, <3>1 DEF Unknown
    <3>3. \A q \in Requests : meta'[q].id # m
      BY <1>2, <2>1 DEF RestsAll, Rests, Unknown
    <3> QED
      BY <3>2, <3>3 DEF Unknown
  <2> QED
    BY <2>1 DEF StillUnknown
<1>4. Quiet(r)
  BY <1>3 DEF Quiet, Kept
<1>5. \A k \in Numbers : ContextRight(k, orders[k])'
  BY <1>1 DEF CInv, ContextRight, Known, Watched
<1> QED
  BY <1>4, <1>5 DEF CInv, ExchRight

LEMMA KeepStays == ASSUME IInv, CInv, Apart, NEW r \in Requests, Keep(r) PROVE CInv'
<1>1. /\ pc[r] = "keep" /\ meta[r].id \in Numbers /\ meta[r] \in Contexts
      /\ meta' = [meta EXCEPT ![r] = meta[r]] /\ meta[r] # NoContext
  BY KISOrdersAssumption DEF Keep, IInv, InHand, RequestsOK, NoContext
<1>2. MetaRight(r) /\ AloneRight(r)
  BY DEF CInv, RequestRight
<1>3. ContextRight(meta[r].id, meta[r])
  BY <1>1, <1>2 DEF MetaRight, AloneRight, ContextRight, Known, Watched
<1>4. /\ RequestRight(r)' /\ ~ HasNew(r)'
      /\ \A q \in Requests \ {r} : RestsAll(q)
  <2>1. world.lookupsFail => meta[r].id \notin gone
    BY <1>1, <1>2 DEF AloneRight
  <2> QED
    BY <1>1, <1>2, <2>1, ResolvedRight DEF Keep, MetaRight
<1>5. ~ Unknown(meta[r].id)
  BY DEF Unknown
<1>6. /\ Quiet(r) /\ ExchRight'
      /\ \A k \in Numbers : ContextRight(k, orders[k])'
  BY <1>1, <1>3, <1>4, <1>5, StoreRight DEF Keep
<1> QED
  BY <1>1, <1>4, <1>6, StepStays

LEMMA CallFailsStays == ASSUME IInv, CInv, Apart, NEW r \in Requests, CallFails(r) PROVE CInv'
BY ErrorStays DEF CallFails

\* The exchange moves by a step of r that does not touch the contexts.
LEMMA ExchangeStays ==
  ASSUME IInv, CInv, UNCHANGED <<world, orders, gone>>, Kept(exch, exch')
  PROVE  \A k \in Numbers : ContextRight(k, orders[k])'
<1>1. ASSUME NEW k \in Numbers, orders[k] # NoContext
      PROVE  /\ orders[k].id \in Numbers /\ exch'[orders[k].id].state # "none"
             /\ exch'[orders[k].id].overseas = exch[orders[k].id].overseas
             /\ exch[orders[k].id].state = "cancelled" => exch'[orders[k].id].state = "cancelled"
  BY <1>1 DEF CInv, ContextRight, Known, Kept
<1> QED
  BY <1>1 DEF CInv, ContextRight, Known, Watched

\* A new order, placed or in place of another.
LEMMA AcceptRight ==
  ASSUME IInv, CInv, NEW r \in Requests, NEW n \in Numbers, NEW parent \in Numbers \cup {None},
         NEW overseas \in BOOLEAN, Accept(n, parent, overseas), UNCHANGED <<world, orders, gone, meta>>,
         parent \in Numbers => exch[parent].state = "open" /\ exch[parent].overseas = overseas,
         pc[r] = "call", \A q \in Requests \ {r} : RestsAll(q)
  PROVE  /\ Quiet(r) /\ ExchRight' /\ \A k \in Numbers : ContextRight(k, orders[k])'
         /\ n \notin gone /\ Unknown(n)
         /\ exch'[n].state = "open" /\ exch'[n].overseas = overseas
         /\ parent \in Numbers => exch'[parent].state = "replaced"
<1> USE KISOrdersAssumption
<1>1. Kept(exch, exch')
  BY AcceptKept DEF IInv, ExchOK
<1>2. exch[n].state = "none" /\ parent # n
  BY DEF Accept
<1>3. /\ exch'[n] = [state |-> "open", parent |-> parent, overseas |-> overseas]
      /\ \A m \in Numbers \ {n} : /\ exch'[m].parent = exch[m].parent
                                  /\ exch'[m].overseas = exch[m].overseas
                                  /\ m # parent => exch'[m].state = exch[m].state
                                  /\ m = parent => exch'[m].state = "replaced"
  BY <1>2 DEF Accept, IInv, ExchOK
<1>4. ExchRight'
  <2>1. \A m \in gone : m \in Numbers /\ m # n /\ m # parent
    BY <1>2 DEF CInv, ExchRight, IInv, ExchOK
  <2>2. \A m \in gone : exch'[m].state = "cancelled"
    BY <1>3, <2>1 DEF CInv, ExchRight
  <2>3. ASSUME NEW m \in Numbers \ {n}, exch[m].parent \in Numbers
        PROVE  /\ exch'[m].state # "none"
               /\ exch'[exch[m].parent].state = "replaced"
               /\ exch'[exch[m].parent].overseas = exch'[m].overseas
    BY <1>1, <1>2, <1>3, <2>3 DEF CInv, ExchRight, Kept
  <2>4. parent \in Numbers =>
          exch'[parent].state = "replaced" /\ exch'[parent].overseas = overseas
    BY <1>2, <1>3
  <2> QED
    BY <1>3, <2>2, <2>3, <2>4 DEF ExchRight
<1>5. n \notin gone /\ Unknown(n)
  <2>1. n \notin gone
    BY <1>2 DEF CInv, ExchRight
  <2>2. \A k \in Numbers : orders[k].id # n
    BY <1>2 DEF CInv, ContextRight, Known, NoContext
  <2>3. \A q \in Requests : meta[q].id # n
    BY <1>2 DEF CInv, RequestRight, MetaRight, Known, NoContext
  <2> QED
    BY <2>1, <2>2, <2>3 DEF Unknown
<1>6. Quiet(r)
  BY <1>1 DEF Quiet, StillUnknown, Unknown
<1> QED
  BY <1>1, <1>2, <1>3, <1>4, <1>5, <1>6, ExchangeStays

LEMMA CallPlaceStays ==
  ASSUME IInv, CInv, Apart, NEW r \in Requests, NEW n \in Numbers, NEW overseas \in BOOLEAN,
         CallPlace(r, n, overseas)
  PROVE  CInv'
<1>1. /\ pc[r] = "call" /\ op[r] = "place" /\ Accept(n, None, overseas)
      /\ UNCHANGED <<world, orders, gone, op, num, meta, found, before>>
      /\ new'[r] = n /\ \A q \in Requests \ {r} : RestsAll(q)
  BY DEF CallPlace, ArrivesOrNot, Goto, End, IInv, RequestsOK, RestsAll, Rests
<1>2. /\ Quiet(r) /\ ExchRight' /\ \A k \in Numbers : ContextRight(k, orders[k])'
      /\ n \notin gone /\ Unknown(n) /\ exch'[n].state = "open"
  BY <1>1, KISOrdersAssumption, AcceptRight
<1>3. \A q \in Requests \ {r} : HasNew(q) => new[q] # n
  BY <1>1 DEF CInv, RequestRight, NewRight, Accept
<1>4. Kept(exch, exch')
  BY <1>2 DEF Quiet
<1>5. CASE End(r, "error")
  <2>1. RequestRight(r)' /\ ~ HasNew(r)'
    BY <1>1, <1>4, <1>5, EndRight DEF Answers, Statuses, Settled
  <2> QED
    BY <1>1, <1>2, <2>1, StepStays
<1>6. CASE Goto(r, "store")
  <2>1. pc'[r] = "store"
    BY <1>6 DEF Goto, IInv, RequestsOK
  <2>2. Unknown(n)'
    BY <1>1, <1>2 DEF Unknown
  <2>3. MetaRight(r)'
    <3>1. Known(meta[r])'
      BY <1>1, <1>4, KnownKept DEF Known, CInv, RequestRight, MetaRight
    <3> QED
      BY <1>1, <2>1, <3>1 DEF MetaRight
  <2>4. NewRight(r)'
    <3>1. \A k \in Numbers : orders'[k].id # n
      BY <1>1, <1>2 DEF Unknown
    <3>2. \A q \in Requests : meta'[q].id # n
      BY <1>1, <1>2 DEF Unknown
    <3> QED
      BY <1>1, <1>2, <2>1, <3>1, <3>2 DEF NewRight, HasNew, Unknown
  <2>5. LookupRight(r)' /\ AloneRight(r)'
    BY <1>1, <2>1 DEF LookupRight, AloneRight, CInv, RequestRight
  <2>6. RequestRight(r)'
    BY <2>3, <2>4, <2>5 DEF RequestRight
  <2> QED
    BY <1>1, <1>2, <1>3, <2>6, StepStays
<1> QED
  BY <1>5, <1>6 DEF CallPlace, ArrivesOrNot

LEMMA CallModifyStays ==
  ASSUME IInv, CInv, Apart, NEW r \in Requests, NEW n \in Numbers, CallModify(r, n)
  PROVE  CInv'
<1>1. /\ pc[r] = "call" /\ op[r] = "modify" /\ exch[meta[r].id].state = "open"
      /\ Accept(n, meta[r].id, meta[r].overseas)
      /\ UNCHANGED <<world, orders, gone, op, num, meta, found, before>>
      /\ new'[r] \in {n, num[r]} /\ \A q \in Requests \ {r} : RestsAll(q)
  BY DEF CallModify, ArrivesOrNot, Goto, End, IInv, RequestsOK, RestsAll, Rests
<1>2. /\ meta[r].id \in Numbers /\ meta[r].overseas \in BOOLEAN /\ num[r] \in Numbers
      /\ meta[r] # NoContext
  BY <1>1, KISOrdersAssumption DEF IInv, InHand, RequestsOK, Contexts, NoContext
<1>3. MetaRight(r) /\ exch[meta[r].id].overseas = meta[r].overseas
  BY <1>2 DEF CInv, RequestRight, MetaRight, Known
<1>4. /\ Quiet(r) /\ ExchRight' /\ \A k \in Numbers : ContextRight(k, orders[k])'
      /\ n \notin gone /\ Unknown(n) /\ exch'[n].state = "open"
      /\ exch'[n].overseas = meta[r].overseas /\ exch'[meta[r].id].state = "replaced"
  BY <1>1, <1>2, <1>3, KISOrdersAssumption, AcceptRight
<1>5. Kept(exch, exch')
  BY <1>4 DEF Quiet
<1>6. exch'[num[r]].state = "replaced" /\ exch'[num[r]].overseas = meta[r].overseas
  <2>1. meta[r].id = num[r] \/ exch[meta[r].id].parent = num[r]
    BY <1>1, <1>2, <1>3 DEF MetaRight
  <2>2. CASE meta[r].id = num[r]
    BY <1>2, <1>3, <1>4, <1>5, <2>2 DEF Kept, CInv, RequestRight, MetaRight, Known
  <2>3. CASE exch[meta[r].id].parent = num[r]
    <3>1. exch[num[r]].state = "replaced" /\ exch[num[r]].overseas = meta[r].overseas
      BY <1>2, <1>3, <2>3 DEF CInv, ExchRight
    <3> QED
      BY <1>2, <1>5, <3>1 DEF Kept
  <2> QED
    BY <2>1, <2>2, <2>3
<1>7. \A q \in Requests \ {r} :
        HasNew(q) /\ new[q] = new'[r] => exch'[new'[r]].state = "replaced"
  <2>1. \A q \in Requests \ {r} : HasNew(q) => new[q] # n
    BY <1>1 DEF CInv, RequestRight, NewRight, Accept
  <2> QED
    BY <1>1, <1>6, <2>1
<1>8. CASE End(r, "error")
  <2>1. RequestRight(r)' /\ ~ HasNew(r)'
    BY <1>1, <1>5, <1>8, EndRight DEF Answers, Statuses, Settled
  <2> QED
    BY <1>1, <1>4, <2>1, StepStays
<1>9. CASE Goto(r, "store")
  <2>1. pc'[r] = "store"
    BY <1>9 DEF Goto, IInv, RequestsOK
  <2>2. MetaRight(r)'
    <3>1. Known(meta[r])'
      BY <1>1, <1>5, KnownKept DEF Known, CInv, RequestRight, MetaRight
    <3> QED
      BY <1>1, <2>1, <3>1 DEF MetaRight
  <2>3. NewRight(r)'
    <3>1. CASE new'[r] = n
      <4>1. \A k \in Numbers : orders'[k].id # n
        BY <1>1, <1>4 DEF Unknown
      <4>2. \A q \in Requests : meta'[q].id # n
        BY <1>1, <1>4 DEF Unknown
      <4> QED
        BY <1>1, <1>4, <2>1, <3>1, <4>1, <4>2 DEF NewRight, HasNew, Unknown
    <3>2. CASE new'[r] = num[r]
      BY <1>1, <1>6, <2>1, <3>2 DEF NewRight, HasNew
    <3> QED
      BY <1>1, <3>1, <3>2
  <2>4. LookupRight(r)' /\ AloneRight(r)'
    BY <1>1, <2>1 DEF LookupRight, AloneRight, CInv, RequestRight
  <2>5. RequestRight(r)'
    BY <2>2, <2>3, <2>4 DEF RequestRight
  <2> QED
    BY <1>1, <1>4, <1>7, <2>5, StepStays
<1> QED
  BY <1>8, <1>9 DEF CallModify, ArrivesOrNot

LEMMA CallCancelStays == ASSUME IInv, CInv, Apart, NEW r \in Requests, CallCancel(r) PROVE CInv'
<1>1. /\ pc[r] = "call" /\ op[r] = "cancel" /\ exch[meta[r].id].state = "open"
      /\ meta[r].id \in Numbers /\ meta[r] # NoContext
      /\ exch' = [exch EXCEPT ![meta[r].id].state = "cancelled"]
      /\ UNCHANGED <<world, orders, gone, op, num, meta, new, found, before>>
      /\ \A q \in Requests \ {r} : RestsAll(q)
  BY KISOrdersAssumption
     DEF CallCancel, ArrivesOrNot, Goto, End, IInv, InHand, RequestsOK, RestsAll, Rests, NoContext
<1>2. /\ Kept(exch, exch') /\ exch'[meta[r].id].state = "cancelled"
      /\ \A m \in Numbers : /\ exch'[m].parent = exch[m].parent
                            /\ exch'[m].overseas = exch[m].overseas
                            /\ m # meta[r].id => exch'[m].state = exch[m].state
  BY <1>1 DEF Kept, IInv, ExchOK, Settled
<1>3. ExchRight'
  <2>1. \A m \in gone : exch'[m].state = "cancelled"
    BY <1>1, <1>2 DEF CInv, ExchRight, IInv, ExchOK
  <2>2. ASSUME NEW m \in Numbers, exch[m].parent \in Numbers
        PROVE  /\ exch'[m].state # "none"
               /\ exch'[exch[m].parent].state = "replaced"
               /\ exch'[exch[m].parent].overseas = exch'[m].overseas
    BY <1>1, <1>2, <2>2 DEF CInv, ExchRight, Kept
  <2> QED
    BY <1>1, <1>2, <2>1, <2>2 DEF ExchRight
<1>4. Quiet(r) /\ \A k \in Numbers : ContextRight(k, orders[k])'
  BY <1>1, <1>2, ExchangeStays DEF Quiet, StillUnknown, Unknown
<1>5. MetaRight(r)
  BY DEF CInv, RequestRight
<1>6. CASE End(r, "error")
  <2>1. RequestRight(r)' /\ ~ HasNew(r)'
    BY <1>1, <1>2, <1>6, EndRight DEF Answers, Statuses, Settled
  <2> QED
    BY <1>1, <1>3, <1>4, <2>1, StepStays
<1>7. CASE Goto(r, "store")
  <2>1. pc'[r] = "store"
    BY <1>7 DEF Goto, IInv, RequestsOK
  <2>2. MetaRight(r)'
    <3>1. Known(meta[r])'
      BY <1>1, <1>2, <1>5, KnownKept DEF Known, MetaRight
    <3>2. meta[r].id = num[r] \/ ~ meta[r].overseas
      BY <1>1, <1>5 DEF MetaRight
    <3> QED
      BY <1>1, <2>1, <3>1, <3>2 DEF MetaRight
  <2>3. NewRight(r)' /\ ~ HasNew(r)' /\ LookupRight(r)' /\ AloneRight(r)'
    BY <1>1, <2>1 DEF NewRight, HasNew, LookupRight, AloneRight, CInv, RequestRight
  <2> QED
    BY <1>1, <1>3, <1>4, <2>2, <2>3, StepStays DEF RequestRight
<1> QED
  BY <1>6, <1>7 DEF CallCancel, ArrivesOrNot

-----------------------------------------------------------------------------
(* The steps that store a context, again with what they remember.          *)

LEMMA StorePlacedStays ==
  ASSUME IInv, CInv, Apart, NEW r \in Requests, StorePlaced(r) PROVE CInv'
<1> DEFINE c == [id |-> new[r], org |-> ~ exch[new[r]].overseas,
                 overseas |-> exch[new[r]].overseas, status |-> "pending"]
<1>1. /\ HasNew(r) /\ op[r] = "place" /\ pc[r] = "store" /\ new[r] \in Numbers
      /\ storeOrderContext(new[r], c) /\ End(r, "ok")
      /\ UNCHANGED <<world, exch, gone, op, num, meta, new, found, before>>
  BY DEF StorePlaced, HasNew, IInv, InHand
<1>2. c.id = new[r] /\ c.overseas = exch[new[r]].overseas /\ c.status = "pending"
  OBVIOUS
<1> HIDE DEF c
<1>3. ContextRight(new[r], c)
  <2>1. NewRight(r) /\ ExchRight
    BY DEF CInv, RequestRight
  <2>2. new[r] \in gone => exch[new[r]].state = "cancelled"
    BY <2>1 DEF ExchRight
  <2> QED
    BY <1>1, <1>2, <2>1, <2>2 DEF NewRight, ContextRight, Known, Watched
<1>4. /\ RequestRight(r)' /\ ~ HasNew(r)'
      /\ \A q \in Requests \ {r} : RestsAll(q)
  BY <1>1, EndRight DEF Kept, Answers, Statuses, Settled, RestsAll, Rests
<1>5. /\ Quiet(r) /\ ExchRight'
      /\ \A k \in Numbers : ContextRight(k, orders[k])'
  BY <1>1, <1>2, <1>3, <1>4, StoreRight
<1> QED
  BY <1>1, <1>4, <1>5, StepStays

LEMMA StoreModifiedStays ==
  ASSUME IInv, CInv, Apart, NEW r \in Requests, NEW org \in BOOLEAN, StoreModified(r, org)
  PROVE  CInv'
<1> DEFINE c == [meta[r] EXCEPT !.id = new[r], !.org = org, !.status = "pending"]
<1>1. /\ HasNew(r) /\ op[r] = "modify" /\ pc[r] = "store" /\ new[r] \in Numbers
      /\ meta[r] \in Contexts /\ storeOrderContext(new[r], c)
      /\ UNCHANGED <<world, exch, gone, op, num, meta, new, found, before>>
  BY DEF StoreModified, HasNew, IInv, InHand, RequestsOK
<1>2. c.id = new[r] /\ c.overseas = meta[r].overseas /\ c.status = "pending"
  BY <1>1 DEF Contexts
<1> HIDE DEF c
<1>3. ContextRight(new[r], c)
  <2>1. NewRight(r) /\ ExchRight
    BY DEF CInv, RequestRight
  <2>2. new[r] \in gone => exch[new[r]].state = "cancelled"
    BY <2>1 DEF ExchRight
  <2> QED
    BY <1>1, <1>2, <2>1, <2>2 DEF NewRight, ContextRight, Known, Watched
<1>4. /\ RequestRight(r)' /\ ~ HasNew(r)'
      /\ \A q \in Requests \ {r} : RestsAll(q)
  <2>1. CASE new[r] # num[r]
    <3>1. pc'[r] = "remove" /\ \A q \in Requests \ {r} : RestsAll(q)
      BY <2>1 DEF StoreModified, Goto, IInv, RequestsOK, RestsAll, Rests
    <3>2. MetaRight(r)' /\ LookupRight(r)'
      BY <1>1, <3>1 DEF MetaRight, Known, LookupRight, CInv, RequestRight
    <3>3. NewRight(r)' /\ ~ HasNew(r)' /\ AloneRight(r)'
      BY <3>1 DEF NewRight, HasNew, AloneRight
    <3> QED
      BY <3>1, <3>2, <3>3 DEF RequestRight
  <2>2. CASE new[r] = num[r]
    <3>1. End(r, "ok")
      BY <2>2 DEF StoreModified
    <3> QED
      BY <1>1, <3>1, EndRight DEF Kept, Answers, Statuses, Settled, RestsAll, Rests
  <2> QED
    BY <2>1, <2>2
<1>5. /\ Quiet(r) /\ ExchRight'
      /\ \A k \in Numbers : ContextRight(k, orders[k])'
  <2>1. NewRight(r)
    BY DEF CInv, RequestRight
  <2> QED
    BY <1>1, <1>2, <1>3, <1>4, StoreRight
<1> QED
  BY <1>1, <1>4, <1>5, StepStays

\* What a cancellation has in hand before it tells its client.
LEMMA CancelledRight ==
  ASSUME IInv, CInv, NEW r \in Requests, pc[r] \in {"store", "alias"}, op[r] = "cancel"
  PROVE  /\ meta[r].id \in Numbers /\ exch[meta[r].id].state = "cancelled"
         /\ Cancelled(r).id = meta[r].id /\ Cancelled(r).status = "cancelled"
         /\ exch[meta[r].id].overseas = Cancelled(r).overseas
         /\ meta[r].id = num[r] \/ ~ exch[meta[r].id].overseas
<1> USE KISOrdersAssumption
<1>1. /\ meta[r].id \in Numbers /\ meta[r] \in Contexts /\ meta[r] # NoContext
      /\ exch[meta[r].id].state = "cancelled"
  BY DEF IInv, InHand, RequestsOK, RequestTrue, NoContext
<1>2. exch[meta[r].id].overseas = meta[r].overseas /\ (meta[r].id = num[r] \/ ~ meta[r].overseas)
  BY <1>1 DEF CInv, RequestRight, MetaRight, Known
<1> QED
  BY <1>1, <1>2 DEF Cancelled, Contexts

\* The last step of a cancellation: every context of the order says so, where it has
\* to be remembered.
LEMMA EndCancelledStays ==
  ASSUME IInv, CInv, Apart, NEW r \in Requests, pc[r] \in {"store", "alias"}, op[r] = "cancel",
         num[r] \in Numbers, pc[r] = "store" => meta[r].id = num[r],
         storeOrderContext(num[r], Cancelled(r)), EndCancelled(r),
         UNCHANGED <<world, exch, op, num, meta, new, found, before>>
  PROVE  CInv'
<1> USE KISOrdersAssumption
<1> DEFINE c == Cancelled(r)
<1>1. /\ meta[r].id \in Numbers /\ exch[meta[r].id].state = "cancelled"
      /\ c.id = meta[r].id /\ c.status = "cancelled"
      /\ exch[c.id].overseas = c.overseas
      /\ meta[r].id = num[r] \/ ~ exch[meta[r].id].overseas
  BY CancelledRight
<1> HIDE DEF c
<1>2. /\ orders'[num[r]] = c
      /\ \A k \in Numbers \ {num[r]} : orders'[k] \in {orders[k], NoContext}
  BY StoredThere DEF c
<1>3. End(r, "ok") /\ gone' = gone \cup {meta[r].id} /\ Kept(exch, exch')
  BY DEF EndCancelled, Kept
<1>4. /\ RequestRight(r)' /\ ~ HasNew(r)'
      /\ \A q \in Requests \ {r} : RestsAll(q)
  BY <1>3, EndRight DEF Answers, Statuses, Settled, RestsAll, Rests
<1>5. StillUnknown(r)
  <2>1. ASSUME NEW m \in Numbers, Unknown(m)
        PROVE  Unknown(m)'
    <3>1. c.id # m /\ NoContext.id # m
      BY <1>1, <2>1 DEF Unknown, NoContext
    <3>2. \A k \in Numbers : orders'[k].id # m
      BY <1>2, <2>1, <3>1 DEF Unknown
    <3> QED
      BY <2>1, <3>2 DEF Unknown
  <2> QED
    BY <2>1 DEF StillUnknown
<1>6. Quiet(r)
  BY <1>3, <1>4, <1>5 DEF Quiet
<1>7. ExchRight'
  BY <1>1, <1>3 DEF CInv, ExchRight
<1>8. ASSUME NEW k \in Numbers
      PROVE  ContextRight(k, orders[k])'
  <2>1. CASE k = num[r]
    BY <1>1, <1>2, <2>1 DEF ContextRight, Known
  <2>2. CASE k # num[r] /\ orders'[k] = orders[k]
    <3>1. ContextRight(k, orders[k])
      BY DEF CInv
    <3>2. CASE orders[k] # NoContext /\ orders[k].id = meta[r].id /\ k = meta[r].id
      <4>1. pc[r] = "alias" /\ ~ exch[meta[r].id].overseas
        BY <1>1, <2>2, <3>2
      <4>2. world.lookupsFail => orders[k].status = "cancelled"
        BY <3>2, <4>1 DEF CInv, RequestRight, AloneRight
      <4> QED
        BY <2>2, <3>1, <3>2, <4>1, <4>2 DEF ContextRight, Known, Watched
    <3>3. CASE ~ (orders[k].id = meta[r].id /\ k = meta[r].id)
      BY <1>3, <2>2, <3>1, <3>3 DEF ContextRight, Known, Watched
    <3>4. CASE orders[k] = NoContext
      BY <2>2, <3>4 DEF ContextRight
    <3> QED
      BY <3>2, <3>3, <3>4
  <2>3. CASE orders'[k] = NoContext
    BY <2>3 DEF ContextRight, NoContext
  <2> QED
    BY <1>2, <2>1, <2>2, <2>3
<1> QED
  BY <1>4, <1>6, <1>7, <1>8, StepStays

LEMMA StoreCancelledStays ==
  ASSUME IInv, CInv, Apart, NEW r \in Requests, StoreCancelled(r) PROVE CInv'
<1>1. /\ pc[r] = "store" /\ op[r] = "cancel" /\ num[r] \in Numbers
      /\ storeOrderContext(meta[r].id, Cancelled(r))
      /\ UNCHANGED <<world, exch, op, num, meta, new, found, before>>
  BY DEF StoreCancelled, IInv, InHand
<1>2. CASE meta[r].id = num[r]
  <2>1. EndCancelled(r)
    BY <1>2 DEF StoreCancelled
  <2> QED
    BY <1>1, <1>2, <2>1, EndCancelledStays
<1>3. CASE meta[r].id # num[r]
  <2> DEFINE c == Cancelled(r)
  <2>1. /\ meta[r].id \in Numbers /\ exch[meta[r].id].state = "cancelled"
        /\ c.id = meta[r].id /\ c.status = "cancelled"
        /\ exch[c.id].overseas = c.overseas /\ ~ exch[meta[r].id].overseas
    BY <1>1, <1>3, CancelledRight
  <2> HIDE DEF c
  <2>2. Goto(r, "alias") /\ UNCHANGED <<gone, answer>>
    BY <1>3 DEF StoreCancelled
  <2>3. pc'[r] = "alias" /\ \A q \in Requests \ {r} : RestsAll(q)
    BY <1>1, <2>2 DEF Goto, IInv, RequestsOK, RestsAll, Rests
  <2>4. storeOrderContext(meta[r].id, c)
    BY <1>1 DEF c
  <2>5. orders'[meta[r].id] = c
    BY <2>1, <2>4, StoredThere
  <2>6. ContextRight(meta[r].id, c)
    BY <2>1 DEF ContextRight, Known
  <2>7. RequestRight(r)' /\ ~ HasNew(r)'
    <3>1. MetaRight(r)' /\ LookupRight(r)'
      BY <1>1, <2>2, <2>3 DEF MetaRight, Known, LookupRight, CInv, RequestRight
    <3>2. NewRight(r)' /\ ~ HasNew(r)'
      BY <2>3 DEF NewRight, HasNew
    <3>3. AloneRight(r)'
      BY <1>1, <2>1, <2>3, <2>5 DEF AloneRight
    <3> QED
      BY <3>1, <3>2, <3>3 DEF RequestRight
  <2>8. /\ Quiet(r) /\ ExchRight'
        /\ \A k \in Numbers : ContextRight(k, orders[k])'
    BY <1>1, <2>1, <2>2, <2>3, <2>4, <2>6, StoreRight
  <2> QED
    BY <1>1, <2>7, <2>8, StepStays
<1> QED
  BY <1>2, <1>3

LEMMA StoreAliasStays == ASSUME IInv, CInv, Apart, NEW r \in Requests, StoreAlias(r) PROVE CInv'
BY EndCancelledStays DEF StoreAlias, IInv, InHand

LEMMA RemoveStays ==
  ASSUME IInv, CInv, Apart, NEW r \in Requests, removeOrderContext(r) PROVE CInv'
<1> USE KISOrdersAssumption
<1>1. /\ pc[r] = "remove" /\ End(r, "ok")
      /\ UNCHANGED <<world, exch, gone, op, num, meta, new, found, before>>
      /\ \A k \in Numbers : orders'[k] \in {orders[k], NoContext}
  BY DEF removeOrderContext, IInv, OrdersOK
<1>2. /\ RequestRight(r)' /\ ~ HasNew(r)'
      /\ \A q \in Requests \ {r} : RestsAll(q)
  BY <1>1, EndRight DEF Kept, Answers, Statuses, Settled, RestsAll, Rests
<1>3. StillUnknown(r)
  <2>1. ASSUME NEW n \in Numbers, Unknown(n)
        PROVE  Unknown(n)'
    BY <1>1, <2>1 DEF Unknown, NoContext
  <2> QED
    BY <2>1 DEF StillUnknown
<1>4. Quiet(r) /\ ExchRight'
  BY <1>1, <1>2, <1>3 DEF Quiet, Kept, CInv, ExchRight
<1>5. \A k \in Numbers : ContextRight(k, orders[k])'
  BY <1>1 DEF CInv, ContextRight, Known, Watched
<1> QED
  BY <1>1, <1>2, <1>4, <1>5, StepStays

-----------------------------------------------------------------------------
(* GetOrder, again.                                                        *)

\* Something was found out about the order, and nothing else happened.
LEMMA FoundStays ==
  ASSUME IInv, CInv, Apart, NEW r \in Requests, pc[r] \in {"daily", "open"},
         Goto(r, "record") \/ Goto(r, "open"),
         \A q \in Requests \ {r} : found'[q] = found[q],
         UNCHANGED <<world, exch, orders, gone, op, num, meta, new, answer, before>>,
         ~ world.lookupsFail /\ meta[r].overseas
           /\ exch[meta[r].id].state \in {"open", "cancelled"} => found'[r] = meta[r].status,
         meta[r].id \in before[r] => found'[r] = "cancelled"
  PROVE  CInv'
<1>1. /\ pc'[r] \in {"record", "open"} /\ answer[r] = "none" /\ meta[r].status # "cancelled"
      /\ \A q \in Requests \ {r} : RestsAll(q)
  BY DEF Goto, IInv, InHand, RequestsOK, RestsAll, Rests, CInv, RequestRight, LookupRight
<1>2. MetaRight(r)'
  BY <1>1 DEF MetaRight, Known, CInv, RequestRight
<1>3. NewRight(r)' /\ ~ HasNew(r)'
  BY <1>1 DEF NewRight, HasNew
<1>4. LookupRight(r)'
  BY <1>1 DEF LookupRight, CInv, RequestRight
<1>5. AloneRight(r)'
  BY <1>1 DEF AloneRight, CInv, RequestRight
<1>6. \A n \in Numbers : meta'[r].id = n => ~ Unknown(n)
  BY DEF Unknown
<1> QED
  BY <1>1, <1>2, <1>3, <1>4, <1>5, <1>6, QuietStays DEF RequestRight

LEMMA DailyStays == ASSUME IInv, CInv, Apart, NEW r \in Requests, Daily(r) PROVE CInv'
<1> USE KISOrdersAssumption
<1>1. pc[r] = "daily" /\ meta[r].id \in Numbers /\ meta[r] # NoContext /\ MetaRight(r) /\ LookupRight(r)
  BY DEF Daily, IInv, InHand, NoContext, CInv, RequestRight
<1>2. PICK n \in Family(meta[r].id) : found' = [found EXCEPT ![r] = Listed(n)]
  BY DEF Daily
<1>3. n \in Numbers /\ (n = meta[r].id \/ exch[n].parent = meta[r].id)
  BY <1>2 DEF Family
<1>4. exch[meta[r].id].state \in {"open", "cancelled"} => n = meta[r].id
  BY <1>1, <1>3 DEF CInv, ExchRight
<1>5. exch[meta[r].id].overseas = meta[r].overseas
  BY <1>1 DEF MetaRight, Known
<1>6. ASSUME meta[r].id \in before[r]
      PROVE  Listed(n) = "cancelled"
  <2>1. exch[meta[r].id].state = "cancelled" /\ ~ meta[r].overseas
    BY <1>1, <1>6 DEF LookupRight, CInv, ExchRight
  <2> QED
    BY <1>4, <1>5, <2>1 DEF Listed, Settled
<1>7. ASSUME ~ world.lookupsFail, meta[r].overseas, exch[meta[r].id].state \in {"open", "cancelled"}
      PROVE  Listed(n) = meta[r].status
  <2>1. Listed(n) = "pending"
    BY <1>4, <1>5, <1>7 DEF Listed, Settled
  <2>2. meta[r].status \in Statuses /\ meta[r].status # "cancelled"
    BY <1>1 DEF IInv, RequestsOK, Contexts, LookupRight
  <2>3. meta[r].status \notin {"filled", "rejected"}
    <3>1. SUFFICES ASSUME meta[r].status \in {"filled", "rejected"} PROVE FALSE
      OBVIOUS
    <3>2. PICK m \in Numbers : (m = meta[r].id \/ exch[m].parent = meta[r].id)
                               /\ exch[m].state = meta[r].status
      BY <1>7, <3>1 DEF IInv, RequestTrue, ContextTrue, TrueOf
    <3>3. m # meta[r].id
      BY <1>7, <3>1, <3>2
    <3> QED
      BY <1>1, <1>7, <3>2, <3>3 DEF CInv, ExchRight
  <2> QED
    BY <2>1, <2>2, <2>3 DEF Statuses, Settled
<1>8. /\ found'[r] = Listed(n) /\ \A q \in Requests \ {r} : found'[q] = found[q]
      /\ Goto(r, "record")
      /\ UNCHANGED <<world, exch, orders, gone, op, num, meta, new, answer, before>>
  BY <1>2 DEF Daily, IInv, RequestsOK
<1> QED
  BY <1>1, <1>6, <1>7, <1>8, FoundStays

\* Where the lists fail, nothing is looked up of an order that clients were told is
\* cancelled.
LEMMA NotTold ==
  ASSUME IInv, CInv, NEW r \in Requests, pc[r] \in {"daily", "open"}, world.lookupsFail
  PROVE  meta[r].id \notin before[r]
BY DEF CInv, RequestRight, LookupRight, AloneRight

LEMMA LookupFailsStays ==
  ASSUME IInv, CInv, Apart, NEW r \in Requests, DailyFails(r) \/ CheckOpen(r) \/ OpenFails(r)
  PROVE  CInv'
<1>1. pc[r] \in {"daily", "open"} /\ world.lookupsFail /\ meta[r].id \notin before[r]
  BY NotTold DEF DailyFails, CheckOpen, OpenFails, IInv, InHand
<1>2. /\ Goto(r, "record") \/ Goto(r, "open")
      /\ UNCHANGED <<world, exch, orders, gone, op, num, meta, new, answer, before>>
  BY DEF DailyFails, CheckOpen, OpenFails
<1>3. \A q \in Requests \ {r} : found'[q] = found[q]
  BY DEF DailyFails, CheckOpen, OpenFails, IInv, RequestsOK
<1> QED
  BY <1>1, <1>2, <1>3, FoundStays

LEMMA RecordStays == ASSUME IInv, CInv, Apart, NEW r \in Requests, Record(r) PROVE CInv'
<1> USE KISOrdersAssumption
<1> DEFINE c == [meta[r] EXCEPT !.status = found[r]]
<1>1. /\ pc[r] = "record" /\ meta[r].id \in Numbers /\ meta[r] \in Contexts /\ meta[r] # NoContext
      /\ found[r] \in Statuses /\ End(r, found[r])
      /\ UNCHANGED <<world, exch, gone, op, num, meta, new, found, before>>
  BY DEF Record, IInv, InHand, RequestsOK, NoContext
<1>2. MetaRight(r) /\ LookupRight(r) /\ AloneRight(r)
  BY DEF CInv, RequestRight
<1>3. /\ RequestRight(r)' /\ ~ HasNew(r)'
      /\ \A q \in Requests \ {r} : RestsAll(q)
  BY <1>1, <1>2, EndRight DEF LookupRight, Kept, Answers, RestsAll, Rests
<1>4. CASE found[r] = meta[r].status
  <2>1. \A n \in Numbers : meta'[r].id = n => ~ Unknown(n)
    BY <1>1 DEF Unknown
  <2>2. UNCHANGED orders
    BY <1>4 DEF Record
  <2> QED
    BY <1>1, <1>3, <2>1, <2>2, QuietStays
<1>5. CASE found[r] # meta[r].status
  <2>1. c.id = meta[r].id /\ c.overseas = meta[r].overseas /\ c.status = found[r]
    BY <1>1 DEF Contexts
  <2>2. storeOrderContext(meta[r].id, c)
    BY <1>5 DEF Record
  <2> HIDE DEF c
  <2>3. ContextRight(meta[r].id, c)
    <3>1. exch[meta[r].id].state # "none" /\ exch[meta[r].id].overseas = meta[r].overseas
      BY <1>1, <1>2 DEF MetaRight, Known
    <3>2. ASSUME meta[r].id \in gone, Watched(meta[r].id)
          PROVE  found[r] = "cancelled"
      <4>1. exch[meta[r].id].state = "cancelled"
        BY <3>2 DEF CInv, ExchRight
      <4>2. CASE world.lookupsFail
        BY <1>1, <1>2, <3>2, <4>2 DEF AloneRight, LookupRight
      <4>3. CASE ~ world.lookupsFail
        BY <1>1, <1>2, <1>5, <3>1, <3>2, <4>1, <4>3 DEF LookupRight, Watched
      <4> QED
        BY <4>2, <4>3
    <3> QED
      BY <1>1, <2>1, <3>1, <3>2 DEF ContextRight, Known
  <2>4. ~ Unknown(meta[r].id)
    BY DEF Unknown
  <2>5. /\ Quiet(r) /\ ExchRight'
        /\ \A k \in Numbers : ContextRight(k, orders[k])'
    BY <1>1, <1>3, <2>1, <2>2, <2>3, <2>4, StoreRight
  <2> QED
    BY <1>1, <1>3, <2>5, StepStays
<1> QED
  BY <1>4, <1>5

-----------------------------------------------------------------------------
(* The other steps, and all of them, again.                                *)

LEMMA ReturnStays == ASSUME IInv, CInv, Apart, NEW r \in Requests, Return(r) PROVE CInv'
<1>1. /\ pc[r] = "answered" /\ pc'[r] = "idle" /\ op'[r] = "none" /\ meta'[r] = NoContext
      /\ before'[r] = {} /\ UNCHANGED <<world, exch, orders, gone>>
      /\ \A q \in Requests \ {r} : RestsAll(q)
  BY DEF Return, Goto, IInv, RequestsOK, RestsAll, Rests
<1>2. RequestRight(r)' /\ ~ HasNew(r)'
  BY <1>1 DEF RequestRight, MetaRight, Known, NewRight, HasNew, LookupRight, AloneRight
<1>3. \A n \in Numbers : meta'[r].id # n
  BY <1>1, KISOrdersAssumption DEF NoContext
<1> QED
  BY <1>1, <1>2, <1>3, QuietStays

LEMMA RestartStays == ASSUME IInv, CInv, Restart PROVE CInv'
<1>1. ExchRight' /\ \A k \in Numbers : ContextRight(k, orders[k])'
  BY DEF Restart, CInv, ExchRight, ContextRight, Known, Watched
<1>2. \A r \in Requests : RequestRight(r)'
  BY DEF Restart, RequestRight, MetaRight, Known, NewRight, HasNew, LookupRight, AloneRight
<1>3. Distinct' /\ Alone'
  BY DEF Restart, Distinct, HasNew, Alone
<1> QED
  BY <1>1, <1>2, <1>3 DEF CInv

LEMMA SettleStays ==
  ASSUME IInv, CInv, Apart, NEW n \in Numbers, NEW s \in Settled, Settle(n, s)
  PROVE  CInv'
<1>1. /\ Kept(exch, exch') /\ UNCHANGED <<world, orders, gone, request>>
      /\ \A m \in Numbers : /\ exch'[m].parent = exch[m].parent
                            /\ exch'[m].overseas = exch[m].overseas
                            /\ exch[m].state # "open" => exch'[m].state = exch[m].state
  BY DEF Settle, Kept, IInv, ExchOK, Settled
<1>2. \A q \in Requests : RestsAll(q)
  BY <1>1 DEF request, RestsAll, Rests
<1>3. ExchRight'
  <2>1. \A m \in gone : exch'[m].state = "cancelled"
    BY <1>1 DEF CInv, ExchRight, IInv, ExchOK
  <2>2. ASSUME NEW m \in Numbers, exch[m].parent \in Numbers
        PROVE  /\ exch'[m].state # "none"
               /\ exch'[exch[m].parent].state = "replaced"
               /\ exch'[exch[m].parent].overseas = exch'[m].overseas
    BY <1>1, <2>2 DEF CInv, ExchRight, Kept
  <2> QED
    BY <1>1, <2>1, <2>2 DEF ExchRight
<1>4. \A k \in Numbers : ContextRight(k, orders[k])'
  BY <1>1, ExchangeStays
<1>5. ASSUME NEW q \in Requests
      PROVE  RequestRight(q)'
  <2>1. /\ MetaRight(q) /\ NewRight(q) /\ LookupRight(q) /\ AloneRight(q) /\ RestsAll(q)
        /\ HasNew(q) => new[q] \in Numbers
    BY <1>2 DEF CInv, RequestRight, IInv, InHand, HasNew
  <2>2. MetaRight(q)'
    BY <1>1, <1>2, OthersMeta
  <2>3. NewRight(q)'
    <3>1. HasNew(q)' = HasNew(q) /\ new'[q] = new[q] /\ op'[q] = op[q] /\ meta'[q] = meta[q]
      BY <2>1 DEF HasNew, RestsAll, Rests
    <3>2. orders' = orders /\ meta' = meta /\ gone' = gone /\ world' = world
      BY <1>1 DEF request
    <3>3. ASSUME HasNew(q)
          PROVE  /\ exch'[new[q]].state # "none" /\ exch'[new[q]].overseas = exch[new[q]].overseas
                 /\ exch'[new[q]].state # "replaced" => exch[new[q]].state # "replaced"
      BY <1>1, <2>1, <3>3 DEF NewRight, Kept
    <3> QED
      BY <2>1, <3>1, <3>2, <3>3 DEF NewRight, Watched, Unknown
  <2>4. LookupRight(q)'
    <3>1. pc[q] = "record" => meta[q].id \in Numbers /\ exch[meta[q].id].state # "none"
      BY <2>1, KISOrdersAssumption DEF IInv, InHand, MetaRight, Known, NoContext
    <3> QED
      BY <1>1, <2>1, <3>1 DEF LookupRight, RestsAll, Rests, Kept
  <2>5. AloneRight(q)'
    BY <1>1, <2>1 DEF AloneRight, RestsAll, Rests
  <2> QED
    BY <2>2, <2>3, <2>4, <2>5 DEF RequestRight
<1>6. Distinct'
  <2>1. \A q \in Requests : HasNew(q) => new[q] \in Numbers
    BY DEF IInv, InHand, HasNew
  <2> QED
    BY <1>1, <2>1 DEF CInv, Distinct, HasNew, request, Kept
<1>7. Alone'
  BY <1>1 DEF CInv, Alone, request
<1> QED
  BY <1>3, <1>4, <1>5, <1>6, <1>7 DEF CInv

LEMMA StutterStays == ASSUME CInv, UNCHANGED vars PROVE CInv'
BY DEF vars, request, CInv, ExchRight, ContextRight, Known, Watched, RequestRight, MetaRight, NewRight,
       LookupRight, AloneRight, HasNew, Unknown, Distinct, Alone

LEMMA CInvNext == ASSUME IInv, CInv, Apart, [Next]_vars PROVE CInv'
<1>1. ASSUME NEW r \in Requests, Step(r)
      PROVE  CInv'
  BY <1>1, ResolveStays, ListFailsStays, ListStays, KeepStays, CallFailsStays, CallCancelStays,
     CallPlaceStays, CallModifyStays, StoreModifiedStays, StorePlacedStays, StoreCancelledStays,
     StoreAliasStays, RemoveStays, DailyStays, LookupFailsStays, RecordStays, ReturnStays
     DEF Step
<1>2. ASSUME NEW r \in Requests,
             BeginPlace(r) \/ \E o \in Ops \ {"none", "place"}, n \in Numbers : Begin(r, o, n)
      PROVE  CInv'
  BY <1>2, BeginStays
<1>3. ASSUME NEW n \in Numbers, NEW s \in Settled, Settle(n, s)
      PROVE  CInv'
  BY <1>3, SettleStays
<1> QED
  BY <1>1, <1>2, <1>3, RestartStays, StutterStays DEF Next

\* The circumstances of a behaviour do not change.
LEMMA ApartNext == ASSUME [Next]_vars PROVE Apart' = Apart
<1>1. world' = world
  BY DEF Next, vars, Restart, Settle, BeginPlace, Begin, Step, Resolve, ListFails, List, Keep,
         CallFails, CallCancel, CallPlace, CallModify, StoreModified, StorePlaced, StoreCancelled,
         StoreAlias, removeOrderContext, Daily, DailyFails, CheckOpen, OpenFails, Record, Return
<1> QED
  BY <1>1 DEF Apart

\* Once a client was told that an order is cancelled, no lookup that begins later says
\* otherwise, unless requests overlap while the broker's lists cannot be read
\* (resolveOrderContext, GetOrder, CancelOrder).
THEOREM KISOrdersCancelledStays ==
  Spec => [](~ (world.overlap /\ world.lookupsFail) => CancelledStays)
<1>1. Init => (Apart => CInv)
  BY CInvInit
<1>2. IInv /\ (Apart => CInv) /\ [Next]_vars => (Apart => CInv)'
  BY ApartNext, CInvNext
<1>3. IInv /\ (Apart => CInv) => (~ (world.overlap /\ world.lookupsFail) => CancelledStays)
  BY CInvImplies DEF Apart
<1> QED
  BY <1>1, <1>2, <1>3, IInvAlways, PTL DEF Spec
=============================================================================
