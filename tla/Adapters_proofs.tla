--------------------------- MODULE Adapters_proofs --------------------------
(***************************************************************************)
(* What the Kiwoom adapter remembers never understates what is left of an  *)
(* order, and what it answers about orders is true of the exchange, for    *)
(* any number of requests, orders, shares and contexts kept (module        *)
(* KiwoomOrders); what the Toss adapter makes of decimal texts is exact,   *)
(* whatever their base and their length, and what it says of ended orders   *)
(* stays true however Toss decides (module TossOrders); and an answer       *)
(* put together from pages is all that was asked for, whatever is listed   *)
(* and wherever the pages are cut (module Paging).                         *)
(***************************************************************************)
EXTENDS MCAdapters, FiniteSetTheorems, SequenceTheorems, WellFoundedInduction, TLAPS

\* An order that has ended, or a number the exchange gave to a request.
IsOver(x) == x.state \notin {"none", "open"}

\* What may happen to an order: it stays accepted, an open one loses shares, and one
\* that has ended stays as it is.
OrderKept(x, y) ==
  /\ x.state # "none" => y.state # "none"
  /\ IsOver(x) => y = x
  /\ x.state = "open" /\ y.state = "open" => y.left <= x.left

Kept == \A n \in Numbers : OrderKept(exch[n], exch'[n])

\* At least as many shares are remembered of an order as are left of it, and it is
\* remembered as cancelled only when nothing is.
ContextTrue(x, c) ==
  c # NoContext =>
    /\ x.state # "none"
    /\ x.state = "open" => c.status = "pending" /\ c.left >= x.left

\* An open order has shares left, and no order has more than it may.
CellTrue(x) ==
  /\ x.state = "open" => x.left > 0
  /\ x.left + x.done <= Shares

ExchOK ==
  /\ world \in Worlds
  /\ exch \in [Numbers -> [state : {"none", "open"} \cup Ended, left : 0..Shares,
                           done : 0..Shares]]
  /\ \A n \in Numbers : CellTrue(exch[n])

OrdersOK ==
  /\ orders \in [Numbers -> Contexts]
  /\ IsFiniteSet(Stored) /\ Cardinality(Stored) <= Limit

RequestsOK ==
  /\ pc \in [Requests -> {"idle", "resolve", "list", "keep", "call", "store", "alias",
                          "context", "unsettled", "record", "again", "fills", "answered"}]
  /\ op \in [Requests -> {"none", "place", "cancel", "modify", "get"}]
  /\ num \in [Requests -> Numbers \cup {None}]
  /\ meta \in [Requests -> Contexts]
  /\ qty \in [Requests -> 0..Shares]
  /\ new \in [Requests -> Numbers \cup {None}]
  /\ answer \in [Requests -> {"none", "ok", "error", "notfound", "filled", "pending",
                              "cancelled"}]

ContextsTrue == \A n \in Numbers : ContextTrue(exch[n], orders[n])
GoneTrue == gone \subseteq Numbers /\ \A n \in gone : IsOver(exch[n])

\* Which steps belong to which operations, and what is in hand there.
InHand(r) ==
  /\ op[r] \in {"cancel", "modify", "get"} => num[r] \in Numbers
  /\ pc[r] \in {"resolve", "list", "keep", "alias"} => op[r] \in {"cancel", "modify"}
  /\ pc[r] \in {"context", "unsettled", "record", "again", "fills"} => op[r] = "get"
  /\ pc[r] \in {"call", "store"} => op[r] \in {"place", "cancel", "modify"}
  /\ pc[r] \in {"keep", "record"} => meta[r] # NoContext
  /\ pc[r] = "call" /\ op[r] # "place" => meta[r] # NoContext
  /\ pc[r] = "store" /\ op[r] # "cancel" => new[r] \in Numbers
  /\ pc[r] = "alias" /\ op[r] = "cancel" => new[r] \in Numbers
  /\ pc[r] # "answered" => answer[r] = "none"
  /\ pc[r] = "idle" => meta[r] = NoContext

\* What a request has in hand is true of the exchange.
HandTrue(r) ==
  /\ op[r] \in {"cancel", "modify", "get"} =>
       exch[num[r]].state # "none" /\ ContextTrue(exch[num[r]], meta[r])
  /\ pc[r] \in {"store", "alias"} /\ op[r] \in {"cancel", "modify"} => IsOver(exch[num[r]])
  /\ pc[r] \in {"store", "alias"} /\ op[r] = "cancel" /\ new[r] # None => IsOver(exch[new[r]])
  /\ pc[r] = "store" /\ op[r] \in {"place", "modify"} =>
       exch[new[r]].state # "none" /\ (exch[new[r]].state = "open" => qty[r] >= exch[new[r]].left)

\* What it answers is true; an order missing from a list that is whole has ended.
AnswerTrue(r) ==
  /\ world.lists = "whole" /\ pc[r] \in {"again", "fills"} => IsOver(exch[num[r]])
  /\ answer[r] = "filled" => op[r] = "get"
  /\ world.lists = "whole" /\ answer[r] = "filled" =>
       IsOver(exch[num[r]]) /\ qty[r] = exch[num[r]].done
  /\ answer[r] = "notfound" => op[r] \in {"cancel", "modify", "get"}
  /\ answer[r] = "notfound" /\ world.lists = "whole" => IsOver(exch[num[r]])

\* The inductive invariant.
IInv ==
  /\ ExchOK /\ OrdersOK /\ RequestsOK
  /\ ContextsTrue /\ GoneTrue
  /\ \A r \in Requests : InHand(r) /\ HandTrue(r) /\ AnswerTrue(r)

LEMMA IInvImplies ==
  ASSUME IInv
  PROVE  OrdersTypeOK /\ CancelledIsGone /\ FilledHasEnded /\ OpenOrderIsFound
<1>1. OrdersTypeOK
  BY DEF IInv, ExchOK, OrdersOK, RequestsOK, GoneTrue, OrdersTypeOK
<1>2. CancelledIsGone
  BY DEF IInv, GoneTrue, ContextsTrue, ContextTrue, IsOver, NoContext, CancelledIsGone
<1>3. FilledHasEnded
  BY DEF IInv, AnswerTrue, IsOver, FilledHasEnded
<1>4. OpenOrderIsFound
  <2>1. world.lists \in {"whole", "short", "fail"}
    BY KiwoomOrdersAssumption DEF IInv, ExchOK
  <2> QED
    BY <2>1 DEF IInv, AnswerTrue, IsOver, OpenOrderIsFound
<1> QED
  BY <1>1, <1>2, <1>3, <1>4

LEMMA IInvInit == ASSUME OrdersInit PROVE IInv
<1> USE KiwoomOrdersAssumption
<1>1. ExchOK /\ RequestsOK
  BY DEF OrdersInit, ExchOK, CellTrue, RequestsOK, Contexts, NoContext
<1>2. OrdersOK
  <2>1. Stored = {}
    BY DEF OrdersInit, Stored
  <2>2. orders \in [Numbers -> Contexts]
    BY DEF OrdersInit, Contexts, NoContext
  <2> QED
    BY <2>1, <2>2, FS_EmptySet DEF OrdersOK
<1>3. ContextsTrue /\ GoneTrue
  BY DEF OrdersInit, ContextsTrue, ContextTrue, GoneTrue
<1>4. \A r \in Requests : InHand(r) /\ HandTrue(r) /\ AnswerTrue(r)
  BY DEF OrdersInit, InHand, HandTrue, AnswerTrue
<1> QED
  BY <1>1, <1>2, <1>3, <1>4 DEF IInv

-----------------------------------------------------------------------------
(* What a step leaves true.                                                *)

Cells == [state : {"none", "open"} \cup Ended, left : 0..Shares, done : 0..Shares]

\* What is true of an order's context stays true.
LEMMA ContextKept ==
  ASSUME NEW x \in Cells, NEW y \in Cells, OrderKept(x, y), NEW c \in Contexts, ContextTrue(x, c)
  PROVE  ContextTrue(y, c)
BY DEF OrderKept, IsOver, ContextTrue, Cells, Contexts

LEMMA CellsOf ==
  ASSUME IInv
  PROVE  \A n \in Numbers : exch[n] \in Cells /\ exch[n].left \in Nat /\ exch[n].done \in Nat
BY KiwoomOrdersAssumption DEF IInv, ExchOK, Cells

\* A request that takes no step.
Rests(q) ==
  /\ pc'[q] = pc[q] /\ op'[q] = op[q] /\ num'[q] = num[q] /\ meta'[q] = meta[q]
  /\ qty'[q] = qty[q] /\ new'[q] = new[q] /\ answer'[q] = answer[q]

LEMMA RestsKeeps ==
  ASSUME IInv, ExchOK', world' = world, Kept, NEW q \in Requests, Rests(q)
  PROVE  InHand(q)' /\ HandTrue(q)' /\ AnswerTrue(q)'
<1>1. InHand(q)'
  BY DEF IInv, Rests, InHand
<1>2. \A n \in Numbers : exch[n] \in Cells /\ exch'[n] \in Cells /\ OrderKept(exch[n], exch'[n])
  BY DEF IInv, ExchOK, Cells, Kept
<1>3. \A n \in Numbers : IsOver(exch[n]) => exch'[n] = exch[n] /\ IsOver(exch'[n])
  BY <1>2 DEF OrderKept, IsOver
<1>4. /\ num[q] \in Numbers \cup {None} /\ new[q] \in Numbers \cup {None}
      /\ meta[q] \in Contexts /\ qty[q] \in 0..Shares
  BY DEF IInv, RequestsOK
<1>5. HandTrue(q)'
  <2>1. op[q] \in {"cancel", "modify", "get"} =>
          /\ num[q] \in Numbers
          /\ exch'[num[q]].state # "none" /\ ContextTrue(exch'[num[q]], meta[q])
    BY <1>2, <1>4, ContextKept DEF IInv, InHand, HandTrue, OrderKept
  <2>2. pc[q] = "store" /\ op[q] \in {"place", "modify"} =>
          /\ exch'[new[q]].state # "none"
          /\ exch'[new[q]].state = "open" => qty[q] >= exch'[new[q]].left
    <3> SUFFICES ASSUME pc[q] = "store", op[q] \in {"place", "modify"}
                 PROVE  /\ exch'[new[q]].state # "none"
                        /\ exch'[new[q]].state = "open" => qty[q] >= exch'[new[q]].left
      OBVIOUS
    <3>1. /\ new[q] \in Numbers /\ exch[new[q]].state # "none"
          /\ exch[new[q]].state = "open" => qty[q] >= exch[new[q]].left
      BY DEF IInv, InHand, HandTrue
    <3> QED
      BY <1>2, <1>4, <3>1, KiwoomOrdersAssumption DEF OrderKept, IsOver, Cells
  <2>3. /\ pc[q] \in {"store", "alias"} /\ op[q] \in {"cancel", "modify"} => IsOver(exch'[num[q]])
        /\ pc[q] \in {"store", "alias"} /\ op[q] = "cancel" /\ new[q] # None => IsOver(exch'[new[q]])
    BY <1>3, <1>4 DEF IInv, InHand, HandTrue
  <2> QED
    BY <2>1, <2>2, <2>3 DEF Rests, HandTrue
<1>6. AnswerTrue(q)'
  <2>1. InHand(q) /\ AnswerTrue(q)
    BY DEF IInv
  <2> QED
    BY <1>3, <2>1 DEF Rests, InHand, AnswerTrue
<1> QED
  BY <1>1, <1>5, <1>6

\* What is remembered and what clients were told stays true.
LEMMA ContextsKept ==
  ASSUME IInv, ExchOK', Kept, orders' \in [Numbers -> Contexts],
         \A n \in Numbers : ContextTrue(exch[n], orders'[n])
  PROVE  ContextsTrue'
BY ContextKept DEF IInv, ExchOK, Cells, Kept, ContextsTrue

LEMMA GoneKept == ASSUME IInv, Kept, UNCHANGED gone PROVE GoneTrue'
BY DEF IInv, GoneTrue, Kept, OrderKept, IsOver

LEMMA KeptSame ==
  ASSUME IInv, UNCHANGED <<world, exch>>
  PROVE  Kept /\ ExchOK'
BY DEF IInv, ExchOK, Kept, OrderKept

LEMMA OrdersSame ==
  ASSUME IInv, UNCHANGED orders
  PROVE  OrdersOK' /\ \A n \in Numbers : ContextTrue(exch[n], orders'[n])
BY DEF IInv, OrdersOK, Stored, ContextsTrue

\* Storing a context that is true, whatever is evicted for it.
LEMMA StoreKeeps ==
  ASSUME IInv, NEW n \in Numbers, NEW c \in Contexts,
         ContextTrue(exch[n], c), storeOrderContext(n, c)
  PROVE  OrdersOK' /\ \A m \in Numbers : ContextTrue(exch[m], orders'[m])
<1> USE DEF IInv, OrdersOK
<1> DEFINE stored == [orders EXCEPT ![n] = c]
           present == {m \in Numbers : stored[m] # NoContext}
<1>1. stored \in [Numbers -> Contexts]
  OBVIOUS
<1>2. \A m \in Numbers : ContextTrue(exch[m], stored[m])
  BY DEF ContextsTrue
<1>3. IsFiniteSet(present)
  <2>1. present \subseteq Stored \cup {n}
    BY DEF Stored
  <2>2. IsFiniteSet(Stored \cup {n})
    BY FS_AddElement
  <2> QED
    BY <2>1, <2>2, FS_Subset
<1>4. CASE Cardinality(present) <= Limit /\ orders' = stored
  <2>1. Stored' = present
    BY <1>4 DEF Stored
  <2> QED
    BY <1>1, <1>2, <1>3, <1>4, <2>1
<1>5. ASSUME NEW S \in SUBSET present, Cardinality(S) = Limit,
             orders' = [m \in Numbers |-> IF m \in S THEN stored[m] ELSE NoContext]
      PROVE  OrdersOK' /\ \A m \in Numbers : ContextTrue(exch[m], orders'[m])
  <2>1. NoContext \in Contexts /\ \A x : ContextTrue(x, NoContext)
    BY KiwoomOrdersAssumption DEF NoContext, Contexts, ContextTrue
  <2>2. orders' \in [Numbers -> Contexts]
    BY <1>1, <1>5, <2>1
  <2>3. \A m \in Numbers : ContextTrue(exch[m], orders'[m])
    BY <1>2, <1>5, <2>1
  <2>4. Stored' = S
    BY <1>5 DEF Stored
  <2>5. IsFiniteSet(S)
    BY <1>3, FS_Subset
  <2>6. Cardinality(S) <= Limit
    BY <1>5, KiwoomOrdersAssumption
  <2> QED
    BY <2>2, <2>3, <2>4, <2>5, <2>6
<1>6. \/ Cardinality(present) <= Limit /\ orders' = stored
      \/ \E S \in SUBSET present :
           /\ Cardinality(S) = Limit
           /\ orders' = [m \in Numbers |-> IF m \in S THEN stored[m] ELSE NoContext]
  BY DEF storeOrderContext
<1> QED
  BY <1>4, <1>5, <1>6

\* A step of request r: what is left to show of it.
LEMMA StepKeeps ==
  ASSUME IInv, NEW r \in Requests, world' = world, Kept, ExchOK', OrdersOK', RequestsOK', GoneTrue',
         \A m \in Numbers : ContextTrue(exch[m], orders'[m]),
         \A q \in Requests \ {r} : Rests(q),
         InHand(r)', HandTrue(r)', AnswerTrue(r)'
  PROVE  IInv'
<1>1. ContextsTrue'
  BY ContextsKept DEF OrdersOK
<1>2. \A q \in Requests : InHand(q)' /\ HandTrue(q)' /\ AnswerTrue(q)'
  BY RestsKeeps
<1> QED
  BY <1>1, <1>2 DEF IInv

\* The same for a step that leaves the exchange and the contexts alone.
LEMMA QuietStepKeeps ==
  ASSUME IInv, NEW r \in Requests, UNCHANGED <<world, exch, orders, gone>>, RequestsOK',
         \A q \in Requests \ {r} : Rests(q), InHand(r)', HandTrue(r)', AnswerTrue(r)'
  PROVE  IInv'
<1>1. Kept /\ ExchOK' /\ OrdersOK' /\ GoneTrue'
  BY KeptSame, OrdersSame, GoneKept
<1> QED
  BY <1>1, OrdersSame, StepKeeps

Answers == {"none", "ok", "error", "notfound", "filled", "pending", "cancelled"}

\* The request about an order that is there, and the order it is about.
LEMMA RequestKnown ==
  ASSUME IInv, NEW r \in Requests
  PROVE  /\ pc[r] # "answered" => answer[r] = "none"
         /\ meta[r] \in Contexts /\ qty[r] \in 0..Shares /\ new[r] \in Numbers \cup {None}
         /\ op[r] \in {"cancel", "modify", "get"} =>
              /\ num[r] \in Numbers /\ exch[num[r]].state # "none"
              /\ ContextTrue(exch[num[r]], meta[r])
BY DEF IInv, InHand, HandTrue, RequestsOK

\* A request ends; what it answers must be true.
LEMMA EndKeeps ==
  ASSUME IInv, NEW r \in Requests, NEW a \in Answers, world' = world, Kept, ExchOK',
         pc[r] # "answered", End(r, a), UNCHANGED <<op, num, meta>>,
         new' \in [Requests -> Numbers \cup {None}], \A q \in Requests \ {r} : new'[q] = new[q],
         qty' \in [Requests -> 0..Shares], \A q \in Requests \ {r} : qty'[q] = qty[q],
         a \in {"filled", "notfound"} => op[r] \in {"cancel", "modify", "get"},
         a = "filled" => op[r] = "get",
         a \in {"filled", "notfound"} /\ world.lists = "whole" => IsOver(exch'[num[r]]),
         a = "filled" /\ world.lists = "whole" => qty'[r] = exch'[num[r]].done
  PROVE  /\ RequestsOK'
         /\ \A q \in Requests \ {r} : Rests(q)
         /\ InHand(r)' /\ HandTrue(r)' /\ AnswerTrue(r)'
<1>1. pc'[r] = "answered" /\ answer'[r] = a
  BY DEF IInv, RequestsOK, End, Goto
<1>2. RequestsOK' /\ \A q \in Requests \ {r} : Rests(q)
  BY DEF IInv, RequestsOK, End, Goto, Rests, Answers
<1>3. InHand(r)'
  BY <1>1 DEF IInv, InHand
<1>4. op[r] \in {"cancel", "modify", "get"} =>
        exch'[num[r]].state # "none" /\ ContextTrue(exch'[num[r]], meta[r])
  BY RequestKnown, ContextKept DEF IInv, ExchOK, Cells, Kept, OrderKept
<1>5. HandTrue(r)'
  BY <1>1, <1>4 DEF HandTrue
<1>6. AnswerTrue(r)'
  BY <1>1 DEF AnswerTrue
<1> QED
  BY <1>2, <1>3, <1>5, <1>6

\* A request that ends without having done anything.
LEMMA QuietEndKeeps ==
  ASSUME IInv, NEW r \in Requests, NEW a \in Answers, pc[r] # "answered", End(r, a),
         UNCHANGED <<world, exch, orders, gone, op, num, meta, new>>,
         qty' \in [Requests -> 0..Shares], \A q \in Requests \ {r} : qty'[q] = qty[q],
         a \in {"filled", "notfound"} => op[r] \in {"cancel", "modify", "get"},
         a = "filled" => op[r] = "get",
         a \in {"filled", "notfound"} /\ world.lists = "whole" => IsOver(exch[num[r]]),
         a = "filled" /\ world.lists = "whole" => qty'[r] = exch[num[r]].done
  PROVE  IInv'
<1>1. Kept /\ ExchOK' /\ new' \in [Requests -> Numbers \cup {None}]
  BY KeptSame DEF IInv, RequestsOK
<1>2. /\ RequestsOK' /\ \A q \in Requests \ {r} : Rests(q)
      /\ InHand(r)' /\ HandTrue(r)' /\ AnswerTrue(r)'
  BY <1>1, EndKeeps
<1> QED
  BY <1>2, QuietStepKeeps

\* A request goes on with a context, and nothing else happens.
LEMMA QuietMoveKeeps ==
  ASSUME IInv, NEW r \in Requests,
         NEW l \in {"list", "keep", "call", "unsettled", "again", "record", "fills"},
         pc[r] # "answered", Goto(r, l),
         UNCHANGED <<world, exch, orders, gone, op, num, qty, new, answer>>,
         NEW c \in Contexts, meta' = [meta EXCEPT ![r] = c], ContextTrue(exch[num[r]], c),
         l \in {"list", "keep"} => op[r] \in {"cancel", "modify"},
         l = "call" => op[r] \in {"cancel", "modify"},
         l \in {"unsettled", "record", "again", "fills"} => op[r] = "get",
         l \in {"keep", "call", "record"} => c # NoContext,
         l \in {"again", "fills"} /\ world.lists = "whole" => IsOver(exch[num[r]])
  PROVE  IInv'
<1>1. pc'[r] = l /\ answer'[r] = "none" /\ meta'[r] = c
  BY RequestKnown DEF IInv, RequestsOK, Goto
<1>2. RequestsOK' /\ \A q \in Requests \ {r} : Rests(q)
  BY DEF IInv, RequestsOK, Goto, Rests
<1>3. InHand(r)'
  BY <1>1 DEF IInv, InHand
<1>4. HandTrue(r)'
  BY <1>1, RequestKnown DEF HandTrue
<1>5. AnswerTrue(r)'
  BY <1>1 DEF AnswerTrue
<1> QED
  BY <1>2, <1>3, <1>4, <1>5, QuietStepKeeps

-----------------------------------------------------------------------------
(* The steps of a request, first up to the call of the broker.             *)

LEMMA ErrorKeeps ==
  ASSUME IInv, NEW r \in Requests, pc[r] # "answered", End(r, "error"),
         UNCHANGED <<world, exch, orders, gone, op, num, meta, qty, new>>
  PROVE  IInv'
<1>1. qty' \in [Requests -> 0..Shares]
  BY DEF IInv, RequestsOK
<1> QED
  BY <1>1, QuietEndKeeps DEF Answers

LEMMA BeginKeeps ==
  ASSUME IInv, NEW r \in Requests,
         BeginPlace(r) \/ \E o \in {"cancel", "modify", "get"}, n \in Numbers : Begin(r, o, n)
  PROVE  IInv'
<1>1. pc[r] = "idle" /\ answer[r] = "none"
  BY RequestKnown DEF BeginPlace, Begin, MayBegin
<1>2. CASE BeginPlace(r)
  <2>1. pc'[r] = "call" /\ op'[r] = "place"
    BY <1>2 DEF BeginPlace, Goto, IInv, RequestsOK
  <2>2. RequestsOK' /\ \A q \in Requests \ {r} : Rests(q)
    BY <1>2 DEF BeginPlace, Goto, IInv, RequestsOK, Rests
  <2>3. InHand(r)' /\ HandTrue(r)' /\ AnswerTrue(r)'
    BY <1>1, <1>2, <2>1 DEF BeginPlace, InHand, HandTrue, AnswerTrue
  <2> QED
    BY <1>2, <2>2, <2>3, QuietStepKeeps DEF BeginPlace
<1>3. ASSUME NEW o \in {"cancel", "modify", "get"}, NEW n \in Numbers, Begin(r, o, n)
      PROVE  IInv'
  <2>1. pc'[r] = (IF o = "get" THEN "context" ELSE "resolve") /\ op'[r] = o /\ num'[r] = n
    BY <1>3 DEF Begin, Goto, IInv, RequestsOK
  <2>2. RequestsOK' /\ \A q \in Requests \ {r} : Rests(q)
    BY <1>3 DEF Begin, Goto, IInv, RequestsOK, Rests
  <2>3. exch[n].state # "none" /\ meta[r] = NoContext
    BY <1>3 DEF Begin, MayBegin, IInv, InHand
  <2>4. InHand(r)' /\ HandTrue(r)' /\ AnswerTrue(r)'
    BY <1>1, <1>3, <2>1, <2>3 DEF Begin, InHand, HandTrue, AnswerTrue, ContextTrue
  <2> QED
    BY <1>3, <2>2, <2>4, QuietStepKeeps DEF Begin
<1> QED
  BY <1>2, <1>3

LEMMA ResolveKeeps == ASSUME IInv, NEW r \in Requests, Resolve(r) PROVE IInv'
<1>1. pc[r] = "resolve" /\ op[r] \in {"cancel", "modify"} /\ num[r] \in Numbers
  BY DEF Resolve, IInv, InHand
<1>2. orders[num[r]] \in Contexts /\ ContextTrue(exch[num[r]], orders[num[r]])
  BY <1>1 DEF IInv, OrdersOK, ContextsTrue
<1> QED
  BY <1>1, <1>2, QuietMoveKeeps DEF Resolve

\* A page lists open orders, and one that is whole lists them all.
LEMMA PagesAre ==
  ASSUME IInv, NEW listed \in Pages
  PROVE  /\ \A n \in listed : n \in Numbers /\ exch[n].state = "open"
         /\ world.lists = "whole" => listed = Open
BY DEF Pages, Open

\* The context of a row is true when the row is read.
LEMMA RowTrue ==
  ASSUME IInv, NEW n \in Numbers, exch[n].state = "open"
  PROVE  Row(n) \in Contexts /\ Row(n) # NoContext /\ ContextTrue(exch[n], Row(n))
<1>1. /\ exch[n].left \in 0..Shares /\ exch[n].done \in 0..Shares
      /\ exch[n].left > 0 /\ exch[n].left + exch[n].done <= Shares
  BY DEF IInv, ExchOK, CellTrue
<1>2. exch[n].left + exch[n].done \in 0..Shares
  BY <1>1, KiwoomOrdersAssumption
<1> QED
  BY <1>1, <1>2 DEF Row, Contexts, NoContext, ContextTrue

LEMMA ListKeeps == ASSUME IInv, NEW r \in Requests, List(r) PROVE IInv'
<1>1. pc[r] = "list" /\ op[r] \in {"cancel", "modify"} /\ num[r] \in Numbers
  BY DEF List, IInv, InHand
<1>2. PICK listed \in Pages :
        IF num[r] \in listed
          THEN meta' = [meta EXCEPT ![r] = Row(num[r])] /\ Goto(r, "keep") /\ UNCHANGED answer
          ELSE End(r, "notfound") /\ UNCHANGED meta
  BY DEF List
<1>3. CASE num[r] \in listed
  <2>1. Row(num[r]) \in Contexts /\ Row(num[r]) # NoContext /\ ContextTrue(exch[num[r]], Row(num[r]))
    BY <1>1, <1>3, PagesAre, RowTrue
  <2> QED
    BY <1>1, <1>2, <1>3, <2>1, QuietMoveKeeps DEF List
<1>4. CASE num[r] \notin listed
  <2>1. world.lists = "whole" => IsOver(exch[num[r]])
    BY <1>1, <1>4, PagesAre, RequestKnown DEF Open, IsOver
  <2>2. qty' \in [Requests -> 0..Shares] /\ \A q \in Requests : qty'[q] = qty[q]
    BY DEF List, IInv, RequestsOK
  <2> QED
    BY <1>1, <1>2, <1>4, <2>1, <2>2, QuietEndKeeps DEF List, Answers
<1> QED
  BY <1>3, <1>4

LEMMA ListFailsKeeps == ASSUME IInv, NEW r \in Requests, ListFails(r) PROVE IInv'
BY ErrorKeeps DEF ListFails

LEMMA KeepKeeps == ASSUME IInv, NEW r \in Requests, Keep(r) PROVE IInv'
<1>1. /\ pc[r] = "keep" /\ op[r] \in {"cancel", "modify"} /\ meta[r] # NoContext
      /\ num[r] \in Numbers /\ meta[r] \in Contexts /\ ContextTrue(exch[num[r]], meta[r])
  BY RequestKnown DEF Keep, IInv, InHand
<1>2. Kept /\ ExchOK' /\ GoneTrue'
  BY KeptSame, GoneKept DEF Keep
<1>3. OrdersOK' /\ \A m \in Numbers : ContextTrue(exch[m], orders'[m])
  BY <1>1, StoreKeeps DEF Keep
<1>4. RequestsOK' /\ \A q \in Requests \ {r} : Rests(q)
  BY DEF Keep, Goto, IInv, RequestsOK, Rests
<1>5. pc'[r] = "call" /\ answer[r] = "none"
  BY <1>1, RequestKnown DEF Keep, Goto, IInv, RequestsOK
<1>6. InHand(r)' /\ HandTrue(r)' /\ AnswerTrue(r)'
  BY <1>1, <1>5, RequestKnown DEF Keep, InHand, HandTrue, AnswerTrue
<1> QED
  BY <1>2, <1>3, <1>4, <1>6, StepKeeps DEF Keep

-----------------------------------------------------------------------------
(* The calls of the broker.                                                *)

\* The call took effect: the request goes on to store, or ends with an error.
LEMMA CalledKeeps ==
  ASSUME IInv, NEW r \in Requests, world' = world, Kept, ExchOK',
         pc[r] = "call", ArrivesOrNot(r), UNCHANGED <<orders, gone, op, num, meta>>,
         new' \in [Requests -> Numbers \cup {None}], \A q \in Requests \ {r} : new'[q] = new[q],
         qty' \in [Requests -> 0..Shares], \A q \in Requests \ {r} : qty'[q] = qty[q],
         op[r] # "cancel" => new'[r] \in Numbers,
         op[r] \in {"cancel", "modify"} => IsOver(exch'[num[r]]),
         op[r] = "cancel" /\ new'[r] # None => IsOver(exch'[new'[r]]),
         op[r] \in {"place", "modify"} =>
           /\ exch'[new'[r]].state # "none"
           /\ exch'[new'[r]].state = "open" => qty'[r] >= exch'[new'[r]].left
  PROVE  IInv'
<1>1. OrdersOK' /\ (\A m \in Numbers : ContextTrue(exch[m], orders'[m])) /\ GoneTrue'
  BY OrdersSame, GoneKept
<1>2. /\ RequestsOK' /\ \A q \in Requests \ {r} : Rests(q)
      /\ InHand(r)' /\ HandTrue(r)' /\ AnswerTrue(r)'
  <2>1. CASE End(r, "error")
    BY <2>1, EndKeeps DEF Answers
  <2>2. CASE Goto(r, "store") /\ UNCHANGED answer
    <3>1. pc'[r] = "store" /\ answer'[r] = "none"
      BY <2>2, RequestKnown DEF Goto, IInv, RequestsOK
    <3>2. RequestsOK' /\ \A q \in Requests \ {r} : Rests(q)
      BY <2>2 DEF Goto, IInv, RequestsOK, Rests
    <3>3. InHand(r)'
      BY <3>1 DEF IInv, InHand
    <3>4. op[r] \in {"cancel", "modify", "get"} =>
            exch'[num[r]].state # "none" /\ ContextTrue(exch'[num[r]], meta[r])
      BY RequestKnown, ContextKept DEF IInv, ExchOK, Cells, Kept, OrderKept
    <3>5. HandTrue(r)' /\ AnswerTrue(r)'
      BY <3>1, <3>4 DEF HandTrue, AnswerTrue
    <3> QED
      BY <3>2, <3>3, <3>5
  <2> QED
    BY <2>1, <2>2 DEF ArrivesOrNot
<1> QED
  BY <1>1, <1>2, StepKeeps

LEMMA CallFailsKeeps == ASSUME IInv, NEW r \in Requests, CallFails(r) PROVE IInv'
BY ErrorKeeps DEF CallFails

LEMMA FreshAre ==
  ASSUME NEW n \in Fresh
  PROVE  n \in Numbers /\ exch[n].state = "none"
BY DEF Fresh

LEMMA CallPlaceKeeps ==
  ASSUME IInv, NEW r \in Requests, NEW n \in Numbers, NEW q \in 1..Shares, CallPlace(r, n, q)
  PROVE  IInv'
<1> USE KiwoomOrdersAssumption
<1>1. exch[n].state = "none" /\ pc[r] = "call" /\ op[r] = "place"
  BY FreshAre DEF CallPlace
<1>2. exch' = [exch EXCEPT ![n] = [state |-> "open", left |-> q, done |-> 0]]
  BY DEF CallPlace
<1>3. Kept /\ ExchOK'
  BY <1>1, <1>2 DEF CallPlace, IInv, ExchOK, CellTrue, Kept, OrderKept, IsOver
<1>4. /\ new' \in [Requests -> Numbers \cup {None}] /\ new'[r] = n
      /\ qty' \in [Requests -> 0..Shares] /\ qty'[r] = q
      /\ \A p \in Requests \ {r} : new'[p] = new[p] /\ qty'[p] = qty[p]
  BY DEF CallPlace, IInv, RequestsOK
<1>5. exch'[n].state = "open" /\ exch'[n].left = q
  BY <1>2 DEF IInv, ExchOK
<1> QED
  BY <1>1, <1>3, <1>4, <1>5, CalledKeeps DEF CallPlace

\* The context never understates what is left, so a cancellation asks for all of it.
LEMMA CancelAsksForAll ==
  ASSUME NEW x \in Cells, NEW c \in Contexts, c # NoContext, ContextTrue(x, c),
         x.state = "open", x.left > 0
  PROVE  cancelQty(c) >= x.left
BY KiwoomOrdersAssumption DEF cancelQty, Cells, Contexts, ContextTrue

\* Two fields of an order change.
LEMMA TwoFields ==
  ASSUME NEW x \in Cells, NEW l, NEW s
  PROVE  /\ [x EXCEPT !.left = l, !.state = s] = [state |-> s, left |-> l, done |-> x.done]
         /\ [x EXCEPT !.state = s, !.left = l] = [state |-> s, left |-> l, done |-> x.done]
<1> DEFINE y == [x EXCEPT !.left = l]
           z == [x EXCEPT !.state = s]
<1>1. /\ y = [state |-> x.state, left |-> l, done |-> x.done]
      /\ z = [state |-> s, left |-> x.left, done |-> x.done]
  BY DEF Cells
<1> HIDE DEF y, z
<1>2. [y EXCEPT !.state = s] = [state |-> s, left |-> l, done |-> x.done]
  BY <1>1
<1>3. [z EXCEPT !.left = l] = [state |-> s, left |-> l, done |-> x.done]
  BY <1>1
<1> QED
  BY <1>2, <1>3 DEF y, z

LEMMA CallCancelKeeps ==
  ASSUME IInv, NEW r \in Requests, NEW n \in Numbers \cup {None}, CallCancel(r, n)
  PROVE  IInv'
<1> USE KiwoomOrdersAssumption
<1>1. pc[r] = "call" /\ op[r] = "cancel" /\ num[r] \in Numbers /\ meta[r] # NoContext
  BY DEF CallCancel, IInv, InHand
<1>2. /\ exch[num[r]] \in Cells /\ exch[num[r]].state = "open" /\ exch[num[r]].left > 0
      /\ exch[num[r]].left \in Nat
  BY <1>1, CellsOf DEF CallCancel, IInv, ExchOK, CellTrue
<1>3. cancelQty(meta[r]) >= exch[num[r]].left
  BY <1>1, <1>2, CancelAsksForAll, RequestKnown
<1>4. n # None => n \in Numbers /\ exch[n].state = "none"
  BY FreshAre DEF CallCancel
<1>5. exch' = [m \in Numbers |->
        IF m = num[r] THEN [state |-> "cancelled", left |-> 0, done |-> exch[m].done]
        ELSE IF m = n THEN [exch[m] EXCEPT !.state = "request"]
        ELSE exch[m]]
  <2> DEFINE left == exch[num[r]].left - IF cancelQty(meta[r]) < exch[num[r]].left
                                           THEN cancelQty(meta[r]) ELSE exch[num[r]].left
  <2>1. left = 0
    <3>1. cancelQty(meta[r]) \in Nat
      BY RequestKnown DEF cancelQty, Contexts
    <3> QED
      BY <1>2, <1>3, <3>1
  <2>2. exch' = [m \in Numbers |->
          IF m = num[r] THEN [exch[m] EXCEPT !.left = left,
                                             !.state = IF left = 0 THEN "cancelled" ELSE "open"]
          ELSE IF m = n THEN [exch[m] EXCEPT !.state = "request"]
          ELSE exch[m]]
    BY DEF CallCancel
  <2> HIDE DEF left
  <2>3. \A m \in Numbers :
          [exch[m] EXCEPT !.left = left, !.state = IF left = 0 THEN "cancelled" ELSE "open"]
            = [state |-> "cancelled", left |-> 0, done |-> exch[m].done]
    BY <2>1, CellsOf, TwoFields
  <2> QED
    BY <2>2, <2>3
<1>6. /\ exch'[num[r]].state = "cancelled"
      /\ n # None => exch'[n].state \in {"request", "cancelled"}
  BY <1>1, <1>2, <1>4, <1>5, CellsOf DEF Cells
<1>7. Kept
  BY <1>1, <1>2, <1>4, <1>5, CellsOf DEF Cells, Kept, OrderKept, IsOver
<1>8. ExchOK'
  <2>1. exch' \in [Numbers -> Cells]
    BY <1>5, CellsOf DEF Cells, Ended
  <2>2. \A m \in Numbers : CellTrue(exch'[m])
    BY <1>5, CellsOf DEF Cells, CellTrue, IInv, ExchOK
  <2> QED
    BY <2>1, <2>2 DEF CallCancel, IInv, ExchOK, Cells
<1>9. /\ new' \in [Requests -> Numbers \cup {None}] /\ new'[r] = n
      /\ qty' \in [Requests -> 0..Shares]
      /\ \A p \in Requests \ {r} : new'[p] = new[p] /\ qty'[p] = qty[p]
  BY DEF CallCancel, IInv, RequestsOK
<1> QED
  BY <1>1, <1>6, <1>7, <1>8, <1>9, CalledKeeps DEF CallCancel, IsOver

LEMMA CallModifyKeeps ==
  ASSUME IInv, NEW r \in Requests, NEW n \in Numbers, NEW amount \in 0..Shares,
         CallModify(r, n, amount)
  PROVE  IInv'
<1> USE KiwoomOrdersAssumption
<1> DEFINE newQty == IF amount > 0 THEN amount ELSE meta[r].qty
<1>1. pc[r] = "call" /\ op[r] = "modify" /\ num[r] \in Numbers
  BY DEF CallModify, IInv, InHand
<1>2. /\ exch[num[r]].state = "open" /\ exch[n].state = "none"
      /\ newQty \in 1..exch[num[r]].left /\ qty' = [qty EXCEPT ![r] = newQty]
      /\ exch' = [exch EXCEPT ![n] = [state |-> "open", left |-> newQty, done |-> 0],
                              ![num[r]] = [@ EXCEPT !.state = "replaced", !.left = 0]]
  BY FreshAre DEF CallModify
<1>3. newQty \in 1..Shares
  BY <1>1, <1>2, CellsOf DEF Cells
<1> HIDE DEF newQty
<1>4. /\ exch'[num[r]] = [state |-> "replaced", left |-> 0, done |-> exch[num[r]].done]
      /\ exch'[n] = [state |-> "open", left |-> newQty, done |-> 0]
      /\ \A m \in Numbers \ {n, num[r]} : exch'[m] = exch[m]
      /\ exch' = [m \in Numbers |-> exch'[m]]
  <2>1. [exch[num[r]] EXCEPT !.state = "replaced", !.left = 0]
          = [state |-> "replaced", left |-> 0, done |-> exch[num[r]].done]
    BY <1>1, CellsOf, TwoFields
  <2>2. exch' = [exch EXCEPT ![n] = [state |-> "open", left |-> newQty, done |-> 0],
                             ![num[r]] = [exch[num[r]] EXCEPT !.state = "replaced", !.left = 0]]
    BY <1>1, <1>2 DEF IInv, ExchOK
  <2> QED
    BY <1>1, <1>2, <2>1, <2>2 DEF IInv, ExchOK
<1>5. Kept
  <2>1. exch[num[r]].state = "open" /\ exch[n].state = "none"
    BY <1>2
  <2> QED
    BY <1>1, <1>4, <2>1, CellsOf DEF Cells, Kept, OrderKept, IsOver
<1>6. ExchOK'
  <2>1. \A m \in Numbers : exch'[m] \in Cells /\ CellTrue(exch'[m])
    BY <1>1, <1>3, <1>4, CellsOf DEF Cells, Ended, CellTrue, IInv, ExchOK
  <2>2. exch' \in [Numbers -> Cells]
    BY <1>4, <2>1
  <2> QED
    BY <2>1, <2>2 DEF CallModify, IInv, ExchOK, Cells
<1>7. PICK m \in {n, num[r]} : new' = [new EXCEPT ![r] = m]
  BY DEF CallModify
<1>8. /\ new' \in [Requests -> Numbers \cup {None}] /\ new'[r] = m
      /\ qty' \in [Requests -> 0..Shares] /\ qty'[r] = newQty
      /\ \A p \in Requests \ {r} : new'[p] = new[p] /\ qty'[p] = qty[p]
  BY <1>1, <1>2, <1>3, <1>7 DEF IInv, RequestsOK
<1>9. /\ exch'[num[r]].state = "replaced"
      /\ exch'[n].state = "open" /\ exch'[n].left = newQty
  BY <1>1, <1>4, CellsOf DEF Cells
<1>10. /\ m \in Numbers /\ exch'[m].state # "none"
       /\ exch'[m].state = "open" => newQty >= exch'[m].left
  BY <1>1, <1>3, <1>7, <1>9
<1> QED
  BY <1>1, <1>5, <1>6, <1>8, <1>9, <1>10, CalledKeeps DEF CallModify, IsOver

-----------------------------------------------------------------------------
(* What is stored of the broker's answer.                                  *)

\* A request that stores a context and ends.
LEMMA StoreEndKeeps ==
  ASSUME IInv, NEW r \in Requests, NEW a \in Answers \ {"filled", "notfound"},
         pc[r] # "answered", NEW n \in Numbers, NEW c \in Contexts, ContextTrue(exch[n], c),
         storeOrderContext(n, c), End(r, a), GoneTrue',
         UNCHANGED <<world, exch, op, num, meta, qty, new>>
  PROVE  IInv'
<1>1. Kept /\ ExchOK'
  BY KeptSame
<1>2. OrdersOK' /\ \A m \in Numbers : ContextTrue(exch[m], orders'[m])
  BY StoreKeeps
<1>3. new' \in [Requests -> Numbers \cup {None}] /\ qty' \in [Requests -> 0..Shares]
  BY DEF IInv, RequestsOK
<1>4. /\ RequestsOK' /\ \A q \in Requests \ {r} : Rests(q)
      /\ InHand(r)' /\ HandTrue(r)' /\ AnswerTrue(r)'
  BY <1>1, <1>3, EndKeeps
<1> QED
  BY <1>1, <1>2, <1>4, StepKeeps

\* A request that stores a context and goes on to its second number.
LEMMA StoreMoveKeeps ==
  ASSUME IInv, NEW r \in Requests, pc[r] = "store", op[r] \in {"cancel", "modify"},
         op[r] = "cancel" => new[r] \in Numbers,
         NEW n \in Numbers, NEW c \in Contexts, ContextTrue(exch[n], c),
         storeOrderContext(n, c), Goto(r, "alias"),
         UNCHANGED <<world, exch, gone, op, num, meta, qty, new, answer>>
  PROVE  IInv'
<1>1. Kept /\ ExchOK' /\ GoneTrue'
  BY KeptSame, GoneKept
<1>2. OrdersOK' /\ \A m \in Numbers : ContextTrue(exch[m], orders'[m])
  BY StoreKeeps
<1>3. pc'[r] = "alias" /\ answer[r] = "none" /\ IsOver(exch[num[r]])
  BY RequestKnown DEF Goto, IInv, RequestsOK, HandTrue
<1>4. RequestsOK' /\ \A q \in Requests \ {r} : Rests(q)
  BY DEF Goto, IInv, RequestsOK, Rests
<1>5. InHand(r)'
  BY <1>3, RequestKnown DEF InHand
<1>6. op[r] = "cancel" /\ new[r] # None => IsOver(exch[new[r]])
  BY DEF IInv, HandTrue
<1>7. HandTrue(r)' /\ AnswerTrue(r)'
  BY <1>3, <1>6, RequestKnown DEF HandTrue, AnswerTrue
<1> QED
  BY <1>1, <1>2, <1>4, <1>5, <1>7, StepKeeps

\* The context of a placed or modified order.
LEMMA PendingTrue ==
  ASSUME IInv, NEW r \in Requests, NEW n \in Numbers, exch[n].state # "none",
         exch[n].state = "open" => qty[r] >= exch[n].left
  PROVE  Pending(qty[r]) \in Contexts /\ ContextTrue(exch[n], Pending(qty[r]))
BY RequestKnown DEF Pending, Contexts, ContextTrue

\* The context of a cancelled order.
LEMMA CancelledTrue ==
  ASSUME IInv, NEW r \in Requests, NEW n \in Numbers, IsOver(exch[n])
  PROVE  Cancelled(r) \in Contexts /\ ContextTrue(exch[n], Cancelled(r))
<1>1. meta[r] \in Contexts
  BY RequestKnown
<1>2. Cancelled(r) = [qty |-> meta[r].qty, left |-> 0, status |-> "cancelled"]
  <2> DEFINE y == [meta[r] EXCEPT !.left = 0]
  <2>1. y = [qty |-> meta[r].qty, left |-> 0, status |-> meta[r].status]
    BY <1>1 DEF Contexts
  <2> HIDE DEF y
  <2>2. [y EXCEPT !.status = "cancelled"] = [qty |-> meta[r].qty, left |-> 0, status |-> "cancelled"]
    BY <2>1
  <2> QED
    BY <2>2 DEF y, Cancelled
<1>3. Cancelled(r) \in Contexts
  BY <1>1, <1>2, KiwoomOrdersAssumption DEF Contexts
<1> QED
  BY <1>3 DEF ContextTrue, IsOver

LEMMA GoneGrows ==
  ASSUME IInv, NEW n \in Numbers, IsOver(exch[n]), UNCHANGED exch, gone' = gone \cup {n}
  PROVE  GoneTrue'
BY DEF IInv, GoneTrue

LEMMA StorePlacedKeeps == ASSUME IInv, NEW r \in Requests, StorePlaced(r) PROVE IInv'
<1>1. /\ pc[r] = "store" /\ op[r] = "place" /\ new[r] \in Numbers
      /\ exch[new[r]].state # "none"
      /\ exch[new[r]].state = "open" => qty[r] >= exch[new[r]].left
  BY DEF StorePlaced, IInv, InHand, HandTrue
<1>2. Pending(qty[r]) \in Contexts /\ ContextTrue(exch[new[r]], Pending(qty[r])) /\ GoneTrue'
  BY <1>1, PendingTrue, KeptSame, GoneKept DEF StorePlaced
<1> QED
  BY <1>1, <1>2, StoreEndKeeps DEF StorePlaced, Answers

LEMMA StoreCancelledKeeps == ASSUME IInv, NEW r \in Requests, StoreCancelled(r) PROVE IInv'
<1>1. /\ pc[r] = "store" /\ op[r] = "cancel" /\ num[r] \in Numbers /\ IsOver(exch[num[r]])
      /\ new[r] \in Numbers \cup {None}
  BY RequestKnown DEF StoreCancelled, IInv, InHand, HandTrue
<1>2. Cancelled(r) \in Contexts /\ ContextTrue(exch[num[r]], Cancelled(r))
  BY <1>1, CancelledTrue
<1>3. CASE new[r] = None
  <2>1. GoneTrue' /\ End(r, "ok")
    BY <1>1, <1>3, GoneGrows DEF StoreCancelled, EndCancelled
  <2> QED
    BY <1>1, <1>2, <2>1, StoreEndKeeps DEF StoreCancelled, Answers
<1>4. CASE new[r] # None
  BY <1>1, <1>2, <1>4, StoreMoveKeeps DEF StoreCancelled
<1> QED
  BY <1>3, <1>4

LEMMA StoreModifiedKeeps == ASSUME IInv, NEW r \in Requests, StoreModified(r) PROVE IInv'
<1>1. /\ pc[r] = "store" /\ op[r] = "modify" /\ new[r] \in Numbers
      /\ exch[new[r]].state # "none"
      /\ exch[new[r]].state = "open" => qty[r] >= exch[new[r]].left
  BY DEF StoreModified, IInv, InHand, HandTrue
<1>2. Pending(qty[r]) \in Contexts /\ ContextTrue(exch[new[r]], Pending(qty[r])) /\ GoneTrue'
  BY <1>1, PendingTrue, KeptSame, GoneKept DEF StoreModified
<1>3. CASE new[r] # num[r]
  BY <1>1, <1>2, <1>3, StoreMoveKeeps DEF StoreModified
<1>4. CASE new[r] = num[r]
  BY <1>1, <1>2, <1>4, StoreEndKeeps DEF StoreModified, Answers
<1> QED
  BY <1>3, <1>4

LEMMA StoreAliasKeeps == ASSUME IInv, NEW r \in Requests, StoreAlias(r) PROVE IInv'
<1>1. pc[r] = "alias" /\ op[r] \in {"cancel", "modify"} /\ num[r] \in Numbers /\ IsOver(exch[num[r]])
  BY DEF StoreAlias, IInv, InHand, HandTrue
<1>2. CASE op[r] = "cancel"
  <2>1. new[r] \in Numbers /\ IsOver(exch[new[r]])
    BY <1>1, <1>2, KiwoomOrdersAssumption DEF IInv, InHand, HandTrue
  <2>2. Cancelled(r) \in Contexts /\ ContextTrue(exch[new[r]], Cancelled(r))
    BY <2>1, CancelledTrue
  <2>3. GoneTrue' /\ storeOrderContext(new[r], Cancelled(r)) /\ End(r, "ok")
    BY <1>1, <1>2, GoneGrows DEF StoreAlias, EndCancelled
  <2> QED
    BY <1>1, <2>1, <2>2, <2>3, StoreEndKeeps DEF StoreAlias, Answers
<1>3. CASE op[r] = "modify"
  <2>1. Pending(qty[r]) \in Contexts /\ ContextTrue(exch[num[r]], Pending(qty[r]))
    BY <1>1, PendingTrue DEF IsOver
  <2>2. GoneTrue' /\ storeOrderContext(num[r], Pending(qty[r])) /\ End(r, "ok")
    BY <1>3, KeptSame, GoneKept DEF StoreAlias
  <2> QED
    BY <1>1, <2>1, <2>2, StoreEndKeeps DEF StoreAlias, Answers
<1> QED
  BY <1>1, <1>2, <1>3

-----------------------------------------------------------------------------
(* GetOrder.                                                               *)

LEMMA ReadContextKeeps == ASSUME IInv, NEW r \in Requests, ReadContext(r) PROVE IInv'
<1>1. pc[r] = "context" /\ op[r] = "get" /\ num[r] \in Numbers
  BY DEF ReadContext, IInv, InHand
<1>2. orders[num[r]] \in Contexts /\ ContextTrue(exch[num[r]], orders[num[r]])
  BY <1>1 DEF IInv, OrdersOK, ContextsTrue
<1> QED
  BY <1>1, <1>2, QuietMoveKeeps DEF ReadContext

\* A request that looks further with the context it has.
LEMMA SameContextKeeps ==
  ASSUME IInv, NEW r \in Requests, NEW l \in {"again", "fills"}, op[r] = "get",
         pc[r] # "answered", Goto(r, l),
         world.lists = "whole" => IsOver(exch[num[r]]),
         UNCHANGED <<world, exch, orders, gone, op, num, meta, qty, new, answer>>
  PROVE  IInv'
<1>1. meta[r] \in Contexts /\ ContextTrue(exch[num[r]], meta[r])
  BY RequestKnown
<1>2. meta' = [meta EXCEPT ![r] = meta[r]]
  BY DEF IInv, RequestsOK
<1> QED
  BY <1>1, <1>2, QuietMoveKeeps

LEMMA UnsettledKeeps == ASSUME IInv, NEW r \in Requests, Unsettled(r) PROVE IInv'
<1>1. pc[r] = "unsettled" /\ op[r] = "get" /\ num[r] \in Numbers
  BY DEF Unsettled, IInv, InHand
<1>2. PICK listed \in Pages :
        IF num[r] \in listed
          THEN meta' = [meta EXCEPT ![r] = Row(num[r])] /\ Goto(r, "record")
          ELSE Goto(r, "again") /\ UNCHANGED meta
  BY DEF Unsettled
<1>3. CASE num[r] \in listed
  <2>1. Row(num[r]) \in Contexts /\ Row(num[r]) # NoContext /\ ContextTrue(exch[num[r]], Row(num[r]))
    BY <1>1, <1>3, PagesAre, RowTrue
  <2> QED
    BY <1>1, <1>2, <1>3, <2>1, QuietMoveKeeps DEF Unsettled
<1>4. CASE num[r] \notin listed
  <2>1. world.lists = "whole" => IsOver(exch[num[r]])
    BY <1>1, <1>4, PagesAre, RequestKnown DEF Open, IsOver
  <2> QED
    BY <1>1, <1>2, <1>4, <2>1, SameContextKeeps DEF Unsettled
<1> QED
  BY <1>3, <1>4

LEMMA UnsettledFailsKeeps == ASSUME IInv, NEW r \in Requests, UnsettledFails(r) PROVE IInv'
BY SameContextKeeps DEF UnsettledFails, IInv, InHand

LEMMA RecordKeeps == ASSUME IInv, NEW r \in Requests, Record(r) PROVE IInv'
<1>1. /\ pc[r] = "record" /\ num[r] \in Numbers
      /\ meta[r] \in Contexts /\ ContextTrue(exch[num[r]], meta[r])
  BY RequestKnown DEF Record, IInv, InHand
<1>2. GoneTrue'
  BY KeptSame, GoneKept DEF Record
<1> QED
  BY <1>1, <1>2, StoreEndKeeps DEF Record, Answers

LEMMA ReadAgainKeeps == ASSUME IInv, NEW r \in Requests, ReadAgain(r) PROVE IInv'
BY SameContextKeeps DEF ReadAgain, IInv, InHand, AnswerTrue

\* What the context says has to do.
LEMMA RememberedKeeps ==
  ASSUME IInv, NEW r \in Requests, pc[r] = "fills", Remembered(r),
         UNCHANGED <<world, exch, orders, gone, op, num, meta, new>>
  PROVE  IInv'
<1> DEFINE a == IF meta[r] = NoContext THEN "notfound" ELSE meta[r].status
<1>1. op[r] = "get" /\ meta[r] \in Contexts
  BY RequestKnown DEF IInv, InHand
<1>2. a \in {"none", "pending", "cancelled", "notfound"}
  BY <1>1 DEF Contexts
<1>3. End(r, a) /\ qty' \in [Requests -> 0..Shares] /\ \A q \in Requests : qty'[q] = qty[q]
  BY DEF Remembered, IInv, RequestsOK
<1>4. world.lists = "whole" => IsOver(exch[num[r]])
  BY DEF IInv, AnswerTrue
<1> HIDE DEF a
<1> QED
  BY <1>1, <1>2, <1>3, <1>4, QuietEndKeeps DEF Answers

LEMMA FillsKeeps == ASSUME IInv, NEW r \in Requests, Fills(r) PROVE IInv'
<1>1. pc[r] = "fills" /\ op[r] = "get" /\ num[r] \in Numbers
  BY DEF Fills, IInv, InHand
<1>2. PICK executed \in IF world.lists = "short" THEN 0..exch[num[r]].done ELSE {exch[num[r]].done} :
        IF executed > 0
          THEN End(r, "filled") /\ qty' = [qty EXCEPT ![r] = executed]
          ELSE Remembered(r)
  BY DEF Fills
<1>3. CASE Remembered(r)
  BY <1>1, <1>3, RememberedKeeps DEF Fills
<1>4. CASE End(r, "filled") /\ qty' = [qty EXCEPT ![r] = executed]
  <2>1. exch[num[r]].done \in 0..Shares
    BY <1>1, CellsOf DEF Cells
  <2>2. executed \in 0..Shares /\ (world.lists = "whole" => executed = exch[num[r]].done)
    BY <1>2, <2>1, KiwoomOrdersAssumption
  <2>3. /\ qty' \in [Requests -> 0..Shares] /\ qty'[r] = executed
        /\ \A q \in Requests \ {r} : qty'[q] = qty[q]
    BY <1>4, <2>2 DEF IInv, RequestsOK
  <2>4. world.lists = "whole" => IsOver(exch[num[r]])
    BY <1>1 DEF IInv, AnswerTrue
  <2> QED
    BY <1>1, <1>4, <2>2, <2>3, <2>4, QuietEndKeeps DEF Fills, Answers
<1> QED
  BY <1>2, <1>3, <1>4

LEMMA FillsFailKeeps == ASSUME IInv, NEW r \in Requests, FillsFail(r) PROVE IInv'
BY RememberedKeeps DEF FillsFail

-----------------------------------------------------------------------------
(* The other steps, and all of them.                                       *)

LEMMA ReturnKeeps == ASSUME IInv, NEW r \in Requests, Return(r) PROVE IInv'
<1>1. RequestsOK' /\ \A q \in Requests \ {r} : Rests(q)
  BY KiwoomOrdersAssumption DEF Return, Goto, IInv, RequestsOK, Rests, Contexts, NoContext
<1>2. pc'[r] = "idle" /\ op'[r] = "none" /\ meta'[r] = NoContext /\ answer'[r] = "none"
  BY DEF Return, Goto, IInv, RequestsOK
<1>3. InHand(r)' /\ HandTrue(r)' /\ AnswerTrue(r)'
  BY <1>2 DEF InHand, HandTrue, AnswerTrue
<1> QED
  BY <1>1, <1>3, QuietStepKeeps DEF Return

\* Nothing but the exchange moves.
LEMMA ExchangeKeeps ==
  ASSUME IInv, world' = world, Kept, ExchOK', UNCHANGED <<orders, gone, request>>
  PROVE  IInv'
<1>1. ContextsTrue' /\ OrdersOK' /\ GoneTrue'
  BY OrdersSame, ContextsKept, GoneKept DEF OrdersOK
<1>2. \A q \in Requests : InHand(q)' /\ HandTrue(q)' /\ AnswerTrue(q)'
  BY RestsKeeps DEF request, Rests
<1>3. RequestsOK'
  BY DEF request, IInv, RequestsOK
<1> QED
  BY <1>1, <1>2, <1>3 DEF IInv

LEMMA ExecuteKeeps == ASSUME IInv, NEW n \in Numbers, Execute(n) PROVE IInv'
<1>1. /\ exch[n].state = "open" /\ exch[n] \in Cells /\ exch[n].left > 0
      /\ exch[n].left + exch[n].done <= Shares
  BY CellsOf DEF Execute, IInv, ExchOK, CellTrue
<1>2. exch' = [exch EXCEPT ![n] = [state |-> IF exch[n].left = 1 THEN "filled" ELSE "open",
                                   left |-> exch[n].left - 1, done |-> exch[n].done + 1]]
  BY DEF Execute, IInv, ExchOK
<1>3. exch'[n] \in Cells /\ CellTrue(exch'[n]) /\ OrderKept(exch[n], exch'[n])
  <2>1. exch'[n] = [state |-> IF exch[n].left = 1 THEN "filled" ELSE "open",
                    left |-> exch[n].left - 1, done |-> exch[n].done + 1]
    BY <1>2 DEF IInv, ExchOK
  <2> QED
    BY <1>1, <2>1, KiwoomOrdersAssumption DEF Cells, Ended, CellTrue, OrderKept, IsOver
<1>4. \A m \in Numbers \ {n} : exch'[m] = exch[m]
  BY <1>2 DEF IInv, ExchOK
<1>5. Kept
  BY <1>3, <1>4 DEF Kept, OrderKept, IInv, ExchOK
<1>6. ExchOK'
  BY <1>2, <1>3, <1>4 DEF Execute, IInv, ExchOK, Cells
<1> QED
  BY <1>5, <1>6, ExchangeKeeps DEF Execute

LEMMA WithdrawKeeps ==
  ASSUME IInv, NEW n \in Numbers, NEW s \in {"cancelled", "rejected"}, Withdraw(n, s)
  PROVE  IInv'
<1>1. exch[n].state = "open" /\ exch[n] \in Cells
  BY CellsOf DEF Withdraw
<1>2. exch' = [exch EXCEPT ![n] = [state |-> s, left |-> 0, done |-> exch[n].done]]
  <2>1. [exch[n] EXCEPT !.state = s, !.left = 0] = [state |-> s, left |-> 0, done |-> exch[n].done]
    BY <1>1, TwoFields
  <2>2. exch' = [exch EXCEPT ![n] = [exch[n] EXCEPT !.state = s, !.left = 0]]
    BY DEF Withdraw, IInv, ExchOK
  <2> QED
    BY <2>1, <2>2
<1>3. exch'[n] \in Cells /\ CellTrue(exch'[n]) /\ OrderKept(exch[n], exch'[n])
  <2>1. exch'[n] = [state |-> s, left |-> 0, done |-> exch[n].done]
    BY <1>2 DEF IInv, ExchOK
  <2> QED
    BY <1>1, <2>1, KiwoomOrdersAssumption DEF Cells, Ended, CellTrue, OrderKept, IsOver
<1>4. \A m \in Numbers \ {n} : exch'[m] = exch[m]
  BY <1>2 DEF IInv, ExchOK
<1>5. Kept
  BY <1>3, <1>4 DEF Kept, OrderKept, IInv, ExchOK
<1>6. ExchOK'
  <2>1. world' = world
    BY DEF Withdraw
  <2> QED
    BY <1>2, <1>3, <1>4, <2>1 DEF IInv, ExchOK, Cells
<1> QED
  BY <1>5, <1>6, ExchangeKeeps DEF Withdraw

LEMMA StutterKeeps == ASSUME IInv, UNCHANGED ordersVars PROVE IInv'
BY KeptSame, ExchangeKeeps DEF ordersVars

LEMMA IInvNext == ASSUME IInv, [OrdersNext]_ordersVars PROVE IInv'
<1>1. ASSUME NEW r \in Requests, OrdersStep(r)
      PROVE  IInv'
  BY <1>1, ResolveKeeps, ListKeeps, ListFailsKeeps, KeepKeeps, CallFailsKeeps, CallPlaceKeeps,
     CallCancelKeeps, CallModifyKeeps, StorePlacedKeeps, StoreCancelledKeeps, StoreModifiedKeeps,
     StoreAliasKeeps, ReadContextKeeps, UnsettledKeeps, UnsettledFailsKeeps, RecordKeeps,
     ReadAgainKeeps, FillsKeeps, FillsFailKeeps, ReturnKeeps
     DEF OrdersStep
<1>2. ASSUME NEW r \in Requests,
             BeginPlace(r) \/ \E o \in {"cancel", "modify", "get"}, n \in Numbers : Begin(r, o, n)
      PROVE  IInv'
  BY <1>2, BeginKeeps
<1>3. ASSUME NEW n \in Numbers,
             Execute(n) \/ \E s \in {"cancelled", "rejected"} : Withdraw(n, s)
      PROVE  IInv'
  BY <1>3, ExecuteKeeps, WithdrawKeeps
<1> QED
  BY <1>1, <1>2, <1>3, StutterKeeps DEF OrdersNext

LEMMA IInvAlways == OrdersSpec => []IInv
<1>1. OrdersInit => IInv
  BY IInvInit
<1>2. IInv /\ [OrdersNext]_ordersVars => IInv'
  BY IInvNext
<1> QED
  BY <1>1, <1>2, PTL DEF OrdersSpec

-----------------------------------------------------------------------------
(* The theorems.                                                           *)

\* The variables keep their types, and the adapter never keeps more than Limit
\* contexts: storeOrderContext compacts in the critical section that stores.
THEOREM KiwoomOrdersTypeOK == OrdersSpec => []OrdersTypeOK
<1>1. IInv => OrdersTypeOK
  BY IInvImplies
<1> QED
  BY <1>1, IInvAlways, PTL

\* Once a client was told that its order is cancelled, nothing of it is left: the
\* contexts CancelOrder takes its quantity from never understate what remains.
THEOREM KiwoomOrdersCancelledIsGone == OrdersSpec => []CancelledIsGone
<1>1. IInv => CancelledIsGone
  BY IInvImplies
<1> QED
  BY <1>1, IInvAlways, PTL

\* An order GetOrder answers as filled has ended, with all that was executed.
THEOREM KiwoomOrdersFilledHasEnded == OrdersSpec => []FilledHasEnded
<1>1. IInv => FilledHasEnded
  BY IInvImplies
<1> QED
  BY <1>1, IInvAlways, PTL

\* An open order is found while the broker's lists are whole, whatever was evicted.
THEOREM KiwoomOrdersOpenOrderIsFound == OrdersSpec => []OpenOrderIsFound
<1>1. IInv => OpenOrderIsFound
  BY IInvImplies
<1> QED
  BY <1>1, IInvAlways, PTL

-----------------------------------------------------------------------------
(* Toss: natural numbers and powers.                                       *)

\* Any set of natural numbers has a smallest one, as 0..m have, by inclusion.
LEMMA Smallest ==
  ASSUME NEW S, S \subseteq Nat, S # {}
  PROVE  \E m \in S : \A k \in S : m <= k
<1> DEFINE T == {0..m : m \in S}
<1>1. T \subseteq FiniteSubsetsOf(Nat)
  <2> SUFFICES ASSUME NEW t \in T PROVE t \in FiniteSubsetsOf(Nat) OBVIOUS
  <2>1. PICK m \in S : t = 0..m OBVIOUS
  <2>2. IsFiniteSet(t) /\ t \subseteq Nat BY <2>1, FS_Interval
  <2> QED BY <2>2 DEF FiniteSubsetsOf
<1>2. T # {} OBVIOUS
<1>3. IsWellFoundedOn(StrictSubsetOrdering(Nat), FiniteSubsetsOf(Nat))
  BY FS_StrictSubsetOrderingWellFounded
<1>4. PICK x \in T : \A y \in T : <<y, x>> \notin StrictSubsetOrdering(Nat)
  <2> HIDE DEF T
  <2> QED BY <1>1, <1>2, <1>3, WFMin
<1>5. PICK m \in S : x = 0..m OBVIOUS
<1>6. ASSUME NEW k \in S, k < m PROVE FALSE
  <2>1. 0..k \in T OBVIOUS
  <2>2. 0..k \subseteq Nat /\ 0..m \subseteq Nat /\ 0..k \subseteq 0..m BY <1>6
  <2>3. m \in 0..m /\ m \notin 0..k BY <1>6
  <2>4. <<0..k, 0..m>> \in StrictSubsetOrdering(Nat) BY <2>2, <2>3 DEF StrictSubsetOrdering
  <2> QED BY <2>1, <2>4, <1>4, <1>5
<1> QED BY <1>6

\* Induction over the natural numbers, for what a set can say.
LEMMA Induction ==
  ASSUME NEW S, 0 \in S, \A n \in Nat : n \in S => n + 1 \in S
  PROVE  Nat \subseteq S
<1> DEFINE U == Nat \ S
<1>1. SUFFICES ASSUME U # {} PROVE FALSE OBVIOUS
<1>2. PICK m \in U : \A k \in U : m <= k
  <2>1. U \subseteq Nat OBVIOUS
  <2> HIDE DEF U
  <2> QED BY <1>1, <2>1, Smallest
<1>3. m # 0 /\ m - 1 \in Nat BY <1>2
<1>4. m - 1 \in S BY <1>2, <1>3
<1> QED BY <1>2, <1>3, <1>4

\* The first powers of the base, up to the n-th.
FirstPowers(n, g) == g[0] = 1 /\ \A k \in 1..n : g[k] = Base * g[k - 1]

LEMMA FirstPowersExist == \A n \in Nat : \E g \in [0..n -> Nat] : FirstPowers(n, g)
<1> DEFINE S == {n \in Nat : \E g \in [0..n -> Nat] : FirstPowers(n, g)}
<1>0. Base \in Nat BY TossOrdersAssumption
<1>1. 0 \in S
  <2>1. [k \in 0..0 |-> 1] \in [0..0 -> Nat] OBVIOUS
  <2>2. FirstPowers(0, [k \in 0..0 |-> 1]) BY DEF FirstPowers
  <2> QED BY <2>1, <2>2
<1>2. ASSUME NEW n \in Nat, n \in S PROVE n + 1 \in S
  <2>1. PICK g \in [0..n -> Nat] : FirstPowers(n, g) BY <1>2
  <2> DEFINE h == [k \in 0..(n + 1) |-> IF k = n + 1 THEN Base * g[n] ELSE g[k]]
  <2>2. h \in [0..(n + 1) -> Nat] BY <1>0
  <2>3. FirstPowers(n + 1, h)
    <3>1. h[0] = 1 BY <2>1 DEF FirstPowers
    <3>2. ASSUME NEW k \in 1..(n + 1) PROVE h[k] = Base * h[k - 1]
      <4>1. CASE k = n + 1 BY <4>1
      <4>2. CASE k # n + 1 
        <5>1. k \in 1..n BY <4>2
        <5> QED BY <2>1, <5>1 DEF FirstPowers
      <4> QED BY <4>1, <4>2
    <3> QED BY <3>1, <3>2 DEF FirstPowers
  <2> QED BY <2>2, <2>3
<1>3. Nat \subseteq S
  <2> HIDE DEF S
  <2> QED BY <1>1, <1>2, Induction
<1> QED BY <1>3

LEMMA FirstPowersAgree ==
  ASSUME NEW m \in Nat, NEW n \in Nat, NEW g, NEW h, m <= n, FirstPowers(m, g), FirstPowers(n, h)
  PROVE  g[m] = h[m]
<1> DEFINE S == {k \in Nat : k <= m => g[k] = h[k]}
<1>1. 0 \in S BY DEF FirstPowers
<1>2. ASSUME NEW k \in Nat, k \in S PROVE k + 1 \in S
  <2>1. CASE k + 1 <= m
    <3>1. k + 1 \in 1..m /\ k + 1 \in 1..n /\ (k + 1) - 1 = k BY <2>1
    <3>2. g[k] = h[k] BY <1>2, <2>1
    <3> QED BY <3>1, <3>2 DEF FirstPowers
  <2> QED BY <2>1
<1>3. Nat \subseteq S
  <2> HIDE DEF S
  <2> QED BY <1>1, <1>2, Induction
<1> QED BY <1>3

LEMMA PowerIsDefined == Power = [k \in Nat |-> IF k = 0 THEN 1 ELSE Base * Power[k - 1]]
<1> DEFINE Of(k) == CHOOSE g \in [0..k -> Nat] : FirstPowers(k, g)
           P == [k \in Nat |-> Of(k)[k]]
<1>1. ASSUME NEW k \in Nat PROVE Of(k) \in [0..k -> Nat] /\ FirstPowers(k, Of(k))
  BY FirstPowersExist
<1> HIDE DEF Of
<1>2. ASSUME NEW k \in Nat PROVE P[k] = IF k = 0 THEN 1 ELSE Base * P[k - 1]
  <2>1. CASE k = 0 BY <1>1, <2>1 DEF FirstPowers
  <2>2. CASE k # 0
    <3>1. k - 1 \in Nat /\ k \in 1..k BY <2>2
    <3>2. Of(k)[k] = Base * Of(k)[k - 1] BY <1>1, <3>1 DEF FirstPowers
    <3>3. Of(k - 1)[k - 1] = Of(k)[k - 1]
      <4>1. FirstPowers(k - 1, Of(k - 1)) /\ FirstPowers(k, Of(k)) BY <1>1, <3>1
      <4>2. k - 1 <= k BY <3>1
      <4> QED BY <4>1, <4>2, <3>1, FirstPowersAgree
    <3> QED BY <2>2, <3>1, <3>2, <3>3
  <2> QED BY <2>1, <2>2
<1>3. P = [k \in Nat |-> IF k = 0 THEN 1 ELSE Base * P[k - 1]] BY <1>2
<1> HIDE DEF P
<1> QED BY <1>3 DEF Power

LEMMA PowerIs ==
  /\ Power[0] = 1
  /\ \A k \in Nat : Power[k] \in Nat \ {0} /\ Power[k + 1] = Base * Power[k]
<1>1. \A k \in Nat : Power[k] = IF k = 0 THEN 1 ELSE Base * Power[k - 1] BY PowerIsDefined
<1>2. Power[0] = 1 BY <1>1
<1>3. \A k \in Nat : Power[k + 1] = Base * Power[k]
  <2> TAKE k \in Nat
  <2>1. k + 1 \in Nat /\ k + 1 # 0 /\ (k + 1) - 1 = k OBVIOUS
  <2> QED BY <2>1, <1>1
<1> DEFINE S == {k \in Nat : Power[k] \in Nat \ {0}}
<1>4. 0 \in S BY <1>2
<1>5. ASSUME NEW k \in Nat, k \in S PROVE k + 1 \in S
  <2>1. Base \in Nat \ {0} BY TossOrdersAssumption
  <2>2. Power[k] \in Nat \ {0} BY <1>5
  <2>3. \A a, b \in Nat \ {0} : a * b \in Nat \ {0} OBVIOUS
  <2> QED BY <1>3, <2>1, <2>2, <2>3
<1>6. Nat \subseteq S
  <2> HIDE DEF S
  <2> QED BY <1>4, <1>5, Induction
<1> QED BY <1>2, <1>3, <1>6

LEMMA PowersAdd == \A a, b \in Nat : Power[a + b] = Power[a] * Power[b]
<1> SUFFICES ASSUME NEW a \in Nat PROVE \A b \in Nat : Power[a + b] = Power[a] * Power[b]
  OBVIOUS
<1> DEFINE S == {b \in Nat : Power[a + b] = Power[a] * Power[b]}
<1>1. 0 \in S BY PowerIs
<1>2. ASSUME NEW b \in Nat, b \in S PROVE b + 1 \in S
  <2>1. a + b \in Nat /\ a + (b + 1) = (a + b) + 1 OBVIOUS
  <2>2. Power[a + (b + 1)] = Base * (Power[a] * Power[b]) BY <1>2, <2>1, PowerIs
  <2>3. Power[b + 1] = Base * Power[b] BY PowerIs
  <2>4. Base \in Nat /\ Power[a] \in Nat /\ Power[b] \in Nat BY PowerIs, TossOrdersAssumption
  <2>5. \A x, y, z \in Nat : x * (y * z) = y * (x * z) OBVIOUS
  <2> QED BY <2>2, <2>3, <2>4, <2>5
<1>3. Nat \subseteq S
  <2> HIDE DEF S
  <2> QED BY <1>1, <1>2, Induction
<1> QED BY <1>3

-----------------------------------------------------------------------------
(* Decimal texts.                                                          *)

\* A text that can be read.
IsText(d) == d.n \in Nat /\ d.scale \in 0..MaxScale

LEMMA TextIs ==
  /\ \A d \in Texts \cup {Zero, Blank} : Parses(d) => IsText(d)
  /\ IsText(Zero) /\ Value(Zero) = 0 /\ Parses(Zero)
  /\ \A d : IsText(d) => Parses(d)
<1>1. Numerals \subseteq Nat /\ MaxScale \in Nat BY TossOrdersAssumption
<1>2. \A d \in Texts \cup {Zero, Blank} : Parses(d) => IsText(d)
  <2>1. ASSUME NEW d \in Texts PROVE IsText(d)
    <3>1. d.n \in Numerals /\ d.scale \in 0..MaxScale BY DEF Texts
    <3> QED BY <1>1, <3>1 DEF IsText
  <2>2. IsText(Zero) BY <1>1 DEF IsText, Zero
  <2> QED BY <2>1, <2>2 DEF Parses
<1>3. IsText(Zero) BY <1>1 DEF IsText, Zero
<1>4. \A d : IsText(d) => Parses(d) BY <1>1 DEF IsText, Parses, Blank
<1>5. Value(Zero) = 0
  <2>1. Value(Zero) = 0 * Power[MaxScale - 0] BY DEF Value, At, Zero
  <2>2. Power[MaxScale - 0] \in Nat BY <1>1, PowerIs
  <2> QED BY <2>1, <2>2
<1> QED BY <1>2, <1>3, <1>4, <1>5

\* A text has the same value at any finer scale, in the units of that scale.
LEMMA AtScale ==
  ASSUME NEW d, IsText(d), NEW s \in 0..MaxScale, d.scale <= s
  PROVE  At(d, s) \in Nat /\ Value(d) \in Nat /\ Value(d) = At(d, s) * Power[MaxScale - s]
<1>1. MaxScale \in Nat /\ s - d.scale \in Nat /\ MaxScale - s \in Nat /\ MaxScale - d.scale \in Nat
  BY TossOrdersAssumption DEF IsText
<1>2. Power[MaxScale - d.scale] = Power[s - d.scale] * Power[MaxScale - s]
  <2>1. MaxScale - d.scale = (s - d.scale) + (MaxScale - s) BY <1>1 DEF IsText
  <2> QED BY <1>1, <2>1, PowersAdd
<1> DEFINE p == Power[s - d.scale]  r == Power[MaxScale - s]
<1>3. p \in Nat /\ r \in Nat /\ d.n \in Nat BY <1>1, PowerIs DEF IsText
<1>4. At(d, s) = d.n * p /\ Value(d) = d.n * (p * r) BY <1>2 DEF At, Value
<1> HIDE DEF p, r
<1>5. \A x, y, z \in Nat : x * (y * z) = (x * y) * z /\ x * y \in Nat OBVIOUS
<1>6. At(d, s) \in Nat BY <1>3, <1>4, <1>5
<1>7. Value(d) = At(d, s) * r BY <1>3, <1>4, <1>5
<1>8. Value(d) \in Nat BY <1>3, <1>6, <1>7, <1>5
<1> QED BY <1>6, <1>7, <1>8 DEF r

LEMMA Division ==
  ASSUME NEW n \in Nat, NEW p \in Nat \ {0}
  PROVE  /\ n \div p \in Nat /\ n % p \in Nat /\ n % p < p
         /\ n = (n \div p) * p + (n % p)
OBVIOUS

\* Cutting the zeros at the end of a text leaves its value.
LEMMA TrimmedIs ==
  ASSUME NEW n \in Nat, NEW scale \in 0..MaxScale
  PROVE  /\ IsText(Trimmed(n, scale))
         /\ Value(Trimmed(n, scale)) = n * Power[MaxScale - scale]
<1> DEFINE S == {s \in 0..scale : n % Power[scale - s] = 0}
           short == Min(S)
<1>1. MaxScale \in Nat /\ scale \in Nat BY TossOrdersAssumption
<1>2. scale \in S
  <2>1. Power[scale - scale] = 1 BY <1>1, PowerIs
  <2>2. n % 1 = 0 OBVIOUS
  <2> QED BY <1>1, <2>1, <2>2
<1>3. short \in S
  <2>1. S \subseteq Nat BY <1>1
  <2>2. \E m \in S : \A k \in S : m <= k
    <3> HIDE DEF S
    <3> QED BY <1>2, <2>1, Smallest
  <2> HIDE DEF S
  <2> QED BY <2>2 DEF Min
<1> HIDE DEF short
<1>4. short \in 0..scale /\ n % Power[scale - short] = 0 BY <1>3
<1>5. scale - short \in Nat /\ MaxScale - scale \in Nat /\ short \in 0..MaxScale BY <1>1, <1>4
<1> DEFINE p == Power[scale - short]  r == Power[MaxScale - scale]  q == n \div p
<1>6. p \in Nat \ {0} /\ r \in Nat BY <1>5, PowerIs
<1>7. q \in Nat /\ n = q * p
  <2>1. n % p = 0 BY <1>4
  <2> HIDE DEF p
  <2> QED BY <1>6, <2>1, Division
<1>8. Trimmed(n, scale) = [n |-> q, scale |-> short] BY DEF Trimmed, short
<1>9. Power[MaxScale - short] = p * r
  <2>1. MaxScale - short = (scale - short) + (MaxScale - scale) BY <1>1, <1>5, <1>4
  <2> QED BY <1>5, <2>1, PowersAdd
<1> HIDE DEF p, r, q
<1>10. IsText(Trimmed(n, scale)) BY <1>5, <1>7, <1>8 DEF IsText
<1>11. Value(Trimmed(n, scale)) = q * (p * r) BY <1>8, <1>9 DEF Value, At
<1>12. \A x, y, z \in Nat : x * (y * z) = (x * y) * z OBVIOUS
<1>13. q * (p * r) = n * r BY <1>6, <1>7, <1>12
<1> QED BY <1>10, <1>11, <1>13 DEF r

\* What is said to remain is what is left of the quantity, exactly.
LEMMA RemainingIs ==
  ASSUME NEW q, NEW f, IsText(q), IsText(f)
  PROVE  /\ IsText(remainingQuantity(q, f))
         /\ Value(f) <= Value(q) => Value(f) + Value(remainingQuantity(q, f)) = Value(q)
<1> DEFINE s == Max({q.scale, f.scale})
<1>1. s \in 0..MaxScale /\ q.scale <= s /\ f.scale <= s
  <2>1. q.scale \in 0..MaxScale /\ f.scale \in 0..MaxScale /\ MaxScale \in Nat
    BY TossOrdersAssumption DEF IsText
  <2>2. \E x \in {q.scale, f.scale} : \A y \in {q.scale, f.scale} : x >= y BY <2>1
  <2>3. s \in {q.scale, f.scale} /\ \A y \in {q.scale, f.scale} : s >= y BY <2>2 DEF Max
  <2> HIDE DEF s
  <2> QED BY <2>1, <2>3
<1> HIDE DEF s
<1> DEFINE r == Power[MaxScale - s]  a == At(q, s)  b == At(f, s)
<1>2. a \in Nat /\ b \in Nat /\ Value(q) = a * r /\ Value(f) = b * r BY <1>1, AtScale
<1>3. r \in Nat \ {0}
  <2>1. MaxScale - s \in Nat BY <1>1, TossOrdersAssumption
  <2> QED BY <2>1, PowerIs
<1>4. remainingQuantity(q, f) = IF a <= b THEN Zero ELSE Trimmed(a - b, s)
  BY TextIs DEF remainingQuantity, s
<1>5. CASE a <= b
  <2>1. \A x, y, z \in Nat : x <= y => x * z <= y * z OBVIOUS
  <2> HIDE DEF r, a, b
  <2>2. Value(q) <= Value(f) /\ Value(q) \in Nat /\ Value(f) \in Nat
    <3>1. \A x, z \in Nat : x * z \in Nat OBVIOUS
    <3> QED BY <1>2, <1>3, <1>5, <2>1, <3>1
  <2>3. Value(f) <= Value(q) => Value(f) = Value(q) BY <2>2
  <2>4. remainingQuantity(q, f) = Zero BY <1>4, <1>5
  <2> QED BY <2>2, <2>3, <2>4, TextIs
<1>6. CASE ~ (a <= b)
  <2>1. a - b \in Nat BY <1>2, <1>6
  <2>2. IsText(Trimmed(a - b, s)) /\ Value(Trimmed(a - b, s)) = (a - b) * r
    BY <1>1, <2>1, TrimmedIs
  <2>3. remainingQuantity(q, f) = Trimmed(a - b, s) BY <1>4, <1>6
  <2> HIDE DEF r, a, b
  <2>4. \A x, y, z \in Nat : x - y \in Nat => y * z + (x - y) * z = x * z OBVIOUS
  <2> QED BY <1>2, <1>3, <2>1, <2>2, <2>3, <2>4
<1> QED BY <1>5, <1>6

\* A whole number is what fits of its text, or nothing of it does.
Cut(s) ==
  /\ s.whole \in 0..MaxInt
  /\ IsText(s.text) =>
       \/ s.whole * Power[MaxScale] <= Value(s.text)
            /\ Value(s.text) < (s.whole + 1) * Power[MaxScale]
       \/ s.whole = 0 /\ Value(s.text) > MaxInt * Power[MaxScale]

LEMMA StatedIs ==
  ASSUME NEW d, d = Blank \/ IsText(d)
  PROVE  Cut(Stated(d))
<1>0. MaxInt \in Nat /\ MaxScale \in Nat BY TossOrdersAssumption
<1>1. Stated(d).text = d /\ Stated(d).whole = decimalToInt64(d) BY DEF Stated
<1>2. CASE d = Blank
  <2>1. ~ IsText(d) BY <1>2, TextIs DEF Parses
  <2>2. decimalToInt64(d) = 0 BY <1>2 DEF decimalToInt64, Parses
  <2> QED BY <1>0, <1>1, <2>1, <2>2 DEF Cut
<1>3. CASE IsText(d)
  <2> DEFINE p == Power[d.scale]  r == Power[MaxScale - d.scale]  w == d.n \div p
             m == d.n % p
  <2>1. d.n \in Nat /\ d.scale \in Nat /\ MaxScale - d.scale \in Nat BY <1>0, <1>3 DEF IsText
  <2>2. p \in Nat \ {0} /\ r \in Nat \ {0} BY <2>1, PowerIs
  <2>3. Power[MaxScale] = p * r
    <3>1. MaxScale = d.scale + (MaxScale - d.scale) BY <1>0, <2>1
    <3> QED BY <2>1, <3>1, PowersAdd
  <2>4. w \in Nat /\ m \in Nat /\ m < p /\ d.n = w * p + m BY <2>1, <2>2, Division
  <2>5. Value(d) = d.n * r BY DEF Value, At
  <2>6. Parses(d) BY <1>3, TextIs
  <2>7. decimalToInt64(d) = IF w <= MaxInt THEN w ELSE 0 BY <2>6 DEF decimalToInt64
  <2> HIDE DEF p, r, w, m
  <2>8. w * (p * r) <= d.n * r
    <3>1. \A x, y, z, u \in Nat : x * (y * z) <= (x * y + u) * z OBVIOUS
    <3> QED BY <2>2, <2>4, <3>1
  <2>9. d.n * r < (w + 1) * (p * r)
    <3>1. \A x, y, z, u \in Nat : u < y /\ z # 0 => (x * y + u) * z < ((x + 1) * y) * z
      <4> TAKE x, y, z, u \in Nat
      <4> HAVE u < y /\ z # 0
      <4>1. x * y + u < (x + 1) * y OBVIOUS
      <4>2. x * y \in Nat /\ (x + 1) * y \in Nat OBVIOUS
      <4>3. \A i, j \in Nat : i < j => i * z < j * z OBVIOUS
      <4> QED BY <4>1, <4>2, <4>3
    <3>2. ((w + 1) * p) * r = (w + 1) * (p * r) BY <2>2, <2>4
    <3> QED BY <2>2, <2>4, <3>1, <3>2
  <2>10. CASE w <= MaxInt
    <3>1. Stated(d).whole = w BY <1>1, <2>7, <2>10
    <3> QED BY <1>0, <1>1, <2>3, <2>4, <2>5, <2>8, <2>9, <2>10, <3>1 DEF Cut
  <2>11. CASE ~ (w <= MaxInt)
    <3>1. Stated(d).whole = 0 BY <1>1, <2>7, <2>11
    <3>2. MaxInt * (p * r) < w * (p * r)
      <4>1. p * r \in Nat \ {0} BY <2>2
      <4>2. MaxInt < w BY <1>0, <2>4, <2>11
      <4>3. \A x, y, z \in Nat : x < y /\ z # 0 => x * z < y * z OBVIOUS
      <4> QED BY <1>0, <2>4, <4>1, <4>2, <4>3
    <3>3. Value(d) > MaxInt * Power[MaxScale]
      <4>1. MaxInt * (p * r) \in Nat /\ w * (p * r) \in Nat /\ d.n * r \in Nat
        BY <1>0, <2>1, <2>2, <2>4
      <4> QED BY <2>3, <2>5, <2>8, <3>2, <4>1
    <3> QED BY <1>0, <1>1, <3>1, <3>3 DEF Cut
  <2> QED BY <2>10, <2>11
<1> QED BY <1>2, <1>3

-----------------------------------------------------------------------------
(* The orders of Toss.                                                     *)

\* What Toss may still do to a record: its quantity stays and what it is about, an order
\* stays an order, and all of it stays once it is over.
TossFollows(x, y) ==
  x.state \notin Absent =>
    /\ y.state \notin Absent /\ y.quantity = x.quantity /\ y.about = x.about
    /\ IF x.state \in Ongoing THEN y.state \in Ongoing \cup Over ELSE y = x

\* No more is executed than was ordered, and nothing under the id of a refused request.
RecordOK(x) ==
  /\ x \in Records
  /\ x.filled # Blank
  /\ Parses(x.quantity) => Value(x.filled) <= Value(x.quantity)
  /\ x.state \in Absent \cup Refused => x.filled = Zero

\* An undecided request is about an order, and what replaced an order has done so.
Linked(records, x) ==
  /\ x.state \in {"cancel", "replace"} =>
       x.about \in OrderIds /\ records[x.about].state \in Ongoing \cup Over
  /\ x.state \in Ongoing \cup Over /\ x.about # NoId => records[x.about].state = "REPLACED"

BookOK ==
  /\ tossBook \in [OrderIds -> Records]
  /\ \A o \in OrderIds : RecordOK(tossBook[o]) /\ Linked(tossBook, tossBook[o])

AskedOK ==
  /\ asked.op \in {"none", "get", "fills"} /\ asked.id \in OrderIds \cup {NoId}
  /\ RecordOK(asked.seen)
  /\ asked.op # "none" =>
       /\ asked.id \in OrderIds
       /\ asked.seen.state \notin Absent /\ TossFollows(asked.seen, tossBook[asked.id])

ToldOK ==
  /\ told.id \in OrderIds \cup {NoId}
  /\ told.op \in {"none", "place", "cancel", "modify", "get", "fills", "error"}
  /\ told.status \in {"none", "pending", "filled", "cancelled", "rejected"}
  /\ Cut(told.filled) /\ Cut(told.left)

\* An answer about an order is of what Toss had of it, which it may have changed since.
ToldTrue ==
  told.op = "get" =>
    \E read \in Records :
      /\ told.id \in OrderIds
      /\ read.state \notin Absent /\ TossFollows(read, tossBook[told.id])
      /\ IsText(told.filled.text) /\ IsText(told.left.text)
      /\ told.filled.text = read.filled
      /\ Value(told.filled.text) + Value(told.left.text) = Value(read.quantity)
      /\ told.status = mapOrderStatus(read.state)

TossInv == BookOK /\ AskedOK /\ ToldOK /\ ToldTrue

LEMMA RecordFields ==
  ASSUME NEW x \in Records
  PROVE  /\ x.state \in Ongoing \cup Over \cup Refused \cup Absent
         /\ x.quantity \in Texts \cup {Blank} /\ x.filled \in Texts \cup {Zero, Blank}
         /\ x.about \in OrderIds \cup {NoId}
         /\ x = [state |-> x.state, quantity |-> x.quantity, filled |-> x.filled, about |-> x.about]
BY DEF Records

LEMMA StatesApart ==
  /\ Ongoing \cap (Over \cup Refused \cup Absent) = {} /\ Over \cap (Refused \cup Absent) = {}
  /\ Refused \cap Absent = {} /\ {"cancel", "replace"} \subseteq Absent
BY DEF Ongoing, Over, Refused, Absent

LEMMA UnknownOK == RecordOK(Unknown) /\ Unknown.state \in Absent \ {"cancel", "replace"}
<1>1. Unknown \in Records /\ Unknown.state = "none" BY DEF Unknown, Records, Absent
<1>2. Zero # Blank BY TextIs DEF Parses
<1> QED BY <1>1, <1>2 DEF RecordOK, Unknown, Parses, Absent

\* A record nothing was executed under yet.
LEMMA FreshOK ==
  ASSUME NEW s \in Ongoing \cup Over \cup Refused \cup Absent, NEW q \in Texts \cup {Blank},
         NEW a \in OrderIds \cup {NoId}
  PROVE  RecordOK([state |-> s, quantity |-> q, filled |-> Zero, about |-> a])
<1>1. [state |-> s, quantity |-> q, filled |-> Zero, about |-> a] \in Records
  BY DEF Records
<1>2. Zero # Blank /\ Value(Zero) = 0 BY TextIs DEF Parses
<1>3. Parses(q) => Value(q) \in Nat /\ 0 <= Value(q)
  <2>1. Parses(q) => IsText(q) BY TextIs
  <2>2. ASSUME IsText(q) PROVE Value(q) \in Nat
    <3>1. MaxScale \in 0..MaxScale /\ q.scale <= MaxScale
      BY <2>2, TossOrdersAssumption DEF IsText
    <3> QED BY <2>2, <3>1, AtScale
  <2> QED BY <2>1, <2>2
<1> QED BY <1>1, <1>2, <1>3 DEF RecordOK

LEMMA MapIs ==
  ASSUME NEW s
  PROVE  /\ mapOrderStatus(s) \in {"pending", "filled", "cancelled", "rejected"}
         /\ mapOrderStatus(s) # "pending" => s \in Over \cup Refused
         /\ s \in Refused => mapOrderStatus(s) = "rejected"
BY DEF mapOrderStatus, Over, Refused

LEMMA TellOK ==
  ASSUME NEW tells \in {"none", "place", "cancel", "modify", "get", "fills", "error"},
         NEW id \in OrderIds \cup {NoId},
         NEW status \in {"none", "pending", "filled", "cancelled", "rejected"},
         NEW f, f = Blank \/ IsText(f), NEW l, l = Blank \/ IsText(l),
         Tell(tells, id, status, f, l)
  PROVE  ToldOK'
<1>1. told' = [op |-> tells, id |-> id, status |-> status, filled |-> Stated(f), left |-> Stated(l)]
  BY DEF Tell, Answer
<1>2. Cut(Stated(f)) /\ Cut(Stated(l)) BY StatedIs
<1> DEFINE F == Stated(f)  L == Stated(l)
<1>3. told'.op = tells /\ told'.id = id /\ told'.status = status /\ told'.filled = F /\ told'.left = L
  BY <1>1
<1>4. Cut(told'.filled) /\ Cut(told'.left) BY <1>2, <1>3
<1> QED BY <1>3, <1>4 DEF ToldOK, Cut, IsText, Value, At

LEMMA TossFollowsOn ==
  ASSUME NEW x, NEW y, NEW z, TossFollows(x, y), TossFollows(y, z)
  PROVE  TossFollows(x, z)
BY StatesApart DEF TossFollows

LEMMA TossFollowsSelf == ASSUME NEW x \in Records PROVE TossFollows(x, x)
BY DEF TossFollows

LEMMA LinkedOn ==
  ASSUME TossInv, \A i \in OrderIds : TossFollows(tossBook[i], tossBook'[i]),
         NEW x \in Records, Linked(tossBook, x)
  PROVE  Linked(tossBook', x)
<1>1. x.about # NoId => x.about \in OrderIds BY RecordFields
<1>2. \A i \in OrderIds : tossBook[i].state \in Ongoing \cup Over =>
        tossBook'[i].state \in Ongoing \cup Over
  BY StatesApart DEF TossFollows
<1>3. \A i \in OrderIds : tossBook[i].state = "REPLACED" => tossBook'[i].state = "REPLACED"
  BY DEF TossFollows, Ongoing, Absent
<1> QED BY <1>1, <1>2, <1>3 DEF Linked

\* What is left to show of a step for the book: that every record it changes is in order.
LEMMA BookMoves ==
  ASSUME TossInv, tossBook' \in [OrderIds -> Records],
         \A i \in OrderIds :
           \/ tossBook'[i] = tossBook[i]
           \/ /\ RecordOK(tossBook'[i]) /\ TossFollows(tossBook[i], tossBook'[i])
              /\ Linked(tossBook, tossBook'[i]) \/ Linked(tossBook', tossBook'[i])
  PROVE  /\ BookOK'
         /\ \A i \in OrderIds : TossFollows(tossBook[i], tossBook'[i])
<1>1. \A i \in OrderIds : tossBook[i] \in Records /\ RecordOK(tossBook[i]) /\ Linked(tossBook, tossBook[i])
  BY DEF TossInv, BookOK
<1>2. \A i \in OrderIds : TossFollows(tossBook[i], tossBook'[i]) BY <1>1, TossFollowsSelf
<1>3. ASSUME NEW i \in OrderIds PROVE RecordOK(tossBook'[i]) /\ Linked(tossBook', tossBook'[i])
  <2>1. tossBook'[i] \in Records OBVIOUS
  <2>2. Linked(tossBook, tossBook'[i]) => Linked(tossBook', tossBook'[i]) BY <1>2, <2>1, LinkedOn
  <2> QED BY <1>1, <2>2
<1>4. BookOK' BY <1>3 DEF BookOK, RecordOK, Linked, Value, At, Parses
<1> QED BY <1>2, <1>4

\* Steps of which one record comes.
LEMMA OneMoves ==
  ASSUME TossInv, NEW o \in OrderIds, NEW r, RecordOK(r), TossFollows(tossBook[o], r),
         Linked(tossBook, r), tossBook' = [tossBook EXCEPT ![o] = r]
  PROVE  /\ BookOK'
         /\ \A i \in OrderIds : TossFollows(tossBook[i], tossBook'[i])
<1>1. tossBook \in [OrderIds -> Records] /\ r \in Records BY DEF TossInv, BookOK, RecordOK
<1>2. tossBook' \in [OrderIds -> Records] BY <1>1
<1>3. \A i \in OrderIds : tossBook'[i] = IF i = o THEN r ELSE tossBook[i] BY <1>1
<1> QED BY <1>2, <1>3, BookMoves

\* Steps of which two come: of an order, and of a request about it.
LEMMA TwoMove ==
  ASSUME TossInv, NEW o \in OrderIds, NEW into \in OrderIds, o # into,
         NEW x, RecordOK(x), TossFollows(tossBook[o], x), Linked(tossBook, x),
         NEW y, RecordOK(y), TossFollows(tossBook[into], y),
         Linked([tossBook EXCEPT ![o] = x, ![into] = y], y),
         tossBook' = [tossBook EXCEPT ![o] = x, ![into] = y]
  PROVE  /\ BookOK'
         /\ \A i \in OrderIds : TossFollows(tossBook[i], tossBook'[i])
<1>1. tossBook \in [OrderIds -> Records] /\ x \in Records /\ y \in Records
  BY DEF TossInv, BookOK, RecordOK
<1>2. tossBook' \in [OrderIds -> Records] BY <1>1
<1>3. \A i \in OrderIds :
        tossBook'[i] = IF i = into THEN y ELSE IF i = o THEN x ELSE tossBook[i]
  BY <1>1
<1>4. Linked(tossBook', y) OBVIOUS
<1> QED BY <1>2, <1>3, <1>4, BookMoves

\* Steps that leave the book alone.
LEMMA BookStays ==
  ASSUME TossInv, UNCHANGED tossBook
  PROVE  BookOK' /\ \A i \in OrderIds : TossFollows(tossBook[i], tossBook'[i])
<1>1. tossBook' \in [OrderIds -> Records] BY DEF TossInv, BookOK
<1> QED BY <1>1, BookMoves

LEMMA AskedKept ==
  ASSUME TossInv, \A i \in OrderIds : TossFollows(tossBook[i], tossBook'[i]), UNCHANGED asked
  PROVE  AskedOK'
<1>1. asked.op # "none" => TossFollows(asked.seen, tossBook'[asked.id])
  BY TossFollowsOn DEF TossInv, AskedOK
<1> QED BY <1>1 DEF TossInv, AskedOK, RecordOK, Value, At, Parses

LEMMA ToldKept ==
  ASSUME TossInv, \A i \in OrderIds : TossFollows(tossBook[i], tossBook'[i]), UNCHANGED told
  PROVE  ToldOK' /\ ToldTrue'
<1>1. ToldOK' BY DEF TossInv, ToldOK, Cut, IsText, Value, At
<1>2. ASSUME told.op = "get" PROVE ToldTrue'
  <2>1. PICK read \in Records :
          /\ told.id \in OrderIds
          /\ read.state \notin Absent /\ TossFollows(read, tossBook[told.id])
          /\ IsText(told.filled.text) /\ IsText(told.left.text)
          /\ told.filled.text = read.filled
          /\ Value(told.filled.text) + Value(told.left.text) = Value(read.quantity)
          /\ told.status = mapOrderStatus(read.state)
    BY <1>2 DEF TossInv, ToldTrue
  <2>2. TossFollows(read, tossBook'[told.id]) BY <2>1, TossFollowsOn
  <2> QED BY <2>1, <2>2 DEF ToldTrue, IsText, Value, At
<1>3. told.op # "get" => ToldTrue' BY DEF ToldTrue
<1> QED BY <1>1, <1>2, <1>3

LEMMA OtherToldTrue ==
  ASSUME NEW tells, tells # "get", NEW id, NEW status, NEW f, NEW l, Tell(tells, id, status, f, l)
  PROVE  ToldTrue'
BY DEF Tell, Answer, ToldTrue

LEMMA BlankIs == Blank = Blank \/ IsText(Blank)
OBVIOUS

LEMMA ErrorOK ==
  ASSUME Error
  PROVE  ToldOK' /\ ToldTrue'
<1>1. Tell("error", NoId, "none", Blank, Blank) BY DEF Error
<1>2. ToldOK' BY <1>1, TellOK
<1> QED BY <1>1, <1>2, OtherToldTrue

LEMMA TextOrBlank ==
  ASSUME NEW d \in Texts \cup {Zero, Blank} PROVE d = Blank \/ IsText(d)
BY TextIs DEF Parses

LEMMA GivenIs ==
  ASSUME NEW q \in Texts \cup {Blank}, NEW k \in Given(q) PROVE k \in Texts \cup {Blank}
BY DEF Given

LEMMA TossInit ==
  ASSUME TossOrdersInit PROVE TossInv
<1>1. BookOK
  <2>1. Unknown \in Records BY UnknownOK DEF RecordOK
  <2>2. \A o \in OrderIds : tossBook[o] = Unknown BY DEF TossOrdersInit
  <2>3. Linked(tossBook, Unknown) BY UnknownOK, StatesApart DEF Linked
  <2> QED BY <2>1, <2>2, <2>3, UnknownOK DEF TossOrdersInit, BookOK
<1>2. AskedOK BY UnknownOK DEF TossOrdersInit, AskedOK, Nothing
<1>3. ToldOK
  <2>1. Cut(Stated(Zero)) BY TextIs, StatedIs
  <2>2. told.filled = Stated(Zero) /\ told.left = Stated(Zero) /\ told.op = "none"
          /\ told.id = NoId /\ told.status = "none"
    BY DEF TossOrdersInit, Answer
  <2> QED BY <2>1, <2>2 DEF ToldOK
<1>4. ToldTrue BY DEF TossOrdersInit, Answer, ToldTrue
<1> QED BY <1>1, <1>2, <1>3, <1>4 DEF TossInv

LEMMA TossFailKeeps ==
  ASSUME TossInv, Fails
  PROVE  TossInv'
<1>1. Error /\ UNCHANGED <<tossBook, asked>> BY DEF Fails
<1>2. ToldOK' /\ ToldTrue' BY <1>1, ErrorOK
<1> QED BY <1>1, <1>2, BookStays, AskedKept DEF TossInv

LEMMA TossPlaceKeeps ==
  ASSUME TossInv, NEW o \in OrderIds, NEW q \in Texts \cup {Blank}, PlaceOrder(o, q)
  PROVE  TossInv'
<1>1. tossBook[o].state = "none" /\ UNCHANGED asked
        /\ (Tell("place", o, "pending", Zero, q) \/ Error)
  BY DEF PlaceOrder
<1>2. ASSUME NEW k \in Given(q),
             Become(o, [state |-> "PENDING", quantity |-> k, filled |-> Zero, about |-> NoId])
      PROVE  TossInv'
  <2> DEFINE r == [state |-> "PENDING", quantity |-> k, filled |-> Zero, about |-> NoId]
  <2>2. k \in Texts \cup {Blank} BY GivenIs
  <2>3. RecordOK(r)
    <3>1. "PENDING" \in Ongoing BY DEF Ongoing
    <3> QED BY <2>2, <3>1, FreshOK
  <2>4. TossFollows(tossBook[o], r) BY <1>1 DEF TossFollows, Absent
  <2>5. Linked(tossBook, r) BY DEF Linked
  <2>6. tossBook' = [tossBook EXCEPT ![o] = r] BY <1>2 DEF Become
  <2> HIDE DEF r
  <2>7. BookOK' /\ \A i \in OrderIds : TossFollows(tossBook[i], tossBook'[i])
    BY <2>3, <2>4, <2>5, <2>6, OneMoves
  <2>8. AskedOK' BY <1>1, <2>7, AskedKept
  <2>9. ToldOK' /\ ToldTrue'
    <3>1. CASE Tell("place", o, "pending", Zero, q)
      <4>1. q = Blank \/ IsText(q) BY TextOrBlank
      <4>2. ToldOK' BY <3>1, <4>1, TextIs, TellOK
      <4> QED BY <3>1, <4>2, OtherToldTrue
    <3> QED BY <1>1, <3>1, ErrorOK
  <2> QED BY <2>7, <2>8, <2>9 DEF TossInv
<1> QED BY <1>2 DEF PlaceOrder

LEMMA TossAcceptsKeeps ==
  ASSUME TossInv, NEW o \in OrderIds, NEW into \in OrderIds, NEW q \in Texts \cup {Blank},
         NEW wish \in {"cancel", "replace"}, NEW waits \in {"PENDING_CANCEL", "PENDING_REPLACE"},
         TossAccepts(o, into, wish, waits, q)
  PROVE  /\ BookOK'
         /\ \A i \in OrderIds : TossFollows(tossBook[i], tossBook'[i])
<1> DEFINE x == [tossBook[o] EXCEPT !.state = waits]
           y == [state |-> wish, quantity |-> q, filled |-> Zero, about |-> o]
<1>1. tossBook[o].state \in {"PENDING", "PARTIAL_FILLED"} /\ tossBook[into].state = "none"
        /\ tossBook' = [tossBook EXCEPT ![o].state = waits, ![into] = y]
  BY DEF TossAccepts
<1>2. /\ tossBook \in [OrderIds -> Records] /\ tossBook[o] \in Records
      /\ RecordOK(tossBook[o]) /\ Linked(tossBook, tossBook[o])
  BY DEF TossInv, BookOK
<1>3. o # into BY <1>1
<1>4. tossBook' = [tossBook EXCEPT ![o] = x, ![into] = y] BY <1>1, <1>2, <1>3
<1>5. x.state = waits /\ x.quantity = tossBook[o].quantity /\ x.filled = tossBook[o].filled
        /\ x.about = tossBook[o].about /\ x \in Records
  BY <1>2, RecordFields DEF Records, Ongoing
<1>6. wish \in Absent /\ waits \in Ongoing /\ tossBook[o].state \in Ongoing
        /\ tossBook[into].state \in Absent
  BY <1>1 DEF Absent, Ongoing
<1>7. RecordOK(y) BY <1>6, FreshOK
<1>8. y.state = wish /\ y.about = o OBVIOUS
<1> HIDE DEF x, y
<1>9. RecordOK(x) BY <1>2, <1>5, <1>6, StatesApart DEF RecordOK
<1>10. TossFollows(tossBook[o], x) /\ TossFollows(tossBook[into], y)
  BY <1>5, <1>6 , StatesApart DEF TossFollows
<1>11. Linked(tossBook, x) BY <1>2, <1>5, <1>6, StatesApart DEF Linked
<1>12. Linked([tossBook EXCEPT ![o] = x, ![into] = y], y)
  <2>1. [tossBook EXCEPT ![o] = x, ![into] = y][o] = x BY <1>2, <1>3
  <2> QED BY <1>5, <1>6, <1>8, <2>1, StatesApart DEF Linked
<1> QED BY <1>3, <1>4, <1>7, <1>9, <1>10, <1>11, <1>12, TwoMove

LEMMA TossCancelKeeps ==
  ASSUME TossInv, NEW o \in OrderIds, NEW into \in OrderIds, CancelOrder(o, into)
  PROVE  TossInv'
<1>1. /\ TossAccepts(o, into, "cancel", "PENDING_CANCEL", Blank) /\ UNCHANGED asked
      /\ Tell("cancel", o, "none", Zero, Zero) \/ Error
  BY DEF CancelOrder
<1>2. BookOK' /\ \A i \in OrderIds : TossFollows(tossBook[i], tossBook'[i])
  BY <1>1, TossAcceptsKeeps
<1>3. AskedOK' BY <1>1, <1>2, AskedKept
<1>4. ToldOK' /\ ToldTrue'
  <2>1. CASE Tell("cancel", o, "none", Zero, Zero)
    <3>1. ToldOK' BY <2>1, TextIs, TellOK
    <3> QED BY <2>1, <3>1, OtherToldTrue
  <2> QED BY <1>1, <2>1, ErrorOK
<1> QED BY <1>2, <1>3, <1>4 DEF TossInv

LEMMA TossModifyKeeps ==
  ASSUME TossInv, NEW o \in OrderIds, NEW into \in OrderIds, NEW q \in Texts \cup {Blank},
         ModifyOrder(o, into, q)
  PROVE  TossInv'
<1>1. /\ TossAccepts(o, into, "replace", "PENDING_REPLACE", q) /\ UNCHANGED asked
      /\ (\E named \in {into, o} : Tell("modify", named, "pending", Zero, q)) \/ Error
  BY DEF ModifyOrder
<1>2. BookOK' /\ \A i \in OrderIds : TossFollows(tossBook[i], tossBook'[i])
  BY <1>1, TossAcceptsKeeps
<1>3. AskedOK' BY <1>1, <1>2, AskedKept
<1>4. ToldOK' /\ ToldTrue'
  <2>1. ASSUME NEW named \in {into, o}, Tell("modify", named, "pending", Zero, q)
        PROVE  ToldOK' /\ ToldTrue'
    <3>1. q = Blank \/ IsText(q) BY TextOrBlank
    <3>2. ToldOK' BY <2>1, <3>1, TextIs, TellOK
    <3> QED BY <2>1, <3>2, OtherToldTrue
  <2> QED BY <1>1, <2>1, ErrorOK
<1> QED BY <1>2, <1>3, <1>4 DEF TossInv

LEMMA TossAskKeeps ==
  ASSUME TossInv, NEW way \in {"get", "fills"}, NEW o \in OrderIds, Ask(way, o)
  PROVE  TossInv'
<1>1. /\ tossBook[o].state \notin Absent /\ UNCHANGED <<tossBook, told>>
      /\ asked' = [op |-> way, id |-> o, seen |-> tossBook[o]]
  BY DEF Ask
<1>2. BookOK' /\ \A i \in OrderIds : TossFollows(tossBook[i], tossBook'[i]) BY <1>1, BookStays
<1>3. ToldOK' /\ ToldTrue' BY <1>1, <1>2, ToldKept
<1>4. asked'.op = way /\ asked'.id = o /\ asked'.seen = tossBook[o] BY <1>1
<1>5. RecordOK(asked'.seen) BY <1>4 DEF TossInv, BookOK
<1>6. AskedOK' BY <1>1, <1>2, <1>4, <1>5 DEF AskedOK, RecordOK, Value, At, Parses
<1> QED BY <1>2, <1>3, <1>6 DEF TossInv

LEMMA NothingOK ==
  ASSUME asked' = Nothing PROVE AskedOK'
<1>1. asked'.op = "none" /\ asked'.id = NoId /\ asked'.seen = Unknown BY DEF Nothing
<1>2. RecordOK(asked'.seen) BY <1>1, UnknownOK
<1> QED BY <1>1, <1>2 DEF AskedOK, RecordOK, Value, At, Parses

LEMMA TossGetKeeps ==
  ASSUME TossInv, GetOrder
  PROVE  TossInv'
<1> DEFINE r == asked.seen
<1>1. asked.op = "get" /\ asked' = Nothing /\ UNCHANGED tossBook BY DEF GetOrder
<1>2. /\ asked.id \in OrderIds /\ RecordOK(r) /\ r \in Records
      /\ r.state \notin Absent /\ TossFollows(r, tossBook[asked.id])
  BY <1>1 DEF TossInv, AskedOK, RecordOK
<1>3. BookOK' BY <1>1, BookStays
<1>4. AskedOK' BY <1>1, NothingOK
<1>5. CASE ~ Parses(r.quantity) \/ ~ Parses(r.filled)
  <2>1. Error BY <1>5 DEF GetOrder
  <2>2. ToldOK' /\ ToldTrue' BY <2>1, ErrorOK
  <2> QED BY <1>3, <1>4, <2>2 DEF TossInv
<1>6. CASE Parses(r.quantity) /\ Parses(r.filled)
  <2> DEFINE left == remainingQuantity(r.quantity, r.filled)
             status == mapOrderStatus(r.state)
  <2>1. Tell("get", asked.id, status, r.filled, left) BY <1>6 DEF GetOrder
  <2>2. IsText(r.quantity) /\ IsText(r.filled) BY <1>2, <1>6, RecordFields, TextIs
  <2>3. Value(r.filled) <= Value(r.quantity) BY <1>2, <1>6 DEF RecordOK
  <2>4. IsText(left) /\ Value(r.filled) + Value(left) = Value(r.quantity)
    BY <2>2, <2>3, RemainingIs
  <2>5. status \in {"none", "pending", "filled", "cancelled", "rejected"} BY MapIs
  <2> HIDE DEF left, status
  <2>6. ToldOK' BY <1>2, <2>1, <2>2, <2>4, <2>5, TellOK
  <2>7. told'.op = "get" /\ told'.id = asked.id /\ told'.status = status
          /\ told'.filled.text = r.filled /\ told'.left.text = left
    BY <2>1 DEF Tell, Answer, Stated
  <2>8. ToldTrue'
    <3>1. /\ told'.id \in OrderIds
          /\ r.state \notin Absent /\ TossFollows(r, tossBook'[told'.id])
          /\ IsText(told'.filled.text) /\ IsText(told'.left.text)
          /\ told'.filled.text = r.filled
          /\ Value(told'.filled.text) + Value(told'.left.text) = Value(r.quantity)
          /\ told'.status = mapOrderStatus(r.state)
      BY <1>1, <1>2, <2>2, <2>4, <2>7 DEF status
    <3> HIDE DEF r
    <3> QED BY <1>2, <3>1 DEF ToldTrue, IsText, Value, At
  <2> QED BY <1>3, <1>4, <2>6, <2>8 DEF TossInv
<1> QED BY <1>5, <1>6

LEMMA TossFillsKeeps ==
  ASSUME TossInv, GetOrderFills
  PROVE  TossInv'
<1> DEFINE r == asked.seen
<1>1. asked.op = "fills" /\ asked' = Nothing /\ UNCHANGED tossBook BY DEF GetOrderFills
<1>2. asked.id \in OrderIds /\ r \in Records BY <1>1 DEF TossInv, AskedOK, RecordOK
<1>3. BookOK' BY <1>1, BookStays
<1>4. AskedOK' BY <1>1, NothingOK
<1>5. ToldOK' /\ ToldTrue'
  <2>1. CASE ~ Parses(r.filled)
    <3>1. Error BY <2>1 DEF GetOrderFills
    <3> QED BY <3>1, ErrorOK
  <2>2. CASE Parses(r.filled)
    <3>1. Tell("fills", asked.id, "none", r.filled, Blank) BY <2>2 DEF GetOrderFills
    <3>2. IsText(r.filled) BY <1>2, <2>2, RecordFields, TextIs
    <3> HIDE DEF r
    <3>3. ToldOK' BY <1>2, <3>1, <3>2, TellOK
    <3> QED BY <3>1, <3>3, OtherToldTrue
  <2> QED BY <2>1, <2>2
<1> QED BY <1>3, <1>4, <1>5 DEF TossInv

LEMMA TossExecutesKeeps ==
  ASSUME TossInv, NEW o \in OrderIds, TossExecutes(o)
  PROVE  TossInv'
<1> DEFINE r == tossBook[o]
<1>1. r.state \in Ongoing /\ Parses(r.quantity) /\ UNCHANGED <<asked, told>> BY DEF TossExecutes
<1>2. r \in Records /\ RecordOK(r) /\ Linked(tossBook, r) BY DEF TossInv, BookOK
<1>3. PICK f \in Texts :
        /\ Value(f) <= Value(r.quantity)
        /\ Become(o, [r EXCEPT !.filled = f,
                               !.state = IF Value(f) = Value(r.quantity) THEN "FILLED"
                                         ELSE IF @ = "PENDING" THEN "PARTIAL_FILLED" ELSE @])
  BY DEF TossExecutes
<1> DEFINE s == IF Value(f) = Value(r.quantity) THEN "FILLED"
                ELSE IF r.state = "PENDING" THEN "PARTIAL_FILLED" ELSE r.state
           n == [r EXCEPT !.filled = f, !.state = s]
<1>4. tossBook' = [tossBook EXCEPT ![o] = n] BY <1>3 DEF Become
<1>5. s \in Ongoing \cup Over BY <1>1 DEF Ongoing, Over
<1> HIDE DEF s
<1>6. n.quantity = r.quantity /\ n.filled = f /\ n.state = s /\ n.about = r.about /\ n \in Records
  BY <1>2, <1>5, RecordFields DEF Records
<1> HIDE DEF n
<1>7. f # Blank
  <2>1. f.scale \in 0..MaxScale BY DEF Texts
  <2> QED BY <2>1, TossOrdersAssumption DEF Blank
<1>8. RecordOK(n) BY <1>3, <1>5, <1>6, <1>7, StatesApart DEF RecordOK
<1>9. TossFollows(r, n) BY <1>1, <1>5, <1>6, StatesApart DEF TossFollows
<1>10. Linked(tossBook, n) BY <1>1, <1>2, <1>5, <1>6, StatesApart DEF Linked
<1> HIDE DEF r
<1>11. BookOK' /\ \A i \in OrderIds : TossFollows(tossBook[i], tossBook'[i])
  BY <1>4, <1>8, <1>9, <1>10, OneMoves DEF r
<1> QED BY <1>1, <1>11, AskedKept, ToldKept DEF TossInv

LEMMA TossEndsKeeps ==
  ASSUME TossInv, NEW o \in OrderIds, TossEnds(o)
  PROVE  TossInv'
<1> DEFINE r == tossBook[o]
<1>1. r \in Records /\ RecordOK(r) /\ Linked(tossBook, r) BY DEF TossInv, BookOK
<1>2. PICK s \in {"CANCELED", "REJECTED"} : r.state \in Ongoing /\ Become(o, [r EXCEPT !.state = s])
  BY DEF TossEnds
<1>3. UNCHANGED <<asked, told>> BY DEF TossEnds
<1> DEFINE n == [r EXCEPT !.state = s]
<1>4. tossBook' = [tossBook EXCEPT ![o] = n] BY <1>2 DEF Become
<1>5. s \in Over BY DEF Over
<1>6. n.quantity = r.quantity /\ n.filled = r.filled /\ n.state = s /\ n.about = r.about /\ n \in Records
  BY <1>1, <1>5, RecordFields DEF Records
<1> HIDE DEF n
<1>7. RecordOK(n) BY <1>1, <1>5, <1>6, StatesApart DEF RecordOK
<1>8. TossFollows(r, n) BY <1>2, <1>5, <1>6, StatesApart DEF TossFollows
<1>9. Linked(tossBook, n) BY <1>1, <1>2, <1>5, <1>6, StatesApart DEF Linked
<1> HIDE DEF r
<1>10. BookOK' /\ \A i \in OrderIds : TossFollows(tossBook[i], tossBook'[i])
  BY <1>4, <1>7, <1>8, <1>9, OneMoves DEF r
<1> QED BY <1>3, <1>10, AskedKept, ToldKept DEF TossInv

LEMMA RequestIs ==
  ASSUME TossInv, NEW into \in OrderIds, tossBook[into].state \in {"cancel", "replace"}
  PROVE  /\ tossBook \in [OrderIds -> Records]
         /\ tossBook[into] \in Records /\ RecordOK(tossBook[into])
         /\ tossBook[into].about \in OrderIds /\ tossBook[into].about # into
         /\ tossBook[tossBook[into].about] \in Records
         /\ tossBook[tossBook[into].about].state \in Ongoing \cup Over
<1>1. tossBook \in [OrderIds -> Records] /\ RecordOK(tossBook[into])
      /\ Linked(tossBook, tossBook[into])
  BY DEF TossInv, BookOK
<1>2. tossBook[into].about \in OrderIds
        /\ tossBook[tossBook[into].about].state \in Ongoing \cup Over
  BY <1>1 DEF Linked
<1> QED BY <1>1, <1>2, StatesApart

\* What a decision makes of an order and of a request about it.
LEMMA DecisionKeeps ==
  ASSUME TossInv, NEW into \in OrderIds, tossBook[into].state \in {"cancel", "replace"},
         NEW o, o = tossBook[into].about,
         NEW t \in Ongoing \cup Over, tossBook[o].state \in Over => t = tossBook[o].state,
         NEW u \in {"granted", "PENDING"} \cup Refused, u = "PENDING" => t = "REPLACED",
         NEW q \in Texts \cup {Blank},
         NEW x, x = [tossBook[o] EXCEPT !.state = t],
         NEW y, y = [tossBook[into] EXCEPT !.state = u, !.quantity = q],
         tossBook' = [tossBook EXCEPT ![o] = x, ![into] = y],
         UNCHANGED <<asked, told>>
  PROVE  TossInv'
<1>1. /\ tossBook[into] \in Records /\ RecordOK(tossBook[into])
      /\ o \in OrderIds /\ o # into /\ tossBook[o] \in Records
      /\ tossBook[o].state \in Ongoing \cup Over /\ tossBook \in [OrderIds -> Records]
  BY RequestIs
<1>2. RecordOK(tossBook[o]) /\ Linked(tossBook, tossBook[o])
  BY <1>1 DEF TossInv, BookOK
<1>3. tossBook[into].state \in Absent /\ tossBook[into].filled = Zero
  BY <1>1, StatesApart DEF RecordOK
<1>4. x.state = t /\ x.quantity = tossBook[o].quantity /\ x.filled = tossBook[o].filled
        /\ x.about = tossBook[o].about /\ x \in Records
  BY <1>1 DEF Records
<1>5. tossBook[o].state \in Over => x = tossBook[o] BY <1>1, <1>4, RecordFields
<1>6. u \in Ongoing \cup Over \cup Refused \cup Absent /\ u \notin {"cancel", "replace"}
        /\ (u \in Ongoing \cup Over => u = "PENDING")
  BY DEF Ongoing, Over, Absent, Refused
<1>7. y.state = u /\ y.quantity = q /\ y.filled = Zero /\ y.about = o /\ y \in Records
  BY <1>1, <1>3, <1>6 DEF Records
<1>8. RecordOK(y)
  <2>1. y = [state |-> u, quantity |-> q, filled |-> Zero, about |-> o] BY <1>7, RecordFields
  <2>2. o \in OrderIds \cup {NoId} /\ u \in Ongoing \cup Over \cup Refused \cup Absent
    BY <1>1, <1>6
  <2>3. RecordOK([state |-> u, quantity |-> q, filled |-> Zero, about |-> o]) BY <2>2, FreshOK
  <2> QED BY <2>1, <2>3
<1>9. RecordOK(x) BY <1>1, <1>2, <1>4, StatesApart DEF RecordOK
<1>10. TossFollows(tossBook[o], x) BY <1>1, <1>4, <1>5, StatesApart DEF TossFollows
<1>11. TossFollows(tossBook[into], y) BY <1>3 DEF TossFollows
<1>12. Linked(tossBook, x) BY <1>1, <1>2, <1>4, <1>5, StatesApart DEF Linked
<1>13. Linked([tossBook EXCEPT ![o] = x, ![into] = y], y)
  <2>1. [tossBook EXCEPT ![o] = x, ![into] = y][o] = x BY <1>1
  <2> QED BY <1>1, <1>4, <1>6, <1>7, <2>1 DEF Linked
<1>14. BookOK' /\ \A i \in OrderIds : TossFollows(tossBook[i], tossBook'[i])
  BY <1>1, <1>8, <1>9, <1>10, <1>11, <1>12, <1>13, TwoMove
<1> QED BY <1>14, AskedKept, ToldKept DEF TossInv

LEMMA TossGrantsKeeps ==
  ASSUME TossInv, NEW into \in OrderIds, TossGrants(into)
  PROVE  TossInv'
<1> DEFINE r == tossBook[into]
           o == r.about
<1>1. r.state \in {"cancel", "replace"} /\ UNCHANGED <<asked, told>> BY DEF TossGrants
<1>2. /\ r \in Records /\ r.quantity \in Texts \cup {Blank} /\ tossBook \in [OrderIds -> Records]
      /\ o \in OrderIds /\ o # into
  BY <1>1, RequestIs, RecordFields
<1>3. CASE /\ r.state = "cancel" /\ tossBook[o].state = "PENDING_CANCEL"
           /\ tossBook' = [tossBook EXCEPT ![o].state = "CANCELED", ![into].state = "granted"]
  <2> DEFINE x == [tossBook[o] EXCEPT !.state = "CANCELED"]
             y == [r EXCEPT !.state = "granted", !.quantity = r.quantity]
  <2>1. y = [r EXCEPT !.state = "granted"] BY <1>2 DEF Records
  <2>2. tossBook' = [tossBook EXCEPT ![o] = x, ![into] = y] BY <1>2, <1>3, <2>1
  <2>3. "CANCELED" \in Over /\ tossBook[o].state \notin Over BY <1>3 DEF Over
  <2> HIDE DEF x, y
  <2> QED BY <1>1, <1>2, <2>2, <2>3, DecisionKeeps DEF x, y
<1>4. ASSUME NEW k \in Given(r.quantity), r.state = "replace", tossBook[o].state = "PENDING_REPLACE",
             tossBook' = [tossBook EXCEPT ![o].state = "REPLACED",
                                          ![into] = [r EXCEPT !.state = "PENDING", !.quantity = k]]
      PROVE  TossInv'
  <2> DEFINE x == [tossBook[o] EXCEPT !.state = "REPLACED"]
             y == [r EXCEPT !.state = "PENDING", !.quantity = k]
  <2>1. tossBook' = [tossBook EXCEPT ![o] = x, ![into] = y] BY <1>2, <1>4
  <2>2. "REPLACED" \in Over /\ tossBook[o].state \notin Over BY <1>4 DEF Over
  <2>3. k \in Texts \cup {Blank} BY <1>2, GivenIs
  <2> HIDE DEF x, y
  <2> QED BY <1>1, <1>2, <2>1, <2>2, <2>3, DecisionKeeps DEF x, y
<1> QED BY <1>3, <1>4 DEF TossGrants

LEMMA TossRefusesKeeps ==
  ASSUME TossInv, NEW into \in OrderIds, TossRefuses(into)
  PROVE  TossInv'
<1> DEFINE r == tossBook[into]
           o == r.about
           t == Former(tossBook[o])
           u == IF r.state = "cancel" THEN "CANCEL_REJECTED" ELSE "REPLACE_REJECTED"
<1>1. r.state \in {"cancel", "replace"} /\ UNCHANGED <<asked, told>> BY DEF TossRefuses
<1>2. /\ r.quantity \in Texts \cup {Blank} /\ tossBook \in [OrderIds -> Records]
      /\ o \in OrderIds /\ o # into
  BY <1>1, RequestIs, RecordFields
<1>3. PICK k \in Given(r.quantity) :
        tossBook' = [tossBook EXCEPT ![o].state = t,
                                     ![into] = [r EXCEPT !.state = u, !.quantity = k]]
  BY DEF TossRefuses
<1>4. t \in Ongoing \cup Over /\ (tossBook[o].state \in Over => t = tossBook[o].state)
  BY DEF Former, Ongoing
<1>5. u \in Refused BY DEF Refused
<1>6. u # "PENDING" OBVIOUS
<1>7. k \in Texts \cup {Blank} BY <1>2, GivenIs
<1> HIDE DEF t, u
<1> DEFINE x == [tossBook[o] EXCEPT !.state = t]
           y == [r EXCEPT !.state = u, !.quantity = k]
<1>8. tossBook' = [tossBook EXCEPT ![o] = x, ![into] = y] BY <1>2, <1>3
<1> HIDE DEF x, y
<1> QED BY <1>1, <1>4, <1>5, <1>6, <1>7, <1>8, DecisionKeeps DEF x, y

LEMMA TossStep ==
  ASSUME TossInv, TossOrdersNext \/ UNCHANGED tossOrderVars
  PROVE  TossInv'
<1>1. CASE UNCHANGED tossOrderVars
  BY <1>1, BookStays, AskedKept, ToldKept DEF tossOrderVars, TossInv
<1>2. CASE TossOrdersNext
  <2>1. ASSUME NEW o \in OrderIds, NEW q \in Texts \cup {Blank}, PlaceOrder(o, q) PROVE TossInv'
    BY <2>1, TossPlaceKeeps
  <2>2. ASSUME NEW o \in OrderIds, NEW q \in Texts \cup {Blank}, NEW into \in OrderIds,
               ModifyOrder(o, into, q)
        PROVE  TossInv'
    BY <2>2, TossModifyKeeps
  <2>3. ASSUME NEW o \in OrderIds, NEW into \in OrderIds, CancelOrder(o, into) PROVE TossInv'
    BY <2>3, TossCancelKeeps
  <2>4. ASSUME NEW o \in OrderIds, NEW way \in {"get", "fills"}, Ask(way, o) PROVE TossInv'
    BY <2>4, TossAskKeeps
  <2>5. ASSUME NEW o \in OrderIds, TossExecutes(o) PROVE TossInv' BY <2>5, TossExecutesKeeps
  <2>6. ASSUME NEW o \in OrderIds, TossEnds(o) PROVE TossInv' BY <2>6, TossEndsKeeps
  <2>7. ASSUME NEW o \in OrderIds, TossGrants(o) PROVE TossInv' BY <2>7, TossGrantsKeeps
  <2>8. ASSUME NEW o \in OrderIds, TossRefuses(o) PROVE TossInv' BY <2>8, TossRefusesKeeps
  <2> QED
    BY <1>2, <2>1, <2>2, <2>3, <2>4, <2>5, <2>6, <2>7, <2>8, TossGetKeeps, TossFillsKeeps,
       TossFailKeeps
    DEF TossOrdersNext
<1> QED BY <1>1, <1>2

LEMMA TossTypes ==
  ASSUME TossInv PROVE TossOrdersTypeOK
<1>1. asked.seen \in Records /\ tossBook \in [OrderIds -> Records]
  BY DEF TossInv, AskedOK, BookOK, RecordOK
<1>2. {told.filled.whole, told.left.whole} \subseteq 0..MaxInt BY DEF TossInv, ToldOK, Cut
<1> QED BY <1>1, <1>2 DEF TossOrdersTypeOK, TossInv, AskedOK, ToldOK

LEMMA TossTruth ==
  ASSUME TossInv PROVE QuantitiesAddUp /\ EndedIsOver
<1>1. ASSUME told.op = "get" PROVE QuantitiesAddUp /\ EndedIsOver
  <2>1. PICK read \in Records :
          /\ told.id \in OrderIds
          /\ read.state \notin Absent /\ TossFollows(read, tossBook[told.id])
          /\ IsText(told.filled.text) /\ IsText(told.left.text)
          /\ told.filled.text = read.filled
          /\ Value(told.filled.text) + Value(told.left.text) = Value(read.quantity)
          /\ told.status = mapOrderStatus(read.state)
    BY <1>1 DEF TossInv, ToldTrue
  <2>2. tossBook[told.id].quantity = read.quantity BY <2>1 DEF TossFollows
  <2>3. \A s \in {told.filled, told.left} :
         \/ s.whole * Power[MaxScale] <= Value(s.text)
              /\ Value(s.text) < (s.whole + 1) * Power[MaxScale]
         \/ s.whole = 0 /\ Value(s.text) > MaxInt * Power[MaxScale]
    <3>1. Cut(told.filled) /\ Cut(told.left) BY DEF TossInv, ToldOK
    <3> QED BY <2>1, <3>1 DEF Cut
  <2>4. QuantitiesAddUp BY <2>1, <2>2, <2>3 DEF QuantitiesAddUp
  <2>5. ASSUME told.status # "pending" PROVE EndedIsOver
    <3>1. read.state \in Over \cup Refused BY <2>1, <2>5, MapIs
    <3>2. tossBook[told.id] = read BY <2>1, <3>1, StatesApart DEF TossFollows
    <3>3. RecordOK(read) /\ Linked(tossBook, read) BY <2>1, <3>2 DEF TossInv, BookOK
    <3>4. CASE read.state \in Over
      <4>1. read.about # NoId => tossBook[read.about].state \in Over BY <3>3, <3>4 DEF Linked, Over
      <4>2. \A o \in KnownBy(told.id) : tossBook[o].state \in Over
        BY <3>2, <3>4, <4>1 DEF KnownBy
      <4> QED BY <2>1, <3>2, <4>2 DEF EndedIsOver
    <3>5. CASE read.state \in Refused
      <4>1. told.status = "rejected" /\ read.filled = Zero BY <2>1, <3>3, <3>5, MapIs DEF RecordOK
      <4> QED BY <2>1, <3>2, <3>5, <4>1 DEF EndedIsOver
    <3> QED BY <3>1, <3>4, <3>5
  <2> QED BY <2>4, <2>5 DEF EndedIsOver
<1>2. told.op # "get" => QuantitiesAddUp /\ EndedIsOver BY DEF QuantitiesAddUp, EndedIsOver
<1> QED BY <1>1, <1>2

LEMMA TossInvAlways == TossOrdersSpec => []TossInv
<1>1. TossOrdersInit => TossInv
  BY TossInit
<1>2. TossInv /\ [TossOrdersNext]_tossOrderVars => TossInv'
  BY TossStep
<1> QED
  BY <1>1, <1>2, PTL DEF TossOrdersSpec

\* The variables keep their types, and no whole number of an answer is beyond MaxInt.
THEOREM TossOrdersTypes == TossOrdersSpec => []TossOrdersTypeOK
<1>1. TossInv => TossOrdersTypeOK
  BY TossTypes
<1> QED
  BY <1>1, TossInvAlways, PTL

\* What a client is told to be executed and to remain of a Toss order is exact, to the
\* last digit of a share and whatever the quantities; an order it was told is filled,
\* cancelled or rejected stays over with what it replaced, and "rejected" is else only
\* said of a request that was refused and under whose id nothing was executed.
THEOREM TossAnswers == TossOrdersSpec => []TossAnswerIsTrue
<1>1. TossInv => TossAnswerIsTrue
  BY TossTruth DEF TossAnswerIsTrue
<1> QED
  BY <1>1, TossInvAlways, PTL

-----------------------------------------------------------------------------
(* Pages: numbers in order.                                                *)

\* How many elements of S are below one of them tells where it is in their order.
LessIn(S, b) == {c \in S : c < b}

LEMMA LessFinite ==
  ASSUME NEW S, IsFiniteSet(S), S \subseteq Nat, NEW b \in S
  PROVE  /\ IsFiniteSet(LessIn(S, b)) /\ Cardinality(LessIn(S, b)) \in Nat
         /\ Cardinality(LessIn(S, b)) < Cardinality(S)
<1>1. LessIn(S, b) \subseteq S /\ b \notin LessIn(S, b)
  BY DEF LessIn
<1>2. LessIn(S, b) # S BY <1>1
<1> QED BY <1>1, <1>2, FS_Subset, FS_CardinalityType

\* A larger element has more below it,
LEMMA LessMonotonic ==
  ASSUME NEW S, IsFiniteSet(S), S \subseteq Nat, NEW b \in S, NEW c \in S, b < c
  PROVE  Cardinality(LessIn(S, b)) < Cardinality(LessIn(S, c))
<1>0. \A d \in S : d \in Nat OBVIOUS
<1>1. LessIn(S, b) \subseteq LessIn(S, c)
  <2> SUFFICES ASSUME NEW d \in S, d < b PROVE d < c BY DEF LessIn
  <2>1. b \in Nat /\ c \in Nat /\ d \in Nat BY <1>0
  <2> QED BY <2>1
<1>2. b \in LessIn(S, c) /\ b \notin LessIn(S, b) BY DEF LessIn
<1>3. LessIn(S, b) # LessIn(S, c) BY <1>2
<1>4. /\ Cardinality(LessIn(S, b)) \in Nat /\ Cardinality(LessIn(S, c)) \in Nat
      /\ IsFiniteSet(LessIn(S, c))
  BY LessFinite
<1>5. /\ Cardinality(LessIn(S, b)) <= Cardinality(LessIn(S, c))
      /\ Cardinality(LessIn(S, b)) = Cardinality(LessIn(S, c)) => LessIn(S, b) = LessIn(S, c)
  BY <1>1, <1>4, FS_Subset
<1> QED BY <1>3, <1>4, <1>5

\* and two elements have not the same number below them.
LEMMA LessDiffer ==
  ASSUME NEW S, IsFiniteSet(S), S \subseteq Nat, NEW b \in S, NEW c \in S,
         Cardinality(LessIn(S, b)) = Cardinality(LessIn(S, c))
  PROVE  b = c
<1>1. Cardinality(LessIn(S, b)) \in Nat /\ Cardinality(LessIn(S, c)) \in Nat BY LessFinite
<1>2. b < c => Cardinality(LessIn(S, b)) < Cardinality(LessIn(S, c)) BY LessMonotonic
<1>3. c < b => Cardinality(LessIn(S, c)) < Cardinality(LessIn(S, b)) BY LessMonotonic
<1>4. b \in Nat /\ c \in Nat OBVIOUS
<1>5. ~ (b < c) /\ ~ (c < b) BY <1>1, <1>2, <1>3
<1> QED BY <1>4, <1>5

\* Every number of elements below the size of a set is below just one of its elements.
LEMMA LessOnto ==
  ASSUME NEW S, IsFiniteSet(S), S \subseteq Nat, NEW i \in 1..Cardinality(S)
  PROVE  \E b \in S : Cardinality(LessIn(S, b)) = i - 1
<1>0. Cardinality(S) \in Nat BY FS_CardinalityType
<1> DEFINE n == Cardinality(S)
           f == [b \in S |-> Cardinality(LessIn(S, b))]
           R == {f[b] : b \in S}
<1>1. f \in [S -> 0..(n - 1)]
  <2>1. ASSUME NEW b \in S PROVE Cardinality(LessIn(S, b)) \in 0..(n - 1)
    <3>1. Cardinality(LessIn(S, b)) \in Nat /\ Cardinality(LessIn(S, b)) < n
      BY LessFinite
    <3>2. QED BY <1>0, <3>1
  <2> QED BY <2>1
<1>2. \A b, c \in S : f[b] = f[c] => b = c
  <2>1. SUFFICES ASSUME NEW b \in S, NEW c \in S, b # c
                 PROVE  Cardinality(LessIn(S, b)) # Cardinality(LessIn(S, c))
    OBVIOUS
  <2> QED BY <2>1, LessDiffer
<1>3. R \subseteq 0..(n - 1) BY <1>1
<1>4. IsFiniteSet(0..(n - 1)) /\ Cardinality(0..(n - 1)) = n
  <2>1. 0 \in Int /\ n - 1 \in Int BY <1>0
  <2>2. /\ IsFiniteSet(0..(n - 1))
        /\ Cardinality(0..(n - 1)) = IF 0 > n - 1 THEN 0 ELSE (n - 1) - 0 + 1
    BY <2>1, FS_Interval
  <2> QED BY <1>0, <2>2
<1>5. IsFiniteSet(R) /\ Cardinality(R) = n
  <2>1. f \in Bijection(S, R)
    BY <1>2 DEF Bijection, Injection, Surjection, IsInjective
  <2> HIDE DEF f, R
  <2> QED BY <2>1, FS_Bijection DEF ExistsBijection
<1>6. R = 0..(n - 1)
  <2> HIDE DEF R
  <2> QED BY <1>3, <1>4, <1>5, FS_Subset
<1>7. i - 1 \in R
  <2>1. i - 1 \in 0..(n - 1) BY <1>0
  <2> HIDE DEF R
  <2> QED BY <1>6, <2>1
<1> QED BY <1>7

\* Ascending goes up through a set and has every element.
LEMMA AscendingIs ==
  ASSUME NEW S, IsFiniteSet(S), S \subseteq Nat
  PROVE  /\ Cardinality(S) \in Nat
         /\ Ascending(S) \in [1..Cardinality(S) -> S]
         /\ \A i \in 1..Cardinality(S) : Cardinality(LessIn(S, Ascending(S)[i])) = i - 1
         /\ \A i, j \in 1..Cardinality(S) : i < j => Ascending(S)[i] < Ascending(S)[j]
         /\ \A b \in S : \E i \in 1..Cardinality(S) : Ascending(S)[i] = b
<1> DEFINE n == Cardinality(S)
           a == Ascending(S)
           Nth(i) == CHOOSE b \in S : Cardinality({c \in S : c < b}) = i - 1
<1>0. n \in Nat BY FS_CardinalityType
<1>1. \A i \in 1..n : Nth(i) \in S /\ Cardinality(LessIn(S, Nth(i))) = i - 1
  BY LessOnto DEF LessIn
<1>2. a = [i \in 1..n |-> Nth(i)] BY DEF Ascending
<1> HIDE DEF Nth, a
<1>3. a \in [1..n -> S] /\ \A i \in 1..n : Cardinality(LessIn(S, a[i])) = i - 1
  BY <1>1, <1>2
<1>4. ASSUME NEW i \in 1..n, NEW j \in 1..n, i < j PROVE a[i] < a[j]
  <2>1. a[i] \in S /\ a[j] \in S BY <1>3
  <2>2. /\ Cardinality(LessIn(S, a[i])) = i - 1
        /\ Cardinality(LessIn(S, a[j])) = j - 1
    BY <1>3
  <2>3. a[j] < a[i] => j - 1 < i - 1
    <3>1. a[j] < a[i] => Cardinality(LessIn(S, a[j])) < Cardinality(LessIn(S, a[i]))
      BY <2>1, LessMonotonic
    <3> QED BY <2>2, <3>1
  <2>4. a[i] = a[j] => i - 1 = j - 1 BY <2>2
  <2>5. a[i] \in Nat /\ a[j] \in Nat BY <2>1
  <2> QED BY <1>0, <1>4, <2>3, <2>4, <2>5
<1>5. ASSUME NEW b \in S PROVE \E i \in 1..n : a[i] = b
  <2> DEFINE m == Cardinality(LessIn(S, b))
  <2>1. m \in Nat /\ m < n BY LessFinite
  <2>2. m + 1 \in 1..n BY <1>0, <2>1
  <2>3. a[m + 1] \in S /\ Cardinality(LessIn(S, a[m + 1])) = (m + 1) - 1 BY <1>3, <2>2
  <2>4. (m + 1) - 1 = m BY <2>1
  <2>5. a[m + 1] = b BY <2>3, <2>4, LessDiffer
  <2> QED BY <2>2, <2>5
<1> QED BY <1>0, <1>3, <1>4, <1>5 DEF a

\* A sequence that goes up and has every element of a set is the set in its order.
LEMMA AscendingOnly ==
  ASSUME NEW S, S \subseteq Nat, NEW n \in Nat, NEW s \in [1..n -> S],
         \A i, j \in 1..n : i < j => s[i] < s[j],
         \A b \in S : \E i \in 1..n : s[i] = b
  PROVE  IsFiniteSet(S) /\ Cardinality(S) = n /\ s = Ascending(S)
<1>1. \A i, j \in 1..n : s[i] = s[j] => i = j
  <2> SUFFICES ASSUME NEW i \in 1..n, NEW j \in 1..n, i # j PROVE s[i] # s[j] OBVIOUS
  <2>1. i < j \/ j < i OBVIOUS
  <2>2. s[i] \in Nat /\ s[j] \in Nat OBVIOUS
  <2> QED BY <2>1, <2>2
<1>2. s \in Bijection(1..n, S)
  BY <1>1 DEF Bijection, Injection, Surjection, IsInjective
<1>3. IsFiniteSet(1..n) /\ Cardinality(1..n) = n BY FS_Interval
<1>4. IsFiniteSet(S) /\ Cardinality(S) = n
  BY <1>2, <1>3, FS_Bijection DEF ExistsBijection
<1>5. ASSUME NEW i \in 1..n PROVE s[i] = Ascending(S)[i]
  <2> DEFINE P == 1..(i - 1)
             g == [j \in P |-> s[j]]
  <2>0. i \in Nat /\ i - 1 \in Nat /\ P \subseteq 1..n OBVIOUS
  <2>1. IsFiniteSet(P) /\ Cardinality(P) = i - 1
    <3>1. 1 \in Int /\ i - 1 \in Int OBVIOUS
    <3>2. /\ IsFiniteSet(1..(i - 1))
          /\ Cardinality(1..(i - 1)) = IF 1 > i - 1 THEN 0 ELSE (i - 1) - 1 + 1
      BY <3>1, FS_Interval
    <3> QED BY <3>2, <2>0
  <2>2. LessIn(S, s[i]) = {s[j] : j \in P}
    <3>1. ASSUME NEW c \in S, c < s[i] PROVE \E j \in P : c = s[j]
      <4>1. PICK j \in 1..n : s[j] = c OBVIOUS
      <4>2. ~ (i < j) /\ i # j
        <5>1. s[i] \in Nat /\ s[j] \in Nat OBVIOUS
        <5> QED BY <3>1, <4>1, <5>1
      <4> QED BY <4>1, <4>2
    <3>2. ASSUME NEW j \in P PROVE s[j] \in S /\ s[j] < s[i] BY <2>0
    <3> QED BY <3>1, <3>2 DEF LessIn
  <2>3. g \in Bijection(P, LessIn(S, s[i]))
    BY <1>1, <2>0, <2>2 DEF Bijection, Injection, Surjection, IsInjective
  <2>4. Cardinality(LessIn(S, s[i])) = i - 1
    <3> HIDE DEF P, g
    <3> QED BY <2>1, <2>3, FS_Bijection DEF ExistsBijection
  <2> DEFINE a == Ascending(S)[i]
  <2>5. a \in S /\ Cardinality(LessIn(S, a)) = i - 1
    BY <1>4, AscendingIs
  <2>6. s[i] \in S OBVIOUS
  <2> HIDE DEF a
  <2>7. Cardinality(LessIn(S, s[i])) = Cardinality(LessIn(S, a)) BY <2>4, <2>5
  <2>8. s[i] = a BY <1>4, <2>5, <2>6, <2>7, LessDiffer
  <2> QED BY <2>8 DEF a
<1>6. Ascending(S) \in [1..n -> S] BY <1>4, AscendingIs
<1> QED BY <1>4, <1>5, <1>6

\* s goes down and has every element of S.
Descends(s, S) ==
  /\ s \in Seq(S)
  /\ \A i, j \in 1..Len(s) : i < j => s[i] > s[j]
  /\ \A b \in S : \E i \in 1..Len(s) : s[i] = b

\* Descending is such a sequence, and the only one.
LEMMA DescendingIs ==
  ASSUME NEW S, IsFiniteSet(S), S \subseteq Nat
  PROVE  Descends(Descending(S), S) /\ Len(Descending(S)) = Cardinality(S)
<1> DEFINE n == Cardinality(S)
           a == Ascending(S)
           d == Descending(S)
<1>1. /\ n \in Nat /\ a \in [1..n -> S]
      /\ \A i, j \in 1..n : i < j => a[i] < a[j]
      /\ \A b \in S : \E i \in 1..n : a[i] = b
  BY AscendingIs
<1> HIDE DEF n, a
<1>2. Len(a) = n BY <1>1
<1>3. d = [i \in 1..n |-> a[(n - i) + 1]] BY <1>2 DEF Descending, Reverse, a
<1> HIDE DEF d
<1>4. d \in [1..n -> S]
  <2> SUFFICES ASSUME NEW i \in 1..n PROVE a[(n - i) + 1] \in S BY <1>3
  <2>1. (n - i) + 1 \in 1..n BY <1>1
  <2> QED BY <1>1, <2>1
<1>5. d \in Seq(S) /\ Len(d) = n BY <1>1, <1>4
<1>6. ASSUME NEW i \in 1..n, NEW j \in 1..n, i < j PROVE d[i] > d[j]
  <2>1. (n - i) + 1 \in 1..n /\ (n - j) + 1 \in 1..n /\ (n - j) + 1 < (n - i) + 1
    BY <1>1, <1>6
  <2>2. a[(n - j) + 1] < a[(n - i) + 1] BY <1>1, <2>1
  <2>3. d[i] = a[(n - i) + 1] /\ d[j] = a[(n - j) + 1] BY <1>3
  <2>4. d[i] \in Nat /\ d[j] \in Nat BY <1>4
  <2> QED BY <2>2, <2>3, <2>4
<1>7. ASSUME NEW b \in S PROVE \E i \in 1..n : d[i] = b
  <2>1. PICK j \in 1..n : a[j] = b BY <1>1
  <2>2. (n - j) + 1 \in 1..n /\ (n - ((n - j) + 1)) + 1 = j BY <1>1
  <2>3. d[(n - j) + 1] = a[(n - ((n - j) + 1)) + 1] BY <1>3, <2>2
  <2> QED BY <2>1, <2>2, <2>3
<1> QED BY <1>5, <1>6, <1>7 DEF Descends, n, d

LEMMA DescendingOnly ==
  ASSUME NEW S, S \subseteq Nat, NEW s, Descends(s, S)
  PROVE  IsFiniteSet(S) /\ Cardinality(S) = Len(s) /\ s = Descending(S)
<1> DEFINE n == Len(s)
           a == [i \in 1..n |-> s[(n - i) + 1]]
<1>1. /\ n \in Nat /\ s \in [1..n -> S]
      /\ \A i, j \in 1..n : i < j => s[i] > s[j]
      /\ \A b \in S : \E i \in 1..n : s[i] = b
  BY DEF Descends
<1> HIDE DEF n
<1>2. ASSUME NEW i \in 1..n PROVE (n - i) + 1 \in 1..n /\ (n - ((n - i) + 1)) + 1 = i
  BY <1>1
<1>3. a \in [1..n -> S] BY <1>1, <1>2
<1>4. ASSUME NEW i \in 1..n, NEW j \in 1..n, i < j PROVE a[i] < a[j]
  <2>1. (n - j) + 1 < (n - i) + 1 BY <1>1, <1>4
  <2>2. s[(n - j) + 1] > s[(n - i) + 1] BY <1>1, <1>2, <2>1
  <2>3. a[i] \in Nat /\ a[j] \in Nat BY <1>3
  <2> QED BY <2>2, <2>3
<1>5. ASSUME NEW b \in S PROVE \E i \in 1..n : a[i] = b
  <2>1. PICK j \in 1..n : s[j] = b BY <1>1
  <2>2. a[(n - j) + 1] = s[(n - ((n - j) + 1)) + 1] BY <1>2
  <2> QED BY <1>2, <2>1, <2>2
<1> HIDE DEF a
<1>6. IsFiniteSet(S) /\ Cardinality(S) = n /\ a = Ascending(S)
  BY <1>1, <1>3, <1>4, <1>5, AscendingOnly
<1>7. Len(a) = n BY <1>1, <1>3
<1>8. s = [i \in 1..n |-> a[(n - i) + 1]]
  <2>1. ASSUME NEW i \in 1..n PROVE s[i] = a[(n - i) + 1] BY <1>2 DEF a
  <2> QED BY <1>1, <2>1
<1> QED BY <1>6, <1>7, <1>8 DEF Descending, Reverse, n

LEMMA PlacesFinite ==
  ASSUME NEW D, NEW s \in Seq(D), NEW T
  PROVE  /\ Places(s, T) \subseteq 1..Len(s) /\ Places(s, T) \subseteq Nat
         /\ IsFiniteSet(Places(s, T)) /\ Cardinality(Places(s, T)) \in Nat
<1>1. Len(s) \in Nat /\ DOMAIN s = 1..Len(s) OBVIOUS
<1>2. Places(s, T) \subseteq 1..Len(s) BY <1>1 DEF Places
<1>3. IsFiniteSet(1..Len(s)) BY <1>1, FS_Interval
<1>4. 1..Len(s) \subseteq Nat BY <1>1
<1> QED BY <1>2, <1>3, <1>4, FS_Subset, FS_CardinalityType

\* Select has the rows at its places, and no more.
LEMMA SelectIs ==
  ASSUME NEW D, NEW s \in Seq(D), NEW T
  PROVE  LET at == Ascending(Places(s, T))
             m == Cardinality(Places(s, T))
         IN  /\ m \in Nat /\ at \in [1..m -> Places(s, T)]
             /\ Select(s, T) = [i \in 1..m |-> s[at[i]]]
             /\ Select(s, T) \in Seq(D \cap T) /\ Len(Select(s, T)) = m
<1> DEFINE P == Places(s, T)
           at == Ascending(P)
           m == Cardinality(P)
<1>1. IsFiniteSet(P) /\ P \subseteq Nat /\ P \subseteq 1..Len(s) BY PlacesFinite
<1>2. m \in Nat /\ at \in [1..m -> P] BY <1>1, AscendingIs
<1>3. Select(s, T) = [i \in 1..m |-> s[at[i]]] BY <1>2 DEF Select
<1>4. \A p \in P : s[p] \in D \cap T BY DEF Places
<1> HIDE DEF P, at, m
<1>5. ASSUME NEW i \in 1..m PROVE s[at[i]] \in D \cap T BY <1>2, <1>4
<1>6. Select(s, T) \in [1..m -> D \cap T] BY <1>3, <1>5
<1>7. Select(s, T) \in Seq(D \cap T) /\ Len(Select(s, T)) = m BY <1>2, <1>6
<1> QED BY <1>2, <1>3, <1>7 DEF P, at, m

\* What is selected of a set in its order is what the set has of it, in its order.
LEMMA SelectDescending ==
  ASSUME NEW R, IsFiniteSet(R), R \subseteq Nat, NEW T
  PROVE  /\ Select(Descending(R), T) = Descending(R \cap T)
         /\ Cardinality(Places(Descending(R), T)) = Cardinality(R \cap T)
<1> DEFINE d == Descending(R)
           P == Places(d, T)
           at == Ascending(P)
           m == Cardinality(P)
           s == Select(d, T)
<1>1. /\ d \in Seq(R)
      /\ \A i, j \in 1..Len(d) : i < j => d[i] > d[j]
      /\ \A b \in R : \E i \in 1..Len(d) : d[i] = b
  BY DescendingIs DEF Descends
<1> HIDE DEF d
<1>2. IsFiniteSet(P) /\ P \subseteq Nat /\ P \subseteq 1..Len(d) BY <1>1, PlacesFinite
<1>3. /\ m \in Nat /\ at \in [1..m -> P]
      /\ \A i, j \in 1..m : i < j => at[i] < at[j]
      /\ \A p \in P : \E i \in 1..m : at[i] = p
  BY <1>2, AscendingIs
<1>4. s = [i \in 1..m |-> d[at[i]]] /\ s \in Seq(R \cap T) /\ Len(s) = m
  BY <1>1, SelectIs
<1>5. P = {p \in 1..Len(d) : d[p] \in T} BY <1>1 DEF Places
<1> HIDE DEF P, at, m, s
<1>6. ASSUME NEW i \in 1..m, NEW j \in 1..m, i < j PROVE s[i] > s[j]
  <2>1. at[i] < at[j] /\ at[i] \in 1..Len(d) /\ at[j] \in 1..Len(d) BY <1>2, <1>3, <1>6
  <2>2. s[i] = d[at[i]] /\ s[j] = d[at[j]] BY <1>4
  <2> QED BY <1>1, <2>1, <2>2
<1>7. ASSUME NEW b \in R \cap T PROVE \E i \in 1..m : s[i] = b
  <2>1. PICK p \in 1..Len(d) : d[p] = b BY <1>1
  <2>2. p \in P BY <1>5, <2>1
  <2>3. PICK i \in 1..m : at[i] = p BY <1>3, <2>2
  <2> QED BY <1>4, <2>1, <2>3
<1>8. Descends(s, R \cap T) BY <1>4, <1>6, <1>7 DEF Descends
<1>9. R \cap T \subseteq Nat OBVIOUS
<1>10. Cardinality(R \cap T) = Len(s) /\ s = Descending(R \cap T)
  BY <1>8, <1>9, DescendingOnly
<1> QED BY <1>4, <1>10 DEF d, s, P, m

\* Where all of one set is above all of another, their orders follow one another.
LEMMA Joined ==
  ASSUME NEW X, IsFiniteSet(X), X \subseteq Nat, NEW Y, IsFiniteSet(Y), Y \subseteq Nat,
         \A x \in X, y \in Y : x > y
  PROVE  Descending(X \cup Y) = Descending(X) \o Descending(Y)
<1> DEFINE c == Descending(X)
           d == Descending(Y)
           s == c \o d
<1>1. /\ c \in Seq(X)
      /\ \A i, j \in 1..Len(c) : i < j => c[i] > c[j]
      /\ \A b \in X : \E i \in 1..Len(c) : c[i] = b
  BY DescendingIs DEF Descends
<1>2. /\ d \in Seq(Y)
      /\ \A i, j \in 1..Len(d) : i < j => d[i] > d[j]
      /\ \A b \in Y : \E i \in 1..Len(d) : d[i] = b
  BY DescendingIs DEF Descends
<1> HIDE DEF c, d
<1>3. Len(c) \in Nat /\ Len(d) \in Nat BY <1>1, <1>2
<1>4. /\ c \in Seq(X \cup Y) /\ d \in Seq(X \cup Y)
      /\ s \in Seq(X \cup Y) /\ Len(s) = Len(c) + Len(d)
      /\ \A i \in 1..Len(s) : s[i] = IF i <= Len(c) THEN c[i] ELSE d[i - Len(c)]
  <2>1. c \in Seq(X \cup Y) /\ d \in Seq(X \cup Y) BY <1>1, <1>2
  <2> QED BY <2>1, ConcatProperties
<1> HIDE DEF s
<1>5. ASSUME NEW i \in 1..Len(s), NEW j \in 1..Len(s), i < j PROVE s[i] > s[j]
  <2>1. CASE j <= Len(c)
    <3>1. i \in 1..Len(c) /\ j \in 1..Len(c) BY <1>3, <1>5, <2>1
    <3> QED BY <1>1, <1>4, <1>5, <2>1, <3>1
  <2>2. CASE i > Len(c)
    <3> DEFINE k == i - Len(c)
               l == j - Len(c)
    <3>1. k \in 1..Len(d) /\ l \in 1..Len(d) /\ k < l BY <1>3, <1>4, <1>5, <2>2
    <3>2. s[i] = d[k] /\ s[j] = d[l] BY <1>3, <1>4, <1>5, <2>2
    <3> HIDE DEF k, l
    <3> QED BY <1>2, <3>1, <3>2
  <2>3. CASE i <= Len(c) /\ j > Len(c)
    <3> DEFINE l == j - Len(c)
    <3>1. i \in 1..Len(c) /\ l \in 1..Len(d) BY <1>3, <1>4, <2>3
    <3>2. s[i] = c[i] /\ s[j] = d[l] BY <1>3, <1>4, <2>3
    <3> HIDE DEF l
    <3>3. c[i] \in X /\ d[l] \in Y BY <1>1, <1>2, <3>1
    <3> QED BY <3>2, <3>3
  <2> QED BY <1>3, <2>1, <2>2, <2>3
<1>6. ASSUME NEW b \in X \cup Y PROVE \E i \in 1..Len(s) : s[i] = b
  <2>1. CASE b \in X
    <3>1. PICK i \in 1..Len(c) : c[i] = b BY <1>1, <2>1
    <3>2. i \in 1..Len(s) /\ i <= Len(c) BY <1>3, <1>4
    <3> QED BY <1>4, <3>1, <3>2
  <2>2. CASE b \in Y
    <3>1. PICK i \in 1..Len(d) : d[i] = b BY <1>2, <2>2
    <3> DEFINE j == i + Len(c)
    <3>2. j \in 1..Len(s) /\ ~ (j <= Len(c)) /\ j - Len(c) = i BY <1>3, <1>4
    <3> HIDE DEF j
    <3> QED BY <1>4, <3>1, <3>2
  <2> QED BY <2>1, <2>2
<1>7. Descends(s, X \cup Y) BY <1>4, <1>5, <1>6 DEF Descends
<1>8. X \cup Y \subseteq Nat OBVIOUS
<1>9. s = Descending(X \cup Y) BY <1>7, <1>8, DescendingOnly
<1> QED BY <1>9 DEF s, c, d

\* The first rows of two sequences that begin alike.
LEMMA FirstOfAlike ==
  ASSUME NEW D, NEW s \in Seq(D), NEW t \in Seq(D), NEW n \in Nat, n > 0,
         Len(s) >= n, Len(t) >= n, \A i \in 1..n : s[i] = t[i]
  PROVE  FirstOf(s, n) = FirstOf(t, n)
<1>1. ASSUME NEW u \in Seq(D), Len(u) >= n PROVE FirstOf(u, n) = [i \in 1..n |-> u[i]]
  <2>0. Len(u) \in Nat OBVIOUS
  <2>1. CASE Len(u) > n
    <3>1. FirstOf(u, n) = SubSeq(u, 1, n) BY <2>1 DEF FirstOf
    <3>2. SubSeq(u, 1, n) = [i \in 1..n |-> u[i]]
      <4>1. SubSeq(u, 1, n) = [i \in 1..(n - 1 + 1) |-> u[1 + i - 1]]
        BY <2>0, <2>1, SubSeqProperties
      <4>2. \A i \in 1..n : 1 + i - 1 = i OBVIOUS
      <4>3. n - 1 + 1 = n OBVIOUS
      <4> QED BY <4>1, <4>2, <4>3
    <3> QED BY <3>1, <3>2
  <2>2. CASE Len(u) = n
    <3>1. FirstOf(u, n) = u BY <2>2 DEF FirstOf
    <3>2. u = [i \in 1..Len(u) |-> u[i]] OBVIOUS
    <3> QED BY <2>2, <3>1, <3>2
  <2> QED BY <1>1, <2>0, <2>1, <2>2
<1>2. [i \in 1..n |-> s[i]] = [i \in 1..n |-> t[i]] OBVIOUS
<1> QED BY <1>1, <1>2

LEMMA DescendingRange ==
  ASSUME NEW S, IsFiniteSet(S), S \subseteq Nat
  PROVE  /\ Descending(S) \in Seq(S) /\ Len(Descending(S)) = Cardinality(S)
         /\ ToSet(Descending(S)) = S
         /\ \A b \in S : \E i \in DOMAIN Descending(S) : Descending(S)[i] = b
<1> DEFINE d == Descending(S)
<1>1. /\ d \in Seq(S) /\ Len(d) = Cardinality(S)
      /\ \A b \in S : \E i \in 1..Len(d) : d[i] = b
  BY DescendingIs DEF Descends
<1> HIDE DEF d
<1>2. DOMAIN d = 1..Len(d) BY <1>1
<1>3. ToSet(d) = S
  <2>1. \A i \in 1..Len(d) : d[i] \in S BY <1>1
  <2> QED BY <1>1, <1>2, <2>1 DEF ToSet
<1> QED BY <1>1, <1>2, <1>3 DEF d

\* The largest elements of Z come first in its order.
LEMMA LargestFirst ==
  ASSUME NEW Z, IsFiniteSet(Z), Z \subseteq Nat, NEW X, X \subseteq Z,
         \A x \in X, z \in Z \ X : x > z
  PROVE  /\ IsFiniteSet(X) /\ Cardinality(X) \in Nat /\ Cardinality(Z) >= Cardinality(X)
         /\ Cardinality(Z) \in Nat
         /\ \A i \in 1..Cardinality(X) : Descending(X)[i] = Descending(Z)[i]
<1> DEFINE Y == Z \ X
<1>1. /\ IsFiniteSet(X) /\ IsFiniteSet(Y) /\ Cardinality(X) \in Nat /\ Cardinality(Z) \in Nat
      /\ Cardinality(X) <= Cardinality(Z)
  BY FS_Subset, FS_CardinalityType
<1>2. X \cup Y = Z /\ X \subseteq Nat /\ Y \subseteq Nat /\ \A x \in X, y \in Y : x > y OBVIOUS
<1> HIDE DEF Y
<1>3. Descending(X \cup Y) = Descending(X) \o Descending(Y) BY <1>1, <1>2, Joined
<1>4. Descending(Z) = Descending(X) \o Descending(Y) BY <1>2, <1>3
<1>5. /\ Descending(X) \in Seq(X) /\ Len(Descending(X)) = Cardinality(X)
      /\ Descending(Y) \in Seq(Y)
  BY <1>1, <1>2, DescendingRange
<1>6. ASSUME NEW i \in 1..Cardinality(X) PROVE Descending(X)[i] = Descending(Z)[i]
  <2> DEFINE c == Descending(X)
             d == Descending(Y)
  <2>0. c \in Seq(X) /\ d \in Seq(Y) /\ Len(c) = Cardinality(X) BY <1>5
  <2> HIDE DEF c, d
  <2>1. c \in Seq(Nat) /\ d \in Seq(Nat) /\ Len(c) = Cardinality(X) BY <1>2, <2>0, SeqMonotonic
  <2>2. (c \o d)[i] = c[i] /\ Len(d) \in Nat
    <3>1. Len(c) \in Nat /\ Len(d) \in Nat BY <2>1
    <3>2. i \in 1..(Len(c) + Len(d)) /\ i <= Len(c) BY <2>1, <3>1
    <3> QED BY <2>1, <3>1, <3>2, ConcatProperties
  <2> QED BY <1>4, <2>2 DEF c, d
<1> QED BY <1>1, <1>6

\* The first bars are those of the largest days.
LEMMA FirstSingles ==
  ASSUME NEW Z, IsFiniteSet(Z), Z \subseteq Nat, NEW X, X \subseteq Z,
         \A x \in X, z \in Z \ X : x > z,
         NEW n \in Nat, n > 0, Cardinality(X) >= n
  PROVE  FirstOf(Single(Descending(X)), n) = FirstOf(Single(Descending(Z)), n)
<1>1. /\ IsFiniteSet(X) /\ Cardinality(X) \in Nat /\ Cardinality(Z) \in Nat
      /\ Cardinality(Z) >= Cardinality(X)
      /\ \A i \in 1..Cardinality(X) : Descending(X)[i] = Descending(Z)[i]
  BY LargestFirst
<1> DEFINE c == Descending(X)
           d == Descending(Z)
<1>2. c \in Seq(Nat) /\ Len(c) = Cardinality(X) /\ d \in Seq(Nat) /\ Len(d) = Cardinality(Z)
  <2>1. X \subseteq Nat OBVIOUS
  <2>2. c \in Seq(X) /\ Len(c) = Cardinality(X) BY <1>1, <2>1, DescendingRange
  <2>3. d \in Seq(Z) /\ Len(d) = Cardinality(Z) BY DescendingRange
  <2> HIDE DEF c, d
  <2> QED BY <2>1, <2>2, <2>3, SeqMonotonic
<1> HIDE DEF c, d
<1>3. ASSUME NEW s \in Seq(Nat) PROVE Single(s) \in Seq(SUBSET Nat) /\ Len(Single(s)) = Len(s)
  <2>1. Len(s) \in Nat /\ Single(s) = [i \in 1..Len(s) |-> {s[i]}] BY DEF Single
  <2>2. Single(s) \in [1..Len(s) -> SUBSET Nat] BY <2>1
  <2> QED BY <2>1, <2>2
<1>4. ASSUME NEW i \in 1..n PROVE Single(c)[i] = Single(d)[i]
  <2>1. i \in 1..Cardinality(X) /\ i \in DOMAIN c /\ i \in DOMAIN d BY <1>1, <1>2
  <2>2. c[i] = d[i] BY <1>1, <2>1 DEF c, d
  <2> QED BY <2>1, <2>2 DEF Single
<1>5. Len(Single(c)) >= n /\ Len(Single(d)) >= n BY <1>1, <1>2, <1>3
<1>6. FirstOf(Single(c), n) = FirstOf(Single(d), n)
  BY <1>2, <1>3, <1>4, <1>5, FirstOfAlike
<1> QED BY <1>6 DEF c, d

\* The weeks or months of days.
PeriodsOf(X) == {PeriodOf[b] : b \in X}

\* A grouped chart has a bar for each period, with its days.
LEMMA AggregateIs ==
  ASSUME NEW X, X \subseteq 1..Days
  PROVE  /\ IsFiniteSet(PeriodsOf(X)) /\ PeriodsOf(X) \subseteq Nat
         /\ aggregateOHLCVByPeriod(Descending(X)) =
              [i \in 1..Cardinality(PeriodsOf(X)) |->
                 {b \in X : PeriodOf[b] = Descending(PeriodsOf(X))[i]}]
         /\ aggregateOHLCVByPeriod(Descending(X)) \in Seq(SUBSET (1..Days))
         /\ Len(aggregateOHLCVByPeriod(Descending(X))) = Cardinality(PeriodsOf(X))
         /\ Cardinality(PeriodsOf(X)) \in Nat
<1> DEFINE P == PeriodsOf(X)
           d == Descending(X)
           q == Descending(P)
           m == Cardinality(P)
           agg == aggregateOHLCVByPeriod(d)
<1>1. Days \in Nat /\ PeriodOf \in [1..Days -> Nat] BY PagingAssumption
<1>2. IsFiniteSet(X) /\ X \subseteq Nat
  <2>0. 1 \in Int /\ Days \in Int BY <1>1
  <2>1. IsFiniteSet(1..Days) BY <2>0, FS_Interval
  <2>2. 1..Days \subseteq Nat BY <1>1
  <2>3. IsFiniteSet(X) BY <2>1, FS_Subset
  <2> QED BY <2>2, <2>3
<1>3. P \subseteq Nat BY <1>1 DEF PeriodsOf
<1>4. IsFiniteSet(P)
  <2> DEFINE f == [b \in X |-> PeriodOf[b]]
  <2>1. f \in Surjection(X, P) BY DEF Surjection, PeriodsOf
  <2> HIDE DEF f, P
  <2> QED BY <1>2, <2>1, FS_Surjection
<1>5. m \in Nat BY <1>4, FS_CardinalityType
<1>6. d \in Seq(X) /\ ToSet(d) = X /\ \A b \in X : \E i \in DOMAIN d : d[i] = b
  BY <1>2, DescendingRange
<1>7. q \in Seq(P) /\ Len(q) = m BY <1>3, <1>4, DescendingRange
<1>8. {PeriodOf[d[i]] : i \in DOMAIN d} = P
  <2>1. \A i \in DOMAIN d : d[i] \in X
    <3> HIDE DEF d
    <3> QED BY <1>6
  <2> HIDE DEF d
  <2> QED BY <1>6, <2>1 DEF PeriodsOf
<1>9. DOMAIN q = 1..m BY <1>7
<1>10. agg = [i \in 1..m |-> {b \in X : PeriodOf[b] = q[i]}]
  <2> HIDE DEF d, m, q
  <2>1. agg = [i \in DOMAIN q |-> {b \in ToSet(d) : PeriodOf[b] = q[i]}]
    BY <1>8 DEF aggregateOHLCVByPeriod, q
  <2> QED BY <1>6, <1>9, <2>1
<1>11. agg \in [1..m -> SUBSET (1..Days)]
  <2> HIDE DEF agg, m, q
  <2> QED BY <1>10
<1>12. agg \in Seq(SUBSET (1..Days)) /\ Len(agg) = m
  <2> HIDE DEF agg, m
  <2> QED BY <1>5, <1>11
<1> QED BY <1>3, <1>4, <1>5, <1>10, <1>12

\* Bars of the newest periods: of the last period there may be more.
LEMMA FirstPeriods ==
  ASSUME NEW Z, Z \subseteq 1..Days, NEW X, X \subseteq Z, \A x \in X, z \in Z \ X : x > z,
         NEW n \in Nat, n > 0, Cardinality(PeriodsOf(X)) >= n + 1
  PROVE  FirstOf(aggregateOHLCVByPeriod(Descending(X)), n)
           = FirstOf(aggregateOHLCVByPeriod(Descending(Z)), n)
<1> DEFINE P == PeriodsOf(X)
           Q == PeriodsOf(Z)
           c == aggregateOHLCVByPeriod(Descending(X))
           d == aggregateOHLCVByPeriod(Descending(Z))
           p == Descending(P)
           q == Descending(Q)
<1>0. /\ Days \in Nat /\ PeriodOf \in [1..Days -> Nat]
      /\ \A b, e \in 1..Days : b <= e => PeriodOf[b] <= PeriodOf[e]
  BY PagingAssumption
<1>1. X \subseteq 1..Days OBVIOUS
<1>2. /\ IsFiniteSet(P) /\ P \subseteq Nat /\ Cardinality(P) \in Nat
      /\ c = [i \in 1..Cardinality(P) |-> {b \in X : PeriodOf[b] = p[i]}]
      /\ c \in Seq(SUBSET (1..Days)) /\ Len(c) = Cardinality(P)
  BY <1>1, AggregateIs
<1>3. /\ IsFiniteSet(Q) /\ Q \subseteq Nat /\ Cardinality(Q) \in Nat
      /\ d = [i \in 1..Cardinality(Q) |-> {b \in Z : PeriodOf[b] = q[i]}]
      /\ d \in Seq(SUBSET (1..Days)) /\ Len(d) = Cardinality(Q)
  BY AggregateIs
<1>4. ASSUME NEW x \in X, NEW z \in Z \ X PROVE PeriodOf[z] <= PeriodOf[x]
  <2>1. x \in 1..Days /\ z \in 1..Days /\ z <= x BY <1>0
  <2> QED BY <1>0, <2>1
<1>5. P \subseteq Q BY DEF PeriodsOf
<1>6. ASSUME NEW x \in P, NEW z \in Q \ P PROVE x > z
  <2>1. PICK b \in X : x = PeriodOf[b] BY DEF PeriodsOf
  <2>2. PICK e \in Z : z = PeriodOf[e] BY DEF PeriodsOf
  <2>3. e \notin X BY <2>2, <1>6 DEF PeriodsOf
  <2>4. z <= x BY <1>4, <2>1, <2>2, <2>3
  <2> HIDE DEF P, Q
  <2>5. z # x /\ z \in Nat /\ x \in Nat BY <1>2, <1>3
  <2> QED BY <2>4, <2>5
<1> HIDE DEF P, Q, c, d
<1>7. /\ Cardinality(Q) >= Cardinality(P)
      /\ \A i \in 1..Cardinality(P) : p[i] = q[i]
  BY <1>2, <1>3, <1>5, <1>6, LargestFirst
<1>8. /\ p \in Seq(P) /\ Len(p) = Cardinality(P)
      /\ \A i, j \in 1..Len(p) : i < j => p[i] > p[j]
  BY <1>2, DescendingIs DEF Descends
<1> HIDE DEF p, q
<1>9. ASSUME NEW i \in 1..n PROVE c[i] = d[i]
  <2>1. i \in 1..Cardinality(P) /\ i \in 1..Cardinality(Q) /\ n + 1 \in 1..Cardinality(P)
    <3>1. Cardinality(P) \in Nat /\ Cardinality(Q) \in Nat /\ n + 1 \in Nat BY <1>2, <1>3
    <3>2. n + 1 <= Cardinality(P) /\ Cardinality(P) <= Cardinality(Q) BY <1>7 DEF P
    <3> QED BY <3>1, <3>2
  <2>2. c[i] = {b \in X : PeriodOf[b] = p[i]} /\ d[i] = {b \in Z : PeriodOf[b] = p[i]}
    BY <1>2, <1>3, <1>7, <2>1
  <2>3. p[i] > p[n + 1] /\ p[n + 1] \in P /\ p[i] \in P
    <3>1. i < n + 1 /\ i \in 1..Len(p) /\ n + 1 \in 1..Len(p) BY <1>8, <2>1
    <3> QED BY <1>8, <3>1
  <2>4. ASSUME NEW z \in Z \ X PROVE PeriodOf[z] # p[i]
    <3>1. PICK x \in X : p[n + 1] = PeriodOf[x] BY <2>3 DEF P, PeriodsOf
    <3>2. PeriodOf[z] <= p[n + 1] BY <1>4, <3>1
    <3>3. PeriodOf[z] \in Nat /\ p[n + 1] \in Nat /\ p[i] \in Nat BY <1>0, <1>2, <2>3
    <3> QED BY <2>3, <3>2, <3>3
  <2> QED BY <2>2, <2>4
<1>10. Len(c) >= n /\ Len(d) >= n
  <2>1. n + 1 <= Cardinality(P) /\ Cardinality(P) <= Cardinality(Q) BY <1>7 DEF P
  <2> QED BY <1>2, <1>3, <2>1
<1>11. FirstOf(c, n) = FirstOf(d, n) BY <1>2, <1>3, <1>9, <1>10, FirstOfAlike
<1> QED BY <1>11 DEF c, d

-----------------------------------------------------------------------------
(* What a broker gives, and what is asked for.                             *)

\* A finite set of numbers that is not empty has a smallest and a largest.
LEMMA Ends ==
  ASSUME NEW S, IsFiniteSet(S), S \subseteq Nat, S # {}
  PROVE  /\ Min(S) \in S /\ \A b \in S : Min(S) <= b
         /\ Max(S) \in S /\ \A b \in S : Max(S) >= b
<1> DEFINE n == Cardinality(S)
           a == Ascending(S)
<1>1. /\ n \in Nat /\ a \in [1..n -> S]
      /\ \A i, j \in 1..n : i < j => a[i] < a[j]
      /\ \A b \in S : \E i \in 1..n : a[i] = b
  BY AscendingIs
<1>2. n > 0
  <2>1. n # 0 BY FS_EmptySet
  <2> QED BY <1>1, <2>1
<1> HIDE DEF n, a
<1>3. 1 \in 1..n /\ n \in 1..n BY <1>1, <1>2
<1>4. a[1] \in S /\ a[n] \in S BY <1>1, <1>3
<1>5. ASSUME NEW b \in S PROVE a[1] <= b /\ a[n] >= b
  <2>1. PICK i \in 1..n : a[i] = b BY <1>1
  <2>2. i # 1 => a[1] < a[i] BY <1>1, <1>3
  <2>3. i # n => a[i] < a[n] BY <1>1, <1>3
  <2>4. a[1] \in Nat /\ a[n] \in Nat /\ b \in Nat BY <1>4
  <2> QED BY <2>1, <2>2, <2>3, <2>4
<1>6. /\ \E b \in S : \A c \in S : b =< c
      /\ \E b \in S : \A c \in S : b >= c
  BY <1>4, <1>5
<1> QED BY <1>6 DEF Min, Max

\* H has the newest of S: what S has besides is older than anything in H.
Leads(H, S) == H \subseteq S /\ \A h \in H, z \in S \ H : h > z

\* The newest of S lead it, and are all of S when they are fewer than asked for.
LEMMA NewestIs ==
  ASSUME NEW S, IsFiniteSet(S), S \subseteq Nat, NEW n \in Nat
  PROVE  LET p == Newest(S, n)
         IN  /\ Leads(p, S) /\ IsFiniteSet(p) /\ Cardinality(p) \in Nat
             /\ Cardinality(p) <= n
             /\ Cardinality(p) < n => p = S
<1> DEFINE p == Newest(S, n)
           More(b) == {c \in S : c > b}
<1>1. p = {b \in S : Cardinality(More(b)) < n} BY DEF Newest
<1>2. p \subseteq S /\ IsFiniteSet(p) /\ Cardinality(p) \in Nat
  <2>1. p \subseteq S BY <1>1
  <2> HIDE DEF p
  <2> QED BY <2>1, FS_Subset, FS_CardinalityType
<1>3. ASSUME NEW b PROVE IsFiniteSet(More(b)) /\ Cardinality(More(b)) \in Nat
  <2>1. More(b) \subseteq S OBVIOUS
  <2> HIDE DEF More
  <2> QED BY <2>1, FS_Subset, FS_CardinalityType
<1> HIDE DEF p
<1>4. ASSUME NEW h \in p, NEW z \in S \ p PROVE h > z
  <2>1. h \in Nat /\ z \in Nat BY <1>2
  <2>2. SUFFICES ASSUME z > h PROVE FALSE BY <2>1
  <2>3. More(z) \subseteq More(h)
    <3> SUFFICES ASSUME NEW c \in S, c > z PROVE c > h OBVIOUS
    <3>1. c \in Nat OBVIOUS
    <3> QED BY <2>1, <2>2, <3>1
  <2>4. Cardinality(More(h)) < n /\ ~ (Cardinality(More(z)) < n) BY <1>1
  <2> HIDE DEF More
  <2>5. Cardinality(More(z)) <= Cardinality(More(h)) BY <1>3, <2>3, FS_Subset
  <2>6. Cardinality(More(z)) \in Nat /\ Cardinality(More(h)) \in Nat BY <1>3
  <2> QED BY <2>4, <2>5, <2>6
<1>5. Cardinality(p) <= n
  <2>1. CASE p = {}
    <3>1. Cardinality(p) = 0 BY <2>1, FS_EmptySet
    <3> QED BY <3>1
  <2>2. CASE p # {}
    <3> DEFINE m == Min(p)
    <3>0. p \subseteq Nat BY <1>2
    <3>1. m \in p /\ \A b \in p : m <= b BY <1>2, <2>2, <3>0, Ends
    <3> HIDE DEF m
    <3>2. p \ {m} \subseteq More(m)
      <4> SUFFICES ASSUME NEW c \in p, c # m PROVE c > m BY <1>2
      <4>1. c \in Nat /\ m \in Nat /\ m <= c BY <3>0, <3>1
      <4> QED BY <4>1
    <3>3. Cardinality(More(m)) < n BY <1>1, <3>1
    <3> HIDE DEF More
    <3>4. Cardinality(p \ {m}) = Cardinality(p) - 1 BY <1>2, <3>1, FS_RemoveElement
    <3>5. Cardinality(p \ {m}) <= Cardinality(More(m)) BY <1>3, <3>2, FS_Subset
    <3>6. Cardinality(More(m)) \in Nat BY <1>3
    <3> QED BY <1>2, <3>3, <3>4, <3>5, <3>6
  <2> QED BY <2>1, <2>2
<1>6. ASSUME Cardinality(p) < n, p # S PROVE FALSE
  <2> DEFINE Q == S \ p
             z == Max(Q)
  <2>1. IsFiniteSet(Q) /\ Q \subseteq Nat BY FS_Subset
  <2>2. Q # {} BY <1>2, <1>6
  <2> HIDE DEF Q
  <2>3. z \in Q /\ \A b \in Q : z >= b BY <2>1, <2>2, Ends
  <2> HIDE DEF z
  <2>4. More(z) \subseteq p
    <3> SUFFICES ASSUME NEW c \in S, c > z, c \notin p PROVE FALSE OBVIOUS
    <3>1. c \in Q BY DEF Q
    <3>2. z >= c /\ c \in Nat /\ z \in Nat BY <2>1, <2>3, <3>1
    <3> QED BY <3>2
  <2>5. ~ (Cardinality(More(z)) < n) BY <1>1, <2>3 DEF Q
  <2> HIDE DEF More
  <2>6. Cardinality(More(z)) <= Cardinality(p) BY <1>2, <2>4, FS_Subset
  <2>7. Cardinality(More(z)) \in Nat BY <1>3
  <2> QED BY <1>2, <1>6, <2>5, <2>6, <2>7
<1>7. Leads(p, S) BY <1>2, <1>4 DEF Leads
<1> QED BY <1>2, <1>5, <1>6, <1>7 DEF p

\* The rows of the broker's book that the listing asks for, and those from a key up.
Book == {b \in listing.book : b < FirstKey}
Upper(k) == {b \in Book : b >= k}

\* What is listed, from the assumption about listings.
LEMMA ListingIs ==
  ASSUME listing \in Listings
  PROVE  /\ Days \in Nat /\ PageRows \in Nat \ {0} /\ MaxPages \in Nat
         /\ loop \in Loops /\ listing.broker \in {"honest", "ignores"}
         /\ opts.from \in 0..Days /\ opts.to \in 0..Days /\ opts.limit \in 0..Days
         /\ opts.grouped \in BOOLEAN
         /\ To \in 1..Days /\ FirstKey \in 1..Days + 1 /\ FirstKey \in Nat
         /\ readCount \in Nat \ {0} /\ KISLimit \in Nat
         /\ listing.book \subseteq 1..Days /\ Book \subseteq 1..Days /\ Book \subseteq Nat
         /\ IsFiniteSet(Book)
<1>1. /\ {Days, PageRows, MaxPages, MaxRows, DefaultLimit} \subseteq Nat \ {0}
      /\ listing \in [loop : Loops, book : SUBSET (1..Days), void : SUBSET (1..Days),
                      opts : [from : 0..Days, to : 0..Days, limit : 0..Days, grouped : BOOLEAN],
                      broker : {"honest", "ignores"}]
  BY PagingAssumption
<1>2. /\ Days \in Nat \ {0} /\ PageRows \in Nat \ {0} /\ MaxPages \in Nat \ {0}
      /\ DefaultLimit \in Nat \ {0}
  BY <1>1
<1>3. /\ loop \in Loops /\ listing.broker \in {"honest", "ignores"}
      /\ listing.book \subseteq 1..Days
      /\ opts \in [from : 0..Days, to : 0..Days, limit : 0..Days, grouped : BOOLEAN]
  BY <1>1 DEF loop, opts
<1>4. /\ opts.from \in 0..Days /\ opts.to \in 0..Days /\ opts.limit \in 0..Days
      /\ opts.grouped \in BOOLEAN
  BY <1>3
<1>5. To \in 1..Days BY <1>2, <1>4 DEF To
<1>6. FirstKey \in 1..Days + 1 /\ FirstKey \in Nat BY <1>2, <1>5 DEF FirstKey
<1>7. readCount \in Nat \ {0} /\ KISLimit \in Nat
  BY <1>2, <1>4 DEF readCount, KISLimit
<1>8. Book \subseteq 1..Days /\ Book \subseteq Nat BY <1>2, <1>3 DEF Book
<1>9. IsFiniteSet(Book)
  <2>1. 1 \in Int /\ Days \in Int BY <1>2
  <2>2. IsFiniteSet(1..Days) BY <2>1, FS_Interval
  <2> QED BY <1>8, <2>2, FS_Subset
<1> QED BY <1>2, <1>3, <1>4, <1>5, <1>6, <1>7, <1>8, <1>9

LEMMA DaysFinite ==
  ASSUME NEW X, X \subseteq 1..Days
  PROVE  IsFiniteSet(X) /\ X \subseteq Nat
<1>1. Days \in Nat BY PagingAssumption
<1>2. 1 \in Int /\ Days \in Int BY <1>1
<1>3. IsFiniteSet(1..Days) BY <1>2, FS_Interval
<1>4. 1..Days \subseteq Nat BY <1>1
<1>5. IsFiniteSet(X) BY <1>3, FS_Subset
<1> QED BY <1>4, <1>5

LEMMA FirstIsSeq ==
  ASSUME NEW D, NEW s \in Seq(D), NEW n \in Nat
  PROVE  FirstOf(s, n) \in Seq(D)
<1>0. Len(s) \in Nat OBVIOUS
<1>1. CASE n > 0 /\ Len(s) > n
  <2>1. FirstOf(s, n) = SubSeq(s, 1, n) BY <1>1 DEF FirstOf
  <2>2. SubSeq(s, 1, n) \in Seq(D) BY <1>0, <1>1, SubSeqProperties
  <2> QED BY <2>1, <2>2
<1>2. CASE ~ (n > 0 /\ Len(s) > n) BY <1>2 DEF FirstOf
<1> QED BY <1>1, <1>2

\* Bars are sets of days, whatever is selected and wherever it is cut.
LEMMA SinglesAreBars ==
  ASSUME NEW D, NEW s \in Seq(D), NEW T, NEW n \in Nat
  PROVE  /\ Single(Select(s, T)) \in Seq(SUBSET D)
         /\ FirstOf(Single(Select(s, T)), n) \in Seq(SUBSET D)
<1> DEFINE t == Select(s, T)
           u == Single(t)
<1>1. t \in Seq(D \cap T) BY SelectIs
<1> HIDE DEF t
<1>2. Len(t) \in Nat /\ u = [i \in 1..Len(t) |-> {t[i]}] BY <1>1 DEF Single
<1>3. \A i \in 1..Len(t) : t[i] \in D BY <1>1
<1> HIDE DEF u
<1>4. u \in [1..Len(t) -> SUBSET D] BY <1>2, <1>3
<1>5. u \in Seq(SUBSET D) BY <1>2, <1>4
<1> HIDE DEF u
<1>6. FirstOf(u, n) \in Seq(SUBSET D) BY <1>5, FirstIsSeq
<1> QED BY <1>5, <1>6 DEF t, u

\* The bars of a set of days, grouped or not.
LEMMA BarsOf ==
  ASSUME listing \in Listings, NEW H, H \subseteq 1..Days
  PROVE  /\ Bars(Descending(H)) = IF opts.grouped THEN aggregateOHLCVByPeriod(Descending(H \cap InRange))
                                                  ELSE Single(Descending(H \cap InRange))
         /\ Bars(Descending(H)) \in Seq(SUBSET (1..Days))
         /\ Len(Bars(Descending(H))) = IF opts.grouped THEN Cardinality(PeriodsOf(H \cap InRange))
                                                       ELSE Cardinality(H \cap InRange)
<1> DEFINE X == H \cap InRange
           d == Descending(X)
<1>0. opts.grouped \in BOOLEAN BY ListingIs
<1>1. IsFiniteSet(H) /\ H \subseteq Nat BY DaysFinite
<1>2. Select(Descending(H), InRange) = d BY <1>1, SelectDescending
<1>3. X \subseteq 1..Days /\ IsFiniteSet(X) /\ X \subseteq Nat BY DaysFinite
<1>4. Bars(Descending(H)) = IF opts.grouped THEN aggregateOHLCVByPeriod(d) ELSE Single(d)
  BY <1>2 DEF Bars
<1> HIDE DEF X
<1>5. /\ aggregateOHLCVByPeriod(d) \in Seq(SUBSET (1..Days))
      /\ Len(aggregateOHLCVByPeriod(d)) = Cardinality(PeriodsOf(X))
  BY <1>3, AggregateIs
<1>6. d \in Seq(X) /\ Len(d) = Cardinality(X) BY <1>3, DescendingRange
<1>7. Single(d) \in Seq(SUBSET (1..Days)) /\ Len(Single(d)) = Cardinality(X)
  <2>0. d \in Seq(X) /\ X \subseteq 1..Days BY <1>3, <1>6
  <2> HIDE DEF d
  <2>1. d \in Seq(1..Days) BY <2>0, SeqMonotonic
  <2>2. Len(d) \in Nat /\ Single(d) = [i \in 1..Len(d) |-> {d[i]}] BY <2>1 DEF Single
  <2>3. \A i \in 1..Len(d) : d[i] \in 1..Days BY <2>1, ElementOfSeq
  <2>4. Single(d) \in [1..Len(d) -> SUBSET (1..Days)] BY <2>2, <2>3
  <2> QED BY <1>6, <2>2, <2>4
<1> QED BY <1>0, <1>4, <1>5, <1>7 DEF X

\* An answer is a sequence of bars.
LEMMA PresentIs ==
  ASSUME listing \in Listings, NEW s \in Seq(1..Days),
         loop = "kis_chart" => \E H \in SUBSET (1..Days) : s = Descending(H)
  PROVE  Present(s) \in Seq(SUBSET (1..Days))
<1>1. opts.limit \in Nat /\ KISLimit \in Nat /\ loop \in Loops BY ListingIs
<1>2. CASE loop = "kis_chart"
  <2>1. PICK H \in SUBSET (1..Days) : s = Descending(H) BY <1>2
  <2>2. Bars(s) \in Seq(SUBSET (1..Days)) BY <2>1, BarsOf
  <2>3. FirstOf(Bars(s), KISLimit) \in Seq(SUBSET (1..Days)) BY <1>1, <2>2, FirstIsSeq
  <2> QED BY <1>2, <2>3 DEF Present
<1>3. /\ \A T : Single(Select(s, T)) \in Seq(SUBSET (1..Days))
      /\ \A T : FirstOf(Single(Select(s, T)), opts.limit) \in Seq(SUBSET (1..Days))
  BY <1>1, SinglesAreBars
<1>4. CASE loop = "kiwoom_chart" BY <1>3, <1>4 DEF Present
<1>5. CASE loop = "ls_master" BY <1>3, <1>5 DEF Present
<1>6. CASE loop \in {"kiwoom_rows", "ls_balance"} BY <1>3, <1>6 DEF Present
<1> QED BY <1>1, <1>2, <1>4, <1>5, <1>6 DEF Loops

\* Of a chart only the days of the range are told; of another list only what is held.
LEMMA AlikeInRange ==
  ASSUME listing \in Listings, IsChart, NEW H, H \subseteq 1..Days, NEW K, K \subseteq 1..Days,
         H \cap InRange = K \cap InRange
  PROVE  Present(Descending(H)) = Present(Descending(K))
<1>1. CASE loop = "kis_chart"
  <2>1. Bars(Descending(H)) = Bars(Descending(K)) BY BarsOf
  <2> QED BY <1>1, <2>1 DEF Present
<1>2. CASE loop = "kiwoom_chart"
  <2>1. /\ Select(Descending(H), InRange) = Descending(H \cap InRange)
        /\ Select(Descending(K), InRange) = Descending(K \cap InRange)
    <3>1. IsFiniteSet(H) /\ H \subseteq Nat /\ IsFiniteSet(K) /\ K \subseteq Nat BY DaysFinite
    <3> QED BY <3>1, SelectDescending
  <2> QED BY <1>2, <2>1 DEF Present
<1> QED BY <1>1, <1>2 DEF IsChart

\* The newest rows are all that is told when there are as many of them as asked for.
LEMMA NewestTell ==
  ASSUME listing \in Listings, NEW H, Leads(H, Book), NEW T, opts.limit > 0,
         Cardinality(Places(Descending(H), T)) >= opts.limit
  PROVE  FirstOf(Single(Select(Descending(H), T)), opts.limit)
           = FirstOf(Single(Select(Descending(Book), T)), opts.limit)
<1>1. opts.limit \in Nat /\ Book \subseteq 1..Days BY ListingIs
<1>2. H \subseteq Book /\ \A h \in H, z \in Book \ H : h > z BY DEF Leads
<1>3. H \subseteq 1..Days BY <1>1, <1>2
<1>4. IsFiniteSet(H) /\ H \subseteq Nat /\ IsFiniteSet(Book) /\ Book \subseteq Nat
  BY <1>1, <1>3, DaysFinite
<1> DEFINE X == H \cap T
           Z == Book \cap T
<1>5. /\ Select(Descending(H), T) = Descending(X)
      /\ Cardinality(Places(Descending(H), T)) = Cardinality(X)
      /\ Select(Descending(Book), T) = Descending(Z)
  BY <1>4, SelectDescending
<1>6. X \subseteq Z /\ \A x \in X, z \in Z \ X : x > z BY <1>2
<1>7. Z \subseteq 1..Days BY <1>1
<1> HIDE DEF X, Z
<1>8. IsFiniteSet(Z) /\ Z \subseteq Nat BY <1>7, DaysFinite
<1>9. FirstOf(Single(Descending(X)), opts.limit) = FirstOf(Single(Descending(Z)), opts.limit)
  BY <1>1, <1>5, <1>6, <1>8, FirstSingles
<1> QED BY <1>5, <1>9

\* Of a KIS chart the newest days are enough as soon as the code says so: for a grouped
\* one a period more than the limit.
LEMMA EnoughTells ==
  ASSUME listing \in Listings, loop = "kis_chart", NEW H, Leads(H, Book), Enough(Descending(H))
  PROVE  Present(Descending(H)) = Present(Descending(Book))
<1>1. KISLimit \in Nat /\ Book \subseteq 1..Days /\ opts.grouped \in BOOLEAN BY ListingIs
<1>2. H \subseteq Book /\ \A h \in H, z \in Book \ H : h > z BY DEF Leads
<1>3. H \subseteq 1..Days BY <1>1, <1>2
<1> DEFINE X == H \cap InRange
           Z == Book \cap InRange
<1>4. KISLimit > 0 /\ Len(Bars(Descending(H))) >= needed BY DEF Enough
<1>5. X \subseteq Z /\ \A x \in X, z \in Z \ X : x > z BY <1>2
<1>6. Z \subseteq 1..Days BY <1>1
<1>7. IsFiniteSet(Z) /\ Z \subseteq Nat BY <1>6, DaysFinite
<1>8. CASE opts.grouped
  <2>1. Bars(Descending(H)) = aggregateOHLCVByPeriod(Descending(X)) BY <1>3, <1>8, BarsOf
  <2>2. Bars(Descending(Book)) = aggregateOHLCVByPeriod(Descending(Z)) BY <1>1, <1>8, BarsOf
  <2>3. Cardinality(PeriodsOf(X)) >= KISLimit + 1
    <3>1. Len(Bars(Descending(H))) = Cardinality(PeriodsOf(X)) BY <1>3, <1>8, BarsOf
    <3> QED BY <1>4, <1>8, <3>1 DEF needed
  <2> HIDE DEF X, Z
  <2>4. FirstOf(aggregateOHLCVByPeriod(Descending(X)), KISLimit)
          = FirstOf(aggregateOHLCVByPeriod(Descending(Z)), KISLimit)
    BY <1>1, <1>4, <1>5, <1>6, <2>3, FirstPeriods
  <2> QED BY <2>1, <2>2, <2>4 DEF Present
<1>9. CASE ~ opts.grouped
  <2>1. Bars(Descending(H)) = Single(Descending(X)) BY <1>3, <1>9, BarsOf
  <2>2. Bars(Descending(Book)) = Single(Descending(Z)) BY <1>1, <1>9, BarsOf
  <2>3. Cardinality(X) >= KISLimit
    <3>1. Len(Bars(Descending(H))) = Cardinality(X) BY <1>3, <1>9, BarsOf
    <3> QED BY <1>4, <1>9, <3>1 DEF needed
  <2> HIDE DEF X, Z
  <2>4. FirstOf(Single(Descending(X)), KISLimit) = FirstOf(Single(Descending(Z)), KISLimit)
    BY <1>1, <1>4, <1>5, <1>7, <2>3, FirstSingles
  <2> QED BY <2>1, <2>2, <2>4 DEF Present
<1> QED BY <1>1, <1>8, <1>9

LEMMA NoneDescending == Descending({}) = << >>
<1>1. IsFiniteSet({}) /\ {} \subseteq Nat /\ Cardinality({}) = 0 BY FS_EmptySet
<1>2. Descending({}) \in Seq({}) /\ Len(Descending({})) = 0 BY <1>1, DescendingRange
<1> QED BY <1>2, EmptySeq

\* The last of a set in its order is its smallest.
LEMMA LastIsOldest ==
  ASSUME NEW H, IsFiniteSet(H), H \subseteq Nat, H # {}
  PROVE  /\ Descending(H) # << >>
         /\ Last(Descending(H)) \in H /\ \A h \in H : h >= Last(Descending(H))
<1> DEFINE d == Descending(H)
<1>1. /\ d \in Seq(H) /\ \A i, j \in 1..Len(d) : i < j => d[i] > d[j]
      /\ \A b \in H : \E i \in 1..Len(d) : d[i] = b
  BY DescendingIs DEF Descends
<1> HIDE DEF d
<1>2. Len(d) \in Nat BY <1>1
<1>3. PICK b \in H : TRUE OBVIOUS
<1>4. 1..Len(d) # {} BY <1>1, <1>3
<1>5. Len(d) >= 1 BY <1>2, <1>4
<1>6. d # << >> BY <1>5
<1>7. Len(d) \in 1..Len(d) BY <1>2, <1>5
<1>8. Last(d) = d[Len(d)] BY DEF Last
<1>9. Last(d) \in H BY <1>1, <1>7, <1>8, ElementOfSeq
<1>10. ASSUME NEW h \in H PROVE h >= Last(d)
  <2>1. PICK i \in 1..Len(d) : d[i] = h BY <1>1
  <2>2. i # Len(d) => d[i] > d[Len(d)] BY <1>1, <1>2, <1>7
  <2>3. h \in Nat /\ Last(d) \in Nat BY <1>9
  <2> QED BY <1>8, <2>1, <2>2, <2>3
<1> QED BY <1>6, <1>9, <1>10 DEF d

\* What is older than a key.
Older(k) == {b \in Book : b < k}

\* What the broker gives from is older than the key, unless it ignores the key.
LEMMA BelowIs ==
  ASSUME listing \in Listings, key \in 1..FirstKey
  PROVE  /\ key \in Nat /\ Below(key) \subseteq Book
         /\ listing.broker = "honest" \/ key = FirstKey \/ Upper(key) = {} => Below(key) = Older(key)
         /\ listing.broker = "ignores" => Below(key) = Book
<1>1. /\ FirstKey \in Nat /\ listing.broker \in {"honest", "ignores"}
      /\ Book \subseteq Nat /\ listing.book \subseteq 1..Days /\ Days \in Nat
  BY ListingIs
<1>2. key \in Nat /\ key <= FirstKey BY <1>1
<1>3. CASE listing.broker = "honest"
  <2>1. Below(key) = {b \in listing.book : b < key} BY <1>3 DEF Below
  <2>2. ASSUME NEW b \in listing.book, b < key PROVE b < FirstKey
    <3>1. b \in Nat BY <1>1
    <3> QED BY <1>1, <1>2, <2>2, <3>1
  <2>3. Below(key) = Older(key) BY <2>1, <2>2 DEF Older, Book
  <2> QED BY <1>2, <1>3, <2>3 DEF Older
<1>4. CASE listing.broker = "ignores"
  <2>1. Below(key) = Book BY <1>4 DEF Below, Book
  <2>2. key = FirstKey => Book = Older(key) BY DEF Older, Book
  <2>3. ASSUME Upper(key) = {} PROVE Book = Older(key)
    <3>1. \A b \in Book : b \in Nat /\ ~ (b >= key) BY <1>1, <2>3 DEF Upper
    <3>2. \A b \in Book : b < key BY <1>2, <3>1
    <3> QED BY <3>2 DEF Older
  <2> QED BY <1>2, <1>4, <2>1, <2>2, <2>3
<1> QED BY <1>1, <1>3, <1>4

\* What a broker may give for a page.
LEMMA PageIs ==
  ASSUME listing \in Listings, key \in 1..FirstKey, NEW p \in BrokerPages
  PROVE  /\ p \subseteq Below(key) /\ p \subseteq Book /\ p \subseteq 1..Days /\ p \subseteq Nat
         /\ IsFiniteSet(p) /\ Cardinality(p) \in Nat
         /\ KeyAfter(p) \in 1..FirstKey
         /\ p # {} => KeyAfter(p) = Min(p) /\ Min(p) \in p /\ \A b \in p : Min(p) <= b
         /\ loop # "kis_chart" => Leads(p, Below(key))
         /\ loop = "kis_chart" =>
              \E S : /\ S = Below(key) \/ S = {b \in Below(key) : b >= opts.from}
                     /\ Leads(p, S) /\ Cardinality(p) <= PageRows
                     /\ Cardinality(p) < PageRows => p = S
         /\ loop = "ls_master" =>
              /\ p = Newest(Below(key), readCount)
              /\ Cardinality(p) < readCount => p = Below(key)
<1>1. /\ FirstKey \in Nat /\ Book \subseteq 1..Days /\ Book \subseteq Nat /\ PageRows \in Nat
      /\ readCount \in Nat /\ loop \in Loops
  BY ListingIs
<1>2. key \in Nat /\ Below(key) \subseteq Book BY BelowIs
<1> DEFINE Part == {b \in Below(key) : b >= opts.from}
           From(S, n) == /\ p = Newest(S, n) /\ S \subseteq Below(key)
                         /\ loop # "kis_chart" => S = Below(key)
                         /\ loop = "kis_chart" => (S = Below(key) \/ S = Part) /\ n = readCount
                         /\ loop = "ls_master" => n = readCount
<1>3. \E S : \E n \in Nat : From(S, n)
  <2>1. CASE loop = "ls_master"
    <3>1. p = Newest(Below(key), readCount) BY <2>1 DEF BrokerPages
    <3>2. From(Below(key), readCount) BY <2>1, <3>1
    <3> QED BY <1>1, <3>2
  <2>2. CASE loop = "kis_chart"
    <3>1. p = Newest(Below(key), readCount) \/ p = Newest(Part, readCount)
      BY <2>2 DEF BrokerPages
    <3>2. From(Below(key), readCount) \/ From(Part, readCount) BY <2>2, <3>1
    <3> HIDE DEF From
    <3> QED BY <1>1, <3>2
  <2>3. CASE loop # "ls_master" /\ loop # "kis_chart"
    <3>1. PICK n \in 0..PageRows : p = Newest(Below(key), n) BY <2>3 DEF BrokerPages
    <3>2. n \in Nat BY <1>1, <3>1
    <3>3. From(Below(key), n) BY <2>3, <3>1
    <3> QED BY <3>2, <3>3
  <2> QED BY <2>1, <2>2, <2>3
<1>4. PICK S : \E n \in Nat : From(S, n) BY <1>3
<1>5. PICK n \in Nat : From(S, n) BY <1>4
<1>6. S \subseteq 1..Days BY <1>1, <1>2, <1>5
<1>7. IsFiniteSet(S) /\ S \subseteq Nat BY <1>6, DaysFinite
<1>8. /\ Leads(p, S) /\ IsFiniteSet(p) /\ Cardinality(p) \in Nat /\ Cardinality(p) <= n
      /\ Cardinality(p) < n => p = S
  BY <1>5, <1>7, NewestIs
<1>9. p \subseteq S BY <1>8 DEF Leads
<1>10. p \subseteq Below(key) /\ p \subseteq Book /\ p \subseteq 1..Days /\ p \subseteq Nat
  BY <1>1, <1>2, <1>5, <1>9
<1>11. ASSUME p # {}
      PROVE  KeyAfter(p) = Min(p) /\ Min(p) \in p /\ \A b \in p : Min(p) <= b
  BY <1>8, <1>10, <1>11, Ends DEF KeyAfter
<1>12. KeyAfter(p) \in 1..FirstKey
  <2>1. CASE p = {} BY <2>1 DEF KeyAfter
  <2>2. CASE p # {}
    <3>1. Min(p) \in Book /\ KeyAfter(p) = Min(p) BY <1>10, <1>11, <2>2
    <3>2. Min(p) < FirstKey BY <3>1 DEF Book
    <3>3. Min(p) \in 1..Days /\ Days \in Nat BY <1>1, <3>1, ListingIs
    <3> QED BY <1>1, <3>1, <3>2, <3>3
  <2> QED BY <2>1, <2>2
<1>13. loop = "kis_chart" => n = PageRows BY <1>5 DEF readCount
<1>14. ASSUME loop = "kis_chart"
       PROVE  \E R : /\ R = Below(key) \/ R = {b \in Below(key) : b >= opts.from}
                     /\ Leads(p, R) /\ Cardinality(p) <= PageRows
                     /\ Cardinality(p) < PageRows => p = R
  BY <1>5, <1>8, <1>13, <1>14
<1>15. loop # "kis_chart" => Leads(p, Below(key)) BY <1>5, <1>8
<1>16. ASSUME loop = "ls_master"
       PROVE  /\ p = Newest(Below(key), readCount)
              /\ Cardinality(p) < readCount => p = Below(key)
  BY <1>5, <1>8, <1>16
<1> QED BY <1>8, <1>10, <1>11, <1>12, <1>14, <1>15, <1>16

\* Rows that go on from the key are again all from a key up.
LEMMA GoesOn ==
  ASSUME listing \in Listings, key \in 1..FirstKey, NEW p, Leads(p, Older(key))
  PROVE  /\ Descending(Upper(key)) \o Descending(p) = Descending(Upper(key) \cup p)
         /\ Leads(Upper(key) \cup p, Book)
         /\ Older(key) \subseteq p => Upper(key) \cup p = Book
         /\ Upper(key) \cup p = Upper(KeyAfter(p))
<1>1. FirstKey \in Nat /\ Book \subseteq 1..Days /\ Book \subseteq Nat BY ListingIs
<1>2. key \in Nat BY <1>1
<1>3. p \subseteq Older(key) /\ \A h \in p, z \in Older(key) \ p : h > z BY DEF Leads
<1>4. /\ \A b \in Older(key) : b \in Book /\ b \in Nat /\ b < key
      /\ \A b \in Upper(key) : b \in Book /\ b \in Nat /\ b >= key
      /\ \A b \in Book : b \in Nat
      /\ \A b \in Book : b \in Older(key) \/ b \in Upper(key)
  BY <1>1, <1>2 DEF Older, Upper
<1>5. p \subseteq 1..Days /\ Upper(key) \subseteq 1..Days BY <1>1, <1>3, <1>4
<1>6. /\ IsFiniteSet(p) /\ p \subseteq Nat
      /\ IsFiniteSet(Upper(key)) /\ Upper(key) \subseteq Nat
  BY <1>5, DaysFinite
<1>7. \A x \in Upper(key), y \in p : x > y
  <2> SUFFICES ASSUME NEW x \in Upper(key), NEW y \in p PROVE x > y OBVIOUS
  <2>1. x >= key /\ x \in Nat /\ y < key /\ y \in Nat BY <1>3, <1>4
  <2> QED BY <1>2, <2>1
<1>8. Descending(Upper(key)) \o Descending(p) = Descending(Upper(key) \cup p)
  BY <1>6, <1>7, Joined
<1>9. Leads(Upper(key) \cup p, Book)
  <2>1. ASSUME NEW h \in Upper(key) \cup p, NEW z \in Book \ (Upper(key) \cup p) PROVE h > z
    <3>1. z \in Older(key) /\ z < key /\ z \in Nat BY <1>4
    <3>2. CASE h \in p BY <1>3, <3>1, <3>2
    <3>3. CASE h \in Upper(key)
      <4>1. h \in Nat /\ h >= key BY <1>4, <3>3
      <4> QED BY <1>2, <3>1, <4>1
    <3> QED BY <3>2, <3>3
  <2> QED BY <1>3, <1>4, <2>1 DEF Leads
<1>10. Older(key) \subseteq p => Upper(key) \cup p = Book BY <1>3, <1>4
<1>11. Upper(key) \cup p = Upper(KeyAfter(p))
  <2>1. CASE p = {} BY <2>1 DEF KeyAfter
  <2>2. CASE p # {}
    <3> DEFINE m == Min(p)
    <3>1. m \in p /\ \A b \in p : m <= b BY <1>6, <2>2, Ends
    <3>2. KeyAfter(p) = m BY <2>2 DEF KeyAfter
    <3> HIDE DEF m
    <3>3. m \in Nat /\ m < key BY <1>3, <1>4, <3>1
    <3>4. ASSUME NEW b \in Upper(key) \cup p PROVE b \in Book /\ b >= m
      <4>1. CASE b \in p BY <1>3, <1>4, <3>1, <3>3, <4>1
      <4>2. CASE b \in Upper(key)
        <5>1. b \in Nat /\ b >= key /\ b \in Book BY <1>4, <4>2
        <5> QED BY <1>2, <3>3, <5>1
      <4> QED BY <4>1, <4>2
    <3>5. ASSUME NEW b \in Book, b >= m, b \notin Upper(key) \cup p PROVE FALSE
      <4>1. b \in Older(key) \ p /\ b \in Nat BY <1>4, <3>5
      <4>2. m > b BY <1>3, <3>1, <4>1
      <4> QED BY <3>3, <3>5, <4>1, <4>2
    <3>6. Upper(m) = {b \in Book : b >= m} BY DEF Upper
    <3> QED BY <3>2, <3>4, <3>5, <3>6
  <2> QED BY <2>1, <2>2
<1> QED BY <1>8, <1>9, <1>10, <1>11

-----------------------------------------------------------------------------
(* The invariant of the pages.                                             *)

\* The rows are all from the key up, unless a Kiwoom or LS list of positions or of
\* stocks is given again and again.
Followed == listing.broker = "honest" \/ IsChart

KeepsKeys == loop \in {"kiwoom_rows", "kiwoom_chart", "ls_balance"}

\* While pages are asked for: what has been collected, and why the pages end.
PagesGoOn ==
  reply = Running =>
    /\ key \in 1..FirstKey
    /\ page = 0 => rows = << >> /\ key = FirstKey
    /\ Followed => rows = Descending(Upper(key))
    /\ KeepsKeys => /\ seen \subseteq 1..FirstKey /\ page = Cardinality(seen)
                    /\ page > 0 => key \in seen
    /\ ~ KeepsKeys => page + key <= FirstKey
    /\ loop = "kis_chart" /\ page > 0 => key > opts.from
    /\ listing.broker = "ignores" /\ page > 0 =>
         /\ loop = "kis_chart" => Cardinality(Upper(key)) = PageRows
         /\ loop = "ls_master" => key = Min(Newest(Book, readCount))

\* The inductive invariant.
PagesInv == PagingTypeOK /\ PagesGoOn /\ AnswerIsWhole

\* What a caller asks for.
Whole == Present(Descending(Book))

\* The types of everything but the answer.
Typed ==
  /\ listing \in Listings /\ key \in 1..Days + 1 /\ seen \subseteq 1..Days + 1
  /\ page \in 0..Days + 2 /\ rows \in Seq(1..Days)

\* What is listed does not change, nor does what is made of it.
LEMMA ListingStays ==
  ASSUME UNCHANGED listing
  PROVE  /\ loop' = loop /\ opts' = opts /\ FirstKey' = FirstKey /\ readCount' = readCount
         /\ Book' = Book /\ Followed' = Followed /\ KeepsKeys' = KeepsKeys
         /\ Whole' = Whole
<1>1. loop' = loop /\ opts' = opts BY DEF loop, opts
<1>2. InRange' = InRange /\ Held' = Held /\ KISLimit' = KISLimit
  BY <1>1 DEF InRange, Held, KISLimit
<1>3. IsChart' = IsChart /\ KeepsKeys' = KeepsKeys /\ readCount' = readCount
  BY <1>1 DEF IsChart, KeepsKeys, readCount
<1>4. To' = To BY <1>1, <1>3 DEF To
<1>5. FirstKey' = FirstKey /\ Followed' = Followed BY <1>3, <1>4 DEF FirstKey, Followed
<1>6. Book' = Book BY <1>5 DEF Book
<1>7. Descending(Book)' = Descending(Book) BY <1>6 DEF Descending, Ascending
<1>8. Whole' = Whole BY <1>1, <1>2, <1>7 DEF Whole, Present, Bars
<1> QED BY <1>1, <1>3, <1>5, <1>6, <1>8

\* An answer that is an error ends it well,
LEMMA Failed ==
  ASSUME UNCHANGED listing, Typed', reply' = Reply("error", << >>)
  PROVE  PagesInv'
<1>1. reply'.state = "error" /\ reply'.out = << >> BY DEF Reply
<1>2. reply' # Running BY <1>1 DEF Running, Reply
<1>3. << >> \in Seq(SUBSET (1..Days)) OBVIOUS
<1>4. PagingTypeOK' BY <1>1, <1>3 DEF PagingTypeOK, Typed
<1>5. PagesGoOn' BY <1>2 DEF PagesGoOn
<1>6. AnswerIsWhole' BY <1>1 DEF AnswerIsWhole
<1> QED BY <1>4, <1>5, <1>6 DEF PagesInv

\* and so does one that is whole.
LEMMA Told ==
  ASSUME UNCHANGED listing, Typed', NEW s, s \in Seq(1..Days), reply' = Reply("done", Present(s)),
         loop = "kis_chart" => \E H \in SUBSET (1..Days) : s = Descending(H),
         loop # "ls_master" \/ listing.broker = "honest" => Present(s) = Whole
  PROVE  PagesInv'
<1>1. reply'.state = "done" /\ reply'.out = Present(s) BY DEF Reply
<1>2. reply' # Running BY <1>1 DEF Running, Reply
<1>3. listing \in Listings BY DEF Typed
<1>4. Present(s) \in Seq(SUBSET (1..Days)) BY <1>3, PresentIs
<1>5. PagingTypeOK' BY <1>1, <1>4 DEF PagingTypeOK, Typed
<1>6. PagesGoOn' BY <1>2 DEF PagesGoOn
<1>7. Whole' = Whole /\ loop' = loop BY ListingStays
<1>8. AnswerIsWhole' BY <1>1, <1>7 DEF AnswerIsWhole, Whole, Book
<1> QED BY <1>5, <1>6, <1>8 DEF PagesInv

\* What an action finds while pages are asked for.
LEMMA Asked ==
  ASSUME PagesInv, reply = Running
  PROVE  /\ Typed /\ key \in 1..FirstKey /\ listing \in Listings
         /\ page = 0 => rows = << >> /\ key = FirstKey
         /\ page = 0 => rows = Descending(Upper(key))
         /\ Followed => rows = Descending(Upper(key))
         /\ KeepsKeys => /\ seen \subseteq 1..FirstKey /\ page = Cardinality(seen)
                         /\ page > 0 => key \in seen
         /\ ~ KeepsKeys => page + key <= FirstKey
         /\ loop = "kis_chart" /\ page > 0 => key > opts.from
         /\ listing.broker = "ignores" /\ page > 0 =>
              /\ loop = "kis_chart" => Cardinality(Upper(key)) = PageRows
              /\ loop = "ls_master" => key = Min(Newest(Book, readCount))
<1>1. Typed BY DEF PagesInv, PagingTypeOK, Typed
<1>2. listing \in Listings BY <1>1 DEF Typed
<1>3. PagesGoOn BY DEF PagesInv
<1>4. ASSUME page = 0 PROVE rows = Descending(Upper(key))
  <2>1. rows = << >> /\ key = FirstKey BY <1>3, <1>4 DEF PagesGoOn
  <2>2. FirstKey \in Nat /\ Book \subseteq Nat BY <1>2, ListingIs
  <2>3. \A b \in Book : b \in Nat /\ b < FirstKey
    <3>1. \A b \in Book : b < FirstKey BY DEF Book
    <3> QED BY <2>2, <3>1
  <2>4. \A b \in Book : ~ (b >= key) BY <2>1, <2>2, <2>3
  <2>5. Upper(key) = {} BY <2>4 DEF Upper
  <2> QED BY <2>1, <2>5, NoneDescending
<1> QED BY <1>1, <1>2, <1>3, <1>4 DEF PagesGoOn

\* Pages cannot outnumber the keys they go on from.
LEMMA PageBound ==
  ASSUME PagesInv, reply = Running
  PROVE  page \in Nat /\ page + 1 \in 0..Days + 2
<1>1. /\ Typed /\ key \in 1..FirstKey /\ listing \in Listings
      /\ KeepsKeys => seen \subseteq 1..FirstKey /\ page = Cardinality(seen)
      /\ ~ KeepsKeys => page + key <= FirstKey
  BY Asked
<1>2. FirstKey \in Nat /\ FirstKey <= Days + 1 /\ Days \in Nat BY <1>1, ListingIs
<1>3. page \in Nat BY <1>1, <1>2 DEF Typed
<1>4. page <= FirstKey
  <2>1. CASE KeepsKeys
    <3>1. 1 \in Int /\ FirstKey \in Int BY <1>2
    <3>2. /\ IsFiniteSet(1..FirstKey)
          /\ Cardinality(1..FirstKey) = IF 1 > FirstKey THEN 0 ELSE FirstKey - 1 + 1
      BY <3>1, FS_Interval
    <3>3. Cardinality(1..FirstKey) <= FirstKey BY <1>2, <3>2
    <3>4. Cardinality(seen) <= Cardinality(1..FirstKey) BY <1>1, <2>1, <3>2, FS_Subset
    <3>5. Cardinality(1..FirstKey) \in Nat BY <1>2, <3>2
    <3> QED BY <1>1, <1>2, <1>3, <2>1, <3>3, <3>4, <3>5
  <2>2. CASE ~ KeepsKeys
    <3>1. page + key <= FirstKey /\ key \in Nat BY <1>1, <1>2, <2>2
    <3> QED BY <1>2, <1>3, <3>1
  <2> QED BY <2>1, <2>2
<1> QED BY <1>2, <1>3, <1>4

\* Rows stay rows when a page is added.
LEMMA Appended ==
  ASSUME PagesInv, reply = Running, NEW p \in BrokerPages
  PROVE  rows \o Descending(p) \in Seq(1..Days)
<1>1. Typed /\ key \in 1..FirstKey /\ listing \in Listings BY Asked
<1>2. p \subseteq 1..Days /\ p \subseteq Nat /\ IsFiniteSet(p) BY <1>1, PageIs
<1>3. Descending(p) \in Seq(p) BY <1>2, DescendingRange
<1>4. Descending(p) \in Seq(1..Days) BY <1>2, <1>3, SeqMonotonic
<1>5. rows \in Seq(1..Days) BY <1>1 DEF Typed
<1> QED BY <1>4, <1>5, ConcatProperties

\* A page that goes on from the key.
LEMMA Extended ==
  ASSUME listing \in Listings, key \in 1..FirstKey, loop # "kis_chart", NEW p \in BrokerPages,
         rows = Descending(Upper(key)),
         listing.broker = "honest" \/ key = FirstKey \/ Upper(key) = {}
  PROVE  /\ rows \o Descending(p) = Descending(Upper(key) \cup p)
         /\ Leads(Upper(key) \cup p, Book)
         /\ Below(key) \subseteq p => Upper(key) \cup p = Book
         /\ Upper(key) \cup p = Upper(KeyAfter(p))
<1>1. Below(key) = Older(key) BY BelowIs
<1>2. Leads(p, Older(key)) BY <1>1, PageIs
<1> QED BY <1>1, <1>2, GoesOn

\* Asking for one more page.
LEMMA AsksOn ==
  ASSUME UNCHANGED listing, Typed', UNCHANGED reply, reply = Running,
         key' \in 1..FirstKey, page' # 0, listing \in Listings,
         Followed => rows' = Descending(Upper(key')),
         KeepsKeys => seen' \subseteq 1..FirstKey /\ page' = Cardinality(seen') /\ key' \in seen',
         ~ KeepsKeys => page' + key' <= FirstKey,
         loop = "kis_chart" => key' > opts.from,
         listing.broker = "ignores" =>
           /\ loop = "kis_chart" => Cardinality(Upper(key')) = PageRows
           /\ loop = "ls_master" => key' = Min(Newest(Book, readCount))
  PROVE  PagesInv'
<1>1. /\ loop' = loop /\ opts' = opts /\ FirstKey' = FirstKey /\ readCount' = readCount
      /\ Book' = Book /\ Followed' = Followed /\ KeepsKeys' = KeepsKeys
  BY ListingStays
<1>2. Upper(key)' = Upper(key') BY <1>1 DEF Upper
<1>3. Descending(Upper(key))' = Descending(Upper(key')) BY <1>2 DEF Descending, Ascending
<1>4. Min(Newest(Book, readCount))' = Min(Newest(Book, readCount))
  BY <1>1 DEF Newest, Min
<1>5. PagesGoOn' BY <1>1, <1>2, <1>3, <1>4 DEF PagesGoOn
<1>6. reply'.state = "running" /\ reply'.out = << >> BY DEF Running, Reply
<1>7. PagingTypeOK'
  <2>1. << >> \in Seq(SUBSET (1..Days)) OBVIOUS
  <2> QED BY <1>6, <2>1 DEF PagingTypeOK, Typed
<1>8. AnswerIsWhole' BY <1>6 DEF AnswerIsWhole
<1> QED BY <1>5, <1>7, <1>8 DEF PagesInv

\* That there is no more is said of a page with all the rest.
LEMMA NoMore ==
  ASSUME NEW p, NEW more \in SaysMore(p)
  PROVE  /\ more \in BOOLEAN
         /\ ~ more => Below(key) \subseteq p /\ (listing.broker = "honest" \/ page = 0)
BY DEF SaysMore

\* What a Kiwoom chart is cut at leaves nothing out that is told.
LEMMA ReachedTells ==
  ASSUME listing \in Listings, NEW H, Leads(H, Book), Reached(Descending(H))
  PROVE  Present(Descending(H)) = Whole
<1>1. /\ Book \subseteq 1..Days /\ opts.from \in Nat /\ opts.limit \in Nat
      /\ Book \subseteq Nat
  BY ListingIs
<1>2. H \subseteq Book /\ \A h \in H, z \in Book \ H : h > z BY DEF Leads
<1>3. H \subseteq 1..Days BY <1>1, <1>2
<1>4. IsFiniteSet(H) /\ H \subseteq Nat BY <1>3, DaysFinite
<1>5. loop = "kiwoom_chart" BY DEF Reached
<1>6. CASE opts.limit > 0 /\ Cardinality(Places(Descending(H), InRange)) >= opts.limit
  <2>1. FirstOf(Single(Select(Descending(H), InRange)), opts.limit)
          = FirstOf(Single(Select(Descending(Book), InRange)), opts.limit)
    BY <1>6, NewestTell
  <2> QED BY <1>5, <2>1 DEF Present, Whole
<1>7. CASE opts.from # 0 /\ Descending(H) # << >> /\ Last(Descending(H)) <= opts.from
  <2> DEFINE l == Last(Descending(H))
  <2>1. H # {} BY <1>7, NoneDescending
  <2>2. l \in H /\ l <= opts.from BY <1>4, <1>7, <2>1, LastIsOldest
  <2> HIDE DEF l
  <2>3. ASSUME NEW z \in Book \ H PROVE z \notin InRange
    <3>1. l > z /\ z \in Nat /\ l \in Nat BY <1>1, <1>2, <1>4, <2>2
    <3>2. ~ (z >= opts.from) BY <1>1, <2>2, <3>1
    <3> QED BY <1>7, <3>2 DEF InRange
  <2>4. H \cap InRange = Book \cap InRange BY <1>2, <2>3
  <2>5. IsChart BY <1>5 DEF IsChart
  <2> QED BY <1>1, <1>3, <2>4, <2>5, AlikeInRange DEF Whole
<1> QED BY <1>6, <1>7 DEF Reached

\* A page of a Kiwoom list or chart.  A chart page that is given again is out of order,
\* and its key is known, so that nothing goes on from it.
LEMMA CollectKeeps ==
  ASSUME PagesInv, NEW p \in BrokerPages, NEW more \in SaysMore(p),
         collectEndpointRowsUntil(p, more)
  PROVE  PagesInv'
<1> DEFINE all == rows \o Descending(p)
           H == Upper(key) \cup p
           Wrong == Len(all) > MaxRows \/ (more /\ KeyAfter(p) \in seen) \/ Disordered(p)
<1>1. /\ loop \in {"kiwoom_rows", "kiwoom_chart"} /\ reply = Running
      /\ UNCHANGED listing /\ rows' = all /\ page' = page + 1
  BY DEF collectEndpointRowsUntil, Asking, Take
<1>2. /\ IF Wrong THEN Give("error", << >>) /\ UNCHANGED <<key, seen>>
         ELSE /\ seen' = IF more THEN seen \cup {KeyAfter(p)} ELSE seen
              /\ IF Reached(all) \/ ~ more THEN Give("done", all) /\ UNCHANGED key
                 ELSE GoOn(KeyAfter(p), TRUE)
  BY DEF collectEndpointRowsUntil
<1>3. /\ Typed /\ key \in 1..FirstKey /\ listing \in Listings
      /\ page = 0 => rows = << >> /\ key = FirstKey
      /\ page = 0 => rows = Descending(Upper(key))
      /\ Followed => rows = Descending(Upper(key))
  BY <1>1, Asked
<1>4. KeepsKeys /\ loop # "kis_chart" /\ loop # "ls_master" BY <1>1 DEF KeepsKeys
<1>5. /\ seen \subseteq 1..FirstKey /\ page = Cardinality(seen)
      /\ page > 0 => key \in seen
  BY <1>1, <1>4, Asked
<1>6. page \in Nat /\ page + 1 \in 0..Days + 2 /\ all \in Seq(1..Days)
  BY <1>1, PageBound, Appended
<1>7. /\ FirstKey \in Nat /\ FirstKey <= Days + 1 /\ Days \in Nat
      /\ Book \subseteq 1..Days /\ Book \subseteq Nat
      /\ listing.broker \in {"honest", "ignores"}
  BY <1>3, ListingIs
<1>8. /\ p \subseteq Below(key) /\ p \subseteq Book /\ p \subseteq Nat /\ IsFiniteSet(p)
      /\ KeyAfter(p) \in 1..FirstKey /\ Leads(p, Below(key))
  BY <1>3, <1>4, PageIs
<1>9. more \in BOOLEAN /\ (~ more => Below(key) \subseteq p /\ (listing.broker = "honest" \/ page = 0))
  BY NoMore
<1> HIDE DEF all, H
<1>10. key \in 1..Days + 1 /\ KeyAfter(p) \in 1..Days + 1 /\ seen \subseteq 1..Days + 1
  BY <1>3, <1>5, <1>7, <1>8
<1>11. ASSUME Wrong PROVE PagesInv'
  <2>1. reply' = Reply("error", << >>) /\ UNCHANGED <<key, seen>> BY <1>2, <1>11 DEF Give
  <2>2. Typed' BY <1>1, <1>3, <1>6, <1>10, <2>1 DEF Typed
  <2> QED BY <1>1, <2>1, <2>2, Failed
<1>12. ASSUME ~ Wrong, Followed \/ ~ more
       PROVE  /\ rows = Descending(Upper(key))
              /\ listing.broker = "honest" \/ key = FirstKey \/ Upper(key) = {}
  <2>1. rows = Descending(Upper(key)) BY <1>3, <1>9, <1>12 DEF Followed
  <2>2. CASE listing.broker = "honest" \/ page = 0 BY <1>3, <2>1, <2>2
  <2>3. CASE listing.broker = "ignores" /\ page # 0
    <3>1. more /\ loop = "kiwoom_chart" BY <1>1, <1>9, <1>12, <2>3 DEF Followed, IsChart
    <3>2. KeyAfter(p) \notin seen BY <1>12, <3>1
    <3>3. p # {} BY <1>5, <1>6, <2>3, <3>2 DEF KeyAfter
    <3>4. ASSUME Upper(key) # {} PROVE FALSE
      <4>1. Upper(key) \subseteq Book BY DEF Upper
      <4>2. IsFiniteSet(Upper(key)) /\ Upper(key) \subseteq Nat
        <5>1. Upper(key) \subseteq 1..Days BY <1>7, <4>1
        <5> QED BY <5>1, DaysFinite
      <4>3. rows # << >> /\ Last(rows) \in Upper(key) BY <2>1, <3>4, <4>2, LastIsOldest
      <4>4. Max(p) \in p /\ \A b \in p : Max(p) >= b BY <1>8, <3>3, Ends
      <4>5. Below(key) = Book BY <1>3, <2>3, BelowIs
      <4>6. Max(p) >= Last(rows)
        <5>1. CASE Last(rows) \in p BY <4>4, <5>1
        <5>2. CASE Last(rows) \notin p
          <6>1. Max(p) > Last(rows) BY <1>8, <4>1, <4>3, <4>4, <4>5, <5>2 DEF Leads
          <6>2. Max(p) \in Nat /\ Last(rows) \in Nat BY <1>8, <4>2, <4>3, <4>4
          <6> QED BY <6>1, <6>2
        <5> QED BY <5>1, <5>2
      <4>7. Disordered(p) BY <3>1, <3>3, <4>3, <4>6 DEF Disordered
      <4> QED BY <1>12, <4>7
    <3> QED BY <2>1, <3>4
  <2> QED BY <1>7, <2>1, <2>2, <2>3
<1>13. ASSUME ~ Wrong, Followed \/ ~ more
       PROVE  /\ all = Descending(H) /\ Leads(H, Book) /\ H = Upper(KeyAfter(p))
              /\ ~ more => H = Book
  <2>1. /\ rows = Descending(Upper(key))
        /\ listing.broker = "honest" \/ key = FirstKey \/ Upper(key) = {}
    BY <1>12, <1>13
  <2>2. /\ rows \o Descending(p) = Descending(Upper(key) \cup p)
        /\ Leads(Upper(key) \cup p, Book)
        /\ Below(key) \subseteq p => Upper(key) \cup p = Book
        /\ Upper(key) \cup p = Upper(KeyAfter(p))
    BY <1>3, <1>4, <2>1, Extended
  <2> QED BY <1>9, <2>2 DEF all, H
<1>14. ASSUME ~ Wrong, Reached(all) \/ ~ more PROVE PagesInv'
  <2>1. /\ seen' = IF more THEN seen \cup {KeyAfter(p)} ELSE seen
        /\ reply' = Reply("done", Present(all)) /\ UNCHANGED key
    BY <1>2, <1>14 DEF Give
  <2>2. seen' \subseteq 1..Days + 1 BY <1>10, <2>1
  <2>3. Typed' BY <1>1, <1>3, <1>6, <1>10, <2>1, <2>2 DEF Typed
  <2>4. Followed \/ ~ more BY <1>14 DEF Followed, IsChart, Reached
  <2>5. all = Descending(H) /\ Leads(H, Book) /\ (~ more => H = Book) BY <1>13, <1>14, <2>4
  <2>6. Present(all) = Whole
    <3>1. CASE ~ more BY <2>5, <3>1 DEF Whole
    <3>2. CASE Reached(all) BY <1>3, <2>5, <3>2, ReachedTells
    <3> QED BY <1>14, <3>1, <3>2
  <2> QED BY <1>1, <1>4, <1>6, <2>1, <2>3, <2>6, Told
<1>15. ASSUME ~ Wrong, ~ Reached(all), more PROVE PagesInv'
  <2>1. /\ seen' = seen \cup {KeyAfter(p)} /\ key' = KeyAfter(p)
        /\ reply' = Reply("error", << >>) \/ UNCHANGED reply
    BY <1>2, <1>15 DEF Give, GoOn
  <2>2. seen' \subseteq 1..Days + 1 /\ key' \in 1..Days + 1 BY <1>10, <2>1
  <2>3. Typed' BY <1>1, <1>3, <1>6, <2>2 DEF Typed
  <2>4. CASE reply' = Reply("error", << >>) BY <1>1, <2>3, <2>4, Failed
  <2>5. CASE UNCHANGED reply
    <3>1. KeyAfter(p) \notin seen BY <1>15
    <3>2. Followed => rows' = Descending(Upper(key')) BY <1>1, <1>13, <1>15, <2>1
    <3>3. seen' \subseteq 1..FirstKey /\ key' \in seen' /\ key' \in 1..FirstKey
      BY <1>5, <1>8, <2>1
    <3>4. page' = Cardinality(seen') /\ page' # 0
      <4>1. 1 \in Int /\ FirstKey \in Int BY <1>7
      <4>2. IsFiniteSet(1..FirstKey) BY <4>1, FS_Interval
      <4>3. IsFiniteSet(seen) BY <1>5, <4>2, FS_Subset
      <4>4. Cardinality(seen') = Cardinality(seen) + 1 BY <2>1, <3>1, <4>3, FS_AddElement
      <4> QED BY <1>1, <1>5, <1>6, <4>4
    <3> QED BY <1>1, <1>3, <1>4, <2>3, <2>5, <3>2, <3>3, <3>4, AsksOn
  <2> QED BY <2>1, <2>4, <2>5
<1> QED BY <1>9, <1>11, <1>14, <1>15

\* A page of an LS account.
LEMMA InquireBalanceKeeps ==
  ASSUME PagesInv, NEW p \in BrokerPages, NEW more \in SaysMore(p), InquireBalance(p, more)
  PROVE  PagesInv'
<1> DEFINE all == rows \o Descending(p)
<1>1. /\ loop = "ls_balance" /\ reply = Running
      /\ UNCHANGED listing /\ rows' = all /\ page' = page + 1
  BY DEF InquireBalance, Asking, Take
<1>2. IF ~ more THEN Give("done", all) /\ UNCHANGED <<key, seen>>
      ELSE IF KeyAfter(p) \in seen \/ p = {} THEN Give("error", << >>) /\ UNCHANGED <<key, seen>>
      ELSE seen' = seen \cup {KeyAfter(p)} /\ GoOn(KeyAfter(p), TRUE)
  BY DEF InquireBalance
<1>3. /\ Typed /\ key \in 1..FirstKey /\ listing \in Listings
      /\ page = 0 => rows = << >> /\ key = FirstKey
      /\ page = 0 => rows = Descending(Upper(key))
      /\ Followed => rows = Descending(Upper(key))
  BY <1>1, Asked
<1>4. KeepsKeys /\ ~ IsChart BY <1>1 DEF KeepsKeys, IsChart
<1>5. seen \subseteq 1..FirstKey /\ page = Cardinality(seen) BY <1>1, <1>4, Asked
<1>6. page \in Nat /\ page + 1 \in 0..Days + 2 /\ all \in Seq(1..Days)
  BY <1>1, PageBound, Appended
<1>7. FirstKey \in Nat /\ FirstKey <= Days + 1 /\ Days \in Nat BY <1>3, ListingIs
<1>8. KeyAfter(p) \in 1..FirstKey BY <1>3, PageIs
<1>9. more \in BOOLEAN /\ (~ more => Below(key) \subseteq p /\ (listing.broker = "honest" \/ page = 0))
  BY NoMore
<1>10. key \in 1..Days + 1 /\ KeyAfter(p) \in 1..Days + 1 /\ seen \subseteq 1..Days + 1
  BY <1>3, <1>5, <1>7, <1>8
<1>11. ASSUME rows = Descending(Upper(key)), listing.broker = "honest" \/ key = FirstKey
       PROVE  /\ all = Descending(Upper(key) \cup p)
              /\ Below(key) \subseteq p => Upper(key) \cup p = Book
              /\ Upper(key) \cup p = Upper(KeyAfter(p))
  BY <1>1, <1>3, <1>11, Extended
<1> HIDE DEF all
<1>12. CASE ~ more
  <2>1. reply' = Reply("done", Present(all)) /\ UNCHANGED <<key, seen>> BY <1>2, <1>12 DEF Give
  <2>2. Typed' BY <1>1, <1>3, <1>6, <1>10, <2>1 DEF Typed
  <2>3. rows = Descending(Upper(key)) /\ (listing.broker = "honest" \/ key = FirstKey)
    BY <1>3, <1>9, <1>12 DEF Followed
  <2>4. Present(all) = Whole BY <1>9, <1>11, <1>12, <2>3 DEF Whole
  <2> QED BY <1>1, <1>6, <2>1, <2>2, <2>4, Told
<1>13. CASE more /\ (KeyAfter(p) \in seen \/ p = {})
  <2>1. reply' = Reply("error", << >>) /\ UNCHANGED <<key, seen>> BY <1>2, <1>13 DEF Give
  <2>2. Typed' BY <1>1, <1>3, <1>6, <1>10, <2>1 DEF Typed
  <2> QED BY <1>1, <2>1, <2>2, Failed
<1>14. CASE more /\ KeyAfter(p) \notin seen /\ p # {}
  <2>1. /\ seen' = seen \cup {KeyAfter(p)} /\ key' = KeyAfter(p)
        /\ reply' = Reply("error", << >>) \/ UNCHANGED reply
    BY <1>2, <1>14 DEF Give, GoOn
  <2>2. seen' \subseteq 1..Days + 1 /\ key' \in 1..Days + 1 BY <1>10, <2>1
  <2>3. Typed' BY <1>1, <1>3, <1>6, <2>2 DEF Typed
  <2>4. CASE reply' = Reply("error", << >>) BY <1>1, <2>3, <2>4, Failed
  <2>5. CASE UNCHANGED reply
    <3>1. Followed => rows' = Descending(Upper(key'))
      BY <1>1, <1>3, <1>4, <1>11, <2>1 DEF Followed
    <3>2. seen' \subseteq 1..FirstKey /\ key' \in seen' /\ key' \in 1..FirstKey
      BY <1>5, <1>8, <2>1
    <3>3. page' = Cardinality(seen') /\ page' # 0
      <4>1. 1 \in Int /\ FirstKey \in Int BY <1>7
      <4>2. IsFiniteSet(1..FirstKey) BY <4>1, FS_Interval
      <4>3. IsFiniteSet(seen) BY <1>5, <4>2, FS_Subset
      <4>4. Cardinality(seen') = Cardinality(seen) + 1 BY <1>14, <2>1, <4>3, FS_AddElement
      <4> QED BY <1>1, <1>5, <1>6, <4>4
    <3> QED BY <1>1, <1>3, <1>4, <2>3, <2>5, <3>1, <3>2, <3>3, AsksOn
  <2> QED BY <2>1, <2>4, <2>5
<1> QED BY <1>9, <1>12, <1>13, <1>14

\* A page of the LS list of stocks.
LEMMA MasterKeeps ==
  ASSUME PagesInv, NEW p \in BrokerPages, NEW more \in SaysMore(p),
         ListOverseasStockMaster(p, more)
  PROVE  PagesInv'
<1> DEFINE all == rows \o Descending(p)
           H == Upper(key) \cup p
           Stops == \/ opts.limit > 0 /\ Cardinality(Places(all, Held)) >= opts.limit
                    \/ ~ more
                    \/ page > 0 /\ KeyAfter(p) = key
                    \/ Cardinality(p) < readCount
<1>1. /\ loop = "ls_master" /\ reply = Running
      /\ UNCHANGED <<listing, seen>> /\ rows' = all /\ page' = page + 1
  BY DEF ListOverseasStockMaster, Asking, Take
<1>2. IF Stops THEN Give("done", all) /\ UNCHANGED key ELSE GoOn(KeyAfter(p), FALSE)
  BY DEF ListOverseasStockMaster
<1>3. ~ KeepsKeys /\ ~ IsChart BY <1>1 DEF KeepsKeys, IsChart
<1>4. /\ Typed /\ key \in 1..FirstKey /\ listing \in Listings
      /\ page = 0 => key = FirstKey
      /\ listing.broker = "honest" => rows = Descending(Upper(key))
      /\ page + key <= FirstKey
      /\ listing.broker = "ignores" /\ page > 0 => key = Min(Newest(Book, readCount))
  BY <1>1, <1>3, Asked DEF Followed
<1>5. page \in Nat /\ page + 1 \in 0..Days + 2 /\ all \in Seq(1..Days)
  BY <1>1, PageBound, Appended
<1>6. /\ FirstKey \in Nat /\ FirstKey <= Days + 1 /\ Days \in Nat /\ readCount \in Nat \ {0}
      /\ listing.broker \in {"honest", "ignores"} /\ opts.limit \in Nat
  BY <1>4, ListingIs
<1>7. /\ p \subseteq Below(key) /\ IsFiniteSet(p) /\ Cardinality(p) \in Nat
      /\ KeyAfter(p) \in 1..FirstKey
      /\ p # {} => KeyAfter(p) = Min(p) /\ Min(p) \in p
      /\ p = Newest(Below(key), readCount)
      /\ Cardinality(p) < readCount => p = Below(key)
  BY <1>1, <1>4, PageIs
<1>8. /\ listing.broker = "honest" \/ key = FirstKey => Below(key) = Older(key)
      /\ listing.broker = "ignores" => Below(key) = Book
  BY <1>4, BelowIs
<1>9. ~ more => Below(key) \subseteq p BY NoMore
<1>10. Cardinality({}) = 0 BY FS_EmptySet
<1>11. key \in 1..Days + 1 /\ KeyAfter(p) \in 1..Days + 1 /\ seen \subseteq 1..Days + 1
  BY <1>4, <1>6, <1>7 DEF Typed
<1>12. ASSUME listing.broker = "honest"
       PROVE  /\ all = Descending(H) /\ Leads(H, Book) /\ H = Upper(KeyAfter(p))
              /\ Below(key) \subseteq p => H = Book
  BY <1>1, <1>4, <1>12, Extended
\* A key that stays is that of a page without rows.
<1>13. ASSUME Below(key) = Older(key), p # {} PROVE KeyAfter(p) < key
  BY <1>7, <1>13 DEF Older
<1> HIDE DEF all, H
<1>14. ASSUME Stops PROVE PagesInv'
  <2>1. reply' = Reply("done", Present(all)) /\ UNCHANGED key BY <1>2, <1>14 DEF Give
  <2>2. Typed' BY <1>1, <1>4, <1>5, <1>11, <2>1 DEF Typed
  <2>3. ASSUME listing.broker = "honest" PROVE Present(all) = Whole
    <3>1. ASSUME opts.limit > 0, Cardinality(Places(all, Held)) >= opts.limit
          PROVE  Present(all) = Whole
      <4>1. FirstOf(Single(Select(all, Held)), opts.limit)
              = FirstOf(Single(Select(Descending(Book), Held)), opts.limit)
        BY <1>4, <1>12, <2>3, <3>1, NewestTell
      <4> QED BY <1>1, <4>1 DEF Present, Whole
    <3>2. ASSUME Below(key) \subseteq p PROVE Present(all) = Whole
      BY <1>12, <2>3, <3>2 DEF Whole
    <3>3. CASE page > 0 /\ KeyAfter(p) = key
      <4>1. key \in Nat BY <1>4, <1>6
      <4>2. ~ (KeyAfter(p) < key) BY <3>3, <4>1
      <4>3. p = {} BY <1>8, <1>13, <2>3, <4>2
      <4>4. Cardinality(p) < readCount BY <1>6, <1>10, <4>3
      <4> QED BY <1>7, <3>2, <4>4
    <3>4. CASE Cardinality(p) < readCount BY <1>7, <3>2, <3>4
    <3> QED BY <1>9, <1>14, <3>1, <3>2, <3>3, <3>4
  <2> QED BY <1>1, <1>5, <2>1, <2>2, <2>3, Told
<1>15. ASSUME ~ Stops PROVE PagesInv'
  <2>1. key' = KeyAfter(p) /\ UNCHANGED reply BY <1>2, <1>15 DEF GoOn
  <2>2. Typed' BY <1>1, <1>4, <1>5, <1>11, <2>1 DEF Typed
  <2>3. p # {} BY <1>6, <1>10, <1>15
  <2>4. KeyAfter(p) < key
    <3>1. CASE listing.broker = "honest" \/ page = 0 BY <1>4, <1>8, <1>13, <2>3, <3>1
    <3>2. CASE listing.broker = "ignores" /\ page # 0
      <4>1. page > 0 BY <1>5, <3>2
      <4>2. KeyAfter(p) = key BY <1>4, <1>7, <1>8, <2>3, <3>2, <4>1
      <4> QED BY <1>15, <4>1, <4>2
    <3> QED BY <1>6, <3>1, <3>2
  <2>5. page' + key' <= FirstKey /\ page' # 0
    <3>1. key \in Nat /\ KeyAfter(p) \in Nat BY <1>4, <1>6, <1>7
    <3> QED BY <1>1, <1>4, <1>5, <1>6, <2>1, <2>4, <3>1
  <2>6. listing.broker = "ignores" => key' = Min(Newest(Book, readCount))
    BY <1>7, <1>8, <2>1, <2>3
  <2>7. Followed => rows' = Descending(Upper(key')) BY <1>1, <1>3, <1>12, <2>1 DEF Followed
  <2> QED BY <1>1, <1>3, <1>4, <1>7, <2>1, <2>2, <2>5, <2>6, <2>7, AsksOn
<1> QED BY <1>14, <1>15

\* A broker that ignores the key gives the first page again.
LEMMA AgainTheSame ==
  ASSUME listing \in Listings, key \in 1..FirstKey, loop = "kis_chart",
         listing.broker = "ignores", key > opts.from,
         Cardinality(Upper(key)) = PageRows, NEW p \in BrokerPages
  PROVE  p # {} /\ p \subseteq Upper(key)
<1>1. /\ Book \subseteq 1..Days /\ Book \subseteq Nat /\ PageRows \in Nat \ {0}
      /\ opts.from \in Nat /\ FirstKey \in Nat
  BY ListingIs
<1>2. key \in Nat /\ Below(key) = Book BY BelowIs
<1>3. p \subseteq Book /\ IsFiniteSet(p) /\ Cardinality(p) \in Nat BY PageIs
<1>4. PICK S : /\ S = Book \/ S = {b \in Book : b >= opts.from}
               /\ Leads(p, S) /\ Cardinality(p) <= PageRows
               /\ Cardinality(p) < PageRows => p = S
  BY <1>2, PageIs
<1>5. ASSUME NEW u \in Upper(key)
      PROVE  u \in Nat /\ u >= key /\ u \in Book /\ u \in S
  <2>1. u \in Book /\ u >= key /\ u \in Nat BY <1>1 DEF Upper
  <2>2. u >= opts.from BY <1>1, <1>2, <2>1
  <2> QED BY <1>4, <2>1, <2>2
<1>6. p # {}
  <2> SUFFICES ASSUME p = {} PROVE FALSE OBVIOUS
  <2>1. Cardinality({}) = 0 BY FS_EmptySet
  <2>2. p = S BY <1>1, <1>4, <2>1
  <2>3. Upper(key) = {} BY <1>5, <2>2
  <2> QED BY <1>1, <2>1, <2>3
<1>7. ASSUME NEW x \in p, x \notin Upper(key) PROVE FALSE
  <2>1. x \in Nat /\ x < key
    <3>1. x \in Nat /\ x \in Book BY <1>1, <1>3
    <3>2. ~ (x >= key) BY <1>7, <3>1 DEF Upper
    <3> QED BY <1>2, <3>1, <3>2
  <2>2. ASSUME NEW u \in Upper(key), u \notin p PROVE FALSE
    <3>1. x > u BY <1>4, <1>5, <2>2 DEF Leads
    <3>2. u \in Nat /\ u >= key BY <1>5
    <3> QED BY <1>2, <2>1, <3>1, <3>2
  <2>3. Upper(key) \cup {x} \subseteq p BY <2>2
  <2>4. IsFiniteSet(Upper(key)) BY <1>3, <2>3, FS_Subset
  <2>5. Cardinality(Upper(key) \cup {x}) = PageRows + 1 BY <1>7, <2>4, FS_AddElement
  <2>6. Cardinality(Upper(key) \cup {x}) <= Cardinality(p) BY <1>3, <2>3, FS_Subset
  <2> QED BY <1>1, <1>3, <1>4, <2>5, <2>6
<1> QED BY <1>6, <1>7

\* A page of a KIS chart.  One that is given again has nothing new.
LEMMA OHLCVKeeps ==
  ASSUME PagesInv, NEW p \in BrokerPages, GetOHLCVPage(p)
  PROVE  PagesInv'
<1> DEFINE fresh == {b \in p : b < key /\ b >= opts.from} \ ToSet(rows)
           all == Descending(ToSet(rows) \cup fresh)
           H == Upper(key) \cup fresh
<1>1. loop = "kis_chart" /\ reply = Running /\ UNCHANGED <<listing, seen>>
  BY DEF GetOHLCVPage, Asking
<1>2. IF p = {} THEN Give("done", rows) /\ UNCHANGED <<key, page, rows>>
      ELSE /\ rows' = all /\ page' = page + 1
           /\ IF Min(p) <= opts.from THEN Give("done", all) /\ UNCHANGED key
              ELSE IF fresh = {} \/ Min(p) >= key THEN Give("error", << >>) /\ UNCHANGED key
              ELSE IF Cardinality(p) < PageRows \/ Enough(all) THEN Give("done", all) /\ UNCHANGED key
              ELSE GoOn(Min(p), TRUE)
  BY DEF GetOHLCVPage, Take
<1>3. IsChart /\ ~ KeepsKeys BY <1>1 DEF IsChart, KeepsKeys
<1>4. /\ Typed /\ key \in 1..FirstKey /\ listing \in Listings
      /\ page = 0 => key = FirstKey
      /\ rows = Descending(Upper(key))
      /\ page + key <= FirstKey
      /\ page > 0 => key > opts.from
      /\ listing.broker = "ignores" /\ page > 0 => Cardinality(Upper(key)) = PageRows
  BY <1>1, <1>3, Asked DEF Followed
<1>5. page \in Nat /\ page + 1 \in 0..Days + 2 BY <1>1, PageBound
<1>6. /\ FirstKey \in Nat /\ FirstKey <= Days + 1 /\ Days \in Nat /\ PageRows \in Nat \ {0}
      /\ listing.broker \in {"honest", "ignores"} /\ opts.from \in Nat
      /\ Book \subseteq 1..Days /\ Book \subseteq Nat
  BY <1>4, ListingIs
<1>7. key \in Nat BY <1>4, <1>6
<1>8. /\ p \subseteq Book /\ p \subseteq Nat /\ IsFiniteSet(p) /\ Cardinality(p) \in Nat
      /\ p # {} => Min(p) \in p /\ KeyAfter(p) = Min(p) /\ \A b \in p : Min(p) <= b
  BY <1>4, PageIs
<1>9. PICK S : /\ S = Below(key) \/ S = {b \in Below(key) : b >= opts.from}
               /\ Leads(p, S) /\ Cardinality(p) <= PageRows
               /\ Cardinality(p) < PageRows => p = S
  BY <1>1, <1>4, PageIs
<1>10. Upper(key) \subseteq Book /\ \A u \in Upper(key) : u \in Nat /\ u >= key
  BY <1>6 DEF Upper
<1>11. ToSet(rows) = Upper(key)
  <2>1. Upper(key) \subseteq 1..Days BY <1>6, <1>10
  <2>2. IsFiniteSet(Upper(key)) /\ Upper(key) \subseteq Nat BY <2>1, DaysFinite
  <2> QED BY <1>4, <2>2, DescendingRange
<1>12. all = Descending(H) BY <1>11
<1>13. fresh = {b \in p : b < key /\ b >= opts.from}
  <2>1. ASSUME NEW b \in p, b < key PROVE b \notin Upper(key)
    <3>1. b \in Nat BY <1>8
    <3> QED BY <1>7, <1>10, <2>1, <3>1
  <2> QED BY <1>11, <2>1
<1> HIDE DEF fresh, all, H
<1>14. H \subseteq Book /\ H \subseteq 1..Days BY <1>6, <1>8, <1>10, <1>13 DEF H
<1>15. all \in Seq(1..Days)
  <2>1. IsFiniteSet(H) /\ H \subseteq Nat BY <1>14, DaysFinite
  <2>2. Descending(H) \in Seq(H) BY <2>1, DescendingRange
  <2> QED BY <1>12, <1>14, <2>2, SeqMonotonic
<1>16. key \in 1..Days + 1 /\ seen \subseteq 1..Days + 1 /\ rows \in Seq(1..Days)
       /\ page \in 0..Days + 2
  BY <1>4 DEF Typed
\* Once a page is given again, nothing in it is new.
<1>17. ASSUME listing.broker = "ignores", page # 0
       PROVE  p # {} /\ fresh = {} /\ ~ (Min(p) <= opts.from)
  <2>1. page > 0 BY <1>5, <1>17
  <2>2. key > opts.from /\ Cardinality(Upper(key)) = PageRows BY <1>4, <1>17, <2>1
  <2>3. p # {} /\ p \subseteq Upper(key) BY <1>1, <1>4, <1>17, <2>2, AgainTheSame
  <2>4. ASSUME NEW b \in p PROVE ~ (b < key)
    <3>1. b \in Nat /\ b >= key BY <1>10, <2>3
    <3> QED BY <1>7, <3>1
  <2>5. fresh = {} BY <1>13, <2>4
  <2>6. Min(p) \in Nat /\ Min(p) >= key BY <1>8, <1>10, <2>3
  <2>7. ~ (Min(p) <= opts.from) BY <1>6, <1>7, <2>2, <2>6
  <2> QED BY <2>3, <2>5, <2>7
<1>18. ASSUME listing.broker = "honest" \/ page = 0 PROVE Below(key) = Older(key)
  BY <1>4, <1>18, BelowIs
<1>19. ASSUME NEW z \in Book PROVE /\ z \in Nat /\ (z \in Older(key) \/ z \in Upper(key))
                                   /\ z \in InRange => z >= opts.from
  <2>1. z \in Nat BY <1>6
  <2>2. z < key \/ z >= key BY <1>7, <2>1
  <2>3. opts.from = 0 => z >= opts.from BY <2>1
  <2> QED BY <2>1, <2>2, <2>3 DEF Older, Upper, InRange
\* What is left out of a chart is before its range.
<1>20. ASSUME NEW K, K \subseteq Book, Upper(key) \subseteq K, Below(key) = Older(key),
              \A z \in Older(key) \ K : z >= opts.from => FALSE
       PROVE  Present(Descending(K)) = Whole
  <2>1. K \cap InRange = Book \cap InRange BY <1>19, <1>20
  <2>2. K \subseteq 1..Days BY <1>6, <1>20
  <2> QED BY <1>3, <1>4, <1>6, <2>1, <2>2, AlikeInRange DEF Whole
<1>21. CASE p = {}
  <2>1. reply' = Reply("done", Present(rows)) /\ UNCHANGED <<key, page, rows>>
    BY <1>2, <1>21 DEF Give
  <2>2. Typed' BY <1>1, <1>4, <1>16, <2>1 DEF Typed
  <2>3. Below(key) = Older(key) BY <1>6, <1>17, <1>18, <1>21
  <2>4. Cardinality({}) = 0 BY FS_EmptySet
  <2>5. S = {} BY <1>6, <1>9, <1>21, <2>4
  <2>6. \A z \in Older(key) : z >= opts.from => FALSE BY <1>9, <2>3, <2>5
  <2>7. Present(rows) = Whole BY <1>4, <1>10, <1>20, <2>3, <2>6
  <2>8. Upper(key) \in SUBSET (1..Days) BY <1>6, <1>10
  <2> QED BY <1>1, <1>4, <1>16, <2>1, <2>2, <2>7, <2>8, Told
<1>22. ASSUME p # {}, NEW k, key' = k, k \in 1..Days + 1 PROVE Typed'
  BY <1>1, <1>2, <1>4, <1>5, <1>15, <1>16, <1>22 DEF Typed
<1>23. ASSUME reply' = Reply("done", Present(all)), UNCHANGED key, p # {}, Present(all) = Whole
       PROVE  PagesInv'
  <2>1. Typed' BY <1>16, <1>22, <1>23
  <2> QED BY <1>1, <1>12, <1>14, <1>15, <1>23, <2>1, Told
<1>24. CASE p # {} /\ Min(p) <= opts.from
  <2>1. reply' = Reply("done", Present(all)) /\ UNCHANGED key BY <1>2, <1>24 DEF Give
  <2>2. Below(key) = Older(key) BY <1>6, <1>17, <1>18, <1>24
  <2>3. ASSUME NEW z \in Older(key) \ H, z >= opts.from PROVE FALSE
    <3>1. z \in Book /\ z < key /\ z \in Nat BY <1>19 DEF Older
    <3>2. z \in S \ p BY <1>9, <1>13, <2>2, <2>3, <3>1 DEF H
    <3>3. Min(p) > z BY <1>8, <1>9, <1>24, <3>2 DEF Leads
    <3>4. Min(p) \in Nat BY <1>8, <1>24
    <3> QED BY <1>6, <1>24, <2>3, <3>1, <3>3, <3>4
  <2>4. Present(all) = Whole BY <1>12, <1>14, <1>20, <2>2, <2>3 DEF H
  <2> QED BY <1>23, <1>24, <2>1, <2>4
<1>25. CASE p # {} /\ ~ (Min(p) <= opts.from) /\ (fresh = {} \/ Min(p) >= key)
  <2>1. reply' = Reply("error", << >>) /\ UNCHANGED key BY <1>2, <1>25 DEF Give
  <2>2. Typed' BY <1>16, <1>22, <1>25, <2>1
  <2> QED BY <1>1, <2>1, <2>2, Failed
<1>26. CASE p # {} /\ ~ (Min(p) <= opts.from) /\ ~ (fresh = {} \/ Min(p) >= key)
  <2>1. listing.broker = "honest" \/ page = 0 BY <1>6, <1>17, <1>26
  <2>2. Below(key) = Older(key) BY <1>18, <2>1
  <2>3. Min(p) \in Nat /\ Min(p) < key /\ Min(p) > opts.from
    <3>1. Min(p) \in Nat BY <1>8, <1>26
    <3> QED BY <1>6, <1>7, <1>26, <3>1
  <2>4. ASSUME NEW b \in p PROVE b \in Older(key) /\ b > opts.from
    <3>1. b \in Nat /\ b \in Book /\ Min(p) <= b BY <1>8
    <3>2. b > opts.from BY <1>6, <2>3, <3>1
    <3> QED BY <1>9, <2>2, <3>2 DEF Leads
  <2>5. fresh = p
    <3>1. ASSUME NEW b \in p PROVE b < key /\ b >= opts.from
      <4>1. b < key /\ b > opts.from /\ b \in Nat BY <1>8, <2>4 DEF Older
      <4> QED BY <1>6, <4>1
    <3> QED BY <1>13, <3>1
  <2>6. Leads(p, Older(key))
    <3>1. ASSUME NEW h \in p, NEW z \in Older(key) \ p PROVE h > z
      <4>1. CASE z \in S BY <1>9, <3>1, <4>1 DEF Leads
      <4>2. CASE z \notin S
        <5>1. ~ (z >= opts.from) BY <1>9, <2>2, <3>1, <4>2
        <5>2. z \in Nat /\ h \in Nat /\ h > opts.from BY <1>8, <1>19, <2>4 DEF Older
        <5> QED BY <1>6, <5>1, <5>2
      <4> QED BY <4>1, <4>2
    <3>2. p \subseteq Older(key) BY <2>4
    <3> QED BY <3>1, <3>2 DEF Leads
  <2>7. Leads(H, Book) /\ H = Upper(Min(p))
    BY <1>4, <1>8, <1>26, <2>5, <2>6, GoesOn DEF H
  <2>8. CASE Cardinality(p) < PageRows \/ Enough(all)
    <3>1. reply' = Reply("done", Present(all)) /\ UNCHANGED key BY <1>2, <1>26, <2>8 DEF Give
    <3>2. CASE Enough(all)
      <4>1. Present(all) = Whole BY <1>1, <1>4, <1>12, <2>7, <3>2, EnoughTells DEF Whole
      <4> QED BY <1>23, <1>26, <3>1, <4>1
    <3>3. CASE Cardinality(p) < PageRows
      <4>1. p = S BY <1>9, <3>3
      <4>2. \A z \in Older(key) \ H : z >= opts.from => FALSE BY <1>9, <2>2, <2>5, <4>1 DEF H
      <4>3. Present(all) = Whole BY <1>12, <1>14, <1>20, <2>2, <4>2 DEF H
      <4> QED BY <1>23, <1>26, <3>1, <4>3
    <3> QED BY <2>8, <3>2, <3>3
  <2>9. CASE ~ (Cardinality(p) < PageRows \/ Enough(all))
    <3>1. key' = Min(p) /\ (reply' = Reply("error", << >>) \/ UNCHANGED reply)
      BY <1>2, <1>26, <2>9 DEF GoOn, Give
    <3>2. Min(p) \in 1..FirstKey /\ Min(p) \in 1..Days + 1
      <4>1. Min(p) \in 1..Days BY <1>6, <1>8, <1>26
      <4> QED BY <1>4, <1>6, <1>7, <2>3, <4>1
    <3>3. Typed' BY <1>22, <1>26, <3>1, <3>2
    <3>4. CASE reply' = Reply("error", << >>) BY <1>1, <3>3, <3>4, Failed
    <3>5. CASE UNCHANGED reply
      <4>1. rows' = Descending(Upper(key')) BY <1>2, <1>12, <1>26, <2>7, <3>1
      <4>2. page' + key' <= FirstKey /\ page' # 0
        <5>1. page' = page + 1 BY <1>2, <1>26
        <5> QED BY <1>4, <1>5, <1>6, <1>7, <2>3, <3>1, <5>1
      <4>3. ASSUME listing.broker = "ignores" PROVE Cardinality(Upper(key')) = PageRows
        <5>1. key = FirstKey BY <1>4, <2>1, <4>3
        <5>2. Upper(key) = {}
          <6>1. \A u \in Upper(key) : u < key BY <1>10, <5>1 DEF Book
          <6> QED BY <1>7, <1>10, <6>1
        <5>3. Upper(key') = p BY <2>5, <2>7, <3>1, <5>2 DEF H
        <5> QED BY <1>6, <1>8, <1>9, <2>9, <5>3
      <4> QED BY <1>1, <1>3, <1>4, <2>3, <3>1, <3>2, <3>3, <3>5, <4>1, <4>2, <4>3, AsksOn
    <3> QED BY <3>1, <3>4, <3>5
  <2> QED BY <2>8, <2>9
<1> QED BY <1>21, <1>24, <1>25, <1>26

\* The invariant holds of a listing that was not asked for yet.
LEMMA PagesInitially == PagingInit => PagesInv
<1> SUFFICES ASSUME PagingInit PROVE PagesInv OBVIOUS
<1>1. /\ listing \in Listings /\ key = FirstKey /\ seen = {} /\ page = 0 /\ rows = << >>
      /\ reply = Running
  BY DEF PagingInit
<1>2. reply.state = "running" /\ reply.out = << >> BY <1>1 DEF Running, Reply
<1>3. /\ FirstKey \in 1..Days + 1 /\ FirstKey \in Nat /\ Days \in Nat
      /\ Book \subseteq Nat
  BY <1>1, ListingIs
<1>4. PagingTypeOK
  <2>1. << >> \in Seq(1..Days) /\ << >> \in Seq(SUBSET (1..Days)) OBVIOUS
  <2>2. page \in 0..Days + 2 BY <1>1, <1>3
  <2> QED BY <1>1, <1>2, <1>3, <2>1, <2>2 DEF PagingTypeOK
<1>5. rows = Descending(Upper(key))
  <2>1. \A b \in Book : b < key BY <1>1 DEF Book
  <2>2. \A b \in Book : ~ (b >= key) BY <1>1, <1>3, <2>1
  <2>3. Upper(key) = {} BY <2>2 DEF Upper
  <2> QED BY <1>1, <2>3, NoneDescending
<1>6. Cardinality({}) = 0 BY FS_EmptySet
<1>7. PagesGoOn
  <2>1. key \in 1..FirstKey /\ page + key <= FirstKey BY <1>1, <1>3
  <2>2. ~ (page > 0) BY <1>1
  <2> QED BY <1>1, <1>5, <1>6, <2>1, <2>2 DEF PagesGoOn
<1>8. AnswerIsWhole BY <1>2 DEF AnswerIsWhole
<1> QED BY <1>4, <1>7, <1>8 DEF PagesInv

\* Every action keeps the invariant.
LEMMA PagesKept == PagesInv /\ [PagingNext]_pagingVars => PagesInv'
<1> SUFFICES ASSUME PagesInv, [PagingNext]_pagingVars PROVE PagesInv' OBVIOUS
<1>1. Typed BY DEF PagesInv, PagingTypeOK, Typed
<1>2. ASSUME UNCHANGED <<listing, key, seen, page, rows>>, reply' = Reply("error", << >>)
      PROVE  PagesInv'
  <2>1. Typed' BY <1>1, <1>2 DEF Typed
  <2> QED BY <1>2, <2>1, Failed
<1>3. CASE PageFails
  <2>1. reply' = Reply("error", << >>) BY <1>3 DEF PageFails, Give
  <2> QED BY <1>2, <1>3, <2>1 DEF PageFails
<1>4. CASE RefuseRange
  <2>1. reply' = Reply("error", << >>) BY <1>4 DEF RefuseRange, Give
  <2> QED BY <1>2, <1>4, <2>1 DEF RefuseRange
<1>5. ASSUME NEW p \in BrokerPages, GetOHLCVPage(p) PROVE PagesInv' BY <1>5, OHLCVKeeps
<1>6. ASSUME NEW p \in BrokerPages, NEW more \in SaysMore(p),
             \/ collectEndpointRowsUntil(p, more)
             \/ InquireBalance(p, more)
             \/ ListOverseasStockMaster(p, more)
      PROVE  PagesInv'
  BY <1>6, CollectKeeps, InquireBalanceKeeps, MasterKeeps
<1>7. CASE UNCHANGED pagingVars
  <2>1. UNCHANGED <<listing, key, seen, page, rows, reply>> BY <1>7 DEF pagingVars
  <2>2. /\ loop' = loop /\ opts' = opts /\ FirstKey' = FirstKey /\ readCount' = readCount
        /\ Book' = Book /\ Followed' = Followed /\ KeepsKeys' = KeepsKeys /\ Whole' = Whole
    BY <2>1, ListingStays
  <2>3. Upper(key)' = Upper(key) BY <2>1, <2>2 DEF Upper
  <2>4. Descending(Upper(key))' = Descending(Upper(key)) BY <2>3 DEF Descending, Ascending
  <2>5. Min(Newest(Book, readCount))' = Min(Newest(Book, readCount))
    BY <2>2 DEF Newest, Min
  <2>6. Running' = Running BY DEF Running, Reply
  <2>7. PagingTypeOK' BY <2>1 DEF PagesInv, PagingTypeOK
  <2>8. PagesGoOn'
    BY <2>1, <2>2, <2>3, <2>4, <2>5, <2>6 DEF PagesInv, PagesGoOn
  <2>9. AnswerIsWhole'
    BY <2>1, <2>2 DEF PagesInv, AnswerIsWhole, Whole, Book
  <2> QED BY <2>7, <2>8, <2>9 DEF PagesInv
<1> QED BY <1>3, <1>4, <1>5, <1>6, <1>7 DEF PagingNext

\* The variables keep their types: in particular no loop asks for more pages than there
\* are days and two, whatever the broker answers.
THEOREM PagingTypes == PagingSpec => []PagingTypeOK
<1>1. PagesInv => PagingTypeOK BY DEF PagesInv
<1> QED BY <1>1, PagesInitially, PagesKept, PTL DEF PagingSpec

\* What a caller is given is all it asked for, for every book, range, limit and grouping,
\* wherever the broker cuts its pages, and also when it ignores the key, except for the
\* LS list of stocks.
THEOREM PagingAnswers == PagingSpec => []AnswerIsWhole
<1>1. PagesInv => AnswerIsWhole BY DEF PagesInv
<1> QED BY <1>1, PagesInitially, PagesKept, PTL DEF PagingSpec

-----------------------------------------------------------------------------
(* The adapters together.                                                  *)

\* A behaviour of the adapters is one of each of the parts.
LEMMA AdaptersAreTheirParts == Spec => OrdersSpec /\ TossOrdersSpec /\ PagingSpec
<1>1. Init => OrdersInit /\ TossOrdersInit /\ PagingInit
  BY DEF Init
<1>2. [Next]_vars => [OrdersNext]_ordersVars /\ [TossOrdersNext]_tossOrderVars
                       /\ [PagingNext]_pagingVars
  BY DEF Next, vars
<1> QED
  BY <1>1, <1>2, PTL DEF Spec, OrdersSpec, TossOrdersSpec, PagingSpec

\* The orders of a Kiwoom and of a Toss account and the pages of an answer keep their
\* types.
THEOREM AdaptersTypes == Spec => []TypeOK
<1>1. OrdersTypeOK /\ TossOrdersTypeOK /\ PagingTypeOK => TypeOK
  BY DEF TypeOK
<1> QED
  BY <1>1, AdaptersAreTheirParts, KiwoomOrdersTypeOK, TossOrdersTypes, PagingTypes, PTL
=============================================================================
