---------------------------- MODULE KiwoomOrders ----------------------------
(***************************************************************************)
(* The life of the orders of one Kiwoom account (internal/kiwoom/adapter/  *)
(* adapter.go, internal/kiwoom/order.go): requests that place, cancel,     *)
(* modify and look up orders, the contexts the adapter keeps, and the      *)
(* exchange behind them.                                                   *)
(*                                                                         *)
(* Unlike the KIS adapter this one takes a context it has as it is, asks   *)
(* for as many shares as the context says remain, keeps a context under    *)
(* the old number of a modified order, and looks only at the first page of *)
(* each list.  Every access to the map under its lock is one step, and so  *)
(* is every call of the broker; prices are left out.                       *)
(***************************************************************************)
EXTENDS Naturals, FiniteSets

CONSTANTS
  Requests,  \* goroutines serving requests, one request after the other
  Numbers,   \* order numbers the exchange may give
  None,      \* no order number
  Limit,     \* contexts kept (300 in the code)
  Shares,    \* a bound of the model: the shares of an order
  Worlds     \* circumstances of a behaviour: requests overlap; the broker's
             \* lists come whole, their first page is not all, or they may also
             \* fail; and a bound of the model: the orders the exchange accepts

ASSUME KiwoomOrdersAssumption ==
  /\ None \notin Numbers
  /\ Limit \in Nat \ {0}
  /\ Shares \in Nat \ {0}
  /\ Worlds \subseteq [overlap : BOOLEAN, lists : {"whole", "short", "fail"}, accepts : Nat]

VARIABLES
  world,   \* the circumstances, which do not change
  exch,    \* what the exchange knows of each number
  orders,  \* Adapter.orders: the context of each number
  gone,    \* the numbers whose cancellation a client was told of
  pc,      \* where each request is
  op,      \* what it was asked for
  num,     \* the number it was asked about
  meta,    \* the context it works with (a copy)
  qty,     \* the shares it asks for, or reports as executed
  new,     \* the number the broker answered with
  answer   \* what it answers

request == <<pc, op, num, meta, qty, new, answer>>
ordersVars == <<world, exch, orders, gone, request>>

Ended     == {"filled", "cancelled", "rejected", "replaced", "request"}
Contexts  == [qty : 0..Shares, left : 0..Shares, status : {"none", "pending", "cancelled"}]
NoContext == [qty |-> 0, left |-> 0, status |-> "none"]

Stored == {n \in Numbers : orders[n] # NoContext}

OrdersTypeOK ==
  /\ world \in Worlds
  /\ exch \in [Numbers -> [state : {"none", "open"} \cup Ended, left : 0..Shares,
                           done : 0..Shares]]
  /\ orders \in [Numbers -> Contexts]
  /\ IsFiniteSet(Stored) /\ Cardinality(Stored) <= Limit
  /\ gone \subseteq Numbers
  /\ pc \in [Requests -> {"idle", "resolve", "list", "keep", "call", "store", "alias",
                          "context", "unsettled", "record", "again", "fills", "answered"}]
  /\ op \in [Requests -> {"none", "place", "cancel", "modify", "get"}]
  /\ num \in [Requests -> Numbers \cup {None}]
  /\ meta \in [Requests -> Contexts]
  /\ qty \in [Requests -> 0..Shares]
  /\ new \in [Requests -> Numbers \cup {None}]
  /\ answer \in [Requests -> {"none", "ok", "error", "notfound", "filled", "pending",
                              "cancelled"}]

OrdersInit ==
  /\ world \in Worlds
  /\ exch = [n \in Numbers |-> [state |-> "none", left |-> 0, done |-> 0]]
  /\ orders = [n \in Numbers |-> NoContext]
  /\ gone = {}
  /\ pc = [r \in Requests |-> "idle"]
  /\ op = [r \in Requests |-> "none"]
  /\ num = [r \in Requests |-> None]
  /\ meta = [r \in Requests |-> NoContext]
  /\ qty = [r \in Requests |-> 0]
  /\ new = [r \in Requests |-> None]
  /\ answer = [r \in Requests |-> "none"]

-----------------------------------------------------------------------------
Goto(r, l) == pc' = [pc EXCEPT ![r] = l]

End(r, a) ==
  /\ Goto(r, "answered")
  /\ answer' = [answer EXCEPT ![r] = a]

\* The orders on the page of open orders that is read.
Open == {n \in Numbers : exch[n].state = "open"}
Pages == IF world.lists = "short" THEN SUBSET Open ELSE {Open}

\* The context a row of that list makes.
Row(n) == [qty |-> exch[n].left + exch[n].done, left |-> exch[n].left, status |-> "pending"]

\* Fault: the map grows without a limit.
storeOrderContextUnbounded(n, c) == orders' = [orders EXCEPT ![n] = c]

\* storeOrderContext: beyond the limit the oldest contexts go; which one is the
\* oldest is left open here.
storeOrderContext(n, c) ==
  LET stored  == [orders EXCEPT ![n] = c]
      present == {m \in Numbers : stored[m] # NoContext}
  IN  IF Cardinality(present) <= Limit
        THEN orders' = stored
        ELSE \E S \in SUBSET present :
               /\ n \in S
               /\ Cardinality(S) = Limit
               /\ orders' = [m \in Numbers |-> IF m \in S THEN stored[m] ELSE NoContext]

-----------------------------------------------------------------------------
MayBegin(r) ==
  /\ pc[r] = "idle"
  /\ world.overlap \/ \A q \in Requests : pc[q] = "idle"

Begin(r, o, n) ==
  /\ MayBegin(r)
  /\ exch[n].state # "none"
  /\ op' = [op EXCEPT ![r] = o]
  /\ num' = [num EXCEPT ![r] = n]
  /\ Goto(r, IF o = "get" THEN "context" ELSE "resolve")
  /\ UNCHANGED <<world, exch, orders, gone, meta, qty, new, answer>>

BeginPlace(r) ==
  /\ MayBegin(r)
  /\ op' = [op EXCEPT ![r] = "place"]
  /\ Goto(r, "call")
  /\ UNCHANGED <<world, exch, orders, gone, num, meta, qty, new, answer>>

-----------------------------------------------------------------------------
(* resolveOrderContext.                                                    *)

\* Fault: the broker's list is not asked.
ResolveCachedOnly(r) ==
  /\ pc[r] = "resolve"
  /\ meta' = [meta EXCEPT ![r] = orders[num[r]]]
  /\ IF orders[num[r]] = NoContext
       THEN End(r, "notfound")
       ELSE Goto(r, "call") /\ UNCHANGED answer
  /\ UNCHANGED <<world, exch, orders, gone, op, num, qty, new>>

\* A context the adapter has is taken as it is.
Resolve(r) ==
  /\ pc[r] = "resolve"
  /\ meta' = [meta EXCEPT ![r] = orders[num[r]]]
  /\ Goto(r, IF orders[num[r]] = NoContext THEN "list" ELSE "call")
  /\ UNCHANGED <<world, exch, orders, gone, op, num, qty, new, answer>>

List(r) ==
  /\ pc[r] = "list"
  /\ \E page \in Pages :
       IF num[r] \in page
         THEN meta' = [meta EXCEPT ![r] = Row(num[r])] /\ Goto(r, "keep") /\ UNCHANGED answer
         ELSE End(r, "notfound") /\ UNCHANGED meta
  /\ UNCHANGED <<world, exch, orders, gone, op, num, qty, new>>

ListFails(r) ==
  /\ pc[r] = "list"
  /\ world.lists = "fail"
  /\ End(r, "error")
  /\ UNCHANGED <<world, exch, orders, gone, op, num, meta, qty, new>>

Keep(r) ==
  /\ pc[r] = "keep"
  /\ storeOrderContext(num[r], meta[r])
  /\ Goto(r, "call")
  /\ UNCHANGED <<world, exch, gone, op, num, meta, qty, new, answer>>

-----------------------------------------------------------------------------
(* PlaceOrder, CancelOrder and ModifyOrder.                                *)

\* The request is not valid, the broker refuses it or cannot be reached.
CallFails(r) ==
  /\ pc[r] = "call"
  /\ End(r, "error")
  /\ UNCHANGED <<world, exch, orders, gone, op, num, meta, qty, new>>

\* The numbers the exchange may give to an order or to the request itself.
Fresh ==
  IF Cardinality({m \in Numbers : exch[m].state # "none"}) < world.accepts
    THEN {m \in Numbers : exch[m].state = "none"}
    ELSE {}

\* The call took effect; either the answer arrives, or the adapter has an error.
ArrivesOrNot(r) ==
  \/ Goto(r, "store") /\ UNCHANGED answer
  \/ End(r, "error")

CallPlace(r, n, q) ==
  /\ pc[r] = "call" /\ op[r] = "place"
  /\ n \in Fresh
  /\ exch' = [exch EXCEPT ![n] = [state |-> "open", left |-> q, done |-> 0]]
  /\ new' = [new EXCEPT ![r] = n]
  /\ qty' = [qty EXCEPT ![r] = q]
  /\ ArrivesOrNot(r)
  /\ UNCHANGED <<world, orders, gone, op, num, meta>>

\* Fault: the quantity is not remembered.
PendingWithoutQty(q) == [qty |-> 0, left |-> 0, status |-> "pending"]

Pending(q) == [qty |-> q, left |-> q, status |-> "pending"]

StorePlaced(r) ==
  /\ pc[r] = "store" /\ op[r] = "place"
  /\ storeOrderContext(new[r], Pending(qty[r]))
  /\ End(r, "ok")
  /\ UNCHANGED <<world, exch, gone, op, num, meta, qty, new>>

\* The shares a cancellation asks for.
cancelQty(c) == IF c.left > 0 THEN c.left ELSE IF c.qty > 0 THEN c.qty ELSE 1

\* Asked for more than remains, the exchange cancels what there is or, in
\* CallFails, refuses.  The cancellation may get a number of its own.
CallCancel(r, n) ==
  /\ pc[r] = "call" /\ op[r] = "cancel"
  /\ exch[num[r]].state = "open"
  /\ n \in Fresh \cup {None}
  /\ LET left == exch[num[r]].left - IF cancelQty(meta[r]) < exch[num[r]].left
                                       THEN cancelQty(meta[r]) ELSE exch[num[r]].left
     IN  exch' = [m \in Numbers |->
           IF m = num[r] THEN [exch[m] EXCEPT !.left = left,
                                              !.state = IF left = 0 THEN "cancelled" ELSE "open"]
           ELSE IF m = n THEN [exch[m] EXCEPT !.state = "request"]
           ELSE exch[m]]
  /\ new' = [new EXCEPT ![r] = n]
  /\ ArrivesOrNot(r)
  /\ UNCHANGED <<world, orders, gone, op, num, meta, qty>>

Cancelled(r) == [meta[r] EXCEPT !.left = 0, !.status = "cancelled"]

EndCancelled(r) ==
  /\ End(r, "ok")
  /\ gone' = gone \cup {num[r]}

StoreCancelled(r) ==
  /\ pc[r] = "store" /\ op[r] = "cancel"
  /\ storeOrderContext(num[r], Cancelled(r))
  /\ IF new[r] = None
       THEN EndCancelled(r)
       ELSE Goto(r, "alias") /\ UNCHANGED <<gone, answer>>
  /\ UNCHANGED <<world, exch, op, num, meta, qty, new>>

\* The request keeps its quantity or changes it; the exchange replaces the order
\* by one of that many shares, if as many remain.  An answer without the number
\* leaves the adapter with the requested one.
CallModify(r, n, asked) ==
  /\ pc[r] = "call" /\ op[r] = "modify"
  /\ n \in Fresh
  /\ exch[num[r]].state = "open"
  /\ LET newQty == IF asked > 0 THEN asked ELSE meta[r].qty
     IN  /\ newQty \in 1..exch[num[r]].left
         /\ qty' = [qty EXCEPT ![r] = newQty]
         /\ exch' = [exch EXCEPT ![n] = [state |-> "open", left |-> newQty, done |-> 0],
                                 ![num[r]] = [@ EXCEPT !.state = "replaced", !.left = 0]]
  /\ \E m \in {n, num[r]} : new' = [new EXCEPT ![r] = m]
  /\ ArrivesOrNot(r)
  /\ UNCHANGED <<world, orders, gone, op, num, meta>>

StoreModified(r) ==
  /\ pc[r] = "store" /\ op[r] = "modify"
  /\ storeOrderContext(new[r], Pending(qty[r]))
  /\ IF new[r] # num[r]
       THEN Goto(r, "alias") /\ UNCHANGED answer
       ELSE End(r, "ok")
  /\ UNCHANGED <<world, exch, gone, op, num, meta, qty, new>>

\* The second number gets the same context: the cancellation's own, or the old
\* one of the modified order.
StoreAlias(r) ==
  /\ pc[r] = "alias"
  /\ IF op[r] = "cancel"
       THEN storeOrderContext(new[r], Cancelled(r)) /\ EndCancelled(r)
       ELSE storeOrderContext(num[r], Pending(qty[r])) /\ End(r, "ok") /\ UNCHANGED gone
  /\ UNCHANGED <<world, exch, op, num, meta, qty, new>>

-----------------------------------------------------------------------------
(* GetOrder.                                                               *)

ReadContext(r) ==
  /\ pc[r] = "context"
  /\ meta' = [meta EXCEPT ![r] = orders[num[r]]]
  /\ Goto(r, "unsettled")
  /\ UNCHANGED <<world, exch, orders, gone, op, num, qty, new, answer>>

\* Fault: the list of open orders is not looked at.
UnsettledSkipped(r) ==
  /\ pc[r] = "unsettled"
  /\ Goto(r, "again")
  /\ UNCHANGED <<world, exch, orders, gone, op, num, meta, qty, new, answer>>

\* An order on the list of open ones is pending, and its row is remembered.
Unsettled(r) ==
  /\ pc[r] = "unsettled"
  /\ \E page \in Pages :
       IF num[r] \in page
         THEN meta' = [meta EXCEPT ![r] = Row(num[r])] /\ Goto(r, "record")
         ELSE Goto(r, "again") /\ UNCHANGED meta
  /\ UNCHANGED <<world, exch, orders, gone, op, num, qty, new, answer>>

\* That list failing is ignored.
UnsettledFails(r) ==
  /\ pc[r] = "unsettled"
  /\ world.lists = "fail"
  /\ Goto(r, "again")
  /\ UNCHANGED <<world, exch, orders, gone, op, num, meta, qty, new, answer>>

Record(r) ==
  /\ pc[r] = "record"
  /\ storeOrderContext(num[r], meta[r])
  /\ End(r, "pending")
  /\ UNCHANGED <<world, exch, gone, op, num, meta, qty, new>>

\* GetOrderFills looks the context up once more, for the symbol.
ReadAgain(r) ==
  /\ pc[r] = "again"
  /\ Goto(r, "fills")
  /\ UNCHANGED <<world, exch, orders, gone, op, num, meta, qty, new, answer>>

\* Without executions, what the context said at the beginning has to do.
Remembered(r) ==
  /\ End(r, IF meta[r] = NoContext THEN "notfound" ELSE meta[r].status)
  /\ UNCHANGED qty

\* An order with executions is answered as filled, as far as they go; a page may
\* lack some or all of them.
Fills(r) ==
  /\ pc[r] = "fills"
  /\ \E executed \in IF world.lists = "short" THEN 0..exch[num[r]].done ELSE {exch[num[r]].done} :
       IF executed > 0
         THEN End(r, "filled") /\ qty' = [qty EXCEPT ![r] = executed]
         ELSE Remembered(r)
  /\ UNCHANGED <<world, exch, orders, gone, op, num, meta, new>>

FillsFail(r) ==
  /\ pc[r] = "fills"
  /\ world.lists = "fail"
  /\ Remembered(r)
  /\ UNCHANGED <<world, exch, orders, gone, op, num, meta, new>>

-----------------------------------------------------------------------------
\* The goroutine is free for the next request.
Return(r) ==
  /\ pc[r] = "answered"
  /\ Goto(r, "idle")
  /\ op' = [op EXCEPT ![r] = "none"]
  /\ num' = [num EXCEPT ![r] = None]
  /\ meta' = [meta EXCEPT ![r] = NoContext]
  /\ qty' = [qty EXCEPT ![r] = 0]
  /\ new' = [new EXCEPT ![r] = None]
  /\ answer' = [answer EXCEPT ![r] = "none"]
  /\ UNCHANGED <<world, exch, orders, gone>>

\* The exchange executes a share of an order, or ends it otherwise.
Execute(n) ==
  /\ exch[n].state = "open"
  /\ exch' = [exch EXCEPT ![n] = [state |-> IF @.left = 1 THEN "filled" ELSE "open",
                                  left |-> @.left - 1, done |-> @.done + 1]]
  /\ UNCHANGED <<world, orders, gone, request>>

Withdraw(n, s) ==
  /\ exch[n].state = "open"
  /\ exch' = [exch EXCEPT ![n] = [@ EXCEPT !.state = s, !.left = 0]]
  /\ UNCHANGED <<world, orders, gone, request>>

OrdersStep(r) ==
  \/ Resolve(r) \/ List(r) \/ ListFails(r) \/ Keep(r)
  \/ CallFails(r)
  \/ \E n \in Numbers, q \in 1..Shares : CallPlace(r, n, q)
  \/ \E n \in Numbers \cup {None} : CallCancel(r, n)
  \/ \E n \in Numbers, q \in 0..Shares : CallModify(r, n, q)
  \/ StorePlaced(r) \/ StoreCancelled(r) \/ StoreModified(r) \/ StoreAlias(r)
  \/ ReadContext(r) \/ Unsettled(r) \/ UnsettledFails(r) \/ Record(r)
  \/ ReadAgain(r) \/ Fills(r) \/ FillsFail(r)
  \/ Return(r)

OrdersNext ==
  \/ \E r \in Requests :
       \/ BeginPlace(r)
       \/ \E o \in {"cancel", "modify", "get"}, n \in Numbers : Begin(r, o, n)
       \/ OrdersStep(r)
  \/ \E n \in Numbers : Execute(n) \/ \E s \in {"cancelled", "rejected"} : Withdraw(n, s)

OrdersSpec == OrdersInit /\ [][OrdersNext]_ordersVars

-----------------------------------------------------------------------------
(* Properties.                                                             *)

\* Once a client was told that its order is cancelled, nothing of it is left at
\* the exchange.  CancelOrder asks for as many shares as the context says remain,
\* and contexts are made by placements, modifications, rows of a list read
\* earlier and other requests' answers, in any order: none may ever understate
\* what remains.
CancelledIsGone ==
  /\ \A n \in gone : exch[n].state # "open"
  /\ \A n \in Numbers : orders[n].status = "cancelled" => exch[n].state # "open"

\* An order answered as filled is not open any more, and the quantity reported is
\* all that was ever executed, although the two lists are read one after the
\* other while the exchange goes on (GetOrder).  For lists that are read whole:
\* the code neither follows their pages nor minds the first of them failing.
FilledHasEnded ==
  world.lists = "whole" =>
    \A r \in Requests :
      answer[r] = "filled" => exch[num[r]].state # "open" /\ qty[r] = exch[num[r]].done

\* An open order is found under its number, whether or not its context was
\* evicted or never stored because the broker's answer was lost, as long as the
\* page that is read has it.
OpenOrderIsFound ==
  world.lists # "short" =>
    \A r \in Requests : answer[r] = "notfound" => world.lists = "fail" \/ exch[num[r]].state # "open"
=============================================================================
