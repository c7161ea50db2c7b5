------------------------------ MODULE KISOrders -----------------------------
(***************************************************************************)
(* The life of the orders of one KIS account (internal/kis/adapter/        *)
(* adapter.go): requests that place, cancel, modify and look up orders,    *)
(* the contexts the adapter keeps in memory, and the exchange, which fills *)
(* and refuses orders whenever it likes.                                   *)
(*                                                                         *)
(* The adapter holds its lock only to read or to change its map; every     *)
(* other step is a call of the broker, and requests interleave between     *)
(* them.  Quantities and prices are left out: a modification replaces the  *)
(* whole order.  How the map reaches the disk is the subject of module     *)
(* OrderContextStore; here a new process finds every context again.        *)
(***************************************************************************)
EXTENDS Naturals, FiniteSets

CONSTANTS
  Requests,  \* goroutines serving requests, one request after the other
  Numbers,   \* order numbers the exchange may give
  None,      \* no order number
  Limit,     \* contexts kept (300 in the code)
  Worlds     \* circumstances of a behaviour: requests overlap, lookups fail,
             \* and a bound of the model: the orders the exchange accepts

ASSUME KISOrdersAssumption ==
  /\ None \notin Numbers
  /\ Limit \in Nat \ {0}
  /\ Worlds \subseteq [overlap : BOOLEAN, lookupsFail : BOOLEAN, accepts : Nat]

VARIABLES
  world,    \* the circumstances, which do not change
  exch,     \* what the exchange knows of each number
  orders,   \* Adapter.orders: the context of each number, NoContext if none
  gone,     \* the numbers whose cancellation a client was told of
  pc,       \* where each request is
  op,       \* what it was asked for
  num,      \* the number it was asked about
  meta,     \* the context it works with (a copy)
  new,      \* the number the broker answered with
  found,    \* the status GetOrder has found
  answer,   \* what it answers
  before    \* gone when it began (GetOrder)

request == <<pc, op, num, meta, new, found, answer, before>>
vars == <<world, exch, orders, gone, request>>

Settled  == {"filled", "cancelled", "rejected"}
Statuses == {"pending"} \cup Settled
Contexts == [id : Numbers \cup {None}, org : BOOLEAN, overseas : BOOLEAN,
             status : Statuses]
NoContext == [id |-> None, org |-> FALSE, overseas |-> FALSE, status |-> "pending"]

Ops == {"none", "place", "cancel", "modify", "get", "fills"}
Answers == {"none", "ok", "error", "notfound"} \cup Statuses

\* The numbers that have a context.
Stored == {n \in Numbers : orders[n] # NoContext}

TypeOK ==
  /\ world \in Worlds
  /\ exch \in [Numbers -> [state : {"none", "open", "replaced"} \cup Settled,
                           parent : Numbers \cup {None},
                           overseas : BOOLEAN]]
  /\ orders \in [Numbers -> Contexts]
  /\ IsFiniteSet(Stored) /\ Cardinality(Stored) <= Limit
  /\ gone \subseteq Numbers
  /\ pc \in [Requests -> {"idle", "resolve", "list", "keep", "call", "store", "alias",
                          "remove", "daily", "open", "record", "answered"}]
  /\ op \in [Requests -> Ops]
  /\ num \in [Requests -> Numbers \cup {None}]
  /\ meta \in [Requests -> Contexts]
  /\ new \in [Requests -> Numbers \cup {None}]
  /\ found \in [Requests -> Statuses]
  /\ answer \in [Requests -> Answers]
  /\ before \in [Requests -> SUBSET Numbers]

Init ==
  /\ world \in Worlds
  /\ exch = [n \in Numbers |-> [state |-> "none", parent |-> None, overseas |-> FALSE]]
  /\ orders = [n \in Numbers |-> NoContext]
  /\ gone = {}
  /\ pc = [r \in Requests |-> "idle"]
  /\ op = [r \in Requests |-> "none"]
  /\ num = [r \in Requests |-> None]
  /\ meta = [r \in Requests |-> NoContext]
  /\ new = [r \in Requests |-> None]
  /\ found = [r \in Requests |-> "pending"]
  /\ answer = [r \in Requests |-> "none"]
  /\ before = [r \in Requests |-> {}]

-----------------------------------------------------------------------------
Goto(r, l) == pc' = [pc EXCEPT ![r] = l]

\* The request ends with this answer.
End(r, a) ==
  /\ Goto(r, "answered")
  /\ answer' = [answer EXCEPT ![r] = a]

\* The orders of the exchange's lists that the code takes for number n: the
\* order itself and the one that replaced it.
Family(n) == {m \in Numbers : exch[m].state # "none" /\ (m = n \/ exch[m].parent = n)}

\* The list of orders that can still be cancelled has domestic orders only.
OpenList == {m \in Numbers : exch[m].state = "open" /\ ~ exch[m].overseas}

\* Fault: the map is not compacted.
storeUnbounded(n, c) == orders' = [orders EXCEPT ![n] = c]

\* storeOrderContext: beyond the limit the oldest contexts go; which one is the
\* oldest is left open here.
storeOrderContext(n, c) ==
  LET stored == [orders EXCEPT ![n] = c]
      Kept(S) == [m \in Numbers |-> IF m \in S THEN stored[m] ELSE NoContext]
      present == {m \in Numbers : stored[m] # NoContext}
  IN  IF Cardinality(present) <= Limit
        THEN orders' = stored
        ELSE \E S \in SUBSET present :
               /\ n \in S
               /\ Cardinality(S) = Limit
               /\ orders' = Kept(S)

-----------------------------------------------------------------------------
(* A request begins.                                                       *)

MayBegin(r) ==
  /\ pc[r] = "idle"
  /\ world.overlap \/ \A q \in Requests : pc[q] = "idle"

Begin(r, o, n) ==
  /\ MayBegin(r)
  /\ exch[n].state # "none"
  /\ op' = [op EXCEPT ![r] = o]
  /\ num' = [num EXCEPT ![r] = n]
  /\ before' = [before EXCEPT ![r] = IF o = "get" THEN gone ELSE {}]
  /\ Goto(r, "resolve")
  /\ UNCHANGED <<world, exch, orders, gone, meta, new, found, answer>>

BeginPlace(r) ==
  /\ MayBegin(r)
  /\ op' = [op EXCEPT ![r] = "place"]
  /\ Goto(r, "call")
  /\ UNCHANGED <<world, exch, orders, gone, num, meta, new, found, answer, before>>

-----------------------------------------------------------------------------
(* resolveOrderContext.                                                    *)

\* What follows once the context is known.
Resolved(r, c) ==
  \/ /\ op[r] \in {"cancel", "modify"}
     /\ Goto(r, "call")
     /\ UNCHANGED <<found, answer>>
  \/ /\ op[r] = "get" /\ c.status = "cancelled"
     /\ Goto(r, "record")
     /\ found' = [found EXCEPT ![r] = "cancelled"]
     /\ UNCHANGED answer
  \/ /\ op[r] = "get" /\ c.status # "cancelled"
     /\ Goto(r, "daily")
     /\ UNCHANGED <<found, answer>>
  \/ /\ op[r] = "fills"
     /\ End(r, "ok")
     /\ UNCHANGED found

\* getOrderContext: a context that knows the order's branch is taken as it is.
Resolve(r) ==
  /\ pc[r] = "resolve"
  /\ meta' = [meta EXCEPT ![r] = orders[num[r]]]
  /\ IF orders[num[r]].overseas \/ orders[num[r]].org
       THEN Resolved(r, orders[num[r]])
       ELSE Goto(r, "list") /\ UNCHANGED <<found, answer>>
  /\ UNCHANGED <<world, exch, orders, gone, op, num, new, before>>

\* Fault: an order without a context is not looked for at the broker.
ListCachedOnly(r) ==
  /\ pc[r] = "list"
  /\ IF meta[r] # NoContext
       THEN Resolved(r, meta[r])
       ELSE End(r, "notfound") /\ UNCHANGED found
  /\ UNCHANGED <<world, exch, orders, gone, op, num, meta, new, before>>

\* strictInquirePossibleRvseCncl: an order of the list replaces the context; else
\* the cached one must do.
ListFails(r) ==
  /\ pc[r] = "list"
  /\ world.lookupsFail
  /\ IF meta[r] # NoContext
       THEN Resolved(r, meta[r])
       ELSE End(r, "error") /\ UNCHANGED found
  /\ UNCHANGED <<world, exch, orders, gone, op, num, meta, new, before>>

List(r) ==
  /\ pc[r] = "list"
  /\ \/ \E n \in OpenList \cap Family(num[r]) :
          /\ meta' = [meta EXCEPT ![r] = [id |-> n, org |-> TRUE, overseas |-> FALSE,
                                          status |-> "pending"]]
          /\ Goto(r, "keep")
          /\ UNCHANGED <<found, answer>>
     \/ /\ OpenList \cap Family(num[r]) = {}
        /\ UNCHANGED meta
        /\ IF meta[r] # NoContext
             THEN Resolved(r, meta[r])
             ELSE End(r, "notfound") /\ UNCHANGED found
  /\ UNCHANGED <<world, exch, orders, gone, op, num, new, before>>

Keep(r) ==
  /\ pc[r] = "keep"
  /\ storeOrderContext(meta[r].id, meta[r])
  /\ Resolved(r, meta[r])
  /\ UNCHANGED <<world, exch, gone, op, num, meta, new, before>>

-----------------------------------------------------------------------------
(* PlaceOrder, CancelOrder and ModifyOrder.                                *)

\* The request is not valid, the broker refuses it or cannot be reached.
CallFails(r) ==
  /\ pc[r] = "call"
  /\ End(r, "error")
  /\ UNCHANGED <<world, exch, orders, gone, op, num, meta, new, found, before>>

\* The exchange opens a new order n.
Accept(n, parent, overseas) ==
  /\ exch[n].state = "none"
  /\ Cardinality({m \in Numbers : exch[m].state # "none"}) < world.accepts
  /\ exch' = [m \in Numbers |->
       IF m = n THEN [state |-> "open", parent |-> parent, overseas |-> overseas]
       ELSE IF m = parent THEN [exch[m] EXCEPT !.state = "replaced"]
       ELSE exch[m]]

\* The call took effect; either the answer arrives, or the adapter has an error.
ArrivesOrNot(r, next) ==
  \/ Goto(r, next) /\ UNCHANGED answer
  \/ End(r, "error")

CallPlace(r, n, overseas) ==
  /\ pc[r] = "call" /\ op[r] = "place"
  /\ Accept(n, None, overseas)
  /\ new' = [new EXCEPT ![r] = n]
  /\ ArrivesOrNot(r, "store")
  /\ UNCHANGED <<world, orders, gone, op, num, meta, found, before>>

\* Only a domestic answer names the branch.
StorePlaced(r) ==
  /\ pc[r] = "store" /\ op[r] = "place"
  /\ storeOrderContext(new[r], [id |-> new[r], org |-> ~ exch[new[r]].overseas,
                                overseas |-> exch[new[r]].overseas, status |-> "pending"])
  /\ End(r, "ok")
  /\ UNCHANGED <<world, exch, gone, op, num, meta, new, found, before>>

\* Fault: an answer that did not arrive is taken for a success.
CallCancelBlind(r) ==
  /\ pc[r] = "call" /\ op[r] = "cancel"
  /\ exch' = [exch EXCEPT ![meta[r].id].state = IF @ = "open" THEN "cancelled" ELSE @]
  /\ Goto(r, "store")
  /\ UNCHANGED <<world, orders, gone, op, num, meta, new, found, answer, before>>

CallCancel(r) ==
  /\ pc[r] = "call" /\ op[r] = "cancel"
  /\ exch[meta[r].id].state = "open"
  /\ exch' = [exch EXCEPT ![meta[r].id].state = "cancelled"]
  /\ ArrivesOrNot(r, "store")
  /\ UNCHANGED <<world, orders, gone, op, num, meta, new, found, before>>

\* The context of the order is stored under its number and, when the request
\* named another one, under that.
Cancelled(r) == [meta[r] EXCEPT !.status = "cancelled"]

EndCancelled(r) ==
  /\ End(r, "ok")
  /\ gone' = gone \cup {meta[r].id}

\* Fault: the stored context keeps its status.
StoreCancelledStale(r) ==
  /\ pc[r] = "store" /\ op[r] = "cancel"
  /\ storeOrderContext(meta[r].id, meta[r])
  /\ EndCancelled(r)
  /\ UNCHANGED <<world, exch, op, num, meta, new, found, before>>

StoreCancelled(r) ==
  /\ pc[r] = "store" /\ op[r] = "cancel"
  /\ storeOrderContext(meta[r].id, Cancelled(r))
  /\ IF meta[r].id # num[r]
       THEN Goto(r, "alias") /\ UNCHANGED <<gone, answer>>
       ELSE EndCancelled(r)
  /\ UNCHANGED <<world, exch, op, num, meta, new, found, before>>

StoreAlias(r) ==
  /\ pc[r] = "alias"
  /\ storeOrderContext(num[r], Cancelled(r))
  /\ EndCancelled(r)
  /\ UNCHANGED <<world, exch, op, num, meta, new, found, before>>

\* The exchange replaces the order by one with a number of its own; an answer
\* without the number leaves the adapter with the requested one.
CallModify(r, n) ==
  /\ pc[r] = "call" /\ op[r] = "modify"
  /\ exch[meta[r].id].state = "open"
  /\ Accept(n, meta[r].id, meta[r].overseas)
  /\ \E m \in {n, num[r]} : new' = [new EXCEPT ![r] = m]
  /\ ArrivesOrNot(r, "store")
  /\ UNCHANGED <<world, orders, gone, op, num, meta, found, before>>

StoreModified(r, org) ==
  /\ pc[r] = "store" /\ op[r] = "modify"
  /\ storeOrderContext(new[r], [meta[r] EXCEPT !.id = new[r], !.org = org,
                                               !.status = "pending"])
  /\ IF new[r] # num[r]
       THEN Goto(r, "remove") /\ UNCHANGED answer
       ELSE End(r, "ok")
  /\ UNCHANGED <<world, exch, gone, op, num, meta, new, found, before>>

removeOrderContext(r) ==
  /\ pc[r] = "remove"
  /\ orders' = [orders EXCEPT ![num[r]] = NoContext]
  /\ End(r, "ok")
  /\ UNCHANGED <<world, exch, gone, op, num, meta, new, found, before>>

-----------------------------------------------------------------------------
(* GetOrder.                                                               *)

\* Fault: whatever has nothing left is filled.
ListedByRemainder(n) == IF exch[n].state \in {"replaced", "cancelled"} THEN "filled" ELSE exch[n].state

\* What the list of the days' executions says of an order: an order that is
\* replaced, and an overseas order that is cancelled, look pending.
Listed(n) ==
  IF exch[n].state \in Settled /\ ~ (exch[n].overseas /\ exch[n].state = "cancelled")
    THEN exch[n].state
    ELSE "pending"

\* resolveRemoteOrderSnapshot.
Daily(r) ==
  /\ pc[r] = "daily"
  /\ \E n \in Family(meta[r].id) : found' = [found EXCEPT ![r] = Listed(n)]
  /\ Goto(r, "record")
  /\ UNCHANGED <<world, exch, orders, gone, op, num, meta, new, answer, before>>

\* The executions cannot be read: for a domestic order the open list has to do.
DailyFails(r) ==
  /\ pc[r] = "daily"
  /\ world.lookupsFail
  /\ found' = [found EXCEPT ![r] = meta[r].status]
  /\ Goto(r, IF meta[r].overseas THEN "record" ELSE "open")
  /\ UNCHANGED <<world, exch, orders, gone, op, num, meta, new, answer, before>>

\* An order that is not open and was pending is taken for filled.
CheckOpen(r) ==
  /\ pc[r] = "open"
  /\ found' = [found EXCEPT ![r] =
                 IF OpenList \cap Family(meta[r].id) # {} THEN "pending"
                 ELSE IF @ = "pending" THEN "filled" ELSE @]
  /\ Goto(r, "record")
  /\ UNCHANGED <<world, exch, orders, gone, op, num, meta, new, answer, before>>

OpenFails(r) ==
  /\ pc[r] = "open"
  /\ Goto(r, "record")
  /\ UNCHANGED <<world, exch, orders, gone, op, num, meta, new, found, answer, before>>

\* A status other than the context's is stored.
Record(r) ==
  /\ pc[r] = "record"
  /\ IF found[r] # meta[r].status
       THEN storeOrderContext(meta[r].id, [meta[r] EXCEPT !.status = found[r]])
       ELSE UNCHANGED orders
  /\ End(r, found[r])
  /\ UNCHANGED <<world, exch, gone, op, num, meta, new, found, before>>

-----------------------------------------------------------------------------
\* The goroutine is free for the next request.
Return(r) ==
  /\ pc[r] = "answered"
  /\ Goto(r, "idle")
  /\ op' = [op EXCEPT ![r] = "none"]
  /\ num' = [num EXCEPT ![r] = None]
  /\ meta' = [meta EXCEPT ![r] = NoContext]
  /\ new' = [new EXCEPT ![r] = None]
  /\ found' = [found EXCEPT ![r] = "pending"]
  /\ answer' = [answer EXCEPT ![r] = "none"]
  /\ before' = [before EXCEPT ![r] = {}]
  /\ UNCHANGED <<world, exch, orders, gone>>

\* The process dies with its requests.
Restart ==
  /\ pc' = [r \in Requests |-> "idle"]
  /\ op' = [r \in Requests |-> "none"]
  /\ num' = [r \in Requests |-> None]
  /\ meta' = [r \in Requests |-> NoContext]
  /\ new' = [r \in Requests |-> None]
  /\ found' = [r \in Requests |-> "pending"]
  /\ answer' = [r \in Requests |-> "none"]
  /\ before' = [r \in Requests |-> {}]
  /\ UNCHANGED <<world, exch, orders, gone>>

\* The exchange fills or rejects an order, or its owner cancels it elsewhere.
Settle(n, s) ==
  /\ exch[n].state = "open"
  /\ exch' = [exch EXCEPT ![n].state = s]
  /\ UNCHANGED <<world, orders, gone, request>>

Step(r) ==
  \/ Resolve(r) \/ ListFails(r) \/ List(r) \/ Keep(r)
  \/ CallFails(r) \/ CallCancel(r)
  \/ \E n \in Numbers, overseas \in BOOLEAN : CallPlace(r, n, overseas)
  \/ \E n \in Numbers : CallModify(r, n)
  \/ \E org \in BOOLEAN : StoreModified(r, org)
  \/ StorePlaced(r) \/ StoreCancelled(r) \/ StoreAlias(r) \/ removeOrderContext(r)
  \/ Daily(r) \/ DailyFails(r) \/ CheckOpen(r) \/ OpenFails(r) \/ Record(r)
  \/ Return(r)

Next ==
  \/ \E r \in Requests :
       \/ BeginPlace(r)
       \/ \E o \in Ops \ {"none", "place"}, n \in Numbers : Begin(r, o, n)
       \/ Step(r)
  \/ \E n \in Numbers, s \in Settled : Settle(n, s)
  \/ Restart

Spec == Init /\ [][Next]_vars

-----------------------------------------------------------------------------
(* Properties.                                                             *)

\* Order n, or the order that replaced it, is in this state.
IsOrBecame(n, s) == \E m \in Family(n) : exch[m].state = s

\* Whatever interleaves and fails, the adapter takes an order for cancelled only
\* when it is: CancelOrder stores the status after the broker has confirmed it,
\* and from then on GetOrder answers without asking.
CancelledIsCancelled ==
  /\ \A n \in Numbers :
       orders[n].status = "cancelled" => IsOrBecame(orders[n].id, "cancelled")
  /\ \A r \in Requests :
       answer[r] = "cancelled" => IsOrBecame(meta[r].id, "cancelled")

\* As long as the broker's lists can be read, an order is remembered as filled
\* or rejected only when it was, also when it is modified or cancelled while
\* GetOrder reads them.
FilledIsFilled ==
  ~ world.lookupsFail =>
    \A n \in Numbers, s \in {"filled", "rejected"} :
      orders[n].status = s => IsOrBecame(orders[n].id, s)

\* Once a client was told that an order is cancelled, no GetOrder that begins
\* later gives it another status.
CancelledStays ==
  \A r \in Requests :
    answer[r] \in Statuses /\ meta[r].id \in before[r] => answer[r] = "cancelled"

\* A domestic order that is open is found under its number, whether or not its
\* context was evicted, or never stored because the server died or the
\* broker's answer was lost.
OpenOrderIsFound ==
  \A r \in Requests :
    answer[r] = "notfound" => exch[num[r]].state # "open" \/ exch[num[r]].overseas

\* "GetOrder returns current order status": an order answered as filled was.
FilledAnswerIsTrue ==
  \A r \in Requests : answer[r] = "filled" => IsOrBecame(meta[r].id, "filled")
=============================================================================
