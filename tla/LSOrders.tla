------------------------------ MODULE LSOrders ------------------------------
(***************************************************************************)
(* The orders of one LS account (internal/ls/adapter/orders.go,            *)
(* order_context.go and adapter.go): requests that log in, place, cancel,  *)
(* modify and look up orders one at a time under actionMu, the contexts    *)
(* the adapter keeps and persists, and the exchange with the programs that *)
(* use it beside this one.                                                 *)
(*                                                                         *)
(* Each account's numbers are given anew every trading day.  Symbols,      *)
(* sides and prices are left out, and so are the pages of the order        *)
(* history: the row of an order is found once, or the lookup fails.        *)
(* Persist is atomic here; module OrderContextStore is about why.          *)
(***************************************************************************)
EXTENDS Naturals, FiniteSets

CONSTANTS
  Requests,  \* goroutines serving requests, one request after the other
  Numbers,   \* order numbers the exchange may give
  Creds,     \* app keys, each of an account of its own at the broker
  None,      \* nobody, no number, no app key
  Limit,     \* contexts kept (300 in the code)
  Worlds     \* circumstances of a behaviour: the disk may fail, other programs place
             \* orders, the exchange settles orders; and bounds of the model: the shares
             \* of an order, the trading days, the orders of a day and the contexts stored

ASSUME LSOrdersAssumption ==
  /\ None \notin Requests
  /\ None \notin Numbers
  /\ None \notin Creds
  /\ Limit \in Nat \ {0}
  /\ Worlds \subseteq [diskFails : BOOLEAN, others : BOOLEAN, settles : BOOLEAN,
                       qty : Nat, days : Nat, perDay : Nat, stores : Nat]

VARIABLES
  world,         \* the circumstances, which do not change
  day,           \* the trading day
  exch,          \* the day's orders at the exchange
  actionMu,      \* the request that holds the adapter's lock, None for nobody
  credentialID,  \* the app key orders are placed and managed with
  clientCred,    \* the app key the client has selected
  orders,        \* Adapter.orders
  orderLoadErr,  \* the contexts could not be loaded
  stored,        \* contexts stored so far, the clock behind PlacedAt
  file,          \* what the file holds
  unsaved,       \* the last Persist failed
  told,          \* the contexts of the orders a client was told the number of
  lost,          \* those that were not saved when the process died
  pc, op, num, meta, ask,
  found,         \* what GetOrder answers
  moved          \* the requests whose order has changed at the exchange by
                 \* itself since they named it

exchange == <<world, day, exch>>
identity == <<credentialID, clientCred>>
contexts == <<orders, orderLoadErr, stored, file, unsaved, told, lost>>
request  == <<pc, op, num, meta, ask, found, moved>>
vars     == <<exchange, actionMu, identity, contexts, request>>

Contexts   == [cred : Creds \cup {None}, day : Nat, at : Nat]
NoContext  == [cred |-> None, day |-> 0, at |-> 0]
NoContexts == [n \in Numbers |-> NoContext]

\* An account's order of the day, and whether it was placed through the adapter.
Exchange == [common : BOOLEAN, end : {"no", "cancelled", "rejected"},
             qty : Nat, filled : Nat, rem : Nat]
NoOrder  == [common |-> FALSE, end |-> "no", qty |-> 0, filled |-> 0, rem |-> 0]
NoOrders == [o \in Creds \X Numbers |-> NoOrder]

Statuses == {"pending", "filled", "cancelled", "rejected"}
Manages  == {"cancel", "modify", "get"}

\* The numbers that have a context, in the map or in the file.
Stored(m) == {n \in Numbers : m[n] # NoContext}

TypeOK ==
  /\ world \in Worlds
  /\ day \in Nat
  /\ exch \in [Creds \X Numbers -> Exchange]
  /\ actionMu \in Requests \cup {None}
  /\ credentialID \in Creds \cup {None}
  /\ clientCred \in Creds \cup {None}
  /\ orders \in [Numbers -> Contexts]
  /\ \A m \in {orders, file} : IsFiniteSet(Stored(m)) /\ Cardinality(Stored(m)) <= Limit
  /\ orderLoadErr \in BOOLEAN
  /\ stored \in Nat
  /\ file \in [Numbers -> Contexts]
  /\ unsaved \in BOOLEAN
  /\ told \subseteq Numbers \X Contexts
  /\ lost \subseteq told
  /\ pc \in [Requests -> {"idle", "login", "place", "lookup", "check", "call", "store",
                          "answered"}]
  /\ op \in [Requests -> {"none", "login", "place"} \cup Manages]
  /\ num \in [Requests -> Numbers \cup {None}]
  /\ meta \in [Requests -> Contexts]
  /\ ask \in [Requests -> Nat]
  /\ found \in [Requests -> Statuses]
  /\ moved \subseteq Requests

Init ==
  /\ world \in Worlds
  /\ day = 1
  /\ exch = NoOrders
  /\ actionMu = None
  /\ credentialID = None
  /\ clientCred = None
  /\ orders = NoContexts
  /\ orderLoadErr = FALSE
  /\ stored = 0
  /\ file = NoContexts
  /\ unsaved = FALSE
  /\ told = {}
  /\ lost = {}
  /\ pc = [r \in Requests |-> "idle"]
  /\ op = [r \in Requests |-> "none"]
  /\ num = [r \in Requests |-> None]
  /\ meta = [r \in Requests |-> NoContext]
  /\ ask = [r \in Requests |-> 0]
  /\ found = [r \in Requests |-> "pending"]
  /\ moved = {}

-----------------------------------------------------------------------------
(* The requests under actionMu.                                            *)

Goto(r, l) == pc' = [pc EXCEPT ![r] = l]

\* Fault: the requests do not wait for one another.
StartUnlocked(r, o, l) ==
  /\ pc[r] = "idle"
  /\ actionMu' = r
  /\ op' = [op EXCEPT ![r] = o]
  /\ Goto(r, l)

\* The request locks actionMu.
Start(r, o, l) ==
  /\ pc[r] = "idle"
  /\ actionMu = None
  /\ actionMu' = r
  /\ op' = [op EXCEPT ![r] = o]
  /\ Goto(r, l)

\* The goroutine is free for the next request.
Clear(r) ==
  /\ Goto(r, "idle")
  /\ op' = [op EXCEPT ![r] = "none"]
  /\ num' = [num EXCEPT ![r] = None]
  /\ meta' = [meta EXCEPT ![r] = NoContext]
  /\ ask' = [ask EXCEPT ![r] = 0]
  /\ found' = [found EXCEPT ![r] = "pending"]
  /\ moved' = moved \ {r}

\* The request answers, with a success or an error, and unlocks.
Leave(r) == Clear(r) /\ actionMu' = None

-----------------------------------------------------------------------------
(* Authenticate.                                                           *)

\* Fault: the previous login stays good for orders until the new one succeeds.
StartLoginKeeping(r, k) ==
  /\ Start(r, "login", "login")
  /\ clientCred' = k
  /\ UNCHANGED <<exchange, credentialID, contexts, num, meta, ask, found, moved>>

\* The client selects the new credentials before they have proved good.
StartLogin(r, k) ==
  /\ Start(r, "login", "login")
  /\ credentialID' = None
  /\ clientCred' = k
  /\ UNCHANGED <<exchange, contexts, num, meta, ask, found, moved>>

EndLogin(r) ==
  /\ pc[r] = "login"
  /\ credentialID' = clientCred \/ UNCHANGED credentialID
  /\ Leave(r)
  /\ UNCHANGED <<exchange, clientCred, contexts>>

-----------------------------------------------------------------------------
(* The contexts.                                                           *)

\* Fault: a map that could not be loaded is taken for an empty one.
readyThoughUnloaded == credentialID # None

orderContextReady == ~ orderLoadErr /\ credentialID # None

trackedOrder(n) ==
  /\ orderContextReady
  /\ orders[n] # NoContext
  /\ orders[n].cred = credentialID
  /\ orders[n].day = day

\* A map has this context or a newer one under its number, or is full of newer ones.
Holds(m, t) ==
  \/ m[t[1]].at >= t[2].at
  \/ Cardinality({n \in Numbers : m[n].at > t[2].at}) >= Limit

\* Fault: the map grows as long as the process lives.
CompactNothing(m) == m

\* Only the newest Limit contexts stay.
Compact(m) ==
  [n \in Numbers |-> IF Cardinality({o \in Numbers : m[o].at > m[n].at}) < Limit
                       THEN m[n] ELSE NoContext]

\* The map changes and is persisted under orderMu; an error is only logged.
storeOrderContext(n, c) ==
  /\ stored' = stored + 1
  /\ orders' = Compact([orders EXCEPT ![n] = c])
  /\ \/ file' = orders' /\ unsaved' = FALSE
     \/ world.diskFails /\ unsaved' = TRUE /\ UNCHANGED file
  /\ told' = told \cup {<<n, c>>}

\* The context of a placed order, or of the one that replaced an order; PlacedAt
\* is the time of storing.
NewContext(r) ==
  [cred |-> IF op[r] = "place" THEN credentialID ELSE meta[r].cred,
   day  |-> day,
   at   |-> stored + 1]

Store(r) ==
  /\ pc[r] = "store"
  /\ storeOrderContext(num[r], NewContext(r))
  /\ Leave(r)
  /\ UNCHANGED <<exchange, identity, orderLoadErr, lost>>

-----------------------------------------------------------------------------
(* PlaceOrder.                                                             *)

\* The market is closed around midnight: an order is accepted only when the
\* requests that started on an earlier day are over.
Accepts(k, n) ==
  /\ exch[<<k, n>>] = NoOrder
  /\ Cardinality({o \in Creds \X Numbers : exch[o] # NoOrder}) < world.perDay
  /\ \A r \in Requests : pc[r] \in {"lookup", "check", "call"} => meta[r].day = day

Opened(common, q) == [common |-> common, end |-> "no", qty |-> q, filled |-> 0, rem |-> q]

\* The exchange has opened order n for the request; either the answer arrives, or
\* the adapter has an error.
ArrivesOrNot(r, n) ==
  \/ /\ Goto(r, "store")
     /\ num' = [num EXCEPT ![r] = n]
     /\ UNCHANGED <<actionMu, op, meta, ask, found, moved>>
  \/ Leave(r)

StartPlace(r) ==
  /\ orderContextReady
  /\ Start(r, "place", "place")
  /\ UNCHANGED <<exchange, identity, contexts, num, meta, ask, found, moved>>

CallPlace(r, n, q) ==
  /\ pc[r] = "place"
  /\ stored < world.stores
  /\ Accepts(clientCred, n)
  /\ exch' = [exch EXCEPT ![<<clientCred, n>>] = Opened(TRUE, q)]
  /\ ArrivesOrNot(r, n)
  /\ UNCHANGED <<world, day, identity, contexts>>

-----------------------------------------------------------------------------
(* currentOrder, for CancelOrder, ModifyOrder and GetOrder.                *)

\* An order that is not tracked is refused at once, without a step.
StartManage(r, o, n) ==
  /\ Start(r, o, "lookup")
  /\ trackedOrder(n)
  /\ num' = [num EXCEPT ![r] = n]
  /\ meta' = [meta EXCEPT ![r] = orders[n]]
  /\ UNCHANGED <<exchange, identity, contexts, ask, found, moved>>

\* Fault: whatever has nothing left is filled.
StatusByRemainder(x) ==
  IF x.end # "no" THEN x.end ELSE IF x.rem = 0 THEN "filled" ELSE "pending"

\* GetOrder's reading of a row; a replaced order stays pending.
StatusOf(x) ==
  IF x.end = "rejected" \/ (x.end = "cancelled" /\ x.rem = 0) THEN x.end
  ELSE IF x.filled >= x.qty THEN "filled"
  ELSE "pending"

\* The row of the order, in the account the client is logged in to.
Row(r) == exch[<<clientCred, num[r]>>]

\* A cancellation asks for all that remains, a modification for a part of it.
LookUp(r) ==
  /\ pc[r] = "lookup"
  /\ Row(r) # NoOrder
  /\ \/ op[r] = "get" /\ UNCHANGED ask
     \/ op[r] = "cancel" /\ Row(r).rem > 0 /\ ask' = [ask EXCEPT ![r] = Row(r).rem]
     \/ op[r] = "modify" /\ \E q \in 1..Row(r).rem : ask' = [ask EXCEPT ![r] = q]
  /\ found' = [found EXCEPT ![r] = StatusOf(Row(r))]
  /\ Goto(r, "check")
  /\ UNCHANGED <<exchange, actionMu, identity, contexts, op, num, meta, moved>>

\* Once the pages are read, and before a call, the context is looked up again.
Check(r) ==
  /\ pc[r] = "check"
  /\ trackedOrder(num[r])
  /\ IF op[r] = "get"
       THEN Goto(r, "answered") /\ actionMu' = None
       ELSE Goto(r, "call") /\ UNCHANGED actionMu
  /\ UNCHANGED <<exchange, identity, contexts, op, num, meta, ask, found, moved>>

\* A page, a row, a quantity or the request is not as it should be, the context
\* has gone, the broker refuses or cannot be reached.
Fails(r) ==
  /\ pc[r] \in {"place", "lookup", "check", "call"}
  /\ Leave(r)
  /\ UNCHANGED <<exchange, identity, contexts>>

-----------------------------------------------------------------------------
(* The calls of CancelOrder and ModifyOrder.                               *)

\* The broker refuses what the account does not have.
Grants(r) == Row(r) # NoOrder /\ ask[r] <= Row(r).rem

\* An accepted cancellation is done at once, or later or never (see Settle).
CallCancel(r) ==
  /\ pc[r] = "call" /\ op[r] = "cancel"
  /\ Grants(r)
  /\ exch' = [exch EXCEPT ![<<clientCred, num[r]>>].rem = 0,
                           ![<<clientCred, num[r]>>].end = "cancelled"]
  /\ Leave(r)
  /\ UNCHANGED <<world, day, identity, contexts>>

\* The part that is modified becomes an order of its own.
CallModify(r, n) ==
  /\ pc[r] = "call" /\ op[r] = "modify"
  /\ stored < world.stores
  /\ Grants(r)
  /\ Accepts(clientCred, n)
  /\ exch' = [exch EXCEPT ![<<clientCred, num[r]>>].rem = @ - ask[r],
                           ![<<clientCred, n>>] = Opened(TRUE, ask[r])]
  /\ ArrivesOrNot(r, n)
  /\ UNCHANGED <<world, day, identity, contexts>>

Return(r) ==
  /\ pc[r] = "answered"
  /\ Clear(r)
  /\ UNCHANGED <<exchange, actionMu, identity, contexts>>

-----------------------------------------------------------------------------
\* The process dies, and a new one loads the contexts or has an error.
Restart ==
  /\ \/ orderLoadErr' = FALSE /\ orders' = Compact(file)
     \/ world.diskFails /\ orderLoadErr' = TRUE /\ orders' = NoContexts
  /\ lost' = lost \cup {t \in told : unsaved /\ ~ Holds(file, t)}
  /\ unsaved' = FALSE
  /\ actionMu' = None
  /\ credentialID' = None
  /\ clientCred' = None
  /\ pc' = [r \in Requests |-> "idle"]
  /\ op' = [r \in Requests |-> "none"]
  /\ num' = [r \in Requests |-> None]
  /\ meta' = [r \in Requests |-> NoContext]
  /\ ask' = [r \in Requests |-> 0]
  /\ found' = [r \in Requests |-> "pending"]
  /\ moved' = {}
  /\ UNCHANGED <<exchange, stored, file, told>>

\* The exchange fills a share, or the order is rejected or cancelled.
Settle(k, n) ==
  /\ world.settles
  /\ exch[<<k, n>>].rem > 0
  /\ \/ exch' = [exch EXCEPT ![<<k, n>>].filled = @ + 1, ![<<k, n>>].rem = @ - 1]
     \/ exch' = [exch EXCEPT ![<<k, n>>].end = "cancelled", ![<<k, n>>].rem = 0]
     \/ exch[<<k, n>>].filled = 0
        /\ exch' = [exch EXCEPT ![<<k, n>>].end = "rejected", ![<<k, n>>].rem = 0]
  /\ moved' = moved \cup {r \in Requests : num[r] = n /\ meta[r].cred = k}
  /\ UNCHANGED <<world, day, actionMu, identity, contexts, pc, op, num, meta, ask, found>>

\* Another program places an order, in this account or in another.
OtherPlaces(k, n, q) ==
  /\ world.others
  /\ Accepts(k, n)
  /\ exch' = [exch EXCEPT ![<<k, n>>] = Opened(FALSE, q)]
  /\ UNCHANGED <<world, day, actionMu, identity, contexts, request>>

\* Midnight; the broker accepts nothing in the last moment before it.
NewDay ==
  /\ day < world.days
  /\ \A r \in Requests : pc[r] # "store"
  /\ day' = day + 1
  /\ exch' = NoOrders
  /\ moved' = {r \in Requests : num[r] # None}
  /\ UNCHANGED <<world, actionMu, identity, contexts, pc, op, num, meta, ask, found>>

Step(r) ==
  \/ EndLogin(r)
  \/ \E n \in Numbers, q \in 1..world.qty : CallPlace(r, n, q)
  \/ Store(r) \/ LookUp(r) \/ Check(r) \/ Fails(r) \/ CallCancel(r)
  \/ \E n \in Numbers : CallModify(r, n)
  \/ Return(r)

Next ==
  \/ \E r \in Requests :
       \/ \E k \in Creds : StartLogin(r, k)
       \/ StartPlace(r)
       \/ \E o \in Manages, n \in Numbers : StartManage(r, o, n)
       \/ Step(r)
  \/ Restart
  \/ NewDay
  \/ \E k \in Creds, n \in Numbers :
       Settle(k, n) \/ \E q \in 1..world.qty : OtherPlaces(k, n, q)

Spec == Init /\ [][Next]_vars

-----------------------------------------------------------------------------
(* Properties.                                                             *)

\* A cancellation or a modification only ever reaches an order of the day that
\* was placed through this API with the credentials the client has selected,
\* through logins that fail, restarts and order numbers given anew each day
\* (credentialID in Authenticate, trackedOrder).
CallsOwnOrders ==
  \A r \in Requests :
    pc[r] = "call" => Row(r) = NoOrder \/ Row(r).common

\* What is asked for is still there, unless the exchange moved by itself: two
\* requests never both ask for the same remaining shares (actionMu; a quantity
\* never exceeds the unfilled quantity that was confirmed, doc/common-contract.md).
AskedIsThere ==
  \A r \in Requests :
    pc[r] = "call" /\ r \notin moved => ask[r] <= Row(r).rem

\* The context of an order a client was told of is kept until newer ones fill the
\* map, across restarts and loads that fail, unless it could never be saved
\* (storeOrderContext, orderLoadErr).
ToldIsKept ==
  \A t \in told \ lost : Holds(IF orderLoadErr THEN file ELSE orders, t)

\* A status other than pending is the order's last: GetOrder never takes an order
\* that was replaced, or cancelled in part, for a filled one.
FinalStatusIsTrue ==
  \A r \in Requests :
    LET x == exch[<<meta[r].cred, num[r]>>]
    IN  pc[r] = "answered" /\ meta[r].day = day =>
          /\ found[r] = "filled" => x.filled = x.qty
          /\ found[r] \in {"cancelled", "rejected"} => x.end = found[r] /\ x.rem = 0
=============================================================================
