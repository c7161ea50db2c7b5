--------------------------- MODULE LSOrders_proofs --------------------------
(***************************************************************************)
(* The LS adapter only ever manages its own orders, never asks for more    *)
(* than there is, and answers final statuses that are true, for any number *)
(* of requests, order numbers, app keys and days (module LSOrders).        *)
(***************************************************************************)
EXTENDS LSOrders, FiniteSetTheorems, WellFoundedInduction, TLAPS

Locked == {"login", "place", "lookup", "check", "call", "store"}
Steps  == Locked \cup {"idle", "answered"}

ExchangeTypeOK ==
  /\ world \in Worlds
  /\ day \in Nat
  /\ exch \in [Creds \X Numbers -> Exchange]

AdapterTypeOK ==
  /\ actionMu \in Requests \cup {None}
  /\ credentialID \in Creds \cup {None}
  /\ clientCred \in Creds \cup {None}
  /\ orders \in [Numbers -> Contexts]
  /\ file \in [Numbers -> Contexts]
  /\ stored \in Nat

RequestTypeOK ==
  /\ pc \in [Requests -> Steps]
  /\ op \in [Requests -> {"none", "login", "place"} \cup Manages]
  /\ num \in [Requests -> Numbers \cup {None}]
  /\ meta \in [Requests -> Contexts]
  /\ ask \in [Requests -> Nat]
  /\ found \in [Requests -> Statuses]

\* An order has shares, and never more filled and remaining than it has; nothing
\* remains of a rejected one.
CellTrue(x) ==
  /\ x # NoOrder => x.qty > 0 /\ x.filled + x.rem <= x.qty
  /\ x.end = "rejected" => x.rem = 0

CellsTrue == \A k \in Creds, n \in Numbers : CellTrue(exch[<<k, n>>])

\* One request at a time is under way, and only with a login that succeeded.
LockInv ==
  /\ \A r \in Requests : pc[r] \in Locked => actionMu = r
  /\ credentialID # None => credentialID = clientCred
  /\ \A r \in Requests : pc[r] \in Locked \ {"login"} => credentialID # None

\* A context of the day is that of an order of the adapter's.
ContextTrue(n, c) ==
  c # NoContext => c.cred \in Creds /\ c.day <= day /\ (c.day = day => exch[<<c.cred, n>>].common)

ContextsInv == \A n \in Numbers : ContextTrue(n, orders[n]) /\ ContextTrue(n, file[n])

\* What a request has in hand.
InHand(r) ==
  /\ pc[r] \in {"lookup", "check", "call", "answered"} =>
       num[r] \in Numbers /\ meta[r].cred \in Creds /\ meta[r].day <= day
  /\ pc[r] \in {"lookup", "check", "call"} => meta[r].cred = clientCred
  /\ pc[r] \in {"lookup", "check", "call"} => op[r] \in Manages
  /\ pc[r] = "call" => op[r] # "get"
  /\ pc[r] = "place" => op[r] = "place"
  /\ pc[r] \in {"check", "call"} /\ op[r] # "get" => ask[r] > 0
  /\ pc[r] = "store" => num[r] \in Numbers /\ (op[r] # "place" => meta[r].cred = clientCred)

\* What the exchange says of the order in hand.  One that is named on an earlier day
\* than today's is not there.
InHandTrue(r) ==
  LET x == exch[<<meta[r].cred, num[r]>>]
  IN  /\ pc[r] \in {"lookup", "check", "call"} /\ meta[r].day # day => x = NoOrder
      /\ pc[r] = "call" /\ meta[r].day = day => x.common
      /\ pc[r] \in {"check", "call"} /\ op[r] # "get" /\ r \notin moved => x # NoOrder /\ ask[r] <= x.rem
      /\ pc[r] \in {"check", "answered"} /\ meta[r].day = day =>
           /\ x # NoOrder
           /\ found[r] = "filled" => x.filled = x.qty
           /\ found[r] \in {"cancelled", "rejected"} => x.end = found[r] /\ x.rem = 0
      /\ pc[r] = "store" => exch[<<clientCred, num[r]>>].common

RequestInv(r) == InHand(r) /\ InHandTrue(r)

\* The inductive invariant.
IInv ==
  /\ ExchangeTypeOK /\ AdapterTypeOK /\ RequestTypeOK
  /\ CellsTrue /\ LockInv /\ ContextsInv
  /\ \A r \in Requests : RequestInv(r)

-----------------------------------------------------------------------------
LEMMA NoneTypes ==
  /\ NoContext \in Contexts /\ NoOrder \in Exchange
  /\ \A r \in Requests : r # None
  /\ \A n \in Numbers : n # None
  /\ \A k \in Creds : k # None
BY LSOrdersAssumption DEF Contexts, NoContext, NoOrder, Exchange

LEMMA IInvImplies == ASSUME IInv PROVE CallsOwnOrders /\ AskedIsThere /\ FinalStatusIsTrue
<1>1. CallsOwnOrders
  BY DEF IInv, RequestInv, InHand, InHandTrue, CallsOwnOrders, Row
<1>2. AskedIsThere
  BY DEF IInv, RequestInv, InHand, InHandTrue, AskedIsThere, Row
<1>3. FinalStatusIsTrue
  BY DEF IInv, RequestInv, InHandTrue, FinalStatusIsTrue
<1> QED
  BY <1>1, <1>2, <1>3

LEMMA IInvInit == ASSUME Init PROVE IInv
<1>1. ExchangeTypeOK /\ CellsTrue
  <2>1. exch \in [Creds \X Numbers -> Exchange] /\ \A k \in Creds, n \in Numbers : exch[<<k, n>>] = NoOrder
    BY NoneTypes DEF Init, NoOrders
  <2> QED
    BY <2>1 DEF Init, ExchangeTypeOK, CellsTrue, CellTrue, NoOrder
<1>2. AdapterTypeOK
  BY NoneTypes DEF Init, AdapterTypeOK, NoContexts
<1>3. RequestTypeOK
  BY NoneTypes DEF Init, RequestTypeOK, Steps, Manages, Statuses
<1>4. LockInv /\ ContextsInv
  BY DEF Init, LockInv, Locked, ContextsInv, ContextTrue, NoContexts
<1>5. \A r \in Requests : RequestInv(r)
  BY DEF Init, RequestInv, InHand, InHandTrue
<1> QED
  BY <1>1, <1>2, <1>3, <1>4, <1>5 DEF IInv

-----------------------------------------------------------------------------
(* What happens at the exchange within a day.                              *)

\* An order stays, keeps whose it is and its shares, and is left alone once nothing
\* remains of it.
Evolves(x, y) ==
  x # NoOrder =>
    /\ y # NoOrder /\ y.common = x.common /\ y.qty = x.qty
    /\ x.rem = 0 => y.rem = 0 /\ y.end = x.end /\ y.filled = x.filled

CellsEvolve == \A k \in Creds, n \in Numbers : Evolves(exch[<<k, n>>], exch'[<<k, n>>])

LEMMA NoneEvolves == ASSUME UNCHANGED exch PROVE CellsEvolve
BY DEF CellsEvolve, Evolves

\* One order changes.
LEMMA CellSet ==
  ASSUME exch \in [Creds \X Numbers -> Exchange], NEW k \in Creds, NEW n \in Numbers,
         NEW x \in Exchange, exch' = [exch EXCEPT ![<<k, n>>] = x]
  PROVE  /\ exch' \in [Creds \X Numbers -> Exchange]
         /\ exch'[<<k, n>>] = x
         /\ \A j \in Creds, m \in Numbers : j # k \/ m # n => exch'[<<j, m>>] = exch[<<j, m>>]
OBVIOUS

\* Contexts stay true within a day.
LEMMA ContextsStay ==
  ASSUME IInv, CellsEvolve, UNCHANGED <<day, orders, file>>
  PROVE  ContextsInv'
<1>1. NoOrder.common = FALSE
  BY DEF NoOrder
<1> QED
  BY <1>1 DEF IInv, ContextsInv, ContextTrue, CellsEvolve, Evolves

\* And so does what GetOrder has found.
LEMMA FoundStays ==
  ASSUME IInv, CellsEvolve, NEW d \in Requests, pc[d] \in {"check", "answered"}, meta[d].day = day
  PROVE  LET y == exch'[<<meta[d].cred, num[d]>>]
         IN  /\ y # NoOrder
             /\ found[d] = "filled" => y.filled = y.qty
             /\ found[d] \in {"cancelled", "rejected"} => y.end = found[d] /\ y.rem = 0
<1> DEFINE x == exch[<<meta[d].cred, num[d]>>]
           y == exch'[<<meta[d].cred, num[d]>>]
<1>1. num[d] \in Numbers /\ meta[d].cred \in Creds
  BY DEF IInv, RequestInv, InHand
<1>2. Evolves(x, y) /\ x \in Exchange /\ (x # NoOrder => x.filled + x.rem <= x.qty)
  BY <1>1 DEF CellsEvolve, IInv, CellsTrue, CellTrue, ExchangeTypeOK
<1>3. /\ x # NoOrder
      /\ found[d] = "filled" => x.filled = x.qty
      /\ found[d] \in {"cancelled", "rejected"} => x.end = found[d] /\ x.rem = 0
  BY DEF IInv, RequestInv, InHandTrue
<1>4. x # NoOrder /\ x.filled = x.qty => x.rem = 0
  BY <1>2 DEF Exchange
<1> QED
  BY <1>2, <1>3, <1>4 DEF Evolves

LEMMA AnsweredStays ==
  ASSUME IInv, CellsEvolve, UNCHANGED day,
         NEW d \in Requests, pc[d] \notin Locked,
         pc'[d] = pc[d], op'[d] = op[d], num'[d] = num[d], meta'[d] = meta[d], ask'[d] = ask[d],
         found'[d] = found[d]
  PROVE  RequestInv(d)'
<1>1. pc[d] \in {"idle", "answered"}
  BY DEF IInv, RequestTypeOK, Steps
<1>2. InHand(d)'
  BY <1>1 DEF IInv, RequestInv, InHand
<1>3. CASE pc[d] = "idle"
  BY <1>2, <1>3 DEF RequestInv, InHandTrue
<1>4. CASE pc[d] = "answered"
  BY <1>2, <1>4, FoundStays DEF RequestInv, InHandTrue
<1> QED
  BY <1>1, <1>3, <1>4

\* A request that is free for the next one.
LEMMA IdleTrue == ASSUME NEW r \in Requests, pc'[r] = "idle" PROVE RequestInv(r)'
BY DEF RequestInv, InHand, InHandTrue

\* While a request holds the lock, the others are done or not begun.
LEMMA OthersUnlocked ==
  ASSUME IInv, NEW r \in Requests, actionMu \in {r, None}
  PROVE  \A d \in Requests \ {r} : pc[d] \notin Locked
BY NoneTypes DEF IInv, LockInv
\* A step of one request that keeps every order.
LEMMA StepOf ==
  ASSUME IInv, NEW r \in Requests, actionMu \in {r, None}, CellsEvolve, UNCHANGED <<day, orders, file>>,
         \A d \in Requests \ {r} :
           /\ pc'[d] = pc[d] /\ op'[d] = op[d] /\ num'[d] = num[d] /\ meta'[d] = meta[d]
           /\ ask'[d] = ask[d] /\ found'[d] = found[d],
         ExchangeTypeOK', AdapterTypeOK', RequestTypeOK', CellsTrue', LockInv', RequestInv(r)'
  PROVE  IInv'
<1>1. ContextsInv'
  BY ContextsStay
<1>2. \A d \in Requests \ {r} : RequestInv(d)'
  BY OthersUnlocked, AnsweredStays
<1> QED
  BY <1>1, <1>2 DEF IInv

\* The request ends.
LEMMA ClearTypes ==
  ASSUME IInv, NEW r \in Requests, Clear(r)
  PROVE  /\ RequestTypeOK' /\ pc'[r] = "idle"
         /\ \A d \in Requests \ {r} :
              /\ pc'[d] = pc[d] /\ op'[d] = op[d] /\ num'[d] = num[d] /\ meta'[d] = meta[d]
              /\ ask'[d] = ask[d] /\ found'[d] = found[d]
BY NoneTypes DEF IInv, RequestTypeOK, Clear, Goto, Steps, Statuses

\* Ending a request keeps the lock's part of the invariant.
LEMMA LeaveLock ==
  ASSUME IInv, NEW r \in Requests, actionMu \in {r, None}, Leave(r), UNCHANGED clientCred,
         credentialID' \in {credentialID, clientCred}
  PROVE  LockInv' /\ RequestInv(r)'
<1>1. \A d \in Requests : pc'[d] \notin Locked
  BY ClearTypes, OthersUnlocked DEF Leave, Locked
<1>2. RequestInv(r)'
  BY ClearTypes, IdleTrue DEF Leave
<1> QED
  BY <1>1, <1>2 DEF IInv, LockInv, Locked

-----------------------------------------------------------------------------
(* Logging in.                                                             *)

LEMMA StartTypes ==
  ASSUME IInv, NEW r \in Requests, NEW o \in {"login", "place"} \cup Manages,
         NEW l \in Locked, Start(r, o, l)
  PROVE  /\ actionMu = None /\ actionMu' = r /\ pc'[r] = l /\ op'[r] = o
         /\ pc' \in [Requests -> Steps]
         /\ op' \in [Requests -> {"none", "login", "place"} \cup Manages]
         /\ \A d \in Requests \ {r} : pc'[d] = pc[d] /\ op'[d] = op[d]
         /\ \A d \in Requests \ {r} : pc'[d] \notin Locked
<1>1. \A d \in Requests \ {r} : pc[d] \notin Locked
  BY OthersUnlocked DEF Start
<1> QED
  BY <1>1 DEF IInv, RequestTypeOK, Start, Goto, Steps

LEMMA StartLoginKeeps ==
  ASSUME IInv, NEW r \in Requests, NEW k \in Creds, StartLogin(r, k)
  PROVE  IInv'
<1>1. Start(r, "login", "login") /\ "login" \in Locked
  BY DEF StartLogin, Locked
<1>2. RequestTypeOK'
  BY <1>1, StartTypes DEF StartLogin, IInv, RequestTypeOK
<1>3. ExchangeTypeOK' /\ AdapterTypeOK' /\ CellsTrue' /\ CellsEvolve
  BY <1>1, StartTypes, NoneEvolves
  DEF StartLogin, IInv, ExchangeTypeOK, AdapterTypeOK, CellsTrue, exchange, contexts
<1>4. LockInv'
  BY <1>1, StartTypes DEF StartLogin, LockInv
<1>5. RequestInv(r)'
  BY <1>1, StartTypes DEF StartLogin, RequestInv, InHand, InHandTrue
<1>6. \A d \in Requests \ {r} :
        /\ pc'[d] = pc[d] /\ op'[d] = op[d] /\ num'[d] = num[d] /\ meta'[d] = meta[d]
        /\ ask'[d] = ask[d] /\ found'[d] = found[d]
  BY <1>1, StartTypes DEF StartLogin
<1> QED
  BY <1>1, <1>2, <1>3, <1>4, <1>5, <1>6, StepOf DEF StartLogin, Start, exchange, contexts

\* A request under way has the lock.
LEMMA HasLock ==
  ASSUME IInv, NEW r \in Requests, pc[r] \in Locked
  PROVE  actionMu = r
BY DEF IInv, LockInv

LEMMA EndLoginKeeps ==
  ASSUME IInv, NEW r \in Requests, EndLogin(r)
  PROVE  IInv'
<1>1. actionMu = r /\ Leave(r)
  BY HasLock DEF EndLogin, Locked
<1>2. ExchangeTypeOK' /\ AdapterTypeOK' /\ CellsTrue' /\ CellsEvolve
  BY <1>1, NoneEvolves, NoneTypes
  DEF EndLogin, Leave, IInv, ExchangeTypeOK, AdapterTypeOK, CellsTrue, exchange, contexts
<1>3. LockInv' /\ RequestInv(r)'
  BY <1>1, LeaveLock DEF EndLogin
<1> QED
  BY <1>1, <1>2, <1>3, ClearTypes, StepOf DEF EndLogin, Leave, exchange, contexts

-----------------------------------------------------------------------------
(* Placing.                                                                *)

LEMMA StartPlaceKeeps ==
  ASSUME IInv, NEW r \in Requests, StartPlace(r)
  PROVE  IInv'
<1>1. Start(r, "place", "place") /\ "place" \in Locked /\ credentialID # None
  BY DEF StartPlace, Locked, orderContextReady
<1>2. RequestTypeOK'
  BY <1>1, StartTypes DEF StartPlace, IInv, RequestTypeOK
<1>3. ExchangeTypeOK' /\ AdapterTypeOK' /\ CellsTrue' /\ CellsEvolve
  BY <1>1, StartTypes, NoneEvolves
  DEF StartPlace, IInv, ExchangeTypeOK, AdapterTypeOK, CellsTrue, exchange, contexts, identity
<1>4. LockInv'
  BY <1>1, StartTypes DEF StartPlace, IInv, LockInv, identity
<1>5. RequestInv(r)'
  BY <1>1, StartTypes DEF StartPlace, RequestInv, InHand, InHandTrue
<1>6. \A d \in Requests \ {r} :
        /\ pc'[d] = pc[d] /\ op'[d] = op[d] /\ num'[d] = num[d] /\ meta'[d] = meta[d]
        /\ ask'[d] = ask[d] /\ found'[d] = found[d]
  BY <1>1, StartTypes DEF StartPlace
<1> QED
  BY <1>1, <1>2, <1>3, <1>4, <1>5, <1>6, StepOf DEF StartPlace, Start, exchange, contexts

\* The answer to a placement or a modification arrives, or the request ends.
LEMMA ArrivesTypes ==
  ASSUME IInv, NEW r \in Requests, NEW n \in Numbers, actionMu = r, ArrivesOrNot(r, n),
         pc[r] \in Locked \ {"login"}, UNCHANGED identity
  PROVE  /\ RequestTypeOK' /\ LockInv' /\ actionMu' \in {r, None}
         /\ \A d \in Requests \ {r} :
              /\ pc'[d] = pc[d] /\ op'[d] = op[d] /\ num'[d] = num[d] /\ meta'[d] = meta[d]
              /\ ask'[d] = ask[d] /\ found'[d] = found[d]
         /\ \/ pc'[r] = "idle"
            \/ pc'[r] = "store" /\ num'[r] = n /\ meta'[r] = meta[r] /\ op'[r] = op[r]
<1>1. \A d \in Requests \ {r} : pc[d] \notin Locked
  BY OthersUnlocked
<1>2. CASE Goto(r, "store") /\ num' = [num EXCEPT ![r] = n]
           /\ UNCHANGED <<actionMu, op, meta, ask, found, moved>>
  <2>1. RequestTypeOK'
    BY <1>2 DEF IInv, RequestTypeOK, Goto, Steps, Locked
  <2>2. pc'[r] = "store" /\ num'[r] = n /\ meta'[r] = meta[r] /\ op'[r] = op[r]
    BY <1>2 DEF IInv, RequestTypeOK, Goto
  <2>3. \A d \in Requests \ {r} :
          /\ pc'[d] = pc[d] /\ op'[d] = op[d] /\ num'[d] = num[d] /\ meta'[d] = meta[d]
          /\ ask'[d] = ask[d] /\ found'[d] = found[d]
    BY <1>2 DEF IInv, RequestTypeOK, Goto
  <2>4. LockInv'
    BY <1>1, <1>2, <2>2, <2>3 DEF IInv, LockInv, identity
  <2> QED
    BY <1>2, <2>1, <2>2, <2>3, <2>4
<1>3. CASE Leave(r)
  BY <1>3, ClearTypes, LeaveLock DEF Leave, identity
<1> QED
  BY <1>2, <1>3 DEF ArrivesOrNot

LEMMA OpenedType ==
  ASSUME NEW common \in BOOLEAN, NEW q \in Nat, q > 0
  PROVE  /\ Opened(common, q) \in Exchange /\ Opened(common, q) # NoOrder
         /\ Opened(common, q).common = common /\ CellTrue(Opened(common, q))
BY DEF Opened, Exchange, NoOrder, CellTrue

LEMMA CallPlaceKeeps ==
  ASSUME IInv, NEW r \in Requests, NEW n \in Numbers, NEW q \in 1..world.qty, CallPlace(r, n, q)
  PROVE  IInv'
<1>1. actionMu = r /\ pc[r] = "place" /\ pc[r] \in Locked \ {"login"} /\ exch[<<clientCred, n>>] = NoOrder
  BY HasLock DEF CallPlace, Accepts, Locked
<1>2. clientCred \in Creds /\ q \in Nat /\ q > 0
  <2>1. world.qty \in Nat
    BY LSOrdersAssumption DEF IInv, ExchangeTypeOK
  <2> QED
    BY <1>1, <2>1 DEF IInv, LockInv, AdapterTypeOK
<1> DEFINE y == Opened(TRUE, q)
<1>3. y \in Exchange /\ y # NoOrder /\ y.common /\ CellTrue(y)
  BY <1>2, OpenedType
<1> HIDE DEF y
<1>4. exch' = [exch EXCEPT ![<<clientCred, n>>] = y] /\ exch \in [Creds \X Numbers -> Exchange]
  BY DEF CallPlace, IInv, ExchangeTypeOK, y
<1>5. /\ exch' \in [Creds \X Numbers -> Exchange] /\ exch'[<<clientCred, n>>] = y
      /\ \A j \in Creds, m \in Numbers : j # clientCred \/ m # n => exch'[<<j, m>>] = exch[<<j, m>>]
  BY <1>2, <1>3, <1>4, CellSet
<1>6. CellsEvolve
  BY <1>1, <1>5 DEF CellsEvolve, Evolves
<1>7. ExchangeTypeOK' /\ CellsTrue'
  BY <1>3, <1>5 DEF IInv, ExchangeTypeOK, CellsTrue, CallPlace
<1>8. ArrivesOrNot(r, n) /\ UNCHANGED <<day, identity, contexts>>
  BY DEF CallPlace
<1>9. AdapterTypeOK'
  BY <1>1, <1>8, ArrivesTypes DEF IInv, AdapterTypeOK, identity, contexts
<1>10. RequestInv(r)'
  <2>1. CASE pc'[r] = "idle"
    BY <2>1, IdleTrue
  <2>2. CASE pc'[r] = "store" /\ num'[r] = n /\ meta'[r] = meta[r] /\ op'[r] = op[r]
    <3>1. op[r] = "place"
      BY <1>1 DEF IInv, RequestInv, InHand
    <3> QED
      BY <1>3, <1>5, <1>8, <2>2, <3>1 DEF RequestInv, InHand, InHandTrue, identity
  <2> QED
    BY <1>1, <1>8, <2>1, <2>2, ArrivesTypes
<1> QED
  BY <1>1, <1>6, <1>7, <1>8, <1>9, <1>10, ArrivesTypes, StepOf DEF contexts
-----------------------------------------------------------------------------
(* Storing a context.                                                      *)

\* A context stays as it is or goes.
LEMMA CompactOf ==
  ASSUME NEW m \in [Numbers -> Contexts]
  PROVE  /\ Compact(m) \in [Numbers -> Contexts]
         /\ \A n \in Numbers : Compact(m)[n] \in {m[n], NoContext}
BY NoneTypes DEF Compact

LEMMA StoreKeeps ==
  ASSUME IInv, NEW r \in Requests, Store(r)
  PROVE  IInv'
<1> DEFINE n == num[r]
           c == NewContext(r)
<1>1. actionMu = r /\ pc[r] = "store" /\ Leave(r) /\ storeOrderContext(n, c)
      /\ UNCHANGED <<exchange, identity>>
  BY HasLock DEF Store, Locked
<1>2. n \in Numbers /\ clientCred \in Creds /\ exch[<<clientCred, n>>].common
      /\ (op[r] # "place" => meta[r].cred = clientCred) /\ credentialID = clientCred
  BY <1>1 DEF IInv, RequestInv, InHand, InHandTrue, LockInv, AdapterTypeOK, Locked
<1>3. c.cred = clientCred /\ c.day = day /\ c \in Contexts
  BY <1>2 DEF NewContext, Contexts, IInv, ExchangeTypeOK, AdapterTypeOK
<1> HIDE DEF c
<1>4. ContextTrue(n, c)
  BY <1>2, <1>3 DEF ContextTrue, IInv, ExchangeTypeOK
<1> DEFINE m == [orders EXCEPT ![n] = c]
<1>5. m \in [Numbers -> Contexts] /\ \A k \in Numbers : ContextTrue(k, m[k])
  BY <1>2, <1>3, <1>4 DEF IInv, AdapterTypeOK, ContextsInv
<1>6. orders' = Compact(m) /\ (file' = orders' \/ UNCHANGED file) /\ stored' = stored + 1
  BY <1>1 DEF storeOrderContext
<1> HIDE DEF m
<1>7. orders' \in [Numbers -> Contexts] /\ \A k \in Numbers : orders'[k] \in {m[k], NoContext}
  BY <1>5, <1>6, CompactOf
<1>8. \A k \in Numbers : ContextTrue(k, orders'[k]) /\ ContextTrue(k, file'[k])
  BY <1>5, <1>6, <1>7 DEF IInv, ContextsInv, ContextTrue
<1>9. ContextsInv'
  BY <1>1, <1>8 DEF ContextsInv, ContextTrue, exchange
<1>10. LockInv' /\ RequestInv(r)' /\ RequestTypeOK' /\ actionMu' = None
  BY <1>1, <1>2, LeaveLock, ClearTypes DEF identity, Leave
<1>11. \A d \in Requests \ {r} : RequestInv(d)'
  BY <1>1, OthersUnlocked, AnsweredStays, NoneEvolves, ClearTypes DEF Leave, exchange
<1>12. ExchangeTypeOK' /\ CellsTrue' /\ AdapterTypeOK'
  BY <1>1, <1>6, <1>7, <1>10 DEF IInv, ExchangeTypeOK, CellsTrue, AdapterTypeOK, exchange, identity
<1> QED
  BY <1>9, <1>10, <1>11, <1>12 DEF IInv

-----------------------------------------------------------------------------
(* Managing an order.                                                      *)

LEMMA Tracked ==
  ASSUME IInv, NEW n \in Numbers, trackedOrder(n)
  PROVE  /\ orders[n] \in Contexts /\ orders[n].cred = clientCred /\ clientCred \in Creds
         /\ orders[n].day = day /\ exch[<<clientCred, n>>].common /\ credentialID # None
BY NoneTypes
DEF IInv, trackedOrder, orderContextReady, LockInv, ContextsInv, ContextTrue, AdapterTypeOK

LEMMA StartManageKeeps ==
  ASSUME IInv, NEW r \in Requests, NEW o \in Manages, NEW n \in Numbers, StartManage(r, o, n)
  PROVE  IInv'
<1>1. Start(r, o, "lookup") /\ "lookup" \in Locked
  BY DEF StartManage, Locked
<1>2. /\ orders[n] \in Contexts /\ orders[n].cred = clientCred /\ clientCred \in Creds
      /\ orders[n].day = day /\ exch[<<clientCred, n>>].common /\ credentialID # None
  BY Tracked DEF StartManage
<1>3. num'[r] = n /\ meta'[r] = orders[n]
      /\ \A d \in Requests \ {r} : num'[d] = num[d] /\ meta'[d] = meta[d]
  BY DEF StartManage, IInv, RequestTypeOK
<1>4. RequestTypeOK'
  BY <1>1, <1>2, StartTypes DEF StartManage, IInv, RequestTypeOK
<1>5. ExchangeTypeOK' /\ AdapterTypeOK' /\ CellsTrue' /\ CellsEvolve
  BY <1>1, StartTypes, NoneEvolves
  DEF StartManage, IInv, ExchangeTypeOK, AdapterTypeOK, CellsTrue, exchange, contexts, identity
<1>6. LockInv'
  BY <1>1, <1>2, StartTypes DEF StartManage, IInv, LockInv, identity
<1>7. RequestInv(r)'
  <2>1. pc'[r] = "lookup" /\ op'[r] = o /\ UNCHANGED <<day, clientCred, exch>> /\ day \in Nat
    BY <1>1, StartTypes DEF StartManage, exchange, identity, IInv, ExchangeTypeOK
  <2> QED
    BY <2>1, <1>2, <1>3 DEF RequestInv, InHand, InHandTrue
<1>8. \A d \in Requests \ {r} :
        /\ pc'[d] = pc[d] /\ op'[d] = op[d] /\ num'[d] = num[d] /\ meta'[d] = meta[d]
        /\ ask'[d] = ask[d] /\ found'[d] = found[d]
  BY <1>1, <1>3, StartTypes DEF StartManage
<1> QED
  BY <1>1, <1>4, <1>5, <1>6, <1>7, <1>8, StepOf DEF StartManage, Start, exchange, contexts

\* The row of an order in hand is that of its context's account.
LEMMA RowOf ==
  ASSUME IInv, NEW r \in Requests, pc[r] \in {"lookup", "check", "call"}
  PROVE  /\ num[r] \in Numbers /\ clientCred \in Creds /\ meta[r].cred = clientCred
         /\ Row(r) = exch[<<meta[r].cred, num[r]>>] /\ Row(r) \in Exchange
         /\ (Row(r) # NoOrder => meta[r].day = day)
BY DEF IInv, RequestInv, InHand, InHandTrue, Row, ExchangeTypeOK

LEMMA LookUpKeeps ==
  ASSUME IInv, NEW r \in Requests, LookUp(r)
  PROVE  IInv'
<1> DEFINE x == Row(r)
<1>1. actionMu = r /\ pc[r] = "lookup" /\ x # NoOrder /\ x \in Exchange /\ op[r] \in Manages
      /\ x = exch[<<meta[r].cred, num[r]>>] /\ meta[r].day = day
      /\ num[r] \in Numbers /\ meta[r].cred \in Creds /\ meta[r].cred = clientCred
  BY HasLock, RowOf DEF LookUp, Locked, IInv, RequestInv, InHand
<1>2. x.filled <= x.qty /\ x.rem \in Nat /\ (x.end = "rejected" => x.rem = 0)
  BY <1>1 DEF IInv, CellsTrue, CellTrue, Exchange
<1>3. /\ ask' \in [Requests -> Nat] /\ (op[r] # "get" => ask'[r] > 0 /\ ask'[r] <= x.rem)
      /\ \A d \in Requests \ {r} : ask'[d] = ask[d]
  <2> HIDE DEF x
  <2>1. CASE op[r] = "get" /\ UNCHANGED ask
    BY <2>1 DEF IInv, RequestTypeOK
  <2>2. CASE op[r] = "cancel" /\ x.rem > 0 /\ ask' = [ask EXCEPT ![r] = x.rem]
    BY <1>2, <2>2 DEF IInv, RequestTypeOK
  <2>3. CASE op[r] = "modify" /\ \E q \in 1..x.rem : ask' = [ask EXCEPT ![r] = q]
    BY <1>2, <2>3 DEF IInv, RequestTypeOK
  <2> QED
    BY <2>1, <2>2, <2>3 DEF LookUp, x
<1>4. StatusOf(x) \in Statuses /\ (StatusOf(x) = "filled" => x.filled = x.qty)
      /\ (StatusOf(x) \in {"cancelled", "rejected"} => x.end = StatusOf(x) /\ x.rem = 0)
  BY <1>1, <1>2 DEF StatusOf, Statuses, Exchange
<1> HIDE DEF x
<1>5. /\ pc'[r] = "check" /\ found'[r] = StatusOf(x)
      /\ pc' \in [Requests -> Steps] /\ found' \in [Requests -> Statuses]
      /\ UNCHANGED <<exchange, actionMu, identity, contexts, op, num, meta, moved>>
      /\ \A d \in Requests \ {r} : pc'[d] = pc[d] /\ found'[d] = found[d]
  BY <1>4 DEF LookUp, Goto, IInv, RequestTypeOK, Steps, Locked, x
<1>6. RequestTypeOK'
  BY <1>3, <1>5 DEF IInv, RequestTypeOK
<1>7. ExchangeTypeOK' /\ AdapterTypeOK' /\ CellsTrue' /\ CellsEvolve
  BY <1>5, NoneEvolves
  DEF IInv, ExchangeTypeOK, AdapterTypeOK, CellsTrue, exchange, contexts, identity
<1>8. LockInv'
  <2>1. credentialID # None
    BY <1>1 DEF IInv, LockInv, Locked
  <2> QED
    BY <1>1, <1>5, <2>1 DEF IInv, LockInv, identity
<1>9. InHand(r)'
  <2>1. day \in Nat /\ day <= day
    BY DEF IInv, ExchangeTypeOK
  <2> QED
    BY <1>1, <1>3, <1>5, <2>1 DEF InHand, exchange, identity
<1>10. InHandTrue(r)'
  BY <1>1, <1>3, <1>4, <1>5 DEF InHandTrue, exchange
<1> QED
  BY <1>1, <1>3, <1>5, <1>6, <1>7, <1>8, <1>9, <1>10, StepOf DEF RequestInv, exchange, contexts

LEMMA CheckKeeps ==
  ASSUME IInv, NEW r \in Requests, Check(r)
  PROVE  IInv'
<1> DEFINE x == Row(r)
<1>1. /\ actionMu = r /\ pc[r] = "check" /\ x = exch[<<meta[r].cred, num[r]>>]
      /\ num[r] \in Numbers /\ meta[r].cred = clientCred /\ clientCred \in Creds
      /\ InHand(r) /\ InHandTrue(r)
  BY HasLock, RowOf DEF Check, Locked, IInv, RequestInv
<1>2. x.common /\ x # NoOrder /\ meta[r].day = day /\ credentialID # None
  <2>1. x.common /\ credentialID # None
    BY <1>1, Tracked DEF Check
  <2>2. x # NoOrder
    BY <2>1 DEF NoOrder
  <2> QED
    BY <1>1, <2>1, <2>2 DEF InHandTrue
<1> HIDE DEF x
<1>3. UNCHANGED <<exchange, identity, contexts, op, num, meta, ask, found, moved>>
  BY DEF Check
<1>4. /\ pc' \in [Requests -> Steps] /\ actionMu' \in {r, None}
      /\ \A d \in Requests \ {r} : pc'[d] = pc[d]
      /\ \/ op[r] = "get" /\ pc'[r] = "answered"
         \/ op[r] # "get" /\ pc'[r] = "call" /\ actionMu' = r
  BY <1>1 DEF Check, Goto, IInv, RequestTypeOK, Steps, Locked
<1>5. RequestTypeOK' /\ AdapterTypeOK'
  BY <1>3, <1>4 DEF IInv, RequestTypeOK, AdapterTypeOK, contexts, identity
<1>6. ExchangeTypeOK' /\ CellsTrue' /\ CellsEvolve
  BY <1>3, NoneEvolves DEF IInv, ExchangeTypeOK, CellsTrue, exchange
<1>7. LockInv'
  <2>1. \A d \in Requests \ {r} : pc'[d] \notin Locked
    BY <1>1, <1>4, OthersUnlocked
  <2> QED
    BY <1>2, <1>3, <1>4, <2>1 DEF IInv, LockInv, identity, Locked
<1>8. RequestInv(r)'
  <2>1. CASE op[r] = "get" /\ pc'[r] = "answered"
    BY <1>1, <1>2, <1>3, <2>1 DEF RequestInv, InHand, InHandTrue, exchange, identity
  <2>2. CASE op[r] # "get" /\ pc'[r] = "call"
    BY <1>1, <1>2, <1>3, <2>2 DEF RequestInv, InHand, InHandTrue, exchange, identity
  <2> QED
    BY <1>4, <2>1, <2>2
<1> QED
  BY <1>1, <1>3, <1>4, <1>5, <1>6, <1>7, <1>8, StepOf DEF exchange, contexts

LEMMA FailsKeeps ==
  ASSUME IInv, NEW r \in Requests, Fails(r)
  PROVE  IInv'
<1>1. actionMu = r /\ Leave(r) /\ UNCHANGED <<exchange, identity, contexts>>
  BY HasLock DEF Fails, Locked
<1>2. ExchangeTypeOK' /\ AdapterTypeOK' /\ CellsTrue' /\ CellsEvolve
  BY <1>1, NoneEvolves
  DEF Leave, IInv, ExchangeTypeOK, AdapterTypeOK, CellsTrue, exchange, contexts, identity
<1>3. LockInv' /\ RequestInv(r)'
  BY <1>1, LeaveLock DEF identity
<1> QED
  BY <1>1, <1>2, <1>3, ClearTypes, StepOf DEF Leave, exchange, contexts

LEMMA ReturnKeeps ==
  ASSUME IInv, NEW r \in Requests, Return(r)
  PROVE  IInv'
<1>1. /\ Clear(r) /\ UNCHANGED <<exchange, actionMu, identity, contexts>>
      /\ pc[r] = "answered"
  BY DEF Return
<1>2. ExchangeTypeOK' /\ AdapterTypeOK' /\ CellsTrue'
  BY <1>1 DEF IInv, ExchangeTypeOK, AdapterTypeOK, CellsTrue, exchange, contexts, identity
<1>3. \A d \in Requests : pc'[d] \in Locked => pc[d] = pc'[d]
  BY <1>1, ClearTypes DEF Locked
<1>4. LockInv'
  BY <1>1, <1>3 DEF IInv, LockInv, identity
<1>5. ContextsInv'
  BY <1>1 DEF IInv, ContextsInv, ContextTrue, exchange, contexts
<1>6. \A d \in Requests : RequestInv(d)'
  <2>1. RequestInv(r)'
    BY <1>1, ClearTypes, IdleTrue
  <2>2. ASSUME NEW d \in Requests \ {r} PROVE RequestInv(d)'
    <3>1. /\ pc'[d] = pc[d] /\ op'[d] = op[d] /\ num'[d] = num[d] /\ meta'[d] = meta[d]
          /\ ask'[d] = ask[d] /\ found'[d] = found[d] /\ (d \in moved <=> d \in moved')
      BY <1>1, ClearTypes DEF Clear
    <3> QED
      BY <1>1, <3>1 DEF IInv, RequestInv, InHand, InHandTrue, exchange, identity
  <2> QED
    BY <2>1, <2>2
<1> QED
  BY <1>1, <1>2, <1>4, <1>5, <1>6, ClearTypes DEF IInv
\* The order in hand before a call: it is there, and what is asked for is not nothing.
LEMMA Granted ==
  ASSUME IInv, NEW r \in Requests, pc[r] = "call", Grants(r)
  PROVE  /\ actionMu = r /\ num[r] \in Numbers /\ clientCred \in Creds /\ meta[r].cred = clientCred
         /\ Row(r) = exch[<<clientCred, num[r]>>] /\ Row(r) \in Exchange /\ Row(r) # NoOrder
         /\ CellTrue(Row(r)) /\ ask[r] \in Nat /\ ask[r] > 0 /\ ask[r] <= Row(r).rem
<1>1. actionMu = r /\ op[r] # "get" /\ op[r] \in Manages
  BY HasLock DEF Locked, IInv, RequestInv, InHand
<1>2. ask[r] > 0 /\ ask[r] \in Nat
  BY <1>1 DEF IInv, RequestInv, InHand, RequestTypeOK
<1> QED
  BY <1>1, <1>2, RowOf DEF Grants, IInv, CellsTrue, Row

\* An order that keeps its shares, or has some of them filled or withdrawn.
LEMMA Changed ==
  ASSUME NEW x \in Exchange, x # NoOrder, CellTrue(x), x.rem > 0,
         NEW y \in Exchange, y.qty = x.qty, y.common = x.common,
         y.filled + y.rem <= x.filled + x.rem, y.end = "rejected" => y.rem = 0
  PROVE  y # NoOrder /\ CellTrue(y) /\ Evolves(x, y)
<1>1. x.qty > 0 /\ x.filled + x.rem <= x.qty
  BY DEF CellTrue
<1>2. y # NoOrder
  BY <1>1 DEF NoOrder
<1>3. CellTrue(y)
  BY <1>1 DEF CellTrue, Exchange
<1>4. Evolves(x, y)
  BY <1>2 DEF Evolves, Exchange
<1> QED
  BY <1>2, <1>3, <1>4

LEMMA CallCancelKeeps ==
  ASSUME IInv, NEW r \in Requests, CallCancel(r)
  PROVE  IInv'
<1> DEFINE x == Row(r)
           y == [x EXCEPT !.rem = 0, !.end = "cancelled"]
<1>1. /\ actionMu = r /\ num[r] \in Numbers /\ clientCred \in Creds
      /\ x = exch[<<clientCred, num[r]>>] /\ x \in Exchange /\ x # NoOrder
      /\ CellTrue(x) /\ x.rem > 0
  <2>1. pc[r] = "call" /\ Grants(r)
    BY DEF CallCancel
  <2> QED
    BY <2>1, Granted DEF Exchange
<1>2. y \in Exchange /\ y # NoOrder /\ CellTrue(y) /\ Evolves(x, y)
  <2> HIDE DEF x
  <2>1. x.filled \in Nat /\ x.rem \in Nat
    BY <1>1 DEF Exchange
  <2>2. /\ y \in Exchange /\ y.qty = x.qty /\ y.common = x.common /\ y.filled = x.filled
        /\ y.rem = 0 /\ y.end = "cancelled"
    BY <1>1 DEF Exchange
  <2> HIDE DEF y
  <2> QED
    BY <1>1, <2>1, <2>2, Changed
<1>3. exch' = [exch EXCEPT ![<<clientCred, num[r]>>] = y] /\ Leave(r)
      /\ exch \in [Creds \X Numbers -> Exchange] /\ UNCHANGED <<world, day, identity, contexts>>
  BY <1>1 DEF CallCancel, IInv, ExchangeTypeOK
<1> HIDE DEF x, y
<1>4. /\ exch' \in [Creds \X Numbers -> Exchange] /\ exch'[<<clientCred, num[r]>>] = y
      /\ \A j \in Creds, m \in Numbers :
           j # clientCred \/ m # num[r] => exch'[<<j, m>>] = exch[<<j, m>>]
  BY <1>1, <1>2, <1>3, CellSet
<1>5. CellsEvolve
  BY <1>1, <1>2, <1>4 DEF CellsEvolve, Evolves
<1>6. ExchangeTypeOK' /\ CellsTrue' /\ AdapterTypeOK'
  BY <1>2, <1>3, <1>4
  DEF IInv, ExchangeTypeOK, CellsTrue, AdapterTypeOK, Leave, identity, contexts
<1>7. LockInv' /\ RequestInv(r)'
  BY <1>1, <1>3, LeaveLock DEF identity
<1> QED
  BY <1>1, <1>3, <1>5, <1>6, <1>7, ClearTypes, StepOf DEF Leave, contexts

LEMMA CallModifyKeeps ==
  ASSUME IInv, NEW r \in Requests, NEW n \in Numbers, CallModify(r, n)
  PROVE  IInv'
<1> DEFINE x == Row(r)
           y == [x EXCEPT !.rem = @ - ask[r]]
           z == Opened(TRUE, ask[r])
           e == [exch EXCEPT ![<<clientCred, num[r]>>] = y]
<1>1. /\ actionMu = r /\ num[r] \in Numbers /\ clientCred \in Creds /\ meta[r].cred = clientCred
      /\ x = exch[<<clientCred, num[r]>>] /\ x \in Exchange /\ x # NoOrder
      /\ CellTrue(x) /\ ask[r] \in Nat /\ ask[r] > 0 /\ ask[r] <= x.rem
      /\ pc[r] \in Locked \ {"login"} /\ exch[<<clientCred, n>>] = NoOrder
  <2>1. pc[r] = "call" /\ Grants(r) /\ exch[<<clientCred, n>>] = NoOrder
    BY DEF CallModify, Accepts
  <2> QED
    BY <2>1, Granted DEF Locked
<1>2. n # num[r]
  BY <1>1
<1>3. y \in Exchange /\ y # NoOrder /\ CellTrue(y) /\ Evolves(x, y)
  <2> HIDE DEF x
  <2>1. /\ x.rem - ask[r] \in Nat /\ x.rem - ask[r] <= x.rem /\ x.rem > 0
        /\ x.filled \in Nat /\ x.qty \in Nat /\ x.rem \in Nat
    BY <1>1 DEF Exchange
  <2>2. y.rem = x.rem - ask[r] /\ y.qty = x.qty /\ y.filled = x.filled /\ y.end = x.end
        /\ y.common = x.common
    BY <1>1 DEF Exchange
  <2>3. y \in Exchange
    BY <1>1, <2>1 DEF Exchange
  <2>4. (x.rem - ask[r]) + x.filled <= x.filled + x.rem
    BY <2>1
  <2>5. x.end = "rejected" => x.rem = 0
    BY <1>1 DEF CellTrue
  <2> HIDE DEF y
  <2> QED
    BY <1>1, <2>1, <2>2, <2>3, <2>4, <2>5, Changed
<1>4. z \in Exchange /\ z # NoOrder /\ z.common /\ CellTrue(z)
  BY <1>1, OpenedType
<1>5. /\ exch' = [exch EXCEPT ![<<clientCred, num[r]>>] = y, ![<<clientCred, n>>] = z]
      /\ ArrivesOrNot(r, n) /\ UNCHANGED <<world, day, identity, contexts>>
      /\ exch \in [Creds \X Numbers -> Exchange]
  BY <1>1 DEF CallModify, IInv, ExchangeTypeOK
<1> HIDE DEF x, y, z
<1>6. /\ exch' \in [Creds \X Numbers -> Exchange]
      /\ exch'[<<clientCred, num[r]>>] = y /\ exch'[<<clientCred, n>>] = z
      /\ \A j \in Creds, m \in Numbers :
           j # clientCred \/ m \notin {num[r], n} => exch'[<<j, m>>] = exch[<<j, m>>]
  BY <1>1, <1>2, <1>3, <1>4, <1>5
<1>7. CellsEvolve
  BY <1>1, <1>3, <1>6 DEF CellsEvolve, Evolves
<1>8. ExchangeTypeOK' /\ CellsTrue'
  BY <1>3, <1>4, <1>5, <1>6 DEF IInv, ExchangeTypeOK, CellsTrue
<1>9. AdapterTypeOK'
  BY <1>1, <1>5, ArrivesTypes DEF IInv, AdapterTypeOK, identity, contexts
<1>10. RequestInv(r)'
  <2>1. CASE pc'[r] = "idle"
    BY <2>1, IdleTrue
  <2>2. CASE pc'[r] = "store" /\ num'[r] = n /\ meta'[r] = meta[r] /\ op'[r] = op[r]
    BY <1>1, <1>4, <1>5, <1>6, <2>2 DEF RequestInv, InHand, InHandTrue, identity
  <2> QED
    BY <1>1, <1>5, <2>1, <2>2, ArrivesTypes
<1> QED
  BY <1>1, <1>5, <1>7, <1>8, <1>9, <1>10, ArrivesTypes, StepOf DEF contexts

-----------------------------------------------------------------------------
(* What no request does.                                                   *)

LEMMA RestartKeeps == ASSUME IInv, Restart PROVE IInv'
<1>1. /\ file \in [Numbers -> Contexts] /\ Compact(file) \in [Numbers -> Contexts]
      /\ \A n \in Numbers : Compact(file)[n] \in {file[n], NoContext}
      /\ NoContexts \in [Numbers -> Contexts] /\ \A n \in Numbers : NoContexts[n] = NoContext
  BY CompactOf, NoneTypes DEF IInv, AdapterTypeOK, NoContexts
<1>2. /\ orders' \in [Numbers -> Contexts] /\ UNCHANGED <<exchange, stored, file>>
      /\ \A n \in Numbers : orders'[n] \in {file[n], NoContext}
  BY <1>1 DEF Restart
<1>3. ContextsInv'
  BY <1>2 DEF IInv, ContextsInv, ContextTrue, exchange
<1>4. ExchangeTypeOK' /\ AdapterTypeOK' /\ CellsTrue'
  BY <1>2 DEF Restart, IInv, ExchangeTypeOK, AdapterTypeOK, CellsTrue, exchange
<1>5. RequestTypeOK'
  BY NoneTypes DEF Restart, RequestTypeOK, Steps, Statuses
<1>6. LockInv'
  BY DEF Restart, LockInv, Locked
<1>7. \A r \in Requests : RequestInv(r)'
  BY IdleTrue DEF Restart
<1> QED
  BY <1>3, <1>4, <1>5, <1>6, <1>7 DEF IInv

\* The exchange, or another program at it, changes orders.  An order in hand is not
\* touched without the request being one of moved, and none is opened that somebody
\* holds from an earlier day.
LEMMA OutsideKeeps ==
  ASSUME IInv, ExchangeTypeOK', CellsTrue', CellsEvolve,
         UNCHANGED <<day, actionMu, identity, contexts, pc, op, num, meta, ask, found>>,
         moved \subseteq moved',
         \A r \in Requests : pc[r] \in {"lookup", "check", "call"} =>
           LET k == meta[r].cred
               n == num[r]
           IN  /\ meta[r].day # day => exch'[<<k, n>>] = exch[<<k, n>>]
               /\ r \notin moved' /\ exch[<<k, n>>] # NoOrder => exch'[<<k, n>>] = exch[<<k, n>>]
  PROVE  IInv'
<1>1. ContextsInv'
  BY ContextsStay DEF contexts
<1>2. AdapterTypeOK' /\ RequestTypeOK' /\ LockInv'
  BY DEF IInv, AdapterTypeOK, RequestTypeOK, LockInv, identity, contexts
<1>3. ASSUME NEW r \in Requests PROVE RequestInv(r)'
  <2> DEFINE x == exch[<<meta[r].cred, num[r]>>]
             y == exch'[<<meta[r].cred, num[r]>>]
  <2>1. InHand(r)'
    BY DEF IInv, RequestInv, InHand, identity
  <2>2. pc[r] \in {"lookup", "check", "call"} /\ meta[r].day # day => y = NoOrder
    BY DEF IInv, RequestInv, InHandTrue
  <2>3. pc[r] = "call" /\ meta[r].day = day => y.common
    <3> SUFFICES ASSUME pc[r] = "call", meta[r].day = day PROVE y.common
      OBVIOUS
    <3>1. x.common /\ Evolves(x, y)
      BY DEF IInv, RequestInv, InHand, InHandTrue, CellsEvolve
    <3>2. x # NoOrder
      BY <3>1 DEF NoOrder
    <3> QED
      BY <3>1, <3>2 DEF Evolves
  <2>4. pc[r] \in {"check", "call"} /\ op[r] # "get" /\ r \notin moved' => y # NoOrder /\ ask[r] <= y.rem
    BY DEF IInv, RequestInv, InHandTrue
  <2>5. pc[r] \in {"check", "answered"} /\ meta[r].day = day =>
           /\ y # NoOrder
           /\ found[r] = "filled" => y.filled = y.qty
           /\ found[r] \in {"cancelled", "rejected"} => y.end = found[r] /\ y.rem = 0
    BY FoundStays
  <2>6. pc[r] = "store" => exch'[<<clientCred, num[r]>>].common
    <3> SUFFICES ASSUME pc[r] = "store" PROVE exch'[<<clientCred, num[r]>>].common
      OBVIOUS
    <3>1. clientCred \in Creds /\ num[r] \in Numbers /\ exch[<<clientCred, num[r]>>].common
      BY DEF IInv, RequestInv, InHand, InHandTrue, LockInv, AdapterTypeOK, Locked
    <3> QED
      BY <3>1 DEF CellsEvolve, Evolves, NoOrder
  <2> QED
    BY <2>1, <2>2, <2>3, <2>4, <2>5, <2>6 DEF RequestInv, InHandTrue, identity
<1> QED
  BY <1>1, <1>2, <1>3 DEF IInv

LEMMA SettleKeeps ==
  ASSUME IInv, NEW k \in Creds, NEW n \in Numbers, Settle(k, n)
  PROVE  IInv'
<1> DEFINE x == exch[<<k, n>>]
<1>1. x \in Exchange /\ x.rem > 0 /\ x # NoOrder /\ CellTrue(x)
      /\ exch \in [Creds \X Numbers -> Exchange]
  BY DEF Settle, NoOrder, IInv, ExchangeTypeOK, CellsTrue
<1>2. PICK y \in Exchange : /\ exch' = [exch EXCEPT ![<<k, n>>] = y]
                            /\ y # NoOrder /\ CellTrue(y) /\ Evolves(x, y)
  <2>1. CASE exch' = [exch EXCEPT ![<<k, n>>].filled = @ + 1, ![<<k, n>>].rem = @ - 1]
    <3> DEFINE y == [x EXCEPT !.filled = @ + 1, !.rem = @ - 1]
    <3>1. exch' = [exch EXCEPT ![<<k, n>>] = y]
      BY <1>1, <2>1
    <3>2. y \in Exchange /\ y # NoOrder /\ CellTrue(y) /\ Evolves(x, y)
      <4> HIDE DEF x
      <4>1. /\ x.rem - 1 \in Nat /\ x.filled + 1 \in Nat /\ x.qty \in Nat /\ x.rem \in Nat
            /\ (x.filled + 1) + (x.rem - 1) = x.filled + x.rem
        BY <1>1 DEF Exchange
      <4>2. y.rem = x.rem - 1 /\ y.filled = x.filled + 1 /\ y.qty = x.qty /\ y.end = x.end
            /\ y.common = x.common
        BY <1>1 DEF Exchange
      <4>3. y \in Exchange
        BY <1>1, <4>1 DEF Exchange
      <4>4. x.end # "rejected"
        BY <1>1 DEF CellTrue
      <4> HIDE DEF y
      <4> QED
        BY <1>1, <4>1, <4>2, <4>3, <4>4, Changed
    <3> QED
      BY <3>1, <3>2
  <2>2. ASSUME NEW e \in {"cancelled", "rejected"},
               exch' = [exch EXCEPT ![<<k, n>>].end = e, ![<<k, n>>].rem = 0]
        PROVE  \E y \in Exchange : /\ exch' = [exch EXCEPT ![<<k, n>>] = y]
                                   /\ y # NoOrder /\ CellTrue(y) /\ Evolves(x, y)
    <3> DEFINE y == [x EXCEPT !.end = e, !.rem = 0]
    <3>1. exch' = [exch EXCEPT ![<<k, n>>] = y]
      BY <1>1, <2>2
    <3>2. y \in Exchange /\ y # NoOrder /\ CellTrue(y) /\ Evolves(x, y)
      <4> HIDE DEF x
      <4>1. x.filled \in Nat /\ x.qty \in Nat /\ x.rem \in Nat
        BY <1>1 DEF Exchange
      <4>2. y.rem = 0 /\ y.filled = x.filled /\ y.qty = x.qty /\ y.common = x.common
        BY <1>1 DEF Exchange
      <4>3. y \in Exchange
        BY <1>1 DEF Exchange
      <4> HIDE DEF y
      <4> QED
        BY <1>1, <4>1, <4>2, <4>3, Changed
    <3> QED
      BY <3>1, <3>2
  <2> QED
    BY <2>1, <2>2 DEF Settle
<1>3. /\ exch' \in [Creds \X Numbers -> Exchange] /\ exch'[<<k, n>>] = y
      /\ \A j \in Creds, m \in Numbers : j # k \/ m # n => exch'[<<j, m>>] = exch[<<j, m>>]
  BY <1>1, <1>2, CellSet
<1>4. CellsEvolve
  BY <1>2, <1>3 DEF CellsEvolve, Evolves
<1>5. ExchangeTypeOK' /\ CellsTrue'
  BY <1>2, <1>3 DEF Settle, IInv, ExchangeTypeOK, CellsTrue
<1>6. ASSUME NEW r \in Requests, pc[r] \in {"lookup", "check", "call"}
      PROVE  /\ meta[r].day # day => exch'[<<meta[r].cred, num[r]>>] = exch[<<meta[r].cred, num[r]>>]
             /\ r \notin moved' => exch'[<<meta[r].cred, num[r]>>] = exch[<<meta[r].cred, num[r]>>]
  <2>1. num[r] \in Numbers /\ meta[r].cred \in Creds
        /\ (meta[r].day # day => exch[<<meta[r].cred, num[r]>>] = NoOrder)
    BY <1>6 DEF IInv, RequestInv, InHand, InHandTrue
  <2>2. num[r] = n /\ meta[r].cred = k => r \in moved'
    BY DEF Settle
  <2> QED
    BY <1>1, <1>3, <2>1, <2>2
<1> QED
  BY <1>4, <1>5, <1>6, OutsideKeeps DEF Settle

LEMMA OtherPlacesKeeps ==
  ASSUME IInv, NEW k \in Creds, NEW n \in Numbers, NEW q \in 1..world.qty, OtherPlaces(k, n, q)
  PROVE  IInv'
<1>1. q \in Nat /\ q > 0
  <2>1. world.qty \in Nat
    BY LSOrdersAssumption DEF IInv, ExchangeTypeOK
  <2> QED
    BY <2>1
<1> DEFINE y == Opened(FALSE, q)
<1>2. y \in Exchange /\ y # NoOrder /\ CellTrue(y)
  BY <1>1, OpenedType
<1> HIDE DEF y
<1>3. exch[<<k, n>>] = NoOrder /\ exch' = [exch EXCEPT ![<<k, n>>] = y]
      /\ exch \in [Creds \X Numbers -> Exchange]
      /\ \A r \in Requests : pc[r] \in {"lookup", "check", "call"} => meta[r].day = day
  BY DEF OtherPlaces, Accepts, IInv, ExchangeTypeOK, y
<1>4. /\ exch' \in [Creds \X Numbers -> Exchange] /\ exch'[<<k, n>>] = y
      /\ \A j \in Creds, m \in Numbers : j # k \/ m # n => exch'[<<j, m>>] = exch[<<j, m>>]
  BY <1>2, <1>3, CellSet
<1>5. CellsEvolve
  BY <1>3, <1>4 DEF CellsEvolve, Evolves
<1>6. ExchangeTypeOK' /\ CellsTrue'
  BY <1>2, <1>4 DEF OtherPlaces, IInv, ExchangeTypeOK, CellsTrue
<1>7. ASSUME NEW r \in Requests, pc[r] \in {"lookup", "check", "call"}
      PROVE  exch[<<meta[r].cred, num[r]>>] # NoOrder =>
               exch'[<<meta[r].cred, num[r]>>] = exch[<<meta[r].cred, num[r]>>]
  BY <1>3, <1>4, <1>7 DEF IInv, RequestInv, InHand
<1> QED
  BY <1>3, <1>5, <1>6, <1>7, OutsideKeeps DEF OtherPlaces, request

\* After midnight nothing of yesterday's is there, and whoever holds an order of it
\* finds that out.
LEMMA NewDayKeeps == ASSUME IInv, NewDay PROVE IInv'
<1>1. /\ exch' \in [Creds \X Numbers -> Exchange]
      /\ \A k \in Creds, n \in Numbers : exch'[<<k, n>>] = NoOrder
  BY NoneTypes DEF NewDay, NoOrders
<1>2. day \in Nat /\ day' = day + 1 /\ \A c \in Contexts : c.day <= day => c.day <= day' /\ c.day # day'
  BY DEF NewDay, IInv, ExchangeTypeOK, Contexts
<1>3. ExchangeTypeOK' /\ CellsTrue'
  BY <1>1, <1>2 DEF NewDay, IInv, ExchangeTypeOK, CellsTrue, CellTrue, NoOrder
<1>4. AdapterTypeOK' /\ RequestTypeOK' /\ LockInv'
  BY DEF NewDay, IInv, AdapterTypeOK, RequestTypeOK, LockInv, identity, contexts
<1>5. ContextsInv'
  BY <1>2 DEF NewDay, IInv, AdapterTypeOK, ContextsInv, ContextTrue, contexts
<1>6. ASSUME NEW r \in Requests PROVE RequestInv(r)'
  <2>1. InHand(r)'
    BY <1>2 DEF NewDay, IInv, RequestInv, InHand, RequestTypeOK, identity
  <2>2. pc[r] \in {"lookup", "check", "call", "answered"} =>
          num[r] # None /\ exch'[<<meta[r].cred, num[r]>>] = NoOrder /\ meta[r].day # day'
    BY <1>1, <1>2, NoneTypes DEF IInv, RequestInv, InHand, RequestTypeOK
  <2>3. pc[r] # "store" /\ (num[r] # None => r \in moved')
    BY DEF NewDay
  <2> QED
    BY <2>1, <2>2, <2>3 DEF NewDay, RequestInv, InHandTrue
<1> QED
  BY <1>3, <1>4, <1>5, <1>6 DEF IInv

-----------------------------------------------------------------------------
(* The contexts that are kept: what Compact throws away.                   *)

\* The numbers whose context was stored after this one.
NewerThan(m, a) == {n \in Numbers : m[n].at > a}

\* A map of at most so many stored contexts, each stored at a time of its own.
Dated(m, last) ==
  /\ m \in [Numbers -> Contexts]
  /\ IsFiniteSet(NewerThan(m, 0))
  /\ \A n \in Numbers : m[n].at <= last /\ (m[n].at = 0 <=> m[n] = NoContext)
  /\ \A n, o \in Numbers : n # o /\ m[n].at > 0 => m[n].at # m[o].at

LEMMA LeastExists ==
  ASSUME NEW T \in SUBSET Nat, T # {}
  PROVE  \E x \in T : \A y \in T : x <= y
<1>1. PICK x \in T : \A y \in T : ~ (<<y, x>> \in OpToRel(<, Nat))
  BY NatLessThanWellFounded, WFMin, Zenon
<1>2. \A y \in T : ~ (y < x)
  BY <1>1, Zenon DEF OpToRel
<1> QED
  BY <1>2

\* The oldest and the newest context of a set of numbers.
LEMMA OldestExists ==
  ASSUME NEW m \in [Numbers -> Contexts], NEW T \in SUBSET Numbers, T # {}
  PROVE  \E x \in T : \A y \in T : m[x].at <= m[y].at
<1> DEFINE A == {m[n].at : n \in T}
<1>1. A \in SUBSET Nat /\ A # {}
  BY DEF Contexts
<1>2. \A y \in T : m[y].at \in A
  OBVIOUS
<1>3. \A a \in A : \E n \in T : m[n].at = a
  OBVIOUS
<1> HIDE DEF A
<1>4. PICK a \in A : \A b \in A : a <= b
  BY <1>1, LeastExists
<1> QED
  BY <1>2, <1>3, <1>4

LEMMA NewestExists ==
  ASSUME NEW m \in [Numbers -> Contexts], NEW T \in SUBSET Numbers, T # {}, NEW last \in Nat,
         \A n \in Numbers : m[n].at <= last
  PROVE  \E x \in T : \A y \in T : m[y].at <= m[x].at
<1> DEFINE A == {last - m[n].at : n \in T}
<1>1. A \in SUBSET Nat /\ A # {}
  BY DEF Contexts
<1>2. \A y \in T : last - m[y].at \in A
  OBVIOUS
<1>3. \A a \in A : \E n \in T : last - m[n].at = a
  OBVIOUS
<1> HIDE DEF A
<1>4. PICK a \in A : \A b \in A : a <= b
  BY <1>1, LeastExists
<1>5. PICK x \in T : last - m[x].at = a
  BY <1>3, <1>4
<1>6. ASSUME NEW y \in T PROVE m[y].at <= m[x].at
  <2>1. last - m[x].at <= last - m[y].at
    BY <1>2, <1>4, <1>5
  <2> QED
    BY <2>1 DEF Contexts
<1> QED
  BY <1>6

LEMMA NewerFinite ==
  ASSUME NEW m, NEW last \in Nat, Dated(m, last), NEW a \in Nat, NEW b \in Nat, a <= b
  PROVE  /\ IsFiniteSet(NewerThan(m, a)) /\ Cardinality(NewerThan(m, a)) \in Nat
         /\ Cardinality(NewerThan(m, b)) \in Nat
         /\ Cardinality(NewerThan(m, b)) <= Cardinality(NewerThan(m, a))
<1>1. NewerThan(m, b) \in SUBSET NewerThan(m, a) /\ NewerThan(m, a) \in SUBSET NewerThan(m, 0)
  BY DEF NewerThan, Dated, Contexts
<1>2. IsFiniteSet(NewerThan(m, 0))
  BY DEF Dated
<1> HIDE DEF NewerThan
<1>3. IsFiniteSet(NewerThan(m, a))
  BY <1>1, <1>2, FS_Subset
<1>4. IsFiniteSet(NewerThan(m, b)) /\ Cardinality(NewerThan(m, b)) <= Cardinality(NewerThan(m, a))
  BY <1>1, <1>3, FS_Subset
<1> QED
  BY <1>3, <1>4, FS_CardinalityType

LEMMA CompactAt ==
  ASSUME NEW m \in [Numbers -> Contexts], NEW n \in Numbers
  PROVE  Compact(m)[n] = IF Cardinality(NewerThan(m, m[n].at)) < Limit THEN m[n] ELSE NoContext
BY DEF Compact, NewerThan

\* Compact keeps the newest of a dated map, and no more than Limit of them.
LEMMA CompactDated ==
  ASSUME NEW m, NEW last \in Nat, Dated(m, last)
  PROVE  /\ Dated(Compact(m), last)
         /\ Cardinality(NewerThan(Compact(m), 0)) <= Limit
<1> DEFINE c == Compact(m)
           K == NewerThan(c, 0)
<1>1. /\ m \in [Numbers -> Contexts] /\ c \in [Numbers -> Contexts]
      /\ \A n \in Numbers : c[n] = m[n] \/ c[n] = NoContext
  BY NoneTypes DEF Dated, Compact
<1>2. NoContext.at = 0
  BY DEF NoContext
<1>3. \A n \in Numbers : c[n].at > 0 => m[n].at = c[n].at /\ c[n] = m[n] /\ m[n].at \in Nat
  BY <1>1, <1>2 DEF Contexts
<1>4. K \in SUBSET NewerThan(m, 0)
  BY <1>3 DEF NewerThan
<1>5. IsFiniteSet(NewerThan(m, 0))
  BY DEF Dated
<1>6. IsFiniteSet(K)
  <2> HIDE DEF K
  <2> QED
    BY <1>4, <1>5, FS_Subset
<1>7. \A n \in Numbers : c[n].at <= last /\ (c[n].at = 0 <=> c[n] = NoContext)
  BY <1>1, <1>2 DEF Dated
<1>8. ASSUME NEW n \in Numbers, NEW o \in Numbers, n # o, c[n].at > 0 PROVE c[n].at # c[o].at
  BY <1>1, <1>2, <1>3, <1>8 DEF Dated
<1>9. Dated(c, last)
  BY <1>1, <1>6, <1>7, <1>8 DEF Dated
<1>10. Cardinality(K) <= Limit
  <2>1. CASE K = {}
    BY <2>1, FS_EmptySet, LSOrdersAssumption
  <2>2. CASE K # {}
    <3>1. K \in SUBSET Numbers
      BY DEF NewerThan
    <3>2. PICK x \in K : \A y \in K : c[x].at <= c[y].at
      BY <1>1, <2>2, <3>1, OldestExists
    <3>3. x \in Numbers /\ c[x].at > 0
      BY <3>1 DEF NewerThan
    <3>4. c[x] = m[x] /\ m[x].at \in Nat /\ m[x].at > 0
      BY <1>3, <3>3
    <3>5. Cardinality(NewerThan(m, m[x].at)) < Limit
      BY <1>1, <1>2, <3>3, <3>4, CompactAt
    <3>6. K \ {x} \in SUBSET NewerThan(m, m[x].at)
      <4> SUFFICES ASSUME NEW y \in K, y # x PROVE y \in Numbers /\ m[y].at > m[x].at
        BY DEF NewerThan
      <4>1. y \in Numbers /\ c[y].at > 0
        BY DEF NewerThan
      <4>2. c[y].at # c[x].at /\ c[x].at <= c[y].at
        BY <1>8, <3>2, <3>3, <4>1
      <4> QED
        BY <1>3, <3>4, <4>1, <4>2
    <3> HIDE DEF K
    <3>7. IsFiniteSet(NewerThan(m, m[x].at)) /\ Cardinality(NewerThan(m, m[x].at)) \in Nat
      BY <3>4, NewerFinite
    <3>8. Cardinality(K \ {x}) <= Cardinality(NewerThan(m, m[x].at))
      BY <3>6, <3>7, FS_Subset
    <3>9. Cardinality(K \ {x}) = Cardinality(K) - 1 /\ Cardinality(K) \in Nat
      BY <1>6, FS_RemoveElement, FS_CardinalityType
    <3> QED
      BY <3>5, <3>7, <3>8, <3>9, LSOrdersAssumption
  <2> QED
    BY <2>1, <2>2
<1> QED
  BY <1>9, <1>10

LEMMA HoldsIs ==
  ASSUME NEW m, NEW t
  PROVE  Holds(m, t) <=> m[t[1]].at >= t[2].at \/ Cardinality(NewerThan(m, t[2].at)) >= Limit
BY DEF Holds, NewerThan

\* A map that holds a context holds it still when it is compacted.
LEMMA CompactHolds ==
  ASSUME NEW m, NEW last \in Nat, Dated(m, last), NEW t \in Numbers \X Contexts, Holds(m, t)
  PROVE  Holds(Compact(m), t)
<1> DEFINE c == Compact(m)
           a == t[2].at
<1>1. m \in [Numbers -> Contexts] /\ t[1] \in Numbers /\ a \in Nat /\ m[t[1]].at \in Nat
  BY DEF Dated, Contexts
<1>2. CASE Cardinality(NewerThan(m, a)) >= Limit
  <2> DEFINE K == NewerThan(c, a)
             S == NewerThan(m, a)
  <2>1. IsFiniteSet(S) /\ Cardinality(S) \in Nat
    BY <1>1, NewerFinite
  <2>2. \A n \in Numbers : c[n] = m[n] \/ c[n].at = 0
    BY <1>1, CompactAt DEF NoContext
  <2>3. K \in SUBSET S
    BY <1>1, <2>2 DEF NewerThan
  <2>4. SUFFICES ASSUME Cardinality(K) < Limit PROVE FALSE
    <3>1. IsFiniteSet(K) /\ Cardinality(K) \in Nat
      <4> HIDE DEF K, S
      <4> QED
        BY <2>1, <2>3, FS_Subset, FS_CardinalityType
    <3>2. Cardinality(K) >= Limit
      BY <2>4, <3>1, LSOrdersAssumption
    <3> QED
      BY <3>2, HoldsIs
  <2>5. S \ K # {}
    <3>1. K # S
      BY <1>2, <2>1, <2>4, LSOrdersAssumption
    <3> QED
      BY <2>3, <3>1
  <2>6. S \ K \in SUBSET Numbers /\ \A n \in Numbers : m[n].at <= last
    BY DEF NewerThan, Dated
  <2>7. PICK y \in S \ K : \A z \in S \ K : m[z].at <= m[y].at
    BY <1>1, <2>5, <2>6, NewestExists
  <2>8. y \in Numbers /\ m[y].at > a /\ m[y].at \in Nat
    BY <1>1, <2>7 DEF NewerThan, Contexts
  <2>9. NewerThan(m, m[y].at) \in SUBSET K
    <3> SUFFICES ASSUME NEW z \in Numbers, m[z].at > m[y].at PROVE z \in K
      BY DEF NewerThan
    <3>1. z \in S /\ m[z].at \in Nat
      BY <1>1, <2>8 DEF NewerThan, Contexts
    <3> QED
      BY <2>7, <2>8, <3>1
  <2>10. Cardinality(NewerThan(m, m[y].at)) < Limit
    <3> HIDE DEF K, S
    <3>1. IsFiniteSet(K) /\ Cardinality(K) \in Nat
      BY <2>1, <2>3, FS_Subset, FS_CardinalityType
    <3>2. IsFiniteSet(NewerThan(m, m[y].at)) /\ Cardinality(NewerThan(m, m[y].at)) <= Cardinality(K)
      BY <2>9, <3>1, FS_Subset
    <3>3. Cardinality(NewerThan(m, m[y].at)) \in Nat
      BY <3>2, FS_CardinalityType
    <3> QED
      BY <2>4, <3>1, <3>2, <3>3, LSOrdersAssumption
  <2>11. c[y] = m[y]
    BY <1>1, <2>8, <2>10, CompactAt
  <2> QED
    BY <2>7, <2>8, <2>11 DEF NewerThan
<1>3. CASE m[t[1]].at >= a /\ ~ (Cardinality(NewerThan(m, a)) >= Limit)
  <2>1. Cardinality(NewerThan(m, m[t[1]].at)) <= Cardinality(NewerThan(m, a))
        /\ Cardinality(NewerThan(m, m[t[1]].at)) \in Nat /\ Cardinality(NewerThan(m, a)) \in Nat
    BY <1>1, <1>3, NewerFinite
  <2>2. Cardinality(NewerThan(m, m[t[1]].at)) < Limit
    BY <1>3, <2>1, LSOrdersAssumption
  <2>3. c[t[1]] = m[t[1]]
    BY <1>1, <2>2, CompactAt
  <2> QED
    BY <1>3, <2>3, HoldsIs
<1> QED
  BY <1>2, <1>3, HoldsIs

\* A context that is newer than all others is added.
LEMMA AddDated ==
  ASSUME NEW m, NEW last \in Nat, Dated(m, last), NEW n \in Numbers, NEW c \in Contexts, c.at = last + 1
  PROVE  /\ Dated([m EXCEPT ![n] = c], last + 1)
         /\ \A t \in Numbers \X Contexts : t[2].at <= last /\ Holds(m, t) => Holds([m EXCEPT ![n] = c], t)
         /\ Holds([m EXCEPT ![n] = c], <<n, c>>)
<1> DEFINE w == [m EXCEPT ![n] = c]
<1>1. /\ m \in [Numbers -> Contexts] /\ w \in [Numbers -> Contexts] /\ w[n] = c
      /\ \A o \in Numbers : o # n => w[o] = m[o]
  BY DEF Dated
<1>2. \A o \in Numbers : m[o].at \in Nat /\ m[o].at <= last
  BY <1>1 DEF Dated, Contexts
<1> HIDE DEF w
<1>3. NewerThan(w, 0) = NewerThan(m, 0) \cup {n}
  BY <1>1, <1>2 DEF NewerThan
<1>4. IsFiniteSet(NewerThan(w, 0))
  BY <1>3, FS_AddElement DEF Dated
<1>5. \A o \in Numbers : w[o].at <= last + 1 /\ (w[o].at = 0 <=> w[o] = NoContext)
  <2>1. NoContext.at = 0 /\ c # NoContext
    BY DEF NoContext
  <2> QED
    BY <1>1, <1>2, <2>1 DEF Dated
<1>6. \A o, u \in Numbers : o # u /\ w[o].at > 0 => w[o].at # w[u].at
  BY <1>1, <1>2 DEF Dated
<1>7. Dated(w, last + 1)
  BY <1>1, <1>4, <1>5, <1>6 DEF Dated
<1>8. ASSUME NEW t \in Numbers \X Contexts, t[2].at <= last, Holds(m, t) PROVE Holds(w, t)
  <2>1. t[1] \in Numbers /\ t[2].at \in Nat
    BY DEF Contexts
  <2>2. CASE m[t[1]].at >= t[2].at
    BY <1>1, <1>2, <1>8, <2>1, <2>2, HoldsIs
  <2>3. CASE Cardinality(NewerThan(m, t[2].at)) >= Limit
    <3>1. NewerThan(m, t[2].at) \in SUBSET NewerThan(w, t[2].at)
      BY <1>1, <1>2, <1>8, <2>1 DEF NewerThan
    <3>2. IsFiniteSet(NewerThan(w, t[2].at)) /\ Cardinality(NewerThan(w, t[2].at)) \in Nat
      BY <1>7, <2>1, NewerFinite
    <3>3. IsFiniteSet(NewerThan(m, t[2].at)) /\ Cardinality(NewerThan(m, t[2].at)) \in Nat
      BY <2>1, NewerFinite
    <3>4. Cardinality(NewerThan(m, t[2].at)) <= Cardinality(NewerThan(w, t[2].at))
      BY <3>1, <3>2, FS_Subset
    <3>5. Cardinality(NewerThan(w, t[2].at)) >= Limit
      BY <2>3, <3>2, <3>3, <3>4, LSOrdersAssumption
    <3> QED
      BY <3>5, HoldsIs
  <2> QED
    BY <1>8, <2>2, <2>3, HoldsIs
<1>9. Holds(w, <<n, c>>)
  BY <1>1, HoldsIs DEF Contexts
<1> QED
  BY <1>7, <1>8, <1>9 DEF w
\* What the adapter remembers of the orders clients were told of.
KeptInv ==
  /\ Dated(orders, stored) /\ Cardinality(NewerThan(orders, 0)) <= Limit
  /\ Dated(file, stored) /\ Cardinality(NewerThan(file, 0)) <= Limit
  /\ told \subseteq Numbers \X Contexts /\ \A t \in told : t[2].at <= stored
  /\ lost \subseteq told
  /\ moved \subseteq Requests
  /\ orderLoadErr \in BOOLEAN /\ unsaved \in BOOLEAN
  /\ orderLoadErr =>
       /\ ~ unsaved
       /\ \A r \in Requests : pc[r] \notin {"place", "lookup", "check", "call", "store"}
  /\ ~ orderLoadErr => \A t \in told \ lost : Holds(orders, t)
  /\ ~ unsaved => \A t \in told \ lost : Holds(file, t)

LEMMA KeptInit == ASSUME Init PROVE KeptInv
<1>1. orders = NoContexts /\ file = NoContexts /\ stored = 0
  BY DEF Init
<1>2. /\ NoContexts \in [Numbers -> Contexts] /\ NoContext.at = 0
      /\ \A n \in Numbers : NoContexts[n] = NoContext
  BY NoneTypes DEF NoContexts, NoContext
<1>3. NewerThan(NoContexts, 0) = {}
  BY <1>2 DEF NewerThan
<1>4. IsFiniteSet(NewerThan(NoContexts, 0)) /\ Cardinality(NewerThan(NoContexts, 0)) <= Limit
  BY <1>3, FS_EmptySet, LSOrdersAssumption
<1>5. Dated(NoContexts, 0)
  BY <1>2, <1>4 DEF Dated
<1>6. told = {} /\ lost = {} /\ moved = {} /\ orderLoadErr = FALSE /\ unsaved = FALSE
  BY DEF Init
<1> QED
  BY <1>1, <1>4, <1>5, <1>6 DEF KeptInv

\* A step that leaves the contexts alone.
LEMMA KeptStays ==
  ASSUME KeptInv, UNCHANGED contexts, moved' \subseteq Requests,
         orderLoadErr => \A r \in Requests : pc'[r] \notin {"place", "lookup", "check", "call", "store"}
  PROVE  KeptInv'
BY DEF KeptInv, contexts, Dated, NewerThan, Holds

LEMMA StoreKept ==
  ASSUME IInv, KeptInv, NEW r \in Requests, Store(r)
  PROVE  KeptInv'
<1> DEFINE n == num[r]
           c == NewContext(r)
           w == [orders EXCEPT ![n] = c]
<1>1. /\ pc[r] = "store" /\ Leave(r) /\ UNCHANGED <<orderLoadErr, lost>>
      /\ stored' = stored + 1 /\ orders' = Compact(w) /\ told' = told \cup {<<n, c>>}
      /\ \/ file' = orders' /\ unsaved' = FALSE
         \/ unsaved' = TRUE /\ UNCHANGED file
  BY DEF Store, storeOrderContext
<1>2. n \in Numbers /\ c \in Contexts /\ c.at = stored + 1 /\ stored \in Nat
  <2>1. n \in Numbers /\ clientCred \in Creds /\ credentialID = clientCred
        /\ (op[r] # "place" => meta[r].cred = clientCred)
    BY <1>1 DEF IInv, RequestInv, InHand, LockInv, AdapterTypeOK, Locked
  <2> QED
    BY <2>1 DEF NewContext, Contexts, IInv, ExchangeTypeOK, AdapterTypeOK
<1>3. ~ orderLoadErr
  BY <1>1 DEF KeptInv
<1> HIDE DEF n, c
<1>4. /\ Dated(w, stored')
      /\ \A t \in Numbers \X Contexts : t[2].at <= stored /\ Holds(orders, t) => Holds(w, t)
      /\ Holds(w, <<n, c>>)
  BY <1>1, <1>2, AddDated DEF KeptInv
<1>5. stored' \in Nat
  BY <1>1, <1>2
<1> HIDE DEF w
<1>6. Dated(orders', stored') /\ Cardinality(NewerThan(orders', 0)) <= Limit
  BY <1>1, <1>4, <1>5, CompactDated
<1>7. told' \subseteq Numbers \X Contexts /\ \A t \in told' : t[2].at <= stored'
  BY <1>1, <1>2 DEF KeptInv, Contexts
<1>8. ASSUME NEW t \in told' \ lost' PROVE Holds(orders', t)
  <2>1. Holds(w, t)
    BY <1>1, <1>3, <1>4 DEF KeptInv
  <2> QED
    BY <1>1, <1>4, <1>5, <1>7, <2>1, CompactHolds
<1>9. Dated(file', stored') /\ Cardinality(NewerThan(file', 0)) <= Limit
  <2>1. CASE file' = orders'
    BY <1>6, <2>1
  <2>2. CASE file' = file
    <3>1. \A o \in Numbers : file[o].at <= stored => file[o].at <= stored'
      BY <1>1, <1>2 DEF IInv, AdapterTypeOK, Contexts
    <3>2. Dated(file', stored')
      BY <2>2, <3>1 DEF KeptInv, Dated
    <3> QED
      BY <2>2, <3>2 DEF KeptInv
  <2> QED
    BY <1>1, <2>1, <2>2
<1>10. ~ unsaved' => \A t \in told' \ lost' : Holds(file', t)
  BY <1>1, <1>8
<1>11. moved' \subseteq Requests /\ lost' \subseteq told'
  BY <1>1 DEF KeptInv, Leave, Clear
<1>12. orderLoadErr' \in BOOLEAN /\ unsaved' \in BOOLEAN /\ ~ orderLoadErr'
  BY <1>1, <1>3 DEF KeptInv
<1> QED
  BY <1>6, <1>7, <1>8, <1>9, <1>10, <1>11, <1>12 DEF KeptInv

\* What was saved is there after a restart, or stays in the file that could not be read.
LEMMA RestartKept ==
  ASSUME IInv, KeptInv, Restart
  PROVE  KeptInv'
<1>1. /\ UNCHANGED <<stored, file, told>> /\ stored \in Nat
      /\ unsaved' = FALSE /\ moved' = {} /\ pc' = [r \in Requests |-> "idle"]
      /\ lost' = lost \cup {t \in told : unsaved /\ ~ Holds(file, t)}
  BY DEF Restart, IInv, AdapterTypeOK
<1>2. \/ orderLoadErr' = FALSE /\ orders' = Compact(file)
      \/ orderLoadErr' = TRUE /\ orders' = NoContexts
  BY DEF Restart
<1>3. ASSUME NEW t \in told' \ lost' PROVE Holds(file', t) /\ t \in Numbers \X Contexts
  <2>1. Holds(file, t) /\ t \in Numbers \X Contexts
    BY <1>1 DEF KeptInv
  <2> QED
    BY <1>1, <2>1 DEF Holds
<1>4. Dated(file', stored') /\ Dated(file, stored) /\ Cardinality(NewerThan(file', 0)) <= Limit
  BY <1>1 DEF KeptInv
<1>5. CASE orderLoadErr' = FALSE /\ orders' = Compact(file)
  <2>1. Dated(orders', stored') /\ Cardinality(NewerThan(orders', 0)) <= Limit
    BY <1>1, <1>4, <1>5, CompactDated
  <2>2. \A t \in told' \ lost' : Holds(orders', t)
    <3>1. ASSUME NEW t \in told' \ lost' PROVE Holds(Compact(file), t)
      <4>1. Holds(file, t) /\ t \in Numbers \X Contexts
        BY <1>1 DEF KeptInv
      <4> QED
        BY <1>1, <1>4, <4>1, CompactHolds
    <3> QED
      BY <1>5, <3>1
  <2> QED
    BY <1>1, <1>3, <1>4, <1>5, <2>1, <2>2 DEF KeptInv
<1>6. CASE orderLoadErr' = TRUE /\ orders' = NoContexts
  <2>1. /\ NoContexts \in [Numbers -> Contexts] /\ NoContext.at = 0
        /\ \A n \in Numbers : NoContexts[n] = NoContext
    BY NoneTypes DEF NoContexts, NoContext
  <2>2. NewerThan(NoContexts, 0) = {}
    BY <2>1 DEF NewerThan
  <2>3. IsFiniteSet(NewerThan(NoContexts, 0)) /\ Cardinality(NewerThan(NoContexts, 0)) <= Limit
    BY <2>2, FS_EmptySet, LSOrdersAssumption
  <2>4. Dated(NoContexts, stored)
    BY <1>1, <2>1, <2>3 DEF Dated
  <2>5. Dated(orders', stored') /\ Cardinality(NewerThan(orders', 0)) <= Limit
    BY <1>1, <1>6, <2>3, <2>4
  <2> QED
    BY <1>1, <1>3, <1>4, <1>6, <2>5 DEF KeptInv
<1> QED
  BY <1>2, <1>5, <1>6

\* A request that is answered, and one that starts.
LEMMA ClearKept ==
  ASSUME IInv, KeptInv, NEW r \in Requests, Clear(r), UNCHANGED contexts
  PROVE  KeptInv'
<1>1. moved' \subseteq Requests /\ \A d \in Requests : pc'[d] \in {pc[d], "idle"}
  BY DEF Clear, Goto, KeptInv, IInv, RequestTypeOK
<1> QED
  BY <1>1, KeptStays DEF KeptInv

LEMMA GotoKept ==
  ASSUME IInv, KeptInv, NEW r \in Requests, NEW l \in Steps, Goto(r, l), UNCHANGED <<contexts, moved>>,
         ~ orderLoadErr \/ l = "login"
  PROVE  KeptInv'
<1>1. moved' \subseteq Requests /\ \A d \in Requests : pc'[d] \in {pc[d], l}
  BY DEF Goto, KeptInv, IInv, RequestTypeOK
<1> QED
  BY <1>1, KeptStays DEF KeptInv

LEMMA StepKept ==
  ASSUME IInv, KeptInv, NEW r \in Requests, Step(r)
  PROVE  KeptInv'
<1>1. CASE EndLogin(r) \/ Fails(r) \/ CallCancel(r) \/ Return(r)
  BY <1>1, ClearKept DEF EndLogin, Fails, CallCancel, Return, Leave
<1>2. CASE Store(r)
  BY <1>2, StoreKept
<1>3. CASE LookUp(r) \/ Check(r)
  <2>1. ~ orderLoadErr
    BY <1>3 DEF LookUp, Check, KeptInv
  <2>2. PICK l \in {"check", "answered", "call"} : Goto(r, l) /\ UNCHANGED <<contexts, moved>>
    BY <1>3 DEF LookUp, Check
  <2> QED
    BY <2>1, <2>2, GotoKept DEF Steps, Locked
<1>4. ASSUME NEW n \in Numbers, ArrivesOrNot(r, n), UNCHANGED contexts, pc[r] \in {"place", "call"}
      PROVE  KeptInv'
  <2>1. ~ orderLoadErr
    BY <1>4 DEF KeptInv
  <2>2. CASE Leave(r)
    BY <1>4, <2>2, ClearKept DEF Leave
  <2>3. CASE Goto(r, "store") /\ UNCHANGED moved
    BY <1>4, <2>1, <2>3, GotoKept DEF Steps, Locked
  <2> QED
    BY <1>4, <2>2, <2>3 DEF ArrivesOrNot
<1>5. ASSUME NEW n \in Numbers, NEW q \in 1..world.qty, CallPlace(r, n, q) PROVE KeptInv'
  BY <1>4, <1>5 DEF CallPlace
<1>6. ASSUME NEW n \in Numbers, CallModify(r, n) PROVE KeptInv'
  BY <1>4, <1>6 DEF CallModify
<1> QED
  BY <1>1, <1>2, <1>3, <1>5, <1>6 DEF Step

LEMMA KeptKeeps == ASSUME IInv, KeptInv, [Next]_vars PROVE KeptInv'
<1>1. CASE UNCHANGED vars
  BY <1>1, KeptStays DEF vars, request, KeptInv
<1>2. ASSUME NEW r \in Requests, Step(r) PROVE KeptInv'
  BY <1>2, StepKept
<1>3. ASSUME NEW r \in Requests, NEW k \in Creds, StartLogin(r, k) PROVE KeptInv'
  BY <1>3, GotoKept DEF StartLogin, Start, Steps, Locked
<1>4. ASSUME NEW r \in Requests, StartPlace(r) PROVE KeptInv'
  BY <1>4, GotoKept DEF StartPlace, Start, orderContextReady, Steps, Locked
<1>5. ASSUME NEW r \in Requests, NEW o \in Manages, NEW n \in Numbers, StartManage(r, o, n)
      PROVE  KeptInv'
  BY <1>5, GotoKept DEF StartManage, Start, trackedOrder, orderContextReady, Steps, Locked
<1>6. CASE Restart
  BY <1>6, RestartKept
<1>7. CASE NewDay
  <2>1. moved' \subseteq Requests
    BY <1>7 DEF NewDay
  <2> QED
    BY <1>7, <2>1, KeptStays DEF NewDay, KeptInv
<1>8. ASSUME NEW k \in Creds, NEW n \in Numbers, Settle(k, n) PROVE KeptInv'
  <2>1. moved' \subseteq Requests
    BY <1>8 DEF Settle, KeptInv
  <2> QED
    BY <1>8, <2>1, KeptStays DEF Settle, KeptInv
<1>9. ASSUME NEW k \in Creds, NEW n \in Numbers, NEW q \in 1..world.qty, OtherPlaces(k, n, q)
      PROVE  KeptInv'
  BY <1>9, KeptStays DEF OtherPlaces, request, KeptInv
<1> QED
  BY <1>1, <1>2, <1>3, <1>4, <1>5, <1>6, <1>7, <1>8, <1>9 DEF Next

LEMMA KeptImplies ==
  ASSUME IInv, KeptInv
  PROVE  ToldIsKept /\ TypeOK
<1>1. ToldIsKept
  <2>1. orderLoadErr => ~ unsaved
    BY DEF KeptInv
  <2> QED
    BY <2>1 DEF KeptInv, ToldIsKept
<1>2. Stored(orders) = NewerThan(orders, 0) /\ Stored(file) = NewerThan(file, 0)
  BY DEF Stored, NewerThan, KeptInv, Dated, Contexts
<1>3. \A m \in {orders, file} : IsFiniteSet(Stored(m)) /\ Cardinality(Stored(m)) <= Limit
  BY <1>2 DEF KeptInv, Dated
<1>4. TypeOK
  BY <1>3 DEF TypeOK, KeptInv, IInv, ExchangeTypeOK, AdapterTypeOK, RequestTypeOK, Steps, Locked
<1> QED
  BY <1>1, <1>4

-----------------------------------------------------------------------------
LEMMA NextKeeps == ASSUME IInv, [Next]_vars PROVE IInv'
<1>1. CASE UNCHANGED vars
  BY <1>1
  DEF vars, exchange, identity, contexts, request, IInv, ExchangeTypeOK, AdapterTypeOK, RequestTypeOK,
      CellsTrue, LockInv, ContextsInv, ContextTrue, RequestInv, InHand, InHandTrue
<1>2. ASSUME NEW r \in Requests, Step(r) PROVE IInv'
  BY <1>2, EndLoginKeeps, CallPlaceKeeps, StoreKeeps, LookUpKeeps, CheckKeeps, FailsKeeps,
     CallCancelKeeps, CallModifyKeeps, ReturnKeeps
  DEF Step
<1>3. ASSUME NEW r \in Requests,
             \/ \E k \in Creds : StartLogin(r, k)
             \/ StartPlace(r)
             \/ \E o \in Manages, n \in Numbers : StartManage(r, o, n)
      PROVE  IInv'
  BY <1>3, StartLoginKeeps, StartPlaceKeeps, StartManageKeeps
<1>4. CASE Restart \/ NewDay
  BY <1>4, RestartKeeps, NewDayKeeps
<1>5. ASSUME NEW k \in Creds, NEW n \in Numbers,
             Settle(k, n) \/ \E q \in 1..world.qty : OtherPlaces(k, n, q)
      PROVE  IInv'
  BY <1>5, SettleKeeps, OtherPlacesKeeps
<1> QED
  BY <1>1, <1>2, <1>3, <1>4, <1>5 DEF Next

\* A cancellation or modification reaches only an order of the day that was placed
\* through this adapter and account, whatever logins fail and numbers come again.
THEOREM OwnOrdersOnly == Spec => []CallsOwnOrders
<1>1. IInv => CallsOwnOrders
  BY IInvImplies
<1> QED
  BY <1>1, IInvInit, NextKeeps, PTL DEF Spec

\* A request never asks for shares that another request has already asked for.
THEOREM NeverAsksTwice == Spec => []AskedIsThere
<1>1. IInv => AskedIsThere
  BY IInvImplies
<1> QED
  BY <1>1, IInvInit, NextKeeps, PTL DEF Spec

\* A final status that GetOrder answers is the order's last one.
THEOREM FinalStatuses == Spec => []FinalStatusIsTrue
<1>1. IInv => FinalStatusIsTrue
  BY IInvImplies
<1> QED
  BY <1>1, IInvInit, NextKeeps, PTL DEF Spec

\* Every variable keeps its type, and neither the map nor the file ever holds more
\* contexts than Limit, the file though it is saved, or fails to be, after the map changed.
THEOREM LSOrdersTypes == Spec => []TypeOK
<1>1. Init => IInv /\ KeptInv
  BY IInvInit, KeptInit
<1>2. IInv /\ KeptInv /\ [Next]_vars => IInv' /\ KeptInv'
  BY NextKeeps, KeptKeeps
<1>3. IInv /\ KeptInv => TypeOK
  BY KeptImplies
<1> QED
  BY <1>1, <1>2, <1>3, PTL DEF Spec

\* The context of every order a client was told of stays until Limit newer ones have
\* displaced it, through crashes, disks that fail and maps that cannot be loaded,
\* unless no save of it ever succeeded.
THEOREM ToldStays == Spec => []ToldIsKept
<1>1. Init => IInv /\ KeptInv
  BY IInvInit, KeptInit
<1>2. IInv /\ KeptInv /\ [Next]_vars => IInv' /\ KeptInv'
  BY NextKeeps, KeptKeeps
<1>3. IInv /\ KeptInv => ToldIsKept
  BY KeptImplies
<1> QED
  BY <1>1, <1>2, <1>3, PTL DEF Spec
=============================================================================
