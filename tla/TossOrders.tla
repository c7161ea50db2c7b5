----------------------------- MODULE TossOrders -----------------------------
(***************************************************************************)
(* The orders of one Toss account (internal/toss/adapter/adapter.go,       *)
(* quantities.go).  The adapter keeps nothing: each operation is one call  *)
(* of the broker, whose answer is turned into the caller's while orders go *)
(* on executing.  A cancellation or modification is only a request, with   *)
(* an id of its own: Toss grants it later, or refuses it, and then leaves  *)
(* a record of the refused request under that id.  Toss counts shares in   *)
(* decimal texts, which may be parts of a share and may be too large for   *)
(* the whole-number fields of an answer; what is modelled is how those     *)
(* texts are read, subtracted and cut.  Prices are left out.               *)
(***************************************************************************)
EXTENDS Naturals, FiniteSetsExt

CONSTANTS
  OrderIds,  \* order ids Toss may give
  NoId,      \* no order id
  Base,      \* the base of the decimal texts (10)
  Numerals,  \* a bound of the model: the digits of a text, read without its point
  MaxScale,  \* a bound of the model: digits after the point
  MaxInt     \* the largest whole number of an answer (2^63 - 1)

ASSUME TossOrdersAssumption ==
  /\ NoId \notin OrderIds
  /\ Base \in Nat \ {0, 1}
  /\ Numerals \subseteq Nat
  /\ {MaxScale, MaxInt} \subseteq Nat

VARIABLES
  tossBook, \* what Toss has of each order and of each request about one
  asked,    \* the operation that has its answer from Toss and not yet given its own
  told      \* the last answer given

tossOrderVars == <<tossBook, asked, told>>

\* A text is its digits and how many of them follow the point.
Texts == [n : Numerals, scale : 0..MaxScale]
Blank == [n |-> 0, scale |-> MaxScale + 1]   \* empty, or not a decimal
Zero  == [n |-> 0, scale |-> 0]

Ongoing == {"PENDING", "PARTIAL_FILLED", "PENDING_CANCEL", "PENDING_REPLACE"}
Over    == {"FILLED", "CANCELED", "REJECTED", "REPLACED"}
Refused == {"CANCEL_REJECTED", "REPLACE_REJECTED"}
\* No record: the id is not given, or to a request that is undecided, or to a
\* cancellation that was granted.
Absent  == {"none", "cancel", "replace", "granted"}
Unknown == [state |-> "none", quantity |-> Blank, filled |-> Zero, about |-> NoId]

\* A record is about the order that a request with its id was made for, if it was one.
Records == [state : Ongoing \cup Over \cup Refused \cup Absent, quantity : Texts \cup {Blank},
            filled : Texts \cup {Zero, Blank}, about : OrderIds \cup {NoId}]

Nothing == [op |-> "none", id |-> NoId, seen |-> Unknown]
Answer(op, id, status, filled, left) ==
  [op |-> op, id |-> id, status |-> status, filled |-> filled, left |-> left]

-----------------------------------------------------------------------------
(* Decimal texts.                                                          *)

\* What a digit is worth, k digits before the last.
Power[k \in Nat] == IF k = 0 THEN 1 ELSE Base * Power[k - 1]

\* parseQuantity: the value of a text, in units of the last digit of any text.
Parses(d) == d # Blank
At(d, scale) == d.n * Power[scale - d.scale]
Value(d) == At(d, MaxScale)

\* FloatString, and the two TrimRights.
Trimmed(n, scale) ==
  LET short == Min({s \in 0..scale : n % Power[scale - s] = 0})
  IN  [n |-> n \div Power[scale - short], scale |-> short]

remainingQuantity(q, f) ==
  IF ~ Parses(q) \/ ~ Parses(f) THEN Blank
  ELSE LET scale == Max({q.scale, f.scale})
       IN  IF At(q, scale) <= At(f, scale) THEN Zero
           ELSE Trimmed(At(q, scale) - At(f, scale), scale)

\* decimalToInt64: cut to a whole number; one that does not fit is 0, as is Blank.
decimalToInt64(d) ==
  LET whole == d.n \div Power[d.scale]
  IN  IF Parses(d) /\ whole <= MaxInt THEN whole ELSE 0

\* Both forms in which an answer states a quantity.
Stated(d) == [text |-> d, whole |-> decimalToInt64(d)]

\* Fault: a status that mentions a cancellation is taken for one.
mapOrderStatusByWord(s) ==
  CASE s = "FILLED"                                             -> "filled"
    [] s \in {"PENDING_CANCEL", "CANCELED", "CANCEL_REJECTED"}  -> "cancelled"
    [] s \in {"REJECTED", "REPLACE_REJECTED"}                   -> "rejected"
    [] OTHER                                                    -> "pending"

\* REPLACED is not among the statuses the adapter knows, and a refused request is
\* answered like a refused order.
mapOrderStatus(s) ==
  CASE s = "FILLED"                     -> "filled"
    [] s = "CANCELED"                   -> "cancelled"
    [] s \in {"REJECTED"} \cup Refused  -> "rejected"
    [] OTHER                            -> "pending"

-----------------------------------------------------------------------------
TossOrdersTypeOK ==
  /\ tossBook \in [OrderIds -> Records]
  /\ asked.op \in {"none", "get", "fills"} /\ asked.id \in OrderIds \cup {NoId}
  /\ asked.seen \in Records
  /\ told.id \in OrderIds \cup {NoId}
  /\ told.op \in {"none", "place", "cancel", "modify", "get", "fills", "error"}
  /\ told.status \in {"none", "pending", "filled", "cancelled", "rejected"}
  /\ {told.filled.whole, told.left.whole} \subseteq 0..MaxInt

TossOrdersInit ==
  /\ tossBook = [o \in OrderIds |-> Unknown]
  /\ asked = Nothing
  /\ told = Answer("none", NoId, "none", Stated(Zero), Stated(Zero))

Tell(op, id, status, filled, left) == told' = Answer(op, id, status, Stated(filled), Stated(left))
Error == Tell("error", NoId, "none", Blank, Blank)

Become(o, record) == tossBook' = [tossBook EXCEPT ![o] = record]

\* What Toss has as a quantity that is not given is its own business.
Given(quantity) == IF quantity = Blank THEN Texts \cup {Blank} ELSE {quantity}

\* Every operation may come to nothing, at its own checks, on the way to Toss or by its
\* refusal, as it does for an id without a record.
Fails == Error /\ UNCHANGED <<tossBook, asked>>

\* PlaceOrder and buildCreateOrderBody: a quantity as a text or as a whole number, or
\* Blank for an amount of money, of which the quantity is not known when it is accepted.
\* The answer to an accepted order may be lost.
PlaceOrder(o, quantity) ==
  /\ tossBook[o].state = "none"
  /\ \E q \in Given(quantity) :
       Become(o, [state |-> "PENDING", quantity |-> q, filled |-> Zero, about |-> NoId])
  /\ Tell("place", o, "pending", Zero, quantity) \/ Error
  /\ UNCHANGED asked

\* Toss takes a request about o, under the id new, and o waits for its decision.
TossAccepts(o, new, request, waits, quantity) ==
  /\ tossBook[o].state \in {"PENDING", "PARTIAL_FILLED"}
  /\ tossBook[new].state = "none"
  /\ tossBook' = [tossBook EXCEPT
       ![o].state = waits,
       ![new] = [state |-> request, quantity |-> quantity, filled |-> Zero, about |-> o]]

\* CancelOrder, which does not tell the id of its request.
CancelOrder(o, new) ==
  /\ TossAccepts(o, new, "cancel", "PENDING_CANCEL", Blank)
  /\ Tell("cancel", o, "none", Zero, Zero) \/ Error
  /\ UNCHANGED asked

\* ModifyOrder: what remains is answered to be the quantity asked for, blank when
\* none is, under the id of the request; an answer without it is given the old one.
ModifyOrder(o, new, quantity) ==
  /\ TossAccepts(o, new, "replace", "PENDING_REPLACE", quantity)
  /\ (\E named \in {new, o} : Tell("modify", named, "pending", Zero, quantity)) \/ Error
  /\ UNCHANGED asked

\* GetOrder and GetOrderFills: the call, ...
Ask(op, o) ==
  /\ asked = Nothing
  /\ tossBook[o].state \notin Absent
  /\ asked' = [op |-> op, id |-> o, seen |-> tossBook[o]]
  /\ UNCHANGED <<tossBook, told>>

\* ... and what is made of its answer (orderToResult, one fill or none).
GetOrder ==
  /\ asked.op = "get"
  /\ LET r == asked.seen
     IN  IF ~ Parses(r.quantity) \/ ~ Parses(r.filled)
           THEN Error
           ELSE Tell("get", asked.id, mapOrderStatus(r.state), r.filled,
                     remainingQuantity(r.quantity, r.filled))
  /\ asked' = Nothing
  /\ UNCHANGED tossBook

GetOrderFills ==
  /\ asked.op = "fills"
  /\ IF ~ Parses(asked.seen.filled)
       THEN Error
       ELSE Tell("fills", asked.id, "none", asked.seen.filled, Blank)
  /\ asked' = Nothing
  /\ UNCHANGED tossBook

-----------------------------------------------------------------------------
(* Toss: shares are executed, requests are granted or refused.             *)

TossExecutes(o) ==
  LET r == tossBook[o]
  IN  /\ r.state \in Ongoing /\ Parses(r.quantity)
      /\ \E f \in Texts :
           /\ Value(f) > Value(r.filled) /\ Value(f) <= Value(r.quantity)
           /\ Become(o, [r EXCEPT !.filled = f,
                                  !.state = IF Value(f) = Value(r.quantity) THEN "FILLED"
                                            ELSE IF @ = "PENDING" THEN "PARTIAL_FILLED" ELSE @])
      /\ UNCHANGED <<asked, told>>

\* An order is rejected or cancelled, whatever was executed and is requested.
TossEnds(o) ==
  /\ tossBook[o].state \in Ongoing
  /\ \E s \in {"REJECTED", "CANCELED"} : Become(o, [tossBook[o] EXCEPT !.state = s])
  /\ UNCHANGED <<asked, told>>

\* The order is cancelled, or goes on under the id of the request.
TossGrants(new) ==
  LET r == tossBook[new]
  IN  /\ \/ /\ r.state = "cancel" /\ tossBook[r.about].state = "PENDING_CANCEL"
            /\ tossBook' = [tossBook EXCEPT ![r.about].state = "CANCELED",
                                            ![new].state = "granted"]
         \/ /\ r.state = "replace" /\ tossBook[r.about].state = "PENDING_REPLACE"
            /\ \E q \in Given(r.quantity) :
                 tossBook' = [tossBook EXCEPT ![r.about].state = "REPLACED",
                                              ![new] = [r EXCEPT !.state = "PENDING", !.quantity = q]]
      /\ UNCHANGED <<asked, told>>

\* What an order is after a refused request: what it was before, or what it has become.
Former(r) ==
  IF r.state \in Over THEN r.state ELSE IF r.filled = Zero THEN "PENDING" ELSE "PARTIAL_FILLED"

\* The request is refused, and has a record of its own.
TossRefuses(new) ==
  LET r == tossBook[new]
      refused == IF r.state = "cancel" THEN "CANCEL_REJECTED" ELSE "REPLACE_REJECTED"
  IN  /\ r.state \in {"cancel", "replace"}
      /\ \E q \in Given(r.quantity) :
           tossBook' = [tossBook EXCEPT ![r.about].state = Former(tossBook[r.about]),
                                        ![new] = [r EXCEPT !.state = refused, !.quantity = q]]
      /\ UNCHANGED <<asked, told>>

TossOrdersNext ==
  \/ \E o \in OrderIds :
       \/ \E q \in Texts \cup {Blank} :
            \/ PlaceOrder(o, q)
            \/ \E new \in OrderIds : ModifyOrder(o, new, q)
       \/ \E new \in OrderIds : CancelOrder(o, new)
       \/ \E op \in {"get", "fills"} : Ask(op, o)
       \/ TossExecutes(o)
       \/ TossEnds(o)
       \/ TossGrants(o)
       \/ TossRefuses(o)
  \/ GetOrder
  \/ GetOrderFills
  \/ Fails

TossOrdersSpec == TossOrdersInit /\ [][TossOrdersNext]_tossOrderVars

-----------------------------------------------------------------------------
(* Properties.                                                             *)

\* What is said to be executed and what is said to remain make up the quantity,
\* to the last part of a share, and a whole number is what fits of its text
\* (toss/adapter/quantities.go: "fractional executions and large whole quantities
\* stay exact"), though the order went on after the broker's answer.
QuantitiesAddUp ==
  told.op = "get" =>
    /\ Value(told.filled.text) + Value(told.left.text) = Value(tossBook[told.id].quantity)
    /\ \A s \in {told.filled, told.left} :
         \/ s.whole * Power[MaxScale] <= Value(s.text)
              /\ Value(s.text) < (s.whole + 1) * Power[MaxScale]
         \/ s.whole = 0 /\ Value(s.text) > MaxInt * Power[MaxScale]

\* What is known by an id: the order or request it was given to, and the order that
\* a request was about.
KnownBy(id) == {id} \cup ({tossBook[id].about} \ {NoId})

\* An order said to be filled, cancelled or rejected is over, with just what was said
\* to be executed, and so is the order that it replaced: no share of either is
\* executed any more, however the requests about them are decided.  Only "rejected"
\* may be said of a request: it was refused, and nothing was executed under its id,
\* while the order it was about may go on.
EndedIsOver ==
  told.op = "get" /\ told.status # "pending" =>
    /\ tossBook[told.id].filled = told.filled.text
    /\ \/ \A o \in KnownBy(told.id) : tossBook[o].state \in Over
       \/ /\ told.status = "rejected" /\ told.filled.text = Zero
          /\ tossBook[told.id].state \in Refused

\* What a client was told of an order is true of it, in its quantities and of its end.
TossAnswerIsTrue == QuantitiesAddUp /\ EndedIsOver
=============================================================================
