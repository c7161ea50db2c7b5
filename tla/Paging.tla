------------------------------- MODULE Paging -------------------------------
(***************************************************************************)
(* The loops that put one answer together from several pages of a broker:  *)
(*   kiwoom_rows   the positions of a Kiwoom account                       *)
(*   kiwoom_chart  the bars of a Kiwoom chart   (kiwoom/adapter/pagination.go) *)
(*   kis_chart     the bars of a KIS chart      (kis/adapter/ohlcv.go)     *)
(*   ls_balance    the positions of an LS account                          *)
(*   ls_master     the list of overseas stocks of LS      (ls/market.go)   *)
(*                                                                         *)
(* Whatever is listed, a row is a number and the broker gives the largest  *)
(* first: the days of a chart newest first, the rows of an account in the  *)
(* order of its book.  A page continues from the last row of the one       *)
(* before, whether that is said by a continuation key, by a cursor in the  *)
(* body, or by asking up to the day before.                                *)
(***************************************************************************)
EXTENDS Naturals, FiniteSetsExt, SequencesExt

CONSTANTS
  Days,         \* rows are 1..Days
  PageRows,     \* rows of a full page (100 in KIS and LS pages)
  MaxPages,     \* pages a loop asks for (100; 32 for the KIS chart)
  MaxRows,      \* rows a Kiwoom loop collects (100000)
  DefaultLimit, \* bars of a KIS chart without a lower date or limit (30)
  PeriodOf,     \* the week or month of a day, for grouped charts
  Listings      \* what is listed, one of which is chosen: [loop, book, void, opts, broker]

Loops == {"kiwoom_rows", "kiwoom_chart", "kis_chart", "ls_balance", "ls_master"}

ASSUME PagingAssumption ==
  /\ {Days, PageRows, MaxPages, MaxRows, DefaultLimit} \subseteq Nat \ {0}
  /\ PeriodOf \in [1..Days -> Nat]
  /\ \A b, c \in 1..Days : b <= c => PeriodOf[b] <= PeriodOf[c]
  /\ Listings \subseteq [loop : Loops, book : SUBSET (1..Days), void : SUBSET (1..Days),
                         opts : [from : 0..Days, to : 0..Days, limit : 0..Days, grouped : BOOLEAN],
                         broker : {"honest", "ignores"}]

VARIABLES
  listing, \* what is listed and asked for, which does not change: the rows of the
           \* broker's book, those without a quantity or a symbol, the range (0 for
           \* none), the limit (0 for none), whether bars are grouped by period; an
           \* honest broker, or one that ignores what a page should continue from
  key,     \* the next page has the rows below this one
  seen,    \* the continuation keys so far
  page,    \* pages so far
  rows,    \* the rows collected
  reply    \* the caller's answer: a sequence of bars, or why there is none

pagingVars == <<listing, key, seen, page, rows, reply>>

loop == listing.loop
opts == listing.opts

Reply(state, out) == [state |-> state, out |-> out]
Running == Reply("running", << >>)

PagingTypeOK ==
  /\ listing \in Listings
  /\ key \in 1..Days + 1
  /\ seen \subseteq 1..Days + 1
  /\ page \in 0..Days + 2
  /\ rows \in Seq(1..Days)
  /\ reply.state \in {"running", "done", "error"}
  /\ reply.out \in Seq(SUBSET (1..Days))

IsChart == loop \in {"kiwoom_chart", "kis_chart"}

\* The upper date; without one, today.
To == IF IsChart /\ opts.to # 0 THEN opts.to ELSE Days

FirstKey == To + 1

PagingInit ==
  /\ listing \in Listings
  /\ key = FirstKey
  /\ seen = {}
  /\ page = 0
  /\ rows = << >>
  /\ reply = Running

-----------------------------------------------------------------------------
(* Numbers in order.                                                       *)

Ascending(S) ==
  [i \in 1..Cardinality(S) |-> CHOOSE b \in S : Cardinality({c \in S : c < b}) = i - 1]

Descending(S) == Reverse(Ascending(S))

\* The positions at which s has a row of S, and those rows in their order.
Places(s, S) == {i \in DOMAIN s : s[i] \in S}

Select(s, S) ==
  LET at == Ascending(Places(s, S)) IN [i \in DOMAIN at |-> s[at[i]]]

-----------------------------------------------------------------------------
(* The pages a broker gives.                                               *)

Newest(S, n) == {b \in S : Cardinality({c \in S : c > b}) < n}

\* What the broker has below a key.
Below(k) ==
  {b \in listing.book : b < IF listing.broker = "ignores" THEN FirstKey ELSE k}

\* A page of the KIS charts and of the LS master is full while there are rows, a
\* domestic KIS chart being asked for with its lower date and an overseas one
\* without; the others may be cut anywhere, even before the first row.
readCount == IF loop = "ls_master" /\ opts.limit \in 1..PageRows THEN opts.limit ELSE PageRows

BrokerPages ==
  IF loop = "ls_master"
    THEN {Newest(Below(key), readCount)}
  ELSE IF loop = "kis_chart"
    THEN {Newest(Below(key), readCount), Newest({b \in Below(key) : b >= opts.from}, readCount)}
    ELSE {Newest(Below(key), n) : n \in 0..PageRows}

\* The key the page ends with, and whether the broker says that there is more: it
\* may say so when there is not, and says it again of a page it gives again.
KeyAfter(p) == IF p = {} THEN key ELSE Min(p)
SaysMore(p) ==
  IF Below(key) \subseteq p /\ (listing.broker = "honest" \/ page = 0)
    THEN {TRUE, FALSE}
    ELSE {TRUE}

-----------------------------------------------------------------------------
(* What the callers make of the rows.                                      *)

FirstOf(s, n) == IF n > 0 /\ Len(s) > n THEN SubSeq(s, 1, n) ELSE s

InRange ==
  {b \in 1..Days : (opts.from # 0 => b >= opts.from) /\ (opts.to # 0 => b <= opts.to)}

Held == (1..Days) \ listing.void

Single(s) == [i \in DOMAIN s |-> {s[i]}]

\* aggregateOHLCVByPeriod: one bar for the days of a period.
aggregateOHLCVByPeriod(s) ==
  LET periods == Descending({PeriodOf[s[i]] : i \in DOMAIN s})
  IN  [i \in DOMAIN periods |-> {b \in ToSet(s) : PeriodOf[b] = periods[i]}]

\* applyOHLCVOptions, without and with the limit.
Bars(s) ==
  LET kept == Select(s, InRange)
  IN  IF opts.grouped THEN aggregateOHLCVByPeriod(kept) ELSE Single(kept)

KISLimit == IF opts.from = 0 /\ opts.limit = 0 THEN DefaultLimit ELSE opts.limit

Present(s) ==
  CASE loop = "kis_chart"    -> FirstOf(Bars(s), KISLimit)
    [] loop = "kiwoom_chart" -> FirstOf(Single(Select(s, InRange)), opts.limit)
    [] loop = "ls_master"    -> FirstOf(Single(Select(s, Held)), opts.limit)
    [] OTHER                 -> Single(Select(s, Held))

-----------------------------------------------------------------------------
Give(state, s) == reply' = Reply(state, IF state = "done" THEN Present(s) ELSE << >>)

\* The loop goes on with the page that continues from k, if it may ask for one more.
GoOn(k, bounded) ==
  /\ key' = k
  /\ IF bounded /\ page' = MaxPages
       THEN Give("error", << >>)
       ELSE UNCHANGED reply

Take(s) == rows' = s /\ page' = page + 1

Asking(l) == loop = l /\ reply = Running

\* A page cannot be had or decoded, or has a row without a symbol or a date.
PageFails ==
  /\ reply = Running
  /\ Give("error", << >>)
  /\ UNCHANGED <<listing, key, seen, page, rows>>

-----------------------------------------------------------------------------
(* collectEndpointRowsUntil.                                               *)

\* chartPageStop: the lower date is reached, or there are as many bars in the
\* range as asked for.
Reached(s) ==
  /\ loop = "kiwoom_chart"
  /\ \/ opts.from # 0 /\ s # << >> /\ Last(s) <= opts.from
     \/ opts.limit > 0 /\ Cardinality(Places(s, InRange)) >= opts.limit

Disordered(p) == loop = "kiwoom_chart" /\ rows # << >> /\ p # {} /\ Max(p) >= Last(rows)

collectEndpointRowsUntil(p, more) ==
  /\ Asking("kiwoom_rows") \/ Asking("kiwoom_chart")
  /\ LET all == rows \o Descending(p)
     IN  /\ Take(all)
         /\ IF \/ Len(all) > MaxRows
               \/ more /\ KeyAfter(p) \in seen
               \/ Disordered(p)
              THEN Give("error", << >>) /\ UNCHANGED <<key, seen>>
              ELSE /\ seen' = IF more THEN seen \cup {KeyAfter(p)} ELSE seen
                   /\ IF Reached(all) \/ ~ more
                        THEN Give("done", all) /\ UNCHANGED key
                        ELSE GoOn(KeyAfter(p), TRUE)
  /\ UNCHANGED listing

-----------------------------------------------------------------------------
(* GetOHLCV of the KIS adapter.                                            *)

\* A range that ends before it begins.
RefuseRange ==
  /\ Asking("kis_chart") /\ page = 0
  /\ opts.from > To
  /\ Give("error", << >>)
  /\ UNCHANGED <<listing, key, seen, page, rows>>

\* Fault: the period the last page ends in counts as whole.
neededExactly == KISLimit

\* Of a grouped chart one more period is wanted, for the last one to be whole.
needed == IF opts.grouped THEN KISLimit + 1 ELSE KISLimit

Enough(s) == KISLimit > 0 /\ Len(Bars(s)) >= needed

GetOHLCVPage(p) ==
  /\ Asking("kis_chart") /\ opts.from <= To
  /\ LET fresh == {b \in p : b < key /\ b >= opts.from} \ ToSet(rows)
         all   == Descending(ToSet(rows) \cup fresh)
     IN  IF p = {}
           THEN Give("done", rows) /\ UNCHANGED <<key, page, rows>>
           ELSE /\ Take(all)
                /\ IF Min(p) <= opts.from
                     THEN Give("done", all) /\ UNCHANGED key
                   ELSE IF fresh = {} \/ Min(p) >= key
                     THEN Give("error", << >>) /\ UNCHANGED key
                   ELSE IF Cardinality(p) < PageRows \/ Enough(all)
                     THEN Give("done", all) /\ UNCHANGED key
                     ELSE GoOn(Min(p), TRUE)
  /\ UNCHANGED <<listing, seen>>

-----------------------------------------------------------------------------
(* InquireBalance and ListOverseasStockMaster of the LS client.            *)

\* The continuation is a header, a cursor in the body, or both; a page that says
\* that there is more and has neither is an error, as PageFails.
InquireBalance(p, more) ==
  /\ Asking("ls_balance")
  /\ LET all == rows \o Descending(p)
     IN  /\ Take(all)
         /\ IF ~ more
              THEN Give("done", all) /\ UNCHANGED <<key, seen>>
            ELSE IF KeyAfter(p) \in seen \/ p = {}
              THEN Give("error", << >>) /\ UNCHANGED <<key, seen>>
              ELSE /\ seen' = seen \cup {KeyAfter(p)}
                   /\ GoOn(KeyAfter(p), TRUE)
  /\ UNCHANGED listing

\* Nothing but the list's own end, or a cursor that stays, ends this loop.
ListOverseasStockMaster(p, more) ==
  /\ Asking("ls_master")
  /\ LET all == rows \o Descending(p)
     IN  /\ Take(all)
         /\ IF \/ opts.limit > 0 /\ Cardinality(Places(all, Held)) >= opts.limit
               \/ ~ more
               \/ page > 0 /\ KeyAfter(p) = key
               \/ Cardinality(p) < readCount
              THEN Give("done", all) /\ UNCHANGED key
              ELSE GoOn(KeyAfter(p), FALSE)
  /\ UNCHANGED <<listing, seen>>

PagingNext ==
  \/ PageFails
  \/ RefuseRange
  \/ \E p \in BrokerPages :
       \/ GetOHLCVPage(p)
       \/ \E more \in SaysMore(p) :
            collectEndpointRowsUntil(p, more) \/ InquireBalance(p, more)
              \/ ListOverseasStockMaster(p, more)

PagingSpec == PagingInit /\ [][PagingNext]_pagingVars

-----------------------------------------------------------------------------
(* Properties.                                                             *)

\* What a caller is given is all it asked for: every bar of the range or as many
\* of the newest as the limit says, each with every day of its period that is in
\* the range, and every position, in the broker's order and none twice; what
\* cannot be completed is an error ("callers cannot mistake partial data for a
\* full result", kiwoom/adapter/pagination.go).  Wherever pages are cut, and
\* whatever the broker makes of a continuation, except that the LS master takes
\* a list for complete that does not go on.
AnswerIsWhole ==
  reply.state = "done" /\ (loop # "ls_master" \/ listing.broker = "honest")
    => reply.out = Present(Descending({b \in listing.book : b < FirstKey}))
=============================================================================
