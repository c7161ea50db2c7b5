----------------------------- MODULE ProxyCache -----------------------------
(***************************************************************************)
(* The KIS proxy of the server (internal/server/handler_kis_proxy.go,      *)
(* kis_proxy_cache.go, kis_proxy_rate_limiter.go): callers who ask for the *)
(* same thing share one call of the broker and its answer is kept, fresh   *)
(* for as long as the policy says, and for a while longer to be given when *)
(* the broker fails.                                                       *)
(*                                                                         *)
(* A tick is a minute.  What a goroutine does without waiting takes none;  *)
(* callers wait for the limiters and for each other.                       *)
(***************************************************************************)
EXTENDS Naturals, FiniteSets

CONSTANTS
  Callers,
  NoCaller,
  Asks,      \* what may be asked for: [account, path]; the request's other fields
             \* belong to the path here
  SoftTTL,   \* minutes an answer of a path is fresh; 0 for one that is never kept
  Retention, \* minutes it is kept after that (15)
  Capacity,  \* answers kept (2048)
  Special,   \* paths with a limiter of their own
  Burst,     \* calls a limiter lets pass in a minute, a bound of the model
  Latest     \* the last minute, a bound of the model

ASSUME ProxyCacheAssumption ==
  /\ NoCaller \notin Callers
  /\ Asks # {}
  /\ \A a \in Asks : SoftTTL[a.path] \in Nat
  /\ {Retention, Capacity, Burst} \subseteq Nat \ {0}
  /\ Latest \in Nat

VARIABLES
  minute,   \* the time
  items,    \* kisProxyCache.items
  flight,   \* kisProxyCache.group: who fetches what a key stands for
  passes,   \* calls each limiter still lets pass: "all", or a path
  at,       \* where each caller is
  ask,      \* what it asks for
  begun,    \* when it began
  got,      \* what the call it made or shared gave
  given     \* its answer

caller == <<at, ask, begun, got, given>>
proxyVars == <<minute, items, flight, passes, caller>>

Values   == [ask : Asks, fetched : 0..Latest]
NoValue  == [ask |-> CHOOSE a \in Asks : TRUE, fetched |-> 0]
Result(s, v) == [state |-> s, value |-> v]
NoResult == Result("none", NoValue)
Failure  == Result("error", NoValue)

\* Fault: the account is not part of the key.
keyOfPath(a) == CHOOSE b \in Asks : b.path = a.path

\* buildKISProxyCacheKey.
buildKISProxyCacheKey(a) == a

CacheKeys == {buildKISProxyCacheKey(a) : a \in Asks}
Key(c) == buildKISProxyCacheKey(ask[c])

cacheTTL(a) == SoftTTL[a.path]
cacheable(a) == cacheTTL(a) > 0

Fetching == {"own limiter", "limiter", "call"}
Local    == {"look", "do", "settle", "answered"}

NoEntry == [value |-> NoValue, soft |-> 0, hard |-> 0]
Kept == {k \in CacheKeys : items[k] # NoEntry}

ProxyTypeOK ==
  /\ minute \in 0..Latest
  /\ \A k \in CacheKeys : items[k].value \in Values /\ {items[k].soft, items[k].hard} \subseteq Nat
  /\ Cardinality(Kept) <= Capacity
  /\ flight \in [CacheKeys -> Callers \cup {NoCaller}]
  /\ \A l \in DOMAIN passes : passes[l] \in 0..Burst
  /\ at \in [Callers -> Fetching \cup Local \cup {"idle", "share"}]
  /\ ask \in [Callers -> Asks]
  /\ begun \in [Callers -> 0..Latest]
  /\ \A r \in {got, given} : r \in [Callers -> [state : {"none", "ok", "error"}, value : Values]]

ProxyInit ==
  /\ minute = 0
  /\ items = [k \in CacheKeys |-> NoEntry]
  /\ flight = [k \in CacheKeys |-> NoCaller]
  /\ passes = [l \in Special \cup {"all"} |-> Burst]
  /\ at = [c \in Callers |-> "idle"]
  /\ ask = [c \in Callers |-> NoValue.ask]
  /\ begun = [c \in Callers |-> 0]
  /\ got = [c \in Callers |-> NoResult]
  /\ given = [c \in Callers |-> NoResult]

-----------------------------------------------------------------------------
GoTo(c, l) == at' = [at EXCEPT ![c] = l]

GiveTo(c, r) ==
  /\ GoTo(c, "answered")
  /\ given' = [given EXCEPT ![c] = r]

\* handleKISProxyPath, after the request is validated and its account resolved.
Enter(c, a) ==
  /\ at[c] = "idle"
  /\ ask' = [ask EXCEPT ![c] = a]
  /\ begun' = [begun EXCEPT ![c] = minute]
  /\ GoTo(c, IF cacheable(a) THEN "look" ELSE "own limiter")
  /\ UNCHANGED <<minute, items, flight, passes, got, given>>

getFresh(c) ==
  /\ at[c] = "look"
  /\ IF Key(c) \in Kept /\ minute < items[Key(c)].soft
       THEN GiveTo(c, Result("ok", items[Key(c)].value))
       ELSE GoTo(c, "do") /\ UNCHANGED given
  /\ UNCHANGED <<minute, items, flight, passes, ask, begun, got>>

\* The first caller fetches, on its own context; the others wait for what it gets.
do(c) ==
  /\ at[c] = "do"
  /\ IF flight[Key(c)] = NoCaller
       THEN flight' = [flight EXCEPT ![Key(c)] = c] /\ GoTo(c, "own limiter")
       ELSE GoTo(c, "share") /\ UNCHANGED flight
  /\ UNCHANGED <<minute, items, passes, ask, begun, got, given>>

\* wait: the limiter of the path, when it has one, and then that of all paths.
waitOwn(c) ==
  LET path == ask[c].path
  IN  /\ at[c] = "own limiter"
      /\ IF path \in Special
           THEN passes[path] > 0 /\ passes' = [passes EXCEPT ![path] = @ - 1]
           ELSE UNCHANGED passes
      /\ GoTo(c, "limiter")
      /\ UNCHANGED <<minute, items, flight, ask, begun, got, given>>

wait(c) ==
  /\ at[c] = "limiter"
  /\ passes["all"] > 0
  /\ passes' = [passes EXCEPT !["all"] = @ - 1]
  /\ GoTo(c, "call")
  /\ UNCHANGED <<minute, items, flight, ask, begun, got, given>>

Sharers(c) == {c} \cup {d \in Callers : cacheable(ask[c]) /\ at[d] = "share" /\ Key(d) = Key(c)}

Fetched(c, r) ==
  /\ at' = [d \in Callers |-> IF d \in Sharers(c) THEN "settle" ELSE at[d]]
  /\ got' = [d \in Callers |-> IF d \in Sharers(c) THEN r ELSE got[d]]
  /\ flight' = IF cacheable(ask[c]) THEN [flight EXCEPT ![Key(c)] = NoCaller] ELSE flight
  /\ UNCHANGED <<minute, items, passes, ask, begun, given>>

callEndpoint(c) ==
  /\ at[c] = "call"
  /\ \/ Fetched(c, Result("ok", [ask |-> ask[c], fetched |-> minute]))
     \/ Fetched(c, Failure)

\* The client of the caller that fetches goes away: everyone who waits for it fails.
Leave(c) ==
  /\ at[c] \in Fetching
  /\ Fetched(c, Failure)

\* Fault: an answer is as fresh as it is kept.
setTTL(a) == cacheTTL(a) + Retention

softTTL(a) == cacheTTL(a)

Item(a, v) ==
  [value |-> v, soft |-> minute + softTTL(a), hard |-> minute + cacheTTL(a) + Retention]

\* Fault: entries are never evicted.
setUnbounded(k, a, v) == items' = [items EXCEPT ![k] = Item(a, v)]

\* Beyond the capacity an entry goes; which one is least recently used is left open.
set(k, a, v) ==
  IF Cardinality(Kept \cup {k}) <= Capacity
    THEN setUnbounded(k, a, v)
    ELSE \E old \in Kept \ {k} : items' = [items EXCEPT ![k] = Item(a, v), ![old] = NoEntry]

\* Every caller stores what it was given, whoever fetched it; one that has an error
\* is given what there still is.
settle(c) ==
  /\ at[c] = "settle"
  /\ IF got[c].state = "ok"
       THEN /\ GiveTo(c, got[c])
            /\ IF cacheable(ask[c]) THEN set(Key(c), ask[c], got[c].value) ELSE UNCHANGED items
       ELSE /\ GiveTo(c, IF cacheable(ask[c]) /\ Key(c) \in Kept
                           THEN Result("ok", items[Key(c)].value)
                           ELSE Failure)
            /\ UNCHANGED items
  /\ UNCHANGED <<minute, flight, passes, ask, begun, got>>

Respond(c) ==
  /\ at[c] = "answered"
  /\ GoTo(c, "idle")
  /\ ask' = [ask EXCEPT ![c] = NoValue.ask]
  /\ begun' = [begun EXCEPT ![c] = 0]
  /\ got' = [got EXCEPT ![c] = NoResult]
  /\ given' = [given EXCEPT ![c] = NoResult]
  /\ UNCHANGED <<minute, items, flight, passes>>

\* A minute passes: limiters let calls pass again, and what was kept long enough
\* is dropped.
Minute ==
  /\ minute < Latest
  /\ \A c \in Callers : at[c] \notin Local
  /\ minute' = minute + 1
  /\ passes' = [l \in DOMAIN passes |-> Burst]
  /\ items' = [k \in CacheKeys |-> IF items[k].hard < minute' THEN NoEntry ELSE items[k]]
  /\ UNCHANGED <<flight, caller>>

ProxyNext ==
  \/ Minute
  \/ \E c \in Callers :
       \/ \E a \in Asks : Enter(c, a)
       \/ getFresh(c) \/ do(c) \/ waitOwn(c) \/ wait(c) \/ callEndpoint(c) \/ Leave(c)
       \/ settle(c) \/ Respond(c)

ProxySpec == ProxyInit /\ [][ProxyNext]_proxyVars

-----------------------------------------------------------------------------
(* Properties.                                                             *)

\* At most one caller at a time fetches what a key stands for.
OneFetchPerKey ==
  \A c, d \in Callers :
    at[c] \in Fetching /\ at[d] \in Fetching /\ cacheable(ask[c]) /\ Key(c) = Key(d) => c = d

\* A caller is given what it asked for, for its own account, fetched since it asked
\* or still fresh; older, up to the retention, only after the fetch it made or
\* shared failed; and an order or anything else that is not to be kept is always
\* fetched for the caller itself (TestHandleKISProxy_DoesNotCacheTradingEndpoints).
\* Every caller stores, answers expire and are evicted in between, and the caller
\* that fetches may go away; nobody's second fetch runs meanwhile.
ProxyAnswerIsCurrent ==
  /\ OneFetchPerKey
  /\ \A c \in Callers : given[c].state = "ok" =>
       LET v == given[c].value
           ttl == cacheTTL(ask[c])
       IN  /\ v.ask = ask[c]
           /\ \/ v.fetched >= begun[c]
              \/ minute < v.fetched + ttl
              \/ ttl > 0 /\ got[c].state = "error" /\ minute <= v.fetched + ttl + Retention
=============================================================================
