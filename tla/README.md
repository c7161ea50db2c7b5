# krsec: TLA+ models, model checks and proofs

krsec is a gateway in Go that gives four Korean brokers (KIS, Kiwoom, LS, Toss)
one REST interface. This directory holds TLA+ modules of its parts that keep state
or put answers together, TLC configurations that check them on small instances,
and theorems that TLAPS proves for every value of the constants.

    tlc -config LSClient_calls.cfg MCLSClient       # any run of PROJECT.json
    tlapm LSClient_proofs.tla                       # any module named *_proofs

Paths below are relative to `src/`.

## 1. The system

### Components

| Component | Code | State it keeps | Modelled by |
|---|---|---|---|
| Token manager | `internal/filetoken`, one `token_manager.go` per broker | a map from app key to token, one auth limiter per key, one file per key in a directory all four managers share | `TokenIssue` (map, limiters), `FileToken` (map, files, start-up) |
| Token issuance | `authFlight` and `issueToken` in each `auth.go` | one singleflight group per broker package | `TokenIssue`, `SingleIssuer` |
| LS client | `internal/ls/client.go`, `auth.go` | selected credentials, token | `LSClient` |
| KIS client | `internal/kis/client.go`, `auth.go` | the same | `KISClient` |
| Kiwoom, Toss clients | `internal/kiwoom`, `internal/toss` | the same | `ClientCalls`, `KiwoomClient`, `TossClient` |
| Order contexts | `internal/orderctxstore` and the adapters' stores | a map from order number to context, one file per account | `OrderContextStore` |
| KIS orders | `internal/kis/adapter/adapter.go` | the map of contexts, the exchange behind it | `KISOrders` |
| Kiwoom orders | `internal/kiwoom/adapter/adapter.go`, `internal/kiwoom/order.go` | the same | `KiwoomOrders` |
| LS orders | `internal/ls/adapter` | the map of contexts, the login orders are managed with, the exchange behind them | `LSOrders` |
| Toss orders | `internal/toss/adapter` | none; decimal quantities, requests decided later | `TossOrders` |
| Answers of several pages | `kiwoom/adapter/pagination.go`, `kis/adapter/ohlcv.go`, LS balances and master | the pages read so far | `Paging` |
| KIS proxy | `internal/server/handler_kis_proxy.go`, `kis_proxy_cache.go`, `kis_proxy_rate_limiter.go` | answers with two lifetimes, shared fetches, limiters | `ProxyCache` |
| Accounts and handlers | `internal/server`, `pkg/server`, `pkg/config` | the brokers of the accounts, fixed at start-up | `Accounts` |
| Endpoint dispatch | `endpoint_dispatch.go` of each adapter, `request_validation.go` | none; the generated tables | `EndpointDispatch` |
| KIS master symbols | `internal/kis/master_symbols.go` | an index, rebuilt at start-up and daily | `MasterSymbols` |
| Rate limiters | `internal/ratelimit` | a limiter per account or key | as waits of the clients; the proxy's as permits |
| Start-up, shutdown | `internal/server/server.go`, `broker_init.go` | none | partly: `FileToken`, `Accounts`, `MasterSymbols` |
| Public types, generated specifications, mocks, generators | `pkg`, `cmd`, `internal/tools` | none over time | not modelled |

### How they interact

A handler resolves an account to an adapter and calls it on its own goroutine;
requests of one account run concurrently, and so do requests of accounts that
share an app key. An adapter calls its client, which makes sure it has a token:
it asks the token manager, falls back on the token it holds, and otherwise
authenticates. Authentication looks the manager up, joins or starts the issuance
of its app key in the package's singleflight group (Toss has none), and waits for
it or for its own context. The issuance itself runs on a detached context: it
looks the manager up again, waits for the auth limiter (one permit a minute), asks
the broker and stores the token, in memory and on disk. At start-up the server
creates the four managers one after the other, each of which loads the directory
and removes what it finds stale, and then logs every account in on a goroutine of
its own; each KIS account also starts a goroutine that rebuilds the one index of
symbols daily.

For orders, the adapter calls the broker and afterwards changes its map of
contexts under its lock and writes the map to a file. The KIS and Kiwoom adapters
write it after they have released the lock, the LS adapter before.

A proxied request goes through the table of documented endpoints; for KIS its
answer may be shared with concurrent callers and kept.

### What is hard here, and what must hold

* *Tokens and credentials.* A client's credentials may be switched while a token
  for the previous ones is looked up, issued or installed. The LS client must
  never hold a token of other credentials; the others do not tie the two and rely
  on every account keeping one app key.
* *One issuance at a time.* Any number of goroutines that find no token must make
  one call of the token endpoint per key, although the look at the cache and the
  entry into the group are two steps, and although callers give up meanwhile.
* *Invalidation and retry.* After an unauthorized answer the token is deleted and
  the request retried once; other requests read, install and delete tokens
  meanwhile, and an order must not be sent twice.
* *The disk.* A token that was replaced or deleted must not come back after a
  restart; four managers with different names, filters and buffers clean up one
  directory; a write may fail or be cut short by a crash. The contexts' file must
  always decode and agree with the map.
* *Orders.* Lookups, cancellations and modifications of an order interleave
  between their calls of the broker, answers are lost although the call took
  effect, contexts are evicted beyond 300 and lost in a restart, lists come short
  or not at all. An adapter must still not claim of an order what is not so, and
  never manage an order that is not its own or ask for more of it than remains.
* *Pages.* An answer that is cut anywhere, repeats itself or does not go on must
  be completed or refused, never given as if it were whole.
* *Sharing.* An answer kept for one account or moment must not reach another; an
  older index must not replace a newer one.
* *Names.* Account ids have aliases and products; a request must reach the account
  it names or nobody, and a sum over accounts must have all of them.

PROJECT.json lists each of these hazards at its line, with the properties that
catch it.

## 2. The modules

### TokenIssue, SingleIssuer

`TokenIssue` is not a specification of its own: it has the state and the actions
that every client of a broker shares. `Serves`, `SetToken` and `DeleteToken` are
the methods of `Manager` on its map; `DoChan` and `Settle` are the singleflight
group (`golang.org/x/sync`, modelled from its documented behaviour: a caller
joins the call in progress for the key or starts one; when the function has
returned the key is forgotten and the result delivered); `Enter`, `WaitForAuth`,
`Recheck`, `PostGranted`, `PostFailed` and `Store` are the steps of `issueToken`
between which other goroutines run. `RecheckAfterWait` is the one structural
difference between the brokers: LS looks the cache up again after the limiter.
`Loaded` are tokens an earlier process left on the disk: there and fresh at the
start.

A call of `issueToken` and the token it obtains have one identity, a member of
`Flights`, so that `fkey[t]` is the app key token `t` was issued for. Clocks are
abstracted to the age of a token: "fresh" (the manager serves it), "aging"
(inside the manager's buffer) and "expired". What the two buffers of a client and
its manager make of an age is in `Serves` and `LocallyValid`: the LS and Kiwoom
clients present their own token for longer than the manager serves it; for KIS
and Toss both have the same buffer.

`SingleIssuer` is the abstract specification of the token endpoint's view: per
app key one request under way, none while a token is served, and no token served
again once withdrawn. `TokenIssue!Issuer` is the refinement mapping.

### LSClient, KISClient

Requests are goroutines that either call an endpoint (`StartCall`) or log a
client in (`StartAuthenticate`). Every access to a client's fields under its
mutex, and every call of the token manager, is one step of a request, because the
code holds no lock from one to the next; `pc` names the place. The LS steps
follow `isTokenValid`, `ensureToken`, `authenticateSelectedCredentials` and
`callEndpointAttempt` with its second attempt; the KIS ones `doRequest`,
`doRequestOnce` and `Authenticate`, where the header's token and app key are read
under two locks (`Send`, `SendKey`). `GiveUp` is the end of the caller's context
at the places that look at it. `Selected` are clients whose credentials were set
by a login that failed, a state every login that cannot reach the broker leaves.

### ClientCalls, KiwoomClient, TossClient

`ClientCalls` has what the two clients do alike, step for step: `isTokenValid`
(`ReadKey`, `LookUp`, `Install`, `FallBack`) and the first half of `Authenticate`
(`Refresh`, `StartLogin`, `Select`, `AuthLookUp`, `Adopt`). `KiwoomClient` adds an
issuance that sets its token on the client that started it from inside the flight
(`HandOver`), before the manager has it; it waits for its limiter before it looks
at the token and never retries. `TossClient` adds issuing without a group, each
request queueing for the auth limiter by itself (`TossWaitForAuth` to
`TossStore`), and the second attempt after a 401 (`TossUnauthorized`, `TossClear`,
`TossDelete`), which `isOrderMutation` excludes; `executed` counts what the broker
did, whether or not its answer arrived. `MCBrokerClients` puts both next to each
other, every behaviour being about the clients of one broker.

### FileToken

Four managers over one directory, with the options of each `token_manager.go`:
file name prefix, file filter (KIS and LS read every `.json`) and buffer. A
token's remaining life is counted in the steps their buffers tell apart.
`SetToken` and `save` are two steps, since a crash may fall between the map and
the end of the write, which may also leave a torn file; `loadAll` is the start-up
of the next manager in the order of `broker_init.go`, with its removal of stale
files; `unwritten` are the keys whose last write failed or was cut short.

### OrderContextStore

The map and the file of one account, for all three adapters: the rigid variable
`adapter` says whose it is. The file system is modelled by inodes, because the
temporary file of every `Persist` of an account has the same name, so that
`WriteFile`, `Rename` and the writes of an open descriptor of two goroutines can
meet. A context is abstracted to its version.

### KISOrders

Requests of one account against an exchange. `exch` is what the exchange knows of
each order number (state, the order it replaced, domestic or overseas), `orders`
the adapter's map. One action per broker call and per critical section:
`Resolve`, `List` and `Keep` are `resolveOrderContext`; `CallPlace`/`StorePlaced`,
`CallCancel`/`StoreCancelled`/`StoreAlias` and
`CallModify`/`StoreModified`/`removeOrderContext` are the three order requests,
each with an answer that may be lost after the call took effect; `Daily`,
`CheckOpen` and `Record` are `GetOrder`. Between any two of them the exchange may
settle orders and other requests may run. `storeOrderContext` evicts when there
are more than `Limit` contexts; which one is the oldest is left open, so the
model allows more evictions than the code and every invariant holds for any
choice. A new process finds every context again (`OrderContextStore` is about
how far that is so); a context the crash lost is the case of a placement whose
answer was lost.

### KiwoomOrders

The same for Kiwoom, with quantities: a cancellation asks for as many shares as
the context says remain, so a context that understates them would leave the rest
at the exchange. Unlike KIS the adapter uses a context it has without asking
again, reads the first page of a list only (`Pages`: a member of
`world.lists`), keeps a context under the old number of a modified order
(`StoreAlias`), and answers `GetOrder` from the open orders and then the
executions (`Unsettled`, `Record`, `ReadAgain`, `Fills`), between which the
exchange goes on. `gone` remembers the numbers whose cancellation a client was
told of.

### LSOrders

Requests of one LS account, one at a time: `Start` takes `actionMu` and `Leave`
gives it up. `StartLogin` and `EndLogin` are `Authenticate`, which withdraws
`credentialID`, lets the client select the new app key and restores it only on
success. `StartPlace`, `CallPlace` and `Store` are `PlaceOrder`; `StartManage`,
`LookUp` and `Check` are `currentOrder` with the looks at the context before and
after it; `CallCancel` and `CallModify` are the broker calls, `Fails` every error
on the way. A context is its app key, its day and the time it was stored.
`storeOrderContext` is one step with the file, because the code persists under
`orderMu`; the write may fail, and so may the load of the next process. The
exchange keeps, per account and day, the shares of an order, how many are filled
and how many remain; other programs may place orders with the same numbers in
any account. Midnight is assumed to be quiet: the exchange accepts no order of a
request that started on an earlier day.

`told` remembers the contexts of the orders a client was told of, `lost` those of
them that a failed write and a crash took, and `moved` the requests whose order
the exchange has changed by itself since they named it; all three exist for the
properties only.

### TossOrders

The Toss adapter keeps nothing, so an operation is the broker's answer (`Ask`) and
what is made of it (`GetOrder`, `GetOrderFills`), with Toss going on in between.
`tossBook` has a record for every id Toss gave. A cancellation or modification is a
request with an id of its own (`CancelOrder`, `ModifyOrder`, `TossAccepts`): the
order waits in PENDING_CANCEL or PENDING_REPLACE, while its shares may still be
executed, until Toss grants the request (`TossGrants`: the order is cancelled, or
REPLACED by one under the request's id) or refuses it (`TossRefuses`: the order is
again what it was, or what it has become, and the request's id has a record in
CANCEL_REJECTED or REPLACE_REJECTED). That is Toss's side as the repository's copy of
its documentation tells it (`pkg/toss/specs/documented_endpoints.json:3274`, `3306`).
A placement or a request may also fail at once (`Fails`) or take effect and lose its answer;
a lookup fails for an id without a record, such as that of a request not yet decided.
`mapOrderStatus` makes the caller's four statuses of Toss's ten.

Quantities are decimal texts of any number of digits after the point (`Texts`),
subtracted exactly (`remainingQuantity`) and cut to whole numbers where an answer has
a field for those (`Stated`); a text may be missing or no decimal (`Blank`), or too
large for the field (`MaxInt`).

### Paging

Five loops of three adapters that ask for pages until an answer is complete. The
rows of a book are numbers, newest or first highest; a broker may cut its pages
anywhere (`BrokerPages`), fail at any of them, say that there is more or not
(`SaysMore`), or ignore where a page should go on. Each loop's own ends are its
action: `collectEndpointRowsUntil` with its checks for repeated keys and disorder,
`GetOHLCVPage`, `InquireBalance`, `ListOverseasStockMaster`. `Present` is what the
callers make of the rows they have: those in the range or with a quantity
(`Select`), grouped by week or month (`PeriodOf`, of which only the order is known),
and cut at the limit.

### ProxyCache

One action per critical section of a caller of the KIS proxy: `getFresh`, `do`
(start or share the fetch of a key), the two limiters, `callEndpoint`, which
delivers its result to all sharers, `settle` (every one of them stores) and
`Respond` with the stale answer of a failed fetch. `Leave` is a caller whose
client goes away: the fetch runs on the first caller's context, and all sharers
fail with it. A tick is a minute; a goroutine that need not wait takes none, so a
minute only passes while every caller waits.

### Accounts, EndpointDispatch

From a configuration (`Validate`, `init`) to the brokers of a server, or the
brokers an embedding program passes (`NewWithBrokers`), and from a request to the
calls it makes: one `Ask...` action per handler puts the calls into `todo`,
`CallBroker` makes the next one with any result the broker may give, `Answered`
is the client's status. Account ids are a base and a product; `sameAccountID`,
`findBrokerAccountCandidates` and `resolveBrokerByAccountID` are the code's alias
rules. `EndpointDispatch` has one operator per dispatcher, from what was asked to
the set of things that may be sent (method, id, fields), over a table of
endpoints with one member of each kind the dispatchers tell apart.

### MasterSymbols

Goroutines that `Begin`, `Read` file after file into an index of their own and
`Install` it, while the published files change (`Publish`) and any of them may
not be there. The index is the code's four maps; `add` is the rule which record
of a symbol they keep, `LookupMasterSymbol` the way a market's name finds one.
`bootstrapping` lets one goroutine rebuild at a time; the others `Spare` themselves
the work.

## 3. The runs

| Run | Instance | What it shows |
|---|---|---|
| `ls_calls` | 2 clients, 2 app keys (one shared, the first client switched between both), 2 requests, up to 5 issuances, a token left on the disk, fair | types; `TokenOfSelectedKey`, `LoginFailsOnlyWithBroker`, `AsksOnceAtATime` (refinement of `SingleIssuer`), `EveryRequestReturns` |
| `ls_burst` | 1 client, 3 requests | a violation, see below |
| `kis_calls` | 2 clients, a key each, 2 requests, up to 5 issuances, fair | types; `SentPairMatches`, `AsksOnceAtATime`, `EveryRequestReturns` |
| `kis_retry` | 1 client, 2 requests | a violation |
| `broker_clients` | 2 Kiwoom or 2 Toss clients, a key each, 2 requests, 4 issuances, fair | types; `SentTokenIsOwn`, `TossOrderOnce`, `KiwoomAsksOnceAtATime`, `CallsReturn` |
| `files` | tokens: 4 managers, 2 keys (LS and Kiwoom), 3 tokens; contexts: 2 workers, 3 orders, limit 2, 3 inodes, 4 stores, LS, and KIS with one request at a time | types; `OnlyCurrentServed`, `ServedAfterRestart`, `FileIsWhole`, `SavedWhenQuiet`, `NoOlderContextOnDisk` |
| `orders_overlap` | the contexts of KIS and Kiwoom with overlapping requests | a violation |
| `kis_orders` | 2 requests, 3 order numbers, limit 2 | types; `CancelledIsCancelled`, `FilledIsFilled`, `CancelledStays`, `OpenOrderIsFound` |
| `kis_status` | 1 request | a violation |
| `adapters` | Kiwoom: 2 requests, 3 order numbers, limit 2, orders of 2 shares; Toss: 3 ids, whole and fractional quantities, some too large; pages: books of up to 6 rows, 2 to a page, 4 pages | types; `CancelledIsGone`, `FilledHasEnded`, `OpenOrderIsFound`, `TossAnswerIsTrue` (`QuantitiesAddUp` and `EndedIsOver`), `AnswerIsWhole` |
| `ls_orders` | 2 requests, 3 order numbers, 2 app keys, limit 2 | types; `CallsOwnOrders`, `AskedIsThere`, `ToldIsKept`, `FinalStatusIsTrue` |
| `server` | proxy: 2 callers, 2 accounts, 2 paths, capacity 1, 5 minutes; accounts: every configuration of up to two accounts out of nine, one of three, 16 embedded servers; master: 2 goroutines, 4 files, 2 days | types; `ProxyAnswerIsCurrent`, `RequestReachesItsAccount`, `MasterNeverOlder` |

`files`, `adapters`, `broker_clients` and `server` each put modules side by side
that share no state: a rigid variable says which of them a behaviour is about and
the others stand still.

### The bounds, and why they are enough

* *Requests.* The hazards of the clients are races of two goroutines. The clients'
  state has no counters, and what a third request does to the other two, it does
  through the cache, the group and the client's fields, all of which one request
  can already bring to any value. The theorems cover any number.
* *Issuances.* A call of a client starts at most two issuances, its own and that
  of its retry, so two requests start at most four. In `ls_calls` a fifth is the
  token left on the disk, in `kis_calls` it shows that the bound is not what stops
  the requests: were it reached, one would wait at "join" for ever and
  `EveryRequestReturns` would fail. So would `CallsReturn` of `broker_clients`,
  where a Kiwoom call starts one issuance and a Toss call two.
* *Ages and revocation.* Only the members of `Mortal` grow old and only those of
  `Revocable` are revoked, one token in most runs: one token that dies is the case
  that starts a second issuance, and the tokens are interchangeable.
* *Files.* One key of a manager that reads every file and one of a manager with a
  prefix are the two kinds there are; three tokens let a key be granted, replaced
  and granted again.
* *Contexts.* Three orders with a limit of two evict; two writers with three
  inodes (file, temporary file, and one an open descriptor keeps alive); four
  stores let each order change after an eviction. Inodes that no name and no
  descriptor refer to are reused.
* *Orders.* Three numbers are an order, its replacement, and a replacement of
  that or an unrelated order; `Limit` of two makes evictions happen; two shares
  let an order be executed, cancelled or modified in part. `Worlds` keeps hazards
  apart to bound the states: requests overlap while lists are whole (two orders
  accepted), or they come one at a time while lists are cut or may be out of
  reach.
* *LS orders.* Two app keys and two requests are the least that can confuse
  accounts or ask twice. `OneHazardEach` gives three circumstances: two days with
  other programs' orders (two orders a day, so that one of yesterday's or another
  account's numbers meets one of today's), a disk that fails with three stores and
  a limit of two (an eviction, then a load), and orders of two shares, so that
  cancellations and modifications meet partial fills and each other.
* *Toss quantities.* In base 2 with numerals 1 and 3 and one digit after the point
  there are whole and fractional texts, differences that borrow, and, with
  `MaxInt` 2, whole numbers that do not fit.
* *Toss requests.* Three ids are an order, its replacement and a request about that,
  two requests about one order, or a request next to an unrelated order. Where all
  three are in use every order is of one share (`TossBound`), of which a half may be
  executed before, between and after the decisions; with two, an order and one request
  about it, quantities are any of the texts, or not known. Answers that are not
  GetOrder's are not told apart (the VIEW `AnswersOfGetOrder`): no property but the
  types is about them, and no action reads them.
* *Pages.* Books up to one row more than a loop collects, of two rows to a page:
  every loop ends for each of its reasons, and the limit of pages is reached by a
  broker that gives less than a page or ignores where to go on. Charts have gaps,
  ranges that begin inside a period, and limits that end on its border.
* *Proxy.* With a capacity of one, two accounts evict each other's answers; soft
  life one minute and retention one minute let an answer be fresh, kept and gone
  within the five minutes; a burst of one makes callers wait.
* *Accounts.* Two accounts are what an alias can confuse, three what it takes to
  have two products of one base next to another broker. The ids have a KIS base
  with no, its own and a foreign product, ten digits with and without a suffix,
  and a name. Each kind of endpoint of the four tables has a member.
* *Master.* Two goroutines overlap, two days make one of their files older, four
  markets let a symbol be listed in two of a country and in another country.

Deadlock is checked in the runs of `files`, `orders_overlap`, `kis_orders`,
`kis_status` and `ls_orders`, where something can always happen. The other runs
switch it off: a request of the clients, an answer of `Paging` and a request of
`Accounts` is made once and ends, and minutes and publications come to an end.

### Fairness

The clients' runs assume that every goroutine that can run does, that every
issuance proceeds, and that the auth limiter's permit comes back (`FairSpec` of
`LSClient` and `KISClient`, `Fairness` of `MCBrokerClients`). The Go scheduler
justifies the first; the HTTP clients have timeouts (30 seconds), so that every
wait for the broker ends in an answer or an error; the third is the passing of a
minute. Nothing is assumed of the environment: tokens need not grow old, nobody
need give up, and no request need start. Each is weak fairness: no step that stays
enabled depends on winning a race. The one queue that could starve somebody, two
Toss requests after one permit, is drained because a call asks at most twice.

### Where the code disagrees with what it says

Four runs check a sentence of the repository and find it violated.

* `ls_burst`, `BurstSharesOneTokenCall`. "A burst of requests hitting an expired or revoked token results in
  a single token call" (`internal/ls/auth.go:27`). Two requests refused with the
  same token invalidate one after the other; the second deletes the token the
  first one has just had issued, because `invalidateAndRefresh` deletes whatever
  the manager holds. A second call is made, a minute later.
* `kis_retry`, `RetryUsesFreshToken`. "On 401, invalidate token and retry once with a fresh token"
  (`internal/kis/client.go:158`). The refresh may join an issuance that stored the
  refused token and has not yet returned, or another request may set the refused
  token on the client again.
* `orders_overlap`, `FileIsWhole`. "Persist atomically writes order contexts to disk"
  (`internal/orderctxstore/store.go:44`). True under a lock, as LS uses it. KIS
  and Kiwoom call it outside theirs, and two calls share one temporary file: one
  truncates what the other is about to rename, and the store may be left empty or
  torn. A restart then starts without any context.
* `kis_status`, `FilledAnswerIsTrue`. "GetOrder returns current order status"
  (`internal/kis/adapter/adapter.go:925`). When the executions cannot be read, an
  order missing from the open list is answered, and remembered, as filled, also
  when it was cancelled elsewhere or rejected.

## 4. The proofs

Everything below holds for any number of clients, app keys, requests, issuances,
orders, callers and so on. The proofs are in the modules named `*_proofs`.

| Module | Theorems |
|---|---|
| `LSClient_proofs` | `Spec => []TypeOK`, `[]TokenOfSelectedKey`, `[]LoginFailsOnlyWithBroker`, `AsksOnceAtATime` |
| `KISClient_proofs` | `Spec => []TypeOK`, `AsksOnceAtATime`; `OneKeyEach => (Spec => []SentPairMatches)` |
| `BrokerClients_proofs` | `Spec => []TypeOK`, `[]TossOrderOnce`, `KiwoomAsksOnceAtATime`; `KeepsOneKey => (Spec => []SentTokenIsOwn)` |
| `KISOrders_proofs` | `Spec => []TypeOK`, `[]CancelledIsCancelled`, `[]FilledIsFilled`, `[]OpenOrderIsFound`; `[]CancelledStays` unless requests overlap and lists fail |
| `LSOrders_proofs` | `Spec => []TypeOK`, `[]CallsOwnOrders`, `[]AskedIsThere`, `[]FinalStatusIsTrue`, `[]ToldIsKept` |
| `Adapters_proofs` | Kiwoom: `OrdersSpec => []OrdersTypeOK`, `[]CancelledIsGone`, `[]FilledHasEnded`, `[]OpenOrderIsFound`; Toss: `TossOrdersSpec => []TossOrdersTypeOK`, `[]TossAnswerIsTrue`; pages: `PagingSpec => []PagingTypeOK`, `[]AnswerIsWhole`; and the types of the composition, `Spec => []TypeOK` of `MCAdapters` |
| `Server_proofs` | tokens: `TokenFilesSpec => []TokenFilesTypeOK`, `[]OnlyCurrentServed`, `[]ServedAfterRestart`; contexts: `StoreSpec => []StoreTypeOK` and, with `OneAtATime`, `[]FileIsWhole`, `[]SavedWhenQuiet`, `NoOlderContextOnDisk`; proxy: `ProxySpec => []ProxyTypeOK`, `[]ProxyAnswerIsCurrent`; master: `MasterSpec => []MasterTypeOK`, `MasterNeverOlder`; accounts: `AccountsSpec => []AccountsTypeOK`, `[]RequestReachesItsAccount`; and the types of the two compositions, `FilesSpec => []FilesTypeOK` and `Spec => []TypeOK` of `MCServer` |

**Issuance** (`TokenIssue_proofs`). What every step of it keeps is `IssueInv`: a
token is cached, returned and awaited only under the key it was issued for, and
the key of a call never changes. That it implements `SingleIssuer` needs
`SoleInv`: a call that has not returned is the one its group knows; from its last
look at the cache until it stores, the cache serves nothing for its key, because
only it could store something; a token that was obtained has been returned, and a
cached one was obtained. Each action is then a step of the abstract issuer or
invisible: going to the token endpoint is `Ask`, storing is `Grant`, a failure
`Fail`, growing old or being deleted `Withdraw`. KIS and Kiwoom do not look again
after the limiter, and the proof shows that they need not.

**LS client.** `TokenOfSelectedKey` is not inductive: `Install` and `AdoptIssued`
put into the client what a request has in hand. The invariant adds `IssueInv`, and
that what each request has in hand at each place was obtained for the key it read
(`RequestsKeyed`). `Install` then preserves the property because it compares that
key with the selected one in the critical section that installs. Switching the
credentials preserves it because `SetCredentials` drops the token.
`LoginFailsOnlyWithBroker` needs `LoginsInv`: a login works with one of its own
client's keys from beginning to end, and has failed only if an issuance for that
very key was refused (`RefusedFor`), whoever started it and whoever gave up on it.

**KIS, Kiwoom and Toss clients.** Their code compares nothing, so the invariants
say less: what a client, a request and a header hold belongs to one of the keys
the account is ever authenticated with (`ClientsOwn`, `RequestsOwn`, `HeadersOwn`,
and for the Kiwoom hand-over `StartersOwn`). The theorems about headers therefore
have a hypothesis, that every account keeps one key, and it is needed: with two,
TLC finds counterexamples. `TossOrderOnce` follows from counting (`SentOnce`): at
each place of a call the number of attempts is known from whether it was retried,
and a retry comes only after an attempt that was not executed.

**Token files.** A file that decodes and the entry of a map are the key's last
token, or the disk failed since (`DiskTrue`, `MapTrue`); a token nobody finds
stale is being written or in its file, and in its manager's map from when that
exists (`GoodKept`), because a clean-up removes stale files only and a file's name
says whose it is.

**KIS orders.** The invariant says of every context, in the map or in the hands of
a request, and of every status found or about to be answered, that it is true of
the exchange (`ContextTrue`, `RequestTrue`), and which data a request has at which
place (`InHand`). The truth about an ended order is stable: each step of the
exchange leaves ended orders as they ended (`Kept`, `TrueOfKept`), so that other
requests stay truthful whatever happens meanwhile (`RestsKeeps`), and only the
request that takes the step has to be looked at (`StepKeeps`). `StoreKeeps` shows
that an eviction, whichever contexts go, keeps the map within `Limit` and true.
`FilledIsFilled` needs its condition in the invariant, since `CheckOpen`, reached
only when a list could not be read, guesses.

`CancelledStays` needs more (`CInv`), since it remembers what was answered. Once
a client was told that an order is cancelled, its context says so if the lists do not, because it is overseas or because lists fail (`Watched`); a context under another
number than its order's is of a cancelled order only (`ContextRight`); a number the
exchange has just given is known to nobody else (`NewRight`); and a lookup that
began when the cancellation was known has found it by the time it answers
(`LookupRight`). The theorem has a condition, no overlap or no failing lists, and
it is needed: a `GetOrder` that began before the cancellation and could not read
the lists may store "filled" over "cancelled" afterwards.

**LS orders.** Whoever is past `Start` holds the lock, so there is one such
request; the login that contexts are compared with is the client's (`LockInv`);
every context of today is of an order this adapter placed with its key
(`ContextsInv`); and what the holder has seen of its order is still so, unless the
exchange moved it (`InHandTrue`). The exchange only ever changes an order in ways
that keep this (`Evolves`), and midnight empties it.

`ToldIsKept` and the bound on the contexts, of the map and of the file, rest on `KeptInv`. Each context carries
the time it was stored at, no two the same (`Dated`), and compaction keeps those
that fewer than `Limit` others are newer than. The context that a client was told
of, or a newer one of its order, is therefore in the map, or `Limit` newer ones are
(`Holds`), which storing and compacting keep; so it is of the file unless a write
failed, and of the map unless it could not be read (`orderLoadErr`).

**Kiwoom orders.** The map is written outside any lock and may be behind the
exchange, so the invariant says less than that of KIS: a context never understates
what is left of its order, and says cancelled or filled only of an order that has
ended (`ContextTrue`). This is stable because an order only loses shares, and one
that ended stays as it is (`OrderKept`). An order missing from a list that is read
whole has ended, by then and for good; this gives the answers (`AnswerTrue`).

**Toss orders.** What was seen of an order is followed by what Toss has of it now:
its quantity is the same, and a record of what has ended or was refused stays as it
was (`TossFollows`). `EndedIsOver` also speaks of the order behind an id, so the
invariant relates records (`Linked`): an undecided request is about an order that is
or was ongoing, and what was a request and is an order now replaced one that has become
REPLACED. The rest is arithmetic of decimal texts, for any base and any
length. Powers of the base are a recursive function; that they are positive and
multiply is proved from the least number that would be an exception, found with
the library's theorem on well-founded subsets, because the principle of induction
itself takes an operator.

**Pages.** While a loop asks, the rows it has are all rows of the book from its key
up, newest first (`PagesGoOn`), whatever the broker cut. A page leads what is older
than the key: what it lacks is older than all it has (`NewestIs`), so that the two
together are again all rows from a key up (`GoesOn`). An answer is then whole
for one of three reasons: nothing is left; what is left is before the range
(`AlikeInRange`); or the newest rows already fill the limit (`NewestTell`), where a
grouped chart needs a period more, since the oldest one it has may go on
(`EnoughTells`, `FirstPeriods`). A broker that ignores the key needs what each loop
keeps against it: a known key, a disorder or a page without news ends the charts in
an error before a row is taken twice (`AgainTheSame`), and a list of positions is
an answer only at its first page. It also bounds the loops: every further page has
a key of its own or an older one (`PageBound`). An order is a function from
positions to the elements with so many below them (`Ascending`); that it is the
only one, and what selecting, joining and cutting make of it, is proved from counts
of finite sets.

**Order contexts.** `OneAtATime`, the persisting under the adapter's lock or
requests that do not overlap, is a hypothesis of what is proved of the file, and
the run `orders_overlap` shows that it is needed. Given it there is one writer,
whose snapshot is the map, and which writes a temporary file of its own (`OneWriter`,
`WriterTrue`); the file is whole, and it is the map when nobody writes and the last
write succeeded (`FileTrue`); and no context in it is newer than that of the map
(`VersionsTrue`).

**Proxy.** An entry answers its own key and is fresh and kept from the minute it
was fetched in (`EntryTrue`), which is because a result is stored in that very
minute, as no minute passes while a sharer has something to do; and whoever
fetches what is kept is the one the key's callers wait for (`FetchedByOne`).

**Master symbols.** An index is consistent if its four maps agree: each of the three
by symbol alone answers with a record of the map by market and symbol that is of
its markets, and has one if there is one (`Consistent`, `SameAs`). Adding a source
keeps it (`AddAllConsistent`), whatever the source lists and in whatever order, so
both the index that is served and each that is being built are consistent. That it
is never older follows from there being one build at a time, all the others being
turned away by the flag (`BuildsAlone`): what it reads is of no earlier day than
what is served (`DaysOK`).

**Accounts and endpoints.** `RequestReachesItsAccount` is about the calls made;
the invariant (`AInv`) says it of those still to be made too. An account and its
broker are of one kind, which the start-up establishes (`ConfigOK`); then every
way to find a broker, by id, by alias, by kind or as the first that works, finds
one that the request names or may use (`ResolveIs`, `AuthIs`, `ProxyIs`), and what
the four dispatchers send is in their tables with all that is required (`KISSent`,
`KiwoomSent`, `LSSent`, `TossSent`). For a summary the calls are the accounts in
their order, which needs that an increasing sequence of positions that are all of
them is the identity (`IncreasingIs`, again from a least exception); for an
instrument, that the calls are the brokers in some order without one left out.

The theorems assume only what the modules' ASSUMEs say: that a null value is
none of the keys, tokens, clients or numbers, that limits are positive, that a
later day is of no earlier week or month, and the types of the other constants.
Three of `Accounts` and `EndpointDispatch` say more. `EmbeddedAssumption`: a
program that passes brokers itself gives its accounts distinct ids, and brokers
only for accounts it configures. `RequestsAssumption`: the routes of a summary
and a login name no account, and only the Kiwoom and LS interfaces have pages.
`TablesAssumption`: streams and logins are only where the generated tables have
them, and each type of Kiwoom request insists on or fills in what its endpoint
requires, but for the three fields of `Unchecked`; it is true of the full
generated tables, and a change of them that breaks it would break the theorem.
TLC evaluates all of them in every run.

Only model-checked is liveness under fairness (`EveryRequestReturns`,
`CallsReturn`), which the installed provers do not reach.

## 5. What is not modelled

Left out for good: the conversions of brokers' fields (balances, quotes,
instruments), request building and error texts, continuation headers of the
clients, generated specifications, mocks and generators; they have no behaviour
over time. Prices are left out everywhere, quantities in `KISOrders`. The
background logins at start-up are ordinary logins of the clients' modules; the
draining of requests at shutdown is not modelled, what it interrupts is
(`OrderContextStore`'s crash). `GetOHLCV` of Toss and LS ask for a single page.

What would come next: the drain at shutdown composed with `OrderContextStore`; a
composition of an order adapter with its client, in which an order may also fail
for want of a token.

### Observations

Met while modelling; no property is about them, or a property names them as its
condition.

Orders:

* KIS: an overseas order whose context is lost cannot be found again, as the list
  of open orders is domestic.
* Kiwoom: `GetOrder` and the lookup of a context read the first page of a list
  only, and `GetOrder` goes on when the first list failed; an order with partial
  executions may then be answered as filled while it is open. A `Record` that was
  read before a cancellation may overwrite the cancelled context, and the order
  stays "pending" for good; so does one that was cancelled elsewhere, and the old
  number of a modified one.
* Toss: status REPLACED (`pkg/toss/specs/documented_endpoints.json:3306`) is
  answered as pending, and `ModifyOrder` answers the requested quantity as
  remaining whatever was executed. A refused modification is answered as "rejected"
  under the id that `ModifyOrder` gave, while the original order goes on under the old
  id; a client cannot tell that from a rejected order, and `EndedIsOver` says no more
  of that id than that nothing was executed under it. `CancelOrder` discards the id of
  its request, so that a refused cancellation is seen only by asking for the order.
* `broker_init.go` does not pass the configured directory for order contexts on to
  the LS adapter.

Tokens:

* The KIS, Kiwoom and Toss clients do not tie a token to the credentials it was
  asked for; the repository promises that for LS only (`doc/common-contract.md`).

Pages:

* LS's list of overseas stocks has no bound on its pages and takes a page that is
  short or does not advance for the end; a broker that says "no more" too early
  cannot be told from one that is done.
* A KIS chart is cut at the time of day of the range's ends, a Kiwoom chart at
  their days. Toss asks for one page of at most 200 bars before a midnight in UTC.

Server:

* The proxy's lifetimes count from storing, not from fetching: a sharer that is
  delayed in between could replace a newer answer by its older one. The module
  assumes that a goroutine with nothing to wait for takes no minute.
* The body of an order is compared with `sameAccountID`, for which two products of
  one base are the same (`account_resolution.go:60-75`,
  `handler_orders.go:114-120`), and a product that is not configured is resolved
  to the base's only broker, which then asks for that product
  (`internal/kis/adapter/adapter.go:1112-1128`). An LS or Toss id in the shape of a
  KIS one resolves by its base as well.
* With an LS or Toss account, whose balances always lack the cash, the summary of
  all accounts is a 503.
* Kiwoom and Toss answer for an instrument whatever market is named, and the
  candidates are asked in the random order of a map.
* Where an embedding program passes no broker for an account, an alias may bring
  the account to another's, and the summary counts that one twice.
* Kiwoom's own types (`endpoint_dispatch.go:92`) send kt00010 without `stk_cd` and
  ka20001, ka20002 without `inds_cd`, which the table requires (`Unchecked`); KIS
  and LS accept a required field that is blank, Kiwoom does not; a client's own
  `tr_id` is passed on as it is, in the sandbox too.
* A symbol that the named market lacks is looked up in any market, and names that
  `toKISProductTypeCode` knows and `canonicalLookupMarket` does not (SZSE, HKEX,
  JPX, ...) may find another country's. A rebuild that could fetch fewer files
  replaces a fuller index.
