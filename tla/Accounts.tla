------------------------------ MODULE Accounts ------------------------------
(***************************************************************************)
(* The server's requests (internal/server): the configuration becomes a    *)
(* broker for each account, a request names an account, a broker or        *)
(* neither, and is answered by the brokers it is brought to.               *)
(*                                                                         *)
(* An account id is [base, suffix]: eight digits with "" or two more are   *)
(* the ids of KIS, of which a base has several products.  Spaces and case, *)
(* which every reading trims, are left out.                                *)
(***************************************************************************)
EXTENDS Naturals, Sequences, EndpointDispatch

CONSTANTS
  EightDigits,  \* bases of eight digits
  TenDigits,    \* bases of ten
  Products,     \* suffixes of two digits, "01" among them
  Configs,      \* what may be configured: sequences of [code, id, sandbox, seq]
  Embedded,     \* what a program that embeds the server may pass it: [accounts, served,
                \* plain], the ids that have a broker and those whose broker has only
                \* the methods of broker.Broker
  Requests,     \* what may be asked: see Request
  Errors        \* the errors of a broker that are told apart

Codes == {"kis", "kiwoom", "ls", "toss"}
Id(base, suffix) == [base |-> base, suffix |-> suffix]
NoId == Id("", "")
Ids == [base : STRING, suffix : STRING]
Configured == [code : Codes, id : Ids, sandbox : BOOLEAN, seq : STRING]

\* A position in a list that comes in pages.
Continuation(yn, key) == [yn |-> yn, key |-> key]
NoCont == Continuation("", "")

\* A request: what is asked, the account it names and the one its body names, the
\* broker it names, whether for its sandbox, the endpoint of that broker it is for, and
\* where it goes on, in its headers and in its body.
Request(op, id, body, code, sandbox, wanted, head, inBody) ==
  [op |-> op, id |-> id, body |-> body, code |-> code, sandbox |-> sandbox,
   wanted |-> wanted, head |-> head, inBody |-> inBody]

ASSUME AccountsAssumption ==
  /\ "01" \in Products /\ Products \subseteq STRING
  /\ "" \notin EightDigits \cup TenDigits
  /\ EightDigits \cap TenDigits = {}
  /\ \A c \in Configs : c \in Seq(Configured)

\* The broker that an embedding program passes for an account is one of its kind.
ASSUME EmbeddedAssumption ==
  \A e \in Embedded :
    /\ e.accounts \in Seq(Configured)
    /\ e.served \subseteq {e.accounts[i].id : i \in DOMAIN e.accounts}
    /\ \A i, j \in DOMAIN e.accounts : e.accounts[i].id = e.accounts[j].id => i = j

\* The routes of a summary and of a login name no account, and only the interfaces of
\* Kiwoom and of LS go on from page to page.
ASSUME RequestsAssumption ==
  \A r \in Requests :
    /\ r.op \in {"balance", "positions", "change", "order", "place", "quote", "instrument",
                 "summary", "auth", "proxy"}
    /\ r.id \in Ids
    /\ r.op \in {"summary", "auth"} => r.id = NoId
    /\ r.op # "proxy" \/ r.code \notin {"kiwoom", "ls"} => r.head = NoCont /\ r.inBody = NoCont

VARIABLES
  accounts,  \* Server.accounts
  brokers,   \* Server.brokers: what each account id is served by
  request,   \* the request that is served
  todo,      \* calls of brokers that are still to be made for it
  calls,     \* those that were made
  answer     \* its status, 0 while there is none

accountVars == <<accounts, brokers, request, todo, calls, answer>>

NoEndpoint == Asking("", "", "", {}, {})
NoRequest == Request("none", NoId, NoId, "", FALSE, NoEndpoint, NoCont, NoCont)
Idle == request = NoRequest

-----------------------------------------------------------------------------
(* Account ids.                                                            *)

kisAccountBase(id) == id.base \in EightDigits /\ id.suffix \in Products \cup {""}

normalizeAccountIDAlias(id) == IF id.suffix = "01" THEN Id(id.base, "") ELSE id

sameAccountID(a, b) ==
  /\ NoId \notin {a, b}
  /\ \/ a = b
     \/ kisAccountBase(a) /\ kisAccountBase(b) /\ a.base = b.base
     \/ normalizeAccountIDAlias(a) = normalizeAccountIDAlias(b)

findBrokerAccountCandidates(id) == {own \in DOMAIN brokers : sameAccountID(own, id)}

To(own) == [status |-> 0, own |-> own]
Refuse(status) == [status |-> status, own |-> NoId]

\* Fault: an id that may mean several accounts is brought to one of them.
resolveFirst(id) ==
  LET candidates == findBrokerAccountCandidates(id)
  IN  IF id = NoId THEN Refuse(400)
      ELSE IF id \in DOMAIN brokers THEN To(id)
      ELSE IF candidates = {} THEN Refuse(404)
      ELSE To(CHOOSE own \in candidates : TRUE)

resolveBrokerByAccountID(id) ==
  IF id \notin DOMAIN brokers /\ Cardinality(findBrokerAccountCandidates(id)) > 1
    THEN Refuse(400)
    ELSE resolveFirst(id)

Resolved(id) == resolveBrokerByAccountID(id).status = 0

\* The first of some accounts of the configuration that has a broker.
FirstAccount(wanted) ==
  LET found == {i \in wanted : Resolved(accounts[i].id)}
  IN  IF found = {} THEN Refuse(503)
      ELSE resolveBrokerByAccountID(accounts[CHOOSE i \in found : \A j \in found : i <= j].id)

AccountsOf(code) == {i \in DOMAIN accounts : accounts[i].code = code}

\* Without an account the first one serves, or else the first by its id.
getFirstBroker ==
  IF accounts # <<>> /\ Resolved(accounts[1].id) THEN resolveBrokerByAccountID(accounts[1].id)
  ELSE IF DOMAIN brokers = {} THEN Refuse(503)
  ELSE To(CHOOSE own \in DOMAIN brokers : TRUE)

resolveAuthBroker(code, sandbox) ==
  LET all == AccountsOf(code)
      wanted == {i \in all : accounts[i].sandbox = sandbox}
      named == {own \in DOMAIN brokers : brokers[own].code = code}
  IN  CASE code = ""                           -> getFirstBroker
        [] code \notin Codes \cup {""}         -> Refuse(400)
        [] code \in Codes /\ FirstAccount(all).status = 0 ->
             IF FirstAccount(wanted).status = 0 THEN FirstAccount(wanted) ELSE FirstAccount(all)
        [] OTHER -> IF named = {} THEN Refuse(503) ELSE To(CHOOSE own \in named : TRUE)

\* resolveKISProxyBroker and those of the other brokers.
resolveProxyBroker(code, id) ==
  LET at == resolveBrokerByAccountID(id)
  IN  IF id = NoId THEN FirstAccount(AccountsOf(code))
      ELSE IF at.status = 0 /\ brokers[at.own].code # code THEN Refuse(400)
      ELSE at

\* resolveTossProxyAccountConfig: the first Toss account it may mean has its number.
resolveTossProxyAccountConfig(id) ==
  LET meant == {i \in AccountsOf("toss") : id # NoId => sameAccountID(accounts[i].id, id)}
  IN  meant # {} /\ accounts[CHOOSE i \in meant : \A j \in meant : i <= j].seq # ""

-----------------------------------------------------------------------------
(* Continuations.                                                          *)

Continues(c) == c.yn \in {"", "N", "Y"} /\ (c.yn = "Y" <=> c.key # "")

NoBody == Continuation("none", "none")
Refused == Continuation("refused", "")

kiwoomRequestContinuation(head, body) ==
  LET c == IF body = NoBody THEN head ELSE body
  IN  IF head \notin {NoCont, c} \/ ~Continues(c) THEN Refused ELSE c

lsRequestContinuation(head, body) ==
  LET Conflict(f) == head[f] # "" /\ body[f] # "" /\ head[f] # body[f]
      Either(f) == IF body[f] = "" THEN head[f] ELSE body[f]
      c == Continuation(Either("yn"), Either("key"))
  IN  IF Conflict("yn") \/ Conflict("key") \/ ~Continues(c) THEN Refused ELSE c

-----------------------------------------------------------------------------
(* Configuration.                                                          *)

IsValid(a) ==
  CASE a.code = "kis"    -> kisAccountBase(a.id)
    [] a.code = "kiwoom" -> a.id.base \in TenDigits /\ a.id.suffix = ""
    [] a.code = "ls"     -> a.id # NoId
    [] a.code = "toss"   -> a.id # NoId /\ ~a.sandbox /\ a.seq # ""

\* An account of KIS without a product is that of product 01.
normalized(a) ==
  IF a.code = "kis" /\ a.id.suffix = "" THEN [a EXCEPT !.id.suffix = "01"] ELSE a

\* Config.Validate: the accounts, or none when the configuration is refused.
Validate(c) ==
  LET n == [i \in DOMAIN c |-> normalized(c[i])]
  IN  IF (\A i \in DOMAIN c : IsValid(c[i])) /\ (\A i, j \in DOMAIN c : n[i].id = n[j].id => i = j)
        THEN n ELSE <<>>

\* Server.init makes an adapter for every account.
Broker(a, plain, embedded) ==
  [code |-> a.code, sandbox |-> a.sandbox, plain |-> plain, embedded |-> embedded]

init(as) ==
  [id \in {as[i].id : i \in DOMAIN as} |->
     Broker(as[CHOOSE i \in DOMAIN as : as[i].id = id], FALSE, FALSE)]

NewWithBrokers(e) ==
  [id \in e.served |->
     LET i == CHOOSE i \in DOMAIN e.accounts : e.accounts[i].id = id
     IN  Broker(e.accounts[i], id \in e.plain, TRUE)]

AccountsInit ==
  /\ \/ \E c \in Configs :
          Validate(c) # <<>> /\ accounts = Validate(c) /\ brokers = init(Validate(c))
     \/ \E e \in Embedded : accounts = e.accounts /\ brokers = NewWithBrokers(e)
  /\ request = NoRequest
  /\ todo = <<>>
  /\ calls = <<>>
  /\ answer = 0

-----------------------------------------------------------------------------
(* Requests.                                                               *)

\* The account a broker touches when it is asked about one: that of its credentials,
\* but KIS (Adapter.parseAccountID) takes the product, and the base, that is named.
parseAccountID(own, id) ==
  LET product == IF own.suffix = "" THEN "01" ELSE own.suffix
  IN  IF id \in {NoId, Id(own.base, ""), Id(own.base, product)}
        THEN Id(own.base, product)
        ELSE Id(id.base, IF id.suffix = "" THEN "01" ELSE id.suffix)

Touched(own, id) == IF brokers[own].code = "kis" THEN parseAccountID(own, id) ELSE own

\* A call: of which broker, for which account, where the list goes on, and the endpoint
\* that was asked for, if one was.
Call(own, account, page, sent) == [own |-> own, account |-> account, page |-> page, sent |-> sent]
NoSent == Sent("", "", "", {})
One(at, id) == IF at.status = 0 THEN <<Call(at.own, Touched(at.own, id), NoCont, NoSent)>> ELSE <<>>

\* A request is taken when none is served: what it does depends on no other.
Serve(r, at, made) ==
  /\ request' = r
  /\ todo' = made
  /\ answer' = IF made = <<>> THEN at.status ELSE 0
  /\ UNCHANGED <<accounts, brokers, calls>>

\* handleGetBalance.
AskBalance(r) ==
  LET at == resolveBrokerByAccountID(r.id)
  IN  r.op = "balance" /\ Serve(r, at, One(at, r.id))

\* handleCancelOrder and handleModifyOrder: the broker is told the order's id only.
AskChange(r) ==
  LET at == resolveBrokerByAccountID(r.id)
  IN  r.op = "change" /\ Serve(r, at, One(at, NoId))

\* GetPositions: KIS is asked for the stocks and, except in its sandbox, the bonds.
GetPositions(at, id) ==
  IF at.status = 0 /\ brokers[at.own].code = "kis" /\ ~brokers[at.own].sandbox
    THEN One(at, id) \o One(at, id)
    ELSE One(at, id)

\* handleGetPositions.
AskPositions(r) ==
  LET at == resolveBrokerByAccountID(r.id)
  IN  r.op = "positions" /\ Serve(r, at, GetPositions(at, r.id))

\* handleGetOrder and handleGetOrderFills.
AskOrder(r) ==
  LET at == resolveBrokerByAccountID(r.id)
  IN  /\ r.op = "order"
      /\ IF at.status = 0 /\ brokers[at.own].plain
           THEN Serve(r, Refuse(501), <<>>)
           ELSE Serve(r, at, One(at, NoId))

\* handlePlaceOrder: the account of the body, when there is one, is the path's.
AskPlace(r) ==
  LET at == resolveBrokerByAccountID(r.id)
  IN  /\ r.op = "place"
      /\ IF at.status = 0 /\ r.body # NoId /\ ~sameAccountID(r.body, r.id)
           THEN Serve(r, Refuse(400), <<>>)
           ELSE Serve(r, at, One(at, r.id))

\* handleGetQuote and handleGetOHLCV.
AskQuote(r) ==
  LET at == IF r.id # NoId THEN resolveBrokerByAccountID(r.id)
            ELSE IF getFirstBroker.status = 0 THEN getFirstBroker ELSE Refuse(500)
  IN  r.op = "quote" /\ Serve(r, at, One(at, NoId))

\* Without an account all brokers are candidates, in any order.
orderBrokerCandidates(own) ==
  {o \in [1..Cardinality(own) -> own] : \A i, j \in DOMAIN o : o[i] = o[j] => i = j}

\* handleGetInstrument: the candidates that can tell are asked.
AskInstrument(r) ==
  LET at == resolveBrokerByAccountID(r.id)
      asked == IF r.id # NoId THEN {at.own} ELSE DOMAIN brokers
      able == {own \in asked : ~brokers[own].plain}
  IN  /\ r.op = "instrument"
      /\ IF r.id # NoId /\ at.status # 0 THEN Serve(r, at, <<>>)
         ELSE IF able = {} THEN Serve(r, Refuse(IF asked = {} THEN 503 ELSE 501), <<>>)
         ELSE \E o \in orderBrokerCandidates(able) :
                Serve(r, To(NoId), [i \in DOMAIN o |-> Call(o[i], o[i], NoCont, NoSent)])

\* The ways to go through some positions in their order, one.
inOrder(S) ==
  {o \in [1..Cardinality(S) -> S] : \A i, j \in DOMAIN o : i < j => o[i] < o[j]}

\* handleAccountsSummary: account after account, those without a broker passed over.
AskSummary(r) ==
  LET served == {i \in DOMAIN accounts : Resolved(accounts[i].id)}
      Of(id) == One(resolveBrokerByAccountID(id), id)[1]
  IN  /\ r.op = "summary"
      /\ \E o \in inOrder(served) :
           Serve(r, Refuse(503), [i \in DOMAIN o |-> Of(accounts[o[i]].id)])

\* handleAuthToken.
AskAuth(r) ==
  LET at == resolveAuthBroker(r.code, r.sandbox)
  IN  r.op = "auth" /\ Serve(r, at, One(at, NoId))

\* The proxies: the account, which may not be the code's, then the endpoint.
Forward(r, at, page, sends) ==
  IF at.status # 0 THEN Serve(r, at, <<>>)
  ELSE IF brokers[at.own].plain \/ page = Refused \/ sends = {} THEN Serve(r, Refuse(400), <<>>)
  ELSE \E sent \in sends : Serve(r, at, <<Call(at.own, Touched(at.own, NoId), page, sent)>>)

\* A request for an interface that is refused before its account is looked at.
Malformed(r) ==
  /\ r.op = "proxy"
  /\ \/ ~validateProxyRequest(r.code, r.wanted)
     \/ r.code = "ls" /\ lsRequestContinuation(r.head, r.inBody) = Refused
     \/ r.code = "toss" /\ callTossEndpoint(r.wanted) = {}
  /\ Serve(r, Refuse(400), <<>>)

WellFormed(r, code) ==
  /\ r.op = "proxy" /\ r.code = code
  /\ validateProxyRequest(code, r.wanted)

\* handleKISProxyPath, before its cache.
AskKIS(r) ==
  LET at == resolveProxyBroker("kis", r.id)
  IN  /\ WellFormed(r, "kis")
      /\ Forward(r, at, NoCont, callKISEndpoint(r.wanted, at.status = 0 /\ brokers[at.own].sandbox))

\* handleKiwoomProxy and handleKiwoomProxyStatic.
AskKiwoom(r) ==
  /\ WellFormed(r, "kiwoom")
  /\ Forward(r, resolveProxyBroker("kiwoom", r.id), kiwoomRequestContinuation(r.head, r.inBody),
             callKiwoomEndpoint(r.wanted))

\* handleLSProxy.
AskLS(r) ==
  LET page == lsRequestContinuation(r.head, r.inBody)
  IN  /\ WellFormed(r, "ls") /\ page # Refused
      /\ Forward(r, resolveProxyBroker("ls", r.id), page, callLSEndpoint(r.wanted))

\* handleTossProxy: an endpoint about the account needs the number of one.
AskToss(r) ==
  LET sends == callTossEndpoint(r.wanted)
      short == \E e \in LookupDocumentedEndpointSpec(r.wanted) : e.needsSeq
                 /\ ~resolveTossProxyAccountConfig(r.id)
  IN  /\ WellFormed(r, "toss") /\ sends # {}
      /\ Forward(r, resolveProxyBroker("toss", r.id), NoCont, IF short THEN {} ELSE sends)

\* What a broker may say: LS and Toss never know all that a summary adds up.
Says(own) ==
  LET b == brokers[own]
      figures == CASE b.embedded           -> {"ok", "incomplete"}
                   [] b.code \in {"ls", "toss"} -> {"incomplete"}
                   [] OTHER                -> {"ok"}
  IN  Errors \cup IF request.op \in {"balance", "summary"} THEN figures ELSE {"ok"}

statusFromBrokerError(error, fallback) ==
  CASE error \in {"credentials", "unauthorized", "token expired"}                -> 401
    [] error \in {"symbol", "market", "order request", "upstream bad request"}   -> 400
    [] error = "insufficient balance"                                            -> 409
    [] error \in {"order not found", "instrument not found"}                     -> 404
    [] error = "rate limit"                                                      -> 429
    [] error = "not supported"                                                   -> 501
    [] error = "server"                                                          -> 502
    [] OTHER                                                                     -> fallback

Told(cs) == {cs[i].result : i \in DOMAIN cs}

\* Whoever was asked said that there is no such instrument.
Unanimous(cs) == Told(cs) = {"instrument not found"}

\* The answer of an instrument request after the calls cs, 0 while others are asked.
InstrumentAnswer(cs, last) ==
  CASE "ok" \in Told(cs)                           -> 200
    [] "ok" \notin Told(cs) /\ Told(cs) \cap {"market", "symbol"} # {} -> 400
    [] OTHER -> IF ~last THEN 0
                ELSE IF Unanimous(cs) THEN 404 ELSE 500

SummaryAnswer(cs, last) ==
  IF ~last THEN 0
  ELSE IF Told(cs) = {"ok"} /\ Len(cs) = Len(accounts) THEN 200 ELSE 503

OtherAnswer(cs, last) ==
  LET failed == Told(cs) \ {"ok", "incomplete"}
  IN  CASE failed # {} -> statusFromBrokerError(CHOOSE e \in failed : TRUE,
                                                IF request.op = "auth" THEN 401 ELSE 500)
        [] failed = {} /\ last -> 200
        [] OTHER -> 0

\* The next broker is called and answers.
CallBroker ==
  /\ todo # <<>>
  /\ answer = 0
  /\ \E said \in Says(Head(todo).own) :
       LET cs == Append(calls, [call |-> Head(todo), result |-> said])
           last == Len(todo) = 1
       IN  /\ calls' = cs
           /\ todo' = Tail(todo)
           /\ answer' = CASE request.op = "instrument" -> InstrumentAnswer(cs, last)
                          [] request.op = "summary"    -> SummaryAnswer(cs, last)
                          [] OTHER                     -> OtherAnswer(cs, last)
  /\ UNCHANGED <<accounts, brokers, request>>

Answered ==
  /\ answer # 0
  /\ request' = NoRequest
  /\ todo' = <<>>
  /\ calls' = <<>>
  /\ answer' = 0
  /\ UNCHANGED <<accounts, brokers>>

AccountsNext ==
  \/ /\ Idle
     /\ \E r \in Requests :
          \/ AskBalance(r) \/ AskPositions(r) \/ AskChange(r) \/ AskOrder(r) \/ AskPlace(r)
          \/ AskQuote(r) \/ AskInstrument(r) \/ AskSummary(r) \/ AskAuth(r)
          \/ Malformed(r) \/ AskKIS(r) \/ AskKiwoom(r) \/ AskLS(r) \/ AskToss(r)
  \/ CallBroker
  \/ Answered

AccountsSpec == AccountsInit /\ [][AccountsNext]_accountVars

-----------------------------------------------------------------------------
(* Properties.                                                             *)

AccountsTypeOK ==
  /\ Idle => todo = <<>> /\ calls = <<>> /\ answer = 0
  /\ \A i \in DOMAIN todo : todo[i].own \in DOMAIN brokers
  /\ \A i \in DOMAIN calls : calls[i].result \in {"ok", "incomplete"} \cup Errors
  /\ answer \in {0, 200, 400, 401, 404, 409, 429, 500, 501, 502, 503}

\* Every account has an id and a broker: always so of a configuration that is valid.
Wired == \A i \in DOMAIN accounts : accounts[i].id \in DOMAIN brokers \ {NoId}
Made == {calls[i].call : i \in DOMAIN calls}

\* A request that names an account only ever touches that account: the one
\* configured by that very id or else the only one the id may stand for, the product
\* that was named if one was (account_resolution.go, Adapter.parseAccountID).
ReachesTheNamed ==
  \A c \in Made : request.id # NoId =>
    /\ IF request.id \in DOMAIN brokers
         THEN c.own = request.id
         ELSE \A own \in DOMAIN brokers : sameAccountID(own, request.id) <=> own = c.own
    /\ c.account.base = request.id.base
    /\ brokers[c.own].code = "kis" /\ request.op \in {"balance", "positions", "place"}
         /\ request.id.suffix # "" => c.account = request.id

\* A summary that is given adds up the figures of every account of the
\* configuration once, each from its own broker, and all of them whole.
SummaryIsWhole ==
  request.op = "summary" /\ answer = 200 /\ Wired =>
    /\ Len(calls) = Len(accounts)
    /\ \A i \in DOMAIN calls : calls[i].call.own = accounts[i].id /\ calls[i].result = "ok"

\* An instrument is said not to exist only when every broker that can tell said so.
NotFoundIsUnanimous ==
  request.op = "instrument" /\ answer = 404 /\ calls # <<>> =>
    /\ Unanimous(calls)
    /\ request.id = NoId =>
         {c.own : c \in Made} = {own \in DOMAIN brokers : ~brokers[own].plain}

\* A request for one broker's interface goes to that broker, on the sandbox that was
\* asked for when there is one, as an endpoint it documents; a page that goes on does
\* so where the client said.
KeepsToItsBroker ==
  \A c \in Made :
    /\ Wired /\ request.op \in {"proxy", "auth"} /\ request.code # "" =>
         brokers[c.own].code = request.code
    /\ Wired /\ request.op = "auth" /\ request.code # "" =>
         \/ brokers[c.own].sandbox = request.sandbox
         \/ \A i \in DOMAIN accounts :
              accounts[i].code = request.code => accounts[i].sandbox # request.sandbox
    /\ c.page.yn \in {"", request.head.yn, request.inBody.yn}
    /\ c.page.key \in {request.head.key, request.inBody.key}
    /\ request.head.key # "" => c.page.key = request.head.key
    /\ request.op = "proxy" =>
         SentAsDocumented(request.code, brokers[c.own].sandbox, request.wanted, c.sent)

\* What reaches which broker, over all configurations a server starts with and all
\* ids that name one account, several or none.
RequestReachesItsAccount ==
  ReachesTheNamed /\ SummaryIsWhole /\ NotFoundIsUnanimous /\ KeepsToItsBroker
=============================================================================
