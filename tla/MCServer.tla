------------------------------ MODULE MCServer ------------------------------
(* What the server itself keeps and decides, for TLC: which broker a request *)
(* is brought to, the answers the KIS proxy keeps, and the symbols read from *)
(* the master files.  Each behaviour is about one of them.                   *)
EXTENDS ProxyCache, Accounts, MasterSymbols

VARIABLE part  \* what the behaviour is about, which does not change

vars == <<part, proxyVars, accountVars, masterVars>>

Symmetry == Permutations(Callers) \cup Permutations(Builders)

\* What is asked of KIS: the price of a share by two accounts, and an order.
AccountsAndPaths == [account : {"a", "b"}, path : {"price"}] \cup {[account |-> "a", path |-> "order"]}
TTLs == "price" :> 1 @@ "order" :> 0

-----------------------------------------------------------------------------
(* Endpoints: of Kiwoom those of several types of request and one that is    *)
(* only documented; of KIS one the sandbox lacks; of LS a stream and a login; *)
(* of Toss a path with two methods and one that holds an id.                  *)
Kiwoom(path, id, required) == Endpoint("kiwoom", path, id, "POST", required)
LS(path, id, required) == Endpoint("ls", path, id, "POST", required)

Balance == Kiwoom("acnt", "kt00005", {"dmst_stex_tp"})
Bars == LS("chart", "t8410", {"shcode", "sujung"})

Table ==
  {Balance, Bars,
   Kiwoom("acnt", "kt00010", {"stk_cd", "trde_tp", "uv"}),
   Kiwoom("chart", "ka10081", {"base_dt", "stk_cd", "upd_stkpc_tp"}),
   Kiwoom("chart", "ka50080", {"stk_cd", "tic_scope"}),
   Kiwoom("sect", "ka20001", {"inds_cd", "mrkt_tp"}),
   Kiwoom("stkinfo", "ka10001", {"stk_cd"}),
   Kiwoom("ordr", "kt10000", {"dmst_stex_tp", "ord_qty", "stk_cd", "trde_tp"}),
   Kiwoom("ordr", "kt10002", {"dmst_stex_tp", "mdfy_qty", "mdfy_uv", "orig_ord_no", "stk_cd"}),
   [Endpoint("kis", "order-cash", "TTTC0012U", "POST", {"CANO", "PDNO"}) EXCEPT !.virtual = "VTTC0012U"],
   Endpoint("kis", "search-info", "CTPF1604R", "GET", {"PDNO"}),
   [LS("websocket", "S3_", {"shcode"}) EXCEPT !.rest = FALSE], LS("/oauth2/token", "token", {}),
   [Endpoint("toss", "orders", "", "GET", {}) EXCEPT !.needsSeq = TRUE],
   [Endpoint("toss", "orders", "", "POST", {"symbol"}) EXCEPT !.needsSeq = TRUE],
   [Endpoint("toss", "orders/1", "", "GET", {}) EXCEPT !.needsSeq = TRUE, !.template = TRUE],
   Endpoint("toss", "prices", "", "GET", {}), Endpoint("toss", "/oauth2/token", "", "POST", {})}

Plain(op, id) == Request(op, id, NoId, "", FALSE, NoEndpoint, NoCont, NoCont)
Proxied(id, code, w) == [Plain("proxy", id) EXCEPT !.code = code, !.wanted = w]

\* An endpoint asked for with all it needs, and otherwise.
ApiOf(e) == IF e.code = "kis" THEN "" ELSE e.id
Properly(e) == Asking(e.path, ApiOf(e), e.method, e.required, {})

Oddly(e) ==
  {Proxied(NoId, e.code, Asking(e.path, api, m, e.required \ left, blank)) :
     api \in {"", "TTTC0012U", e.id}, m \in {"", "GET", "POST", "OPTIONS"},
     left \in {{}, {"stk_cd"}, {"trde_tp"}, {"sujung"}, e.required}, blank \in {{}, e.required}}

-----------------------------------------------------------------------------
(* Accounts: a KIS base with two products and an LS account of the same      *)
(* digits; a Kiwoom account and a Toss account that an alias may confuse.    *)
Account(code, id, sandbox, seq) == [code |-> code, id |-> id, sandbox |-> sandbox, seq |-> seq]

Raw ==
  {Account("kis", Id("8", ""), FALSE, ""), Account("kis", Id("8", "01"), FALSE, ""),
   Account("kis", Id("8", "22"), TRUE, ""), Account("ls", Id("8", ""), FALSE, ""),
   Account("kiwoom", Id("10", ""), FALSE, ""), Account("kiwoom", Id("10", "01"), FALSE, ""),
   Account("toss", Id("10", "01"), FALSE, "1"), Account("toss", Id("t", ""), FALSE, "2"),
   Account("toss", Id("t", "01"), FALSE, "")}

UpToTwoAccounts ==
  UNION {[1..n -> Raw] : n \in 1..2}
    \cup {<<Account("kis", Id("8", "22"), TRUE, ""), Account("kis", Id("8", "01"), FALSE, ""),
            Account("kiwoom", Id("10", ""), FALSE, "")>>}

\* Accounts of a program that embeds the server, with brokers for some of them.
Unvalidated ==
  <<Account("kis", Id("8", ""), FALSE, ""), Account("kis", Id("8", "22"), FALSE, ""),
    Account("toss", Id("t", ""), FALSE, "")>>

SomeServed ==
  {[accounts |-> Unvalidated, served |-> s, plain |-> p] :
     s \in SUBSET {Unvalidated[i].id : i \in 1..3}, p \in {{}, {Id("t", "")}}}

Asked == {Id("8", product) : product \in {"", "01", "22"}}
           \cup {Id(base, product) : base \in {"10", "t"}, product \in {"", "01"}}
Pages == {Continuation(yn, key) : yn \in {"", "N", "Y"}, key \in {"", "1", "2"}}

AllRequests ==
  {Plain(op, id) : op \in {"balance", "positions", "change", "order"}, id \in Asked}
    \cup {Plain(op, id) : op \in {"quote", "instrument"}, id \in Asked \cup {NoId}}
    \cup {Plain("summary", NoId)}
    \cup {[Plain("place", id) EXCEPT !.body = body] : id \in Asked, body \in Asked \cup {NoId}}
    \cup {[Plain("auth", NoId) EXCEPT !.code = c, !.sandbox = s] :
            c \in Codes \cup {"", "other"}, s \in BOOLEAN}
    \cup {Proxied(id, e.code, Properly(e)) : id \in Asked \cup {NoId}, e \in Table}
    \cup {[Proxied(NoId, "kiwoom", Properly(Balance)) EXCEPT !.head = h, !.inBody = b] :
            h \in Pages, b \in Pages \cup {NoBody}}
    \cup {[Proxied(NoId, "ls", Properly(Bars)) EXCEPT !.head = h, !.inBody = b] :
            h \in Pages, b \in Pages}
    \cup UNION {Oddly(e) : e \in Table}

-----------------------------------------------------------------------------
(* Master files: a share listed in two markets of Korea, one of the US, and  *)
(* one whose digits are also those of a share in Shenzhen.                   *)
Files == <<"KOSPI", "NXT", "US-NASDAQ", "SZ">>

SymbolsOf ==
  "KOSPI" :> {"000020", "005930"} @@ "NXT" :> {"005930"} @@ "US-NASDAQ" :> {"AAPL"} @@ "SZ" :> {"000020"}

\* SZSE is a name that canonicalLookupMarket does not know, XX one that nobody does.
AskedMarkets == {"", "KRX", "KOSPI", "NXT", "US", "NAS", "SZS", "SZSE", "XX"}

-----------------------------------------------------------------------------
TypeOK == ProxyTypeOK /\ AccountsTypeOK /\ MasterTypeOK

AnyConfig == accounts = Validate(<<Account("kis", Id("8", ""), FALSE, "")>>)

Init ==
  /\ part \in {"proxy", "accounts", "master"}
  /\ ProxyInit /\ AccountsInit /\ MasterInit
  /\ part # "accounts" => AnyConfig /\ brokers = init(accounts)

Next ==
  /\ \/ part = "proxy" /\ ProxyNext /\ UNCHANGED <<accountVars, masterVars>>
     \/ part = "accounts" /\ AccountsNext /\ UNCHANGED <<proxyVars, masterVars>>
     \/ part = "master" /\ MasterNext /\ UNCHANGED <<proxyVars, accountVars>>
  /\ UNCHANGED part

Spec == Init /\ [][Next]_vars
=============================================================================
