-------------------------- MODULE EndpointDispatch ---------------------------
(***************************************************************************)
(* What the proxies send on: a request for an endpoint of a broker is      *)
(* checked against the table of documented endpoints and sent with the     *)
(* method and the id that belong to it, or refused (endpoint_dispatch.go   *)
(* of each adapter, internal/server/request_validation.go and the runtime  *)
(* of the generated tables).                                               *)
(*                                                                         *)
(* Case, spaces and the prefixes of paths, which every lookup normalises,  *)
(* are left out; a field of a request is given, with a value its endpoint  *)
(* knows, or given blank.                                                  *)
(***************************************************************************)
EXTENDS FiniteSets, TLC

CONSTANT
  Documented  \* the generated tables: a set of endpoints

\* An endpoint.  virtual is its id in the sandbox of KIS; needsSeq says that it is
\* about an account of Toss, template that its path holds an id.
Endpoint(code, path, id, method, required) ==
  [code |-> code, path |-> path, id |-> id, virtual |-> "", method |-> method,
   required |-> required, rest |-> TRUE, needsSeq |-> FALSE, template |-> FALSE]

\* What is asked for: api is the api_id, the tr_cd or the tr_id of the request.
Asking(path, api, method, given, blank) ==
  [path |-> path, api |-> api, method |-> method, given |-> given, blank |-> blank]

endpoints(code) == {e \in Documented : e.code = code}
Methods == {"GET", "POST", "PUT", "DELETE", "PATCH"}

ASSUME DispatchAssumption ==
  \A e \in Documented : e.method \in Methods /\ (e.code # "toss" => e.id # "" \/ e.virtual # "")

-----------------------------------------------------------------------------
\* validateKISProxyRequest, validateKiwoomProxyRequest, validateLSProxyRequest and
\* validateTossProxyRequest.
validateProxyRequest(code, w) ==
  /\ w.method \in Methods \cup {""}
  /\ code \in {"kiwoom", "ls"} => w.api # ""

\* The one documented method of a path, if there is one; not of a path with an id.
DefaultMethodForPath(path) ==
  LET methods == {e.method : e \in {f \in endpoints("toss") : f.path = path /\ ~f.template}}
  IN  IF Cardinality(methods) = 1 THEN CHOOSE m \in methods : TRUE ELSE ""

\* The endpoint of Toss that is asked for, none or one.
LookupDocumentedEndpointSpec(w) ==
  LET method == IF w.method = "" THEN DefaultMethodForPath(w.path) ELSE w.method
      matching == {e \in endpoints("toss") : e.path = w.path /\ e.method = method}
      exact == {e \in matching : ~e.template}
  IN  IF exact # {} THEN exact ELSE matching

\* ResolveTRID: an id of the other environment serves where there is none.
ResolveTRID(e, sandbox) ==
  IF e.virtual = "" \/ (~sandbox /\ e.id # "") THEN e.id ELSE e.virtual

Sent(path, id, method, fields) == [path |-> path, id |-> id, method |-> method, fields |-> fields]

\* dispatchDocumentedKISEndpoint: a field has to be there, if only blank.
callKISEndpoint(w, sandbox) ==
  {Sent(e.path, IF w.api = "" THEN ResolveTRID(e, sandbox) ELSE w.api, e.method, w.given \cup w.blank) :
     e \in {f \in endpoints("kis") : /\ f.path = w.path
                              /\ w.method \in {"", f.method}
                              /\ f.required \subseteq w.given \cup w.blank}}

-----------------------------------------------------------------------------
(* The endpoints that the Kiwoom client calls by requests of its own types: *)
(* the fields it insists on and those it fills in when they are blank.      *)
Typed(checked, filled) == [checked |-> checked, filled |-> filled]

Order(quantity) == Typed({"stk_cd"} \cup quantity, {"dmst_stex_tp"})
Candles == Typed({"stk_cd"}, {"base_dt", "upd_stkpc_tp"})
Investors == Typed({"stk_cd"}, {"dt", "trde_tp", "amt_qty_tp", "unit_tp"})
OfSymbol == Typed({"stk_cd"}, {})

orderRequests ==
  "kt10000" :> Order({"ord_qty", "trde_tp"}) @@ "kt10001" :> Order({"ord_qty", "trde_tp"})
    @@ "kt10002" :> Order({"orig_ord_no", "mdfy_qty", "mdfy_uv"})
    @@ "kt10003" :> Order({"orig_ord_no", "cncl_qty"})

chartRequests ==
  "ka10079" :> Typed({"stk_cd"}, {"tic_scope", "upd_stkpc_tp"}) @@ "ka10060" :> Investors
    @@ "ka10081" :> Candles @@ "ka10082" :> Candles @@ "ka10083" :> Candles

marketRequests ==
  "ka10003" :> OfSymbol @@ "ka10004" :> OfSymbol @@ "ka10059" :> Investors
    @@ "ka10030" :> Typed({}, {"stex_tp", "mrkt_tp", "sort_tp", "mang_stk_incls", "crd_tp",
                               "trde_qty_tp", "pric_tp", "trde_prica_tp", "mrkt_open_tp"})
    @@ "ka10027" :> Typed({}, {"stex_tp", "mrkt_tp", "sort_tp", "trde_qty_cnd", "stk_cnd",
                               "crd_cnd", "updown_incls", "pric_cnd", "trde_prica_cnd"})
    @@ "ka20001" :> Typed({}, {"mrkt_tp"}) @@ "ka20002" :> Typed({}, {"mrkt_tp", "stex_tp"})

priceRequest == "ka10001" :> OfSymbol
instrumentRequest == "ka10100" :> OfSymbol

balanceRequests ==
  "kt00005" :> Typed({}, {"dmst_stex_tp"}) @@ "kt00018" :> Typed({}, {"qry_tp", "dmst_stex_tp"})

executionRequests ==
  "ka10075" :> Typed({}, {"trde_tp", "stex_tp", "all_stk_tp"})
    @@ "ka10076" :> Typed({}, {"qry_tp", "sell_tp", "stex_tp"})
    @@ "kt00007" :> Typed({}, {"qry_tp", "stk_bond_tp", "sell_tp", "dmst_stex_tp"})
    @@ "kt00009" :> Typed({}, {"qry_tp", "stk_bond_tp", "sell_tp", "mrkt_tp", "dmst_stex_tp"})
    @@ "kt00010" :> Typed({}, {"trde_tp", "uv"})

\* registerCoreOverrides.
coreOverrides ==
  orderRequests @@ chartRequests @@ marketRequests @@ priceRequest @@ instrumentRequest
    @@ balanceRequests @@ executionRequests

applyDocumentedDefaults(e) == IF e.id \in {"ka50079", "ka50080"} THEN {"tic_scope"} ELSE {}

\* dispatchDocumentedEndpoint, for the other endpoints: every field that is required.
documentedRequest(e) == Typed(e.required \ applyDocumentedDefaults(e), applyDocumentedDefaults(e))

requestOf(e) == IF e.id \in DOMAIN coreOverrides THEN coreOverrides[e.id] ELSE documentedRequest(e)

\* Fields that Kiwoom requires and that the client neither insists on nor fills in.
Unchecked ==
  {<<"kt00010", "stk_cd">>, <<"ka20001", "inds_cd">>, <<"ka20002", "inds_cd">>}

\* So it is of the tables that are generated: streams and logins are in those of LS and
\* of Toss only, and a type of request insists on or fills in what its endpoint requires.
ASSUME TablesAssumption ==
  /\ \A e \in Documented :
       /\ e.code # "ls" => e.rest
       /\ e.code \in {"kis", "kiwoom"} => e.path # "/oauth2/token"
  /\ \A e \in endpoints("kiwoom") : e.id \in DOMAIN coreOverrides =>
       \A f \in e.required :
         \/ f \in requestOf(e).checked \cup requestOf(e).filled
         \/ <<e.id, f>> \in Unchecked

\* A blank field of Kiwoom's is a missing one.
callKiwoomEndpoint(w) ==
  LET method == IF w.method = "" THEN "POST" ELSE w.method
  IN  {Sent(e.path, e.id, method, w.given \cup requestOf(e).filled) :
         e \in {f \in endpoints("kiwoom") : /\ f.path = w.path /\ f.id = w.api
                                     /\ f.method = method
                                     /\ requestOf(f).checked \subseteq w.given}}

-----------------------------------------------------------------------------
\* Fields by which LS goes on, and one that it lets be.
isOptionalContinuationField == {"cts_date", "cts_info", "cts_seq", "cts_value", "sujung"}

\* validateDocumentedRequestFields.
fieldsComplete(e, w) == e.required \ isOptionalContinuationField \subseteq w.given \cup w.blank

\* CallEndpointPage of LS: what is realtime or a login is no business of the proxy.
callLSEndpoint(w) ==
  LET method == IF w.method = "" THEN "POST" ELSE w.method
  IN  {Sent(e.path, e.id, method, w.given \cup w.blank) :
         e \in {f \in endpoints("ls") : /\ f.path = w.path /\ f.id = w.api
                                 /\ f.path # "/oauth2/token"
                                 /\ f.rest
                                 /\ f.method = method
                                 /\ fieldsComplete(f, w)}}

callTossEndpoint(w) ==
  {Sent(e.path, "", e.method, w.given \cup w.blank) :
     e \in {f \in LookupDocumentedEndpointSpec(w) : f.path # "/oauth2/token"}}

-----------------------------------------------------------------------------
(* Properties.                                                             *)

\* What is sent to a broker is an endpoint its table has, by the method the table
\* says, with every field that it requires, filled in or as the client gave it;
\* the id is the one that was asked for, or else that of the environment, the
\* sandbox's own as soon as there is one; a stream or a login is never asked for.
SentAsDocumented(code, sandbox, w, sent) ==
  \E e \in endpoints(code) :
    /\ sent.path = e.path /\ e.path = w.path
    /\ sent.method = e.method /\ w.method \in {"", sent.method}
    /\ e.rest /\ e.path # "/oauth2/token"
    /\ code # "toss" =>
         \A f \in e.required :
           \/ f \in sent.fields
           \/ code = "ls" /\ f \in isOptionalContinuationField
           \/ <<e.id, f>> \in Unchecked
    /\ CASE code = "kis" -> sent.id = (IF w.api # "" THEN w.api
                                       ELSE IF e.virtual # "" /\ (sandbox \/ e.id = "") THEN e.virtual
                                       ELSE e.id)
         [] code = "toss" -> sent.id = ""
         [] OTHER         -> sent.id = w.api /\ w.api = e.id
=============================================================================
