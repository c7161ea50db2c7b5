------------------------ MODULE BrokerClients_proofs ------------------------
(***************************************************************************)
(* The Kiwoom and the Toss clients, for any number of accounts, app keys,  *)
(* requests and issuances (modules KiwoomClient and TossClient, put        *)
(* together in MCBrokerClients): while every account keeps one app key no  *)
(* request carries another account's token, a Toss order is sent once, and *)
(* the Kiwoom clients ask for one token at a time.                         *)
(***************************************************************************)
EXTENDS MCBrokerClients, TokenIssue_proofs

\* Every client is authenticated with one app key only.
KeepsOneKey == \A c \in Clients : \A j, k \in AuthKeys[c] : j = k

Types == CallsTypeOK /\ KiwoomTypeOK /\ TossTypeOK

\* A client has selected one of its own keys, and holds a token of one of them.
ClientsOwn ==
  \A c \in Clients :
    /\ cred[c] # None => cred[c] \in AuthKeys[c]
    /\ local[c] # None => cred[c] # None /\ fkey[local[c]] # None /\ fkey[local[c]] \in AuthKeys[c]

Selecting == {"lookup", "install", "select", "auth", "adopt", "join", "await", "permit", "quota",
              "post", "keep", "store"}

\* What a request has in hand was obtained for the key it read, a key of its client,
\* which has selected one by the time a token is asked for.
RequestsOwn ==
  \A r \in Requests :
    /\ pc[r] # "idle" => client[r] \in Clients
    /\ pc[r] \in Selecting => key[r] # None
    /\ key[r] # None => pc[r] # "idle" /\ key[r] \in AuthKeys[client[r]]
    /\ pc[r] \in Selecting \ {"select"} => cred[client[r]] # None
    /\ pc[r] \in {"install", "adopt", "keep", "store"} => tok[r] # None /\ fkey[tok[r]] = key[r]
    /\ pc[r] = "await" => fl[r] # None /\ fkey[fl[r]] = key[r]

\* So was what it has sent; a Kiwoom client never loses its token again.
HeadersOwn ==
  \A r \in Requests :
    /\ pc[r] = "header" /\ broker = "kiwoom" => local[client[r]] # None
    /\ pc[r] = "reply" =>
         \/ sent[r] = None /\ broker = "toss"
         \/ /\ sent[r] # None /\ cred[client[r]] # None
            /\ fkey[sent[r]] # None /\ fkey[sent[r]] \in AuthKeys[client[r]]

\* An issuance runs for a key of the client that started it.
StartersOwn ==
  \A f \in Flights : step[f] \notin {"unused", "done"} =>
    /\ broker = "kiwoom"
    /\ starter[f] \in Clients /\ cred[starter[f]] # None
    /\ fkey[f] \in AuthKeys[starter[f]]

\* A Toss call is sent once, and once more only after it was refused unexecuted and
\* is no order.
SentOnce ==
  \A r \in Requests :
    /\ pc[r] = "end" <=> result[r] # "none"
    /\ pc[r] = "idle" => ~ retried[r]
    /\ retried[r] => ~ mutation[r]
    /\ pc[r] # "end" => executed[r] = 0
    /\ executed[r] <= 1
    /\ result[r] = "ok" /\ purpose[r] = "call" => executed[r] = 1 \/ broker # "toss"
    /\ result[r] = "refused" => executed[r] = 0
    /\ broker = "toss" /\ pc[r] = "reply" => attempts[r] = IF retried[r] THEN 2 ELSE 1
    /\ broker = "toss" /\ pc[r] \notin {"reply", "end"} => attempts[r] = IF retried[r] THEN 1 ELSE 0
    /\ mutation[r] => attempts[r] <= 1

OwnInv == ClientsOwn /\ RequestsOwn /\ HeadersOwn /\ StartersOwn

\* The inductive invariant.
IInv == IssueInv /\ Types /\ OwnInv /\ SentOnce

LEMMA IInvImplies ==
  ASSUME IInv
  PROVE  TypeOK /\ TossOrderOnce /\ (KeepsOneKey => SentTokenIsOwn)
<1>1. TypeOK
  BY DEF IInv, IssueInv, Types, TypeOK
<1>2. TossOrderOnce
  BY DEF IInv, SentOnce, TossOrderOnce
<1>3. ASSUME KeepsOneKey, NEW r \in Requests, pc[r] = "reply"
      PROVE  \/ sent[r] # None /\ fkey[sent[r]] = cred[client[r]]
             \/ sent[r] = None /\ broker = "toss"
  <2>1. client[r] \in Clients
    BY <1>3 DEF IInv, OwnInv, RequestsOwn
  <2> QED
    BY <1>3, <2>1 DEF IInv, OwnInv, ClientsOwn, HeadersOwn, KeepsOneKey
<1> QED
  BY <1>1, <1>2, <1>3 DEF SentTokenIsOwn

LEMMA IInvInit == ASSUME Init PROVE IInv
<1> USE TokenIssueAssumption, ClientCallsAssumption
<1>1. IssueInv
  BY IssueInvInit DEF Init
<1>2. Types
  BY DEF Init, CallsInit, KiwoomInit, TossInit, Types, CallsTypeOK, KiwoomTypeOK, TossTypeOK,
         CallSteps, Results
<1>3. ClientsOwn /\ RequestsOwn /\ HeadersOwn
  BY DEF Init, CallsInit, ClientsOwn, RequestsOwn, HeadersOwn, Selecting
<1>4. StartersOwn
  BY DEF Init, TokenIssueInit, StartersOwn
<1>5. SentOnce
  BY DEF Init, CallsInit, TossInit, SentOnce
<1> QED
  BY <1>1, <1>2, <1>3, <1>4, <1>5 DEF IInv, OwnInv

-----------------------------------------------------------------------------
(* Steps that leave the issuance and all clients alone.                    *)

\* The parts of the invariant that are about the clients.
LEMMA ClientsAside ==
  ASSUME IInv, UNCHANGED <<issueVars, clientVars, starter>>
  PROVE  IssueInv' /\ ClientsOwn' /\ StartersOwn' /\ UNCHANGED <<fkey, cred, local, broker>>
BY StutterKeeps
   DEF IInv, OwnInv, ClientsOwn, StartersOwn, issueVars, clientVars

LEMMA RequestKeeps ==
  ASSUME IInv, NEW r \in Requests, UNCHANGED <<issueVars, clientVars, kiwoomVars, tossVars>>,
         \/ ReadKey(r, "wait") /\ broker = "kiwoom"
         \/ ReadKey(r, "valid")
         \/ LookUp(r)
         \/ FallBack(r, "header") /\ broker = "kiwoom"
         \/ FallBack(r, "wait") /\ broker = "toss"
         \/ Refresh(r)
         \/ AuthLookUp(r, "join") \/ AuthLookUp(r, "permit")
         \/ KiwoomAnswered(r) /\ broker = "kiwoom"
         \/ TossAuthQuota(r)
         \/ TossWait(r) /\ broker = "toss"
         \/ TossFailed(r)
         \/ GiveUpAt(r, {"wait", "await", "reply"})
         \/ GiveUpAt(r, {"quota", "post", "wait", "reply"})
         \/ \E c \in Clients : KiwoomStart(r, c) /\ broker = "kiwoom"
         \/ \E c \in Clients : \E k \in AuthKeys[c] : StartLogin(r, c, k)
  PROVE  IInv'
<1> USE TokenIssueAssumption, ClientCallsAssumption
<1>1. IssueInv' /\ ClientsOwn' /\ StartersOwn' /\ UNCHANGED <<fkey, cred, local, broker>>
  BY ClientsAside DEF kiwoomVars
<1>2. UNCHANGED <<fl, starter, handed, mutation, attempts, executed, retried>>
  BY DEF kiwoomVars, tossVars
<1>i. /\ CallsTypeOK /\ KiwoomTypeOK /\ TossTypeOK
      /\ ClientsOwn /\ RequestsOwn /\ HeadersOwn /\ SentOnce
  BY DEF IInv, Types, OwnInv
<1>3. SUFFICES CallsTypeOK' /\ RequestsOwn' /\ HeadersOwn' /\ SentOnce'
  BY <1>1, <1>2, <1>i DEF IInv, Types, OwnInv, KiwoomTypeOK, TossTypeOK
<1> USE <1>1, <1>2, <1>i DEF Goto, End, CallsTypeOK, RequestsOwn, HeadersOwn, SentOnce, Selecting,
                             CallSteps, Results
<1>4. ASSUME NEW from \in {"wait", "valid"}, ReadKey(r, from), from = "wait" => broker = "kiwoom"
      PROVE  CallsTypeOK' /\ RequestsOwn' /\ HeadersOwn' /\ SentOnce'
  <2>1. client[r] \in Clients
    BY <1>4 DEF ReadKey
  <2>2. /\ cred[client[r]] \in Keys \cup {None}
        /\ cred[client[r]] # None => cred[client[r]] \in AuthKeys[client[r]]
    BY <2>1 DEF ClientsOwn
  <2>3. /\ pc[r] = from
        /\ key' = [key EXCEPT ![r] = cred[client[r]]]
        /\ pc' = [pc EXCEPT ![r] = IF cred[client[r]] = None THEN "fallback" ELSE "lookup"]
        /\ UNCHANGED <<client, tok, purpose, sent, result>>
    BY <1>4 DEF ReadKey
  <2>4. CallsTypeOK'
    BY <2>2, <2>3
  <2>5. RequestsOwn'
    BY <1>4, <2>1, <2>2, <2>3
  <2>6. HeadersOwn' /\ SentOnce'
    BY <1>4, <2>3
  <2> QED
    BY <2>4, <2>5, <2>6
<1>6. CASE LookUp(r)
  <2>1. key[r] \in Keys
    BY <1>6 DEF LookUp
  <2>2. Serves(key[r]) => cache[key[r]] \in Flights /\ fkey[cache[key[r]]] = key[r]
    BY <2>1 DEF Serves, IInv, IssueInv, TokenIssueTypeOK, FlightsKeyed
  <2> QED
    BY <1>6, <2>1, <2>2 DEF LookUp
<1>7. ASSUME NEW next \in {"header", "wait"}, FallBack(r, next),
             next = "header" <=> broker = "kiwoom"
      PROVE  CallsTypeOK' /\ RequestsOwn' /\ HeadersOwn' /\ SentOnce'
  <2>1. pc[r] = "fallback" /\ UNCHANGED <<client, key, tok, sent>>
    BY <1>7 DEF FallBack
  <2>2. CASE ~ LocallyValid(client[r])
    BY <1>7, <2>1, <2>2 DEF FallBack
  <2>3. CASE LocallyValid(client[r]) /\ purpose[r] = "call"
    <3>1. /\ local[client[r]] # None
          /\ pc' = [pc EXCEPT ![r] = next]
          /\ UNCHANGED <<purpose, result>>
      BY <1>7, <2>3 DEF FallBack, LocallyValid, TokenIsThere
    <3> QED
      BY <1>7, <2>1, <3>1
  <2>4. CASE LocallyValid(client[r]) /\ purpose[r] = "login"
    <3>1. /\ pc' = [pc EXCEPT ![r] = "end"]
          /\ result' = [result EXCEPT ![r] = "ok"]
          /\ UNCHANGED purpose
      BY <1>7, <2>4 DEF FallBack, TokenIsThere
    <3> QED
      BY <2>1, <2>4, <3>1
  <2>5. CASE LocallyValid(client[r]) /\ purpose[r] = "retry"
    <3>1. /\ pc' = [pc EXCEPT ![r] = "valid"]
          /\ purpose' = [purpose EXCEPT ![r] = "call"]
          /\ UNCHANGED result
      BY <1>7, <2>5 DEF FallBack, TokenIsThere
    <3> QED
      BY <2>1, <2>5, <3>1
  <2> QED
    BY <2>2, <2>3, <2>4, <2>5
<1>9. CASE Refresh(r)
  BY <1>9 DEF Refresh, ClientsOwn
<1>10. ASSUME NEW issue \in {"join", "permit"}, AuthLookUp(r, issue)
       PROVE  CallsTypeOK' /\ RequestsOwn' /\ HeadersOwn' /\ SentOnce'
  <2>1. key[r] \in Keys
    BY <1>10 DEF AuthLookUp
  <2>2. Serves(key[r]) => cache[key[r]] \in Flights /\ fkey[cache[key[r]]] = key[r]
    BY <2>1 DEF Serves, IInv, IssueInv, TokenIssueTypeOK, FlightsKeyed
  <2> QED
    BY <1>10, <2>1, <2>2 DEF AuthLookUp
<1>11. CASE KiwoomAnswered(r) /\ broker = "kiwoom"
  BY <1>11 DEF KiwoomAnswered
<1>12. CASE TossAuthQuota(r)
  BY <1>12 DEF TossAuthQuota
<1>13. CASE TossWait(r) /\ broker = "toss"
  BY <1>13 DEF TossWait
<1>14. CASE TossFailed(r)
  BY <1>14 DEF TossFailed
<1>15. ASSUME NEW steps \in SUBSET (CallSteps \ {"idle", "end"}), GiveUpAt(r, steps)
       PROVE  CallsTypeOK' /\ RequestsOwn' /\ HeadersOwn' /\ SentOnce'
  BY <1>15 DEF GiveUpAt
<1>16. ASSUME NEW c \in Clients, KiwoomStart(r, c), broker = "kiwoom"
       PROVE  CallsTypeOK' /\ RequestsOwn' /\ HeadersOwn' /\ SentOnce'
  BY <1>16 DEF KiwoomStart
<1>17. ASSUME NEW c \in Clients, NEW k \in AuthKeys[c], StartLogin(r, c, k)
       PROVE  CallsTypeOK' /\ RequestsOwn' /\ HeadersOwn' /\ SentOnce'
  <2>1. k \in Keys
    BY <1>17
  <2> QED
    BY <1>17, <2>1 DEF StartLogin
<1> QED
  BY <1>4, <1>6, <1>7, <1>9, <1>10, <1>11, <1>12, <1>13, <1>14, <1>15, <1>16, <1>17
-----------------------------------------------------------------------------
(* Steps that change a client or a call.                                   *)

\* A request has got its token.
LEMMA GotToken ==
  ASSUME IInv, NEW r \in Requests, NEW next \in {"header", "wait"}, NEW t \in Flights,
         next = "header" <=> broker = "kiwoom",
         pc[r] \in {"install", "adopt", "await", "store"}, fkey[t] = key[r],
         local' = [local EXCEPT ![client[r]] = t] \/ (broker = "toss" /\ local' = local),
         tok' = tok \/ tok' = [tok EXCEPT ![r] = None],
         fl' = fl \/ fl' = [fl EXCEPT ![r] = None],
         TokenIsThere(r, next),
         UNCHANGED <<fkey, broker, cred, client, key, sent, starter, handed, tossVars>>
  PROVE  /\ CallsTypeOK' /\ KiwoomTypeOK' /\ TossTypeOK'
         /\ ClientsOwn' /\ RequestsOwn' /\ HeadersOwn' /\ SentOnce'
<1> USE TokenIssueAssumption, ClientCallsAssumption
<1>1. /\ CallsTypeOK /\ KiwoomTypeOK /\ TossTypeOK
      /\ ClientsOwn /\ RequestsOwn /\ HeadersOwn /\ SentOnce
  BY DEF IInv, Types, OwnInv
<1>2. UNCHANGED <<mutation, attempts, executed, retried>>
  BY DEF tossVars
<1>3. client[r] \in Clients /\ key[r] \in AuthKeys[client[r]] /\ key[r] # None /\ cred[client[r]] # None
  BY <1>1 DEF RequestsOwn, Selecting
<1>4. KiwoomTypeOK' /\ TossTypeOK'
  BY <1>1, <1>2 DEF KiwoomTypeOK, TossTypeOK
<1>5. ClientsOwn'
  BY <1>1, <1>3 DEF ClientsOwn, CallsTypeOK
<1>6. \A c \in Clients : broker = "kiwoom" /\ local[c] # None => local'[c] # None
  BY <1>1, <1>3 DEF CallsTypeOK
<1>7. local' \in [Clients -> Flights \cup {None}]
  BY <1>1 DEF CallsTypeOK
<1>8. CASE purpose[r] = "call"
  <2>1. pc' = [pc EXCEPT ![r] = next] /\ UNCHANGED <<purpose, result>>
    BY <1>8 DEF TokenIsThere, Goto
  <2>2. next = "header" => local'[client[r]] # None
    BY <1>1, <1>3 DEF CallsTypeOK
  <2>3. CallsTypeOK'
    BY <1>1, <1>7, <2>1 DEF CallsTypeOK, CallSteps
  <2>4. RequestsOwn'
    BY <1>1, <2>1 DEF CallsTypeOK, KiwoomTypeOK, RequestsOwn, Selecting
  <2>5. HeadersOwn'
    BY <1>1, <1>6, <2>1, <2>2 DEF CallsTypeOK, HeadersOwn, RequestsOwn
  <2>6. SentOnce'
    BY <1>1, <1>2, <2>1 DEF CallsTypeOK, SentOnce
  <2> QED
    BY <1>4, <1>5, <2>3, <2>4, <2>5, <2>6
<1>9. CASE purpose[r] = "login"
  <2>1. /\ pc' = [pc EXCEPT ![r] = "end"]
        /\ result' = [result EXCEPT ![r] = "ok"]
        /\ UNCHANGED purpose
    BY <1>9 DEF TokenIsThere, Goto, End
  <2>3. CallsTypeOK'
    BY <1>1, <1>7, <2>1 DEF CallsTypeOK, CallSteps, Results
  <2>4. RequestsOwn'
    BY <1>1, <2>1 DEF CallsTypeOK, KiwoomTypeOK, RequestsOwn, Selecting
  <2>5. HeadersOwn'
    BY <1>1, <1>6, <2>1 DEF CallsTypeOK, HeadersOwn, RequestsOwn
  <2>6. SentOnce'
    BY <1>1, <1>2, <1>9, <2>1 DEF CallsTypeOK, SentOnce
  <2> QED
    BY <1>4, <1>5, <2>3, <2>4, <2>5, <2>6
<1>10. CASE purpose[r] = "retry"
  <2>1. /\ pc' = [pc EXCEPT ![r] = "valid"]
        /\ purpose' = [purpose EXCEPT ![r] = "call"]
        /\ UNCHANGED result
    BY <1>10 DEF TokenIsThere, Goto
  <2>3. CallsTypeOK'
    BY <1>1, <1>7, <2>1 DEF CallsTypeOK, CallSteps
  <2>4. RequestsOwn'
    BY <1>1, <2>1 DEF CallsTypeOK, KiwoomTypeOK, RequestsOwn, Selecting
  <2>5. HeadersOwn'
    BY <1>1, <1>6, <2>1 DEF CallsTypeOK, HeadersOwn, RequestsOwn
  <2>6. SentOnce'
    BY <1>1, <1>2, <2>1 DEF CallsTypeOK, SentOnce
  <2> QED
    BY <1>4, <1>5, <2>3, <2>4, <2>5, <2>6
<1> QED
  BY <1>1, <1>8, <1>9, <1>10 DEF CallsTypeOK

\* Installing and adopting a token of the manager, or of the awaited issuance.
LEMMA AdoptKeeps ==
  ASSUME IInv, NEW r \in Requests, NEW next \in {"header", "wait"}, UNCHANGED tossVars,
         next = "header" <=> broker = "kiwoom",
         \/ Install(r, next) /\ UNCHANGED kiwoomVars
         \/ Adopt(r, next) /\ UNCHANGED kiwoomVars
         \/ next = "header" /\ KiwoomAdoptIssued(r)
  PROVE  IInv'
<1> USE TokenIssueAssumption
<1>1. IssueInv /\ CallsTypeOK /\ KiwoomTypeOK /\ RequestsOwn /\ StartersOwn
  BY DEF IInv, Types, OwnInv
<1>2. /\ UNCHANGED issueVars
      /\ UNCHANGED <<broker, cred, client, key, sent, starter, handed>>
  BY DEF Install, Adopt, KiwoomAdoptIssued, kiwoomVars
<1>3. IssueInv' /\ StartersOwn' /\ UNCHANGED fkey
  BY <1>1, <1>2, StutterKeeps DEF StartersOwn, issueVars
<1>4. ASSUME NEW t \in Flights, fkey[t] = key[r], setToken(client[r], t), TokenIsThere(r, next),
             pc[r] \in {"install", "adopt", "await"},
             tok' = tok \/ tok' = [tok EXCEPT ![r] = None],
             fl' = fl \/ fl' = [fl EXCEPT ![r] = None]
      PROVE  IInv'
  <2>1. local' = [local EXCEPT ![client[r]] = t]
    BY <1>4 DEF setToken
  <2>2. /\ CallsTypeOK' /\ KiwoomTypeOK' /\ TossTypeOK'
        /\ ClientsOwn' /\ RequestsOwn' /\ HeadersOwn' /\ SentOnce'
    BY <1>2, <1>3, <1>4, <2>1, GotToken
  <2> QED
    BY <1>3, <2>2 DEF IInv, Types, OwnInv
<1>5. ASSUME pc[r] \in {"install", "adopt"} PROVE tok[r] \in Flights /\ fkey[tok[r]] = key[r]
  BY <1>1, <1>5 DEF RequestsOwn, CallsTypeOK
<1>6. CASE Install(r, next) /\ UNCHANGED kiwoomVars
  BY <1>4, <1>5, <1>6 DEF Install, kiwoomVars
<1>7. CASE Adopt(r, next) /\ UNCHANGED kiwoomVars
  BY <1>4, <1>5, <1>7 DEF Adopt, kiwoomVars
<1>8. CASE next = "header" /\ KiwoomAdoptIssued(r)
  <2>1. pc[r] = "await" /\ fl[r] \in Flights /\ fkey[fl[r]] = key[r]
    BY <1>1, <1>8 DEF KiwoomAdoptIssued, RequestsOwn, KiwoomTypeOK
  <2>2. CASE outcome[fl[r]] # None
    <3>1. outcome[fl[r]] \in Flights /\ fkey[outcome[fl[r]]] = key[r]
      BY <1>1, <2>1, <2>2 DEF IssueInv, TokenIssueTypeOK, FlightsKeyed
    <3> QED
      BY <1>4, <1>8, <2>1, <2>2, <3>1 DEF KiwoomAdoptIssued
  <2>3. CASE outcome[fl[r]] = None
    <3>1. /\ pc' = [pc EXCEPT ![r] = "end"]
          /\ result' = [result EXCEPT ![r] = "failed"]
          /\ fl' = [fl EXCEPT ![r] = None]
          /\ UNCHANGED <<local, purpose, tok, mutation, attempts, executed, retried>>
      BY <1>8, <2>3 DEF KiwoomAdoptIssued, End, Goto, tossVars
    <3>2. CallsTypeOK' /\ KiwoomTypeOK' /\ TossTypeOK'
      BY <1>2, <3>1 DEF IInv, Types, CallsTypeOK, KiwoomTypeOK, TossTypeOK, CallSteps, Results
    <3>3. ClientsOwn' /\ HeadersOwn'
      BY <1>2, <1>3, <3>1 DEF IInv, Types, OwnInv, CallsTypeOK, ClientsOwn, HeadersOwn
    <3>5. RequestsOwn'
      BY <1>1, <1>2, <1>3, <2>1, <3>1 DEF CallsTypeOK, KiwoomTypeOK, RequestsOwn, Selecting
    <3>4. SentOnce'
      BY <1>2, <2>1, <3>1 DEF IInv, Types, CallsTypeOK, SentOnce
    <3> QED
      BY <1>3, <3>2, <3>3, <3>4, <3>5 DEF IInv, Types, OwnInv
  <2> QED
    BY <2>2, <2>3
<1> QED
  BY <1>6, <1>7, <1>8
\* SetCredentials.
LEMMA SelectKeeps ==
  ASSUME IInv, NEW r \in Requests, Select(r), UNCHANGED <<kiwoomVars, tossVars>>
  PROVE  IInv'
<1> USE TokenIssueAssumption, ClientCallsAssumption
<1>1. /\ IssueInv /\ CallsTypeOK /\ KiwoomTypeOK /\ TossTypeOK
      /\ ClientsOwn /\ RequestsOwn /\ HeadersOwn /\ StartersOwn /\ SentOnce
  BY DEF IInv, Types, OwnInv
<1>2. /\ pc[r] = "select"
      /\ cred' = [cred EXCEPT ![client[r]] = key[r]]
      /\ pc' = [pc EXCEPT ![r] = "auth"]
      /\ UNCHANGED <<broker, local, client, key, tok, purpose, sent, result>>
      /\ UNCHANGED <<fl, starter, handed, mutation, attempts, executed, retried>>
  BY DEF Select, Goto, kiwoomVars, tossVars
<1>3. IssueInv' /\ UNCHANGED <<fkey, step>>
  BY <1>1, StutterKeeps DEF Select, issueVars
<1>4. client[r] \in Clients /\ key[r] \in AuthKeys[client[r]] /\ key[r] # None /\ key[r] \in Keys
  BY <1>1, <1>2 DEF RequestsOwn, Selecting
<1>5. CallsTypeOK' /\ KiwoomTypeOK' /\ TossTypeOK'
  BY <1>1, <1>2, <1>4 DEF CallsTypeOK, KiwoomTypeOK, TossTypeOK, CallSteps
<1>6. \A c \in Clients : cred[c] # None => cred'[c] # None
  BY <1>1, <1>2, <1>4 DEF CallsTypeOK
<1>7. ClientsOwn'
  BY <1>1, <1>2, <1>3, <1>4 DEF ClientsOwn, CallsTypeOK
<1>8. RequestsOwn'
  BY <1>1, <1>2, <1>3, <1>4, <1>6 DEF RequestsOwn, CallsTypeOK, Selecting
<1>9. HeadersOwn'
  BY <1>1, <1>2, <1>3, <1>6 DEF HeadersOwn, RequestsOwn, CallsTypeOK
<1>10. StartersOwn'
  BY <1>1, <1>2, <1>3, <1>6 DEF StartersOwn
<1>11. SentOnce'
  BY <1>1, <1>2 DEF SentOnce, CallsTypeOK
<1> QED
  BY <1>3, <1>5, <1>7, <1>8, <1>9, <1>10, <1>11 DEF IInv, Types, OwnInv

\* The header, and what becomes of a Toss call once it is sent.
LEMMA SendKeeps ==
  ASSUME IInv, NEW r \in Requests, UNCHANGED kiwoomVars,
         \/ broker = "kiwoom" /\ KiwoomSend(r) /\ UNCHANGED tossVars
         \/ broker = "toss" /\ (TossSend(r) \/ TossExecuted(r) \/ TossUnauthorized(r))
         \/ broker = "toss" /\ \E c \in Clients, m \in BOOLEAN : TossStart(r, c, m)
  PROVE  IInv'
<1> USE TokenIssueAssumption, ClientCallsAssumption
<1>i. /\ IssueInv /\ CallsTypeOK /\ KiwoomTypeOK /\ TossTypeOK
      /\ ClientsOwn /\ RequestsOwn /\ HeadersOwn /\ StartersOwn /\ SentOnce
  BY DEF IInv, Types, OwnInv
<1>1. UNCHANGED <<issueVars, clientVars>>
  BY DEF KiwoomSend, TossSend, SendHeader, TossExecuted, TossUnauthorized, TossStart
<1>2. IssueInv' /\ ClientsOwn' /\ StartersOwn' /\ UNCHANGED <<fkey, cred, local, broker>>
  BY <1>1, ClientsAside DEF kiwoomVars
<1>3. KiwoomTypeOK' /\ UNCHANGED <<fl, starter, handed>>
  BY <1>i DEF kiwoomVars, KiwoomTypeOK
<1>s. SUFFICES CallsTypeOK' /\ TossTypeOK' /\ RequestsOwn' /\ HeadersOwn' /\ SentOnce'
  BY <1>2, <1>3 DEF IInv, Types, OwnInv
<1>h. ASSUME SendHeader(r) PROVE CallsTypeOK' /\ RequestsOwn' /\ HeadersOwn'
  <2>1. /\ pc[r] = "header"
        /\ sent' = [sent EXCEPT ![r] = local[client[r]]]
        /\ pc' = [pc EXCEPT ![r] = "reply"]
        /\ UNCHANGED <<client, key, tok, purpose, result>>
    BY <1>h DEF SendHeader, Goto
  <2>2. client[r] \in Clients
    BY <1>i, <2>1 DEF RequestsOwn
  <2>3. /\ local[client[r]] \in Flights \cup {None}
        /\ broker = "kiwoom" => local[client[r]] # None
        /\ broker \in {"kiwoom", "toss"}
    BY <1>i, <2>1, <2>2 DEF CallsTypeOK, HeadersOwn
  <2>4. CallsTypeOK'
    BY <1>i, <1>2, <2>1, <2>3 DEF CallsTypeOK, CallSteps
  <2>5. RequestsOwn'
    BY <1>i, <1>2, <1>3, <2>1 DEF CallsTypeOK, RequestsOwn, Selecting
  <2>6. HeadersOwn'
    BY <1>i, <1>2, <2>1, <2>2, <2>3 DEF CallsTypeOK, HeadersOwn, ClientsOwn
  <2> QED
    BY <2>4, <2>5, <2>6
<1>4. CASE broker = "kiwoom" /\ KiwoomSend(r) /\ UNCHANGED tossVars
  <2>1. SendHeader(r) /\ UNCHANGED <<mutation, attempts, executed, retried>>
    BY <1>4 DEF KiwoomSend, tossVars
  <2>2. SentOnce' /\ TossTypeOK'
    BY <1>i, <1>2, <1>4, <2>1 DEF SendHeader, Goto, CallsTypeOK, TossTypeOK, SentOnce
  <2> QED
    BY <1>h, <2>1, <2>2
<1>5. CASE broker = "toss" /\ TossSend(r)
  <2>1. /\ SendHeader(r)
        /\ attempts' = [attempts EXCEPT ![r] = @ + 1]
        /\ UNCHANGED <<mutation, executed, retried>>
    BY <1>5 DEF TossSend
  <2>2. pc[r] = "header" /\ pc' = [pc EXCEPT ![r] = "reply"] /\ UNCHANGED <<purpose, result>>
    BY <2>1 DEF SendHeader, Goto
  <2>3. attempts[r] = IF retried[r] THEN 1 ELSE 0
    BY <1>5, <1>i, <2>2 DEF SentOnce
  <2>4. TossTypeOK'
    BY <1>i, <2>1, <2>3 DEF TossTypeOK
  <2>5. SentOnce'
    BY <1>i, <1>2, <2>1, <2>2, <2>3 DEF SentOnce, CallsTypeOK, TossTypeOK
  <2> QED
    BY <1>h, <2>1, <2>4, <2>5
<1>6. CASE broker = "toss" /\ TossExecuted(r)
  <2>1. /\ pc[r] = "reply"
        /\ executed' = [executed EXCEPT ![r] = @ + 1]
        /\ pc' = [pc EXCEPT ![r] = "end"]
        /\ \E how \in {"ok", "failed"} : result' = [result EXCEPT ![r] = how]
        /\ UNCHANGED <<client, key, tok, purpose, sent, mutation, attempts, retried>>
    BY <1>6 DEF TossExecuted, End, Goto
  <2>2. executed[r] = 0
    BY <1>i, <2>1 DEF SentOnce
  <2>3. CallsTypeOK' /\ TossTypeOK'
    BY <1>i, <1>2, <2>1, <2>2 DEF CallsTypeOK, TossTypeOK, CallSteps, Results
  <2>4. RequestsOwn' /\ HeadersOwn'
    BY <1>i, <1>2, <1>3, <2>1 DEF CallsTypeOK, RequestsOwn, HeadersOwn, Selecting
  <2>5. SentOnce'
    BY <1>i, <1>2, <2>1, <2>2 DEF CallsTypeOK, TossTypeOK, SentOnce
  <2> QED
    BY <2>3, <2>4, <2>5
<1>7. CASE broker = "toss" /\ TossUnauthorized(r)
  <2>1. pc[r] = "reply" /\ UNCHANGED <<client, tok, sent, mutation, attempts, executed>>
    BY <1>7 DEF TossUnauthorized
  <2>2. client[r] \in Clients
    BY <1>i, <2>1 DEF RequestsOwn
  <2>3. CASE MayBeRetried(r)
    <3>1. /\ ~ retried[r] /\ ~ mutation[r]
          /\ retried' = [retried EXCEPT ![r] = TRUE]
          /\ purpose' = [purpose EXCEPT ![r] = "retry"]
          /\ key' = [key EXCEPT ![r] = cred[client[r]]]
          /\ pc' = [pc EXCEPT ![r] = "clear"]
          /\ UNCHANGED result
      BY <1>7, <2>3 DEF TossUnauthorized, MayBeRetried, Goto
    <3>2. /\ cred[client[r]] \in Keys \cup {None}
          /\ cred[client[r]] # None => cred[client[r]] \in AuthKeys[client[r]]
      BY <1>i, <2>2 DEF ClientsOwn, CallsTypeOK
    <3>3. CallsTypeOK' /\ TossTypeOK'
      BY <1>i, <1>2, <2>1, <3>1, <3>2 DEF CallsTypeOK, TossTypeOK, CallSteps
    <3>4. RequestsOwn'
      BY <1>i, <1>2, <1>3, <2>1, <3>1, <3>2 DEF CallsTypeOK, RequestsOwn, Selecting
    <3>5. HeadersOwn'
      BY <1>i, <1>2, <2>1, <3>1 DEF CallsTypeOK, HeadersOwn
    <3>6. SentOnce'
      BY <1>i, <1>2, <2>1, <3>1 DEF CallsTypeOK, TossTypeOK, SentOnce
    <3> QED
      BY <3>3, <3>4, <3>5, <3>6
  <2>4. CASE ~ MayBeRetried(r)
    <3>1. /\ pc' = [pc EXCEPT ![r] = "end"]
          /\ result' = [result EXCEPT ![r] = "refused"]
          /\ UNCHANGED <<retried, purpose, key>>
      BY <1>7, <2>4 DEF TossUnauthorized, End, Goto
    <3>2. CallsTypeOK' /\ TossTypeOK'
      BY <1>i, <1>2, <2>1, <3>1 DEF CallsTypeOK, TossTypeOK, CallSteps, Results
    <3>3. RequestsOwn' /\ HeadersOwn'
      BY <1>i, <1>2, <1>3, <2>1, <3>1 DEF CallsTypeOK, RequestsOwn, HeadersOwn, Selecting
    <3>4. SentOnce'
      BY <1>i, <1>2, <2>1, <3>1 DEF CallsTypeOK, TossTypeOK, SentOnce
    <3> QED
      BY <3>2, <3>3, <3>4
  <2> QED
    BY <2>3, <2>4
<1>8. ASSUME NEW c \in Clients, NEW m \in BOOLEAN, TossStart(r, c, m), broker = "toss"
      PROVE  CallsTypeOK' /\ TossTypeOK' /\ RequestsOwn' /\ HeadersOwn' /\ SentOnce'
  <2>1. /\ pc[r] = "idle"
        /\ client' = [client EXCEPT ![r] = c]
        /\ mutation' = [mutation EXCEPT ![r] = m]
        /\ pc' = [pc EXCEPT ![r] = "valid"]
        /\ UNCHANGED <<key, tok, purpose, sent, result, attempts, executed, retried>>
    BY <1>8 DEF TossStart, Goto
  <2>2. CallsTypeOK' /\ TossTypeOK'
    BY <1>i, <1>2, <2>1 DEF CallsTypeOK, TossTypeOK, CallSteps
  <2>3. RequestsOwn' /\ HeadersOwn'
    BY <1>i, <1>2, <1>3, <2>1 DEF CallsTypeOK, RequestsOwn, HeadersOwn, Selecting
  <2>4. SentOnce'
    BY <1>i, <1>2, <1>8, <2>1 DEF CallsTypeOK, TossTypeOK, SentOnce
  <2> QED
    BY <2>2, <2>3, <2>4
<1> QED
  BY <1>4, <1>5, <1>6, <1>7, <1>8
-----------------------------------------------------------------------------
(* Steps of the issuance.                                                  *)

\* The calls and the clients keep what they have while the issuance goes on.
LEMMA IssuanceKeeps ==
  ASSUME IInv, KeysKept, UNCHANGED <<callVars, kiwoomVars, tossVars>>
  PROVE  Types' /\ ClientsOwn' /\ RequestsOwn' /\ HeadersOwn' /\ SentOnce'
<1> USE TokenIssueAssumption, ClientCallsAssumption
<1>1. /\ CallsTypeOK /\ KiwoomTypeOK /\ TossTypeOK
      /\ ClientsOwn /\ RequestsOwn /\ HeadersOwn /\ SentOnce
  BY DEF IInv, Types, OwnInv
<1>2. /\ UNCHANGED <<broker, cred, local, pc, client, key, tok, purpose, sent, result>>
      /\ UNCHANGED <<fl, starter, handed, mutation, attempts, executed, retried>>
  BY DEF callVars, clientVars, requestVars, kiwoomVars, tossVars
<1>3. Types' /\ SentOnce'
  BY <1>1, <1>2 DEF Types, CallsTypeOK, KiwoomTypeOK, TossTypeOK, SentOnce
<1>4. ClientsOwn'
  BY <1>1, <1>2 DEF ClientsOwn, CallsTypeOK, KeysKept
<1>5. RequestsOwn'
  <2>1. \A r \in Requests :
          /\ pc[r] \in {"install", "adopt", "keep", "store"} => fkey'[tok[r]] = fkey[tok[r]]
          /\ pc[r] = "await" => fkey'[fl[r]] = fkey[fl[r]]
    BY <1>1 DEF CallsTypeOK, KiwoomTypeOK, RequestsOwn, Selecting, KeysKept
  <2> QED
    BY <1>1, <1>2, <2>1 DEF RequestsOwn
<1>6. HeadersOwn'
  <2>1. \A r \in Requests : sent[r] # None /\ fkey[sent[r]] # None => fkey'[sent[r]] = fkey[sent[r]]
    BY <1>1 DEF CallsTypeOK, KeysKept
  <2> QED
    BY <1>1, <1>2, <2>1 DEF HeadersOwn
<1> QED
  BY <1>3, <1>4, <1>5, <1>6

\* issueToken runs for a Kiwoom client, or time passes.
LEMMA IssueStepKeeps ==
  ASSUME IInv, UNCHANGED <<callVars, kiwoomVars, tossVars>>,
         \/ \E f \in Flights : Issue(f)
         \/ \E k \in Keys : Refill(k)
         \/ \E t \in Flights : GrowOld(t) \/ Revoke(t)
  PROVE  IInv'
<1> USE TokenIssueAssumption
<1>1. IssueInv /\ StartersOwn
  BY DEF IInv, OwnInv
<1>2. UNCHANGED <<broker, cred, starter>>
  BY DEF callVars, clientVars, kiwoomVars
<1>3. CASE \/ \E k \in Keys : Refill(k)
           \/ \E t \in Flights : GrowOld(t) \/ Revoke(t)
  <2>1. IssueInv' /\ UNCHANGED <<fkey, step>>
    BY <1>1, <1>3, EnvironmentKeeps
  <2>2. StartersOwn' /\ KeysKept
    BY <1>1, <1>2, <2>1 DEF StartersOwn, KeysKept
  <2> QED
    BY <2>1, <2>2, IssuanceKeeps DEF IInv, OwnInv
<1>4. ASSUME NEW f \in Flights, Issue(f) PROVE IInv'
  <2>1. IssueInv' /\ UNCHANGED fkey
    BY <1>1, <1>4, IssueKeeps
  <2>2. step[f] \notin {"unused", "done"} /\ \A g \in Flights \ {f} : step'[g] = step[g]
    BY <1>1, <1>4 DEF Issue, Enter, LookUpOr, WaitForAuth, Recheck, PostGranted, PostFailed, Store,
                     Settle, IssueInv, TokenIssueTypeOK
  <2>3. StartersOwn' /\ KeysKept
    BY <1>1, <1>2, <2>1, <2>2 DEF StartersOwn, KeysKept
  <2> QED
    BY <2>1, <2>3, IssuanceKeeps DEF IInv, OwnInv
<1> QED
  BY <1>3, <1>4

\* A Kiwoom request joins or starts an issuance.
LEMMA KiwoomJoinKeeps ==
  ASSUME IInv, NEW r \in Requests, NEW f \in Flights, KiwoomJoin(r, f), UNCHANGED tossVars,
         broker = "kiwoom"
  PROVE  IInv'
<1> USE TokenIssueAssumption, ClientCallsAssumption
<1>i. /\ IssueInv /\ CallsTypeOK /\ KiwoomTypeOK /\ TossTypeOK
      /\ ClientsOwn /\ RequestsOwn /\ HeadersOwn /\ StartersOwn /\ SentOnce
  BY DEF IInv, Types, OwnInv
<1>1. /\ pc[r] = "join" /\ DoChan(key[r], f)
      /\ fl' = [fl EXCEPT ![r] = f]
      /\ starter' = IF step[f] = "unused" THEN [starter EXCEPT ![f] = client[r]] ELSE starter
      /\ pc' = [pc EXCEPT ![r] = "await"]
      /\ UNCHANGED <<broker, cred, local, client, key, tok, purpose, sent, result, handed>>
      /\ UNCHANGED <<mutation, attempts, executed, retried>>
  BY DEF KiwoomJoin, Goto, clientVars, tossVars
<1>2. /\ client[r] \in Clients /\ key[r] \in Keys /\ key[r] \in AuthKeys[client[r]]
      /\ cred[client[r]] # None /\ key[r] # None
  BY <1>i, <1>1 DEF RequestsOwn, CallsTypeOK, Selecting
<1>3. IssueInv' /\ KeysKept /\ fkey'[f] = key[r]
  BY <1>i, <1>1, <1>2, DoChanKeeps
<1>4. CallsTypeOK' /\ KiwoomTypeOK' /\ TossTypeOK' /\ SentOnce'
  BY <1>i, <1>1, <1>2 DEF CallsTypeOK, KiwoomTypeOK, TossTypeOK, SentOnce, CallSteps
<1>5. ClientsOwn'
  BY <1>i, <1>1, <1>3 DEF ClientsOwn, CallsTypeOK, KeysKept
<1>6. RequestsOwn'
  <2>1. \A q \in Requests :
          /\ pc[q] \in {"install", "adopt", "keep", "store"} => fkey'[tok[q]] = fkey[tok[q]]
          /\ pc[q] = "await" => fkey'[fl[q]] = fkey[fl[q]]
    BY <1>i, <1>3 DEF CallsTypeOK, KiwoomTypeOK, RequestsOwn, Selecting, KeysKept
  <2> QED
    BY <1>i, <1>1, <1>2, <1>3, <2>1 DEF RequestsOwn, CallsTypeOK, KiwoomTypeOK, Selecting
<1>7. HeadersOwn'
  <2>1. \A q \in Requests : sent[q] # None /\ fkey[sent[q]] # None => fkey'[sent[q]] = fkey[sent[q]]
    BY <1>i, <1>3 DEF CallsTypeOK, KeysKept
  <2> QED
    BY <1>i, <1>1, <2>1 DEF HeadersOwn, CallsTypeOK
<1>8. StartersOwn'
  <2>1. CASE step[f] = "unused"
    <3>1. step' = [step EXCEPT ![f] = "enter"] /\ fkey' = [fkey EXCEPT ![f] = key[r]]
      BY <1>i, <1>1, <1>2, <2>1 DEF DoChan, IssueInv, FlightsKeyed
    <3> QED
      BY <1>i, <1>1, <1>2, <2>1, <3>1 DEF StartersOwn, IssueInv, TokenIssueTypeOK, KiwoomTypeOK
  <2>2. CASE step[f] # "unused"
    <3>1. UNCHANGED <<step, fkey, starter>>
      BY <1>1, <2>2 DEF DoChan, issueVars
    <3> QED
      BY <1>i, <1>1, <3>1 DEF StartersOwn
  <2> QED
    BY <2>1, <2>2
<1> QED
  BY <1>3, <1>4, <1>5, <1>6, <1>7, <1>8 DEF IInv, Types, OwnInv

\* The flight sets its token on the client that started it.
LEMMA HandOverKeeps ==
  ASSUME IInv, NEW f \in Flights, HandOver(f), UNCHANGED tossVars
  PROVE  IInv'
<1> USE TokenIssueAssumption, ClientCallsAssumption
<1>i. /\ IssueInv /\ CallsTypeOK /\ KiwoomTypeOK /\ TossTypeOK
      /\ ClientsOwn /\ RequestsOwn /\ HeadersOwn /\ StartersOwn /\ SentOnce
  BY DEF IInv, Types, OwnInv
<1>1. /\ step[f] = "store"
      /\ local' = [local EXCEPT ![starter[f]] = f]
      /\ handed' = handed \cup {f}
      /\ UNCHANGED <<broker, cred, pc, client, key, tok, purpose, sent, result, fl, starter>>
      /\ UNCHANGED <<mutation, attempts, executed, retried>>
  BY DEF HandOver, setToken, requestVars, tossVars
<1>2. IssueInv' /\ UNCHANGED <<fkey, step>>
  BY <1>i, StutterKeeps DEF HandOver, issueVars
<1>3. /\ starter[f] \in Clients /\ cred[starter[f]] # None /\ fkey[f] \in AuthKeys[starter[f]]
      /\ fkey[f] # None
  BY <1>i, <1>1 DEF StartersOwn, IssueInv, FlightsKeyed
<1>4. CallsTypeOK' /\ KiwoomTypeOK' /\ TossTypeOK' /\ SentOnce'
  BY <1>i, <1>1, <1>3 DEF CallsTypeOK, KiwoomTypeOK, TossTypeOK, SentOnce
<1>5. ClientsOwn'
  BY <1>i, <1>1, <1>2, <1>3 DEF ClientsOwn, CallsTypeOK
<1>6. RequestsOwn' /\ StartersOwn'
  BY <1>i, <1>1, <1>2 DEF RequestsOwn, StartersOwn
<1>7. HeadersOwn'
  <2>1. \A c \in Clients : local[c] # None => local'[c] # None
    BY <1>i, <1>1, <1>3 DEF CallsTypeOK
  <2> QED
    BY <1>i, <1>1, <1>2, <2>1 DEF HeadersOwn, RequestsOwn
<1> QED
  BY <1>2, <1>4, <1>5, <1>6, <1>7 DEF IInv, Types, OwnInv

\* A Toss request issues a token by itself.
LEMMA TossIssueKeeps ==
  ASSUME IInv, NEW r \in Requests, UNCHANGED kiwoomVars, broker = "toss",
         \/ TossWaitForAuth(r) \/ TossPost(r) \/ TossKeep(r) \/ TossStore(r)
         \/ TossClear(r) \/ TossDelete(r)
  PROVE  IInv'
<1> USE TokenIssueAssumption, ClientCallsAssumption
<1>i. /\ IssueInv /\ CallsTypeOK /\ KiwoomTypeOK /\ TossTypeOK
      /\ ClientsOwn /\ RequestsOwn /\ HeadersOwn /\ StartersOwn /\ SentOnce
  BY DEF IInv, Types, OwnInv
<1>1. /\ UNCHANGED <<broker, cred, client, key, sent, fl, starter, handed>>
      /\ UNCHANGED <<mutation, attempts, executed, retried, tossVars>>
  BY DEF TossWaitForAuth, TossPost, TossKeep, TossStore, TossClear, TossDelete, kiwoomVars,
         tossVars, clientVars
<1>2. \A f \in Flights : step[f] \in {"unused", "done"}
  BY <1>i DEF StartersOwn
<1>3. KiwoomTypeOK' /\ TossTypeOK'
  BY <1>i, <1>1 DEF KiwoomTypeOK, TossTypeOK
<1>4. CASE TossWaitForAuth(r)
  <2>1. /\ permit' = permit \ {key[r]} /\ pc[r] = "permit"
        /\ pc' = [pc EXCEPT ![r] = "quota"]
        /\ UNCHANGED <<group, step, fkey, outcome, cache, age, revoked, local, tok, purpose, result>>
    BY <1>4 DEF TossWaitForAuth, Goto, clientVars
  <2>2. IssueInv'
    BY <1>i, <2>1 DEF IssueInv, TokenIssueTypeOK, FlightsKeyed
  <2>3. CallsTypeOK' /\ SentOnce'
    BY <1>i, <1>1, <2>1 DEF CallsTypeOK, SentOnce, CallSteps
  <2>4. ClientsOwn' /\ StartersOwn'
    BY <1>i, <1>1, <2>1 DEF ClientsOwn, StartersOwn
  <2>5. RequestsOwn' /\ HeadersOwn'
    BY <1>i, <1>1, <2>1 DEF RequestsOwn, HeadersOwn, CallsTypeOK, Selecting
  <2> QED
    BY <1>3, <2>2, <2>3, <2>4, <2>5 DEF IInv, Types, OwnInv
<1>5. CASE TossPost(r) /\ pc' = [pc EXCEPT ![r] = "keep"]
  <2>1. PICK f \in Flights :
          /\ step[f] = "unused"
          /\ step' = [step EXCEPT ![f] = "done"]
          /\ fkey' = [fkey EXCEPT ![f] = key[r]]
          /\ \E a \in GrantedAges : age' = [age EXCEPT ![f] = a]
          /\ tok' = [tok EXCEPT ![r] = f]
          /\ UNCHANGED result
    BY <1>5, <1>i DEF TossPost, End, Goto, CallsTypeOK
  <2>2. pc[r] = "post" /\ UNCHANGED <<group, outcome, cache, revoked, permit, local, purpose>>
    BY <1>5 DEF TossPost, clientVars
  <2>3. key[r] \in Keys /\ fkey[f] = None /\ key[r] # None
    BY <1>i, <2>1, <2>2 DEF RequestsOwn, CallsTypeOK, Selecting, IssueInv, FlightsKeyed
  <2>4. IssueInv'
    <3>1. TokenIssueTypeOK'
      BY <1>i, <2>1, <2>2, <2>3 DEF IssueInv, TokenIssueTypeOK, Steps
    <3>2. FlightsKeyed'
      BY <1>i, <2>1, <2>2, <2>3 DEF IssueInv, TokenIssueTypeOK, FlightsKeyed
    <3> QED
      BY <3>1, <3>2 DEF IssueInv
  <2>5. KeysKept /\ fkey'[f] = key[r]
    BY <1>i, <2>1, <2>3 DEF KeysKept, IssueInv, TokenIssueTypeOK
  <2>6. CallsTypeOK' /\ SentOnce'
    BY <1>i, <1>1, <1>5, <2>1, <2>2 DEF CallsTypeOK, SentOnce, CallSteps
  <2>7. ClientsOwn'
    BY <1>i, <1>1, <2>2, <2>5 DEF ClientsOwn, CallsTypeOK, KeysKept
  <2>8. StartersOwn'
    BY <1>i, <1>2, <2>1 DEF StartersOwn, IssueInv, TokenIssueTypeOK
  <2>9. RequestsOwn'
    <3>1. \A q \in Requests :
            /\ pc[q] \in {"install", "adopt", "keep", "store"} => fkey'[tok[q]] = fkey[tok[q]]
            /\ pc[q] = "await" => fkey'[fl[q]] = fkey[fl[q]]
      BY <1>i, <2>5 DEF CallsTypeOK, KiwoomTypeOK, RequestsOwn, Selecting, KeysKept
    <3> QED
      BY <1>i, <1>1, <1>5, <2>1, <2>2, <2>3, <2>5, <3>1 DEF RequestsOwn, CallsTypeOK, Selecting
  <2>10. HeadersOwn'
    <3>1. \A q \in Requests : sent[q] # None /\ fkey[sent[q]] # None => fkey'[sent[q]] = fkey[sent[q]]
      BY <1>i, <2>5 DEF CallsTypeOK, KeysKept
    <3> QED
      BY <1>i, <1>1, <1>5, <2>2, <3>1 DEF HeadersOwn, CallsTypeOK
  <2> QED
    BY <1>3, <2>4, <2>6, <2>7, <2>8, <2>9, <2>10 DEF IInv, Types, OwnInv
<1>6. CASE TossPost(r) /\ pc' # [pc EXCEPT ![r] = "keep"]
  <2>1. /\ pc' = [pc EXCEPT ![r] = "end"] /\ pc[r] = "post"
        /\ result' = [result EXCEPT ![r] = "failed"]
        /\ UNCHANGED <<group, step, fkey, age, outcome, cache, revoked, permit, local, purpose, tok>>
    BY <1>6 DEF TossPost, End, Goto, clientVars
  <2>2. IssueInv'
    BY <1>i, <2>1, StutterKeeps DEF issueVars
  <2>3. CallsTypeOK' /\ SentOnce'
    BY <1>i, <1>1, <2>1 DEF CallsTypeOK, SentOnce, CallSteps, Results
  <2>4. ClientsOwn' /\ StartersOwn'
    BY <1>i, <1>1, <2>1 DEF ClientsOwn, StartersOwn
  <2>5. RequestsOwn' /\ HeadersOwn'
    BY <1>i, <1>1, <2>1 DEF RequestsOwn, HeadersOwn, CallsTypeOK, Selecting
  <2> QED
    BY <1>3, <2>2, <2>3, <2>4, <2>5 DEF IInv, Types, OwnInv
<1>7. ASSUME NEW t \in Flights \cup {None}, NEW next \in {"store", "delete"},
             local' = [local EXCEPT ![client[r]] = t], UNCHANGED issueVars,
             t # None => fkey[t] = key[r] /\ key[r] # None /\ cred[client[r]] # None,
             pc[r] = IF next = "store" THEN "keep" ELSE "clear", pc' = [pc EXCEPT ![r] = next],
             UNCHANGED <<tok, purpose, result>>
      PROVE  IInv'
  <2>1. IssueInv' /\ UNCHANGED <<fkey, step>>
    BY <1>i, <1>7, StutterKeeps DEF issueVars
  <2>2. /\ client[r] \in Clients
        /\ key[r] # None => key[r] \in AuthKeys[client[r]]
        /\ t # None => fkey[t] # None
    BY <1>i, <1>7 DEF RequestsOwn, CallsTypeOK, Selecting
  <2>3. CallsTypeOK' /\ SentOnce'
    BY <1>i, <1>1, <1>7 DEF CallsTypeOK, SentOnce, CallSteps
  <2>4. ClientsOwn'
    BY <1>i, <1>1, <1>7, <2>1, <2>2 DEF ClientsOwn, CallsTypeOK
  <2>5. RequestsOwn'
    BY <1>i, <1>1, <1>7, <2>1 DEF RequestsOwn, CallsTypeOK, Selecting
  <2>6. HeadersOwn' /\ StartersOwn'
    BY <1>i, <1>1, <1>7, <2>1 DEF HeadersOwn, StartersOwn, CallsTypeOK
  <2> QED
    BY <1>3, <2>1, <2>3, <2>4, <2>5, <2>6 DEF IInv, Types, OwnInv
<1>8. CASE TossKeep(r)
  <2>1. /\ tok[r] \in Flights /\ fkey[tok[r]] = key[r] /\ key[r] # None
        /\ cred[client[r]] # None
    BY <1>8, <1>i DEF TossKeep, RequestsOwn, CallsTypeOK, Selecting
  <2> QED
    BY <1>7, <1>8, <2>1 DEF TossKeep, setToken, Goto
<1>9. CASE TossClear(r)
  BY <1>7, <1>9 DEF TossClear, setToken, Goto
<1>10. CASE TossStore(r)
  <2>1. /\ pc[r] = "store"
        /\ cache' = [cache EXCEPT ![key[r]] = tok[r]]
        /\ tok' = [tok EXCEPT ![r] = None]
        /\ TokenIsThere(r, "wait")
        /\ UNCHANGED <<group, step, fkey, outcome, age, revoked, permit, local>>
    BY <1>10 DEF TossStore, SetToken, clientVars
  <2>2. tok[r] \in Flights /\ fkey[tok[r]] = key[r] /\ key[r] \in Keys /\ key[r] # None
    BY <1>i, <2>1 DEF RequestsOwn, CallsTypeOK, Selecting
  <2>3. IssueInv'
    BY <1>i, <2>1, <2>2 DEF IssueInv, TokenIssueTypeOK, FlightsKeyed
  <2>4. StartersOwn'
    BY <1>i, <1>1, <2>1 DEF StartersOwn
  <2>5. /\ CallsTypeOK' /\ KiwoomTypeOK' /\ TossTypeOK'
        /\ ClientsOwn' /\ RequestsOwn' /\ HeadersOwn' /\ SentOnce'
    BY <1>1, <2>1, <2>2, GotToken
  <2> QED
    BY <2>3, <2>4, <2>5 DEF IInv, Types, OwnInv
<1>11. CASE TossDelete(r)
  <2>1. /\ pc[r] = "delete"
        /\ IF key[r] = None THEN UNCHANGED cache ELSE DeleteToken(key[r])
        /\ pc' = [pc EXCEPT ![r] = "valid"]
        /\ UNCHANGED <<group, step, fkey, outcome, age, revoked, permit, local, tok, purpose, result>>
    BY <1>11 DEF TossDelete, Goto, clientVars
  <2>2. IssueInv'
    <3>1. CASE key[r] = None
      BY <1>i, <2>1, <3>1, StutterKeeps DEF issueVars
    <3>2. CASE key[r] # None
      BY <1>i, <2>1, <3>2, DeleteTokenKeeps DEF CallsTypeOK
    <3> QED
      BY <3>1, <3>2
  <2>3. CallsTypeOK' /\ SentOnce'
    BY <1>i, <1>1, <2>1 DEF CallsTypeOK, SentOnce, CallSteps
  <2>4. ClientsOwn' /\ StartersOwn'
    BY <1>i, <1>1, <2>1 DEF ClientsOwn, StartersOwn
  <2>5. RequestsOwn' /\ HeadersOwn'
    BY <1>i, <1>1, <2>1 DEF RequestsOwn, HeadersOwn, CallsTypeOK, Selecting
  <2> QED
    BY <1>3, <2>2, <2>3, <2>4, <2>5 DEF IInv, Types, OwnInv
<1> QED
  BY <1>4, <1>5, <1>6, <1>8, <1>9, <1>10, <1>11

-----------------------------------------------------------------------------
(* The whole system.                                                       *)

LEMMA KiwoomKeeps == ASSUME IInv, KiwoomNext, UNCHANGED tossVars PROVE IInv'
<1>k. broker = "kiwoom"
  BY DEF KiwoomNext
<1>1. ASSUME NEW r \in Requests, NEW c \in Clients, KiwoomStart(r, c) PROVE IInv'
  <2>1. UNCHANGED <<issueVars, clientVars, kiwoomVars, tossVars>>
    BY <1>1 DEF KiwoomStart
  <2> QED
    BY <1>k, <1>1, <2>1, RequestKeeps
<1>2. ASSUME NEW r \in Requests, NEW c \in Clients, NEW k \in AuthKeys[c], StartLogin(r, c, k),
             UNCHANGED kiwoomVars
      PROVE  IInv'
  <2>1. UNCHANGED <<issueVars, clientVars>>
    BY <1>2 DEF StartLogin
  <2> QED
    BY <1>2, <2>1, RequestKeeps
<1>3. ASSUME NEW r \in Requests, KiwoomCheck(r) PROVE IInv'
  <2>1. CASE Install(r, "header")
    BY <1>k, <1>3, <2>1, AdoptKeeps DEF KiwoomCheck
  <2>2. CASE ReadKey(r, "wait") \/ LookUp(r) \/ FallBack(r, "header")
    <3>1. UNCHANGED <<issueVars, clientVars, kiwoomVars>>
      BY <1>3, <2>2 DEF KiwoomCheck, ReadKey, LookUp, FallBack
    <3> QED
      BY <1>k, <2>2, <3>1, RequestKeeps
  <2> QED
    BY <1>3, <2>1, <2>2 DEF KiwoomCheck
<1>4. ASSUME NEW r \in Requests, KiwoomAuthenticate(r) PROVE IInv'
  <2>1. CASE Adopt(r, "header")
    BY <1>k, <1>4, <2>1, AdoptKeeps DEF KiwoomAuthenticate
  <2>2. CASE Select(r)
    BY <1>4, <2>2, SelectKeeps DEF KiwoomAuthenticate
  <2>3. CASE Refresh(r) \/ AuthLookUp(r, "join")
    <3>1. UNCHANGED <<issueVars, clientVars, kiwoomVars>>
      BY <1>4, <2>3 DEF KiwoomAuthenticate, Refresh, AuthLookUp
    <3> QED
      BY <2>3, <3>1, RequestKeeps
  <2> QED
    BY <1>4, <2>1, <2>2, <2>3 DEF KiwoomAuthenticate
<1>5. ASSUME NEW r \in Requests, KiwoomAdoptIssued(r) PROVE IInv'
  BY <1>k, <1>5, AdoptKeeps
<1>6. ASSUME NEW r \in Requests, KiwoomSend(r) PROVE IInv'
  BY <1>k, <1>6, SendKeeps DEF KiwoomSend
<1>7. ASSUME NEW r \in Requests, KiwoomAnswered(r) \/ KiwoomGiveUp(r) PROVE IInv'
  <2>1. UNCHANGED <<issueVars, clientVars, kiwoomVars>>
    BY <1>7 DEF KiwoomAnswered, KiwoomGiveUp, GiveUpAt
  <2> QED
    BY <1>k, <1>7, <2>1, RequestKeeps DEF KiwoomGiveUp
<1>8. ASSUME NEW f \in Flights, KiwoomIssue(f) PROVE IInv'
  BY <1>8, HandOverKeeps, IssueStepKeeps DEF KiwoomIssue
<1> QED
  BY <1>k, <1>1, <1>2, <1>3, <1>4, <1>5, <1>6, <1>7, <1>8, KiwoomJoinKeeps
     DEF KiwoomNext, KiwoomAdvance

LEMMA TossKeeps == ASSUME IInv, TossNext, UNCHANGED kiwoomVars PROVE IInv'
<1>t. broker = "toss"
  BY DEF TossNext
<1>1. ASSUME NEW r \in Requests, NEW c \in Clients, NEW m \in BOOLEAN, TossStart(r, c, m)
      PROVE  IInv'
  BY <1>t, <1>1, SendKeeps
<1>2. ASSUME NEW r \in Requests, NEW c \in Clients, NEW k \in AuthKeys[c], StartLogin(r, c, k),
             UNCHANGED tossVars
      PROVE  IInv'
  <2>1. UNCHANGED <<issueVars, clientVars>>
    BY <1>2 DEF StartLogin
  <2> QED
    BY <1>2, <2>1, RequestKeeps
<1>3. ASSUME NEW r \in Requests, TossEnsure(r) PROVE IInv'
  <2>1. CASE Install(r, "wait") \/ Adopt(r, "wait")
    BY <1>t, <1>3, <2>1, AdoptKeeps DEF TossEnsure
  <2>2. CASE Select(r)
    BY <1>3, <2>2, SelectKeeps DEF TossEnsure
  <2>3. CASE \/ ReadKey(r, "valid") \/ LookUp(r) \/ FallBack(r, "wait")
             \/ Refresh(r) \/ AuthLookUp(r, "permit")
    <3>1. UNCHANGED <<issueVars, clientVars, tossVars>>
      BY <1>3, <2>3 DEF TossEnsure, ReadKey, LookUp, FallBack, Refresh, AuthLookUp
    <3> QED
      BY <1>t, <2>3, <3>1, RequestKeeps
  <2> QED
    BY <1>3, <2>1, <2>2, <2>3 DEF TossEnsure
<1>4. ASSUME NEW r \in Requests,
             TossAuthQuota(r) \/ TossWait(r) \/ TossFailed(r) \/ TossGiveUp(r)
      PROVE  IInv'
  <2>1. UNCHANGED <<issueVars, clientVars, tossVars>>
    BY <1>4 DEF TossAuthQuota, TossWait, TossFailed, TossGiveUp, GiveUpAt
  <2> QED
    BY <1>t, <1>4, <2>1, RequestKeeps DEF TossGiveUp
<1>5. ASSUME NEW r \in Requests, TossSend(r) \/ TossExecuted(r) \/ TossUnauthorized(r)
      PROVE  IInv'
  BY <1>t, <1>5, SendKeeps
<1>6. ASSUME NEW r \in Requests,
             \/ TossWaitForAuth(r) \/ TossPost(r) \/ TossKeep(r) \/ TossStore(r)
             \/ TossClear(r) \/ TossDelete(r)
      PROVE  IInv'
  BY <1>t, <1>6, TossIssueKeeps
<1> QED
  BY <1>1, <1>2, <1>3, <1>4, <1>5, <1>6 DEF TossNext, TossAdvance

LEMMA IInvStep == ASSUME IInv, [Next]_vars PROVE IInv'
<1> USE ClientCallsAssumption
<1>1. CASE Clock
  <2>1. \/ \E k \in Keys : Refill(k)
        \/ \E t \in Flights : GrowOld(t) \/ Revoke(t)
    BY <1>1 DEF Clock
  <2> QED
    BY <1>1, <2>1, IssueStepKeeps DEF Clock
<1>2. CASE UNCHANGED vars
  <2>1. IssueInv' /\ KeysKept
    BY <1>2, StutterKeeps DEF IInv, vars, issueVars, KeysKept
  <2>2. UNCHANGED <<callVars, kiwoomVars, tossVars, starter, step, fkey, cred, broker>>
    BY <1>2 DEF vars, issueVars, kiwoomVars, callVars, clientVars
  <2>3. StartersOwn'
    BY <2>2 DEF IInv, OwnInv, StartersOwn
  <2> QED
    BY <2>1, <2>2, <2>3, IssuanceKeeps DEF IInv, OwnInv
<1> QED
  BY <1>1, <1>2, KiwoomKeeps, TossKeeps DEF Next

\* Every variable of both clients and of the issuance keeps its type.
THEOREM BrokerClientsTypeOK == Spec => []TypeOK
<1> QED
  BY IInvInit, IInvStep, IInvImplies, PTL DEF Spec

\* A Toss call that may change an order is sent once, and what it reports is what the
\* broker did, however many requests refresh their token at the same time.
THEOREM TossClientOrderOnce == Spec => []TossOrderOnce
<1> QED
  BY IInvInit, IInvStep, IInvImplies, PTL DEF Spec

\* While every account keeps one app key, no request of either client carries a token that
\* was issued for another.
THEOREM ClientsSendOwnToken == KeepsOneKey => (Spec => []SentTokenIsOwn)
<1>1. SUFFICES ASSUME KeepsOneKey PROVE Spec => []SentTokenIsOwn
  OBVIOUS
<1>2. IInv => SentTokenIsOwn
  BY <1>1, IInvImplies
<1> QED
  BY <1>2, IInvInit, IInvStep, PTL DEF Spec

-----------------------------------------------------------------------------
(* The refinement of SingleIssuer by the Kiwoom clients.                   *)

KiwoomServing == [k \in Keys |-> IF broker = "kiwoom" /\ Serves(k) THEN cache[k] ELSE None]
KiwoomGranted == {f \in Flights : broker = "kiwoom" /\ outcome[f] = f}

KiwoomSoleInv == broker = "kiwoom" => SoleInv

KiwoomIssuerStep == [KiwoomIssuer!Next]_(KiwoomIssuer!issuerVars)

\* For the Kiwoom clients the two instances of the abstract issuer are the same.
LEMMA SameIssuer ==
  ASSUME broker = "kiwoom", broker' = broker, IssuerStep
  PROVE  KiwoomIssuerStep
<1>1. /\ KiwoomServing = Serving /\ KiwoomGranted = Granted
      /\ KiwoomServing' = Serving' /\ KiwoomGranted' = Granted'
  BY DEF KiwoomServing, Serving, KiwoomGranted, Granted
<1>2. CASE UNCHANGED Issuer!issuerVars
  BY <1>1, <1>2 DEF KiwoomIssuerStep, Issuer!issuerVars, KiwoomIssuer!issuerVars, KiwoomServing,
                    Serving, KiwoomGranted, Granted
<1>3. ASSUME NEW k \in Keys, Issuer!Ask(k) PROVE KiwoomIssuer!Ask(k)
  BY <1>1, <1>3 DEF Issuer!Ask, KiwoomIssuer!Ask, KiwoomServing, Serving, KiwoomGranted, Granted
<1>4. ASSUME NEW k \in Keys, Issuer!Fail(k) PROVE KiwoomIssuer!Fail(k)
  BY <1>1, <1>4 DEF Issuer!Fail, KiwoomIssuer!Fail, KiwoomServing, Serving, KiwoomGranted, Granted
<1>5. ASSUME NEW k \in Keys, Issuer!Withdraw(k) PROVE KiwoomIssuer!Withdraw(k)
  BY <1>1, <1>5 DEF Issuer!Withdraw, KiwoomIssuer!Withdraw, KiwoomServing, Serving,
                    KiwoomGranted, Granted
<1>6. ASSUME NEW k \in Keys, NEW t \in Flights, Issuer!Grant(k, t) PROVE KiwoomIssuer!Grant(k, t)
  BY <1>1, <1>6 DEF Issuer!Grant, KiwoomIssuer!Grant, KiwoomServing, Serving, KiwoomGranted, Granted
<1> QED
  BY <1>2, <1>3, <1>4, <1>5, <1>6 DEF IssuerStep, Issuer!Next, KiwoomIssuerStep, KiwoomIssuer!Next

\* In a behaviour about Toss clients nothing is seen of the issuer.
LEMMA TossUnseen ==
  ASSUME broker = "toss", broker' = broker, IInv, IInv'
  PROVE  KiwoomSoleInv' /\ KiwoomIssuerStep
<1>1. Asking = {} /\ Asking' = {}
  BY DEF IInv, OwnInv, StartersOwn, Asking
<1>2. UNCHANGED <<KiwoomServing, KiwoomGranted>>
  BY DEF KiwoomServing, KiwoomGranted
<1> QED
  BY <1>1, <1>2 DEF KiwoomSoleInv, KiwoomIssuerStep, KiwoomIssuer!issuerVars, KiwoomServing,
                    KiwoomGranted, Asking

LEMMA KiwoomStepRefines ==
  ASSUME IInv, KiwoomSoleInv, [Next]_vars
  PROVE  KiwoomSoleInv' /\ KiwoomIssuerStep
<1> USE TokenIssueAssumption, ClientCallsAssumption
<1>1. broker' = broker /\ broker \in {"kiwoom", "toss"}
  <2>1. broker \in {"kiwoom", "toss"}
    BY DEF IInv, Types, CallsTypeOK
  <2>2. broker' = broker
    BY DEF Next, vars, callVars, clientVars, Clock, KiwoomNext, TossNext, KiwoomStart, StartLogin,
           KiwoomAdvance, KiwoomGiveUp, KiwoomIssue, KiwoomCheck, KiwoomAuthenticate, KiwoomJoin,
           KiwoomAdoptIssued, KiwoomSend, KiwoomAnswered, HandOver, TossStart, TossAdvance,
           TossGiveUp, TossEnsure, TossWaitForAuth, TossAuthQuota, TossPost, TossKeep, TossStore,
           TossWait, TossSend, TossExecuted, TossFailed, TossUnauthorized, TossClear, TossDelete,
           ReadKey, LookUp, Install, FallBack, Refresh, Select, AuthLookUp, Adopt, SendHeader,
           GiveUpAt
  <2> QED
    BY <2>1, <2>2
<1>2. CASE broker = "toss"
  BY <1>1, <1>2, IInvStep, TossUnseen
<1>3. CASE broker = "kiwoom"
  <2>1. IssueInv /\ SoleInv /\ ~ TossNext
    BY <1>3 DEF IInv, KiwoomSoleInv, TossNext
  <2>2. ASSUME UNCHANGED issueVars PROVE SoleInv' /\ IssuerStep
    BY <2>1, <2>2, StutterRefines
  <2>3. ASSUME Clock PROVE SoleInv' /\ IssuerStep
    <3>1. \/ \E k \in Keys : Refill(k)
          \/ \E t \in Flights : GrowOld(t) \/ Revoke(t)
      BY <2>3 DEF Clock
    <3> QED
      BY <2>1, <3>1, EnvironmentRefines
  <2>4. ASSUME NEW r \in Requests, NEW f \in Flights, KiwoomJoin(r, f)
        PROVE  SoleInv' /\ IssuerStep
    <3>1. DoChan(key[r], f) /\ key[r] \in Keys
      BY <2>4 DEF KiwoomJoin, IInv, Types, OwnInv, CallsTypeOK, RequestsOwn, Selecting
    <3> QED
      BY <2>1, <3>1, DoChanRefines
  <2>5. ASSUME NEW f \in Flights, Issue(f) PROVE SoleInv' /\ IssuerStep
    BY <2>1, <2>5, IssueRefines
  <2>6. ASSUME KiwoomNext,
               ~ \E r \in Requests, f \in Flights : KiwoomJoin(r, f),
               ~ \E f \in Flights : Issue(f)
        PROVE  UNCHANGED issueVars
    BY <2>6 DEF KiwoomNext, KiwoomStart, StartLogin, KiwoomAdvance, KiwoomGiveUp, KiwoomIssue,
                KiwoomCheck, KiwoomAuthenticate, KiwoomAdoptIssued, KiwoomSend, KiwoomAnswered,
                HandOver, ReadKey, LookUp, Install, FallBack, Refresh, Select, AuthLookUp, Adopt,
                SendHeader, GiveUpAt
  <2>7. SoleInv' /\ IssuerStep
    BY <2>1, <2>2, <2>3, <2>4, <2>5, <2>6 DEF Next, vars
  <2> QED
    BY <1>1, <1>3, <2>7, SameIssuer DEF KiwoomSoleInv
<1> QED
  BY <1>1, <1>2, <1>3

LEMMA KiwoomIssuerInit == ASSUME Init PROVE KiwoomSoleInv /\ KiwoomIssuer!Init
<1>1. SoleInv /\ Issuer!Init
  BY SoleInvInit DEF Init
<1>2. CASE broker = "kiwoom"
  BY <1>1, <1>2 DEF KiwoomSoleInv, Issuer!Init, KiwoomIssuer!Init
<1>3. CASE broker # "kiwoom"
  <2>1. KiwoomServing \in [Keys -> Flights \cup {None}] /\ \A k \in Keys : KiwoomServing[k] = None
    BY <1>3 DEF KiwoomServing
  <2>2. KiwoomGranted = {KiwoomServing[k] : k \in Keys} \ {None}
    BY <1>3, <2>1 DEF KiwoomGranted
  <2>3. Asking = {}
    BY <1>1 DEF Issuer!Init, Asking
  <2> QED
    BY <1>3, <2>1, <2>2, <2>3 DEF KiwoomSoleInv, KiwoomIssuer!Init, KiwoomServing, KiwoomGranted, Asking
<1> QED
  BY <1>2, <1>3

\* Per app key the Kiwoom clients ask the token endpoint for one token at a time, and only
\* while the cache serves none.
THEOREM KiwoomClientAsksOnceAtATime == Spec => KiwoomAsksOnceAtATime
<1>1. Init => IInv /\ KiwoomSoleInv /\ KiwoomIssuer!Init
  BY IInvInit, KiwoomIssuerInit
<1>2. /\ IInv /\ KiwoomSoleInv /\ [Next]_vars
         => IInv' /\ KiwoomSoleInv' /\ [KiwoomIssuer!Next]_(KiwoomIssuer!issuerVars)
  BY IInvStep, KiwoomStepRefines DEF KiwoomIssuerStep
<1> QED
  BY <1>1, <1>2, PTL DEF Spec, KiwoomAsksOnceAtATime, KiwoomIssuer!Spec
=============================================================================
