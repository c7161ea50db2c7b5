-------------------------- MODULE KISClient_proofs --------------------------
(***************************************************************************)
(* The KIS client keeps its types, asks for one token at a time, and while *)
(* every account keeps one app key no request carries the token of another *)
(* account, for any number of accounts, app keys, requests and issuances   *)
(* (module KISClient).                                                     *)
(***************************************************************************)
EXTENDS KISClient, TokenIssue_proofs

\* Every client is authenticated with one app key only.
OneKeyEach == \A c \in Clients : \A j, k \in AuthKeys[c] : j = k

ClientTypeOK ==
  /\ cred \in [Clients -> Keys \cup {None}]
  /\ local \in [Clients -> Flights \cup {None}]

RequestTypeOK ==
  /\ pc \in [Requests -> RequestSteps]
  /\ client \in [Requests -> Clients \cup {None}]
  /\ key \in [Requests -> Keys \cup {None}]
  /\ tok \in [Requests -> Flights \cup {None}]
  /\ fl \in [Requests -> Flights \cup {None}]
  /\ resume \in [Requests -> {"limiter", "valid", "end"}]
  /\ retry \in [Requests -> BOOLEAN]
  /\ refused \in [Requests -> Flights \cup {None}]
  /\ sent \in [Requests -> Flights \cup {None}]
  /\ sentKey \in [Requests -> Keys \cup {None}]
  /\ result \in [Requests -> Results]

\* A client has selected one of its own keys, and holds a token of one of them.
ClientsOwn ==
  \A c \in Clients :
    /\ cred[c] # None => cred[c] \in AuthKeys[c]
    /\ local[c] # None => cred[c] # None /\ fkey[local[c]] # None /\ fkey[local[c]] \in AuthKeys[c]

Selecting == {"lookup", "install", "select", "auth", "adopt", "join", "await"}

\* What a request has in hand was obtained for the key it read, a key of its client,
\* which has selected one by the time a token is asked for.
RequestsOwn ==
  \A r \in Requests :
    /\ pc[r] # "idle" => client[r] \in Clients
    /\ pc[r] \in Selecting => key[r] # None
    /\ key[r] # None => pc[r] # "idle" /\ key[r] \in AuthKeys[client[r]]
    /\ pc[r] \in Selecting \ {"select"} => cred[client[r]] # None
    /\ pc[r] \in {"install", "adopt"} => tok[r] # None /\ fkey[tok[r]] = key[r]
    /\ pc[r] = "await" => fl[r] # None /\ fkey[fl[r]] = key[r]

\* Token and app key of a header are those of one client.
HeadersOwn ==
  \A r \in Requests :
    /\ pc[r] \in {"header", "reply"} /\ sent[r] # None =>
         fkey[sent[r]] # None /\ fkey[sent[r]] \in AuthKeys[client[r]]
    /\ pc[r] = "header" /\ sent[r] # None => cred[client[r]] # None
    /\ pc[r] = "reply" /\ sent[r] # None => sentKey[r] \in AuthKeys[client[r]]

ClientInv == ClientTypeOK /\ ClientsOwn
RequestInv == RequestTypeOK /\ RequestsOwn /\ HeadersOwn

\* The inductive invariant.
IInv == IssueInv /\ ClientInv /\ RequestInv

LEMMA IInvImplies == ASSUME IInv PROVE TypeOK /\ (OneKeyEach => SentPairMatches)
<1>1. TypeOK
  BY DEF IInv, IssueInv, ClientInv, RequestInv, ClientTypeOK, RequestTypeOK, TypeOK
<1>2. ASSUME OneKeyEach, NEW r \in Requests, pc[r] = "reply", sent[r] # None
      PROVE  fkey[sent[r]] = sentKey[r]
  <2>1. client[r] \in Clients
    BY <1>2 DEF IInv, RequestInv, RequestsOwn
  <2> QED
    BY <1>2, <2>1 DEF IInv, RequestInv, HeadersOwn, OneKeyEach
<1> QED
  BY <1>1, <1>2 DEF SentPairMatches

LEMMA IInvInit == ASSUME Init PROVE IInv
<1>1. IssueInv
  BY IssueInvInit DEF Init
<1>2. ClientInv
  BY KISClientAssumption, TokenIssueAssumption DEF Init, ClientInv, ClientTypeOK, ClientsOwn
<1>3. RequestInv
  BY DEF Init, RequestInv, RequestTypeOK, RequestsOwn, HeadersOwn, Selecting, RequestSteps, Results
<1> QED
  BY <1>1, <1>2, <1>3 DEF IInv

\* As long as no call changes its key, what the clients and requests hold stays
\* theirs.
LEMMA IssuanceKeeps ==
  ASSUME IInv, KeysKept, UNCHANGED <<clientVars, requestVars>>
  PROVE  ClientInv' /\ RequestInv'
<1> USE TokenIssueAssumption, KISClientAssumption
<1>1. ClientInv'
  BY DEF IInv, ClientInv, ClientTypeOK, ClientsOwn, KeysKept, clientVars
<1>2. RequestTypeOK'
  BY DEF IInv, RequestInv, RequestTypeOK, requestVars
<1>3. RequestsOwn'
  <2>1. \A r \in Requests :
          /\ pc[r] \in {"install", "adopt"} => fkey'[tok[r]] = fkey[tok[r]]
          /\ pc[r] = "await" => fkey'[fl[r]] = fkey[fl[r]]
    BY DEF IInv, RequestInv, RequestTypeOK, RequestsOwn, Selecting, KeysKept
  <2> QED
    BY <2>1 DEF IInv, RequestInv, RequestsOwn, requestVars, clientVars
<1>4. HeadersOwn'
  BY DEF IInv, RequestInv, RequestTypeOK, HeadersOwn, KeysKept, requestVars, clientVars
<1> QED
  BY <1>1, <1>2, <1>3, <1>4 DEF RequestInv

\* A step of a request that leaves the issuance and the clients alone.
LEMMA RequestKeeps ==
  ASSUME IInv, NEW r \in Requests, UNCHANGED <<issueVars, clientVars>>,
         \/ ReadKey(r) \/ LookUp(r) \/ FallBack(r) \/ Refresh(r) \/ AuthLookUp(r)
         \/ Send(r) \/ SendKey(r) \/ Answered(r) \/ Unauthorized(r) \/ GiveUp(r)
         \/ \E c \in Clients : StartCall(r, c)
         \/ \E c \in Clients : \E k \in AuthKeys[c] : StartAuthenticate(r, c, k)
  PROVE  IInv'
<1> USE TokenIssueAssumption, KISClientAssumption
<1>1. IssueInv' /\ ClientInv' /\ UNCHANGED <<fkey, cred, local>>
  BY StutterKeeps DEF IInv, ClientInv, ClientTypeOK, ClientsOwn, issueVars, clientVars
<1>2. SUFFICES RequestInv'
  BY <1>1 DEF IInv
<1>i. /\ RequestTypeOK /\ RequestsOwn /\ HeadersOwn
      /\ ClientTypeOK /\ ClientsOwn
  BY DEF IInv, RequestInv, ClientInv
<1> USE <1>1, <1>i DEF Goto, End, RequestInv, RequestTypeOK, RequestsOwn, HeadersOwn, Selecting,
                       RequestSteps, Results
<1>3. CASE ReadKey(r)
  BY <1>3 DEF ReadKey, SelectedKey, ClientTypeOK, ClientsOwn
<1>4. CASE LookUp(r)
  <2>1. key[r] \in Keys
    BY <1>4 DEF LookUp
  <2>2. Serves(key[r]) => cache[key[r]] \in Flights /\ fkey[cache[key[r]]] = key[r]
    BY <2>1 DEF Serves, IInv, IssueInv, TokenIssueTypeOK, FlightsKeyed
  <2> QED
    BY <1>4, <2>1, <2>2 DEF LookUp
<1>5. CASE FallBack(r)
  BY <1>5 DEF FallBack
<1>6. CASE Refresh(r)
  BY <1>6 DEF Refresh, ClientTypeOK, ClientsOwn
<1>7. CASE AuthLookUp(r)
  <2>1. key[r] \in Keys
    BY <1>7 DEF AuthLookUp
  <2>2. Serves(key[r]) => cache[key[r]] \in Flights /\ fkey[cache[key[r]]] = key[r]
    BY <2>1 DEF Serves, IInv, IssueInv, TokenIssueTypeOK, FlightsKeyed
  <2> QED
    BY <1>7, <2>1, <2>2 DEF AuthLookUp
<1>8. CASE Send(r)
  BY <1>8 DEF Send, ClientTypeOK, ClientsOwn
<1>9. CASE SendKey(r)
  BY <1>9 DEF SendKey, ClientTypeOK, ClientsOwn
<1>10. CASE Answered(r)
  BY <1>10 DEF Answered
<1>11. CASE Unauthorized(r)
  <2>1. client[r] \in Clients
    BY <1>11 DEF Unauthorized
  <2>2. CASE retry[r]
    <3>1. /\ pc[r] = "reply"
          /\ retry' = [retry EXCEPT ![r] = FALSE]
          /\ refused' = [refused EXCEPT ![r] = sent[r]]
          /\ key' = [key EXCEPT ![r] = cred[client[r]]]
          /\ resume' = [resume EXCEPT ![r] = "valid"]
          /\ pc' = [pc EXCEPT ![r] = "clear"]
          /\ UNCHANGED <<client, tok, fl, sent, sentKey, result>>
      BY <1>11, <2>2 DEF Unauthorized
    <3>2. cred[client[r]] \in Keys \cup {None} /\ (cred[client[r]] # None =>
            cred[client[r]] \in AuthKeys[client[r]])
      BY <2>1 DEF ClientTypeOK, ClientsOwn
    <3>3. RequestTypeOK'
      BY <3>1, <3>2
    <3>4. RequestsOwn'
      BY <3>1, <3>2
    <3>5. HeadersOwn'
      BY <3>1
    <3> QED
      BY <3>3, <3>4, <3>5
  <2>3. CASE ~ retry[r]
    BY <1>11, <2>1, <2>3 DEF Unauthorized
  <2> QED
    BY <2>2, <2>3
<1>12. CASE GiveUp(r)
  BY <1>12 DEF GiveUp
<1>13. ASSUME NEW c \in Clients, StartCall(r, c)
       PROVE  RequestInv'
  BY <1>13 DEF StartCall, SelectedKey, ClientTypeOK, ClientsOwn
<1>14. ASSUME NEW c \in Clients, NEW k \in AuthKeys[c], StartAuthenticate(r, c, k)
       PROVE  RequestInv'
  <2>1. k \in Keys
    BY <1>14
  <2> QED
    BY <1>14, <2>1 DEF StartAuthenticate
<1> QED
  BY <1>3, <1>4, <1>5, <1>6, <1>7, <1>8, <1>9, <1>10, <1>11, <1>12, <1>13, <1>14

\* A step of a request that changes its client.
LEMMA ClientKeeps ==
  ASSUME IInv, NEW r \in Requests, UNCHANGED issueVars,
         Install(r) \/ Select(r) \/ AdoptCached(r) \/ AdoptIssued(r) \/ Clear(r)
  PROVE  IInv'
<1> USE TokenIssueAssumption, KISClientAssumption
<1>1. IssueInv' /\ UNCHANGED fkey
  BY StutterKeeps DEF IInv, issueVars
<1>2. SUFFICES ClientInv' /\ RequestInv'
  BY <1>1 DEF IInv
<1>i. /\ RequestTypeOK /\ RequestsOwn /\ HeadersOwn
      /\ ClientTypeOK /\ ClientsOwn
  BY DEF IInv, RequestInv, ClientInv
<1>c. client[r] \in Clients
  BY <1>i DEF RequestsOwn, Install, Select, AdoptCached, AdoptIssued, Clear
<1> USE <1>1, <1>i, <1>c
    DEF Goto, End, setToken, ClientInv, ClientTypeOK, ClientsOwn,
        RequestInv, RequestTypeOK, RequestsOwn, HeadersOwn, Selecting, RequestSteps, Results
<1>3. CASE Install(r)
  BY <1>3 DEF Install
<1>4. CASE Select(r)
  BY <1>4 DEF Select, SetCredentials
<1>5. CASE AdoptCached(r)
  BY <1>5 DEF AdoptCached, Authenticated
<1>6. CASE AdoptIssued(r)
  <2>1. /\ outcome[fl[r]] \in Flights \cup {None}
        /\ outcome[fl[r]] # None => fkey[outcome[fl[r]]] = key[r]
    BY <1>6 DEF AdoptIssued, IInv, IssueInv, TokenIssueTypeOK, FlightsKeyed
  <2> QED
    BY <1>6, <2>1 DEF AdoptIssued, Authenticated
<1>7. CASE Clear(r)
  BY <1>7 DEF Clear
<1> QED
  BY <1>3, <1>4, <1>5, <1>6, <1>7

LEMMA JoinKeeps ==
  ASSUME IInv, NEW r \in Requests, NEW f \in Flights, Join(r, f)
  PROVE  IInv'
<1> USE TokenIssueAssumption, KISClientAssumption
<1>1. key[r] \in Keys
  BY DEF Join, IInv, RequestInv, RequestTypeOK, RequestsOwn, Selecting
<1>2. IssueInv' /\ KeysKept /\ fkey'[f] = key[r]
  BY <1>1, DoChanKeeps DEF Join, IInv
<1>3. ClientInv'
  BY <1>2 DEF Join, IInv, ClientInv, ClientTypeOK, ClientsOwn, KeysKept, clientVars
<1>4. RequestInv'
  BY <1>2 DEF Join, Goto, IInv, RequestInv, RequestTypeOK, RequestsOwn, HeadersOwn, Selecting,
              KeysKept, RequestSteps, clientVars
<1> QED
  BY <1>2, <1>3, <1>4 DEF IInv

LEMMA DeleteKeeps ==
  ASSUME IInv, NEW r \in Requests, Delete(r)
  PROVE  IInv'
<1> USE TokenIssueAssumption, KISClientAssumption
<1>1. IssueInv'
  <2>1. CASE key[r] = None
    BY <2>1, StutterKeeps DEF Delete, IInv, issueVars
  <2>2. CASE key[r] # None
    BY <2>2, DeleteTokenKeeps DEF Delete, IInv, RequestInv, RequestTypeOK
  <2> QED
    BY <2>1, <2>2
<1>2. ClientInv' /\ RequestInv'
  BY DEF Delete, Goto, IInv, ClientInv, RequestInv, ClientTypeOK, RequestTypeOK, ClientsOwn,
         RequestsOwn, HeadersOwn, Selecting, RequestSteps, clientVars
<1> QED
  BY <1>1, <1>2 DEF IInv

\* The steps of requests that leave the issuance as it is, and those that do not.
LEMMA StartsAside ==
  ASSUME NEW r \in Requests, NEW c \in Clients,
         StartCall(r, c) \/ \E k \in AuthKeys[c] : StartAuthenticate(r, c, k)
  PROVE  UNCHANGED <<issueVars, clientVars>>
BY DEF StartCall, StartAuthenticate

LEMMA AdvanceCases ==
  ASSUME NEW r \in Requests, Advance(r) \/ GiveUp(r)
  PROVE  \/ Delete(r)
         \/ \E f \in Flights : Join(r, f)
         \/ /\ UNCHANGED issueVars
            /\ Install(r) \/ Select(r) \/ AdoptCached(r) \/ AdoptIssued(r) \/ Clear(r)
         \/ /\ UNCHANGED <<issueVars, clientVars>>
            /\ \/ ReadKey(r) \/ LookUp(r) \/ FallBack(r) \/ Refresh(r) \/ AuthLookUp(r)
               \/ Send(r) \/ SendKey(r) \/ Answered(r) \/ Unauthorized(r) \/ GiveUp(r)
BY DEF Advance, GiveUp, ReadKey, LookUp, Install, FallBack, Refresh, Select, AuthLookUp, AdoptCached,
       AdoptIssued, Send, SendKey, Answered, Unauthorized, Clear

LEMMA IInvStep == ASSUME IInv, [Next]_vars PROVE IInv'
<1> USE TokenIssueAssumption, KISClientAssumption
<1>1. CASE UNCHANGED vars
  BY <1>1, StutterKeeps, IssuanceKeeps DEF vars, IInv
<1>2. ASSUME NEW r \in Requests, NEW c \in Clients,
             StartCall(r, c) \/ \E k \in AuthKeys[c] : StartAuthenticate(r, c, k)
      PROVE  IInv'
  BY <1>2, StartsAside, RequestKeeps
<1>3. ASSUME NEW r \in Requests, Advance(r) \/ GiveUp(r)
      PROVE  IInv'
  BY <1>3, AdvanceCases, RequestKeeps, ClientKeeps, JoinKeeps, DeleteKeeps
<1>4. ASSUME NEW f \in Flights, IssueStep(f)
      PROVE  IInv'
  BY <1>4, IssueKeeps, IssuanceKeeps DEF IssueStep, IInv, KeysKept
<1>5. CASE \/ \E k \in Keys : RefillStep(k)
           \/ \E t \in Mortal : GrowOldStep(t)
           \/ \E t \in Revocable : RevokeStep(t)
  <2>1. /\ \/ \E k \in Keys : Refill(k)
           \/ \E t \in Flights : GrowOld(t) \/ Revoke(t)
        /\ UNCHANGED <<clientVars, requestVars>>
    BY <1>5 DEF RefillStep, GrowOldStep, RevokeStep
  <2> QED
    BY <2>1, EnvironmentKeeps, IssuanceKeeps DEF IInv, KeysKept
<1> QED
  BY <1>1, <1>2, <1>3, <1>4, <1>5 DEF Next

\* What the token endpoint sees of a step of the client.
LEMMA StepRefines == ASSUME IInv, SoleInv, [Next]_vars PROVE SoleInv' /\ IssuerStep
<1>i. IssueInv
  BY DEF IInv
<1>1. CASE UNCHANGED issueVars
  BY <1>1, <1>i, StutterRefines
<1>2. ASSUME NEW r \in Requests, NEW f \in Flights, Join(r, f)
      PROVE  SoleInv' /\ IssuerStep
  <2>1. key[r] \in Keys
    BY <1>2 DEF Join, IInv, RequestInv, RequestTypeOK, RequestsOwn, Selecting
  <2> QED
    BY <1>2, <1>i, <2>1, DoChanRefines DEF Join
<1>3. ASSUME NEW r \in Requests, Delete(r)
      PROVE  SoleInv' /\ IssuerStep
  <2>1. CASE key[r] = None
    BY <1>3, <1>1, <2>1 DEF Delete, issueVars
  <2>2. CASE key[r] # None
    <3>1. key[r] \in Keys
      BY <2>2 DEF IInv, RequestInv, RequestTypeOK
    <3> QED
      BY <1>3, <1>i, <2>2, <3>1, DeleteTokenRefines DEF Delete
  <2> QED
    BY <2>1, <2>2
<1>4. ASSUME NEW f \in Flights, IssueStep(f)
      PROVE  SoleInv' /\ IssuerStep
  BY <1>4, <1>i, IssueRefines DEF IssueStep
<1>5. CASE \/ \E k \in Keys : RefillStep(k)
           \/ \E t \in Mortal : GrowOldStep(t)
           \/ \E t \in Revocable : RevokeStep(t)
  <2>1. \/ \E k \in Keys : Refill(k)
        \/ \E t \in Flights : GrowOld(t) \/ Revoke(t)
    BY <1>5, KISClientAssumption DEF RefillStep, GrowOldStep, RevokeStep
  <2> QED
    BY <1>i, <2>1, EnvironmentRefines
<1>6. ASSUME NEW r \in Requests, Advance(r) \/ GiveUp(r)
      PROVE  SoleInv' /\ IssuerStep
  BY <1>6, <1>1, <1>2, <1>3, AdvanceCases
<1>7. CASE UNCHANGED vars
  BY <1>7, <1>1 DEF vars
<1> QED
  BY <1>1, <1>4, <1>5, <1>6, <1>7, StartsAside DEF Next

\* Every variable of the KIS client keeps its type (internal/kis/client.go,
\* internal/kis/auth.go).
THEOREM KISClientTypeOK == Spec => []TypeOK
<1>1. Init => IInv
  BY IInvInit
<1>2. IInv /\ [Next]_vars => IInv'
  BY IInvStep
<1>3. IInv => TypeOK
  BY IInvImplies
<1> QED
  BY <1>1, <1>2, <1>3, PTL DEF Spec

\* While every client is authenticated with one app key only, token and app key
\* of every header belong together, although the two are read under locks of
\* their own and nothing ties them to each other (doRequestOnce,
\* internal/kis/client.go).
THEOREM KISClientSentPairMatches == OneKeyEach => (Spec => []SentPairMatches)
<1>1. Init => IInv
  BY IInvInit
<1>2. IInv /\ [Next]_vars => IInv'
  BY IInvStep
<1>3. OneKeyEach /\ IInv => SentPairMatches
  BY IInvImplies
<1>4. SUFFICES ASSUME OneKeyEach PROVE Spec => []SentPairMatches
  OBVIOUS
<1>5. IInv => SentPairMatches
  BY <1>3, <1>4
<1> QED
  BY <1>1, <1>2, <1>5, PTL DEF Spec

\* The clients together implement the single issuer, without a second look at
\* the cache after the limiter (authFlight and issueToken, internal/kis/auth.go).
THEOREM KISClientAsksOnceAtATime == Spec => AsksOnceAtATime
<1>1. Init => IInv /\ SoleInv /\ Issuer!Init
  BY IInvInit, SoleInvInit DEF Init
<1>2. IInv /\ SoleInv /\ [Next]_vars => IInv' /\ SoleInv' /\ [Issuer!Next]_(Issuer!issuerVars)
  BY IInvStep, StepRefines DEF IssuerStep
<1> QED
  BY <1>1, <1>2, PTL DEF Spec, AsksOnceAtATime, Issuer!Spec
=============================================================================
