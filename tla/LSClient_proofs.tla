--------------------------- MODULE LSClient_proofs --------------------------
(***************************************************************************)
(* The LS client keeps its types, and never holds a token of credentials   *)
(* other than the selected ones, for any number of accounts, app keys,     *)
(* requests and issuances (module LSClient).                               *)
(***************************************************************************)
EXTENDS LSClient, TokenIssue_proofs

\* What a request has in hand was obtained for the app key it read.
RequestsKeyed ==
  \A r \in Requests :
    /\ pc[r] # "idle" => client[r] \in Clients
    /\ pc[r] \in {"lookup", "install", "select", "auth", "join", "await", "adopt"} =>
         key[r] # None
    /\ pc[r] \in {"install", "adopt"} => tok[r] # None /\ fkey[tok[r]] = key[r]
    /\ pc[r] = "await" => fl[r] # None /\ fkey[fl[r]] = key[r]

\* TokenOfSelectedKey, and a client with a token has selected a key at all.
ClientsKeyed ==
  \A c \in Clients : local[c] # None => cred[c] # None /\ fkey[local[c]] = cred[c]

ClientTypeOK ==
  /\ cred \in [Clients -> Keys \cup {None}]
  /\ local \in [Clients -> Flights \cup {None}]

RequestTypeOK ==
  /\ pc \in [Requests -> RequestSteps]
  /\ client \in [Requests -> Clients \cup {None}]
  /\ key \in [Requests -> Keys \cup {None}]
  /\ tok \in [Requests -> Flights \cup {None}]
  /\ fl \in [Requests -> Flights \cup {None}]
  /\ resume \in [Requests -> {"limiter", "valid", "end"}]
  /\ retry \in [Requests -> BOOLEAN]
  /\ sent \in [Requests -> Flights \cup {None}]
  /\ result \in [Requests -> Results]

ClientInv == ClientTypeOK /\ ClientsKeyed
RequestInv == RequestTypeOK /\ RequestsKeyed

\* The inductive invariant.
IInv == IssueInv /\ ClientInv /\ RequestInv

LEMMA IInvImplies == ASSUME IInv PROVE TypeOK /\ TokenOfSelectedKey
BY DEF IInv, IssueInv, ClientInv, RequestInv, ClientTypeOK, RequestTypeOK, ClientsKeyed,
       TypeOK, TokenOfSelectedKey

LEMMA IInvInit == ASSUME Init PROVE IInv
<1>1. IssueInv
  BY IssueInvInit DEF Init
<1>2. ClientInv /\ RequestInv
  BY DEF Init, ClientInv, RequestInv, ClientTypeOK, RequestTypeOK, ClientsKeyed, RequestsKeyed,
         RequestSteps, Results
<1> QED
  BY <1>1, <1>2 DEF IInv

\* As long as no call changes its key, what the clients and requests hold stays
\* theirs.
LEMMA IssuanceKeeps ==
  ASSUME IInv, KeysKept, UNCHANGED <<clientVars, requestVars>>
  PROVE  ClientInv' /\ RequestInv'
<1>1. ClientInv'
  BY TokenIssueAssumption, LSClientAssumption
     DEF IInv, ClientInv, ClientTypeOK, ClientsKeyed, KeysKept, clientVars
<1>2. RequestInv'
  BY TokenIssueAssumption, LSClientAssumption
     DEF IInv, RequestInv, RequestTypeOK, RequestsKeyed, KeysKept, requestVars
<1> QED
  BY <1>1, <1>2

\* A step of a request that leaves the issuance alone.
LEMMA AdvanceKeeps ==
  ASSUME IInv, NEW r \in Requests, Advance(r) \/ GiveUp(r),
         ~ Delete(r), ~ \E f \in Flights : Join(r, f)
  PROVE  IInv'
<1> USE TokenIssueAssumption, LSClientAssumption
<1>i. IssueInv /\ ClientInv /\ RequestInv
  BY DEF IInv
<1>u. ASSUME UNCHANGED issueVars PROVE IssueInv' /\ UNCHANGED <<fkey, cache, outcome>>
  BY <1>i, <1>u, StutterKeeps DEF issueVars
<1>1. CASE ReadKey(r)
  BY <1>1, <1>i, <1>u
     DEF ReadKey, SelectedKey, Goto, IInv, ClientInv, RequestInv, ClientTypeOK, RequestTypeOK,
         ClientsKeyed, RequestsKeyed, RequestSteps, Results, clientVars
<1>2. CASE LookUp(r)
  BY <1>2, <1>i, <1>u
     DEF LookUp, Serves, Goto, IInv, IssueInv, TokenIssueTypeOK, FlightsKeyed, ClientInv,
         RequestInv, ClientTypeOK, RequestTypeOK, ClientsKeyed, RequestsKeyed, RequestSteps,
         Results, clientVars
<1>3. CASE Install(r)
  BY <1>3, <1>i, <1>u
     DEF Install, Goto, IInv, ClientInv, RequestInv, ClientTypeOK, RequestTypeOK,
         ClientsKeyed, RequestsKeyed, RequestSteps, Results
<1>4. CASE FallBack(r)
  BY <1>4, <1>i, <1>u
     DEF FallBack, Goto, IInv, ClientInv, RequestInv, ClientTypeOK, RequestTypeOK,
         ClientsKeyed, RequestsKeyed, RequestSteps, Results, clientVars
<1>5. CASE Ensure(r)
  BY <1>5, <1>i, <1>u
     DEF Ensure, ReadCredentials, End, Goto, IInv, ClientInv, RequestInv, ClientTypeOK,
         RequestTypeOK, ClientsKeyed, RequestsKeyed, RequestSteps, Results, clientVars
<1>6. CASE Select(r)
  BY <1>6, <1>i, <1>u
     DEF Select, End, Goto, IInv, ClientInv, RequestInv, ClientTypeOK,
         RequestTypeOK, ClientsKeyed, RequestsKeyed, RequestSteps, Results, clientVars
<1>7. CASE AuthLookUp(r)
  BY <1>7, <1>i, <1>u
     DEF AuthLookUp, Serves, Goto, IInv, IssueInv, TokenIssueTypeOK, FlightsKeyed, ClientInv,
         RequestInv, ClientTypeOK, RequestTypeOK, ClientsKeyed, RequestsKeyed, RequestSteps,
         Results, clientVars
<1>8. CASE AdoptCached(r)
  BY <1>8, <1>i, <1>u
     DEF AdoptCached, InstallOrRefuse, End, Goto, IInv, ClientInv, RequestInv, ClientTypeOK,
         RequestTypeOK, ClientsKeyed, RequestsKeyed, RequestSteps, Results
<1>9. CASE AdoptIssued(r)
  <2>1. IssueInv' /\ UNCHANGED fkey
    BY <1>9, <1>u DEF AdoptIssued
  <2>2. /\ outcome[fl[r]] \in Flights \cup {None}
        /\ outcome[fl[r]] # None => fkey[outcome[fl[r]]] = key[r]
        /\ key[r] # None
        /\ client[r] \in Clients
    BY <1>9, <1>i
       DEF AdoptIssued, IssueInv, TokenIssueTypeOK, FlightsKeyed, RequestInv, RequestTypeOK,
           RequestsKeyed
  <2>3. ClientInv'
    BY <1>9, <1>i, <2>1, <2>2
       DEF AdoptIssued, InstallOrRefuse, ClientInv, ClientTypeOK, ClientsKeyed
  <2>4. RequestInv'
    BY <1>9, <1>i, <2>1
       DEF AdoptIssued, InstallOrRefuse, End, Goto, RequestInv, RequestTypeOK, RequestsKeyed,
           RequestSteps, Results
  <2> QED
    BY <2>1, <2>3, <2>4 DEF IInv
<1>10. CASE Send(r)
  BY <1>10, <1>i, <1>u
     DEF Send, Goto, IInv, ClientInv, RequestInv, ClientTypeOK, RequestTypeOK, ClientsKeyed,
         RequestsKeyed, RequestSteps, Results, clientVars
<1>11. CASE Answered(r)
  BY <1>11, <1>i, <1>u
     DEF Answered, End, Goto, IInv, ClientInv, RequestInv, ClientTypeOK, RequestTypeOK,
         ClientsKeyed, RequestsKeyed, RequestSteps, Results, clientVars
<1>12. CASE Unauthorized(r)
  <2>1. IssueInv' /\ ClientInv' /\ UNCHANGED fkey
    BY <1>12, <1>i, <1>u DEF Unauthorized, ClientInv, ClientTypeOK, ClientsKeyed, clientVars
  <2>2. client[r] \in Clients /\ cred[client[r]] \in Keys \cup {None}
    BY <1>12, <1>i DEF Unauthorized, RequestInv, RequestsKeyed, ClientInv, ClientTypeOK
  <2>3. CASE retry[r]
    <3>1. /\ retry' = [retry EXCEPT ![r] = FALSE]
          /\ key' = [key EXCEPT ![r] = cred[client[r]]]
          /\ pc' = [pc EXCEPT ![r] = "clear"]
          /\ sent' = [sent EXCEPT ![r] = None]
          /\ UNCHANGED <<client, tok, fl, resume, result>>
          /\ pc[r] = "reply"
      BY <1>12, <2>3 DEF Unauthorized, Goto
    <3>2. RequestTypeOK'
      BY <1>i, <2>2, <3>1 DEF RequestInv, RequestTypeOK, RequestSteps
    <3>3. RequestsKeyed'
      BY <1>i, <2>1, <2>2, <3>1 DEF RequestInv, RequestTypeOK, RequestsKeyed, RequestSteps
    <3> QED
      BY <2>1, <3>2, <3>3 DEF RequestInv, IInv
  <2>4. CASE ~retry[r]
    BY <1>12, <1>i, <2>1, <2>4
       DEF Unauthorized, End, Goto, RequestInv, RequestTypeOK, RequestsKeyed, RequestSteps,
           Results, IInv
  <2> QED
    BY <2>3, <2>4
<1>13. CASE Clear(r)
  BY <1>13, <1>i, <1>u
     DEF Clear, Goto, IInv, ClientInv, RequestInv, ClientTypeOK, RequestTypeOK,
         ClientsKeyed, RequestsKeyed, RequestSteps, Results
<1>14. CASE Refresh(r)
  BY <1>14, <1>i, <1>u
     DEF Refresh, ReadCredentials, End, Goto, IInv, ClientInv, RequestInv, ClientTypeOK,
         RequestTypeOK, ClientsKeyed, RequestsKeyed, RequestSteps, Results, clientVars
<1>15. CASE GiveUp(r)
  BY <1>15, <1>i, <1>u
     DEF GiveUp, End, Goto, IInv, ClientInv, RequestInv, ClientTypeOK, RequestTypeOK,
         ClientsKeyed, RequestsKeyed, RequestSteps, Results, clientVars
<1> QED
  BY <1>1, <1>2, <1>3, <1>4, <1>5, <1>6, <1>7, <1>8, <1>9, <1>10, <1>11, <1>12, <1>13, <1>14,
     <1>15
     DEF Advance

LEMMA JoinKeeps ==
  ASSUME IInv, NEW r \in Requests, NEW f \in Flights, Join(r, f)
  PROVE  IInv'
<1> USE TokenIssueAssumption, LSClientAssumption
<1>1. key[r] \in Keys
  BY DEF Join, IInv, RequestInv, RequestTypeOK, RequestsKeyed
<1>2. IssueInv' /\ KeysKept /\ fkey'[f] = key[r]
  BY <1>1, DoChanKeeps DEF Join, IInv
<1>3. ClientInv'
  BY <1>2 DEF Join, IInv, ClientInv, ClientTypeOK, ClientsKeyed, KeysKept, clientVars
<1>4. RequestInv'
  BY <1>2 DEF Join, Goto, IInv, RequestInv, RequestTypeOK, RequestsKeyed, KeysKept,
              RequestSteps
<1> QED
  BY <1>2, <1>3, <1>4 DEF IInv

LEMMA DeleteKeeps ==
  ASSUME IInv, NEW r \in Requests, Delete(r)
  PROVE  IInv'
<1> USE TokenIssueAssumption, LSClientAssumption
<1>1. IssueInv'
  <2>1. CASE key[r] = None
    BY <2>1, StutterKeeps DEF Delete, IInv, issueVars
  <2>2. CASE key[r] # None
    BY <2>2, DeleteTokenKeeps DEF Delete, IInv, RequestInv, RequestTypeOK
  <2> QED
    BY <2>1, <2>2
<1>2. ClientInv' /\ RequestInv'
  BY DEF Delete, Goto, IInv, ClientInv, RequestInv, ClientTypeOK, RequestTypeOK, ClientsKeyed,
         RequestsKeyed, RequestSteps, clientVars
<1> QED
  BY <1>1, <1>2 DEF IInv

LEMMA StartKeeps ==
  ASSUME IInv, NEW r \in Requests, NEW c \in Clients,
         StartCall(r, c) \/ \E k \in AuthKeys[c] : StartAuthenticate(r, c, k)
  PROVE  IInv'
<1> USE TokenIssueAssumption, LSClientAssumption
<1>1. UNCHANGED issueVars
  BY DEF StartCall, StartAuthenticate
<1>2. IssueInv' /\ UNCHANGED fkey
  BY <1>1, StutterKeeps DEF IInv, issueVars
<1>3. CASE StartCall(r, c)
  BY <1>2, <1>3
     DEF StartCall, SelectedKey, Goto, IInv, ClientInv, RequestInv, ClientTypeOK, RequestTypeOK,
         ClientsKeyed, RequestsKeyed, RequestSteps, Results, clientVars
<1>4. ASSUME NEW k \in AuthKeys[c], StartAuthenticate(r, c, k)
      PROVE  IInv'
  <2>1. k \in Keys /\ k # None
    BY <1>4
  <2>2. ClientInv'
    BY <1>2, <1>4, <2>1
       DEF StartAuthenticate, SetCredentials, IInv, ClientInv, ClientTypeOK, ClientsKeyed
  <2>3. RequestInv'
    BY <1>2, <1>4, <2>1
       DEF StartAuthenticate, Goto, IInv, RequestInv, RequestTypeOK, RequestsKeyed, RequestSteps
  <2> QED
    BY <1>2, <2>2, <2>3 DEF IInv
<1> QED
  BY <1>3, <1>4

LEMMA IInvStep == ASSUME IInv, [Next]_vars PROVE IInv'
<1> USE TokenIssueAssumption, LSClientAssumption
<1>1. CASE UNCHANGED vars
  BY <1>1, StutterKeeps, IssuanceKeeps DEF vars, IInv
<1>2. ASSUME NEW r \in Requests, NEW c \in Clients,
             StartCall(r, c) \/ \E k \in AuthKeys[c] : StartAuthenticate(r, c, k)
      PROVE  IInv'
  BY <1>2, StartKeeps
<1>3. ASSUME NEW r \in Requests, Advance(r) \/ GiveUp(r)
      PROVE  IInv'
  BY <1>3, AdvanceKeeps, JoinKeeps, DeleteKeeps
<1>4. ASSUME NEW f \in Flights, IssueStep(f)
      PROVE  IInv'
  BY <1>4, IssueKeeps, IssuanceKeeps DEF IssueStep, IInv, KeysKept
<1>5. CASE \/ \E k \in Keys : RefillStep(k)
           \/ \E t \in Mortal : GrowOldStep(t)
           \/ \E t \in Revocable : RevokeStep(t)
  <2>1. /\ \/ \E k \in Keys : Refill(k)
           \/ \E t \in Flights : GrowOld(t) \/ Revoke(t)
        /\ UNCHANGED <<clientVars, requestVars>>
    BY <1>5 DEF RefillStep, GrowOldStep, RevokeStep
  <2> QED
    BY <2>1, EnvironmentKeeps, IssuanceKeeps DEF IInv, KeysKept
<1> QED
  BY <1>1, <1>2, <1>3, <1>4, <1>5 DEF Next

\* Every variable of the LS client keeps its type (internal/ls/client.go,
\* internal/ls/auth.go).
THEOREM LSClientTypeOK == Spec => []TypeOK
<1>1. Init => IInv
  BY IInvInit
<1>2. IInv /\ [Next]_vars => IInv'
  BY IInvStep
<1>3. IInv => TypeOK
  BY IInvImplies
<1> QED
  BY <1>1, <1>2, <1>3, PTL DEF Spec

\* The token a client holds was issued for the app key it has selected, in every
\* interleaving of requests, logins and issuances (setCredentialToken and
\* authenticateSelectedCredentials, internal/ls).
THEOREM LSClientTokenOfSelectedKey == Spec => []TokenOfSelectedKey
<1>1. Init => IInv
  BY IInvInit
<1>2. IInv /\ [Next]_vars => IInv'
  BY IInvStep
<1>3. IInv => TokenOfSelectedKey
  BY IInvImplies
<1> QED
  BY <1>1, <1>2, <1>3, PTL DEF Spec
\* What the token endpoint sees of a step of the client.
LEMMA StepRefines == ASSUME IInv, SoleInv, [Next]_vars PROVE SoleInv' /\ IssuerStep
<1>i. IssueInv
  BY DEF IInv
<1>1. CASE UNCHANGED issueVars
  BY <1>1, <1>i, StutterRefines
<1>2. ASSUME NEW r \in Requests, NEW f \in Flights, Join(r, f)
      PROVE  SoleInv' /\ IssuerStep
  <2>1. key[r] \in Keys
    BY <1>2 DEF Join, IInv, RequestInv, RequestTypeOK, RequestsKeyed
  <2> QED
    BY <1>2, <1>i, <2>1, DoChanRefines DEF Join
<1>3. ASSUME NEW r \in Requests, Delete(r)
      PROVE  SoleInv' /\ IssuerStep
  <2>1. CASE key[r] = None
    BY <1>3, <1>1, <2>1 DEF Delete, issueVars
  <2>2. CASE key[r] # None
    <3>1. key[r] \in Keys
      BY <2>2 DEF IInv, RequestInv, RequestTypeOK
    <3> QED
      BY <1>3, <1>i, <2>2, <3>1, DeleteTokenRefines DEF Delete
  <2> QED
    BY <2>1, <2>2
<1>4. ASSUME NEW f \in Flights, IssueStep(f)
      PROVE  SoleInv' /\ IssuerStep
  BY <1>4, <1>i, IssueRefines DEF IssueStep
<1>5. CASE \/ \E k \in Keys : RefillStep(k)
           \/ \E t \in Mortal : GrowOldStep(t)
           \/ \E t \in Revocable : RevokeStep(t)
  <2>1. \/ \E k \in Keys : Refill(k)
        \/ \E t \in Flights : GrowOld(t) \/ Revoke(t)
    BY <1>5, LSClientAssumption DEF RefillStep, GrowOldStep, RevokeStep
  <2> QED
    BY <1>i, <2>1, EnvironmentRefines
<1>6. ASSUME NEW r \in Requests, Advance(r) \/ GiveUp(r),
             ~ Delete(r), ~ \E f \in Flights : Join(r, f)
      PROVE  UNCHANGED issueVars
  BY <1>6 DEF Advance, GiveUp, ReadKey, LookUp, Install, FallBack, Ensure, Refresh, ReadCredentials,
              Select, AuthLookUp, AdoptCached, AdoptIssued, Send, Answered, Unauthorized, Clear
<1>7. ASSUME NEW r \in Requests, NEW c \in Clients,
             StartCall(r, c) \/ \E k \in AuthKeys[c] : StartAuthenticate(r, c, k)
      PROVE  UNCHANGED issueVars
  BY <1>7 DEF StartCall, StartAuthenticate
<1>8. CASE UNCHANGED vars
  BY <1>8, <1>1 DEF vars
<1> QED
  BY <1>1, <1>2, <1>3, <1>4, <1>5, <1>6, <1>7, <1>8 DEF Next

\* The clients together implement the single issuer: per app key one request for
\* a token at a time, none while one is served, and none served again once
\* withdrawn (authFlight and issueToken, internal/ls/auth.go).
THEOREM LSClientAsksOnceAtATime == Spec => AsksOnceAtATime
<1>1. Init => IInv /\ SoleInv /\ Issuer!Init
  BY IInvInit, SoleInvInit DEF Init
<1>2. IInv /\ SoleInv /\ [Next]_vars => IInv' /\ SoleInv' /\ [Issuer!Next]_(Issuer!issuerVars)
  BY IInvStep, StepRefines DEF IssuerStep
<1> QED
  BY <1>1, <1>2, PTL DEF Spec, AsksOnceAtATime, Issuer!Spec
-----------------------------------------------------------------------------
(* Logins.                                                                 *)

\* The broker refused a token for this key.
RefusedFor(k) == \E f \in Flights : step[f] = "done" /\ outcome[f] = None /\ fkey[f] = k

\* A request that logs in never gets onto the path of a call.
LoginInv(r) ==
  /\ pc[r] = "idle" => result[r] = "none"
  /\ pc[r] # "idle" /\ resume[r] = "end" =>
       /\ pc[r] \in {"select", "auth", "join", "await", "adopt", "end"}
       /\ client[r] \in Clients /\ key[r] \in AuthKeys[client[r]]
       /\ cred[client[r]] # None
       /\ result[r] = "failed" /\ AuthKeys[client[r]] = {key[r]} => RefusedFor(key[r])

LoginsInv ==
  /\ \A c \in Clients : cred[c] \in AuthKeys[c] \cup {None}
  /\ \A r \in Requests : LoginInv(r)

RefusalsStay == \A k \in Keys : RefusedFor(k) => RefusedFor(k)'

\* What a login failed with does not change any more.
LEMMA IssueRefusals ==
  ASSUME IssueInv, [Next]_vars
  PROVE  RefusalsStay
<1> SUFFICES ASSUME NEW k \in Keys, NEW f \in Flights, step[f] = "done", outcome[f] = None, fkey[f] = k
             PROVE  step'[f] = "done" /\ outcome'[f] = None /\ fkey'[f] = k
  BY DEF RefusalsStay, RefusedFor
<1>1. CASE UNCHANGED <<step, outcome, fkey>>
  BY <1>1
<1>2. ASSUME NEW r \in Requests, NEW g \in Flights, Join(r, g)
      PROVE  step'[f] = "done" /\ outcome'[f] = None /\ fkey'[f] = k
  BY <1>2 DEF Join, DoChan, IssueInv, TokenIssueTypeOK, issueVars
<1>3. ASSUME NEW g \in Flights, Issue(g)
      PROVE  step'[f] = "done" /\ outcome'[f] = None /\ fkey'[f] = k
  BY <1>3 DEF Issue, Enter, WaitForAuth, Recheck, PostGranted, PostFailed, Store, Settle, LookUpOr,
              IssueInv, TokenIssueTypeOK
<1>4. ASSUME NEW r \in Requests, Delete(r) PROVE UNCHANGED <<step, outcome, fkey>>
  BY <1>4 DEF Delete
<1>5. CASE \/ \E q \in Keys : RefillStep(q)
           \/ \E t \in Mortal : GrowOldStep(t)
           \/ \E t \in Revocable : RevokeStep(t)
  BY <1>1, <1>5 DEF RefillStep, GrowOldStep, RevokeStep, Refill, GrowOld, Revoke
<1>6. ASSUME NEW r \in Requests, Advance(r) \/ GiveUp(r),
             ~ Delete(r), ~ \E g \in Flights : Join(r, g)
      PROVE  UNCHANGED <<step, outcome, fkey>>
  BY <1>6 DEF Advance, GiveUp, ReadKey, LookUp, Install, FallBack, Ensure, Refresh, ReadCredentials,
              Select, AuthLookUp, AdoptCached, AdoptIssued, Send, Answered, Unauthorized, Clear,
              issueVars
<1>7. ASSUME NEW r \in Requests, NEW c \in Clients,
             StartCall(r, c) \/ \E q \in AuthKeys[c] : StartAuthenticate(r, c, q)
      PROVE  UNCHANGED <<step, outcome, fkey>>
  BY <1>7 DEF StartCall, StartAuthenticate, issueVars
<1>8. CASE UNCHANGED vars
  BY <1>1, <1>8 DEF vars, issueVars
<1> QED
  BY <1>1, <1>2, <1>3, <1>4, <1>5, <1>6, <1>7, <1>8 DEF Next, IssueStep

\* A request that a step leaves alone.
LEMMA LoginStays ==
  ASSUME IInv, LoginsInv, RefusalsStay, NEW d \in Requests,
         \A c \in Clients : cred[c] # None => cred'[c] # None,
         pc'[d] = pc[d], client'[d] = client[d], key'[d] = key[d], resume'[d] = resume[d],
         result'[d] = result[d]
  PROVE  LoginInv(d)'
BY LSClientAssumption DEF LoginsInv, LoginInv, RefusalsStay, IInv, RequestInv, RequestTypeOK

\* A step of a request that is on the path of a call and stays there.
LEMMA CallStays ==
  ASSUME NEW r \in Requests, pc'[r] # "idle", resume'[r] # "end"
  PROVE  LoginInv(r)'
BY DEF LoginInv

LEMMA AdvanceLogin ==
  ASSUME IInv, LoginsInv, RefusalsStay, NEW r \in Requests, Advance(r) \/ GiveUp(r)
  PROVE  LoginInv(r)'
<1> USE TokenIssueAssumption, LSClientAssumption
<1>t. /\ pc \in [Requests -> RequestSteps] /\ result \in [Requests -> Results]
      /\ key \in [Requests -> Keys \cup {None}] /\ resume \in [Requests -> {"limiter", "valid", "end"}]
      /\ LoginInv(r)
      /\ \A c \in Clients : cred[c] \in AuthKeys[c] \cup {None} /\ AuthKeys[c] \subseteq Keys
  BY DEF IInv, RequestInv, RequestTypeOK, LoginsInv
<1>1. CASE resume[r] # "end"
  <2>1. pc'[r] # "idle" /\ resume'[r] # "end"
    BY <1>1, <1>t
       DEF Advance, GiveUp, ReadKey, SelectedKey, LookUp, Install, FallBack, Ensure, Refresh,
           ReadCredentials, Select, AuthLookUp, Join, AdoptCached, AdoptIssued, InstallOrRefuse, Send,
           Answered, Unauthorized, Clear, Delete, End, Goto
  <2> QED
    BY <2>1, CallStays
<1>2. CASE resume[r] = "end"
  <2>1. \/ Select(r) \/ AuthLookUp(r) \/ (\E f \in Flights : Join(r, f))
        \/ AdoptCached(r) \/ AdoptIssued(r)
        \/ GiveUp(r) /\ pc[r] \in {"auth", "await"}
    BY <1>2, <1>t
       DEF LoginInv, Advance, GiveUp, ReadKey, LookUp, Install, FallBack, Ensure, Refresh,
           ReadCredentials, Send, Answered, Unauthorized, Clear, Delete
  <2>2. pc[r] # "idle" /\ UNCHANGED <<client, key, resume, cred>>
    BY <2>1 DEF Select, AuthLookUp, Join, AdoptCached, AdoptIssued, GiveUp, clientVars
  <2>3. /\ client[r] \in Clients /\ key[r] \in AuthKeys[client[r]] /\ cred[client[r]] # None
        /\ result[r] = "failed" /\ AuthKeys[client[r]] = {key[r]} => RefusedFor(key[r])
    BY <1>2, <1>t, <2>2 DEF LoginInv
  <2>4. AuthKeys[client[r]] = {key[r]} => cred[client[r]] = key[r]
    BY <1>t, <2>3
  <2>5. pc'[r] \in {"auth", "join", "await", "adopt", "end"}
    <3>1. CASE Select(r) \/ AuthLookUp(r) \/ (\E f \in Flights : Join(r, f)) \/ GiveUp(r)
      BY <1>t, <3>1 DEF Select, AuthLookUp, Join, GiveUp, End, Goto
    <3>2. CASE AdoptCached(r) \/ AdoptIssued(r)
      BY <1>2, <1>t, <3>2 DEF AdoptCached, AdoptIssued, InstallOrRefuse, End, Goto
    <3> QED
      BY <2>1, <3>1, <3>2
  <2>6. result'[r] = "failed" /\ AuthKeys[client[r]] = {key[r]} => RefusedFor(key[r])
    <3>1. CASE Select(r) \/ AuthLookUp(r) \/ (\E f \in Flights : Join(r, f)) \/ AdoptCached(r)
               \/ GiveUp(r)
      BY <1>2, <1>t, <2>3, <2>4, <3>1
         DEF Select, AuthLookUp, Join, AdoptCached, InstallOrRefuse, GiveUp, End, Goto
    <3>2. CASE AdoptIssued(r)
      <4>1. fl[r] \in Flights /\ fkey[fl[r]] = key[r] /\ step[fl[r]] = "done"
        BY <3>2 DEF AdoptIssued, IInv, RequestInv, RequestTypeOK, RequestsKeyed
      <4>2. CASE outcome[fl[r]] = None
        BY <4>1, <4>2 DEF RefusedFor
      <4>3. CASE outcome[fl[r]] # None
        BY <1>2, <1>t, <2>3, <2>4, <3>2, <4>3 DEF AdoptIssued, InstallOrRefuse, End, Goto
      <4> QED
        BY <4>2, <4>3
    <3> QED
      BY <2>1, <3>1, <3>2
  <2>7. RefusedFor(key[r]) => RefusedFor(key[r])'
    BY <1>t, <2>2, <2>3 DEF RefusalsStay
  <2>8. /\ client'[r] = client[r] /\ key'[r] = key[r] /\ resume'[r] = resume[r]
        /\ cred'[client[r]] # None
    BY <2>2, <2>3
  <2> QED
    BY <2>3, <2>5, <2>6, <2>7, <2>8 DEF LoginInv
<1> QED
  BY <1>1, <1>2

\* A step of a request touches no other.
LEMMA AdvanceAlone ==
  ASSUME IInv, NEW r \in Requests, Advance(r) \/ GiveUp(r)
  PROVE  /\ UNCHANGED cred
         /\ \A d \in Requests \ {r} :
              /\ pc'[d] = pc[d] /\ client'[d] = client[d] /\ key'[d] = key[d]
              /\ resume'[d] = resume[d] /\ result'[d] = result[d]
<1>1. RequestTypeOK
  BY DEF IInv, RequestInv
<1>2. CASE ReadKey(r) \/ LookUp(r) \/ Install(r) \/ FallBack(r) \/ Ensure(r) \/ Refresh(r) \/ Select(r)
           \/ AuthLookUp(r) \/ (\E f \in Flights : Join(r, f))
  BY <1>1, <1>2 DEF RequestTypeOK, ReadKey, SelectedKey, LookUp, Install, FallBack, Ensure, Refresh,
                     ReadCredentials, Select, AuthLookUp, Join, End, Goto, clientVars
<1>3. CASE AdoptCached(r) \/ AdoptIssued(r) \/ Send(r) \/ Answered(r) \/ Unauthorized(r) \/ Clear(r)
           \/ Delete(r) \/ GiveUp(r)
  BY <1>1, <1>3 DEF RequestTypeOK, AdoptCached, AdoptIssued, InstallOrRefuse, Send, Answered,
                     Unauthorized, Clear, Delete, GiveUp, End, Goto, clientVars
<1> QED
  BY <1>2, <1>3 DEF Advance

LEMMA LoginsInit == ASSUME Init PROVE LoginsInv
BY DEF Init, LoginsInv, LoginInv

LEMMA LoginsStep == ASSUME IInv, LoginsInv, [Next]_vars PROVE LoginsInv'
<1> USE TokenIssueAssumption, LSClientAssumption
<1>1. RefusalsStay
  BY IssueRefusals DEF IInv
<1>2. CASE UNCHANGED <<clientVars, requestVars>>
  BY <1>1, <1>2, LoginStays DEF LoginsInv, clientVars, requestVars
<1>3. ASSUME NEW r \in Requests, Advance(r) \/ GiveUp(r) PROVE LoginsInv'
  <2>1. \A d \in Requests \ {r} : LoginInv(d)'
    BY <1>1, <1>3, AdvanceAlone, LoginStays
  <2>2. LoginInv(r)'
    BY <1>1, <1>3, AdvanceLogin
  <2> QED
    BY <1>3, <2>1, <2>2, AdvanceAlone DEF LoginsInv
<1>4. ASSUME NEW r \in Requests, NEW c \in Clients, StartCall(r, c) PROVE LoginsInv'
  <2>1. pc'[r] # "idle" /\ resume'[r] # "end"
    BY <1>4 DEF StartCall, SelectedKey, Goto, IInv, RequestInv, RequestTypeOK
  <2>2. /\ UNCHANGED cred
        /\ \A d \in Requests \ {r} :
             /\ pc'[d] = pc[d] /\ client'[d] = client[d] /\ key'[d] = key[d]
             /\ resume'[d] = resume[d] /\ result'[d] = result[d]
    BY <1>4 DEF StartCall, SelectedKey, Goto, IInv, RequestInv, RequestTypeOK, clientVars
  <2> QED
    BY <1>1, <2>1, <2>2, CallStays, LoginStays DEF LoginsInv
<1>5. ASSUME NEW r \in Requests, NEW c \in Clients, NEW k \in AuthKeys[c], StartAuthenticate(r, c, k)
      PROVE  LoginsInv'
  <2>1. k \in Keys /\ k # None
    OBVIOUS
  <2>2. cred' = [cred EXCEPT ![c] = k] /\ cred \in [Clients -> Keys \cup {None}]
    BY <1>5 DEF StartAuthenticate, SetCredentials, IInv, ClientInv, ClientTypeOK
  <2>3. \A j \in Clients : cred'[j] \in AuthKeys[j] \cup {None} /\ (cred[j] # None => cred'[j] # None)
    BY <2>1, <2>2 DEF LoginsInv
  <2>4. \A d \in Requests \ {r} :
          /\ pc'[d] = pc[d] /\ client'[d] = client[d] /\ key'[d] = key[d]
          /\ resume'[d] = resume[d] /\ result'[d] = result[d]
    BY <1>5 DEF StartAuthenticate, Goto, IInv, RequestInv, RequestTypeOK
  <2>5. /\ pc'[r] = "select" /\ client'[r] = c /\ key'[r] = k /\ result'[r] = "none"
        /\ cred'[c] = k
    BY <1>5, <2>2 DEF StartAuthenticate, Goto, IInv, RequestInv, RequestTypeOK, LoginsInv, LoginInv
  <2>6. LoginInv(r)'
    BY <2>1, <2>5 DEF LoginInv
  <2> QED
    BY <1>1, <2>3, <2>4, <2>6, LoginStays DEF LoginsInv
<1>6. CASE \/ \E f \in Flights : IssueStep(f)
           \/ \E k \in Keys : RefillStep(k)
           \/ \E t \in Mortal : GrowOldStep(t)
           \/ \E t \in Revocable : RevokeStep(t)
  BY <1>2, <1>6 DEF IssueStep, RefillStep, GrowOldStep, RevokeStep
<1> QED
  BY <1>2, <1>3, <1>4, <1>5, <1>6 DEF Next, vars

\* A login of a client that keeps its app key fails only when the broker has refused
\* a token for that key: no caller that gives up, and no other account's trouble, ever
\* fails it (authenticateSelectedCredentials, internal/ls/auth.go).
THEOREM LSClientLoginFailsOnlyWithBroker == Spec => []LoginFailsOnlyWithBroker
<1>1. Init => IInv /\ LoginsInv
  BY IInvInit, LoginsInit
<1>2. IInv /\ LoginsInv /\ [Next]_vars => IInv' /\ LoginsInv'
  BY IInvStep, LoginsStep
<1>3. IInv /\ LoginsInv => LoginFailsOnlyWithBroker
  BY DEF LoginsInv, LoginInv, LoginFailsOnlyWithBroker, RefusedFor
<1> QED
  BY <1>1, <1>2, <1>3, PTL DEF Spec
=============================================================================
