------------------------------ MODULE LSClient ------------------------------
(***************************************************************************)
(* The LS client (internal/ls/client.go, internal/ls/auth.go): request     *)
(* goroutines that call an endpoint or authenticate a client explicitly    *)
(* (POST /auth/token, the background login of the server), sharing the     *)
(* token manager and the singleflight group of module TokenIssue.          *)
(*                                                                         *)
(* Every read or write of a client's fields under its mutex, and every     *)
(* call of the token manager, is one step: the code holds no lock from one *)
(* to the next.                                                            *)
(***************************************************************************)
EXTENDS TokenIssue

CONSTANTS
  Clients,    \* one Client per LS account
  Requests,   \* goroutines; each makes one call of the client
  AuthKeys,   \* AuthKeys[c]: the app keys c is ever authenticated with
  Selected,   \* the clients with credentials already: a login that failed leaves
              \* them selected
  Mortal,     \* the tokens that may grow old while the model runs
  Revocable   \* the tokens the broker may revoke before they expire

ASSUME LSClientAssumption ==
  /\ AuthKeys \in [Clients -> SUBSET Keys]
  /\ Selected \subseteq Clients
  /\ Mortal \subseteq Flights
  /\ Revocable \subseteq Flights
  /\ None \notin Clients

VARIABLES
  cred,       \* the app key each client has selected, None before the first login
  local,      \* the token each client holds, None for the empty string
  pc,         \* where each request is
  client,     \* the client it runs on
  key,        \* the app key it read
  tok,        \* the token it was given and has not yet installed
  fl,         \* the issuance it waits for
  resume,     \* where it goes on once its authentication has succeeded
  retry,      \* it may still retry after an unauthorized answer
  sent,       \* the token in the header of its last attempt
  result      \* how it ended: "ctx" when its own context ended

clientVars  == <<cred, local>>
requestVars == <<pc, client, key, tok, fl, resume, retry, sent, result>>
vars == <<issueVars, clientVars, requestVars>>

RequestSteps == {"idle", "valid", "lookup", "install", "fallback", "ensure", "select",
                 "auth", "join", "await", "adopt", "limiter", "reply",
                 "clear", "delete", "refresh", "end"}
Results == {"none", "ok", "failed", "ctx"}

TypeOK ==
  /\ TokenIssueTypeOK
  /\ cred \in [Clients -> Keys \cup {None}]
  /\ local \in [Clients -> Flights \cup {None}]
  /\ pc \in [Requests -> RequestSteps]
  /\ client \in [Requests -> Clients \cup {None}]
  /\ key \in [Requests -> Keys \cup {None}]
  /\ tok \in [Requests -> Flights \cup {None}]
  /\ fl \in [Requests -> Flights \cup {None}]
  /\ resume \in [Requests -> {"limiter", "valid", "end"}]
  /\ retry \in [Requests -> BOOLEAN]
  /\ sent \in [Requests -> Flights \cup {None}]
  /\ result \in [Requests -> Results]

Init ==
  /\ TokenIssueInit
  /\ cred \in [Clients -> Keys \cup {None}]
  /\ \A c \in Clients : cred[c] \in IF c \in Selected THEN AuthKeys[c] ELSE {None}
  /\ local = [c \in Clients |-> None]
  /\ pc = [r \in Requests |-> "idle"]
  /\ client = [r \in Requests |-> None]
  /\ key = [r \in Requests |-> None]
  /\ tok = [r \in Requests |-> None]
  /\ fl = [r \in Requests |-> None]
  /\ resume = [r \in Requests |-> "end"]
  /\ retry = [r \in Requests |-> FALSE]
  /\ sent = [r \in Requests |-> None]
  /\ result = [r \in Requests |-> "none"]

-----------------------------------------------------------------------------
Goto(r, l) == pc' = [pc EXCEPT ![r] = l]

End(r, how) ==
  /\ Goto(r, "end")
  /\ result' = [result EXCEPT ![r] = how]

\* A client presents a token it holds until two minutes before it expires.
LocallyValid(c) == local[c] # None /\ age[local[c]] # "expired"

-----------------------------------------------------------------------------
(* Entry points.                                                           *)

\* isTokenValid reads the selected key to look the manager up with.
SelectedKey(r, c) ==
  /\ key' = [key EXCEPT ![r] = cred[c]]
  /\ Goto(r, IF cred[c] = None THEN "fallback" ELSE "lookup")

\* callEndpointAttempt with retryUnauthorized set, up to its first read.
StartCall(r, c) ==
  /\ pc[r] = "idle"
  /\ client' = [client EXCEPT ![r] = c]
  /\ retry' = [retry EXCEPT ![r] = TRUE]
  /\ resume' = [resume EXCEPT ![r] = "limiter"]
  /\ SelectedKey(r, c)
  /\ UNCHANGED <<issueVars, clientVars, tok, fl, sent, result>>

\* Fault: the two fields are swapped.
SetCredentialsSwapped(c, k) ==
  /\ cred' = [cred EXCEPT ![c] = IF cred[c] = k THEN @ ELSE None]
  /\ local' = [local EXCEPT ![c] = k]

\* setCredentials: a token belongs to the credentials it was issued for.
SetCredentials(c, k) ==
  /\ cred' = [cred EXCEPT ![c] = k]
  /\ local' = [local EXCEPT ![c] = IF cred[c] = k THEN @ ELSE None]

\* Authenticate: select the credentials, then authenticate with them.
StartAuthenticate(r, c, k) ==
  /\ pc[r] = "idle"
  /\ client' = [client EXCEPT ![r] = c]
  /\ SetCredentials(c, k)
  /\ key' = [key EXCEPT ![r] = k]
  /\ resume' = [resume EXCEPT ![r] = "end"]
  /\ Goto(r, "select")
  /\ UNCHANGED <<issueVars, tok, fl, retry, sent, result>>

-----------------------------------------------------------------------------
(* ensureToken: isTokenValid, then authenticateSelectedCredentials.        *)

\* The second attempt starts over.
ReadKey(r) ==
  /\ pc[r] = "valid"
  /\ SelectedKey(r, client[r])
  /\ UNCHANGED <<issueVars, clientVars, client, tok, fl, resume, retry, sent, result>>

\* isTokenValid asks the manager for the token of that key,
LookUp(r) ==
  /\ pc[r] = "lookup"
  /\ IF Serves(key[r])
       THEN /\ tok' = [tok EXCEPT ![r] = cache[key[r]]]
            /\ Goto(r, "install")
       ELSE /\ Goto(r, "fallback")
            /\ UNCHANGED tok
  /\ UNCHANGED <<issueVars, clientVars, client, key, fl, resume, retry, sent, result>>

\* Fault: the token is installed whichever credentials are selected by now.
InstallAlways(r) ==
  /\ pc[r] = "install"
  /\ local' = [local EXCEPT ![client[r]] = tok[r]]
  /\ Goto(r, "limiter")
  /\ tok' = [tok EXCEPT ![r] = None]
  /\ UNCHANGED <<issueVars, cred, client, key, fl, resume, retry, sent, result>>

\* and installs it with setCredentialToken, unless the credentials have changed.
Install(r) ==
  /\ pc[r] = "install"
  /\ IF cred[client[r]] = key[r]
       THEN /\ local' = [local EXCEPT ![client[r]] = tok[r]]
            /\ Goto(r, "limiter")
       ELSE /\ Goto(r, "ensure")
            /\ UNCHANGED local
  /\ tok' = [tok EXCEPT ![r] = None]
  /\ UNCHANGED <<issueVars, cred, client, key, fl, resume, retry, sent, result>>

\* The manager has none to serve: the token the client holds may still do.
FallBack(r) ==
  /\ pc[r] = "fallback"
  /\ Goto(r, IF LocallyValid(client[r]) THEN "limiter" ELSE "ensure")
  /\ UNCHANGED <<issueVars, clientVars, client, key, tok, fl, resume, retry, sent, result>>

\* The credentials to authenticate with are read afresh.
ReadCredentials(r, from, to) ==
  /\ pc[r] = from
  /\ key' = [key EXCEPT ![r] = cred[client[r]]]
  /\ IF cred[client[r]] = None
       THEN End(r, "failed") /\ UNCHANGED resume
       ELSE /\ resume' = [resume EXCEPT ![r] = to]
            /\ Goto(r, "select")
            /\ UNCHANGED result
  /\ UNCHANGED <<issueVars, clientVars, client, tok, fl, retry, sent>>

Ensure(r) == ReadCredentials(r, "ensure", "limiter")

-----------------------------------------------------------------------------
(* authenticateSelectedCredentials.                                        *)

\* Refuses credentials that are no longer the selected ones.
Select(r) ==
  /\ pc[r] = "select"
  /\ IF cred[client[r]] # key[r]
       THEN End(r, "failed")
       ELSE /\ Goto(r, "auth")
            /\ UNCHANGED result
  /\ UNCHANGED <<issueVars, clientVars, client, key, tok, fl, resume, retry, sent>>

AuthLookUp(r) ==
  /\ pc[r] = "auth"
  /\ IF Serves(key[r])
       THEN /\ tok' = [tok EXCEPT ![r] = cache[key[r]]]
            /\ Goto(r, "adopt")
       ELSE /\ Goto(r, "join")
            /\ UNCHANGED tok
  /\ UNCHANGED <<issueVars, clientVars, client, key, fl, resume, retry, sent, result>>

Join(r, f) ==
  /\ pc[r] = "join"
  /\ DoChan(key[r], f)
  /\ fl' = [fl EXCEPT ![r] = f]
  /\ Goto(r, "await")
  /\ UNCHANGED <<clientVars, client, key, tok, resume, retry, sent, result>>

\* setCredentialToken, then the end of a login or the way back to the call.
InstallOrRefuse(r, t) ==
  IF cred[client[r]] # key[r]
    THEN End(r, "failed") /\ UNCHANGED local
    ELSE /\ local' = [local EXCEPT ![client[r]] = t]
         /\ IF resume[r] = "end"
              THEN End(r, "ok")
              ELSE Goto(r, resume[r]) /\ UNCHANGED result

\* A cached token is installed,
AdoptCached(r) ==
  /\ pc[r] = "adopt"
  /\ InstallOrRefuse(r, tok[r])
  /\ tok' = [tok EXCEPT ![r] = None]
  /\ UNCHANGED <<issueVars, cred, client, key, fl, resume, retry, sent>>

\* Fault: the issuance runs on the context of a caller, and everyone who joined
\* it fails when one of them has given up.
AdoptIssuedShared(r) ==
  /\ pc[r] = "await"
  /\ step[fl[r]] = "done"
  /\ IF outcome[fl[r]] = None \/ \E q \in Requests : fl[q] = fl[r] /\ result[q] = "ctx"
       THEN End(r, "failed") /\ UNCHANGED local
       ELSE InstallOrRefuse(r, outcome[fl[r]])
  /\ fl' = [fl EXCEPT ![r] = None]
  /\ UNCHANGED <<issueVars, cred, client, key, tok, resume, retry, sent>>

\* or the token the awaited issuance returned.
AdoptIssued(r) ==
  /\ pc[r] = "await"
  /\ step[fl[r]] = "done"
  /\ IF outcome[fl[r]] = None
       THEN End(r, "failed") /\ UNCHANGED local
       ELSE InstallOrRefuse(r, outcome[fl[r]])
  /\ fl' = [fl EXCEPT ![r] = None]
  /\ UNCHANGED <<issueVars, cred, client, key, tok, resume, retry, sent>>

-----------------------------------------------------------------------------
(* The attempt itself.                                                     *)

\* Both limiters let the request pass; the token is read into the header.
Send(r) ==
  /\ pc[r] = "limiter"
  /\ sent' = [sent EXCEPT ![r] = local[client[r]]]
  /\ Goto(r, "reply")
  /\ UNCHANGED <<issueVars, clientVars, client, key, tok, fl, resume, retry, result>>

\* The tokens the broker accepts; it answers unauthorized to any other, an
\* empty one included.
Accepted == {t \in Flights : t \notin revoked /\ age[t] \in {"fresh", "aging"}}

\* The answer is a success or an error other than unauthorized.
Answered(r) ==
  /\ pc[r] = "reply"
  /\ \/ BrokerMayFail /\ End(r, "failed")
     \/ sent[r] \in Accepted /\ End(r, "ok")
  /\ UNCHANGED <<issueVars, clientVars, client, key, tok, fl, resume, retry>>
  /\ sent' = [sent EXCEPT ![r] = None]

\* Unauthorized: the first time invalidateAndRefresh reads the selected key,
\* the second time is final.
Unauthorized(r) ==
  /\ pc[r] = "reply"
  /\ sent[r] \notin Accepted
  /\ IF retry[r]
       THEN /\ retry' = [retry EXCEPT ![r] = FALSE]
            /\ key' = [key EXCEPT ![r] = cred[client[r]]]
            /\ Goto(r, "clear")
            /\ UNCHANGED result
       ELSE End(r, "failed") /\ UNCHANGED <<key, retry>>
  /\ UNCHANGED <<issueVars, clientVars, client, tok, fl, resume>>
  /\ sent' = [sent EXCEPT ![r] = None]

\* clears the client's token,
Clear(r) ==
  /\ pc[r] = "clear"
  /\ local' = [local EXCEPT ![client[r]] = None]
  /\ Goto(r, "delete")
  /\ UNCHANGED <<issueVars, cred, client, key, tok, fl, resume, retry, sent, result>>

\* deletes the manager's,
Delete(r) ==
  /\ pc[r] = "delete"
  /\ IF key[r] = None THEN UNCHANGED cache ELSE DeleteToken(key[r])
  /\ Goto(r, "refresh")
  /\ UNCHANGED <<group, step, fkey, outcome, age, revoked, permit>>
  /\ UNCHANGED <<clientVars, client, key, tok, fl, resume, retry, sent, result>>

\* and authenticates before the second attempt.
Refresh(r) == ReadCredentials(r, "refresh", "valid")

-----------------------------------------------------------------------------
(* Contexts.                                                               *)

\* The places that give up once the caller has gone or its deadline has passed:
\* before the cache is looked up, waiting for an issuance (whose call goes on),
\* for a limiter or for the answer.
GiveUp(r) ==
  /\ pc[r] \in {"auth", "await", "limiter", "reply"}
  /\ End(r, "ctx")
  /\ UNCHANGED <<issueVars, clientVars, client, key, tok, fl, resume, retry, sent>>

-----------------------------------------------------------------------------
\* The steps of a request that are never left undone.
Advance(r) ==
  \/ ReadKey(r) \/ LookUp(r) \/ Install(r) \/ FallBack(r) \/ Ensure(r)
  \/ Select(r) \/ AuthLookUp(r) \/ (\E f \in Flights : Join(r, f))
  \/ AdoptCached(r) \/ AdoptIssued(r)
  \/ Send(r) \/ Answered(r) \/ Unauthorized(r)
  \/ Clear(r) \/ Delete(r) \/ Refresh(r)

IssueStep(f) == Issue(f) /\ UNCHANGED <<clientVars, requestVars>>

RefillStep(k) == Refill(k) /\ UNCHANGED <<clientVars, requestVars>>

GrowOldStep(t) == GrowOld(t) /\ UNCHANGED <<clientVars, requestVars>>

RevokeStep(t) == Revoke(t) /\ UNCHANGED <<clientVars, requestVars>>

Next ==
  \/ \E r \in Requests, c \in Clients :
       StartCall(r, c) \/ \E k \in AuthKeys[c] : StartAuthenticate(r, c, k)
  \/ \E r \in Requests : Advance(r) \/ GiveUp(r)
  \/ \E f \in Flights : IssueStep(f)
  \/ \E k \in Keys : RefillStep(k)
  \/ \E t \in Mortal : GrowOldStep(t)
  \/ \E t \in Revocable : RevokeStep(t)

Spec == Init /\ [][Next]_vars

\* Goroutines run, the HTTP timeouts bound every wait for the broker and a
\* minute passes on the auth limiter.
Fairness ==
  /\ \A r \in Requests : WF_vars(Advance(r))
  /\ \A f \in Flights : WF_vars(IssueStep(f))
  /\ \A k \in Keys : WF_vars(RefillStep(k))

FairSpec == Spec /\ Fairness

-----------------------------------------------------------------------------
(* Properties.                                                             *)

\* The token a client holds was issued for the app key it has selected: a stale
\* refresh, a cache hit or an issuance started before the credentials were
\* switched never leaves the previous account's token on the client
\* (setCredentialToken, internal/ls/client.go).
TokenOfSelectedKey ==
  \A c \in Clients : local[c] # None => fkey[local[c]] = cred[c]

\* Per app key the clients ask the broker for one token at a time, only while
\* the cache serves none, and never serve a token again once it was withdrawn:
\* the promise of module SingleIssuer (authFlight and issueToken).
AsksOnceAtATime == Issuer!Spec

\* A login of a client that keeps its app key fails only when the broker refused a
\* token for that key, whichever other callers of the issuance gave up ("one
\* canceled caller cannot poison the refresh", internal/ls/auth.go).
LoginFailsOnlyWithBroker ==
  \A r \in Requests :
    (/\ pc[r] = "end" /\ resume[r] = "end" /\ result[r] = "failed"
     /\ AuthKeys[client[r]] = {key[r]})
      => \E f \in Flights : step[f] = "done" /\ outcome[f] = None /\ fkey[f] = key[r]

\* Every request ends, also when it has to wait for the auth limiter, for an
\* issuance another request started, or for a retry.
EveryRequestReturns ==
  \A r \in Requests : pc[r] # "idle" ~> pc[r] = "end"

\* The comment on authFlight: a burst of requests hitting an expired or revoked
\* token results in a single token call, so no second token is granted while
\* one the broker accepts is fresh.
BurstSharesOneTokenCall ==
  \A k \in Keys :
    Cardinality({f \in Flights : fkey[f] = k /\ age[f] = "fresh" /\ f \notin revoked}) <= 1
=============================================================================
