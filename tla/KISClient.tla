------------------------------ MODULE KISClient -----------------------------
(***************************************************************************)
(* The KIS client (internal/kis/client.go, internal/kis/auth.go): request  *)
(* goroutines over the token manager and the singleflight group of module  *)
(* TokenIssue.  Unlike the LS client it does not tie a token to the        *)
(* credentials it was asked for: whoever has a token sets it, and every    *)
(* authentication, the refresh after a 401 included, selects its           *)
(* credentials again.                                                      *)
(***************************************************************************)
EXTENDS TokenIssue

CONSTANTS
  Clients,    \* one Client per KIS account
  Requests,   \* goroutines; each makes one call of the client
  AuthKeys,   \* AuthKeys[c]: the app keys c is ever authenticated with
  Selected,   \* the clients with credentials already: a login that failed leaves
              \* them selected
  Mortal,     \* the tokens that may grow old while the model runs
  Revocable   \* the tokens the broker may revoke before they expire

ASSUME KISClientAssumption ==
  /\ AuthKeys \in [Clients -> SUBSET Keys]
  /\ Selected \subseteq Clients
  /\ Mortal \subseteq Flights
  /\ Revocable \subseteq Flights
  /\ None \notin Clients

VARIABLES
  cred,       \* Client.appKey, None before the first authentication
  local,      \* Client.accessToken, None for the empty string
  pc,         \* where each request is
  client,     \* the client it runs on
  key,        \* the app key it read
  tok,        \* the token it was given and has not yet set
  fl,         \* the issuance it waits for
  resume,     \* where it goes on once its authentication has succeeded
  retry,      \* its next 401 is the first
  refused,    \* the token its first attempt was answered 401 for
  sent,       \* the token in the header of its last attempt
  sentKey,    \* the app key in the header of its last attempt
  result      \* how it ended: "ctx" when its own context ended

clientVars  == <<cred, local>>
requestVars == <<pc, client, key, tok, fl, resume, retry, refused, sent, sentKey, result>>
vars == <<issueVars, clientVars, requestVars>>

RequestSteps == {"idle", "valid", "lookup", "install", "fallback", "refresh", "select",
                 "auth", "adopt", "join", "await", "limiter", "header", "reply",
                 "clear", "delete", "end"}
Results == {"none", "ok", "failed", "ctx"}

TypeOK ==
  /\ TokenIssueTypeOK
  /\ cred \in [Clients -> Keys \cup {None}]
  /\ local \in [Clients -> Flights \cup {None}]
  /\ pc \in [Requests -> RequestSteps]
  /\ client \in [Requests -> Clients \cup {None}]
  /\ key \in [Requests -> Keys \cup {None}]
  /\ tok \in [Requests -> Flights \cup {None}]
  /\ fl \in [Requests -> Flights \cup {None}]
  /\ resume \in [Requests -> {"limiter", "valid", "end"}]
  /\ retry \in [Requests -> BOOLEAN]
  /\ refused \in [Requests -> Flights \cup {None}]
  /\ sent \in [Requests -> Flights \cup {None}]
  /\ sentKey \in [Requests -> Keys \cup {None}]
  /\ result \in [Requests -> Results]

Init ==
  /\ TokenIssueInit
  /\ cred \in [Clients -> Keys \cup {None}]
  /\ \A c \in Clients : cred[c] \in IF c \in Selected THEN AuthKeys[c] ELSE {None}
  /\ local = [c \in Clients |-> None]
  /\ pc = [r \in Requests |-> "idle"]
  /\ client = [r \in Requests |-> None]
  /\ key = [r \in Requests |-> None]
  /\ tok = [r \in Requests |-> None]
  /\ fl = [r \in Requests |-> None]
  /\ resume = [r \in Requests |-> "end"]
  /\ retry = [r \in Requests |-> TRUE]
  /\ refused = [r \in Requests |-> None]
  /\ sent = [r \in Requests |-> None]
  /\ sentKey = [r \in Requests |-> None]
  /\ result = [r \in Requests |-> "none"]

-----------------------------------------------------------------------------
Goto(r, l) == pc' = [pc EXCEPT ![r] = l]

End(r, how) ==
  /\ Goto(r, "end")
  /\ result' = [result EXCEPT ![r] = how]

setToken(r, t) == local' = [local EXCEPT ![client[r]] = t]

\* isTokenValid leaves the same five minutes as the manager.
LocallyValid(c) == local[c] # None /\ age[local[c]] = "fresh"

-----------------------------------------------------------------------------
(* isTokenValid, at the start of each attempt.                             *)

SelectedKey(r, c) ==
  /\ key' = [key EXCEPT ![r] = cred[c]]
  /\ Goto(r, IF cred[c] = None THEN "fallback" ELSE "lookup")

\* doRequest, up to the first read of its first attempt.
StartCall(r, c) ==
  /\ pc[r] = "idle"
  /\ client' = [client EXCEPT ![r] = c]
  /\ resume' = [resume EXCEPT ![r] = "limiter"]
  /\ SelectedKey(r, c)
  /\ UNCHANGED <<issueVars, clientVars, tok, fl, retry, refused, sent, sentKey, result>>

\* The second attempt starts over.
ReadKey(r) ==
  /\ pc[r] = "valid"
  /\ resume' = [resume EXCEPT ![r] = "limiter"]
  /\ SelectedKey(r, client[r])
  /\ UNCHANGED <<issueVars, clientVars, client, tok, fl, retry, refused, sent, sentKey, result>>

LookUp(r) ==
  /\ pc[r] = "lookup"
  /\ IF Serves(key[r])
       THEN tok' = [tok EXCEPT ![r] = cache[key[r]]] /\ Goto(r, "install")
       ELSE Goto(r, "fallback") /\ UNCHANGED tok
  /\ UNCHANGED <<issueVars, clientVars, client, key, fl, resume, retry, refused, sent, sentKey,
                 result>>

\* The manager's token replaces the client's, whatever happened in between.
Install(r) ==
  /\ pc[r] = "install"
  /\ setToken(r, tok[r])
  /\ tok' = [tok EXCEPT ![r] = None]
  /\ Goto(r, "limiter")
  /\ UNCHANGED <<issueVars, cred, client, key, fl, resume, retry, refused, sent, sentKey, result>>

FallBack(r) ==
  /\ pc[r] = "fallback"
  /\ Goto(r, IF LocallyValid(client[r]) THEN "limiter" ELSE "refresh")
  /\ UNCHANGED <<issueVars, clientVars, client, key, tok, fl, resume, retry, refused, sent,
                 sentKey, result>>

-----------------------------------------------------------------------------
(* refreshToken and Authenticate.                                          *)

\* refreshToken reads the credentials; Authenticate refuses empty ones,
Refresh(r) ==
  /\ pc[r] = "refresh"
  /\ key' = [key EXCEPT ![r] = cred[client[r]]]
  /\ IF cred[client[r]] = None
       THEN End(r, "failed")
       ELSE Goto(r, "select") /\ UNCHANGED result
  /\ UNCHANGED <<issueVars, clientVars, client, tok, fl, resume, retry, refused, sent, sentKey>>

\* and selects the others, once more; the token stays.
SetCredentials(r, k) ==
  /\ cred' = [cred EXCEPT ![client[r]] = k]
  /\ UNCHANGED local

Select(r) ==
  /\ pc[r] = "select"
  /\ SetCredentials(r, key[r])
  /\ Goto(r, "auth")
  /\ UNCHANGED <<issueVars, client, key, tok, fl, resume, retry, refused, sent, sentKey, result>>

\* An explicit authentication brings its own credentials.
StartAuthenticate(r, c, k) ==
  /\ pc[r] = "idle"
  /\ client' = [client EXCEPT ![r] = c]
  /\ key' = [key EXCEPT ![r] = k]
  /\ Goto(r, "select")
  /\ UNCHANGED <<issueVars, clientVars, tok, fl, resume, retry, refused, sent, sentKey, result>>

AuthLookUp(r) ==
  /\ pc[r] = "auth"
  /\ IF Serves(key[r])
       THEN tok' = [tok EXCEPT ![r] = cache[key[r]]] /\ Goto(r, "adopt")
       ELSE Goto(r, "join") /\ UNCHANGED tok
  /\ UNCHANGED <<issueVars, clientVars, client, key, fl, resume, retry, refused, sent, sentKey,
                 result>>

Join(r, f) ==
  /\ pc[r] = "join"
  /\ DoChan(key[r], f)
  /\ fl' = [fl EXCEPT ![r] = f]
  /\ Goto(r, "await")
  /\ UNCHANGED <<clientVars, client, key, tok, resume, retry, refused, sent, sentKey, result>>

Authenticated(r) ==
  IF resume[r] = "end" THEN End(r, "ok") ELSE Goto(r, resume[r]) /\ UNCHANGED result

\* A cached token is set on the client,
AdoptCached(r) ==
  /\ pc[r] = "adopt"
  /\ setToken(r, tok[r])
  /\ tok' = [tok EXCEPT ![r] = None]
  /\ Authenticated(r)
  /\ UNCHANGED <<issueVars, cred, client, key, fl, resume, retry, refused, sent, sentKey>>

\* or the one the awaited issuance returned.
AdoptIssued(r) ==
  /\ pc[r] = "await"
  /\ step[fl[r]] = "done"
  /\ IF outcome[fl[r]] = None
       THEN End(r, "failed") /\ UNCHANGED local
       ELSE setToken(r, outcome[fl[r]]) /\ Authenticated(r)
  /\ fl' = [fl EXCEPT ![r] = None]
  /\ UNCHANGED <<issueVars, cred, client, key, tok, resume, retry, refused, sent, sentKey>>

-----------------------------------------------------------------------------
(* The attempt itself.                                                     *)

\* The limiter lets the attempt pass; the token is read into the header,
Send(r) ==
  /\ pc[r] = "limiter"
  /\ sent' = [sent EXCEPT ![r] = local[client[r]]]
  /\ Goto(r, "header")
  /\ UNCHANGED <<issueVars, clientVars, client, key, tok, fl, resume, retry, refused, sentKey,
                 result>>

\* Fault: the two headers are swapped.
SendKeySwapped(r) ==
  /\ pc[r] = "header"
  /\ sentKey' = [sentKey EXCEPT ![r] = local[client[r]]]
  /\ Goto(r, "reply")
  /\ UNCHANGED <<issueVars, clientVars, client, key, tok, fl, resume, retry, refused, sent, result>>

\* and under a lock of its own the app key.
SendKey(r) ==
  /\ pc[r] = "header"
  /\ sentKey' = [sentKey EXCEPT ![r] = cred[client[r]]]
  /\ Goto(r, "reply")
  /\ UNCHANGED <<issueVars, clientVars, client, key, tok, fl, resume, retry, refused, sent, result>>

\* The tokens the broker accepts; it answers 401 to any other, an empty one
\* included.
Accepted == {t \in Flights : t \notin revoked /\ age[t] \in {"fresh", "aging"}}

\* The answer is a success or an error other than 401.
Answered(r) ==
  /\ pc[r] = "reply"
  /\ \/ BrokerMayFail /\ End(r, "failed")
     \/ sent[r] \in Accepted /\ End(r, "ok")
  /\ UNCHANGED <<issueVars, clientVars, client, key, tok, fl, resume, retry, refused, sent, sentKey>>

\* 401: the first time invalidateAndRefresh reads the app key, the second time
\* is final.
Unauthorized(r) ==
  /\ pc[r] = "reply"
  /\ sent[r] \notin Accepted
  /\ IF retry[r]
       THEN /\ retry' = [retry EXCEPT ![r] = FALSE]
            /\ refused' = [refused EXCEPT ![r] = sent[r]]
            /\ key' = [key EXCEPT ![r] = cred[client[r]]]
            /\ resume' = [resume EXCEPT ![r] = "valid"]
            /\ Goto(r, "clear")
            /\ UNCHANGED result
       ELSE End(r, "failed") /\ UNCHANGED <<key, resume, retry, refused>>
  /\ UNCHANGED <<issueVars, clientVars, client, tok, fl, sent, sentKey>>

\* It clears the client's token,
Clear(r) ==
  /\ pc[r] = "clear"
  /\ setToken(r, None)
  /\ Goto(r, "delete")
  /\ UNCHANGED <<issueVars, cred, client, key, tok, fl, resume, retry, refused, sent, sentKey,
                 result>>

\* deletes the manager's, and refreshes.
Delete(r) ==
  /\ pc[r] = "delete"
  /\ IF key[r] = None THEN UNCHANGED cache ELSE DeleteToken(key[r])
  /\ Goto(r, "refresh")
  /\ UNCHANGED <<group, step, fkey, outcome, age, revoked, permit>>
  /\ UNCHANGED <<clientVars, client, key, tok, fl, resume, retry, refused, sent, sentKey, result>>

\* The request's context ends while it waits for an issuance (whose call goes
\* on), for the limiter or for the answer.
GiveUp(r) ==
  /\ pc[r] \in {"await", "limiter", "reply"}
  /\ End(r, "ctx")
  /\ UNCHANGED <<issueVars, clientVars, client, key, tok, fl, resume, retry, refused, sent, sentKey>>

-----------------------------------------------------------------------------
\* The steps of a request that are never left undone.
Advance(r) ==
  \/ ReadKey(r) \/ LookUp(r) \/ Install(r) \/ FallBack(r) \/ Refresh(r) \/ Select(r)
  \/ AuthLookUp(r) \/ (\E f \in Flights : Join(r, f)) \/ AdoptCached(r) \/ AdoptIssued(r)
  \/ Send(r) \/ SendKey(r) \/ Answered(r) \/ Unauthorized(r) \/ Clear(r) \/ Delete(r)

IssueStep(f) == Issue(f) /\ UNCHANGED <<clientVars, requestVars>>

RefillStep(k) == Refill(k) /\ UNCHANGED <<clientVars, requestVars>>

GrowOldStep(t) == GrowOld(t) /\ UNCHANGED <<clientVars, requestVars>>

RevokeStep(t) == Revoke(t) /\ UNCHANGED <<clientVars, requestVars>>

Next ==
  \/ \E r \in Requests, c \in Clients :
       StartCall(r, c) \/ \E k \in AuthKeys[c] : StartAuthenticate(r, c, k)
  \/ \E r \in Requests : Advance(r) \/ GiveUp(r)
  \/ \E f \in Flights : IssueStep(f)
  \/ \E k \in Keys : RefillStep(k)
  \/ \E t \in Mortal : GrowOldStep(t)
  \/ \E t \in Revocable : RevokeStep(t)

Spec == Init /\ [][Next]_vars

\* Goroutines run, the HTTP timeouts bound every wait for the broker and a
\* minute passes on the auth limiter.
Fairness ==
  /\ \A r \in Requests : WF_vars(Advance(r))
  /\ \A f \in Flights : WF_vars(IssueStep(f))
  /\ \A k \in Keys : WF_vars(RefillStep(k))

FairSpec == Spec /\ Fairness

-----------------------------------------------------------------------------
(* Properties.                                                             *)

\* No request of one account carries a token issued for another account's app
\* key, although all clients share the manager and the singleflight group
\* (doRequestOnce, internal/kis/client.go).  For clients that keep one app key:
\* nothing in the code ties the token to the credentials once they change.
SentPairMatches ==
  \A r \in Requests :
    pc[r] = "reply" /\ sent[r] # None => fkey[sent[r]] = sentKey[r]

\* Per app key the clients ask the broker for one token at a time, only while
\* the cache serves none, without the second look at the cache the LS client
\* takes after the limiter (authFlight and issueToken, internal/kis/auth.go).
AsksOnceAtATime == Issuer!Spec

\* Every request ends, also when it has to wait for the auth limiter, for an
\* issuance another request started, or for a retry.
EveryRequestReturns ==
  \A r \in Requests : pc[r] # "idle" ~> pc[r] = "end"

\* The comment in doRequest: on a 401 the token is invalidated and the request
\* is retried once with a fresh token, so never with the token just refused.
RetryUsesFreshToken ==
  \A r \in Requests :
    pc[r] = "reply" /\ ~retry[r] => sent[r] # refused[r]
=============================================================================
