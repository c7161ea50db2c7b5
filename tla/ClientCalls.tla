----------------------------- MODULE ClientCalls -----------------------------
(***************************************************************************)
(* What the Kiwoom and the Toss client have in common                      *)
(* (internal/kiwoom/client.go, internal/toss/client.go): request           *)
(* goroutines that make sure of a token before they send it, and the first *)
(* half of Authenticate.  Lines are those of the Kiwoom client where the   *)
(* two are the same, word for word; modules KiwoomClient and TossClient    *)
(* add what is different: how a token is issued, and the attempt itself.   *)
(***************************************************************************)
EXTENDS TokenIssue

CONSTANTS
  Brokers,    \* the brokers whose clients are looked at, one per behaviour
  Clients,    \* one Client per account
  Requests,   \* goroutines; each makes one call of the client
  AuthKeys,   \* AuthKeys[c]: the app keys c is ever authenticated with
  Selected,   \* the clients with credentials already
  Mortal,     \* the tokens that may grow old while the model runs
  Revocable   \* the tokens the broker may revoke before they expire

ASSUME ClientCallsAssumption ==
  /\ Brokers \subseteq {"kiwoom", "toss"}
  /\ AuthKeys \in [Clients -> SUBSET Keys]
  /\ Selected \subseteq Clients
  /\ Mortal \subseteq Flights
  /\ Revocable \subseteq Flights
  /\ None \notin Clients

VARIABLES
  broker,   \* whose clients these are
  cred,     \* Client.appKey, None before the first authentication
  local,    \* Client.accessToken, None for the empty string
  pc,       \* where each request is
  client,   \* the client it runs on
  key,      \* the app key it read
  tok,      \* the token it was given and has not yet set
  purpose,  \* what it wants a token for: its call, an explicit login, or a
            \* refresh after which the call starts over
  sent,     \* the token in the header of its last attempt
  result    \* how it ended: "ctx" when its own context ended

clientVars  == <<broker, cred, local>>
requestVars == <<pc, client, key, tok, purpose, sent, result>>
callVars    == <<clientVars, requestVars>>

CallSteps == {"idle", "wait", "valid", "lookup", "install", "fallback", "refresh", "select",
              "auth", "adopt", "join", "await", "permit", "quota", "post", "keep", "store",
              "header", "reply", "clear", "delete", "end"}
Results == {"none", "ok", "failed", "refused", "ctx"}

CallsTypeOK ==
  /\ broker \in Brokers
  /\ cred \in [Clients -> Keys \cup {None}]
  /\ local \in [Clients -> Flights \cup {None}]
  /\ pc \in [Requests -> CallSteps]
  /\ client \in [Requests -> Clients \cup {None}]
  /\ key \in [Requests -> Keys \cup {None}]
  /\ tok \in [Requests -> Flights \cup {None}]
  /\ purpose \in [Requests -> {"call", "login", "retry"}]
  /\ sent \in [Requests -> Flights \cup {None}]
  /\ result \in [Requests -> Results]

CallsInit ==
  /\ broker \in Brokers
  /\ cred \in [Clients -> Keys \cup {None}]
  /\ \A c \in Clients : cred[c] \in IF c \in Selected THEN AuthKeys[c] ELSE {None}
  /\ local = [c \in Clients |-> None]
  /\ pc = [r \in Requests |-> "idle"]
  /\ client = [r \in Requests |-> None]
  /\ key = [r \in Requests |-> None]
  /\ tok = [r \in Requests |-> None]
  /\ purpose = [r \in Requests |-> "call"]
  /\ sent = [r \in Requests |-> None]
  /\ result = [r \in Requests |-> "none"]

-----------------------------------------------------------------------------
Goto(r, l) == pc' = [pc EXCEPT ![r] = l]

End(r, how) ==
  /\ Goto(r, "end")
  /\ result' = [result EXCEPT ![r] = how]

setToken(c, t) == local' = [local EXCEPT ![c] = t]

\* The Kiwoom client accepts its own token a minute longer than the manager
\* does; for Toss the two buffers are the same.
LocallyValid(c) ==
  local[c] # None /\ age[local[c]] \in IF broker = "kiwoom" THEN {"fresh", "aging"} ELSE {"fresh"}

\* A valid token is there: the call goes on, a login is done, a refresh after a
\* 401 starts the call over.
TokenIsThere(r, next) ==
  CASE purpose[r] = "call"  -> Goto(r, next) /\ UNCHANGED <<purpose, result>>
    [] purpose[r] = "login" -> End(r, "ok") /\ UNCHANGED purpose
    [] purpose[r] = "retry" -> /\ Goto(r, "valid")
                               /\ purpose' = [purpose EXCEPT ![r] = "call"]
                               /\ UNCHANGED result

-----------------------------------------------------------------------------
(* isTokenValid.                                                           *)

\* It reads the app key under a lock of its own,
ReadKey(r, from) ==
  /\ pc[r] = from
  /\ key' = [key EXCEPT ![r] = cred[client[r]]]
  /\ Goto(r, IF cred[client[r]] = None THEN "fallback" ELSE "lookup")
  /\ UNCHANGED <<issueVars, clientVars, client, tok, purpose, sent, result>>

\* asks the manager,
LookUp(r) ==
  /\ pc[r] = "lookup"
  /\ IF Serves(key[r])
       THEN tok' = [tok EXCEPT ![r] = cache[key[r]]] /\ Goto(r, "install")
       ELSE Goto(r, "fallback") /\ UNCHANGED tok
  /\ UNCHANGED <<issueVars, clientVars, client, key, purpose, sent, result>>

\* lets the manager's token replace the client's, whatever happened in between,
Install(r, next) ==
  /\ pc[r] = "install"
  /\ setToken(client[r], tok[r])
  /\ tok' = [tok EXCEPT ![r] = None]
  /\ TokenIsThere(r, next)
  /\ UNCHANGED <<issueVars, broker, cred, client, key, sent>>

\* or looks at the clock for the client's own.
FallBack(r, next) ==
  /\ pc[r] = "fallback"
  /\ IF LocallyValid(client[r])
       THEN TokenIsThere(r, next)
       ELSE Goto(r, "refresh") /\ UNCHANGED <<purpose, result>>
  /\ UNCHANGED <<issueVars, clientVars, client, key, tok, sent>>

-----------------------------------------------------------------------------
(* The first half of Authenticate.                                         *)

\* A request without a valid token reads the credentials and gives up without.
Refresh(r) ==
  /\ pc[r] = "refresh"
  /\ key' = [key EXCEPT ![r] = cred[client[r]]]
  /\ IF cred[client[r]] = None
       THEN End(r, "failed")
       ELSE Goto(r, "select") /\ UNCHANGED result
  /\ UNCHANGED <<issueVars, clientVars, client, tok, purpose, sent>>

\* An explicit authentication brings its own.
StartLogin(r, c, k) ==
  /\ pc[r] = "idle"
  /\ client' = [client EXCEPT ![r] = c]
  /\ key' = [key EXCEPT ![r] = k]
  /\ purpose' = [purpose EXCEPT ![r] = "login"]
  /\ Goto(r, "select")
  /\ UNCHANGED <<issueVars, clientVars, tok, sent, result>>

\* SetCredentials leaves the token alone.
Select(r) ==
  /\ pc[r] = "select"
  /\ cred' = [cred EXCEPT ![client[r]] = key[r]]
  /\ Goto(r, "auth")
  /\ UNCHANGED <<issueVars, broker, local, client, key, tok, purpose, sent, result>>

\* A token of the manager is taken, else one must be issued.
AuthLookUp(r, issue) ==
  /\ pc[r] = "auth"
  /\ IF Serves(key[r])
       THEN tok' = [tok EXCEPT ![r] = cache[key[r]]] /\ Goto(r, "adopt")
       ELSE Goto(r, issue) /\ UNCHANGED tok
  /\ UNCHANGED <<issueVars, clientVars, client, key, purpose, sent, result>>

Adopt(r, next) ==
  /\ pc[r] = "adopt"
  /\ setToken(client[r], tok[r])
  /\ tok' = [tok EXCEPT ![r] = None]
  /\ TokenIsThere(r, next)
  /\ UNCHANGED <<issueVars, broker, cred, client, key, sent>>

\* The token is read into the header under a lock of its own.
SendHeader(r) ==
  /\ pc[r] = "header"
  /\ sent' = [sent EXCEPT ![r] = local[client[r]]]
  /\ Goto(r, "reply")
  /\ UNCHANGED <<issueVars, clientVars, client, key, tok, purpose, result>>

\* The tokens the broker may accept: "expired" is less than two minutes left.
MayBeAccepted(t) == t \in Flights \ revoked
MayBeRefused(t)  == t \in revoked \cup {None} \cup {f \in Flights : age[f] = "expired"}

\* The request's context ends while it waits.
GiveUpAt(r, steps) ==
  /\ pc[r] \in steps
  /\ End(r, "ctx")
  /\ UNCHANGED <<issueVars, clientVars, client, key, tok, purpose, sent>>

-----------------------------------------------------------------------------
(* Properties of both clients.                                             *)

\* A request carries a token that was issued for the app key its client is
\* logged in with, although all clients of a broker share one token manager and
\* an issuance sets its token on a client long after its request has gone
\* (isTokenValid, setToken).  For clients that keep one app key: nothing in the
\* code ties the token to the credentials once they change.  A Kiwoom request
\* always has a token at all; a Toss request may be overtaken by another one's
\* invalidateAndRefresh.
SentTokenIsOwn ==
  \A r \in Requests :
    pc[r] = "reply" =>
      \/ sent[r] # None /\ fkey[sent[r]] = cred[client[r]]
      \/ sent[r] = None /\ broker = "toss"

\* Every call ends, whoever it has to wait for: an issuance of another request,
\* or the queue at the auth limiter, which no context interrupts.
CallsReturn == \A r \in Requests : pc[r] # "idle" ~> pc[r] = "end"
=============================================================================
