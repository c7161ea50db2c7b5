---------------------------- MODULE KiwoomClient ----------------------------
(***************************************************************************)
(* The Kiwoom client (internal/kiwoom/client.go, internal/kiwoom/auth.go). *)
(* It waits for its own limiter before it looks at the token, issues       *)
(* tokens through a singleflight group, and does not retry.  The issuance  *)
(* sets its token on the client that started it, from inside the flight.   *)
(***************************************************************************)
EXTENDS ClientCalls

VARIABLES
  fl,       \* the issuance each request waits for
  starter,  \* the client whose request started each issuance
  handed    \* the issuances that have set their token on that client

kiwoomVars == <<fl, starter, handed>>

KiwoomTypeOK ==
  /\ fl \in [Requests -> Flights \cup {None}]
  /\ starter \in [Flights -> Clients \cup {None}]
  /\ handed \in SUBSET Flights

KiwoomInit ==
  /\ fl = [r \in Requests |-> None]
  /\ starter = [f \in Flights |-> None]
  /\ handed = {}

-----------------------------------------------------------------------------
\* doRequest: the limiter first, then isTokenValid, then the header.
KiwoomStart(r, c) ==
  /\ pc[r] = "idle"
  /\ client' = [client EXCEPT ![r] = c]
  /\ Goto(r, "wait")
  /\ UNCHANGED <<issueVars, clientVars, key, tok, purpose, sent, result, kiwoomVars>>

KiwoomCheck(r) ==
  /\ ReadKey(r, "wait") \/ LookUp(r) \/ Install(r, "header") \/ FallBack(r, "header")
  /\ UNCHANGED kiwoomVars

KiwoomAuthenticate(r) ==
  /\ Refresh(r) \/ Select(r) \/ AuthLookUp(r, "join") \/ Adopt(r, "header")
  /\ UNCHANGED kiwoomVars

\* DoChan, with the client of the caller that starts the call.
KiwoomJoin(r, f) ==
  /\ pc[r] = "join"
  /\ DoChan(key[r], f)
  /\ fl' = [fl EXCEPT ![r] = f]
  /\ starter' = IF step[f] = "unused" THEN [starter EXCEPT ![f] = client[r]] ELSE starter
  /\ Goto(r, "await")
  /\ UNCHANGED <<clientVars, client, key, tok, purpose, sent, result, handed>>

\* Everyone who waited sets the token, once more for the one that started it.
KiwoomAdoptIssued(r) ==
  /\ pc[r] = "await"
  /\ step[fl[r]] = "done"
  /\ IF outcome[fl[r]] = None
       THEN End(r, "failed") /\ UNCHANGED <<local, purpose>>
       ELSE setToken(client[r], outcome[fl[r]]) /\ TokenIsThere(r, "header")
  /\ fl' = [fl EXCEPT ![r] = None]
  /\ UNCHANGED <<issueVars, broker, cred, client, key, tok, sent, starter, handed>>

\* Fault: the flight sets its token on whichever client of the broker has none.
HandOverAnywhere(f) ==
  /\ step[f] = "store"
  /\ f \notin handed
  /\ local' = [c \in Clients |-> IF c = starter[f] \/ local[c] = None THEN f ELSE local[c]]
  /\ handed' = handed \cup {f}
  /\ UNCHANGED <<issueVars, broker, cred, requestVars, fl, starter>>

\* issueToken sets the token on the client it was called on, before the manager
\* has it, and whether or not anybody still waits.
HandOver(f) ==
  /\ step[f] = "store"
  /\ f \notin handed
  /\ setToken(starter[f], f)
  /\ handed' = handed \cup {f}
  /\ UNCHANGED <<issueVars, broker, cred, requestVars, fl, starter>>

KiwoomIssue(f) ==
  \/ HandOver(f)
  \/ /\ step[f] = "store" => f \in handed
     /\ Issue(f)
     /\ UNCHANGED <<callVars, kiwoomVars>>

KiwoomSend(r) == SendHeader(r) /\ UNCHANGED kiwoomVars

\* The answer is final, an unauthorized one included.
KiwoomAnswered(r) ==
  /\ pc[r] = "reply"
  /\ \/ BrokerMayFail /\ End(r, "failed")
     \/ MayBeAccepted(sent[r]) /\ End(r, "ok")
     \/ MayBeRefused(sent[r]) /\ End(r, "refused")
  /\ UNCHANGED <<issueVars, clientVars, client, key, tok, purpose, sent, kiwoomVars>>

\* The limiter, the select beside the flight and the HTTP call watch the context.
KiwoomGiveUp(r) == GiveUpAt(r, {"wait", "await", "reply"}) /\ UNCHANGED kiwoomVars

KiwoomAdvance(r) ==
  \/ KiwoomCheck(r)
  \/ KiwoomAuthenticate(r)
  \/ \E f \in Flights : KiwoomJoin(r, f)
  \/ KiwoomAdoptIssued(r)
  \/ KiwoomSend(r)
  \/ KiwoomAnswered(r)

KiwoomNext ==
  /\ broker = "kiwoom"
  /\ \/ \E r \in Requests, c \in Clients :
          KiwoomStart(r, c) \/ \E k \in AuthKeys[c] : StartLogin(r, c, k) /\ UNCHANGED kiwoomVars
     \/ \E r \in Requests : KiwoomAdvance(r) \/ KiwoomGiveUp(r)
     \/ \E f \in Flights : KiwoomIssue(f)

-----------------------------------------------------------------------------
\* In a behaviour about Toss clients the abstract issuer stands still.
KiwoomIssuer == INSTANCE SingleIssuer WITH
  Tokens  <- Flights,
  serving <- [k \in Keys |-> IF broker = "kiwoom" /\ Serves(k) THEN cache[k] ELSE None],
  asking  <- {k \in Keys : \E f \in Flights : fkey[f] = k /\ step[f] \in {"post", "store"}},
  granted <- {f \in Flights : broker = "kiwoom" /\ outcome[f] = f}

\* Per app key the Kiwoom clients ask the token endpoint for one token at a
\* time, and only while the cache serves none ("authFlight collapses concurrent
\* token issuance per appKey", internal/kiwoom/auth.go).
KiwoomAsksOnceAtATime == KiwoomIssuer!Spec
=============================================================================
