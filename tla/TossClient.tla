----------------------------- MODULE TossClient -----------------------------
(***************************************************************************)
(* The Toss client (internal/toss/client.go).  It makes sure of a token    *)
(* before it waits for its limiter, asks for tokens without a singleflight *)
(* group, each request queueing at the auth limiter for its own, and       *)
(* retries a call that was answered 401 once, unless the call may have     *)
(* placed, changed or cancelled an order.                                  *)
(***************************************************************************)
EXTENDS ClientCalls

VARIABLES
  mutation,  \* whether each request's call is an order mutation
  attempts,  \* how often it has been sent
  executed,  \* how often the broker has executed it
  retried    \* whether its next 401 is final

tossVars == <<mutation, attempts, executed, retried>>

TossTypeOK ==
  /\ mutation \in [Requests -> BOOLEAN]
  /\ attempts \in [Requests -> 0..2]
  /\ executed \in [Requests -> 0..2]
  /\ retried \in [Requests -> BOOLEAN]

TossInit ==
  /\ mutation = [r \in Requests |-> FALSE]
  /\ attempts = [r \in Requests |-> 0]
  /\ executed = [r \in Requests |-> 0]
  /\ retried = [r \in Requests |-> FALSE]

-----------------------------------------------------------------------------
\* callJSON and callOnce, up to ensureToken.
TossStart(r, c, m) ==
  /\ pc[r] = "idle"
  /\ client' = [client EXCEPT ![r] = c]
  /\ mutation' = [mutation EXCEPT ![r] = m]
  /\ Goto(r, "valid")
  /\ UNCHANGED <<issueVars, clientVars, key, tok, purpose, sent, result, attempts, executed,
                 retried>>

\* ensureToken, up to the point where a token must be issued.
TossEnsure(r) ==
  /\ \/ ReadKey(r, "valid") \/ LookUp(r) \/ Install(r, "wait") \/ FallBack(r, "wait")
     \/ Refresh(r) \/ Select(r) \/ AuthLookUp(r, "permit") \/ Adopt(r, "wait")
  /\ UNCHANGED tossVars

-----------------------------------------------------------------------------
(* The second half of Authenticate.                                        *)

\* WaitForAuth, which no context interrupts; the cache is not looked at again.
TossWaitForAuth(r) ==
  /\ pc[r] = "permit"
  /\ key[r] \in permit
  /\ permit' = permit \ {key[r]}
  /\ Goto(r, "quota")
  /\ UNCHANGED <<group, step, fkey, outcome, cache, age, revoked, clientVars, client, key, tok,
                 purpose, sent, result, tossVars>>

\* waitForRateLimit for the AUTH group.
TossAuthQuota(r) ==
  /\ pc[r] = "quota"
  /\ Goto(r, "post")
  /\ UNCHANGED <<issueVars, clientVars, client, key, tok, purpose, sent, result, tossVars>>

\* The broker grants a token, or the call fails.
TossPost(r) ==
  /\ pc[r] = "post"
  /\ \/ /\ \E f \in Flights :
             /\ step[f] = "unused"
             /\ f = NextFlight
             /\ step' = [step EXCEPT ![f] = "done"]
             /\ fkey' = [fkey EXCEPT ![f] = key[r]]
             /\ \E a \in GrantedAges : age' = [age EXCEPT ![f] = a]
             /\ tok' = [tok EXCEPT ![r] = f]
        /\ Goto(r, "keep")
        /\ UNCHANGED result
     \/ /\ BrokerMayFail
        /\ End(r, "failed")
        /\ UNCHANGED <<step, fkey, age, tok>>
  /\ UNCHANGED <<group, outcome, cache, revoked, permit, clientVars, client, key, purpose, sent,
                 tossVars>>

\* The client keeps the token,
TossKeep(r) ==
  /\ pc[r] = "keep"
  /\ setToken(client[r], tok[r])
  /\ Goto(r, "store")
  /\ UNCHANGED <<issueVars, broker, cred, client, key, tok, purpose, sent, result, tossVars>>

\* and then the manager, under the key it was issued for.
TossStore(r) ==
  /\ pc[r] = "store"
  /\ SetToken(key[r], tok[r])
  /\ tok' = [tok EXCEPT ![r] = None]
  /\ TokenIsThere(r, "wait")
  /\ UNCHANGED <<group, step, fkey, outcome, age, revoked, permit, clientVars, client, key, sent,
                 tossVars>>

-----------------------------------------------------------------------------
(* The attempt.                                                            *)

TossWait(r) ==
  /\ pc[r] = "wait"
  /\ Goto(r, "header")
  /\ UNCHANGED <<issueVars, clientVars, client, key, tok, purpose, sent, result, tossVars>>

TossSend(r) ==
  /\ SendHeader(r)
  /\ attempts' = [attempts EXCEPT ![r] = @ + 1]
  /\ UNCHANGED <<mutation, executed, retried>>

\* The broker does what it is asked and answers; the answer may not arrive.
TossExecuted(r) ==
  /\ pc[r] = "reply"
  /\ MayBeAccepted(sent[r])
  /\ executed' = [executed EXCEPT ![r] = @ + 1]
  /\ End(r, "ok") \/ (BrokerMayFail /\ End(r, "failed"))
  /\ UNCHANGED <<issueVars, clientVars, client, key, tok, purpose, sent, mutation, attempts,
                 retried>>

\* It refuses for another reason, or never gets the request.
TossFailed(r) ==
  /\ pc[r] = "reply"
  /\ BrokerMayFail
  /\ End(r, "failed")
  /\ UNCHANGED <<issueVars, clientVars, client, key, tok, purpose, sent, tossVars>>

\* Fault: every call is tried again.
Repeatable(r) == ~ retried[r]

\* Fault: as often as the token is refused.
RepeatableForever(r) == ~ mutation[r]

\* isOrderMutation.
MayBeRetried(r) == ~ retried[r] /\ ~ mutation[r]

\* 401: invalidateAndRefresh reads the app key, or the answer is final.
TossUnauthorized(r) ==
  /\ pc[r] = "reply"
  /\ MayBeRefused(sent[r])
  /\ IF MayBeRetried(r)
       THEN /\ retried' = [retried EXCEPT ![r] = TRUE]
            /\ purpose' = [purpose EXCEPT ![r] = "retry"]
            /\ key' = [key EXCEPT ![r] = cred[client[r]]]
            /\ Goto(r, "clear")
            /\ UNCHANGED result
       ELSE End(r, "refused") /\ UNCHANGED <<retried, purpose, key>>
  /\ UNCHANGED <<issueVars, clientVars, client, tok, sent, mutation, attempts, executed>>

TossClear(r) ==
  /\ pc[r] = "clear"
  /\ setToken(client[r], None)
  /\ Goto(r, "delete")
  /\ UNCHANGED <<issueVars, broker, cred, client, key, tok, purpose, sent, result, tossVars>>

TossDelete(r) ==
  /\ pc[r] = "delete"
  /\ IF key[r] = None THEN UNCHANGED cache ELSE DeleteToken(key[r])
  /\ Goto(r, "valid")
  /\ UNCHANGED <<group, step, fkey, outcome, age, revoked, permit, clientVars, client, key, tok,
                 purpose, sent, result, tossVars>>

\* The limiters of the groups and the HTTP calls watch the context, WaitForAuth
\* does not.
TossGiveUp(r) == GiveUpAt(r, {"quota", "post", "wait", "reply"}) /\ UNCHANGED tossVars

TossAdvance(r) ==
  \/ TossEnsure(r)
  \/ TossWaitForAuth(r) \/ TossAuthQuota(r) \/ TossPost(r) \/ TossKeep(r) \/ TossStore(r)
  \/ TossWait(r) \/ TossSend(r)
  \/ TossExecuted(r) \/ TossFailed(r) \/ TossUnauthorized(r)
  \/ TossClear(r) \/ TossDelete(r)

TossNext ==
  /\ broker = "toss"
  /\ \/ \E r \in Requests, c \in Clients :
          \/ \E m \in BOOLEAN : TossStart(r, c, m)
          \/ \E k \in AuthKeys[c] : StartLogin(r, c, k) /\ UNCHANGED tossVars
     \/ \E r \in Requests : TossAdvance(r) \/ TossGiveUp(r)

-----------------------------------------------------------------------------
\* A call that may change an order is sent once, whatever the answer, also when
\* its token is refused while other requests refresh it; a call reported as done
\* was executed once and one reported as unauthorized was not executed
\* (isOrderMutation, callJSON).
TossOrderOnce ==
  \A r \in Requests :
    /\ mutation[r] => attempts[r] <= 1
    /\ executed[r] <= 1
    /\ result[r] = "ok" /\ purpose[r] = "call" => executed[r] = 1 \/ broker # "toss"
    /\ result[r] = "refused" => executed[r] = 0
=============================================================================
