---------------------------- MODULE SingleIssuer ----------------------------
(***************************************************************************)
(* What the clients of a broker promise its token endpoint, whatever the   *)
(* number of requests: per app key one token request at a time, none while *)
(* a token is being served from the cache, and no token served again once  *)
(* it has been withdrawn.                                                  *)
(***************************************************************************)
CONSTANTS Keys, Tokens, None

VARIABLES
  serving,  \* the token the cache serves for each key, None when it serves none
  asking,   \* the keys a token request is under way for
  granted   \* every token obtained so far

issuerVars == <<serving, asking, granted>>

\* Tokens may have been left by an earlier process.
Init ==
  /\ serving \in [Keys -> Tokens \cup {None}]
  /\ asking = {}
  /\ granted = {serving[k] : k \in Keys} \ {None}

Ask(k) ==
  /\ serving[k] = None
  /\ k \notin asking
  /\ asking' = asking \cup {k}
  /\ UNCHANGED <<serving, granted>>

Fail(k) ==
  /\ k \in asking
  /\ asking' = asking \ {k}
  /\ UNCHANGED <<serving, granted>>

\* A token whose lifetime is too short for the cache is never served.
Grant(k, t) ==
  /\ k \in asking
  /\ t \notin granted
  /\ asking' = asking \ {k}
  /\ granted' = granted \cup {t}
  /\ serving' \in {serving, [serving EXCEPT ![k] = t]}

\* The token has grown old or has been invalidated.
Withdraw(k) ==
  /\ serving[k] # None
  /\ serving' = [serving EXCEPT ![k] = None]
  /\ UNCHANGED <<asking, granted>>

Next ==
  \E k \in Keys :
    Ask(k) \/ Fail(k) \/ Withdraw(k) \/ \E t \in Tokens : Grant(k, t)

Spec == Init /\ [][Next]_issuerVars
=============================================================================
