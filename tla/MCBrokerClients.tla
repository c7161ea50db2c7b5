--------------------------- MODULE MCBrokerClients --------------------------
(* The Kiwoom and the Toss clients for TLC: the two share no state, and each *)
(* behaviour is about the clients of one of them.                            *)
EXTENDS KiwoomClient, TossClient, TLC

CONSTANTS c1, c2, k1, k2

\* Two accounts, each with its own app key.
OneKeyEach == (c1 :> {k1} @@ c2 :> {k2})

vars == <<issueVars, callVars, kiwoomVars, tossVars>>

TypeOK == TokenIssueTypeOK /\ CallsTypeOK /\ KiwoomTypeOK /\ TossTypeOK

Init == TokenIssueInit /\ CallsInit /\ KiwoomInit /\ TossInit

Clock ==
  /\ \/ \E k \in Keys : Refill(k)
     \/ \E t \in Mortal : GrowOld(t)
     \/ \E t \in Revocable : Revoke(t)
  /\ UNCHANGED <<callVars, kiwoomVars, tossVars>>

Next ==
  \/ KiwoomNext /\ UNCHANGED tossVars
  \/ TossNext /\ UNCHANGED kiwoomVars
  \/ Clock

\* Goroutines run, the HTTP timeouts bound every wait for the broker and a
\* minute passes on the auth limiter.
Fairness ==
  /\ \A r \in Requests :
       /\ WF_vars(broker = "kiwoom" /\ KiwoomAdvance(r) /\ UNCHANGED tossVars)
       /\ WF_vars(broker = "toss" /\ TossAdvance(r) /\ UNCHANGED kiwoomVars)
  /\ \A f \in Flights : WF_vars(broker = "kiwoom" /\ KiwoomIssue(f) /\ UNCHANGED tossVars)
  /\ \A k \in Keys : WF_vars(Refill(k) /\ UNCHANGED <<callVars, kiwoomVars, tossVars>>)

Spec == Init /\ [][Next]_vars /\ Fairness
=============================================================================
