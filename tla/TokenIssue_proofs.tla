------------------------- MODULE TokenIssue_proofs --------------------------
(***************************************************************************)
(* What every step of the token issuance keeps, whichever client it serves *)
(* (module TokenIssue).                                                    *)
(***************************************************************************)
EXTENDS TokenIssue, TLAPS

\* A token is cached, returned and awaited only under the app key it was issued
\* for.
FlightsKeyed ==
  /\ \A f \in Flights : step[f] = "unused" <=> fkey[f] = None
  /\ \A k \in Keys : group[k] # None => fkey[group[k]] = k
  /\ \A k \in Keys : cache[k] # None => fkey[cache[k]] = k
  /\ \A f \in Flights : outcome[f] # None => fkey[f] # None /\ fkey[outcome[f]] = fkey[f]

IssueInv == TokenIssueTypeOK /\ FlightsKeyed

\* The app key of a call or of its token never changes once the call exists.
KeysKept == \A f \in Flights : fkey[f] # None => fkey'[f] = fkey[f]

LEMMA IssueInvInit == ASSUME TokenIssueInit PROVE IssueInv
BY TokenIssueAssumption
   DEF TokenIssueInit, IssueInv, TokenIssueTypeOK, FlightsKeyed, Steps, Ages

\* Joining or starting a call: afterwards the call runs for the caller's key.
LEMMA DoChanKeeps ==
  ASSUME IssueInv, NEW k \in Keys, NEW f \in Flights, DoChan(k, f)
  PROVE  IssueInv' /\ KeysKept /\ fkey'[f] = k
<1>1. CASE group[k] = f /\ UNCHANGED issueVars
  <2>1. fkey'[f] = k
    BY <1>1, TokenIssueAssumption DEF IssueInv, FlightsKeyed, TokenIssueTypeOK, issueVars
  <2> QED
    BY <1>1, <2>1 DEF IssueInv, FlightsKeyed, TokenIssueTypeOK, issueVars, Serves, KeysKept
<1>2. CASE step[f] = "unused" /\ ~(group[k] = f /\ UNCHANGED issueVars)
  <2>1. /\ group' = [group EXCEPT ![k] = f]
        /\ step' = [step EXCEPT ![f] = "enter"]
        /\ fkey' = [fkey EXCEPT ![f] = k]
        /\ UNCHANGED <<outcome, cache, age, revoked, permit>>
    BY <1>2 DEF DoChan
  <2>2. fkey[f] = None
    BY <1>2 DEF IssueInv, FlightsKeyed
  <2>3. TokenIssueTypeOK'
    BY <2>1 DEF IssueInv, TokenIssueTypeOK, Steps
  <2>4. KeysKept /\ fkey'[f] = k
    BY <2>1, <2>2 DEF KeysKept, IssueInv, TokenIssueTypeOK
  <2>5. FlightsKeyed'
    <3>1. \A g \in Flights : step'[g] = "unused" <=> fkey'[g] = None
      BY <2>1, TokenIssueAssumption DEF IssueInv, TokenIssueTypeOK, FlightsKeyed
    <3>2. \A j \in Keys : group'[j] # None => fkey'[group'[j]] = j
      BY <2>1, <2>2, TokenIssueAssumption DEF IssueInv, TokenIssueTypeOK, FlightsKeyed
    <3>3. \A j \in Keys : cache'[j] # None => fkey'[cache'[j]] = j
      BY <2>1, <2>2, TokenIssueAssumption DEF IssueInv, TokenIssueTypeOK, FlightsKeyed
    <3>4. \A g \in Flights : outcome'[g] # None => fkey'[g] # None /\ fkey'[outcome'[g]] = fkey'[g]
      BY <2>1, <2>2, TokenIssueAssumption DEF IssueInv, TokenIssueTypeOK, FlightsKeyed
    <3> QED
      BY <3>1, <3>2, <3>3, <3>4 DEF FlightsKeyed
  <2> QED
    BY <2>3, <2>4, <2>5 DEF IssueInv
<1> QED
  BY <1>1, <1>2 DEF DoChan

\* Each step of issueToken, and the delivery of its result.
LEMMA IssueKeeps ==
  ASSUME IssueInv, NEW f \in Flights, Issue(f)
  PROVE  IssueInv' /\ UNCHANGED fkey
<1> USE TokenIssueAssumption DEF IssueInv, TokenIssueTypeOK, FlightsKeyed, Steps, Ages
<1>1. ASSUME NEW next \in {"limit", "post"}, step[f] # "unused", LookUpOr(f, next)
      PROVE  IssueInv' /\ UNCHANGED fkey
  BY <1>1 DEF LookUpOr, Serves
<1>2. CASE Enter(f)
  BY <1>1, <1>2 DEF Enter
<1>3. CASE Recheck(f)
  BY <1>1, <1>3 DEF Recheck
<1>4. CASE WaitForAuth(f)
  BY <1>4 DEF WaitForAuth
<1>5. CASE PostGranted(f)
  BY <1>5 DEF PostGranted
<1>6. CASE PostFailed(f)
  BY <1>6 DEF PostFailed
<1>7. CASE Store(f)
  BY <1>7 DEF Store, SetToken
<1>8. CASE Settle(f)
  BY <1>8 DEF Settle
<1> QED
  BY <1>2, <1>3, <1>4, <1>5, <1>6, <1>7, <1>8 DEF Issue

\* The manager forgets a token.
LEMMA DeleteTokenKeeps ==
  ASSUME IssueInv, NEW k \in Keys, DeleteToken(k),
         UNCHANGED <<group, step, fkey, outcome, age, revoked, permit>>
  PROVE  IssueInv'
BY TokenIssueAssumption DEF IssueInv, TokenIssueTypeOK, FlightsKeyed, DeleteToken

\* Time passes, and the broker revokes.
LEMMA EnvironmentKeeps ==
  ASSUME IssueInv,
         \/ \E k \in Keys : Refill(k)
         \/ \E t \in Flights : GrowOld(t) \/ Revoke(t)
  PROVE  IssueInv' /\ UNCHANGED <<fkey, cache, outcome, group, step>>
BY TokenIssueAssumption
   DEF IssueInv, TokenIssueTypeOK, FlightsKeyed, Refill, GrowOld, Revoke, Ages

LEMMA StutterKeeps ==
  ASSUME IssueInv, UNCHANGED issueVars
  PROVE  IssueInv' /\ KeysKept
BY DEF IssueInv, TokenIssueTypeOK, FlightsKeyed, KeysKept, issueVars
-----------------------------------------------------------------------------
(* The refinement of SingleIssuer.                                         *)

Serving == [k \in Keys |-> IF Serves(k) THEN cache[k] ELSE None]
Asking  == {k \in Keys : \E f \in Flights : fkey[f] = k /\ step[f] \in {"post", "store"}}
Granted == {f \in Flights : outcome[f] = f}

\* A call that runs is the one in progress for its key; from its first look at
\* the cache to the end of its request the cache serves no token of that key;
\* a token is returned by its own call last, and cached only afterwards.
SoleInv ==
  /\ \A f \in Flights : step[f] \notin {"unused", "done"} => group[fkey[f]] = f
  /\ \A f \in Flights : step[f] \in {"limit", "recheck", "post", "store"} => ~Serves(fkey[f])
  /\ \A f \in Flights : outcome[f] = f => step[f] \in {"return", "done"}
  /\ \A k \in Keys : cache[k] # None => outcome[cache[k]] = cache[k]

\* A step of the abstract issuer, or none.
IssuerStep == [Issuer!Next]_(Issuer!issuerVars)

LEMMA NoIssuerStep == ASSUME UNCHANGED <<Serving, Asking, Granted>> PROVE IssuerStep
BY DEF IssuerStep, Issuer!issuerVars, Serving, Asking, Granted

LEMMA SoleInvInit == ASSUME TokenIssueInit PROVE SoleInv /\ Issuer!Init
<1> USE TokenIssueAssumption DEF TokenIssueInit
<1>1. SoleInv
  BY DEF SoleInv, Serves
<1>2. Serving \in [Keys -> Flights \cup {None}]
  BY DEF Serving
<1>3. Asking = {}
  BY DEF Asking
<1>4. Granted = Loaded
  BY DEF Granted
<1>5. Loaded = {Serving[k] : k \in Keys} \ {None}
  <2>1. ASSUME NEW f \in Loaded PROVE \E k \in Keys : Serving[k] = f /\ f # None
    <3>1. fkey[f] \in Keys /\ cache[fkey[f]] = f
      OBVIOUS
    <3>2. f # None /\ Serves(fkey[f])
      BY <3>1 DEF Serves
    <3> QED
      BY <3>1, <3>2 DEF Serving
  <2>2. ASSUME NEW k \in Keys, Serving[k] # None PROVE Serving[k] \in Loaded
    BY <2>2 DEF Serving
  <2> QED
    BY <2>1, <2>2
<1> QED
  BY <1>1, <1>2, <1>3, <1>4, <1>5 DEF Issuer!Init, Serving, Asking, Granted

\* Joining or starting a call is not seen by the token endpoint.
LEMMA DoChanRefines ==
  ASSUME IssueInv, SoleInv, NEW k \in Keys, NEW f \in Flights, DoChan(k, f)
  PROVE  SoleInv' /\ IssuerStep
<1> USE TokenIssueAssumption
<1>1. CASE UNCHANGED issueVars
  BY <1>1, NoIssuerStep DEF SoleInv, issueVars, Serves, Serving, Asking, Granted
<1>2. CASE ~ UNCHANGED issueVars
  <2>1. /\ group[k] = None
        /\ step[f] = "unused"
        /\ group' = [group EXCEPT ![k] = f]
        /\ step' = [step EXCEPT ![f] = "enter"]
        /\ fkey' = [fkey EXCEPT ![f] = k]
        /\ UNCHANGED <<outcome, cache, age>>
    BY <1>2 DEF DoChan
  <2>2. SoleInv'
    BY <2>1 DEF SoleInv, Serves, IssueInv, TokenIssueTypeOK, FlightsKeyed
  <2>3. Asking' = Asking
    BY <2>1 DEF Asking, IssueInv, TokenIssueTypeOK
  <2>4. UNCHANGED <<Serving, Granted>>
    BY <2>1 DEF Serving, Serves, Granted
  <2> QED
    BY <2>2, <2>3, <2>4, NoIssuerStep
<1> QED
  BY <1>1, <1>2

LEMMA IssueRefines ==
  ASSUME IssueInv, SoleInv, NEW f \in Flights, Issue(f)
  PROVE  SoleInv' /\ IssuerStep
<1> USE TokenIssueAssumption
<1>k. fkey[f] \in Keys
  BY DEF IssueInv, TokenIssueTypeOK, FlightsKeyed, Issue, Enter, WaitForAuth, Recheck, PostGranted,
         PostFailed, Store, Settle
<1> PICK k \in Keys : k = fkey[f]
  BY <1>k
<1>s. ASSUME step[f] \notin {"unused", "done"}, NEW g \in Flights, g # f, fkey[g] = k
      PROVE  step[g] \in {"unused", "done"}
  BY <1>s DEF SoleInv
<1>a. ASSUME step[f] \in {"post", "store"}, step' = [step EXCEPT ![f] = "return"], fkey' = fkey
      PROVE  k \in Asking /\ Asking' = Asking \ {k}
  BY <1>a, <1>s DEF Asking, IssueInv, TokenIssueTypeOK
<1>b. ASSUME step[f] \in {"limit", "recheck"}, step' = [step EXCEPT ![f] = "post"], fkey' = fkey,
             UNCHANGED <<Serving, Granted>>
      PROVE  IssuerStep
  <2>1. k \in Keys /\ ~ Serves(k)
    BY <1>b DEF SoleInv
  <2>2. k \notin Asking
    BY <1>b, <1>s DEF Asking
  <2>3. Asking' = Asking \cup {k}
    BY <1>b, <2>1 DEF Asking, IssueInv, TokenIssueTypeOK
  <2>4. Issuer!Ask(k)
    BY <1>b, <2>1, <2>2, <2>3 DEF Issuer!Ask, Serving, Asking, Granted
  <2> QED
    BY <2>1, <2>4 DEF IssuerStep, Issuer!Next
<1>c. ASSUME step' = [step EXCEPT ![f] = "limit"] \/ step' = [step EXCEPT ![f] = "recheck"]
               \/ step' = [step EXCEPT ![f] = "return"],
             step[f] \notin {"post", "store"}, fkey' = fkey
      PROVE  Asking' = Asking
  BY <1>c DEF Asking, IssueInv, TokenIssueTypeOK
<1>1. ASSUME NEW next \in {"limit", "post"}, step[f] \in {"enter", "recheck"}, LookUpOr(f, next),
             step[f] = "enter" => next = "limit"
      PROVE  SoleInv' /\ IssuerStep
  <2>1. CASE Serves(k)
    <3>1. /\ outcome' = [outcome EXCEPT ![f] = cache[k]]
          /\ step' = [step EXCEPT ![f] = "return"]
          /\ UNCHANGED <<group, fkey, cache, age>>
      BY <1>1, <2>1 DEF LookUpOr
    <3>2. cache[k] \in Flights /\ cache[k] # f /\ outcome[f] # f
      BY <1>1, <2>1 DEF Serves, SoleInv, IssueInv, TokenIssueTypeOK
    <3>3. SoleInv'
      BY <1>1, <3>1, <3>2 DEF SoleInv, Serves, IssueInv, TokenIssueTypeOK
    <3>4. UNCHANGED <<Serving, Granted>>
      BY <3>1, <3>2 DEF Serving, Serves, Granted, IssueInv, TokenIssueTypeOK
    <3> QED
      BY <1>1, <1>c, <3>1, <3>3, <3>4, NoIssuerStep
  <2>2. CASE ~ Serves(k)
    <3>1. /\ step' = [step EXCEPT ![f] = next]
          /\ UNCHANGED <<group, fkey, cache, age, outcome>>
      BY <1>1, <2>2 DEF LookUpOr
    <3>2. SoleInv'
      BY <1>1, <2>2, <3>1 DEF SoleInv, Serves, IssueInv, TokenIssueTypeOK
    <3>3. UNCHANGED <<Serving, Granted>>
      BY <3>1 DEF Serving, Serves, Granted
    <3> QED
      BY <1>1, <1>b, <1>c, <3>1, <3>2, <3>3, NoIssuerStep
  <2> QED
    BY <2>1, <2>2
<1>2. CASE Enter(f)
  BY <1>1, <1>2 DEF Enter
<1>3. CASE Recheck(f)
  BY <1>1, <1>3 DEF Recheck
<1>4. CASE WaitForAuth(f)
  <2>1. SoleInv'
    BY <1>4 DEF WaitForAuth, SoleInv, Serves, IssueInv, TokenIssueTypeOK
  <2>2. UNCHANGED <<Serving, Granted>>
    BY <1>4 DEF WaitForAuth, Serving, Serves, Granted
  <2> QED
    BY <1>4, <1>b, <1>c, <2>1, <2>2, NoIssuerStep DEF WaitForAuth
<1>5. CASE PostGranted(f)
  <2>1. PICK a \in GrantedAges : age' = [age EXCEPT ![f] = a]
    BY <1>5 DEF PostGranted
  <2>2. /\ step[f] = "post"
        /\ step' = [step EXCEPT ![f] = "store"]
        /\ UNCHANGED <<group, fkey, outcome, cache>>
    BY <1>5 DEF PostGranted
  <2>3. \A j \in Keys : cache[j] # f
    BY <2>2 DEF SoleInv
  <2>4. \A j \in Keys : Serves(j)' <=> Serves(j)
    BY <2>1, <2>2, <2>3 DEF Serves, IssueInv, TokenIssueTypeOK
  <2>5. \A g \in Flights : step[g] # "unused" => fkey[g] \in Keys
    BY DEF IssueInv, TokenIssueTypeOK, FlightsKeyed
  <2>6. SoleInv'
    BY <2>2, <2>4, <2>5 DEF SoleInv, IssueInv, TokenIssueTypeOK
  <2>7. UNCHANGED <<Serving, Asking, Granted>>
    BY <2>2, <2>4 DEF Serving, Asking, Granted, IssueInv, TokenIssueTypeOK
  <2> QED
    BY <2>6, <2>7, NoIssuerStep
<1>6. CASE PostFailed(f)
  <2>1. SoleInv'
    BY <1>6 DEF PostFailed, SoleInv, Serves, IssueInv, TokenIssueTypeOK
  <2>2. UNCHANGED <<Serving, Granted>>
    BY <1>6 DEF PostFailed, Serving, Serves, Granted
  <2>3. Issuer!Fail(k)
    BY <1>6, <1>a, <2>2 DEF PostFailed, Issuer!Fail, Serving, Asking, Granted
  <2> QED
    BY <1>6, <2>1, <2>3 DEF PostFailed, IssuerStep, Issuer!Next
<1>7. CASE Store(f)
  <2>1. /\ step[f] = "store"
        /\ cache' = [cache EXCEPT ![k] = f]
        /\ outcome' = [outcome EXCEPT ![f] = f]
        /\ step' = [step EXCEPT ![f] = "return"]
        /\ UNCHANGED <<group, fkey, age>>
    BY <1>7 DEF Store, SetToken
  <2>2. k \in Keys /\ ~ Serves(k) /\ f # None
    BY <2>1 DEF SoleInv
  <2>3. \A j \in Keys : cache[j] # f
    BY <2>1 DEF SoleInv
  <2>4. \A j \in Keys \ {k} : (Serves(j)' <=> Serves(j)) /\ cache'[j] = cache[j]
    BY <2>1, <2>2 DEF Serves, IssueInv, TokenIssueTypeOK
  <2>5. SoleInv'
    <3>1. \A g \in Flights : step'[g] \notin {"unused", "done"} => group'[fkey'[g]] = g
      BY <2>1 DEF SoleInv, IssueInv, TokenIssueTypeOK
    <3>2. (\A g \in Flights : step[g] \in {"limit", "recheck", "post", "store"} => ~Serves(fkey[g]))'
      <4> SUFFICES ASSUME NEW g \in Flights, step'[g] \in {"limit", "recheck", "post", "store"}
                   PROVE  ~Serves(fkey[g])'
        OBVIOUS
      <4>1. g # f /\ step[g] = step'[g]
        BY <2>1 DEF IssueInv, TokenIssueTypeOK
      <4>2. fkey[g] \in Keys \ {k}
        BY <4>1, <1>s, <2>1 DEF IssueInv, TokenIssueTypeOK, FlightsKeyed
      <4>3. Serves(fkey[g])' <=> Serves(fkey[g])
        BY <4>2, <2>1, <2>4 DEF Serves
      <4> QED
        BY <4>1, <4>3 DEF SoleInv
    <3>3. \A g \in Flights : outcome'[g] = g => step'[g] \in {"return", "done"}
      BY <2>1 DEF SoleInv, IssueInv, TokenIssueTypeOK
    <3>4. \A j \in Keys : cache'[j] # None => outcome'[cache'[j]] = cache'[j]
      BY <2>1, <2>2, <2>3 DEF SoleInv, IssueInv, TokenIssueTypeOK
    <3> QED
      BY <3>1, <3>2, <3>3, <3>4 DEF SoleInv
  <2>6. f \notin Granted /\ Granted' = Granted \cup {f}
    BY <2>1 DEF Granted, SoleInv, IssueInv, TokenIssueTypeOK
  <2>7. Serving' = Serving \/ Serving' = [Serving EXCEPT ![k] = f]
    <3>1. Serving' = [j \in Keys |-> IF j = k THEN (IF age[f] = "fresh" THEN f ELSE None) ELSE Serving[j]]
      BY <2>1, <2>2, <2>4 DEF Serving, Serves, IssueInv, TokenIssueTypeOK
    <3>2. Serving[k] = None /\ Serving = [j \in Keys |-> Serving[j]]
      BY <2>2 DEF Serving
    <3> QED
      BY <3>1, <3>2
  <2>8. k \in Asking /\ Asking' = Asking \ {k}
    BY <2>1, <1>a
  <2>9. Issuer!Grant(k, f)
    BY <2>6, <2>7, <2>8 DEF Issuer!Grant, Serving, Asking, Granted
  <2> QED
    BY <2>2, <2>5, <2>9 DEF IssuerStep, Issuer!Next
<1>8. CASE Settle(f)
  <2>1. /\ step[f] = "return"
        /\ group' = [group EXCEPT ![k] = None]
        /\ step' = [step EXCEPT ![f] = "done"]
        /\ UNCHANGED <<fkey, outcome, cache, age>>
    BY <1>8 DEF Settle
  <2>2. SoleInv'
    <3>1. \A g \in Flights : step'[g] \notin {"unused", "done"} => group'[fkey'[g]] = g
      <4> SUFFICES ASSUME NEW g \in Flights, step'[g] \notin {"unused", "done"}
                   PROVE  group'[fkey[g]] = g
        BY <2>1
      <4>1. g # f /\ step[g] = step'[g]
        BY <2>1 DEF IssueInv, TokenIssueTypeOK
      <4>2. fkey[g] # k /\ fkey[g] \in Keys
        BY <4>1, <1>s, <2>1 DEF IssueInv, TokenIssueTypeOK, FlightsKeyed
      <4> QED
        BY <4>1, <4>2, <2>1 DEF SoleInv, IssueInv, TokenIssueTypeOK
    <3> QED
      BY <3>1, <2>1 DEF SoleInv, Serves, IssueInv, TokenIssueTypeOK
  <2>3. UNCHANGED <<Serving, Asking, Granted>>
    BY <2>1 DEF Serving, Serves, Asking, Granted, IssueInv, TokenIssueTypeOK
  <2> QED
    BY <2>2, <2>3, NoIssuerStep
<1> QED
  BY <1>2, <1>3, <1>4, <1>5, <1>6, <1>7, <1>8 DEF Issue

\* A token that is no longer served has been withdrawn.
LEMMA WithdrawRefines ==
  ASSUME IssueInv, SoleInv, NEW k \in Keys, Serving' = [Serving EXCEPT ![k] = None],
         UNCHANGED <<Asking, Granted>>
  PROVE  IssuerStep
<1>1. CASE Serving[k] = None
  <2>1. Serving' = Serving
    BY <1>1 DEF Serving
  <2> QED
    BY <2>1, NoIssuerStep
<1>2. CASE Serving[k] # None
  <2>1. Issuer!Withdraw(k)
    BY <1>2 DEF Issuer!Withdraw, Serving, Asking, Granted
  <2> QED
    BY <2>1 DEF IssuerStep, Issuer!Next
<1> QED
  BY <1>1, <1>2

LEMMA DeleteTokenRefines ==
  ASSUME IssueInv, SoleInv, NEW k \in Keys, DeleteToken(k),
         UNCHANGED <<group, step, fkey, outcome, age, revoked, permit>>
  PROVE  SoleInv' /\ IssuerStep
<1> USE TokenIssueAssumption
<1>1. SoleInv'
  BY DEF SoleInv, Serves, DeleteToken, IssueInv, TokenIssueTypeOK, FlightsKeyed
<1>2. Serving' = [Serving EXCEPT ![k] = None]
  BY DEF Serving, Serves, DeleteToken, IssueInv, TokenIssueTypeOK
<1>3. UNCHANGED <<Asking, Granted>>
  BY DEF Asking, Granted
<1> QED
  BY <1>1, <1>2, <1>3, WithdrawRefines

LEMMA EnvironmentRefines ==
  ASSUME IssueInv, SoleInv,
         \/ \E k \in Keys : Refill(k)
         \/ \E t \in Flights : GrowOld(t) \/ Revoke(t)
  PROVE  SoleInv' /\ IssuerStep
<1> USE TokenIssueAssumption
<1>1. UNCHANGED <<Asking, Granted>>
  BY DEF Asking, Granted, Refill, GrowOld, Revoke
<1>2. CASE \/ \E k \in Keys : Refill(k)
           \/ \E t \in Flights : Revoke(t)
  BY <1>1, <1>2, NoIssuerStep DEF Refill, Revoke, SoleInv, Serves, Serving
<1>3. ASSUME NEW t \in Flights, GrowOld(t) PROVE SoleInv' /\ IssuerStep
  <2>1. /\ age' = [age EXCEPT ![t] = IF @ = "fresh" THEN "aging" ELSE "expired"]
        /\ UNCHANGED <<group, step, fkey, outcome, cache>>
    BY <1>3 DEF GrowOld
  <2>2. \A j \in Keys : Serves(j)' <=> Serves(j) /\ cache[j] # t
    BY <2>1 DEF Serves, IssueInv, TokenIssueTypeOK
  <2>3. \A g \in Flights : step[g] # "unused" => fkey[g] \in Keys
    BY DEF IssueInv, TokenIssueTypeOK, FlightsKeyed
  <2>4. SoleInv'
    BY <2>1, <2>2, <2>3 DEF SoleInv
  <2>5. CASE \E j \in Keys : cache[j] = t
    <3>1. PICK k \in Keys : cache[k] = t
      BY <2>5
    <3>2. \A j \in Keys : cache[j] = t <=> j = k
      BY <3>1 DEF IssueInv, FlightsKeyed
    <3>3. Serving' = [Serving EXCEPT ![k] = None]
      BY <2>1, <2>2, <3>2 DEF Serving
    <3> QED
      BY <1>1, <2>4, <3>3, WithdrawRefines
  <2>6. CASE ~ \E j \in Keys : cache[j] = t
    <3>1. Serving' = Serving
      BY <2>1, <2>2, <2>6 DEF Serving
    <3> QED
      BY <1>1, <2>4, <3>1, NoIssuerStep
  <2> QED
    BY <2>5, <2>6
<1> QED
  BY <1>2, <1>3

LEMMA StutterRefines ==
  ASSUME IssueInv, SoleInv, UNCHANGED issueVars
  PROVE  SoleInv' /\ IssuerStep
BY NoIssuerStep DEF issueVars, SoleInv, Serves, Serving, Asking, Granted
=============================================================================
