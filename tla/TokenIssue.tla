----------------------------- MODULE TokenIssue -----------------------------
(***************************************************************************)
(* Token issuance shared by every client of one broker: the in-memory half *)
(* of the token manager (internal/filetoken/manager.go), the package-level *)
(* singleflight group (authFlight) and the issueToken function each        *)
(* auth.go runs in it on a detached context.                               *)
(*                                                                         *)
(* A call of issueToken and the token it may obtain share one identity, a  *)
(* member of Flights.  Clocks are abstracted to the three ages a token has *)
(* for this code: "fresh" (the manager serves it), "aging" (inside the     *)
(* manager's validity buffer, outside the client's) and "expired".         *)
(***************************************************************************)
EXTENDS Naturals, FiniteSets

CONSTANTS
  Keys,             \* app keys
  Flights,          \* calls of issueToken, and the tokens they obtain
  None,             \* no token, no key, no flight
  RecheckAfterWait, \* issueToken looks the cache up again after WaitForAuth (LS)
  BrokerMayFail,    \* the broker may answer with an error or not at all
  GrantedAges,      \* the ages a token may have when it is granted
  Loaded            \* the tokens found on the disk at start-up, one for a key

Steps == {"unused", "enter", "limit", "recheck", "post", "store", "return", "done"}
Ages  == {"fresh", "aging", "expired"}

ASSUME TokenIssueAssumption ==
  /\ None \notin Keys
  /\ None \notin Flights
  /\ RecheckAfterWait \in BOOLEAN
  /\ BrokerMayFail \in BOOLEAN
  /\ GrantedAges \subseteq Ages
  /\ Loaded \subseteq Flights
  /\ None \notin Ages

VARIABLES
  group,    \* authFlight: the call in progress for each key, or None
  step,     \* where each call of issueToken is
  fkey,     \* the app key each call was started for
  outcome,  \* the token each finished call returned, None for an error
  cache,    \* Manager.tokens
  age,      \* the age of each token issued, None before it is issued
  revoked,  \* the tokens the broker no longer accepts although not expired
  permit    \* the keys whose auth limiter (1 per minute, burst 1) has its permit

issueVars == <<group, step, fkey, outcome, cache, age, revoked, permit>>

TokenIssueTypeOK ==
  /\ group \in [Keys -> Flights \cup {None}]
  /\ step \in [Flights -> Steps]
  /\ fkey \in [Flights -> Keys \cup {None}]
  /\ outcome \in [Flights -> Flights \cup {None}]
  /\ cache \in [Keys -> Flights \cup {None}]
  /\ age \in [Flights -> Ages \cup {None}]
  /\ revoked \in SUBSET Flights
  /\ permit \in SUBSET Keys

TokenIssueInit ==
  /\ fkey \in [Flights -> Keys \cup {None}]
  /\ \A f \in Flights : fkey[f] # None <=> f \in Loaded
  /\ \A f, g \in Loaded : fkey[f] = fkey[g] => f = g
  /\ cache \in [Keys -> Loaded \cup {None}]
  /\ \A k \in Keys, f \in Loaded : cache[k] = f <=> fkey[f] = k
  /\ group = [k \in Keys |-> None]
  /\ step = [f \in Flights |-> IF f \in Loaded THEN "done" ELSE "unused"]
  /\ outcome = [f \in Flights |-> IF f \in Loaded THEN f ELSE None]
  /\ age = [f \in Flights |-> IF f \in Loaded THEN "fresh" ELSE None]
  /\ revoked = {}
  /\ permit = Keys

-----------------------------------------------------------------------------
(* The token manager.                                                      *)

\* GetToken returns an entry only while it is outside the validity buffer.
Serves(k) == cache[k] # None /\ age[cache[k]] = "fresh"

\* SetToken; the write to disk is the subject of module FileToken.
SetToken(k, t) == cache' = [cache EXCEPT ![k] = t]

DeleteToken(k) == cache' = [cache EXCEPT ![k] = None]

-----------------------------------------------------------------------------
(* The singleflight group.                                                 *)

\* The calls are started one after the other; which comes first is a name only.
NextFlight == CHOOSE f \in Flights : step[f] = "unused"

\* Fault: every caller starts a call of its own.
DoChanAlwaysNew(k, f) ==
  /\ step[f] = "unused"
  /\ f = NextFlight
  /\ group' = [group EXCEPT ![k] = f]
  /\ step' = [step EXCEPT ![f] = "enter"]
  /\ fkey' = [fkey EXCEPT ![f] = k]
  /\ UNCHANGED <<outcome, cache, age, revoked, permit>>

\* Fault: the group is entered under one name for all app keys.
DoChanAnyKey(k, f) ==
  \/ /\ \E j \in Keys : group[j] = f
     /\ UNCHANGED issueVars
  \/ /\ \A j \in Keys : group[j] = None
     /\ DoChanAlwaysNew(k, f)

\* DoChan: join the call in progress for the key, else start one.
DoChan(k, f) ==
  \/ /\ group[k] = f
     /\ UNCHANGED issueVars
  \/ /\ group[k] = None
     /\ step[f] = "unused"
     /\ f = NextFlight
     /\ group' = [group EXCEPT ![k] = f]
     /\ step' = [step EXCEPT ![f] = "enter"]
     /\ fkey' = [fkey EXCEPT ![f] = k]
     /\ UNCHANGED <<outcome, cache, age, revoked, permit>>

\* Fault: a call that failed is never settled.
SettleOnlyTokens(f) ==
  /\ step[f] = "return"
  /\ outcome[f] # None
  /\ group' = [group EXCEPT ![fkey[f]] = None]
  /\ step' = [step EXCEPT ![f] = "done"]
  /\ UNCHANGED <<fkey, outcome, cache, age, revoked, permit>>

\* doCall after the function returned: the key is forgotten and the result is
\* sent to every waiting channel under the group's lock.
Settle(f) ==
  /\ step[f] = "return"
  /\ group' = [group EXCEPT ![fkey[f]] = None]
  /\ step' = [step EXCEPT ![f] = "done"]
  /\ UNCHANGED <<fkey, outcome, cache, age, revoked, permit>>

-----------------------------------------------------------------------------
(* issueToken.                                                             *)

\* A look at the cache: its token is the result, or the call goes on at next.
LookUpOr(f, next) ==
  /\ IF Serves(fkey[f])
       THEN /\ outcome' = [outcome EXCEPT ![f] = cache[fkey[f]]]
            /\ step' = [step EXCEPT ![f] = "return"]
       ELSE /\ step' = [step EXCEPT ![f] = next]
            /\ UNCHANGED outcome
  /\ UNCHANGED <<group, fkey, cache, age, revoked, permit>>

\* Fault: the call goes straight to the limiter.
EnterBlind(f) ==
  /\ step[f] = "enter"
  /\ step' = [step EXCEPT ![f] = "limit"]
  /\ UNCHANGED <<group, fkey, outcome, cache, age, revoked, permit>>

\* Another flight may have refreshed while this one was queued.
Enter(f) == step[f] = "enter" /\ LookUpOr(f, "limit")

\* WaitForAuth: blocks, on a background context, until the key has a permit.
WaitForAuth(f) ==
  /\ step[f] = "limit"
  /\ fkey[f] \in permit
  /\ permit' = permit \ {fkey[f]}
  /\ step' = [step EXCEPT ![f] = IF RecheckAfterWait THEN "recheck" ELSE "post"]
  /\ UNCHANGED <<group, fkey, outcome, cache, age, revoked>>

Recheck(f) == step[f] = "recheck" /\ LookUpOr(f, "post")

\* The broker grants a token; its lifetime may already lie inside a buffer.
PostGranted(f) ==
  /\ step[f] = "post"
  /\ \E a \in GrantedAges : age' = [age EXCEPT ![f] = a]
  /\ step' = [step EXCEPT ![f] = "store"]
  /\ UNCHANGED <<group, fkey, outcome, cache, revoked, permit>>

\* A transport error, a timeout, an error status or an unusable body.
PostFailed(f) ==
  /\ step[f] = "post"
  /\ BrokerMayFail
  /\ step' = [step EXCEPT ![f] = "return"]
  /\ UNCHANGED <<group, fkey, outcome, cache, age, revoked, permit>>

\* The token is cached under the issuing key, whoever is still waiting for it.
Store(f) ==
  /\ step[f] = "store"
  /\ SetToken(fkey[f], f)
  /\ outcome' = [outcome EXCEPT ![f] = f]
  /\ step' = [step EXCEPT ![f] = "return"]
  /\ UNCHANGED <<group, fkey, age, revoked, permit>>

Issue(f) ==
  \/ Enter(f)
  \/ WaitForAuth(f)
  \/ Recheck(f)
  \/ PostGranted(f)
  \/ PostFailed(f)
  \/ Store(f)
  \/ Settle(f)

\* The module's variables seen as those of the abstract issuer.
Issuer == INSTANCE SingleIssuer WITH
  Tokens  <- Flights,
  serving <- [k \in Keys |-> IF Serves(k) THEN cache[k] ELSE None],
  asking  <- {k \in Keys : \E f \in Flights : fkey[f] = k /\ step[f] \in {"post", "store"}},
  granted <- {f \in Flights : outcome[f] = f}

-----------------------------------------------------------------------------
(* The environment: a minute passes on a limiter, a token grows old, the   *)
(* broker revokes a token.                                                 *)

Refill(k) ==
  /\ k \notin permit
  /\ permit' = permit \cup {k}
  /\ UNCHANGED <<group, step, fkey, outcome, cache, age, revoked>>

GrowOld(t) ==
  /\ age[t] \in {"fresh", "aging"}
  /\ age' = [age EXCEPT ![t] = IF @ = "fresh" THEN "aging" ELSE "expired"]
  /\ UNCHANGED <<group, step, fkey, outcome, cache, revoked, permit>>

Revoke(t) ==
  /\ age[t] \in {"fresh", "aging"}
  /\ t \notin revoked
  /\ revoked' = revoked \cup {t}
  /\ UNCHANGED <<group, step, fkey, outcome, cache, age, permit>>
=============================================================================
