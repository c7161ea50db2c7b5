------------------------------ MODULE FileToken -----------------------------
(***************************************************************************)
(* The token managers of the four brokers (internal/filetoken/manager.go   *)
(* with the options of each token_manager.go): a map in memory and one     *)
(* file per app key, all in one directory (internal/server/broker_init.go).*)
(* Each manager writes files of its own name, but the KIS and the LS       *)
(* manager read, and clean up, every file of the directory.                *)
(*                                                                         *)
(* The remaining life of a token is counted in the steps its managers tell *)
(* apart; a manager serves a token while its life exceeds the manager's    *)
(* buffer.                                                                 *)
(***************************************************************************)
EXTENDS Naturals, Sequences

CONSTANTS
  BootOrder,  \* the brokers, in the order their managers are created
  Keys,       \* app keys
  Owner,      \* Owner[k]: the broker that gave out app key k
  Tokens,     \* tokens the brokers grant
  NoToken,    \* no token
  Prefix,     \* Prefix[b]: the file name prefix of b's manager, "" for none
  Buffer,     \* Buffer[b]: the validity buffer of b's manager
  FullLife    \* the life of a token when it is granted

Brokers == {BootOrder[i] : i \in DOMAIN BootOrder}

ASSUME FileTokenAssumption ==
  /\ BootOrder \in Seq(Brokers)
  /\ Owner \in [Keys -> Brokers]
  /\ FullLife \in Nat
  /\ NoToken \notin Tokens \cup 0..FullLife
  /\ Buffer \in [Brokers -> 0..FullLife]
  /\ DOMAIN Prefix = Brokers

\* Every file the managers can write: <prefix><hash of the app key>.json.
Names == {Prefix[b] : b \in Brokers} \X Keys

BuildFileName(b, k) == <<Prefix[b], k>>

\* AllowFileName: JSONFileOnly, or PrefixedJSONFileOnly.
AllowFileName(b, name) == Prefix[b] \in {"", name[1]}

VARIABLES
  tokens,   \* Manager.tokens of each manager
  booted,   \* managers created since the process started
  saving,   \* the app keys whose SetToken is in the middle of its WriteFile
  files,    \* what each file holds: a token and the app key it is for,
            \* "gone" when there is no file, "torn" when it cannot be decoded
  life,     \* the remaining life of each token, NoToken before it is granted
  current,  \* the last token granted for each app key, NoToken once deleted
  unwritten \* the app keys whose file an error or a crash left behind

tokenFilesVars == <<tokens, booted, saving, files, life, current, unwritten>>

Entry(state, t) == [state |-> state, token |-> t]
Gone == Entry("gone", NoToken)
Torn == Entry("torn", NoToken)

TokenFilesTypeOK ==
  /\ tokens \in [Brokers -> [Keys -> Tokens \cup {NoToken}]]
  /\ booted \in 0..Len(BootOrder)
  /\ saving \in SUBSET Keys
  /\ files \in [Names -> {Gone, Torn} \cup {Entry("whole", t) : t \in Tokens}]
  /\ life \in [Tokens -> 0..FullLife \cup {NoToken}]
  /\ current \in [Keys -> Tokens \cup {NoToken}]
  /\ unwritten \in SUBSET Keys

NoTokens == [b \in Brokers |-> [k \in Keys |-> NoToken]]

TokenFilesInit ==
  /\ tokens = NoTokens
  /\ booted = 0
  /\ saving = {}
  /\ files = [n \in Names |-> Gone]
  /\ life = [t \in Tokens |-> NoToken]
  /\ current = [k \in Keys |-> NoToken]
  /\ unwritten = {}

Up == booted = Len(BootOrder)

File(k) == BuildFileName(Owner[k], k)

\* A manager holds its lock from the change of the map to the end of the write.
Unlocked(b) == \A k \in saving : Owner[k] # b

-----------------------------------------------------------------------------
(* GetToken, SetToken, DeleteToken.                                        *)

Valid(b, t) == t # NoToken /\ life[t] > Buffer[b]

\* GetToken, for the manager of the broker that owns the key.
GetToken(k) ==
  LET b == Owner[k]
  IN  IF Valid(b, tokens[b][k]) THEN tokens[b][k] ELSE NoToken

\* A granted token enters the map, and WriteFile opens and truncates its file.
SetToken(k, t) ==
  /\ Up
  /\ Unlocked(Owner[k])
  /\ life[t] = NoToken
  /\ life' = [life EXCEPT ![t] = FullLife]
  /\ current' = [current EXCEPT ![k] = t]
  /\ tokens' = [tokens EXCEPT ![Owner[k]][k] = t]
  /\ \/ /\ saving' = saving \cup {k}
        /\ files' = [files EXCEPT ![File(k)] = Torn]
        /\ UNCHANGED unwritten
     \/ /\ unwritten' = unwritten \cup {k}
        /\ UNCHANGED <<saving, files>>
  /\ UNCHANGED booted

\* Fault: the entry is written before it is filled in.
saveZeroEntry(k) ==
  /\ k \in saving
  /\ saving' = saving \ {k}
  /\ files' = [files EXCEPT ![File(k)] = Entry("whole", NoToken)]
  /\ unwritten' = unwritten \ {k}
  /\ UNCHANGED <<tokens, booted, life, current>>

\* Fault: the file is written under the name without the prefix.
saveUnprefixed(k) ==
  /\ k \in saving
  /\ saving' = saving \ {k}
  /\ files' = [files EXCEPT ![<<"", k>>] = Entry("whole", current[k])]
  /\ unwritten' = unwritten \ {k}
  /\ UNCHANGED <<tokens, booted, life, current>>

\* The write ends, as a whole or with an error the callers only log.
save(k) ==
  /\ k \in saving
  /\ saving' = saving \ {k}
  /\ \/ /\ files' = [files EXCEPT ![File(k)] = Entry("whole", current[k])]
        /\ unwritten' = unwritten \ {k}
     \/ /\ unwritten' = unwritten \cup {k}
        /\ UNCHANGED files
  /\ UNCHANGED <<tokens, booted, life, current>>

\* Fault: only the map forgets the token.
DeleteTokenInMemory(k) ==
  /\ Up
  /\ Unlocked(Owner[k])
  /\ tokens' = [tokens EXCEPT ![Owner[k]][k] = NoToken]
  /\ current' = [current EXCEPT ![k] = NoToken]
  /\ UNCHANGED <<booted, saving, files, life, unwritten>>

\* The map and the disk forget the token; no caller looks at the error.
DeleteToken(k) ==
  /\ Up
  /\ Unlocked(Owner[k])
  /\ tokens' = [tokens EXCEPT ![Owner[k]][k] = NoToken]
  /\ current' = [current EXCEPT ![k] = NoToken]
  /\ \/ /\ files' = [files EXCEPT ![File(k)] = Gone]
        /\ unwritten' = unwritten \ {k}
     \/ /\ files[File(k)] # Gone
        /\ unwritten' = unwritten \cup {k}
        /\ UNCHANGED files
  /\ UNCHANGED <<booted, saving, life>>

-----------------------------------------------------------------------------
(* Start-up.                                                               *)

\* loadAll of the next manager: of the files it looks at, those with a token
\* inside its buffer are removed, whoever wrote them; the others enter its map
\* under the app key they name.
loadAll ==
  /\ ~ Up
  /\ LET b == BootOrder[booted + 1]
         Looked == {n \in Names : AllowFileName(b, n) /\ files[n].state = "whole"}
         Stale == {n \in Looked : ~ Valid(b, files[n].token)}
         Kept(k) == {n \in Looked \ Stale : n[2] = k}
     IN  /\ files' = [n \in Names |-> IF n \in Stale THEN Gone ELSE files[n]]
         /\ \E m \in [Keys -> Tokens \cup {NoToken}] :
              /\ \A k \in Keys :
                   IF Kept(k) = {} THEN m[k] = NoToken ELSE m[k] \in {files[n].token : n \in Kept(k)}
              /\ tokens' = [tokens EXCEPT ![b] = m]
  /\ booted' = booted + 1
  /\ UNCHANGED <<saving, life, current, unwritten>>

\* The process dies, in the middle of a write perhaps.
Crash ==
  /\ booted > 0
  /\ tokens' = NoTokens
  /\ booted' = 0
  /\ saving' = {}
  /\ unwritten' = unwritten \cup saving
  /\ UNCHANGED <<files, life, current>>

Tick(t) ==
  /\ life[t] \notin {NoToken, 0}
  /\ life' = [life EXCEPT ![t] = @ - 1]
  /\ UNCHANGED <<tokens, booted, saving, files, current, unwritten>>

TokenFilesNext ==
  \/ \E k \in Keys : save(k) \/ DeleteToken(k) \/ \E t \in Tokens : SetToken(k, t)
  \/ loadAll
  \/ Crash
  \/ \E t \in Tokens : Tick(t)

TokenFilesSpec == TokenFilesInit /\ [][TokenFilesNext]_tokenFilesVars

-----------------------------------------------------------------------------
(* Properties.                                                             *)

\* A manager never serves a token that was replaced or deleted since, across any
\* number of restarts, unless the disk failed or the process died while it was
\* being written (GetToken after loadAll).
OnlyCurrentServed ==
  Up => \A k \in Keys : GetToken(k) \in {NoToken, current[k]} \/ k \in unwritten

\* A token that no manager finds stale is served again after a restart, although
\* all managers clean up the same directory.
ServedAfterRestart ==
  Up => \A k \in Keys :
          current[k] # NoToken /\ k \notin unwritten /\ (\A b \in Brokers : Valid(b, current[k]))
            => GetToken(k) = current[k]
=============================================================================
