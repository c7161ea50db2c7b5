---------------------------- MODULE Server_proofs ---------------------------
(***************************************************************************)
(* What the server keeps, on disk and in memory.                           *)
(*                                                                         *)
(* FileToken: no token manager ever serves a token that was replaced or    *)
(* deleted, and each serves after a restart the token nobody finds stale,  *)
(* for any number of managers, app keys, tokens and restarts, whatever     *)
(* their prefixes, filters and buffers.                                    *)
(* OrderContextStore: the file of an account's order contexts is whole,    *)
(* complete and never older than it was, for any number of workers, orders *)
(* and crashes, if one request at a time persists.                         *)
(* ProxyCache: what the KIS proxy answers is what was asked for and recent *)
(* enough, for any number of callers, paths, lifetimes and limiters.       *)
(* MasterSymbols: the index of symbols that is served is only replaced by  *)
(* one that is not older and answers every lookup rightly, for any number  *)
(* of accounts that rebuild it, any files and any listing.                 *)
(* Accounts: every call a request makes is for the account it names, at a  *)
(* broker of the kind it asks for and as the documents of that broker say, *)
(* and no account is missing from a total, for any configuration, any      *)
(* request and any tables.                                                 *)
(***************************************************************************)
EXTENDS MCFiles, MCServer, FiniteSetTheorems, SequenceTheorems, WellFoundedInduction, TLAPS

-----------------------------------------------------------------------------
(* Tokens.                                                                 *)

\* A file that can be decoded has the name its key's manager gives it, and holds
\* the key's last token, unless the disk failed or the process died.
DiskTrue ==
  \A n \in Names : files[n].state = "whole" =>
    n = File(n[2]) /\ (files[n].token = current[n[2]] \/ n[2] \in unwritten)

\* So does the map of the key's manager, if it has one at all.
MapTrue ==
  \A k \in Keys : tokens[Owner[k]][k] \in {NoToken, current[k]} \/ k \in unwritten

\* While a token is being written it is in the map.
SavingTrue ==
  \A k \in saving : Up /\ tokens[Owner[k]][k] = current[k] /\ current[k] # NoToken

\* The last token of a key has been granted,
CurrentGranted == \A k \in Keys : current[k] # NoToken => life[current[k]] # NoToken

Good(k) == current[k] # NoToken /\ k \notin unwritten /\ \A b \in Brokers : Valid(b, current[k])

Booted(b) == \E i \in 1..booted : BootOrder[i] = b

\* and while no manager finds it stale it is on its way to the disk or there, and
\* in the map of its manager from when that has been created.
GoodKept ==
  \A k \in Keys : Good(k) =>
    /\ k \in saving \/ files[File(k)] = Entry("whole", current[k])
    /\ Booted(Owner[k]) => tokens[Owner[k]][k] = current[k]

\* The inductive invariant.
TokensIInv == TokenFilesTypeOK /\ DiskTrue /\ MapTrue /\ SavingTrue /\ CurrentGranted /\ GoodKept

LEMMA BrokersBooted == ASSUME Up, NEW b \in Brokers PROVE Booted(b)
BY DEF Up, Brokers, Booted

LEMMA TokensIInvImplies ==
  ASSUME TokensIInv PROVE TokenFilesTypeOK /\ OnlyCurrentServed /\ ServedAfterRestart
<1>1. OnlyCurrentServed
  BY DEF TokensIInv, MapTrue, OnlyCurrentServed, GetToken
<1>2. ASSUME Up, NEW k \in Keys, Good(k)
      PROVE  GetToken(k) = current[k]
  <2>1. Owner[k] \in Brokers
    BY FileTokenAssumption
  <2>2. tokens[Owner[k]][k] = current[k] /\ Valid(Owner[k], current[k])
    BY <1>2, <2>1, BrokersBooted DEF TokensIInv, GoodKept, Good
  <2> QED
    BY <2>2 DEF GetToken
<1> QED
  BY <1>1, <1>2 DEF TokensIInv, ServedAfterRestart, Good

LEMMA TokensIInvInit == ASSUME TokenFilesInit PROVE TokensIInv
<1> USE FileTokenAssumption DEF TokenFilesInit
<1>1. TokenFilesTypeOK
  BY DEF TokenFilesTypeOK, NoTokens, Gone
<1>2. DiskTrue
  BY DEF DiskTrue, Gone, Entry
<1>3. MapTrue
  BY DEF MapTrue, NoTokens
<1>4. SavingTrue /\ CurrentGranted /\ GoodKept
  BY DEF SavingTrue, CurrentGranted, GoodKept, Good
<1> QED
  BY <1>1, <1>2, <1>3, <1>4 DEF TokensIInv
-----------------------------------------------------------------------------
\* What a file is called says whose key it is for.
LEMMA FilesApart ==
  ASSUME NEW j \in Keys, NEW k \in Keys
  PROVE  /\ File(k) \in Names /\ File(k)[2] = k
         /\ j # k => File(j) # File(k)
BY FileTokenAssumption DEF File, BuildFileName, Names

\* A token just granted reaches the map, and the file is opened or cannot be.
LEMMA SetTokenKeeps ==
  ASSUME TokensIInv, NEW k \in Keys, NEW t \in Tokens, SetToken(k, t)
  PROVE  TokensIInv'
<1> USE FileTokenAssumption DEF TokensIInv
<1>1. /\ Up /\ Unlocked(Owner[k])
      /\ life[t] = NoToken
      /\ life' = [life EXCEPT ![t] = FullLife]
      /\ current' = [current EXCEPT ![k] = t]
      /\ tokens' = [tokens EXCEPT ![Owner[k]][k] = t]
      /\ booted' = booted
  BY DEF SetToken
<1>2. \/ /\ saving' = saving \cup {k}
         /\ files' = [files EXCEPT ![File(k)] = Torn]
         /\ unwritten' = unwritten
      \/ /\ unwritten' = unwritten \cup {k}
         /\ UNCHANGED <<saving, files>>
  BY DEF SetToken
<1>o. Owner[k] \in Brokers /\ File(k) \in Names /\ k \notin saving
  BY <1>1, FilesApart DEF Unlocked
<1>t. /\ tokens'[Owner[k]][k] = t
      /\ \A j \in Keys \ {k} : tokens'[Owner[j]][j] = tokens[Owner[j]][j] /\ current'[j] = current[j]
      /\ current'[k] = t /\ t # NoToken
  BY <1>1, <1>o DEF TokenFilesTypeOK
<1>3. TokenFilesTypeOK'
  <2>1. tokens' \in [Brokers -> [Keys -> Tokens \cup {NoToken}]]
    BY <1>1, <1>o DEF TokenFilesTypeOK
  <2>2. files' \in [Names -> {Gone, Torn} \cup {Entry("whole", u) : u \in Tokens}]
    BY <1>2, <1>o DEF TokenFilesTypeOK
  <2> QED
    BY <1>1, <1>2, <2>1, <2>2 DEF TokenFilesTypeOK
<1>4. DiskTrue'
  <2> SUFFICES ASSUME NEW n \in Names, files'[n].state = "whole"
               PROVE  n = File(n[2]) /\ (files'[n].token = current'[n[2]] \/ n[2] \in unwritten')
    BY DEF DiskTrue
  <2>1. n[2] \in Keys
    BY DEF Names
  <2>2. files[n] = files'[n] /\ (n = File(k) => k \in unwritten')
    BY <1>2, <1>o DEF TokenFilesTypeOK, Torn, Entry
  <2>3. n = File(n[2]) /\ (files[n].token = current[n[2]] \/ n[2] \in unwritten)
    BY <2>2 DEF DiskTrue
  <2>4. CASE n[2] = k
    BY <2>2, <2>3, <2>4
  <2>5. CASE n[2] # k
    BY <1>2, <1>t, <2>1, <2>2, <2>3, <2>5
  <2> QED
    BY <2>4, <2>5
<1>5. MapTrue'
  BY <1>2, <1>t DEF MapTrue
<1>6. SavingTrue'
  BY <1>1, <1>2, <1>t DEF SavingTrue, Up, TokenFilesTypeOK
<1>7. CurrentGranted'
  BY <1>1, <1>t DEF CurrentGranted, TokenFilesTypeOK
<1>8. GoodKept'
  <2> SUFFICES ASSUME NEW j \in Keys, Good(j)'
               PROVE  /\ j \in saving' \/ files'[File(j)] = Entry("whole", current'[j])
                      /\ tokens'[Owner[j]][j] = current'[j]
    BY DEF GoodKept
  <2>1. CASE j = k
    BY <1>2, <1>t, <2>1 DEF Good
  <2>2. CASE j # k
    <3>1. current[j] # NoToken /\ current[j] # t
      BY <1>1, <1>t, <2>2 DEF Good, CurrentGranted
    <3>2. Good(j)
      BY <1>1, <1>2, <1>t, <2>2, <3>1 DEF Good, Valid, TokenFilesTypeOK
    <3>3. Booted(Owner[j])
      BY <1>1, BrokersBooted
    <3>4. files'[File(j)] = files[File(j)]
      BY <1>2, <1>o, <2>2, FilesApart DEF TokenFilesTypeOK
    <3> QED
      BY <1>2, <1>t, <2>2, <3>2, <3>3, <3>4 DEF GoodKept
  <2> QED
    BY <2>1, <2>2
<1> QED
  BY <1>3, <1>4, <1>5, <1>6, <1>7, <1>8

\* The write ends, whole or with an error.
LEMMA SaveKeeps ==
  ASSUME TokensIInv, NEW k \in Keys, save(k)
  PROVE  TokensIInv'
<1> USE FileTokenAssumption DEF TokensIInv
<1>1. /\ k \in saving
      /\ saving' = saving \ {k}
      /\ UNCHANGED <<tokens, booted, life, current>>
  BY DEF save
<1>2. \/ /\ files' = [files EXCEPT ![File(k)] = Entry("whole", current[k])]
         /\ unwritten' = unwritten \ {k}
      \/ /\ unwritten' = unwritten \cup {k}
         /\ UNCHANGED files
  BY DEF save
<1>o. File(k) \in Names /\ File(k)[2] = k
  BY FilesApart
<1>t. Up /\ tokens[Owner[k]][k] = current[k] /\ current[k] \in Tokens
  BY <1>1 DEF SavingTrue, TokenFilesTypeOK
<1>3. TokenFilesTypeOK'
  <2>1. files' \in [Names -> {Gone, Torn} \cup {Entry("whole", u) : u \in Tokens}]
    BY <1>2, <1>o, <1>t DEF TokenFilesTypeOK
  <2> QED
    BY <1>1, <1>2, <2>1 DEF TokenFilesTypeOK
<1>4. DiskTrue'
  <2> SUFFICES ASSUME NEW n \in Names, files'[n].state = "whole"
               PROVE  n = File(n[2]) /\ (files'[n].token = current[n[2]] \/ n[2] \in unwritten')
    BY <1>1 DEF DiskTrue
  <2>1. CASE n = File(k) /\ files' # files
    BY <1>2, <1>o, <2>1 DEF TokenFilesTypeOK, Entry
  <2>2. CASE ~(n = File(k) /\ files' # files)
    <3>1. files'[n] = files[n] /\ (n[2] = k => files' = files \/ n # File(k))
      BY <1>2, <1>o, <2>2 DEF TokenFilesTypeOK
    <3>2. n = File(n[2]) /\ (files[n].token = current[n[2]] \/ n[2] \in unwritten)
      BY <3>1 DEF DiskTrue
    <3>3. CASE n[2] = k
      <4>1. files' = files
        BY <3>1, <3>2, <3>3
      <4>2. CASE unwritten' = unwritten \cup {k}
        BY <3>1, <3>2, <3>3, <4>2
      <4>3. CASE files' = [files EXCEPT ![File(k)] = Entry("whole", current[k])]
        BY <1>o, <3>2, <3>3, <4>1, <4>3 DEF TokenFilesTypeOK, Entry
      <4> QED
        BY <1>2, <4>2, <4>3
    <3>4. CASE n[2] # k
      BY <1>2, <3>1, <3>2, <3>4
    <3> QED
      BY <3>3, <3>4
  <2> QED
    BY <2>1, <2>2
<1>5. MapTrue'
  BY <1>1, <1>2, <1>t DEF MapTrue
<1>6. SavingTrue' /\ CurrentGranted'
  BY <1>1 DEF SavingTrue, Up, CurrentGranted
<1>8. GoodKept'
  <2> SUFFICES ASSUME NEW j \in Keys, Good(j)'
               PROVE  /\ j \in saving' \/ files'[File(j)] = Entry("whole", current[j])
                      /\ tokens[Owner[j]][j] = current[j]
    BY <1>1 DEF GoodKept
  <2>1. CASE j = k
    BY <1>2, <1>o, <1>t, <2>1 DEF Good, TokenFilesTypeOK
  <2>2. CASE j # k
    <3>1. Good(j)
      BY <1>1, <1>2, <2>2 DEF Good, Valid
    <3>2. Booted(Owner[j])
      BY <1>t, BrokersBooted
    <3>3. files'[File(j)] = files[File(j)]
      BY <1>2, <1>o, <2>2, FilesApart DEF TokenFilesTypeOK
    <3> QED
      BY <1>1, <2>2, <3>1, <3>2, <3>3 DEF GoodKept
  <2> QED
    BY <2>1, <2>2
<1> QED
  BY <1>3, <1>4, <1>5, <1>6, <1>8

\* Map and disk forget a token, the disk perhaps not.
LEMMA DeleteTokenKeeps ==
  ASSUME TokensIInv, NEW k \in Keys, DeleteToken(k)
  PROVE  TokensIInv'
<1> USE FileTokenAssumption DEF TokensIInv
<1>1. /\ Up /\ Unlocked(Owner[k])
      /\ tokens' = [tokens EXCEPT ![Owner[k]][k] = NoToken]
      /\ current' = [current EXCEPT ![k] = NoToken]
      /\ UNCHANGED <<booted, saving, life>>
  BY DEF DeleteToken
<1>2. \/ /\ files' = [files EXCEPT ![File(k)] = Gone]
         /\ unwritten' = unwritten \ {k}
      \/ /\ unwritten' = unwritten \cup {k}
         /\ UNCHANGED files
  BY DEF DeleteToken
<1>o. Owner[k] \in Brokers /\ File(k) \in Names /\ k \notin saving
  BY <1>1, FilesApart DEF Unlocked
<1>t. /\ tokens'[Owner[k]][k] = NoToken
      /\ \A j \in Keys \ {k} : tokens'[Owner[j]][j] = tokens[Owner[j]][j] /\ current'[j] = current[j]
      /\ current'[k] = NoToken
  BY <1>1, <1>o DEF TokenFilesTypeOK
<1>3. TokenFilesTypeOK'
  <2>1. tokens' \in [Brokers -> [Keys -> Tokens \cup {NoToken}]]
    BY <1>1, <1>o DEF TokenFilesTypeOK
  <2>2. files' \in [Names -> {Gone, Torn} \cup {Entry("whole", u) : u \in Tokens}]
    BY <1>2, <1>o DEF TokenFilesTypeOK
  <2> QED
    BY <1>1, <1>2, <2>1, <2>2 DEF TokenFilesTypeOK
<1>4. DiskTrue'
  <2> SUFFICES ASSUME NEW n \in Names, files'[n].state = "whole"
               PROVE  n = File(n[2]) /\ (files'[n].token = current'[n[2]] \/ n[2] \in unwritten')
    BY DEF DiskTrue
  <2>1. n[2] \in Keys
    BY DEF Names
  <2>2. files[n] = files'[n] /\ (n = File(k) => k \in unwritten')
    BY <1>2, <1>o DEF TokenFilesTypeOK, Gone, Entry
  <2>3. n = File(n[2]) /\ (files[n].token = current[n[2]] \/ n[2] \in unwritten)
    BY <2>2 DEF DiskTrue
  <2>4. CASE n[2] = k
    BY <2>2, <2>3, <2>4
  <2>5. CASE n[2] # k
    BY <1>2, <1>t, <2>1, <2>2, <2>3, <2>5
  <2> QED
    BY <2>4, <2>5
<1>5. MapTrue'
  BY <1>2, <1>t DEF MapTrue
<1>6. SavingTrue' /\ CurrentGranted'
  BY <1>1, <1>o, <1>t DEF SavingTrue, CurrentGranted, Up, TokenFilesTypeOK
<1>7. GoodKept'
  <2> SUFFICES ASSUME NEW j \in Keys, Good(j)'
               PROVE  /\ j \in saving' \/ files'[File(j)] = Entry("whole", current'[j])
                      /\ tokens'[Owner[j]][j] = current'[j]
    BY DEF GoodKept
  <2>1. j # k
    BY <1>t DEF Good
  <2>2. Good(j)
    BY <1>1, <1>2, <1>t, <2>1 DEF Good, Valid
  <2>3. Booted(Owner[j])
    BY <1>1, BrokersBooted
  <2>4. files'[File(j)] = files[File(j)]
    BY <1>2, <1>o, <2>1, FilesApart DEF TokenFilesTypeOK
  <2> QED
    BY <1>1, <1>2, <1>t, <2>1, <2>2, <2>3, <2>4 DEF GoodKept
<1> QED
  BY <1>3, <1>4, <1>5, <1>6, <1>7

\* The next manager loads the directory and removes what it finds stale.
LEMMA loadAllKeeps ==
  ASSUME TokensIInv, loadAll
  PROVE  TokensIInv'
<1> USE FileTokenAssumption DEF TokensIInv
<1> DEFINE b == BootOrder[booted + 1]
           Looked == {n \in Names : AllowFileName(b, n) /\ files[n].state = "whole"}
           Stale == {n \in Looked : ~ Valid(b, files[n].token)}
           Fit(k) == {n \in Looked \ Stale : n[2] = k}
<1>1. /\ ~ Up
      /\ files' = [n \in Names |-> IF n \in Stale THEN Gone ELSE files[n]]
      /\ booted' = booted + 1
      /\ UNCHANGED <<saving, life, current, unwritten>>
  BY DEF loadAll
<1>2. PICK m \in [Keys -> Tokens \cup {NoToken}] :
        /\ \A k \in Keys :
             IF Fit(k) = {} THEN m[k] = NoToken ELSE m[k] \in {files[n].token : n \in Fit(k)}
        /\ tokens' = [tokens EXCEPT ![b] = m]
  BY DEF loadAll
<1>b. b \in Brokers /\ booted \in Nat /\ booted + 1 <= Len(BootOrder)
  BY <1>1 DEF Up, TokenFilesTypeOK, Brokers
<1>s. saving = {}
  BY <1>1 DEF SavingTrue, TokenFilesTypeOK
<1>l. ASSUME NEW k \in Keys, m[k] # NoToken
      PROVE  m[k] = current[k] \/ k \in unwritten
  <2>1. PICK n \in Fit(k) : m[k] = files[n].token
    BY <1>2, <1>l
  <2>2. n \in Names /\ files[n].state = "whole" /\ n[2] = k
    BY <2>1
  <2> QED
    BY <2>1, <2>2 DEF DiskTrue
<1>g. ASSUME NEW k \in Keys, Good(k)
      PROVE  /\ files[File(k)] = Entry("whole", current[k])
             /\ files'[File(k)] = files[File(k)]
             /\ Owner[k] = b => m[k] = current[k]
  <2>1. files[File(k)] = Entry("whole", current[k]) /\ File(k) \in Names /\ File(k)[2] = k
    BY <1>g, <1>s, FilesApart DEF GoodKept
  <2>2. files[File(k)].state = "whole" /\ files[File(k)].token = current[k]
    BY <2>1 DEF Entry
  <2>3. Valid(b, current[k])
    BY <1>b, <1>g DEF Good
  <2>4. File(k) \notin Stale
    BY <2>2, <2>3
  <2>5. files'[File(k)] = files[File(k)]
    BY <1>1, <2>1, <2>4
  <2>6. ASSUME Owner[k] = b PROVE m[k] = current[k]
    <3>1. AllowFileName(b, File(k))
      BY <2>6 DEF AllowFileName, File, BuildFileName
    <3>2. File(k) \in Fit(k)
      BY <2>1, <2>2, <2>4, <3>1
    <3>3. PICK n \in Fit(k) : m[k] = files[n].token
      BY <1>2, <3>2
    <3>4. files[n].token = current[k]
      BY <3>3, <1>g DEF DiskTrue, Good
    <3> QED
      BY <3>3, <3>4
  <2> QED
    BY <2>1, <2>5, <2>6
<1> HIDE DEF b, Fit
<1>3. TokenFilesTypeOK'
  <2>1. files' \in [Names -> {Gone, Torn} \cup {Entry("whole", t) : t \in Tokens}]
    BY <1>1 DEF TokenFilesTypeOK
  <2>2. tokens' \in [Brokers -> [Keys -> Tokens \cup {NoToken}]]
    BY <1>2, <1>b DEF TokenFilesTypeOK
  <2> QED
    BY <1>1, <1>b, <2>1, <2>2 DEF TokenFilesTypeOK
<1>4. DiskTrue'
  BY <1>1 DEF DiskTrue, Gone, Entry
<1>5. MapTrue'
  <2> SUFFICES ASSUME NEW k \in Keys
               PROVE  tokens'[Owner[k]][k] \in {NoToken, current[k]} \/ k \in unwritten
    BY <1>1 DEF MapTrue
  <2>1. CASE Owner[k] = b
    BY <1>2, <1>b, <1>l, <2>1 DEF TokenFilesTypeOK
  <2>2. CASE Owner[k] # b
    BY <1>2, <2>2 DEF TokenFilesTypeOK, MapTrue
  <2> QED
    BY <2>1, <2>2
<1>6. SavingTrue' /\ CurrentGranted'
  BY <1>1, <1>s DEF SavingTrue, CurrentGranted
<1>7. GoodKept'
  <2> SUFFICES ASSUME NEW k \in Keys, Good(k)'
               PROVE  /\ k \in saving' \/ files'[File(k)] = Entry("whole", current'[k])
                      /\ Booted(Owner[k])' => tokens'[Owner[k]][k] = current'[k]
    BY DEF GoodKept
  <2>1. Good(k)
    BY <1>1 DEF Good, Valid
  <2>2. files'[File(k)] = Entry("whole", current'[k])
    BY <1>1, <1>g, <2>1
  <2>3. CASE Owner[k] = b
    BY <1>1, <1>2, <1>b, <1>g, <2>1, <2>2, <2>3 DEF TokenFilesTypeOK
  <2>4. CASE Owner[k] # b
    <3>1. Booted(Owner[k])' => Booted(Owner[k])
      BY <1>1, <1>b, <2>4 DEF Booted, b
    <3>2. tokens'[Owner[k]][k] = tokens[Owner[k]][k]
      BY <1>2, <2>4 DEF TokenFilesTypeOK
    <3> QED
      BY <1>1, <2>1, <2>2, <3>1, <3>2 DEF GoodKept
  <2> QED
    BY <2>2, <2>3, <2>4
<1> QED
  BY <1>3, <1>4, <1>5, <1>6, <1>7

LEMMA CrashKeeps == ASSUME TokensIInv, Crash PROVE TokensIInv'
<1> USE FileTokenAssumption DEF TokensIInv, Crash
<1>1. TokenFilesTypeOK'
  BY DEF TokenFilesTypeOK, NoTokens
<1>2. DiskTrue' /\ CurrentGranted' /\ SavingTrue'
  BY DEF DiskTrue, CurrentGranted, SavingTrue
<1>3. MapTrue'
  BY DEF MapTrue, NoTokens
<1>4. GoodKept'
  <2> SUFFICES ASSUME NEW k \in Keys, Good(k)'
               PROVE  files[File(k)] = Entry("whole", current[k]) /\ ~ Booted(Owner[k])'
    BY DEF GoodKept
  <2>1. Good(k) /\ k \notin saving
    BY DEF Good, Valid
  <2>2. ~ Booted(Owner[k])'
    BY DEF Booted
  <2> QED
    BY <2>1, <2>2 DEF GoodKept
<1> QED
  BY <1>1, <1>2, <1>3, <1>4

LEMMA TickKeeps == ASSUME TokensIInv, NEW t \in Tokens, Tick(t) PROVE TokensIInv'
<1> USE FileTokenAssumption DEF TokensIInv
<1>1. /\ life[t] \in 1..FullLife
      /\ life' = [life EXCEPT ![t] = @ - 1]
      /\ UNCHANGED <<tokens, booted, saving, files, current, unwritten>>
  BY DEF Tick, TokenFilesTypeOK
<1>2. TokenFilesTypeOK'
  BY <1>1 DEF TokenFilesTypeOK
<1>3. DiskTrue' /\ MapTrue' /\ SavingTrue'
  BY <1>1 DEF DiskTrue, MapTrue, SavingTrue, Up
<1>4. CurrentGranted'
  BY <1>1 DEF CurrentGranted, TokenFilesTypeOK
<1>5. ASSUME NEW k \in Keys, Good(k)' PROVE Good(k)
  <2>1. current[k] \in Tokens
    BY <1>1, <1>5 DEF Good, TokenFilesTypeOK
  <2>2. \A b \in Brokers : Valid(b, current[k])' => Valid(b, current[k])
    BY <1>1, <2>1 DEF Valid, TokenFilesTypeOK
  <2> QED
    BY <1>1, <1>5, <2>2 DEF Good
<1>6. GoodKept'
  BY <1>1, <1>5 DEF GoodKept, Booted
<1> QED
  BY <1>2, <1>3, <1>4, <1>6

LEMMA TokensIInvStep == ASSUME TokensIInv, [TokenFilesNext]_tokenFilesVars PROVE TokensIInv'
<1>1. CASE UNCHANGED tokenFilesVars
  BY <1>1 DEF tokenFilesVars, TokensIInv, TokenFilesTypeOK, DiskTrue, MapTrue, SavingTrue, CurrentGranted,
              GoodKept, Good, Valid, Booted, Up
<1> QED
  BY <1>1, SetTokenKeeps, SaveKeeps, DeleteTokenKeeps, loadAllKeeps, CrashKeeps, TickKeeps
     DEF TokenFilesNext

\* The token managers keep their types (internal/filetoken/manager.go).
THEOREM FileTokenTypes == TokenFilesSpec => []TokenFilesTypeOK
<1>1. TokenFilesInit => TokensIInv
  BY TokensIInvInit
<1>2. TokensIInv /\ [TokenFilesNext]_tokenFilesVars => TokensIInv'
  BY TokensIInvStep
<1>3. TokensIInv => TokenFilesTypeOK
  BY DEF TokensIInv
<1> QED
  BY <1>1, <1>2, <1>3, PTL DEF TokenFilesSpec

\* A token that was replaced or deleted is not served again, through any number
\* of restarts and clean-ups by other brokers' managers (GetToken, loadAll).
THEOREM FileTokenOnlyCurrentServed == TokenFilesSpec => []OnlyCurrentServed
<1>1. TokenFilesInit => TokensIInv
  BY TokensIInvInit
<1>2. TokensIInv /\ [TokenFilesNext]_tokenFilesVars => TokensIInv'
  BY TokensIInvStep
<1>3. TokensIInv => OnlyCurrentServed
  BY TokensIInvImplies
<1> QED
  BY <1>1, <1>2, <1>3, PTL DEF TokenFilesSpec

\* A token that no manager finds stale is served again after a restart (loadAll).
THEOREM FileTokenServedAfterRestart == TokenFilesSpec => []ServedAfterRestart
<1>1. TokenFilesInit => TokensIInv
  BY TokensIInvInit
<1>2. TokensIInv /\ [TokenFilesNext]_tokenFilesVars => TokensIInv'
  BY TokensIInvStep
<1>3. TokensIInv => ServedAfterRestart
  BY TokensIInvImplies
<1> QED
  BY <1>1, <1>2, <1>3, PTL DEF TokenFilesSpec

-----------------------------------------------------------------------------
(* Order contexts: one request at a time, and what the file says then.     *)

\* Persist runs for one request at a time: under the adapter's lock, or because
\* requests do not overlap.
OneAtATime == PersistUnderLock \/ ~ MayOverlap

Busy(w) == pc[w] # "idle"

\* There are finitely many contexts in m, and Compact would leave them all.
Compacted(m) == IsFiniteSet({o \in Orders : m[o] # 0}) /\ Compact(m) = m

Whole(s) == [state |-> "whole", orders |-> s]

\* A worker that writes has a file open.
WriterHasFile == \A w \in Workers : pc[w] \in {"write", "rename"} => fd[w] # None

\* Only one worker persists, and the LS adapter's lock is its.
OneWriter ==
  /\ \A w, q \in Workers : Busy(w) /\ Busy(q) => w = q
  /\ PersistUnderLock => \A w \in Workers : Busy(w) => owner = w

\* What it has got to write is the map, and what it has written is in the temporary
\* file, which is not the file.
WriterTrue ==
  /\ file # None => file # tmp
  /\ \A w \in Workers :
       /\ pc[w] \in {"open", "write", "rename"} => snap[w] = orders
       /\ pc[w] \in {"write", "rename"} => tmp # None /\ fd[w] = tmp
       /\ pc[w] = "write" => data[tmp].state = "empty"
       /\ pc[w] = "rename" => data[tmp] = Whole(orders)

\* The file is whole; while nobody writes it says what the map says.
FileTrue ==
  /\ file # None => data[file].state = "whole"
  /\ (\A w \in Workers : ~ Busy(w)) /\ ~ unsaved => Load = orders

\* The map is compact; the file holds finitely many contexts, none newer than the
\* map's.
VersionsTrue ==
  /\ Compacted(orders)
  /\ \A o \in Orders : orders[o] <= version
  /\ file # None =>
       /\ IsFiniteSet({o \in Orders : data[file].orders[o] # 0})
       /\ \A o \in Orders :
            /\ data[file].orders[o] <= version
            /\ orders[o] # 0 => orders[o] >= data[file].orders[o]

\* The inductive invariants: of every adapter, and of one that persists for one
\* request at a time.
StoreTypes == StoreTypeOK /\ WriterHasFile
StoreIInv == StoreTypes /\ OneAtATime /\ OneWriter /\ WriterTrue /\ FileTrue /\ VersionsTrue

-----------------------------------------------------------------------------
(* Compact.                                                                *)

LEMMA CompactTypes == ASSUME NEW m \in Snapshots PROVE Compact(m) \in Snapshots
BY OrderContextStoreAssumption DEF Compact, Snapshots

\* Contexts of a map that are among its newest are compact.
LEMMA NewestCompacted ==
  ASSUME NEW m \in Snapshots, NEW c \in Snapshots, IsFiniteSet({o \in Orders : m[o] # 0}),
         \A o \in Orders :
           c[o] = 0 \/ (c[o] = m[o] /\ Cardinality({p \in Orders : m[p] > m[o]}) < Limit)
  PROVE  Compacted(c)
<1> USE OrderContextStoreAssumption
<1>1. \A o \in Orders : c[o] \in Nat /\ m[o] \in Nat
  BY DEF Snapshots
<1>2. {o \in Orders : c[o] # 0} \subseteq {o \in Orders : m[o] # 0}
  OBVIOUS
<1>3. IsFiniteSet({o \in Orders : c[o] # 0})
  BY <1>2, FS_Subset
<1>4. ASSUME NEW o \in Orders, c[o] # 0
      PROVE  Cardinality({p \in Orders : c[p] > c[o]}) < Limit
  <2> DEFINE A == {p \in Orders : c[p] > c[o]}
             B == {p \in Orders : m[p] > m[o]}
  <2>1. A \subseteq B
    <3>1. c[o] = m[o] /\ \A p \in Orders : c[p] = 0 \/ c[p] = m[p]
      BY <1>4
    <3>2. ASSUME NEW p \in Orders, c[p] > c[o]
          PROVE  m[p] > m[o]
      BY <1>1, <3>1, <3>2
    <3> QED
      BY <3>2
  <2>2. B \subseteq {p \in Orders : m[p] # 0}
    BY <1>1
  <2>3. IsFiniteSet(B)
    BY <2>2, FS_Subset
  <2>6. Cardinality(B) < Limit
    BY <1>4
  <2> HIDE DEF A, B
  <2>4. IsFiniteSet(A) /\ Cardinality(A) <= Cardinality(B)
    BY <2>1, <2>3, FS_Subset
  <2>5. Cardinality(A) \in Nat /\ Cardinality(B) \in Nat
    BY <2>3, <2>4, FS_CardinalityType
  <2>7. Cardinality(A) < Limit
    BY <2>4, <2>5, <2>6
  <2> QED
    BY <2>7 DEF A
<1>5. \A o \in Orders :
        (IF Cardinality({p \in Orders : c[p] > c[o]}) < Limit THEN c[o] ELSE 0) = c[o]
  BY <1>4
<1>6. c = [o \in Orders |-> c[o]]
  BY DEF Snapshots
<1>7. Compact(c) = c
  BY <1>5, <1>6 DEF Compact
<1> QED
  BY <1>3, <1>7 DEF Compacted

LEMMA CompactCompacted ==
  ASSUME NEW m \in Snapshots, IsFiniteSet({o \in Orders : m[o] # 0})
  PROVE  Compacted(Compact(m)) /\ \A o \in Orders : Compact(m)[o] \in {0, m[o]}
<1>1. \A o \in Orders :
        Compact(m)[o] = 0 \/ (Compact(m)[o] = m[o] /\ Cardinality({p \in Orders : m[p] > m[o]}) < Limit)
  BY DEF Compact
<1> QED
  BY <1>1, CompactTypes, NewestCompacted

LEMMA NoOrdersCompacted == NoOrders \in Snapshots /\ Compacted(NoOrders)
<1>1. NoOrders \in Snapshots
  BY OrderContextStoreAssumption DEF NoOrders, Snapshots
<1>2. {o \in Orders : NoOrders[o] # 0} = {}
  BY DEF NoOrders
<1>3. IsFiniteSet({o \in Orders : NoOrders[o] # 0})
  BY <1>2, FS_EmptySet
<1>4. \A o \in Orders : NoOrders[o] = 0
  BY DEF NoOrders
<1> QED
  BY <1>1, <1>3, <1>4, NewestCompacted

\* Removing a context leaves the others compact.
LEMMA RemovedCompacted ==
  ASSUME NEW m \in Snapshots, Compacted(m), NEW o \in Orders
  PROVE  [m EXCEPT ![o] = 0] \in Snapshots /\ Compacted([m EXCEPT ![o] = 0])
<1> DEFINE c == [m EXCEPT ![o] = 0]
<1>1. c \in Snapshots
  BY OrderContextStoreAssumption DEF Snapshots
<1>2. \A p \in Orders :
        m[p] = (IF Cardinality({q \in Orders : m[q] > m[p]}) < Limit THEN m[p] ELSE 0)
  <2>1. \A p \in Orders : m[p] = Compact(m)[p]
    BY DEF Compacted
  <2> QED
    BY <2>1 DEF Compact
<1>3. \A p \in Orders :
        c[p] = 0 \/ (c[p] = m[p] /\ Cardinality({q \in Orders : m[q] > m[p]}) < Limit)
  <2> SUFFICES ASSUME NEW p \in Orders, c[p] # 0
               PROVE  c[p] = m[p] /\ Cardinality({q \in Orders : m[q] > m[p]}) < Limit
    OBVIOUS
  <2>1. c[p] = m[p]
    BY DEF Snapshots
  <2> QED
    BY <1>2, <2>1
<1> HIDE DEF c
<1>4. Compacted(c)
  BY <1>1, <1>3, NewestCompacted DEF Compacted
<1> QED
  BY <1>1, <1>4 DEF c

\* The newest context of all may be added.
LEMMA AddedFinite ==
  ASSUME NEW m \in Snapshots, IsFiniteSet({p \in Orders : m[p] # 0}), NEW o \in Orders,
         NEW v \in 0..MaxVersion
  PROVE  [m EXCEPT ![o] = v] \in Snapshots /\ IsFiniteSet({p \in Orders : [m EXCEPT ![o] = v][p] # 0})
<1>1. [m EXCEPT ![o] = v] \in Snapshots
  BY DEF Snapshots
<1>2. {p \in Orders : [m EXCEPT ![o] = v][p] # 0} \subseteq {p \in Orders : m[p] # 0} \cup {o}
  BY DEF Snapshots
<1>3. IsFiniteSet({p \in Orders : m[p] # 0} \cup {o})
  BY FS_AddElement
<1> QED
  BY <1>1, <1>2, <1>3, FS_Subset

-----------------------------------------------------------------------------
(* Types.                                                                  *)

Contents == [state : {"empty", "whole", "torn"}, orders : Snapshots]

LEMMA ContentsOf ==
  ASSUME NEW s \in Snapshots, NEW st \in {"empty", "whole", "torn"}
  PROVE  [state |-> st, orders |-> s] \in Contents
BY DEF Contents

LEMMA LoadTypes == ASSUME StoreTypeOK PROVE Load \in Snapshots
<1>1. CASE file # None
  <2>1. data[file].orders \in Snapshots
    BY <1>1 DEF StoreTypeOK
  <2> QED
    BY <1>1, <2>1, CompactTypes, NoOrdersCompacted DEF Load
<1>2. CASE file = None
  BY <1>2, NoOrdersCompacted DEF Load
<1> QED
  BY <1>1, <1>2

LEMMA StoreTypesInit == ASSUME StoreInit PROVE StoreTypes
<1>1. data \in [Inodes -> Contents]
  BY NoOrdersCompacted, ContentsOf DEF StoreInit
<1>2. snap \in [Workers -> Snapshots] /\ orders \in Snapshots
  BY NoOrdersCompacted DEF StoreInit
<1>3. adapter \in Adapters /\ version \in 0..MaxVersion /\ owner \in Workers \cup {None}
  BY OrderContextStoreAssumption DEF StoreInit
<1>4. /\ pc \in [Workers -> {"idle", "snapshot", "open", "write", "rename"}]
      /\ fd \in [Workers -> Inodes \cup {None}]
      /\ file \in Inodes \cup {None} /\ tmp \in Inodes \cup {None} /\ unsaved \in BOOLEAN
  BY DEF StoreInit
<1>5. WriterHasFile
  BY DEF StoreInit, WriterHasFile
<1> QED
  BY <1>1, <1>2, <1>3, <1>4, <1>5 DEF StoreTypes, StoreTypeOK, Contents

\* The map becomes m, and the worker goes on to persist it.
LEMMA ThenPersistTypes ==
  ASSUME StoreTypes, NEW w \in Workers, NEW m \in Snapshots, ThenPersist(w, m),
         version' \in 0..MaxVersion, UNCHANGED <<adapter, fd, disk, unsaved>>
  PROVE  StoreTypes'
<1>1. CASE PersistUnderLock
  BY <1>1 DEF StoreTypes, StoreTypeOK, WriterHasFile, ThenPersist, disk
<1>2. CASE ~ PersistUnderLock
  BY <1>2 DEF StoreTypes, StoreTypeOK, WriterHasFile, ThenPersist, disk
<1> QED
  BY <1>1, <1>2

LEMMA DoneTypes ==
  ASSUME StoreTypes, NEW w \in Workers, NEW b \in BOOLEAN, Done(w, b),
         UNCHANGED <<adapter, orders, version>>, file' \in Inodes \cup {None},
         tmp' \in Inodes \cup {None}, data' \in [Inodes -> Contents]
  PROVE  StoreTypes'
<1>1. owner' \in Workers \cup {None}
  BY DEF StoreTypes, StoreTypeOK, Done
<1>2. snap' \in [Workers -> Snapshots]
  BY NoOrdersCompacted DEF StoreTypes, StoreTypeOK, Done
<1> QED
  BY <1>1, <1>2 DEF StoreTypes, StoreTypeOK, WriterHasFile, Done, Contents

LEMMA StoreTypesStep == ASSUME StoreTypes, [StoreNext]_storeVars PROVE StoreTypes'
<1> USE OrderContextStoreAssumption
<1>1. ASSUME NEW w \in Workers, NEW o \in Orders, storeOrderContext(w, o)
      PROVE  StoreTypes'
  <2>1. version + 1 \in 0..MaxVersion
    BY <1>1 DEF storeOrderContext, StoreTypes, StoreTypeOK
  <2>2. Compact([orders EXCEPT ![o] = version + 1]) \in Snapshots
    BY <2>1, CompactTypes DEF StoreTypes, StoreTypeOK, Snapshots
  <2> QED
    BY <1>1, <2>1, <2>2, ThenPersistTypes DEF storeOrderContext
<1>2. ASSUME NEW w \in Workers, NEW o \in Orders, removeOrderContext(w, o)
      PROVE  StoreTypes'
  <2>1. [orders EXCEPT ![o] = 0] \in Snapshots
    BY DEF StoreTypes, StoreTypeOK, Snapshots
  <2> QED
    BY <1>2, <2>1, ThenPersistTypes DEF removeOrderContext, StoreTypes, StoreTypeOK
<1>3. ASSUME NEW w \in Workers, Snapshot(w)
      PROVE  StoreTypes'
  BY <1>3 DEF Snapshot, StoreTypes, StoreTypeOK, WriterHasFile, memory, disk
<1>4. ASSUME NEW w \in Workers, OpenTmp(w)
      PROVE  StoreTypes'
  <2>1. PICK i \in IF tmp = None THEN Unlinked ELSE {tmp} :
          /\ tmp' = i
          /\ fd' = [fd EXCEPT ![w] = i]
          /\ data' = [data EXCEPT ![i] = [state |-> "empty", orders |-> NoOrders]]
    BY <1>4 DEF OpenTmp
  <2>2. i \in Inodes
    BY DEF Unlinked, StoreTypes, StoreTypeOK
  <2>3. data' \in [Inodes -> Contents]
    BY <2>1, ContentsOf, NoOrdersCompacted DEF StoreTypes, StoreTypeOK, Contents
  <2> QED
    BY <1>4, <2>1, <2>2, <2>3 DEF OpenTmp, StoreTypes, StoreTypeOK, WriterHasFile, memory, Contents
<1>5. ASSUME NEW w \in Workers, WriteTmp(w)
      PROVE  StoreTypes'
  <2>1. PICK d \in Overwrite(data[fd[w]], snap[w]) : data' = [data EXCEPT ![fd[w]] = d]
    BY <1>5 DEF WriteTmp
  <2>2. snap[w] \in Snapshots
    BY DEF StoreTypes, StoreTypeOK
  <2>3. d \in Contents
    BY <2>2, ContentsOf, NoOrdersCompacted DEF Overwrite
  <2>4. data' \in [Inodes -> Contents]
    BY <2>1, <2>3 DEF StoreTypes, StoreTypeOK, Contents
  <2> QED
    BY <1>5, <2>4 DEF WriteTmp, StoreTypes, StoreTypeOK, WriterHasFile, memory, Contents
<1>6. ASSUME NEW w \in Workers, Rename(w)
      PROVE  StoreTypes'
  <2>1. file' \in Inodes \cup {None} /\ tmp' \in Inodes \cup {None} /\ data' \in [Inodes -> Contents]
    BY <1>6 DEF Rename, StoreTypes, StoreTypeOK, Contents
  <2> QED
    BY <1>6, <2>1, DoneTypes DEF Rename
<1>7. ASSUME NEW w \in Workers, PersistFails(w)
      PROVE  StoreTypes'
  <2>1. data' \in [Inodes -> Contents]
    BY <1>7, ContentsOf, NoOrdersCompacted DEF PersistFails, StoreTypes, StoreTypeOK, Contents
  <2> QED
    BY <1>7, <2>1, DoneTypes DEF PersistFails, StoreTypes, StoreTypeOK
<1>8. CASE Restart
  BY <1>8, LoadTypes, NoOrdersCompacted DEF Restart, StoreTypes, StoreTypeOK, WriterHasFile, disk
<1>9. CASE UNCHANGED storeVars
  BY <1>9 DEF storeVars, memory, worker, disk, StoreTypes, StoreTypeOK, WriterHasFile
<1> QED
  BY <1>1, <1>2, <1>3, <1>4, <1>5, <1>6, <1>7, <1>8, <1>9 DEF StoreNext

-----------------------------------------------------------------------------
(* One request at a time.                                                  *)

LEMMA StoreIInvImplies == ASSUME StoreIInv PROVE FileIsWhole /\ SavedWhenQuiet
BY DEF StoreIInv, FileTrue, Busy, FileIsWhole, SavedWhenQuiet

LEMMA StoreIInvInit == ASSUME StoreInit, OneAtATime PROVE StoreIInv
<1>1. StoreTypes
  BY StoreTypesInit
<1>2. OneWriter /\ WriterTrue
  BY DEF StoreInit, OneWriter, Busy, WriterTrue
<1>3. FileTrue
  BY DEF StoreInit, FileTrue, Load
<1>4. VersionsTrue
  BY NoOrdersCompacted DEF StoreInit, VersionsTrue, NoOrders
<1> QED
  BY <1>1, <1>2, <1>3, <1>4 DEF StoreIInv

\* Every map in memory or on the disk is a function of the orders to numbers.
LEMMA StoreTyped ==
  ASSUME StoreTypes
  PROVE  /\ orders \in Snapshots /\ version \in 0..MaxVersion /\ version \in Nat
         /\ \A i \in Inodes : data[i] \in Contents /\ data[i].orders \in Snapshots
         /\ \A m \in Snapshots, o \in Orders : m[o] \in Nat /\ m[o] >= 0
         /\ file \in Inodes \cup {None} /\ tmp \in Inodes \cup {None}
BY OrderContextStoreAssumption DEF StoreTypes, StoreTypeOK, Snapshots, Contents

\* A request starts to change the map while no other is on its way to the disk.
LEMMA StartsAlone ==
  ASSUME StoreIInv, NEW w \in Workers, MayStart(w)
  PROVE  \A q \in Workers : pc[q] = "idle"
BY OrderContextStoreAssumption DEF StoreIInv, OneAtATime, OneWriter, Busy, MayStart

LEMMA ThenPersistKeeps ==
  ASSUME StoreIInv, StoreTypes', NEW w \in Workers, NEW m \in Snapshots, MayStart(w),
         ThenPersist(w, m), Compacted(m), version <= version',
         \A o \in Orders : m[o] <= version' /\ (m[o] \in {0, orders[o]} \/ m[o] > version),
         UNCHANGED <<adapter, fd, disk, unsaved>>
  PROVE  StoreIInv'
<1>1. \A q \in Workers : pc[q] = "idle"
  BY StartsAlone
<1>2. pc' = [pc EXCEPT ![w] = pc'[w]] /\ pc'[w] \in {"open", "snapshot"} /\ orders' = m
  BY DEF ThenPersist, StoreIInv, StoreTypes, StoreTypeOK
<1>3. OneAtATime' /\ PersistUnderLock' = PersistUnderLock
  BY DEF StoreIInv, OneAtATime, PersistUnderLock
<1>4. OneWriter'
  <2>1. \A q \in Workers : pc'[q] # "idle" => q = w
    BY <1>1, <1>2 DEF StoreIInv, StoreTypes, StoreTypeOK
  <2>2. PersistUnderLock => owner' = w
    BY DEF ThenPersist
  <2> QED
    BY <1>3, <2>1, <2>2 DEF OneWriter, Busy
<1>5. WriterTrue'
  <2>1. \A q \in Workers \ {w} : pc'[q] = "idle"
    BY <1>1, <1>2 DEF StoreIInv, StoreTypes, StoreTypeOK
  <2>2. pc'[w] = "open" => snap'[w] = m
    BY DEF ThenPersist, StoreIInv, StoreTypes, StoreTypeOK
  <2> QED
    BY <1>2, <2>1, <2>2 DEF StoreIInv, WriterTrue, disk
<1>6. FileTrue'
  BY <1>2 DEF StoreIInv, FileTrue, Busy, disk
<1>7. VersionsTrue'
  <2>1. version' \in Nat
    BY StoreTyped DEF StoreTypes, StoreTypeOK
  <2>2. ASSUME file # None, NEW o \in Orders
        PROVE  /\ data[file].orders[o] <= version'
               /\ m[o] # 0 => m[o] >= data[file].orders[o]
    <3>1. data[file].orders[o] \in Nat /\ orders[o] \in Nat /\ m[o] \in Nat /\ version \in Nat
      BY <2>2, StoreTyped DEF StoreIInv
    <3>2. /\ data[file].orders[o] <= version
          /\ orders[o] # 0 => orders[o] >= data[file].orders[o]
      BY <2>2 DEF StoreIInv, VersionsTrue
    <3>3. m[o] \in {0, orders[o]} \/ m[o] > version
      OBVIOUS
    <3> QED
      BY <2>1, <3>1, <3>2, <3>3
  <2> QED
    BY <1>2, <2>2 DEF StoreIInv, VersionsTrue, disk
<1> QED
  BY <1>3, <1>4, <1>5, <1>6, <1>7 DEF StoreIInv

LEMMA storeOrderContextKeeps ==
  ASSUME StoreIInv, StoreTypes', NEW w \in Workers, NEW o \in Orders, storeOrderContext(w, o)
  PROVE  StoreIInv'
<1> DEFINE m == [orders EXCEPT ![o] = version + 1]
<1>1. version + 1 \in 0..MaxVersion /\ version' = version + 1 /\ version \in Nat
  BY StoreTyped, OrderContextStoreAssumption DEF storeOrderContext, StoreIInv
<1>2. orders \in Snapshots /\ IsFiniteSet({p \in Orders : orders[p] # 0})
  BY DEF StoreIInv, StoreTypes, StoreTypeOK, VersionsTrue, Compacted
<1>3. m \in Snapshots /\ IsFiniteSet({p \in Orders : m[p] # 0})
  BY <1>1, <1>2, AddedFinite
<1>4. \A p \in Orders : m[p] = orders[p] \/ m[p] = version + 1
  BY <1>2 DEF Snapshots
<1>5. \A p \in Orders : orders[p] <= version /\ orders[p] \in Nat
  BY StoreTyped DEF StoreIInv, VersionsTrue
<1> HIDE DEF m
<1>6. /\ Compact(m) \in Snapshots /\ Compacted(Compact(m))
      /\ \A p \in Orders : Compact(m)[p] \in {0, m[p]}
  BY <1>3, CompactTypes, CompactCompacted
<1>7. \A p \in Orders :
        /\ Compact(m)[p] <= version'
        /\ Compact(m)[p] \in {0, orders[p]} \/ Compact(m)[p] > version
  <2> SUFFICES ASSUME NEW p \in Orders
               PROVE  /\ Compact(m)[p] <= version'
                      /\ Compact(m)[p] \in {0, orders[p]} \/ Compact(m)[p] > version
    OBVIOUS
  <2>1. Compact(m)[p] \in {0, orders[p], version + 1}
    BY <1>4, <1>6
  <2> QED
    BY <1>1, <1>5, <2>1
<1>8. ThenPersist(w, Compact(m)) /\ MayStart(w) /\ UNCHANGED <<adapter, fd, disk, unsaved>>
  BY DEF storeOrderContext, m
<1> QED
  BY <1>1, <1>6, <1>7, <1>8, ThenPersistKeeps

LEMMA removeOrderContextKeeps ==
  ASSUME StoreIInv, StoreTypes', NEW w \in Workers, NEW o \in Orders, removeOrderContext(w, o)
  PROVE  StoreIInv'
<1> DEFINE m == [orders EXCEPT ![o] = 0]
<1>1. orders \in Snapshots /\ Compacted(orders)
  BY DEF StoreIInv, StoreTypes, StoreTypeOK, VersionsTrue
<1>2. m \in Snapshots /\ Compacted(m)
  BY <1>1, RemovedCompacted
<1>3. \A p \in Orders : m[p] \in {0, orders[p]}
  BY <1>1 DEF Snapshots
<1>4. \A p \in Orders : orders[p] <= version /\ orders[p] \in Nat /\ version \in Nat
  BY StoreTyped DEF StoreIInv, VersionsTrue
<1>5. ThenPersist(w, m) /\ MayStart(w) /\ version' = version
      /\ UNCHANGED <<adapter, fd, disk, unsaved>>
  BY DEF removeOrderContext
<1> HIDE DEF m
<1>6. \A p \in Orders : m[p] <= version' /\ (m[p] \in {0, orders[p]} \/ m[p] > version)
  BY <1>3, <1>4, <1>5
<1>7. version <= version'
  BY <1>5, StoreTyped DEF StoreIInv
<1> QED
  BY <1>2, <1>5, <1>6, <1>7, ThenPersistKeeps

\* A worker's next step towards the disk, the others being idle.
LEMMA WriterSteps ==
  ASSUME StoreIInv, NEW w \in Workers, pc[w] # "idle", UNCHANGED <<adapter, owner>>,
         NEW l \in {"open", "write", "rename"}, pc' = [pc EXCEPT ![w] = l]
  PROVE  /\ OneAtATime' /\ OneWriter'
         /\ pc'[w] = l /\ \A q \in Workers \ {w} : pc[q] = "idle" /\ pc'[q] = "idle"
<1>1. pc'[w] = l /\ \A q \in Workers \ {w} : pc'[q] = pc[q]
  BY DEF StoreIInv, StoreTypes, StoreTypeOK
<1>2. \A q \in Workers \ {w} : pc[q] = "idle"
  BY DEF StoreIInv, OneWriter, Busy
<1>3. PersistUnderLock' = PersistUnderLock /\ OneAtATime'
  BY DEF StoreIInv, OneAtATime, PersistUnderLock
<1>4. PersistUnderLock => owner' = w
  BY DEF StoreIInv, OneWriter, Busy
<1> QED
  BY <1>1, <1>2, <1>3, <1>4 DEF OneWriter, Busy

LEMMA SnapshotKeeps ==
  ASSUME StoreIInv, StoreTypes', NEW w \in Workers, Snapshot(w)
  PROVE  StoreIInv'
<1>1. /\ OneAtATime' /\ OneWriter'
      /\ pc'[w] = "open" /\ \A q \in Workers \ {w} : pc[q] = "idle" /\ pc'[q] = "idle"
  BY WriterSteps DEF Snapshot, memory
<1>2. snap'[w] = orders
  BY DEF Snapshot, StoreIInv, StoreTypes, StoreTypeOK
<1>3. WriterTrue'
  BY <1>1, <1>2 DEF Snapshot, StoreIInv, WriterTrue, memory, disk
<1>4. FileTrue' /\ VersionsTrue'
  BY <1>1 DEF Snapshot, StoreIInv, FileTrue, VersionsTrue, Busy, memory, disk
<1> QED
  BY <1>1, <1>3, <1>4 DEF StoreIInv

\* Something is written, but not over the file.
LEMMA FileKept ==
  ASSUME StoreIInv, UNCHANGED <<memory, file>>, NEW w \in Workers, pc'[w] # "idle",
         file # None => data'[file] = data[file]
  PROVE  FileTrue' /\ VersionsTrue'
BY DEF StoreIInv, FileTrue, VersionsTrue, Busy, memory

LEMMA OpenTmpKeeps ==
  ASSUME StoreIInv, StoreTypes', NEW w \in Workers, OpenTmp(w)
  PROVE  StoreIInv'
<1>1. PICK i \in IF tmp = None THEN Unlinked ELSE {tmp} :
        /\ tmp' = i
        /\ fd' = [fd EXCEPT ![w] = i]
        /\ data' = [data EXCEPT ![i] = [state |-> "empty", orders |-> NoOrders]]
  BY DEF OpenTmp
<1>2. i \in Inodes /\ (file # None => i # file)
  BY DEF Unlinked, StoreIInv, StoreTypes, StoreTypeOK, WriterTrue
<1>3. i # None /\ fd'[w] = i /\ data'[i].state = "empty"
  BY <1>1, <1>2, OrderContextStoreAssumption DEF StoreIInv, StoreTypes, StoreTypeOK
<1>4. /\ OneAtATime' /\ OneWriter'
      /\ pc'[w] = "write" /\ \A q \in Workers \ {w} : pc[q] = "idle" /\ pc'[q] = "idle"
  BY WriterSteps DEF OpenTmp, memory
<1>5. file # None => data'[file] = data[file]
  BY <1>1, <1>2, StoreTyped DEF StoreIInv, StoreTypes, StoreTypeOK
<1>6. FileTrue' /\ VersionsTrue'
  BY <1>4, <1>5, FileKept DEF OpenTmp
<1>7. WriterTrue'
  BY <1>1, <1>2, <1>3, <1>4 DEF OpenTmp, StoreIInv, WriterTrue, memory
<1> QED
  BY <1>4, <1>6, <1>7 DEF StoreIInv

LEMMA WriteTmpKeeps ==
  ASSUME StoreIInv, StoreTypes', NEW w \in Workers, WriteTmp(w)
  PROVE  StoreIInv'
<1>1. /\ snap[w] = orders /\ tmp # None /\ fd[w] = tmp /\ data[tmp].state = "empty"
      /\ tmp \in Inodes /\ (file # None => file # tmp)
  BY StoreTyped DEF WriteTmp, StoreIInv, WriterTrue
<1>2. data' = [data EXCEPT ![tmp] = Whole(orders)]
  BY <1>1 DEF WriteTmp, Overwrite, Whole
<1>3. data'[tmp] = Whole(orders) /\ (file # None => data'[file] = data[file])
  BY <1>1, <1>2, StoreTyped DEF StoreIInv, StoreTypes, StoreTypeOK
<1>4. /\ OneAtATime' /\ OneWriter'
      /\ pc'[w] = "rename" /\ \A q \in Workers \ {w} : pc[q] = "idle" /\ pc'[q] = "idle"
  BY WriterSteps DEF WriteTmp, memory
<1>5. FileTrue' /\ VersionsTrue'
  BY <1>3, <1>4, FileKept DEF WriteTmp
<1>6. WriterTrue'
  BY <1>1, <1>3, <1>4 DEF WriteTmp, StoreIInv, WriterTrue, memory
<1> QED
  BY <1>4, <1>5, <1>6 DEF StoreIInv

\* The worker is done and nobody is busy.
LEMMA DoneQuiet ==
  ASSUME StoreIInv, NEW w \in Workers, pc[w] # "idle", NEW b, Done(w, b), UNCHANGED adapter
  PROVE  OneAtATime' /\ OneWriter' /\ unsaved' = b /\ \A q \in Workers : pc'[q] = "idle"
<1>1. \A q \in Workers : pc'[q] = "idle"
  BY DEF Done, StoreIInv, StoreTypes, StoreTypeOK, OneWriter, Busy
<1> QED
  BY <1>1 DEF Done, StoreIInv, OneAtATime, PersistUnderLock, OneWriter, Busy

LEMMA RenameKeeps ==
  ASSUME StoreIInv, StoreTypes', NEW w \in Workers, Rename(w)
  PROVE  StoreIInv'
<1>1. /\ snap[w] = orders /\ tmp # None /\ data[tmp] = Whole(orders)
      /\ file' = tmp /\ tmp' = None /\ data' = data
  BY DEF Rename, StoreIInv, WriterTrue
<1>2. OneAtATime' /\ OneWriter' /\ \A q \in Workers : pc'[q] = "idle"
  BY DoneQuiet DEF Rename
<1>3. data'[file'].state = "whole" /\ data'[file'].orders = orders
  BY <1>1 DEF Whole
<1>4. orders' = orders /\ version' = version /\ Compacted(orders)
  BY DEF Rename, StoreIInv, VersionsTrue
<1>5. Load' = orders
  BY <1>1, <1>3, <1>4 DEF Load, Compacted, Compact
<1>6. WriterTrue' /\ FileTrue'
  BY <1>1, <1>2, <1>3, <1>4, <1>5 DEF WriterTrue, FileTrue
<1>7. VersionsTrue'
  <2>1. \A o \in Orders : orders[o] <= version /\ orders[o] >= orders[o]
    BY StoreTyped DEF StoreIInv, VersionsTrue
  <2> QED
    BY <1>3, <1>4, <2>1 DEF VersionsTrue, Compacted, Compact
<1> QED
  BY <1>2, <1>6, <1>7 DEF StoreIInv

LEMMA PersistFailsKeeps ==
  ASSUME StoreIInv, StoreTypes', NEW w \in Workers, PersistFails(w)
  PROVE  StoreIInv'
<1>1. OneAtATime' /\ OneWriter' /\ unsaved' = TRUE /\ \A q \in Workers : pc'[q] = "idle"
  BY DoneQuiet DEF PersistFails
<1>2. file # None => data'[file] = data[file]
  <2>1. CASE UNCHANGED data
    BY <2>1
  <2>2. CASE pc[w] = "write" /\ data' = [data EXCEPT ![fd[w]] = [state |-> "torn", orders |-> NoOrders]]
    <3>1. fd[w] = tmp /\ (file # None => file # tmp)
      BY <2>2 DEF StoreIInv, WriterTrue
    <3> QED
      BY <2>2, <3>1, StoreTyped DEF StoreIInv, StoreTypes, StoreTypeOK
  <2> QED
    BY <2>1, <2>2 DEF PersistFails
<1>3. UNCHANGED <<orders, version, file, tmp>>
  BY DEF PersistFails
<1>4. WriterTrue' /\ FileTrue'
  BY <1>1, <1>2, <1>3 DEF StoreIInv, WriterTrue, FileTrue
<1>5. VersionsTrue'
  BY <1>2, <1>3 DEF StoreIInv, VersionsTrue, Compacted, Compact
<1> QED
  BY <1>1, <1>4, <1>5 DEF StoreIInv

LEMMA RestartKeeps == ASSUME StoreIInv, StoreTypes', Restart PROVE StoreIInv'
<1>1. UNCHANGED <<adapter, version, file, tmp, data>> /\ orders' = Load
  BY DEF Restart, disk
<1>2. \A q \in Workers : pc'[q] = "idle"
  BY DEF Restart
<1>3. OneAtATime' /\ OneWriter'
  BY <1>1, <1>2 DEF StoreIInv, OneAtATime, PersistUnderLock, OneWriter, Busy
<1>4. Load' = Load
  BY <1>1 DEF Load, Compact
<1>5. WriterTrue' /\ FileTrue'
  BY <1>1, <1>2, <1>4 DEF StoreIInv, WriterTrue, FileTrue
<1>6. Compacted(Load)
  <2>1. CASE file # None /\ data[file].state = "whole"
    <3>1. data[file].orders \in Snapshots /\ IsFiniteSet({o \in Orders : data[file].orders[o] # 0})
      BY <2>1, StoreTyped DEF StoreIInv, VersionsTrue
    <3> QED
      BY <2>1, <3>1, CompactCompacted DEF Load
  <2>2. CASE ~ (file # None /\ data[file].state = "whole")
    BY <2>2, NoOrdersCompacted DEF Load
  <2> QED
    BY <2>1, <2>2
<1>7. \A o \in Orders : Load[o] = 0 \/ (file # None /\ Load[o] = data[file].orders[o])
  BY DEF Load, NoOrders, Compact
<1>8. VersionsTrue'
  <2>1. ASSUME NEW o \in Orders
        PROVE  /\ Load[o] <= version
               /\ file # None => /\ data[file].orders[o] <= version
                                 /\ Load[o] # 0 => Load[o] >= data[file].orders[o]
    <3>1. version \in Nat /\ (file # None => data[file].orders[o] \in Nat)
      BY StoreTyped DEF StoreIInv
    <3>2. file # None => data[file].orders[o] <= version
      BY DEF StoreIInv, VersionsTrue
    <3> QED
      BY <1>7, <3>1, <3>2
  <2>2. Compacted(Load)'
    BY <1>1, <1>4, <1>6 DEF Compacted, Compact
  <2>3. file' # None => IsFiniteSet({o \in Orders : data'[file'].orders[o] # 0})
    BY <1>1 DEF StoreIInv, VersionsTrue
  <2> QED
    BY <1>1, <1>4, <2>1, <2>2, <2>3 DEF VersionsTrue
<1> QED
  BY <1>3, <1>5, <1>8 DEF StoreIInv

LEMMA StoreIInvStep == ASSUME StoreIInv, [StoreNext]_storeVars PROVE StoreIInv'
<1>1. StoreTypes'
  BY StoreTypesStep DEF StoreIInv
<1>2. CASE UNCHANGED storeVars
  <2>1. OneAtATime' /\ OneWriter' /\ WriterTrue' /\ FileTrue' /\ VersionsTrue'
    BY <1>2 DEF storeVars, memory, worker, disk, StoreIInv, OneAtATime, PersistUnderLock, OneWriter,
                WriterTrue, FileTrue, Load, Busy, VersionsTrue, Compacted, Compact
  <2> QED
    BY <1>1, <2>1 DEF StoreIInv
<1> QED
  BY <1>1, <1>2, storeOrderContextKeeps, removeOrderContextKeeps, SnapshotKeeps, OpenTmpKeeps,
     WriteTmpKeeps, RenameKeeps, PersistFailsKeeps, RestartKeeps
     DEF StoreNext

\* No step puts an older context into the file.
NoOlderThen(o) ==
  file # None /\ data[file].orders[o] # 0 /\ data'[file'].orders[o] # 0 =>
    data'[file'].orders[o] >= data[file].orders[o]

LEMMA FileNeverOlder ==
  ASSUME StoreIInv, [StoreNext]_storeVars, NEW o \in Orders
  PROVE  NoOlderThen(o)
<1> SUFFICES ASSUME file # None, data'[file'].orders[o] # 0
             PROVE  data'[file'].orders[o] >= data[file].orders[o]
  BY DEF NoOlderThen
<1>1. data[file].orders[o] \in Nat
  BY StoreTyped DEF StoreIInv
<1>2. CASE file' = file /\ data'[file] = data[file]
  BY <1>1, <1>2
<1>3. ASSUME NEW w \in Workers, Rename(w)
      PROVE  data'[file'].orders[o] >= data[file].orders[o]
  <2>1. data'[file'].orders = orders
    BY <1>3 DEF Rename, StoreIInv, WriterTrue, Whole
  <2>2. orders[o] # 0 => orders[o] >= data[file].orders[o]
    BY DEF StoreIInv, VersionsTrue
  <2> QED
    BY <2>1, <2>2
<1>4. ASSUME NEW w \in Workers, OpenTmp(w) \/ WriteTmp(w) \/ PersistFails(w)
      PROVE  file' = file /\ data'[file] = data[file]
  <2>1. file \in Inodes /\ file # tmp /\ file' = file
    BY <1>4, StoreTyped DEF OpenTmp, WriteTmp, PersistFails, StoreIInv, WriterTrue
  <2>2. pc[w] = "write" => fd[w] = tmp
    BY DEF StoreIInv, WriterTrue
  <2>3. CASE OpenTmp(w)
    <3>1. PICK i \in IF tmp = None THEN Unlinked ELSE {tmp} :
            data' = [data EXCEPT ![i] = [state |-> "empty", orders |-> NoOrders]]
      BY <2>3 DEF OpenTmp
    <3>2. i # file
      BY <2>1 DEF Unlinked
    <3> QED
      BY <2>1, <3>1, <3>2 DEF StoreIInv, StoreTypes, StoreTypeOK
  <2>4. CASE WriteTmp(w)
    <3>1. PICK d : data' = [data EXCEPT ![fd[w]] = d]
      BY <2>4 DEF WriteTmp
    <3> QED
      BY <2>1, <2>2, <2>4, <3>1 DEF WriteTmp, StoreIInv, StoreTypes, StoreTypeOK
  <2>5. CASE PersistFails(w)
    BY <2>1, <2>2, <2>5 DEF PersistFails, StoreIInv, StoreTypes, StoreTypeOK
  <2> QED
    BY <1>4, <2>3, <2>4, <2>5
<1>5. ASSUME UNCHANGED disk
      PROVE  file' = file /\ data'[file] = data[file]
  BY <1>5 DEF disk
<1> QED
  BY <1>2, <1>3, <1>4, <1>5
     DEF StoreNext, storeVars, storeOrderContext, removeOrderContext, Snapshot, Restart

-----------------------------------------------------------------------------
(* The theorems.                                                           *)

\* The adapters' maps and their file keep their types, whether or not requests
\* overlap.
THEOREM OrderContextStoreTypes == StoreSpec => []StoreTypeOK
<1>1. StoreInit => StoreTypes
  BY StoreTypesInit
<1>2. StoreTypes /\ [StoreNext]_storeVars => StoreTypes'
  BY StoreTypesStep
<1>3. StoreTypes => StoreTypeOK
  BY DEF StoreTypes
<1> QED
  BY <1>1, <1>2, <1>3, PTL DEF StoreSpec

LEMMA StoreIInvAlways == StoreSpec /\ OneAtATime => []StoreIInv
<1>1. StoreInit /\ OneAtATime => StoreIInv
  BY StoreIInvInit
<1>2. StoreIInv /\ [StoreNext]_storeVars => StoreIInv'
  BY StoreIInvStep
<1> QED
  BY <1>1, <1>2, PTL DEF StoreSpec

\* The file of an adapter that persists under its lock, or whose requests do not
\* overlap, is always absent or whole, wherever Persist fails or the process dies.
THEOREM OrderContextStoreFileIsWhole == StoreSpec /\ OneAtATime => []FileIsWhole
<1>1. StoreIInv => FileIsWhole
  BY StoreIInvImplies
<1> QED
  BY <1>1, StoreIInvAlways, PTL

\* A restart of such an adapter finds exactly the contexts it had, whatever was
\* stored, removed or evicted, unless the last Persist reported an error.
THEOREM OrderContextStoreSavedWhenQuiet == StoreSpec /\ OneAtATime => []SavedWhenQuiet
<1>1. StoreIInv => SavedWhenQuiet
  BY StoreIInvImplies
<1> QED
  BY <1>1, StoreIInvAlways, PTL

\* No context on the disk is replaced by an older one, in any step.
THEOREM OrderContextStoreNoOlder == StoreSpec /\ OneAtATime => NoOlderContextOnDisk
<1>1. StoreIInv /\ [StoreNext]_storeVars => [\A o \in Orders : NoOlderThen(o)]_storeVars
  BY FileNeverOlder
<1>2. StoreSpec /\ OneAtATime => [][\A o \in Orders : NoOlderThen(o)]_storeVars
  BY <1>1, StoreIInvAlways, PTL DEF StoreSpec
<1> QED
  BY <1>2 DEF NoOlderContextOnDisk, NoOlderThen

-----------------------------------------------------------------------------
(* The KIS proxy.                                                          *)

CallerTypeOK ==
  /\ at \in [Callers -> Fetching \cup Local \cup {"idle", "share"}]
  /\ ask \in [Callers -> Asks]
  /\ begun \in [Callers -> 0..Latest]
  /\ got \in [Callers -> [state : {"none", "ok", "error"}, value : Values]]
  /\ given \in [Callers -> [state : {"none", "ok", "error"}, value : Values]]

LimitsTypeOK ==
  /\ minute \in 0..Latest
  /\ \A l \in DOMAIN passes : passes[l] \in 0..Burst

\* Whoever fetches what is kept is the one the others wait for.
FetchedByOne ==
  \A c \in Callers : at[c] \in Fetching /\ cacheable(ask[c]) => flight[Key(c)] = c

\* An entry answers what its key stands for, and is fresh and kept from the minute
\* it was fetched in.
EntryTrue(k) ==
  LET v == items[k].value
  IN  /\ v.ask = k
      /\ items[k].soft = v.fetched + cacheTTL(k)
      /\ items[k].hard = v.fetched + cacheTTL(k) + Retention
      /\ minute <= items[k].hard

ItemsInv ==
  /\ items \in [CacheKeys -> [value : Values, soft : Nat, hard : Nat]]
  /\ \A k \in Kept : EntryTrue(k)
  /\ IsFiniteSet(Kept) /\ Cardinality(Kept) <= Capacity

\* What a caller has in hand: an answer to store is of this minute, and one to give
\* is as ProxyAnswerIsCurrent says.
GivenTrue(c) ==
  LET v == given[c].value
      ttl == cacheTTL(ask[c])
  IN  /\ at[c] = "answered"
      /\ v.ask = ask[c]
      /\ \/ v.fetched >= begun[c]
         \/ minute < v.fetched + ttl
         \/ ttl > 0 /\ got[c].state = "error" /\ minute <= v.fetched + ttl + Retention

CallerTrue(c) ==
  /\ begun[c] <= minute
  /\ at[c] \in {"look", "do", "share"} => cacheable(ask[c])
  /\ at[c] = "settle" /\ got[c].state = "ok" =>
       got[c].value.ask = ask[c] /\ got[c].value.fetched = minute
  /\ at[c] = "settle" => got[c].state # "none"
  /\ given[c].state = "ok" => GivenTrue(c)

CallersInv == CallerTypeOK /\ \A c \in Callers : CallerTrue(c)

\* The inductive invariant.
ProxyIInv ==
  /\ LimitsTypeOK /\ CallersInv /\ ItemsInv
  /\ flight \in [CacheKeys -> Callers \cup {NoCaller}]
  /\ FetchedByOne

-----------------------------------------------------------------------------
\* A key is what is asked for, no more and no less.
LEMMA KeysAreAsks == CacheKeys = Asks /\ \A c \in Callers : Key(c) = ask[c]
BY DEF CacheKeys, Key, buildKISProxyCacheKey

LEMMA NoValueType == NoValue \in Values
BY ProxyCacheAssumption DEF NoValue, Values

LEMMA ProxyIInvImplies == ASSUME ProxyIInv PROVE ProxyTypeOK /\ ProxyAnswerIsCurrent
<1>1. ProxyTypeOK
  <2>1. \A r \in {got, given} : r \in [Callers -> [state : {"none", "ok", "error"}, value : Values]]
    BY DEF ProxyIInv, CallersInv, CallerTypeOK
  <2> QED
    BY <2>1 DEF ProxyIInv, CallersInv, CallerTypeOK, LimitsTypeOK, ItemsInv, ProxyTypeOK
<1>2. OneFetchPerKey
  BY DEF ProxyIInv, FetchedByOne, OneFetchPerKey, CallersInv, CallerTypeOK, Key, buildKISProxyCacheKey,
         cacheable, cacheTTL
<1>3. ProxyAnswerIsCurrent
  BY <1>2 DEF ProxyIInv, CallersInv, CallerTrue, GivenTrue, ProxyAnswerIsCurrent
<1> QED
  BY <1>1, <1>3

LEMMA ProxyIInvInit == ASSUME ProxyInit PROVE ProxyIInv
<1>1. NoValue \in Values /\ NoEntry.value = NoValue /\ NoEntry.soft = 0 /\ NoEntry.hard = 0
  BY NoValueType DEF NoEntry
<1>2. Kept = {}
  BY DEF ProxyInit, Kept
<1>3. ItemsInv
  <2>1. NoEntry \in [value : Values, soft : Nat, hard : Nat]
    BY <1>1 DEF NoEntry
  <2>2. items \in [CacheKeys -> [value : Values, soft : Nat, hard : Nat]]
    BY <2>1 DEF ProxyInit
  <2>3. IsFiniteSet(Kept) /\ Cardinality(Kept) = 0 /\ Capacity \in Nat \ {0}
    BY <1>2, FS_EmptySet, ProxyCacheAssumption
  <2> QED
    BY <1>2, <2>2, <2>3 DEF ItemsInv
<1>4. CallersInv
  BY <1>1, ProxyCacheAssumption
  DEF ProxyInit, CallersInv, CallerTypeOK, CallerTrue, Fetching, Local, NoResult, Result,
      NoValue, Values
<1>5. LimitsTypeOK
  BY ProxyCacheAssumption DEF ProxyInit, LimitsTypeOK
<1>6. FetchedByOne /\ flight \in [CacheKeys -> Callers \cup {NoCaller}]
  BY DEF ProxyInit, FetchedByOne, Fetching
<1> QED
  BY <1>3, <1>4, <1>5, <1>6 DEF ProxyIInv

-----------------------------------------------------------------------------
(* A caller's step: who fetches, what is kept and what the callers hold.   *)

\* Nothing that only concerns the caller c disturbs what the others hold.
LEMMA OthersKeep ==
  ASSUME CallersInv, UNCHANGED minute,
         NEW c \in Callers,
         \A d \in Callers \ {c} :
           /\ at'[d] = at[d] /\ ask'[d] = ask[d] /\ begun'[d] = begun[d]
           /\ got'[d] = got[d] /\ given'[d] = given[d]
  PROVE  \A d \in Callers \ {c} : CallerTrue(d)'
BY DEF CallersInv, CallerTrue, GivenTrue, cacheable, cacheTTL

\* Entries stay true within a minute.
LEMMA ItemsKept ==
  ASSUME ItemsInv, UNCHANGED <<minute, items>>
  PROVE  ItemsInv'
BY DEF ItemsInv, EntryTrue, Kept, CacheKeys, cacheTTL

LEMMA EnterKeeps ==
  ASSUME ProxyIInv, NEW c \in Callers, NEW a \in Asks, Enter(c, a)
  PROVE  ProxyIInv'
<1>1. CallerTypeOK'
  BY DEF Enter, GoTo, ProxyIInv, CallersInv, CallerTypeOK, LimitsTypeOK, Fetching, Local
<1>2. given[c].state # "ok"
  BY DEF ProxyIInv, CallersInv, CallerTrue, GivenTrue, Enter
<1>3. CallerTrue(c)'
  <2>1. /\ begun'[c] = minute /\ minute' = minute /\ ask'[c] = a /\ given'[c] = given[c]
        /\ at'[c] = IF cacheable(a) THEN "look" ELSE "own limiter"
    BY DEF Enter, GoTo, ProxyIInv, CallersInv, CallerTypeOK
  <2>2. minute <= minute
    BY ProxyCacheAssumption DEF ProxyIInv, LimitsTypeOK
  <2> QED
    BY <1>2, <2>1, <2>2 DEF CallerTrue, cacheable, cacheTTL
<1>4. CallersInv'
  <2>1. \A d \in Callers \ {c} : CallerTrue(d)'
    BY OthersKeep DEF Enter, GoTo, ProxyIInv, CallersInv, CallerTypeOK
  <2> QED
    BY <1>1, <1>3, <2>1 DEF CallersInv
<1>5. ItemsInv'
  BY ItemsKept DEF Enter, ProxyIInv
<1>6. FetchedByOne'
  BY KeysAreAsks
  DEF Enter, GoTo, ProxyIInv, CallersInv, CallerTypeOK, FetchedByOne, Fetching, cacheable, cacheTTL,
      Key, buildKISProxyCacheKey
<1> QED
  BY <1>4, <1>5, <1>6 DEF Enter, ProxyIInv, LimitsTypeOK, CacheKeys

LEMMA getFreshKeeps ==
  ASSUME ProxyIInv, NEW c \in Callers, getFresh(c)
  PROVE  ProxyIInv'
<1> DEFINE hit == Key(c) \in Kept /\ minute < items[Key(c)].soft
<1>1. given[c].state # "ok" /\ Key(c) = ask[c] /\ ask[c] \in CacheKeys /\ cacheable(ask[c])
  BY KeysAreAsks DEF ProxyIInv, CallersInv, CallerTypeOK, CallerTrue, GivenTrue, getFresh
<1>2. CallerTypeOK'
  <2>1. CASE hit
    <3>1. Result("ok", items[Key(c)].value) \in [state : {"none", "ok", "error"}, value : Values]
      BY <1>1 DEF Result, ProxyIInv, ItemsInv
    <3>2. /\ at' = [at EXCEPT ![c] = "answered"]
          /\ given' = [given EXCEPT ![c] = Result("ok", items[Key(c)].value)]
          /\ UNCHANGED <<ask, begun, got>>
      BY <2>1 DEF getFresh, GoTo, GiveTo
    <3>3. at' \in [Callers -> Fetching \cup Local \cup {"idle", "share"}]
      BY <3>2 DEF ProxyIInv, CallersInv, CallerTypeOK, Local
    <3>4. given' \in [Callers -> [state : {"none", "ok", "error"}, value : Values]]
      BY <3>1, <3>2 DEF ProxyIInv, CallersInv, CallerTypeOK
    <3>5. CallerTypeOK
      BY DEF ProxyIInv, CallersInv
    <3> QED
      BY <3>2, <3>3, <3>4, <3>5 DEF CallerTypeOK
  <2>2. CASE ~hit
    BY <2>2 DEF getFresh, GoTo, ProxyIInv, CallersInv, CallerTypeOK, Local
  <2> QED
    BY <2>1, <2>2
<1>3. CallerTrue(c)'
  <2>1. CASE hit
    <3>1. EntryTrue(ask[c]) /\ items[ask[c]].value \in Values
      BY <1>1, <2>1 DEF ProxyIInv, ItemsInv
    <3>2. /\ given'[c] = [state |-> "ok", value |-> items[ask[c]].value]
          /\ at'[c] = "answered"
      BY <1>1, <2>1 DEF getFresh, GiveTo, GoTo, Result, ProxyIInv, CallersInv, CallerTypeOK
    <3> QED
      BY <3>1, <3>2, <1>1, <2>1
      DEF getFresh, ProxyIInv, CallersInv, CallerTrue, GivenTrue, EntryTrue, cacheTTL
  <2>2. CASE ~hit
    BY <1>1, <2>2
    DEF getFresh, GoTo, ProxyIInv, CallersInv, CallerTypeOK, CallerTrue, cacheable, cacheTTL
  <2> QED
    BY <2>1, <2>2
<1>4. CallersInv'
  <2>1. \A d \in Callers \ {c} : CallerTrue(d)'
    BY OthersKeep DEF getFresh, GoTo, GiveTo, ProxyIInv, CallersInv, CallerTypeOK
  <2> QED
    BY <1>2, <1>3, <2>1 DEF CallersInv
<1>5. ItemsInv'
  BY ItemsKept DEF getFresh, ProxyIInv
<1>6. FetchedByOne'
  BY KeysAreAsks
  DEF getFresh, GoTo, GiveTo, ProxyIInv, CallersInv, CallerTypeOK, FetchedByOne, Fetching, cacheable,
      cacheTTL, Key, buildKISProxyCacheKey
<1> QED
  BY <1>4, <1>5, <1>6 DEF getFresh, ProxyIInv, LimitsTypeOK, CacheKeys

LEMMA doKeeps ==
  ASSUME ProxyIInv, NEW c \in Callers, do(c)
  PROVE  ProxyIInv'
<1>1. Key(c) = ask[c] /\ ask[c] \in CacheKeys /\ given[c].state # "ok"
  BY KeysAreAsks DEF ProxyIInv, CallersInv, CallerTypeOK, CallerTrue, GivenTrue, do
<1>2. CallersInv'
  <2>1. CallerTypeOK'
    BY DEF do, GoTo, ProxyIInv, CallersInv, CallerTypeOK, Fetching, Local
  <2>2. CallerTrue(c)'
    BY <1>1 DEF do, GoTo, ProxyIInv, CallersInv, CallerTypeOK, CallerTrue, cacheable, cacheTTL
  <2>3. \A d \in Callers \ {c} : CallerTrue(d)'
    BY OthersKeep DEF do, GoTo, ProxyIInv, CallersInv, CallerTypeOK
  <2> QED
    BY <2>1, <2>2, <2>3 DEF CallersInv
<1>3. ItemsInv'
  BY ItemsKept DEF do, ProxyIInv
<1>4. FetchedByOne' /\ flight' \in [CacheKeys -> Callers \cup {NoCaller}]
  <2>1. CASE flight[Key(c)] = NoCaller
    <3>1. /\ flight' = [flight EXCEPT ![Key(c)] = c] /\ UNCHANGED ask
          /\ \A d \in Callers \ {c} : at'[d] = at[d]
      BY <2>1 DEF do, GoTo, ProxyIInv, CallersInv, CallerTypeOK
    <3>2. ASSUME NEW d \in Callers \ {c}, at[d] \in Fetching, cacheable(ask[d])
          PROVE  flight[Key(d)] = d /\ Key(d) # Key(c)
      BY <2>1, <3>2, ProxyCacheAssumption DEF ProxyIInv, FetchedByOne
    <3>3. flight' \in [CacheKeys -> Callers \cup {NoCaller}]
      BY <3>1 DEF ProxyIInv, CacheKeys
    <3>4. flight'[Key(c)] = c /\ \A k \in CacheKeys \ {Key(c)} : flight'[k] = flight[k]
      BY <1>1, <3>1 DEF ProxyIInv
    <3>5. \A d \in Callers : Key(d) \in CacheKeys
      BY KeysAreAsks DEF ProxyIInv, CallersInv, CallerTypeOK
    <3>6. FetchedByOne'
      BY <3>1, <3>2, <3>4, <3>5 DEF FetchedByOne, cacheable, cacheTTL, Key
    <3> QED
      BY <3>3, <3>6
  <2>2. CASE flight[Key(c)] # NoCaller
    BY <1>1, <2>2
    DEF do, GoTo, ProxyIInv, CallersInv, CallerTypeOK, FetchedByOne, Fetching, cacheable, cacheTTL, Key,
        buildKISProxyCacheKey, CacheKeys
  <2> QED
    BY <2>1, <2>2
<1> QED
  BY <1>2, <1>3, <1>4 DEF do, ProxyIInv, LimitsTypeOK, CacheKeys

\* Waiting for a limiter.
LEMMA LimiterKeeps ==
  ASSUME ProxyIInv, NEW c \in Callers, waitOwn(c) \/ wait(c)
  PROVE  ProxyIInv'
<1>1. /\ at[c] \in {"own limiter", "limiter"} /\ UNCHANGED <<minute, items, flight, ask, begun, got, given>>
      /\ at' \in [Callers -> Fetching \cup Local \cup {"idle", "share"}]
      /\ at'[c] \in {"limiter", "call"} /\ \A d \in Callers \ {c} : at'[d] = at[d]
  BY DEF waitOwn, wait, GoTo, Fetching, Local, ProxyIInv, CallersInv, CallerTypeOK
<1>2. CallersInv'
  <2>1. CallerTypeOK'
    BY <1>1 DEF ProxyIInv, CallersInv, CallerTypeOK
  <2>2. CallerTrue(c)'
    BY <1>1 DEF ProxyIInv, CallersInv, CallerTypeOK, CallerTrue, GivenTrue
  <2>3. \A d \in Callers \ {c} : CallerTrue(d)'
    BY <1>1, OthersKeep DEF ProxyIInv
  <2> QED
    BY <2>1, <2>2, <2>3 DEF CallersInv
<1>3. ItemsInv'
  BY <1>1, ItemsKept DEF ProxyIInv
<1>4. FetchedByOne'
  BY <1>1 DEF ProxyIInv, FetchedByOne, Fetching, cacheable, cacheTTL, Key
<1>5. LimitsTypeOK'
  <2>1. \/ UNCHANGED passes
        \/ \E l : passes[l] > 0 /\ passes' = [passes EXCEPT ![l] = @ - 1]
    BY DEF waitOwn, wait
  <2>2. Burst \in Nat
    BY ProxyCacheAssumption
  <2>3. \A n \in 0..Burst : n > 0 => n - 1 \in 0..Burst
    BY <2>2
  <2>4. \A l \in DOMAIN passes : passes'[l] \in 0..Burst
    BY <2>1, <2>3 DEF ProxyIInv, LimitsTypeOK
  <2>5. DOMAIN passes' = DOMAIN passes
    BY <2>1
  <2> QED
    BY <1>1, <2>4, <2>5 DEF ProxyIInv, LimitsTypeOK
<1> QED
  BY <1>1, <1>2, <1>3, <1>4, <1>5 DEF ProxyIInv, CacheKeys

\* A fetch ends, with an answer of this minute or with an error, for everyone who
\* shares it.
LEMMA FetchedKeeps ==
  ASSUME ProxyIInv, NEW c \in Callers, at[c] \in Fetching, NEW r, Fetched(c, r),
         r = Failure \/ r = Result("ok", [ask |-> ask[c], fetched |-> minute])
  PROVE  ProxyIInv'
<1>1. /\ r \in [state : {"ok", "error"}, value : Values]
      /\ r.state = "ok" => r.value.ask = ask[c] /\ r.value.fetched = minute
  BY NoValueType
  DEF Failure, Result, ProxyIInv, CallersInv, CallerTypeOK, LimitsTypeOK, Values
<1>2. \A d \in Sharers(c) : d \in Callers /\ ask[d] = ask[c] /\ given[d].state # "ok"
                            /\ at[d] # "answered"
  BY KeysAreAsks
  DEF Sharers, ProxyIInv, CallersInv, CallerTrue, GivenTrue, CallerTypeOK, Fetching
<1>3. CallersInv'
  <2>1. CallerTypeOK'
    BY <1>1 DEF Fetched, ProxyIInv, CallersInv, CallerTypeOK, Fetching, Local
  <2>2. \A d \in Sharers(c) : CallerTrue(d)'
    BY <1>1, <1>2 DEF Fetched, ProxyIInv, CallersInv, CallerTypeOK, CallerTrue, cacheable, cacheTTL
  <2>3. \A d \in Callers \ Sharers(c) : CallerTrue(d)'
    BY DEF Fetched, ProxyIInv, CallersInv, CallerTypeOK, CallerTrue, GivenTrue, cacheable, cacheTTL
  <2> QED
    BY <2>1, <2>2, <2>3 DEF CallersInv
<1>4. ItemsInv'
  BY ItemsKept DEF Fetched, ProxyIInv
<1>5. FetchedByOne'
  <2> SUFFICES ASSUME NEW d \in Callers, at'[d] \in Fetching, cacheable(ask[d])
               PROVE  flight'[Key(d)] = d
    BY DEF FetchedByOne, Fetched, cacheable, cacheTTL, Key
  <2>1. d \notin Sharers(c) /\ at[d] \in Fetching /\ d # c
    BY DEF Fetched, Fetching, ProxyIInv, CallersInv, CallerTypeOK, Sharers
  <2>2. flight[Key(d)] = d
    BY <2>1 DEF ProxyIInv, FetchedByOne
  <2>3. cacheable(ask[c]) => Key(d) # Key(c)
    BY <2>1, <2>2 DEF ProxyIInv, FetchedByOne
  <2>4. Key(c) \in CacheKeys /\ Key(d) \in CacheKeys
    BY KeysAreAsks DEF ProxyIInv, CallersInv, CallerTypeOK
  <2> QED
    BY <2>2, <2>3, <2>4 DEF Fetched, ProxyIInv
<1>6. flight' \in [CacheKeys -> Callers \cup {NoCaller}]
  BY DEF Fetched, ProxyIInv, CacheKeys
<1> QED
  BY <1>3, <1>4, <1>5, <1>6 DEF Fetched, ProxyIInv, LimitsTypeOK, CacheKeys

\* Storing an answer of this minute, whichever entry goes for it.
LEMMA SetKeeps ==
  ASSUME LimitsTypeOK, ItemsInv, NEW a \in Asks, cacheable(a), UNCHANGED minute,
         NEW v \in Values, v.ask = a, v.fetched = minute, set(a, a, v)
  PROVE  ItemsInv'
<1> DEFINE e == Item(a, v)
<1>1. /\ a \in CacheKeys /\ minute \in Nat /\ cacheTTL(a) \in Nat /\ cacheTTL(a) > 0
      /\ Retention \in Nat /\ Capacity \in Nat
  BY KeysAreAsks, ProxyCacheAssumption DEF LimitsTypeOK, cacheable, cacheTTL
<1>2. /\ e \in [value : Values, soft : Nat, hard : Nat]
      /\ e.value = v /\ e.soft = minute + cacheTTL(a) /\ e.hard = minute + cacheTTL(a) + Retention
  BY <1>1 DEF Item, softTTL, cacheTTL
<1>3. e # NoEntry
  BY <1>1, <1>2 DEF NoEntry
<1>4. NoEntry \in [value : Values, soft : Nat, hard : Nat]
  BY NoValueType DEF NoEntry
<1>5. IsFiniteSet(Kept \cup {a}) /\ Cardinality(Kept \cup {a}) \in Nat
      /\ Cardinality(Kept \cup {a}) <= Cardinality(Kept) + 1 /\ Cardinality(Kept) \in Nat
  <2>1. IsFiniteSet(Kept) /\ Cardinality(Kept) \in Nat
    BY FS_CardinalityType DEF ItemsInv
  <2>2. IsFiniteSet(Kept \cup {a})
    BY <2>1, FS_AddElement
  <2>3. Cardinality(Kept \cup {a}) \in Nat
    BY <2>2, FS_CardinalityType
  <2>4. a \in Kept => Cardinality(Kept \cup {a}) = Cardinality(Kept)
    BY <2>1, FS_AddElement
  <2>5. a \notin Kept => Cardinality(Kept \cup {a}) = Cardinality(Kept) + 1
    BY <2>1, FS_AddElement
  <2> QED
    BY <2>1, <2>2, <2>3, <2>4, <2>5
<1>6. \A k \in Kept : k # a /\ items'[k] = items[k] => EntryTrue(k)'
  BY DEF ItemsInv, EntryTrue, cacheTTL
<1>7. items'[a] = e => EntryTrue(a)'
  BY <1>1, <1>2 DEF EntryTrue, cacheTTL
<1>8. CASE Cardinality(Kept \cup {a}) <= Capacity
  <2>1. items' = [items EXCEPT ![a] = e]
    BY <1>8 DEF set, setUnbounded
  <2>2. items' \in [CacheKeys -> [value : Values, soft : Nat, hard : Nat]]
    BY <1>2, <2>1 DEF ItemsInv
  <2>3. items'[a] = e /\ \A k \in CacheKeys \ {a} : items'[k] = items[k]
    BY <1>1, <2>1 DEF ItemsInv
  <2>4. Kept' = Kept \cup {a}
    BY <1>1, <1>3, <2>3 DEF Kept, CacheKeys
  <2>5. \A k \in Kept' : EntryTrue(k)'
    BY <1>6, <1>7, <2>3, <2>4 DEF Kept
  <2> QED
    BY <1>5, <1>8, <2>2, <2>4, <2>5 DEF ItemsInv, CacheKeys
<1>9. CASE ~(Cardinality(Kept \cup {a}) <= Capacity)
  <2>1. PICK old \in Kept \ {a} : items' = [items EXCEPT ![a] = e, ![old] = NoEntry]
    BY <1>9 DEF set
  <2>2. old \in CacheKeys
    BY DEF Kept
  <2>3. items' \in [CacheKeys -> [value : Values, soft : Nat, hard : Nat]]
    BY <1>2, <1>4, <2>1 DEF ItemsInv
  <2>4. items'[a] = e /\ items'[old] = NoEntry /\ \A k \in CacheKeys \ {a, old} : items'[k] = items[k]
    BY <1>1, <2>1, <2>2 DEF ItemsInv
  <2>5. Kept' = (Kept \cup {a}) \ {old}
    BY <1>1, <1>3, <2>4 DEF Kept, CacheKeys
  <2>6. \A k \in Kept' : EntryTrue(k)'
    BY <1>6, <1>7, <2>4, <2>5 DEF Kept
  <2>7. IsFiniteSet(Kept') /\ Cardinality(Kept') = Cardinality(Kept \cup {a}) - 1
    BY <1>5, <2>1, <2>5, FS_RemoveElement
  <2>8. Cardinality(Kept') <= Capacity
    BY <1>1, <1>5, <2>7 DEF ItemsInv
  <2> QED
    BY <2>3, <2>6, <2>7, <2>8 DEF ItemsInv, CacheKeys
<1> QED
  BY <1>8, <1>9

LEMMA settleKeeps ==
  ASSUME ProxyIInv, NEW c \in Callers, settle(c)
  PROVE  ProxyIInv'
<1>1. /\ Key(c) = ask[c] /\ ask[c] \in Asks /\ ask[c] \in CacheKeys /\ CallerTypeOK
      /\ given[c].state # "ok" /\ at[c] = "settle" /\ CallerTrue(c)
      /\ begun[c] \in Nat /\ minute \in Nat /\ begun[c] <= minute
  BY KeysAreAsks, ProxyCacheAssumption
  DEF ProxyIInv, CallersInv, CallerTypeOK, LimitsTypeOK, CallerTrue, GivenTrue, settle
<1> DEFINE stale == cacheable(ask[c]) /\ ask[c] \in Kept
           r == IF got[c].state = "ok" THEN got[c]
                ELSE IF stale THEN Result("ok", items[ask[c]].value) ELSE Failure
<1>2. GiveTo(c, r) /\ UNCHANGED <<minute, flight, passes, ask, begun, got>>
  BY <1>1 DEF settle
<1>3. r \in [state : {"none", "ok", "error"}, value : Values]
  BY <1>1, NoValueType DEF Result, Failure, CallerTypeOK, ProxyIInv, ItemsInv
<1>4. CallerTypeOK'
  BY <1>1, <1>2, <1>3 DEF GiveTo, GoTo, CallerTypeOK, Fetching, Local
<1>5. at'[c] = "answered" /\ given'[c] = r
  BY <1>1, <1>2 DEF GiveTo, GoTo, CallerTypeOK
<1>6. CallerTrue(c)'
  <2>1. CASE got[c].state = "ok"
    <3>1. r.value.ask = ask[c] /\ r.value.fetched = minute
      BY <1>1, <2>1 DEF CallerTrue
    <3> QED
      BY <1>1, <1>2, <1>5, <3>1 DEF CallerTrue, GivenTrue
  <2>2. CASE got[c].state # "ok" /\ stale
    <3>1. EntryTrue(ask[c]) /\ r.value = items[ask[c]].value /\ got[c].state = "error"
      BY <1>1, <2>2 DEF ProxyIInv, ItemsInv, CallerTypeOK, CallerTrue, Result
    <3> QED
      BY <1>1, <1>2, <1>5, <2>2, <3>1 DEF CallerTrue, GivenTrue, EntryTrue, cacheable, cacheTTL
  <2>3. CASE got[c].state # "ok" /\ ~stale
    BY <1>1, <1>2, <1>5, <2>3 DEF CallerTrue, Failure, Result
  <2> QED
    BY <2>1, <2>2, <2>3
<1>7. CallersInv'
  <2>1. \A d \in Callers \ {c} : CallerTrue(d)'
    BY <1>1, <1>2, OthersKeep DEF ProxyIInv, GiveTo, GoTo, CallerTypeOK
  <2> QED
    BY <1>4, <1>6, <2>1 DEF CallersInv
<1>8. ItemsInv'
  <2>1. CASE got[c].state = "ok" /\ cacheable(ask[c])
    <3>1. /\ got[c].value \in Values /\ got[c].value.ask = ask[c]
          /\ got[c].value.fetched = minute
      BY <1>1, <2>1 DEF CallerTypeOK, CallerTrue
    <3>2. set(ask[c], ask[c], got[c].value)
      BY <1>1, <2>1 DEF settle
    <3> QED
      BY <1>1, <1>2, <2>1, <3>1, <3>2, SetKeeps DEF ProxyIInv
  <2>2. CASE ~(got[c].state = "ok" /\ cacheable(ask[c]))
    BY <1>2, <2>2, ItemsKept DEF settle, ProxyIInv
  <2> QED
    BY <2>1, <2>2
<1>9. FetchedByOne'
  BY <1>1, <1>2
  DEF GiveTo, GoTo, ProxyIInv, CallerTypeOK, FetchedByOne, Fetching, cacheable, cacheTTL, Key,
      buildKISProxyCacheKey
<1> QED
  BY <1>2, <1>7, <1>8, <1>9 DEF ProxyIInv, LimitsTypeOK, CacheKeys

LEMMA RespondKeeps ==
  ASSUME ProxyIInv, NEW c \in Callers, Respond(c)
  PROVE  ProxyIInv'
<1>1. NoValue.ask \in Asks /\ NoResult \in [state : {"none", "ok", "error"}, value : Values]
      /\ NoResult.state = "none" /\ minute \in Nat /\ 0 \in 0..Latest
  BY NoValueType, ProxyCacheAssumption DEF NoResult, Result, Values, ProxyIInv, LimitsTypeOK
<1>2. CallerTypeOK'
  BY <1>1 DEF Respond, GoTo, ProxyIInv, CallersInv, CallerTypeOK, Fetching, Local
<1>3. CallerTrue(c)'
  BY <1>1 DEF Respond, GoTo, ProxyIInv, CallersInv, CallerTypeOK, CallerTrue
<1>4. CallersInv'
  <2>1. \A d \in Callers \ {c} : CallerTrue(d)'
    BY OthersKeep DEF Respond, GoTo, ProxyIInv, CallersInv, CallerTypeOK
  <2> QED
    BY <1>2, <1>3, <2>1 DEF CallersInv
<1>5. ItemsInv'
  BY ItemsKept DEF Respond, ProxyIInv
<1>6. FetchedByOne'
  BY DEF Respond, GoTo, ProxyIInv, CallersInv, CallerTypeOK, FetchedByOne, Fetching, cacheable,
         cacheTTL, Key, buildKISProxyCacheKey
<1> QED
  BY <1>4, <1>5, <1>6 DEF Respond, ProxyIInv, LimitsTypeOK, CacheKeys

\* Time passes only while every caller waits, and takes the entries that were kept
\* long enough.
LEMMA MinuteKeeps ==
  ASSUME ProxyIInv, Minute
  PROVE  ProxyIInv'
<1>1. minute \in Nat /\ minute' = minute + 1 /\ minute' \in 0..Latest
  BY ProxyCacheAssumption DEF Minute, ProxyIInv, LimitsTypeOK
<1>2. LimitsTypeOK'
  BY <1>1, ProxyCacheAssumption DEF Minute, LimitsTypeOK
<1>3. CallersInv'
  <2>1. CallerTypeOK'
    BY DEF Minute, caller, ProxyIInv, CallersInv, CallerTypeOK
  <2>2. \A c \in Callers : begun[c] <= minute + 1
    BY <1>1, ProxyCacheAssumption DEF ProxyIInv, CallersInv, CallerTypeOK, CallerTrue
  <2> QED
    BY <1>1, <2>1, <2>2
    DEF Minute, caller, ProxyIInv, CallersInv, CallerTrue, GivenTrue, Local, cacheable, cacheTTL
<1>4. ItemsInv'
  <2>1. items' = [k \in CacheKeys |-> IF items[k].hard < minute' THEN NoEntry ELSE items[k]]
    BY DEF Minute
  <2>2. items' \in [CacheKeys -> [value : Values, soft : Nat, hard : Nat]]
    BY <2>1, NoValueType DEF NoEntry, ProxyIInv, ItemsInv
  <2>3. Kept' \subseteq Kept
    BY <2>1 DEF Kept, CacheKeys
  <2>4. IsFiniteSet(Kept') /\ Cardinality(Kept') <= Cardinality(Kept) /\ Cardinality(Kept') \in Nat
        /\ Cardinality(Kept) \in Nat
    BY <2>3, FS_Subset, FS_CardinalityType DEF ProxyIInv, ItemsInv
  <2>5. \A k \in Kept' : EntryTrue(k)'
    <3> SUFFICES ASSUME NEW k \in Kept' PROVE EntryTrue(k)'
      OBVIOUS
    <3>1. items'[k] = items[k] /\ ~(items[k].hard < minute') /\ k \in Kept /\ items[k].hard \in Nat
      BY <2>1, <2>3 DEF Kept, CacheKeys, ProxyIInv, ItemsInv
    <3> QED
      BY <1>1, <3>1 DEF ProxyIInv, ItemsInv, EntryTrue, cacheTTL
  <2> QED
    BY <2>2, <2>4, <2>5, ProxyCacheAssumption DEF ProxyIInv, ItemsInv, CacheKeys
<1> QED
  BY <1>2, <1>3, <1>4
  DEF Minute, caller, ProxyIInv, FetchedByOne, Key, cacheable, cacheTTL, CacheKeys

-----------------------------------------------------------------------------
LEMMA ProxyIInvStep == ASSUME ProxyIInv, [ProxyNext]_proxyVars PROVE ProxyIInv'
<1>1. CASE UNCHANGED proxyVars
  <2>1. ItemsInv' /\ LimitsTypeOK'
    BY <1>1, ItemsKept DEF proxyVars, ProxyIInv, LimitsTypeOK
  <2>2. CallersInv' /\ FetchedByOne'
    BY <1>1
    DEF proxyVars, caller, ProxyIInv, CallersInv, CallerTypeOK, CallerTrue, GivenTrue, FetchedByOne,
        cacheable, cacheTTL, Key
  <2> QED
    BY <1>1, <2>1, <2>2 DEF proxyVars, ProxyIInv, CacheKeys
<1>2. CASE Minute
  BY <1>2, MinuteKeeps
<1>3. ASSUME NEW c \in Callers, NEW a \in Asks, Enter(c, a)
      PROVE  ProxyIInv'
  BY <1>3, EnterKeeps
<1>4. ASSUME NEW c \in Callers, callEndpoint(c) \/ Leave(c)
      PROVE  ProxyIInv'
  BY <1>4, FetchedKeeps DEF callEndpoint, Leave, Fetching
<1>5. ASSUME NEW c \in Callers,
             getFresh(c) \/ do(c) \/ waitOwn(c) \/ wait(c) \/ settle(c) \/ Respond(c)
      PROVE  ProxyIInv'
  BY <1>5, getFreshKeeps, doKeeps, LimiterKeeps, settleKeeps, RespondKeeps
<1> QED
  BY <1>1, <1>2, <1>3, <1>4, <1>5 DEF ProxyNext

\* The cache never holds more than its capacity, and everything keeps its type.
THEOREM ProxyTypes == ProxySpec => []ProxyTypeOK
<1>1. ProxyIInv => ProxyTypeOK
  BY ProxyIInvImplies
<1> QED
  BY <1>1, ProxyIInvInit, ProxyIInvStep, PTL DEF ProxySpec

\* Nobody is given another account's answer, an older one than the policy allows, or
\* a kept one for what must not be kept; one caller fetches at a time.
THEOREM ProxyAnswers == ProxySpec => []ProxyAnswerIsCurrent
<1>1. ProxyIInv => ProxyAnswerIsCurrent
  BY ProxyIInvImplies
<1> QED
  BY <1>1, ProxyIInvInit, ProxyIInvStep, PTL DEF ProxySpec

-----------------------------------------------------------------------------
(* The index of symbols.                                                   *)

\* A map by symbol has each symbol that a market of the set has, as some such market
\* has it.
SameAs(map, i, markets) ==
  /\ DOMAIN map = {s \in Symbols : \E m \in Markets \cap markets : <<m, s>> \in DOMAIN i.byMarketSymbol}
  /\ \A s \in DOMAIN map :
       /\ map[s].market \in Markets \cap markets
       /\ <<map[s].market, s>> \in DOMAIN i.byMarketSymbol
       /\ map[s] = i.byMarketSymbol[<<map[s].market, s>>]

IsMap(f) == f = [x \in DOMAIN f |-> f[x]]

\* The maps of an index say the same.
Consistent(i) ==
  /\ i = [byMarketSymbol |-> i.byMarketSymbol, domesticBySym |-> i.domesticBySym,
          usBySym |-> i.usBySym, anyBySym |-> i.anyBySym]
  /\ IsMap(i.byMarketSymbol) /\ IsMap(i.domesticBySym) /\ IsMap(i.usBySym) /\ IsMap(i.anyBySym)
  /\ DOMAIN i.byMarketSymbol \subseteq Markets \X Symbols
  /\ \A k \in DOMAIN i.byMarketSymbol :
       /\ i.byMarketSymbol[k] \in Records
       /\ i.byMarketSymbol[k].market = k[1] /\ i.byMarketSymbol[k].symbol = k[2]
  /\ SameAs(i.domesticBySym, i, Domestic)
  /\ SameAs(i.usBySym, i, American)
  /\ SameAs(i.anyBySym, i, Markets)

Days(i) == {i.byMarketSymbol[k].day : k \in DOMAIN i.byMarketSymbol}
Builds(b) == doing[b] \in {"build", "install"}

ReaderOK ==
  /\ today \in 1..LastDay
  /\ {bootstrapping, masterSymbolsLoaded} \subseteq BOOLEAN
  /\ doing \in [Builders -> {"bootstrap", "reload", "build", "install", "rest"}]
  /\ reading \in [Builders -> 1..(Len(Sources) + 1)]
  /\ IsMap(idx) /\ DOMAIN idx = Builders
  /\ \A b \in Builders : doing[b] = "build" => reading[b] <= Len(Sources)

\* One builds at a time.
BuildsAlone ==
  /\ \A b \in Builders : Builds(b) => bootstrapping
  /\ \A b, c \in Builders : Builds(b) /\ Builds(c) => b = c

\* What is served is not of a later day than what is read now, nor than anything that
\* whoever builds has read.
DaysOK ==
  /\ \A d \in Days(masterSymbols) : d <= today
  /\ \A b \in Builders : \A d \in Days(idx[b]) : d <= today
  /\ \A b \in Builders : Builds(b) => \A d \in Days(masterSymbols), e \in Days(idx[b]) : d <= e

MasterIInv ==
  /\ ReaderOK
  /\ Consistent(masterSymbols)
  /\ \A b \in Builders : Consistent(idx[b])
  /\ BuildsAlone
  /\ DaysOK

LEMMA SourcesAreMarkets ==
  /\ Len(Sources) \in Nat \ {0}
  /\ \A i \in 1..Len(Sources) : Sources[i] \in Markets
  /\ Markets \subseteq DOMAIN Listed
  /\ \A m \in Markets : m # "" /\ Listed[m] \subseteq Symbols
<1> DEFINE S == DOMAIN Listed
<1>0. Sources \in Seq(S) /\ Sources # <<>>
  BY MasterSymbolsAssumption
<1> HIDE DEF S
<1>1. Len(Sources) \in Nat /\ DOMAIN Sources = 1..Len(Sources) /\ Sources \in [1..Len(Sources) -> S]
  BY <1>0, LenProperties
<1>2. Len(Sources) # 0
  BY <1>0, EmptySeq
<1>3. \A i \in 1..Len(Sources) : Sources[i] \in Markets /\ Sources[i] \in DOMAIN Listed
  BY <1>1 DEF Markets, S
<1>4. Markets \subseteq DOMAIN Listed
  BY <1>1, <1>3 DEF Markets
<1>5. \A m \in Markets : m # ""
  BY <1>4, MasterSymbolsAssumption
<1>6. \A m \in Markets : Listed[m] \subseteq Symbols
  BY DEF Symbols
<1> QED BY <1>1, <1>2, <1>3, <1>4, <1>5, <1>6

LEMMA LengthIsNatural == Len(Sources) \in Nat /\ 1 <= Len(Sources) /\ LastDay \in Nat /\ 1 <= LastDay
<1>1. Len(Sources) \in Nat \ {0}
  BY SourcesAreMarkets
<1>2. LastDay \in Nat \ {0}
  BY MasterSymbolsAssumption
<1> QED BY <1>1, <1>2

LEMMA EmptyConsistent == Consistent(Empty) /\ IsIndex(Empty) /\ Days(Empty) = {}
<1>1. /\ Empty.byMarketSymbol = NoMap /\ Empty.domesticBySym = NoMap
      /\ Empty.usBySym = NoMap /\ Empty.anyBySym = NoMap
      /\ DOMAIN NoMap = {} /\ IsMap(NoMap)
  BY DEF Empty, NoMap, IsMap
<1>2. /\ Empty["domesticBySym"] = NoMap /\ Empty["usBySym"] = NoMap /\ Empty["anyBySym"] = NoMap
  BY DEF Empty
<1>3. SameAs(NoMap, Empty, Domestic) /\ SameAs(NoMap, Empty, American) /\ SameAs(NoMap, Empty, Markets)
  BY <1>1 DEF SameAs
<1>4. IsIndex(Empty)
  BY <1>1, <1>2 DEF IsIndex
<1> QED BY <1>1, <1>3, <1>4 DEF Consistent, Days, Empty

\* A consistent index has the type, and one that has a record by market is not empty.
LEMMA ConsistentIndex ==
  ASSUME NEW i, Consistent(i)
  PROVE  IsIndex(i) /\ (i # Empty => i.byMarketSymbol # NoMap)
<1>1. ASSUME NEW f \in {"domesticBySym", "usBySym", "anyBySym"}
      PROVE  /\ DOMAIN i[f] \subseteq Symbols
             /\ \A s \in DOMAIN i[f] : i[f][s] \in Records
  <2>1. PICK markets : SameAs(i[f], i, markets)
    BY DEF Consistent
  <2> QED BY <2>1 DEF SameAs, Consistent
<1>2. IsIndex(i)
  BY <1>1 DEF IsIndex, Consistent
<1>3. ASSUME i.byMarketSymbol = NoMap
      PROVE  i = Empty
  <2>1. DOMAIN NoMap = {}
    BY DEF NoMap
  <2>2. DOMAIN i.domesticBySym = {} /\ DOMAIN i.usBySym = {} /\ DOMAIN i.anyBySym = {}
    BY <1>3, <2>1 DEF Consistent, SameAs
  <2>3. i.domesticBySym = NoMap /\ i.usBySym = NoMap /\ i.anyBySym = NoMap
    BY <2>2 DEF Consistent, IsMap, NoMap
  <2> QED BY <2>3, <1>3 DEF Consistent, Empty
<1> QED BY <1>2, <1>3

\* The first record of a key stays.
LEMMA PutKeeps ==
  ASSUME NEW map, NEW more
  PROVE  /\ \A k \in DOMAIN map : Put(map, more)[k] = map[k]
         /\ \A k \in DOMAIN more : k \notin DOMAIN map => Put(map, more)[k] = more[k]
<1> QED BY DEF Put

LEMMA PutDomain ==
  ASSUME NEW map, NEW more
  PROVE  DOMAIN Put(map, more) = DOMAIN map \cup DOMAIN more
<1> QED BY DEF Put

LEMMA PutIsMap ==
  ASSUME NEW map, NEW more
  PROVE  IsMap(Put(map, more))
<1> QED BY DEF IsMap, Put

\* What the file of a market gives.
RecordOf(market, s) == [market |-> market, symbol |-> s, day |-> today]

LEMMA GivenRecords ==
  ASSUME NEW market, NEW wanted \in BOOLEAN
  PROVE  /\ DOMAIN Given(market, wanted) = {s \in Listed[market] : wanted}
         /\ \A s \in DOMAIN Given(market, wanted) : Given(market, wanted)[s] = RecordOf(market, s)
<1> QED BY DEF Given, RecordOf

LEMMA KeyedRecords ==
  ASSUME NEW market
  PROVE  /\ DOMAIN Keyed(market) = {market} \X Listed[market]
         /\ \A k \in DOMAIN Keyed(market) :
              /\ k = <<market, k[2]>> /\ k[2] \in Listed[market]
              /\ Keyed(market)[k] = RecordOf(market, k[2])
<1>1. DOMAIN Keyed(market) = {market} \X Listed[market]
  BY DEF Keyed
<1>2. \A s \in Listed[market] : Given(market, TRUE)[s] = RecordOf(market, s)
  BY DEF Given, RecordOf
<1>3. ASSUME NEW k \in DOMAIN Keyed(market)
      PROVE  /\ k = <<market, k[2]>> /\ k[2] \in Listed[market]
             /\ Keyed(market)[k] = RecordOf(market, k[2])
  <2>1. k \in {market} \X Listed[market]
    BY <1>1
  <2>2. k = <<market, k[2]>> /\ k[2] \in Listed[market]
    BY <2>1
  <2>3. Keyed(market)[k] = Given(market, TRUE)[k[2]]
    BY <2>1 DEF Keyed
  <2> QED BY <2>2, <2>3, <1>2
<1> QED BY <1>1, <1>3

\* AddAll leaves the records an index has, and what it adds is of the day.
LEMMA AddAllKeys ==
  ASSUME NEW i, Consistent(i), NEW market \in Markets
  PROVE  LET keys == DOMAIN AddAll(i, market).byMarketSymbol
         IN  /\ keys = DOMAIN i.byMarketSymbol \cup ({market} \X Listed[market])
             /\ keys \subseteq Markets \X Symbols
<1>1. AddAll(i, market).byMarketSymbol = Put(i.byMarketSymbol, Keyed(market))
  BY DEF AddAll
<1>2. DOMAIN Keyed(market) = {market} \X Listed[market]
  BY KeyedRecords
<1>3. DOMAIN AddAll(i, market).byMarketSymbol = DOMAIN i.byMarketSymbol \cup ({market} \X Listed[market])
  BY <1>1, <1>2, PutDomain
<1>4. Listed[market] \subseteq Symbols
  BY SourcesAreMarkets
<1>5. {market} \X Listed[market] \subseteq Markets \X Symbols
  BY <1>4
<1>6. DOMAIN i.byMarketSymbol \subseteq Markets \X Symbols
  BY DEF Consistent
<1> QED BY <1>3, <1>5, <1>6

LEMMA AddAllRecords ==
  ASSUME NEW i, Consistent(i), NEW market \in Markets, today \in 1..LastDay,
         NEW old, old = i.byMarketSymbol, NEW by, by = AddAll(i, market).byMarketSymbol
  PROVE  /\ \A k \in DOMAIN old : by[k] = old[k]
         /\ \A k \in DOMAIN by \ DOMAIN old : k[1] = market /\ by[k] = RecordOf(market, k[2])
         /\ \A k \in DOMAIN by : by[k] \in Records /\ by[k].market = k[1] /\ by[k].symbol = k[2]
<1> DEFINE more == Keyed(market)
<1>1. by = Put(old, more)
  BY DEF AddAll
<1>2. /\ DOMAIN more = {market} \X Listed[market]
      /\ \A k \in DOMAIN more : k[1] = market /\ more[k] = RecordOf(market, k[2])
  <2>1. \A k : k = <<market, k[2]>> => k[1] = market
    OBVIOUS
  <2> QED BY <2>1, KeyedRecords
<1> HIDE DEF more
<1>3. DOMAIN by = DOMAIN old \cup DOMAIN more
  BY <1>1, PutDomain
<1>8. /\ \A k \in DOMAIN old : by[k] = old[k]
      /\ \A k \in DOMAIN more : k \notin DOMAIN old => by[k] = more[k]
  BY <1>1, PutKeeps
<1>4. /\ DOMAIN old \subseteq Markets \X Symbols
      /\ \A k \in DOMAIN old : old[k] \in Records /\ old[k].market = k[1] /\ old[k].symbol = k[2]
  BY DEF Consistent
<1>5. DOMAIN by \subseteq Markets \X Symbols
  BY AddAllKeys
<1>6. ASSUME NEW k \in DOMAIN by
      PROVE  by[k] \in Records /\ by[k].market = k[1] /\ by[k].symbol = k[2]
  <2>1. CASE k \in DOMAIN old
    BY <1>4, <1>8, <2>1
  <2>2. CASE k \notin DOMAIN old
    <3>1. k[1] = market /\ by[k] = RecordOf(market, k[2])
      BY <1>2, <1>3, <1>8, <2>2
    <3>2. k[2] \in Symbols
      BY <1>5
    <3> QED BY <3>1, <3>2 DEF Records, RecordOf
  <2> QED BY <2>1, <2>2
<1>7. \A k \in DOMAIN by \ DOMAIN old : k[1] = market /\ by[k] = RecordOf(market, k[2])
  BY <1>2, <1>3, <1>8
<1> QED BY <1>6, <1>7, <1>8

LEMMA PutSameAs ==
  ASSUME NEW i, Consistent(i), NEW market \in Markets, today \in 1..LastDay,
         NEW map, IsMap(map), NEW markets, SameAs(map, i, markets),
         NEW wanted \in BOOLEAN, wanted <=> market \in markets
  PROVE  SameAs(Put(map, Given(market, wanted)), AddAll(i, market), markets)
<1> DEFINE by == AddAll(i, market).byMarketSymbol
           old == i.byMarketSymbol
           new == Put(map, Given(market, wanted))
<1>0. DOMAIN by = DOMAIN old \cup ({market} \X Listed[market])
  BY AddAllKeys
<1>1. /\ \A k \in DOMAIN old : by[k] = old[k]
      /\ \A k \in DOMAIN by \ DOMAIN old : k[1] = market /\ by[k] = RecordOf(market, k[2])
  <2>1. by = AddAll(i, market).byMarketSymbol /\ old = i.byMarketSymbol
    OBVIOUS
  <2> HIDE DEF by, old
  <2> QED BY <2>1, AddAllRecords
<1>2. /\ DOMAIN new = DOMAIN map \cup {s \in Listed[market] : wanted}
      /\ \A s \in DOMAIN map : new[s] = map[s]
      /\ \A s \in DOMAIN new \ DOMAIN map : new[s] = RecordOf(market, s)
  <2> DEFINE more == Given(market, wanted)
  <2>1. /\ DOMAIN more = {s \in Listed[market] : wanted}
        /\ \A s \in DOMAIN more : more[s] = RecordOf(market, s)
    BY GivenRecords
  <2> HIDE DEF more
  <2>0. new = Put(map, more)
    BY DEF more
  <2> HIDE DEF new
  <2>2. DOMAIN new = DOMAIN map \cup DOMAIN more
    BY <2>0, PutDomain
  <2>3. /\ \A s \in DOMAIN map : new[s] = map[s]
        /\ \A s \in DOMAIN more : s \notin DOMAIN map => new[s] = more[s]
    BY <2>0, PutKeeps
  <2> QED BY <2>1, <2>2, <2>3
<1>3. Listed[market] \subseteq Symbols
  BY SourcesAreMarkets
<1>4. /\ DOMAIN map = {s \in Symbols : \E m \in Markets \cap markets : <<m, s>> \in DOMAIN old}
      /\ \A s \in DOMAIN map :
           /\ map[s].market \in Markets \cap markets
           /\ <<map[s].market, s>> \in DOMAIN old
           /\ map[s] = old[<<map[s].market, s>>]
  BY DEF SameAs
<1> HIDE DEF by, old, new
<1>5. DOMAIN new = {s \in Symbols : \E m \in Markets \cap markets : <<m, s>> \in DOMAIN by}
  <2>1. ASSUME NEW s \in DOMAIN new
        PROVE  s \in Symbols /\ \E m \in Markets \cap markets : <<m, s>> \in DOMAIN by
    <3>1. CASE s \in DOMAIN map
      BY <1>0, <1>1, <1>4, <3>1
    <3>2. CASE s \notin DOMAIN map
      <4>1. s \in Listed[market] /\ market \in markets
        BY <1>2, <3>2
      <4>2. <<market, s>> \in {market} \X Listed[market]
        BY <4>1
      <4> QED BY <1>0, <1>1, <1>3, <4>1, <4>2
    <3> QED BY <3>1, <3>2
  <2>2. ASSUME NEW s \in Symbols, NEW m \in Markets \cap markets, <<m, s>> \in DOMAIN by
        PROVE  s \in DOMAIN new
    <3>1. CASE <<m, s>> \in DOMAIN old
      BY <1>2, <1>4, <3>1
    <3>2. CASE <<m, s>> \notin DOMAIN old
      <4>1. <<m, s>> \in {market} \X Listed[market]
        BY <1>0, <1>1, <2>2, <3>2
      <4>2. m = market /\ s \in Listed[market]
        BY <4>1
      <4> QED BY <1>2, <4>2
    <3> QED BY <3>1, <3>2
  <2> QED BY <2>1, <2>2
<1>6. ASSUME NEW s \in DOMAIN new
      PROVE  /\ new[s].market \in Markets \cap markets
             /\ <<new[s].market, s>> \in DOMAIN by
             /\ new[s] = by[<<new[s].market, s>>]
  <2>1. CASE s \in DOMAIN map
    BY <1>0, <1>1, <1>2, <1>4, <2>1
  <2>2. CASE s \notin DOMAIN map
    <3>1. s \in Listed[market] /\ market \in markets
      BY <1>2, <2>2
    <3>2. new[s] = RecordOf(market, s) /\ new[s].market = market
      BY <1>2, <2>2 DEF RecordOf
    <3>3. <<market, s>> \in {market} \X Listed[market]
      BY <3>1
    <3>4. <<market, s>> \notin DOMAIN old
      BY <1>3, <1>4, <2>2, <3>1
    <3>5. by[<<market, s>>] = RecordOf(market, s)
      <4> DEFINE k == <<market, s>>
      <4>1. k[2] = s
        OBVIOUS
      <4>2. k \in DOMAIN by \ DOMAIN old
        BY <1>0, <1>1, <3>3, <3>4
      <4> HIDE DEF k
      <4>3. by[k] = RecordOf(market, s)
        BY <1>0, <1>1, <4>1, <4>2
      <4> QED BY <4>3 DEF k
    <3> QED BY <1>0, <1>1, <3>1, <3>2, <3>3, <3>5
  <2> QED BY <2>1, <2>2
<1> QED BY <1>5, <1>6 DEF SameAs, by, new

LEMMA AddAllConsistent ==
  ASSUME NEW i, Consistent(i), NEW market \in Markets, today \in 1..LastDay
  PROVE  Consistent(AddAll(i, market)) /\ Days(AddAll(i, market)) \subseteq Days(i) \cup {today}
<1> DEFINE new == AddAll(i, market)
           by == new.byMarketSymbol
           old == i.byMarketSymbol
           home == market \in Domestic
           us == market \in American
<1>1. /\ new.domesticBySym = Put(i.domesticBySym, Given(market, home))
      /\ new.usBySym = Put(i.usBySym, Given(market, us))
      /\ new.anyBySym = Put(i.anyBySym, Given(market, TRUE))
      /\ new = [byMarketSymbol |-> by, domesticBySym |-> new.domesticBySym,
                usBySym |-> new.usBySym, anyBySym |-> new.anyBySym]
  BY DEF AddAll
<1>2. /\ IsMap(i.domesticBySym) /\ IsMap(i.usBySym) /\ IsMap(i.anyBySym)
      /\ SameAs(i.domesticBySym, i, Domestic)
      /\ SameAs(i.usBySym, i, American)
      /\ SameAs(i.anyBySym, i, Markets)
  BY DEF Consistent
<1>0. DOMAIN by \subseteq Markets \X Symbols
  BY AddAllKeys
<1>3. /\ \A k \in DOMAIN old : by[k] = old[k]
      /\ \A k \in DOMAIN by \ DOMAIN old : by[k] = RecordOf(market, k[2])
      /\ \A k \in DOMAIN by : by[k] \in Records /\ by[k].market = k[1] /\ by[k].symbol = k[2]
  <2>1. by = AddAll(i, market).byMarketSymbol /\ old = i.byMarketSymbol
    OBVIOUS
  <2> HIDE DEF by, old
  <2> QED BY <2>1, AddAllRecords
<1>4. us \in BOOLEAN /\ home \in BOOLEAN /\ (us <=> market \in American) /\ (home <=> market \in Domestic)
  OBVIOUS
<1> HIDE DEF us, home
<1>5. IsMap(new.domesticBySym) /\ SameAs(new.domesticBySym, new, Domestic)
  <2>1. IsMap(Put(i.domesticBySym, Given(market, home)))
    BY PutIsMap
  <2>2. SameAs(Put(i.domesticBySym, Given(market, home)), new, Domestic)
    BY <1>2, <1>4, PutSameAs
  <2> QED BY <1>1, <2>1, <2>2
<1>6. IsMap(new.usBySym) /\ SameAs(new.usBySym, new, American)
  <2>1. IsMap(Put(i.usBySym, Given(market, us)))
    BY PutIsMap
  <2>2. SameAs(Put(i.usBySym, Given(market, us)), new, American)
    BY <1>2, <1>4, PutSameAs
  <2> QED BY <1>1, <2>1, <2>2
<1>7. IsMap(new.anyBySym) /\ SameAs(new.anyBySym, new, Markets)
  <2>1. IsMap(Put(i.anyBySym, Given(market, TRUE)))
    BY PutIsMap
  <2>2. SameAs(Put(i.anyBySym, Given(market, TRUE)), new, Markets)
    BY <1>2, PutSameAs
  <2> QED BY <1>1, <2>1, <2>2
<1>8. Days(new) \subseteq Days(i) \cup {today}
  <2> SUFFICES ASSUME NEW d \in Days(new)
               PROVE  d \in Days(i) \cup {today}
    OBVIOUS
  <2>1. PICK k \in DOMAIN by : d = by[k].day
    BY DEF Days
  <2> HIDE DEF by, new
  <2>2. CASE k \in DOMAIN old
    BY <1>3, <2>1, <2>2 DEF Days
  <2>3. CASE k \notin DOMAIN old
    BY <1>3, <2>1, <2>3 DEF RecordOf
  <2> QED BY <2>2, <2>3
<1> HIDE DEF new
<1>9. IsMap(by)
  BY PutIsMap DEF AddAll, new
<1>10. Consistent(new)
  BY <1>0, <1>1, <1>3, <1>5, <1>6, <1>7, <1>9 DEF Consistent
<1> QED BY <1>8, <1>10 DEF new

\* The days of a consistent index are days.
LEMMA DaysAreDays ==
  ASSUME NEW i, Consistent(i)
  PROVE  Days(i) \subseteq 1..LastDay
<1> SUFFICES ASSUME NEW k \in DOMAIN i.byMarketSymbol
             PROVE  i.byMarketSymbol[k].day \in 1..LastDay
  BY DEF Days
<1>1. i.byMarketSymbol[k] \in Records
  BY DEF Consistent
<1> QED BY <1>1 DEF Records

LEMMA MasterTypes ==
  ASSUME MasterIInv
  PROVE  MasterTypeOK
<1>1. IsIndex(masterSymbols) /\ \A b \in Builders : IsIndex(idx[b])
  BY ConsistentIndex DEF MasterIInv
<1> QED BY <1>1 DEF MasterIInv, ReaderOK, MasterTypeOK

LEMMA MasterIInvInit ==
  ASSUME MasterInit
  PROVE  MasterIInv
<1>1. Consistent(masterSymbols) /\ Days(masterSymbols) = {}
  BY EmptyConsistent DEF MasterInit
<1>2. \A b \in Builders : Consistent(idx[b]) /\ Days(idx[b]) = {}
  BY EmptyConsistent DEF MasterInit
<1>3. ReaderOK
  <2>1. IsMap(idx) /\ DOMAIN idx = Builders
    BY DEF MasterInit, IsMap
  <2>2. today \in 1..LastDay
    BY LengthIsNatural DEF MasterInit
  <2>3. reading \in [Builders -> 1..(Len(Sources) + 1)]
    BY LengthIsNatural DEF MasterInit
  <2> QED BY <2>1, <2>2, <2>3 DEF MasterInit, ReaderOK
<1>4. BuildsAlone
  BY DEF MasterInit, BuildsAlone, Builds
<1>5. DaysOK
  BY <1>1, <1>2 DEF DaysOK
<1> QED BY <1>1, <1>2, <1>3, <1>4, <1>5 DEF MasterIInv

LEMMA MasterIInvStutter ==
  ASSUME MasterIInv, UNCHANGED masterVars
  PROVE  MasterIInv'
<1>1. /\ masterSymbols' = masterSymbols /\ idx' = idx /\ doing' = doing /\ today' = today /\ reading' = reading
      /\ bootstrapping' = bootstrapping /\ masterSymbolsLoaded' = masterSymbolsLoaded
  BY DEF masterVars
<1>2. ReaderOK'
  BY <1>1 DEF MasterIInv, ReaderOK
<1>3. BuildsAlone'
  BY <1>1 DEF MasterIInv, BuildsAlone, Builds
<1>4. DaysOK'
  BY <1>1 DEF MasterIInv, DaysOK, Builds
<1> QED BY <1>1, <1>2, <1>3, <1>4 DEF MasterIInv

LEMMA PublishStep ==
  ASSUME MasterIInv, Publish
  PROVE  MasterIInv'
<1>1. ReaderOK'
  BY LengthIsNatural DEF MasterIInv, Publish, ReaderOK
<1>2. BuildsAlone'
  BY DEF MasterIInv, Publish, BuildsAlone, Builds
<1>3. DaysOK'
  <2>1. Days(masterSymbols) \subseteq 1..LastDay /\ \A b \in Builders : Days(idx[b]) \subseteq 1..LastDay
    BY DaysAreDays DEF MasterIInv
  <2>2. today \in Nat /\ today' = today + 1
    BY DEF MasterIInv, ReaderOK, Publish
  <2>3. masterSymbols' = masterSymbols /\ idx' = idx /\ doing' = doing
    BY DEF Publish
  <2> QED BY <2>1, <2>2, <2>3 DEF MasterIInv, DaysOK, Builds
<1> QED BY <1>1, <1>2, <1>3 DEF MasterIInv, Publish

LEMMA TickerStep ==
  ASSUME MasterIInv, NEW b \in Builders, Ticker(b)
  PROVE  MasterIInv'
<1>1. ReaderOK'
  BY DEF MasterIInv, Ticker, Do, ReaderOK
<1>2. \A c \in Builders : Builds(c)' <=> Builds(c)
  BY DEF MasterIInv, ReaderOK, Ticker, Do, Builds
<1>3. BuildsAlone'
  BY <1>2 DEF MasterIInv, Ticker, BuildsAlone
<1>4. DaysOK'
  BY <1>2 DEF MasterIInv, DaysOK, Ticker
<1> QED BY <1>1, <1>3, <1>4 DEF MasterIInv, Ticker

LEMMA SpareStep ==
  ASSUME MasterIInv, NEW b \in Builders, Spare(b)
  PROVE  MasterIInv'
<1>1. ReaderOK'
  BY DEF MasterIInv, Spare, Do, ReaderOK
<1>2. \A c \in Builders : Builds(c)' <=> Builds(c)
  BY DEF MasterIInv, ReaderOK, Spare, Do, Builds
<1>3. BuildsAlone'
  BY <1>2 DEF MasterIInv, Spare, BuildsAlone
<1>4. DaysOK'
  BY <1>2 DEF MasterIInv, DaysOK, Spare
<1> QED BY <1>1, <1>3, <1>4 DEF MasterIInv, Spare

LEMMA BeginStep ==
  ASSUME MasterIInv, NEW b \in Builders, Begin(b)
  PROVE  MasterIInv'
<1> USE DEF Begin, BeginUnguarded, Do
<1>1. /\ idx'[b] = Empty /\ Consistent(Empty) /\ Days(Empty) = {}
      /\ \A c \in Builders : c # b => idx'[c] = idx[c]
  BY EmptyConsistent DEF MasterIInv, ReaderOK
<1>2. ReaderOK'
  <2>1. IsMap(idx') /\ DOMAIN idx' = Builders
    BY DEF MasterIInv, ReaderOK, IsMap
  <2>2. reading' \in [Builders -> 1..(Len(Sources) + 1)] /\ reading'[b] = 1
    BY LengthIsNatural DEF MasterIInv, ReaderOK
  <2>3. \A c \in Builders : doing'[c] = "build" => reading'[c] <= Len(Sources)
    BY <2>2, LengthIsNatural DEF MasterIInv, ReaderOK
  <2> QED BY <2>1, <2>2, <2>3 DEF MasterIInv, ReaderOK
<1>3. \A c \in Builders : Builds(c)' <=> c = b
  BY DEF MasterIInv, ReaderOK, BuildsAlone, Builds
<1>4. BuildsAlone'
  BY <1>3 DEF BuildsAlone
<1>5. \A c \in Builders : Consistent(idx'[c])
  BY <1>1 DEF MasterIInv
<1>6. DaysOK'
  BY <1>1, <1>3 DEF MasterIInv, DaysOK
<1> QED BY <1>2, <1>4, <1>5, <1>6 DEF MasterIInv

LEMMA ReadStep ==
  ASSUME MasterIInv, NEW b \in Builders, Read(b)
  PROVE  MasterIInv'
<1>1. doing[b] = "build" /\ Builds(b) /\ reading[b] \in 1..Len(Sources) /\ Sources[reading[b]] \in Markets
  <2>1. doing[b] = "build" /\ Builds(b) /\ reading[b] \in 1..Len(Sources)
    BY LengthIsNatural DEF MasterIInv, ReaderOK, Read, Builds
  <2> QED BY <2>1, SourcesAreMarkets
<1>2. \A c \in Builders : c # b => idx'[c] = idx[c]
  BY DEF MasterIInv, ReaderOK, Read
<1>3. idx'[b] = idx[b] \/ idx'[b] = AddAll(idx[b], Sources[reading[b]])
  BY DEF MasterIInv, ReaderOK, Read
<1>4. Consistent(idx'[b]) /\ Days(idx'[b]) \subseteq Days(idx[b]) \cup {today}
  BY <1>1, <1>3, AddAllConsistent DEF MasterIInv, ReaderOK
<1>5. ReaderOK'
  <2>1. IsMap(idx') /\ DOMAIN idx' = Builders
    BY DEF MasterIInv, ReaderOK, IsMap, Read
  <2>2. reading' \in [Builders -> 1..(Len(Sources) + 1)] /\ reading'[b] = reading[b] + 1
    BY <1>1, LengthIsNatural DEF MasterIInv, ReaderOK, Read
  <2>3. \A c \in Builders : doing'[c] = "build" => reading'[c] <= Len(Sources)
    BY <1>1, <2>2, LengthIsNatural DEF MasterIInv, ReaderOK, Read, Do
  <2> QED BY <2>1, <2>2, <2>3 DEF MasterIInv, ReaderOK, Read, Do
<1>6. \A c \in Builders : Builds(c)' <=> Builds(c)
  BY DEF MasterIInv, ReaderOK, Read, Do, Builds
<1>7. BuildsAlone'
  BY <1>6 DEF MasterIInv, Read, BuildsAlone
<1>8. \A c \in Builders : Consistent(idx'[c])
  BY <1>2, <1>4 DEF MasterIInv
<1>9. masterSymbols' = masterSymbols /\ today' = today
  BY DEF Read
<1>10. DaysOK'
  <2>1. \A c \in Builders : Builds(c) => c = b
    BY <1>1 DEF MasterIInv, BuildsAlone
  <2>2. today \in Nat
    BY DEF MasterIInv, ReaderOK
  <2> QED BY <1>1, <1>2, <1>4, <1>6, <1>9, <2>1, <2>2 DEF MasterIInv, DaysOK
<1> QED BY <1>5, <1>7, <1>8, <1>9, <1>10 DEF MasterIInv

LEMMA InstallStep ==
  ASSUME MasterIInv, NEW b \in Builders, Install(b)
  PROVE  MasterIInv'
<1>1. doing[b] = "install" /\ Builds(b)
  BY DEF Install, Builds
<1>2. /\ idx'[b] = Empty /\ Consistent(Empty) /\ Days(Empty) = {}
      /\ \A c \in Builders : c # b => idx'[c] = idx[c]
  BY EmptyConsistent DEF MasterIInv, ReaderOK, Install
<1>3. masterSymbols' = masterSymbols \/ masterSymbols' = idx[b]
  BY DEF Install
<1>4. ReaderOK'
  <2>1. IsMap(idx') /\ DOMAIN idx' = Builders
    BY DEF MasterIInv, ReaderOK, IsMap, Install
  <2>2. reading' \in [Builders -> 1..(Len(Sources) + 1)]
    BY LengthIsNatural DEF MasterIInv, ReaderOK, Install
  <2>3. \A c \in Builders : doing'[c] = "build" => reading'[c] <= Len(Sources)
    BY LengthIsNatural DEF MasterIInv, ReaderOK, Install, Do
  <2> QED BY <2>1, <2>2, <2>3 DEF MasterIInv, ReaderOK, Install, Do
<1>5. \A c \in Builders : ~Builds(c)'
  BY <1>1 DEF MasterIInv, ReaderOK, BuildsAlone, Builds, Install, Do
<1>6. BuildsAlone'
  BY <1>5 DEF BuildsAlone
<1>7. Consistent(masterSymbols') /\ \A c \in Builders : Consistent(idx'[c])
  BY <1>2, <1>3 DEF MasterIInv
<1>8. DaysOK'
  <2>1. today' = today
    BY DEF Install
  <2> QED BY <1>2, <1>3, <1>5, <2>1 DEF MasterIInv, DaysOK
<1> QED BY <1>4, <1>6, <1>7, <1>8 DEF MasterIInv

LEMMA MasterIInvNext ==
  ASSUME MasterIInv, [MasterNext]_masterVars
  PROVE  MasterIInv'
<1> QED BY MasterIInvStutter, PublishStep, BeginStep, SpareStep, ReadStep, InstallStep, TickerStep
        DEF MasterNext

\* A lookup in an index whose maps say the same is right.
LEMMA ConsistentLookup ==
  ASSUME NEW i, Consistent(i)
  PROVE  LookupIsRight(i)
<1> DEFINE In(m, s) == <<m, s>> \in DOMAIN i.byMarketSymbol
           Home(m) == CASE m \in Domestic \cup {""} -> Domestic
                        [] m \in American -> American
                        [] OTHER -> {}
<1> SUFFICES ASSUME NEW name \in MarketNames, NEW s \in Symbols
             PROVE  LET rec == LookupMasterSymbol(i, name, s)
                        m == canonicalLookupMarket(name)
                    IN  /\ rec = NoRecord <=> \A n \in Markets : ~In(n, s)
                        /\ rec # NoRecord => rec.symbol = s /\ i.byMarketSymbol[<<rec.market, s>>] = rec
                        /\ m \in Markets /\ In(m, s) => rec.market = m
                        /\ (\E n \in Home(m) : In(n, s)) => rec.market \in Home(m)
  BY DEF LookupIsRight
<1> DEFINE rec == LookupMasterSymbol(i, name, s)
           m == canonicalLookupMarket(name)
           home == Home(m)
           by == i.byMarketSymbol
<1>1. \A n : In(n, s) => /\ n \in Markets /\ n # ""
                         /\ by[<<n, s>>] \in Records
                         /\ by[<<n, s>>].market = n /\ by[<<n, s>>].symbol = s
  <2> SUFFICES ASSUME NEW n, In(n, s)
               PROVE  /\ n \in Markets /\ n # ""
                      /\ by[<<n, s>>] \in Records
                      /\ by[<<n, s>>].market = n /\ by[<<n, s>>].symbol = s
    OBVIOUS
  <2>1. <<n, s>>[1] = n /\ <<n, s>>[2] = s
    OBVIOUS
  <2>2. <<n, s>> \in Markets \X Symbols
    BY DEF Consistent
  <2>3. n \in Markets /\ n # ""
    BY <2>2, SourcesAreMarkets
  <2> DEFINE k == <<n, s>>
  <2>4. k \in DOMAIN i.byMarketSymbol
    OBVIOUS
  <2> HIDE DEF k
  <2>5. by[k] \in Records /\ by[k].market = k[1] /\ by[k].symbol = k[2]
    BY <2>4 DEF Consistent
  <2> QED BY <2>1, <2>3, <2>5 DEF k
<1>2. \A r \in Records : r # NoRecord
  <2>1. \A r \in Records : r.day \in 1..LastDay
    BY DEF Records
  <2>2. NoRecord.day = 0
    BY DEF NoRecord
  <2> QED BY <2>1, <2>2, LengthIsNatural
<1>3. ASSUME NEW map, NEW markets, SameAs(map, i, markets)
      PROVE  /\ s \in DOMAIN map <=> \E n \in Markets \cap markets : In(n, s)
             /\ s \in DOMAIN map => /\ map[s].market \in Markets \cap markets
                                    /\ In(map[s].market, s)
                                    /\ map[s] = by[<<map[s].market, s>>]
                                    /\ map[s].symbol = s
                                    /\ map[s] # NoRecord
  <2>1. s \in DOMAIN map => /\ map[s].market \in Markets \cap markets
                            /\ In(map[s].market, s)
                            /\ map[s] = by[<<map[s].market, s>>]
    BY <1>3 DEF SameAs
  <2>2. s \in DOMAIN map <=> \E n \in Markets \cap markets : In(n, s)
    BY <1>3 DEF SameAs
  <2> QED BY <1>1, <1>2, <2>1, <2>2
<1>4. SameAs(i.domesticBySym, i, Domestic) /\ SameAs(i.usBySym, i, American) /\ SameAs(i.anyBySym, i, Markets)
  BY DEF Consistent
<1>5. /\ m \in Domestic \cup {""} => home = Domestic
      /\ m \in American => home = American
      /\ m \notin Domestic \cup {""} \cup American => home = {}
  BY DEF Domestic, American
<1>6. "" \notin Domestic /\ "" \notin American /\ Domestic \cap American = {}
  BY DEF Domestic, American
<1>7. rec = IF m # "" /\ In(m, s) THEN by[<<m, s>>]
            ELSE IF (m = "" \/ m \in Domestic) /\ s \in DOMAIN i.domesticBySym THEN i.domesticBySym[s]
            ELSE IF m \in American /\ s \in DOMAIN i.usBySym THEN i.usBySym[s]
            ELSE IF s \in DOMAIN i.anyBySym THEN i.anyBySym[s]
            ELSE NoRecord
  BY DEF LookupMasterSymbol
<1>8. /\ rec = NoRecord <=> \A n \in Markets : ~In(n, s)
      /\ rec # NoRecord => rec.symbol = s /\ by[<<rec.market, s>>] = rec
      /\ m \in Markets /\ In(m, s) => rec.market = m
      /\ (\E n \in home : In(n, s)) => rec.market \in home
  <2> HIDE DEF rec, m, home, by
  <2>1. CASE In(m, s)
    <3>1. rec = by[<<m, s>>] /\ rec.market = m /\ rec.symbol = s /\ rec # NoRecord /\ m \in Markets
      BY <1>1, <1>2, <1>7, <2>1
    <3>2. home # {} => m \in home
      BY <1>1, <1>5, <2>1
    <3>3. (\E n \in home : In(n, s)) => rec.market \in home
      BY <3>1, <3>2
    <3> QED BY <2>1, <3>1, <3>3
  <2>2. CASE ~In(m, s) /\ (m = "" \/ m \in Domestic) /\ s \in DOMAIN i.domesticBySym
    <3>1. rec = i.domesticBySym[s]
      BY <1>7, <2>2
    <3>2. /\ rec.market \in Markets \cap Domestic /\ In(rec.market, s)
          /\ rec = by[<<rec.market, s>>] /\ rec.symbol = s /\ rec # NoRecord
      BY <1>3, <1>4, <2>2, <3>1
    <3> QED BY <1>5, <2>2, <3>2
  <2>3. CASE ~In(m, s) /\ m \in American /\ s \in DOMAIN i.usBySym
    <3>1. rec = i.usBySym[s]
      BY <1>6, <1>7, <2>3
    <3>2. /\ rec.market \in Markets \cap American /\ In(rec.market, s)
          /\ rec = by[<<rec.market, s>>] /\ rec.symbol = s /\ rec # NoRecord
      BY <1>3, <1>4, <2>3, <3>1
    <3> QED BY <1>5, <2>3, <3>2
  <2>4. CASE /\ ~In(m, s)
             /\ ~((m = "" \/ m \in Domestic) /\ s \in DOMAIN i.domesticBySym)
             /\ ~(m \in American /\ s \in DOMAIN i.usBySym)
    <3>1. rec = IF s \in DOMAIN i.anyBySym THEN i.anyBySym[s] ELSE NoRecord
      BY <1>7, <2>4
    <3>2. ~\E n \in home : In(n, s)
      BY <1>1, <1>3, <1>4, <1>5, <2>4
    <3>3. s \in DOMAIN i.anyBySym =>
            /\ In(i.anyBySym[s].market, s) /\ i.anyBySym[s].market \in Markets
            /\ i.anyBySym[s] = by[<<i.anyBySym[s].market, s>>]
            /\ i.anyBySym[s].symbol = s /\ i.anyBySym[s] # NoRecord
      BY <1>3, <1>4
    <3>4. s \in DOMAIN i.anyBySym <=> \E n \in Markets : In(n, s)
      BY <1>3, <1>4
    <3> QED BY <2>4, <3>1, <3>2, <3>3, <3>4
  <2> QED BY <2>1, <2>2, <2>3, <2>4
<1> QED BY <1>8

\* A step keeps what is served, or installs an index that is not empty, and nothing in
\* what was served is of a later day than anything in it.
LEMMA ServedStep ==
  ASSUME MasterIInv, [MasterNext]_masterVars, masterSymbols' # masterSymbols
  PROVE  NothingOlder /\ LookupIsRight(masterSymbols')
<1>1. PICK b \in Builders : Install(b) /\ idx[b] # Empty /\ masterSymbols' = idx[b]
  <2>1. \E b \in Builders : Install(b)
    BY DEF MasterNext, masterVars, Publish, Begin, BeginUnguarded, Spare, Read, Ticker
  <2> QED BY <2>1 DEF Install
<1>2. Consistent(masterSymbols) /\ Consistent(idx[b])
  BY DEF MasterIInv
<1>3. Builds(b)
  BY <1>1 DEF Install, Builds
<1>4. \A d \in Days(masterSymbols), e \in Days(idx[b]) : d <= e
  BY <1>3 DEF MasterIInv, DaysOK
<1>5. idx[b].byMarketSymbol # NoMap
  BY <1>1, <1>2, ConsistentIndex
<1>6. \A k \in DOMAIN masterSymbols.byMarketSymbol : masterSymbols.byMarketSymbol[k].day \in Days(masterSymbols)
  BY DEF Days
<1>7. \A k \in DOMAIN idx[b].byMarketSymbol : idx[b].byMarketSymbol[k].day \in Days(idx[b])
  BY DEF Days
<1>8. NothingOlder
  BY <1>1, <1>4, <1>5, <1>6, <1>7 DEF NothingOlder
<1>9. LookupIsRight(masterSymbols')
  BY <1>1, <1>2, ConsistentLookup
<1> QED BY <1>8, <1>9

\* The index and what the builders keep have their types.
THEOREM MasterSymbolsTypes == MasterSpec => []MasterTypeOK
<1>1. MasterInit => MasterIInv
  BY MasterIInvInit
<1>2. MasterIInv /\ [MasterNext]_masterVars => MasterIInv'
  BY MasterIInvNext
<1>3. MasterIInv => MasterTypeOK
  BY MasterTypes
<1> QED BY <1>1, <1>2, <1>3, PTL DEF MasterSpec

\* What is served is only ever replaced by an index that is not empty, has no record of an
\* earlier day than one it replaces and answers every lookup rightly, whatever the
\* accounts, the files and the order in which the goroutines come.
THEOREM MasterSymbolsNeverOlder == MasterSpec => MasterNeverOlder
<1>1. MasterInit => MasterIInv
  BY MasterIInvInit
<1>2. MasterIInv /\ [MasterNext]_masterVars => MasterIInv'
  BY MasterIInvNext
<1>3. MasterIInv /\ [MasterNext]_masterVars
        => [masterSymbols' # masterSymbols => NothingOlder /\ LookupIsRight(masterSymbols')]_masterVars
  BY ServedStep
<1> QED BY <1>1, <1>2, <1>3, PTL DEF MasterSpec, MasterNeverOlder

-----------------------------------------------------------------------------
(* Requests, accounts and brokers.                                         *)

LEMMA KISSent ==
  ASSUME NEW w, NEW sandbox \in BOOLEAN, NEW sent \in callKISEndpoint(w, sandbox)
  PROVE  SentAsDocumented("kis", sandbox, w, sent)
<1>1. PICK e \in endpoints("kis") :
        /\ e.path = w.path /\ w.method \in {"", e.method} /\ e.required \subseteq w.given \cup w.blank
        /\ sent = Sent(e.path, IF w.api = "" THEN ResolveTRID(e, sandbox) ELSE w.api, e.method,
                       w.given \cup w.blank)
  BY DEF callKISEndpoint
<1>2. /\ sent.path = e.path /\ sent.method = e.method /\ sent.fields = w.given \cup w.blank
      /\ sent.id = IF w.api = "" THEN ResolveTRID(e, sandbox) ELSE w.api
  BY <1>1 DEF Sent
<1>3. e.rest /\ e.path # "/oauth2/token" BY TablesAssumption DEF endpoints
<1>4. sent.id = (IF w.api # "" THEN w.api
                 ELSE IF e.virtual # "" /\ (sandbox \/ e.id = "") THEN e.virtual
                 ELSE e.id)
  BY <1>2 DEF ResolveTRID
<1>5. \A f \in e.required : f \in sent.fields BY <1>1, <1>2
<1> QED BY <1>1, <1>2, <1>3, <1>4, <1>5 DEF SentAsDocumented

LEMMA KiwoomSent ==
  ASSUME NEW w, NEW sandbox, NEW sent \in callKiwoomEndpoint(w)
  PROVE  SentAsDocumented("kiwoom", sandbox, w, sent)
<1> DEFINE method == IF w.method = "" THEN "POST" ELSE w.method
<1>1. PICK e \in endpoints("kiwoom") :
        /\ e.path = w.path /\ e.id = w.api /\ e.method = method
        /\ requestOf(e).checked \subseteq w.given
        /\ sent = Sent(e.path, e.id, method, w.given \cup requestOf(e).filled)
  BY DEF callKiwoomEndpoint
<1>2. /\ sent.path = e.path /\ sent.method = e.method /\ sent.id = e.id
      /\ sent.fields = w.given \cup requestOf(e).filled
  BY <1>1 DEF Sent
<1>3. e.rest /\ e.path # "/oauth2/token" BY TablesAssumption DEF endpoints
<1>4. w.method \in {"", sent.method} BY <1>1, <1>2
<1>5. ASSUME NEW f \in e.required
      PROVE  f \in sent.fields \/ <<e.id, f>> \in Unchecked
  <2>1. CASE e.id \in DOMAIN coreOverrides
    <3>1. f \in requestOf(e).checked \cup requestOf(e).filled \/ <<e.id, f>> \in Unchecked
      BY <2>1, TablesAssumption
    <3> QED BY <1>1, <1>2, <3>1
  <2>2. CASE e.id \notin DOMAIN coreOverrides
    <3>1. requestOf(e) = documentedRequest(e) BY <2>2 DEF requestOf
    <3>2. requestOf(e).checked = e.required \ applyDocumentedDefaults(e)
            /\ requestOf(e).filled = applyDocumentedDefaults(e)
      BY <3>1 DEF documentedRequest, Typed
    <3> QED BY <1>1, <1>2, <3>2
  <2> QED BY <2>1, <2>2
<1> QED BY <1>1, <1>2, <1>3, <1>4, <1>5 DEF SentAsDocumented

LEMMA LSSent ==
  ASSUME NEW w, NEW sandbox, NEW sent \in callLSEndpoint(w)
  PROVE  SentAsDocumented("ls", sandbox, w, sent)
<1> DEFINE method == IF w.method = "" THEN "POST" ELSE w.method
<1>1. PICK e \in endpoints("ls") :
        /\ e.path = w.path /\ e.id = w.api /\ e.path # "/oauth2/token" /\ e.rest
        /\ e.method = method /\ fieldsComplete(e, w)
        /\ sent = Sent(e.path, e.id, method, w.given \cup w.blank)
  BY DEF callLSEndpoint
<1>2. /\ sent.path = e.path /\ sent.method = e.method /\ sent.id = e.id
      /\ sent.fields = w.given \cup w.blank
  BY <1>1 DEF Sent
<1>3. w.method \in {"", sent.method} BY <1>1, <1>2
<1>4. \A f \in e.required : f \in sent.fields \/ f \in isOptionalContinuationField
  BY <1>1, <1>2 DEF fieldsComplete
<1> QED BY <1>1, <1>2, <1>3, <1>4 DEF SentAsDocumented

LEMMA TossSent ==
  ASSUME NEW w, NEW sandbox, NEW sent \in callTossEndpoint(w)
  PROVE  SentAsDocumented("toss", sandbox, w, sent)
<1>1. PICK e \in LookupDocumentedEndpointSpec(w) :
        /\ e.path # "/oauth2/token"
        /\ sent = Sent(e.path, "", e.method, w.given \cup w.blank)
  BY DEF callTossEndpoint
<1>2. e \in endpoints("toss") /\ e.path = w.path /\ w.method \in {"", e.method}
  BY DEF LookupDocumentedEndpointSpec
<1>3. sent.path = e.path /\ sent.method = e.method /\ sent.id = "" BY <1>1 DEF Sent
<1>4. e.rest BY <1>2, TablesAssumption DEF endpoints
<1> QED BY <1>1, <1>2, <1>3, <1>4 DEF SentAsDocumented

LEMMA Smallest ==
  ASSUME NEW S, S \subseteq Nat, S # {}
  PROVE  \E m \in S : \A k \in S : m <= k
<1> DEFINE T == {0..m : m \in S}
<1>1. T \subseteq FiniteSubsetsOf(Nat)
  <2> SUFFICES ASSUME NEW t \in T PROVE t \in FiniteSubsetsOf(Nat) OBVIOUS
  <2>1. PICK m \in S : t = 0..m OBVIOUS
  <2>2. m \in Nat OBVIOUS
  <2>3. IsFiniteSet(0..m) BY <2>2, FS_Interval
  <2>4. IsFiniteSet(t) /\ t \subseteq Nat BY <2>1, <2>2, <2>3
  <2> QED BY <2>4 DEF FiniteSubsetsOf
<1>2. T # {} OBVIOUS
<1>3. IsWellFoundedOn(StrictSubsetOrdering(Nat), FiniteSubsetsOf(Nat))
  BY FS_StrictSubsetOrderingWellFounded
<1>4. PICK x \in T : \A y \in T : <<y, x>> \notin StrictSubsetOrdering(Nat)
  <2> HIDE DEF T
  <2> QED BY <1>1, <1>2, <1>3, WFMin
<1>5. PICK m \in S : x = 0..m OBVIOUS
<1>6. ASSUME NEW k \in S, k < m PROVE FALSE
  <2>1. 0..k \in T OBVIOUS
  <2>2. 0..k \subseteq Nat /\ 0..m \subseteq Nat /\ 0..k \subseteq 0..m BY <1>6
  <2>3. m \in 0..m /\ m \notin 0..k BY <1>6
  <2>4. <<0..k, 0..m>> \in StrictSubsetOrdering(Nat) BY <2>2, <2>3 DEF StrictSubsetOrdering
  <2> QED BY <2>1, <2>4, <1>4, <1>5
<1> QED BY <1>6

\* Induction over the natural numbers, for what a set can say.
LEMMA Induction ==
  ASSUME NEW S, 0 \in S, \A n \in Nat : n \in S => n + 1 \in S
  PROVE  Nat \subseteq S
<1> DEFINE U == Nat \ S
<1>1. SUFFICES ASSUME U # {} PROVE FALSE OBVIOUS
<1>2. PICK m \in U : \A k \in U : m <= k
  <2>1. U \subseteq Nat OBVIOUS
  <2> HIDE DEF U
  <2> QED BY <1>1, <2>1, Smallest
<1>3. m # 0 /\ m - 1 \in Nat BY <1>2
<1>4. m - 1 \in S BY <1>2, <1>3
<1> QED BY <1>2, <1>3, <1>4

-----------------------------------------------------------------------------
\* An account and its broker are of one kind, practice or not.
ConfigOK ==
  /\ accounts \in Seq(Configured)
  /\ IsFiniteSet(DOMAIN brokers) /\ DOMAIN brokers \subseteq Ids
  /\ \A own \in DOMAIN brokers : brokers[own].sandbox \in BOOLEAN
  /\ \A i \in DOMAIN accounts : accounts[i].id \in DOMAIN brokers =>
       /\ brokers[accounts[i].id].code = accounts[i].code
       /\ brokers[accounts[i].id].sandbox = accounts[i].sandbox

\* own is the account that id names: itself, or the only one it may stand for.
Named(own, id) ==
  /\ own \in DOMAIN brokers
  /\ IF id \in DOMAIN brokers THEN own = id
     ELSE \A o \in DOMAIN brokers : sameAccountID(o, id) <=> o = own

LEMMA IdFields ==
  /\ \A b, s : Id(b, s).base = b /\ Id(b, s).suffix = s
  /\ \A id \in Ids : id = Id(id.base, id.suffix)
  /\ NoId.base = "" /\ NoId.suffix = ""
<1>1. \A b, s : Id(b, s).base = b /\ Id(b, s).suffix = s BY DEF Id
<1>2. \A id \in Ids : id = Id(id.base, id.suffix) BY DEF Ids, Id
<1>3. NoId.base = "" /\ NoId.suffix = "" BY DEF NoId, Id
<1> QED BY <1>1, <1>2, <1>3

LEMMA IdSuffix == ASSUME NEW id, NEW b, NEW s, id = Id(b, s) PROVE id.suffix = s BY DEF Id

LEMMA SingleCandidate ==
  ASSUME NEW S, IsFiniteSet(S), ~ (Cardinality(S) > 1), NEW x \in S
  PROVE  S = {x}
<1>1. Cardinality(S) \in Nat BY FS_CardinalityType
<1>2. Cardinality(S) # 0 BY FS_EmptySet
<1>3. Cardinality(S) = 1 BY <1>1, <1>2
<1>4. \E y : S = {y} BY <1>3, FS_Singleton
<1> QED BY <1>4

LEMMA ResolveIs ==
  ASSUME ConfigOK, NEW id
  PROVE  LET dest == resolveBrokerByAccountID(id)
         IN  /\ dest.status \in {0, 400, 404}
             /\ dest.status = 0 => Named(dest.own, id)
             /\ id \in DOMAIN brokers => id = NoId \/ dest = To(id)
             /\ id = NoId => dest = Refuse(400)
<1> DEFINE dest == resolveBrokerByAccountID(id)
           candidates == findBrokerAccountCandidates(id)
<1>0. /\ \A s : Refuse(s).status = s
      /\ \A o : To(o).status = 0 /\ To(o).own = o
  BY DEF Refuse, To
<1>1. candidates = {own \in DOMAIN brokers : sameAccountID(own, id)}
  BY DEF findBrokerAccountCandidates
<1>2. IsFiniteSet(candidates)
  <2>1. candidates \in SUBSET (DOMAIN brokers) BY <1>1
  <2> HIDE DEF candidates
  <2> QED BY <2>1, FS_Subset DEF ConfigOK
<1>3. CASE id = NoId
  <2>1. candidates = {} BY <1>1, <1>3 DEF sameAccountID
  <2>2. ~ (Cardinality(candidates) > 1) BY <2>1, FS_EmptySet
  <2>3. dest = Refuse(400) BY <1>3, <2>2 DEF resolveBrokerByAccountID, resolveFirst
  <2> QED BY <1>0, <2>3, <1>3
<1>4. CASE id # NoId /\ id \in DOMAIN brokers
  <2>1. dest = To(id) BY <1>4 DEF resolveBrokerByAccountID, resolveFirst
  <2> QED BY <1>0, <1>4, <2>1 DEF Named
<1>5. CASE id # NoId /\ id \notin DOMAIN brokers /\ Cardinality(candidates) > 1
  <2>1. dest = Refuse(400) BY <1>5 DEF resolveBrokerByAccountID
  <2> QED BY <1>0, <1>5, <2>1
<1>6. CASE id # NoId /\ id \notin DOMAIN brokers /\ ~ (Cardinality(candidates) > 1)
  <2>1. dest = IF candidates = {} THEN Refuse(404) ELSE To(CHOOSE own \in candidates : TRUE)
    BY <1>6 DEF resolveBrokerByAccountID, resolveFirst
  <2>2. CASE candidates = {} BY <1>0, <1>6, <2>1, <2>2
  <2>3. CASE candidates # {}
    <3> DEFINE own == CHOOSE own \in candidates : TRUE
    <3>1. own \in candidates BY <2>3
    <3>2. dest = To(own) BY <2>1, <2>3
    <3> HIDE DEF own, candidates
    <3>3. candidates = {own} BY <1>2, <1>6, <3>1, SingleCandidate
    <3>4. Named(own, id) BY <1>1, <1>6, <3>3 DEF Named
    <3> QED BY <1>0, <1>6, <3>2, <3>4
  <2> QED BY <2>2, <2>3
<1> QED BY <1>3, <1>4, <1>5, <1>6

LEMMA SameBase ==
  ASSUME NEW a \in Ids, NEW b \in Ids, sameAccountID(a, b) PROVE a.base = b.base
<1>1. normalizeAccountIDAlias(a).base = a.base /\ normalizeAccountIDAlias(b).base = b.base
  BY IdFields DEF normalizeAccountIDAlias
<1> QED BY <1>1 DEF sameAccountID

LEMMA NamedBase ==
  ASSUME ConfigOK, NEW id \in Ids, NEW own, Named(own, id) PROVE own \in Ids /\ own.base = id.base
<1>1. own \in DOMAIN brokers /\ own \in Ids BY DEF Named, ConfigOK
<1> QED BY <1>1, SameBase DEF Named

LEMMA TouchedIs ==
  ASSUME ConfigOK, NEW id \in Ids, id # NoId, NEW own, Named(own, id)
  PROVE  /\ Touched(own, id).base = id.base /\ Touched(own, NoId).base = id.base
         /\ brokers[own].code = "kis" /\ id.suffix # "" => Touched(own, id) = id
<1>1. own \in Ids /\ own.base = id.base BY NamedBase
<1>2. parseAccountID(own, id).base = id.base /\ parseAccountID(own, NoId).base = id.base
  BY <1>1, IdFields DEF parseAccountID
<1>3. ASSUME id.suffix # "" PROVE parseAccountID(own, id) = id
  <2> DEFINE product == IF own.suffix = "" THEN "01" ELSE own.suffix
  <2>1. id # Id(own.base, "") BY <1>3, IdSuffix
  <2>2. id = Id(id.base, id.suffix) BY IdFields
  <2>3. CASE id = Id(own.base, product) BY <2>3 DEF parseAccountID
  <2>4. CASE id # Id(own.base, product)
    <3>1. id \notin {NoId, Id(own.base, ""), Id(own.base, product)} BY <2>1, <2>4
    <3> QED BY <1>3, <2>2, <3>1 DEF parseAccountID
  <2> QED BY <2>3, <2>4
<1> QED BY <1>1, <1>2, <1>3 DEF Touched

-----------------------------------------------------------------------------
(* Brokers that are found by what the configuration says of them.          *)

LEMMA FirstAccountIs ==
  ASSUME ConfigOK, NEW wanted \in SUBSET (DOMAIN accounts)
  PROVE  LET dest == FirstAccount(wanted)
         IN  /\ dest.status \in {0, 503}
             /\ dest.status = 0 =>
                  \E i \in wanted : dest = resolveBrokerByAccountID(accounts[i].id)
             /\ dest.status = 0 <=> \E i \in wanted : Resolved(accounts[i].id)
<1> DEFINE found == {i \in wanted : Resolved(accounts[i].id)}
           first == CHOOSE i \in found : \A j \in found : i <= j
           dest == FirstAccount(wanted)
<1>0. Refuse(503).status = 503 BY DEF Refuse
<1>1. CASE found = {} 
  <2>1. dest = Refuse(503) BY <1>1 DEF FirstAccount
  <2> QED BY <1>0, <1>1, <2>1
<1>2. CASE found # {}
  <2>1. found \subseteq Nat BY DEF ConfigOK
  <2>2. \E m \in found : \A k \in found : m <= k
    <3> HIDE DEF found
    <3> QED BY <1>2, <2>1, Smallest
  <2>3. first \in found
    <3> HIDE DEF found
    <3> QED BY <2>2
  <2>4. dest = resolveBrokerByAccountID(accounts[first].id) BY <1>2 DEF FirstAccount
  <2> HIDE DEF first
  <2>5. first \in wanted /\ dest.status = 0 BY <2>3, <2>4 DEF Resolved
  <2> QED BY <2>3, <2>4, <2>5
<1> QED BY <1>1, <1>2

\* With a broker for every account, every account is found under its own id.
LEMMA WiredIs ==
  ASSUME ConfigOK, Wired, NEW i \in DOMAIN accounts
  PROVE  LET dest == resolveBrokerByAccountID(accounts[i].id)
         IN  /\ dest.status = 0 /\ dest.own = accounts[i].id
             /\ brokers[dest.own].code = accounts[i].code
             /\ brokers[dest.own].sandbox = accounts[i].sandbox
<1>1. accounts[i].id \in DOMAIN brokers /\ accounts[i].id # NoId BY DEF Wired
<1>3. resolveBrokerByAccountID(accounts[i].id) = To(accounts[i].id) BY <1>1, ResolveIs
<1> QED BY <1>1, <1>3 DEF To, ConfigOK

LEMMA RefuseIs ==
  /\ \A s : Refuse(s).status = s /\ Refuse(s).own = NoId
  /\ \A o : To(o).status = 0 /\ To(o).own = o
BY DEF Refuse, To

LEMMA FirstBrokerIs ==
  ASSUME ConfigOK
  PROVE  /\ getFirstBroker.status \in {0, 503}
         /\ getFirstBroker.status = 0 => getFirstBroker.own \in DOMAIN brokers
<1>1. CASE accounts # <<>> /\ Resolved(accounts[1].id)
  <2>1. getFirstBroker = resolveBrokerByAccountID(accounts[1].id) BY <1>1 DEF getFirstBroker
  <2>2. resolveBrokerByAccountID(accounts[1].id).status = 0 BY <1>1 DEF Resolved
  <2>3. Named(getFirstBroker.own, accounts[1].id) BY <2>1, <2>2, ResolveIs
  <2> QED BY <2>1, <2>2, <2>3 DEF Named
<1>2. CASE ~ (accounts # <<>> /\ Resolved(accounts[1].id)) /\ DOMAIN brokers = {}
  <2>1. getFirstBroker = Refuse(503) BY <1>2 DEF getFirstBroker
  <2> QED BY <2>1 DEF Refuse
<1>3. CASE ~ (accounts # <<>> /\ Resolved(accounts[1].id)) /\ DOMAIN brokers # {}
  <2>1. getFirstBroker = To(CHOOSE own \in DOMAIN brokers : TRUE) BY <1>3 DEF getFirstBroker
  <2>2. (CHOOSE own \in DOMAIN brokers : TRUE) \in DOMAIN brokers BY <1>3
  <2> QED BY <2>1, <2>2, RefuseIs
<1> QED BY <1>1, <1>2, <1>3

LEMMA FoundIs ==
  ASSUME ConfigOK, NEW wanted \in SUBSET (DOMAIN accounts), FirstAccount(wanted).status = 0
  PROVE  LET dest == FirstAccount(wanted)
         IN  /\ dest.own \in DOMAIN brokers
             /\ Wired => \E i \in wanted : /\ brokers[dest.own].code = accounts[i].code
                                           /\ brokers[dest.own].sandbox = accounts[i].sandbox
<1> DEFINE dest == FirstAccount(wanted)
<1>1. PICK i \in wanted : dest = resolveBrokerByAccountID(accounts[i].id) BY FirstAccountIs
<1>2. Named(dest.own, accounts[i].id) BY <1>1, ResolveIs
<1>3. ASSUME Wired
      PROVE  brokers[dest.own].code = accounts[i].code /\ brokers[dest.own].sandbox = accounts[i].sandbox
  BY <1>1, <1>3, WiredIs
<1> QED BY <1>2, <1>3 DEF Named

\* A broker that a login of r may be brought to.
Suits(own, r) ==
  /\ own \in DOMAIN brokers
  /\ Wired /\ r.code # "" =>
       /\ brokers[own].code = r.code
       /\ \/ brokers[own].sandbox = r.sandbox
          \/ \A i \in DOMAIN accounts :
               accounts[i].code = r.code => accounts[i].sandbox # r.sandbox

LEMMA AuthIs ==
  ASSUME ConfigOK, NEW r, NEW dest, dest = resolveAuthBroker(r.code, r.sandbox)
  PROVE  dest.status \in {0, 400, 503} /\ (dest.status = 0 => Suits(dest.own, r))
<1> DEFINE code == r.code
           sandbox == r.sandbox
           all == AccountsOf(code)
           wanted == {i \in all : accounts[i].sandbox = sandbox}
           named == {own \in DOMAIN brokers : brokers[own].code = code}
<1>0. /\ all = {i \in DOMAIN accounts : accounts[i].code = code}
      /\ all \in SUBSET (DOMAIN accounts) /\ wanted \in SUBSET (DOMAIN accounts)
  BY DEF AccountsOf
<1>1. CASE code = ""
  <2>1. code \in Codes \cup {""} /\ code \notin Codes BY <1>1 DEF Codes
  <2>2. dest = getFirstBroker BY <1>1, <2>1 DEF resolveAuthBroker
  <2>3. dest.status \in {0, 503} /\ (dest.status = 0 => dest.own \in DOMAIN brokers)
    BY <2>2, FirstBrokerIs
  <2>4. dest.status = 0 => Suits(dest.own, r) BY <1>1, <2>3 DEF Suits
  <2> QED BY <2>3, <2>4
<1>2. CASE code \notin Codes \cup {""}
  <2>1. dest = Refuse(400) BY <1>2 DEF resolveAuthBroker
  <2> QED BY <2>1, RefuseIs DEF Refuse
<1>3. CASE code \in Codes /\ FirstAccount(all).status = 0
  <2>1. code # "" BY <1>3 DEF Codes
  <2>2. dest = IF FirstAccount(wanted).status = 0 THEN FirstAccount(wanted) ELSE FirstAccount(all)
    BY <1>3, <2>1 DEF resolveAuthBroker
  <2>3. CASE FirstAccount(wanted).status = 0
    <3>1. dest = FirstAccount(wanted) BY <2>2, <2>3
    <3>2. dest.own \in DOMAIN brokers BY <1>0, <2>3, <3>1, FoundIs
    <3>3. ASSUME Wired PROVE brokers[dest.own].code = code /\ brokers[dest.own].sandbox = sandbox
      <4>1. PICK i \in wanted : /\ brokers[dest.own].code = accounts[i].code
                                /\ brokers[dest.own].sandbox = accounts[i].sandbox
        <5> HIDE DEF wanted
        <5> QED BY <1>0, <2>3, <3>1, <3>3, FoundIs
      <4> QED BY <4>1, <1>0
    <3> QED BY <2>3, <3>1, <3>2, <3>3 DEF Suits
  <2>4. CASE FirstAccount(wanted).status # 0
    <3>1. dest = FirstAccount(all) BY <2>2, <2>4
    <3>2. dest.own \in DOMAIN brokers BY <1>0, <1>3, <3>1, FoundIs
    <3>3. ASSUME Wired
          PROVE  /\ brokers[dest.own].code = code
                 /\ \A i \in DOMAIN accounts : accounts[i].code = code => accounts[i].sandbox # sandbox
      <4>1. PICK i \in all : brokers[dest.own].code = accounts[i].code
        <5> HIDE DEF all
        <5> QED BY <1>0, <1>3, <3>1, <3>3, FoundIs
      <4>2. \A j \in wanted : Resolved(accounts[j].id) BY <3>3, <1>0, WiredIs DEF Resolved
      <4>3. wanted = {}
        <5> HIDE DEF wanted
        <5> QED BY <1>0, <2>4, <4>2, FirstAccountIs
      <4> QED BY <4>1, <4>3, <1>0
    <3> QED BY <1>3, <3>1, <3>2, <3>3 DEF Suits
  <2> QED BY <2>3, <2>4
<1>4. CASE code \in Codes /\ FirstAccount(all).status # 0
  <2>1. code # "" BY <1>4 DEF Codes
  <2>2. dest = IF named = {} THEN Refuse(503) ELSE To(CHOOSE own \in named : TRUE)
    BY <1>4, <2>1 DEF resolveAuthBroker
  <2>3. CASE named = {} BY <2>2, <2>3, RefuseIs DEF Refuse
  <2>4. CASE named # {}
    <3> DEFINE own == CHOOSE own \in named : TRUE
    <3>1. own \in named BY <2>4
    <3>2. dest = To(own) BY <2>2, <2>4
    <3> HIDE DEF own
    <3>3. dest.status = 0 /\ dest.own = own BY <3>2, RefuseIs
    <3>4. ASSUME Wired
          PROVE  \A i \in DOMAIN accounts : accounts[i].code # code
      <4>1. \A j \in all : Resolved(accounts[j].id) BY <3>4, <1>0, WiredIs DEF Resolved
      <4>2. all = {}
        <5> HIDE DEF all
        <5> QED BY <1>0, <1>4, <4>1, FirstAccountIs
      <4> QED BY <4>2, <1>0
    <3> QED BY <3>1, <3>3, <3>4 DEF Suits
  <2> QED BY <2>3, <2>4
<1> QED BY <1>1, <1>2, <1>3, <1>4

LEMMA ProxyIs ==
  ASSUME ConfigOK, NEW code, NEW id, NEW dest, dest = resolveProxyBroker(code, id)
  PROVE  /\ dest.status \in {0, 400, 404, 503}
         /\ dest.status = 0 =>
              /\ dest.own \in DOMAIN brokers
              /\ id # NoId => Named(dest.own, id)
              /\ Wired => brokers[dest.own].code = code
<1> DEFINE by == resolveBrokerByAccountID(id)
           all == AccountsOf(code)
<1>1. CASE id = NoId
  <2>1. dest = FirstAccount(all) BY <1>1 DEF resolveProxyBroker
  <2>2. all \in SUBSET (DOMAIN accounts) /\ \A i \in all : accounts[i].code = code BY DEF AccountsOf
  <2> HIDE DEF all
  <2>3. dest.status \in {0, 503} BY <2>1, <2>2, FirstAccountIs
  <2> QED BY <1>1, <2>1, <2>2, <2>3, FoundIs
<1>2. CASE id # NoId /\ by.status = 0 /\ brokers[by.own].code # code
  <2>1. dest = Refuse(400) BY <1>2 DEF resolveProxyBroker
  <2> QED BY <2>1, RefuseIs
<1>3. CASE id # NoId /\ ~ (by.status = 0 /\ brokers[by.own].code # code)
  <2>1. dest = by BY <1>3 DEF resolveProxyBroker
  <2> HIDE DEF by
  <2>2. by.status \in {0, 400, 404} /\ (by.status = 0 => Named(by.own, id)) BY ResolveIs DEF by
  <2> QED BY <1>3, <2>1, <2>2 DEF Named
<1> QED BY <1>1, <1>2, <1>3

-----------------------------------------------------------------------------
\* Where a call goes on is where the request said.
PageOK(page, r) ==
  /\ page.yn \in {"", r.head.yn, r.inBody.yn}
  /\ page.key \in {r.head.key, r.inBody.key}
  /\ r.head.key # "" => page.key = r.head.key

LEMMA NoContPage == ASSUME NEW r, r.head = NoCont, r.inBody = NoCont PROVE PageOK(NoCont, r)
BY DEF PageOK, NoCont, Continuation

LEMMA KiwoomPage ==
  ASSUME NEW r, kiwoomRequestContinuation(r.head, r.inBody) # Refused
  PROVE  PageOK(kiwoomRequestContinuation(r.head, r.inBody), r)
<1> DEFINE c == IF r.inBody = NoBody THEN r.head ELSE r.inBody
           page == kiwoomRequestContinuation(r.head, r.inBody)
<1>1. page = c /\ r.head \in {NoCont, c} BY DEF kiwoomRequestContinuation
<1>2. NoCont.key = "" BY DEF NoCont, Continuation
<1> QED BY <1>1, <1>2 DEF PageOK

LEMMA LSPage ==
  ASSUME NEW r, lsRequestContinuation(r.head, r.inBody) # Refused
  PROVE  PageOK(lsRequestContinuation(r.head, r.inBody), r)
<1> DEFINE yn == IF r.inBody.yn = "" THEN r.head.yn ELSE r.inBody.yn
           key == IF r.inBody.key = "" THEN r.head.key ELSE r.inBody.key
           page == lsRequestContinuation(r.head, r.inBody)
<1>1. /\ page = Continuation(yn, key)
      /\ ~ (r.head.key # "" /\ r.inBody.key # "" /\ r.head.key # r.inBody.key)
  BY DEF lsRequestContinuation
<1>2. page.yn = yn /\ page.key = key
  <2> HIDE DEF yn, key, page
  <2> QED BY <1>1 DEF Continuation
<1> QED BY <1>1, <1>2 DEF PageOK

\* What the handlers answer, and what a call may say.
Statuses == {0, 200, 400, 401, 404, 409, 429, 500, 501, 502, 503}
Results == {"ok", "incomplete"} \cup Errors
\* The brokers that know instruments.
Able == {own \in DOMAIN brokers : ~brokers[own].plain}
IsSeq(s) == \E S : s \in Seq(S)

\* Call c, for request r, is for the account that r names: of KIS, for one of its products.
Reaches(c, r) ==
  r.id # NoId =>
    /\ Named(c.own, r.id)
    /\ c.account.base = r.id.base
    /\ brokers[c.own].code = "kis" /\ r.op \in {"balance", "positions", "place"}
         /\ r.id.suffix # "" => c.account = r.id

\* It is at a broker of the kind asked for, with the page and the fields r has.
Keeps(c, r) ==
  /\ Wired /\ r.op \in {"proxy", "auth"} /\ r.code # "" => brokers[c.own].code = r.code
  /\ Wired /\ r.op = "auth" /\ r.code # "" =>
       \/ brokers[c.own].sandbox = r.sandbox
       \/ \A i \in DOMAIN accounts : accounts[i].code = r.code => accounts[i].sandbox # r.sandbox
  /\ PageOK(c.page, r)
  /\ r.op = "proxy" => SentAsDocumented(r.code, brokers[c.own].sandbox, r.wanted, c.sent)

CallOK(c, r) == c.own \in DOMAIN brokers /\ Reaches(c, r) /\ Keeps(c, r)

\* The calls of a summary, made and to be made, are one for each account in order.
SummaryInv ==
  request.op = "summary" =>
    /\ answer = 200 => Told(calls) = {"ok"} /\ Len(calls) = Len(accounts) /\ todo = <<>>
    /\ Wired /\ Len(calls) + Len(todo) = Len(accounts) =>
         /\ \A i \in DOMAIN calls : calls[i].call.own = accounts[i].id
         /\ \A i \in DOMAIN todo : todo[i].own = accounts[Len(calls) + i].id

\* Those of a search for an instrument are all the brokers', until one knows it.
InstrumentInv ==
  request.op = "instrument" =>
    /\ answer = 404 /\ calls # <<>> => Unanimous(calls) /\ todo = <<>>
    /\ request.id = NoId /\ (calls # <<>> \/ todo # <<>>) =>
         {calls[i].call.own : i \in DOMAIN calls} \cup {todo[i].own : i \in DOMAIN todo} = Able

\* The inductive invariant.
AInv ==
  /\ ConfigOK
  /\ request = NoRequest \/ request \in Requests
  /\ IsSeq(todo) /\ IsSeq(calls)
  /\ Idle => todo = <<>> /\ calls = <<>> /\ answer = 0
  /\ \A i \in DOMAIN todo : CallOK(todo[i], request)
  /\ \A i \in DOMAIN calls : CallOK(calls[i].call, request) /\ calls[i].result \in Results
  /\ SummaryInv
  /\ InstrumentInv
  /\ answer \in Statuses

LEMMA AInvImplies == ASSUME AInv PROVE AccountsTypeOK /\ RequestReachesItsAccount
<1>1. AccountsTypeOK BY DEF AInv, AccountsTypeOK, CallOK, Statuses, Results
<1>2. \A c \in Made : CallOK(c, request) BY DEF AInv, Made
<1>3. ReachesTheNamed BY <1>2 DEF ReachesTheNamed, CallOK, Reaches, Named
<1>4. KeepsToItsBroker BY <1>2 DEF KeepsToItsBroker, CallOK, Keeps, PageOK
<1>5. SummaryIsWhole
  <2>1. SUFFICES ASSUME request.op = "summary", answer = 200, Wired
                 PROVE  /\ Len(calls) = Len(accounts)
                        /\ \A i \in DOMAIN calls :
                             calls[i].call.own = accounts[i].id /\ calls[i].result = "ok"
    BY DEF SummaryIsWhole
  <2>2. Told(calls) = {"ok"} /\ Len(calls) = Len(accounts) /\ todo = <<>>
    BY <2>1 DEF AInv, SummaryInv
  <2>3. Len(accounts) \in Nat /\ Len(todo) = 0 BY <2>2 DEF AInv, ConfigOK
  <2>4. \A i \in DOMAIN calls : calls[i].call.own = accounts[i].id
    BY <2>1, <2>2, <2>3 DEF AInv, SummaryInv
  <2>5. \A i \in DOMAIN calls : calls[i].result = "ok" BY <2>2 DEF Told
  <2> QED BY <2>2, <2>4, <2>5
<1>6. NotFoundIsUnanimous
  <2>1. SUFFICES ASSUME request.op = "instrument", answer = 404, calls # <<>>
                 PROVE  /\ Unanimous(calls)
                        /\ request.id = NoId => {c.own : c \in Made} = Able
    BY DEF NotFoundIsUnanimous, Able
  <2>2. Unanimous(calls) /\ todo = <<>>
    BY <2>1 DEF AInv, InstrumentInv
  <2>3. ASSUME request.id = NoId PROVE {c.own : c \in Made} = Able
    <3>1. todo = <<>> BY <2>2
    <3>2. {calls[i].call.own : i \in DOMAIN calls} \cup {todo[i].own : i \in DOMAIN todo} = Able
      BY <2>1, <2>3 DEF AInv, InstrumentInv
    <3>3. DOMAIN todo = {} BY <3>1
    <3>4. {c.own : c \in Made} = {calls[i].call.own : i \in DOMAIN calls} BY DEF Made
    <3> QED BY <3>2, <3>3, <3>4
  <2> QED BY <2>2, <2>3
<1> QED BY <1>1, <1>3, <1>4, <1>5, <1>6 DEF RequestReachesItsAccount

-----------------------------------------------------------------------------
LEMMA NoRequestIs == /\ NoRequest.op = "none" /\ NoRequest.id = NoId /\ NoRequest \notin Requests
<1>1. NoRequest.op = "none" /\ NoRequest.id = NoId BY DEF NoRequest, Request
<1> QED BY <1>1, RequestsAssumption

\* A request that is taken, with the calls that are to be made for it.
LEMMA ServeKeeps ==
  ASSUME AInv, Idle, NEW r \in Requests, NEW dest, NEW made, Serve(r, dest, made),
         IsSeq(made), \A i \in DOMAIN made : CallOK(made[i], r),
         made = <<>> => dest.status \in Statuses \ {200},
         r.op = "summary" /\ Wired /\ Len(made) = Len(accounts) =>
           \A i \in DOMAIN made : made[i].own = accounts[i].id,
         r.op = "instrument" /\ r.id = NoId /\ made # <<>> =>
           {made[i].own : i \in DOMAIN made} = Able
  PROVE  AInv'
<1>1. /\ request' = r /\ todo' = made /\ calls' = <<>> /\ calls = <<>>
      /\ accounts' = accounts /\ brokers' = brokers
      /\ answer' = IF made = <<>> THEN dest.status ELSE 0
  BY DEF Serve, AInv
<1>2. ConfigOK' BY <1>1 DEF ConfigOK, AInv
<1>3. answer' \in Statuses /\ answer' # 200 BY <1>1 DEF Statuses
<1>4. ~Idle' BY <1>1, NoRequestIs DEF Idle
<1>5. IsSeq(todo)' /\ IsSeq(calls)'
  <2>1. <<>> \in Seq({}) OBVIOUS
  <2> QED BY <1>1, <2>1 DEF IsSeq
<1>6. \A i \in DOMAIN todo' : CallOK(todo[i], request)'
  <2> SUFFICES ASSUME NEW i \in DOMAIN made PROVE CallOK(made[i], r)'
    BY <1>1
  <2>1. CallOK(made[i], r) OBVIOUS
  <2>2. Named(made[i].own, r.id) => Named(made[i].own, r.id)' BY <1>1 DEF Named
  <2>3. Reaches(made[i], r)' BY <1>1, <2>1, <2>2 DEF CallOK, Reaches
  <2>4. Keeps(made[i], r)' BY <1>1, <2>1 DEF CallOK, Keeps, Wired
  <2> QED BY <1>1, <2>1, <2>3, <2>4 DEF CallOK
<1>7. DOMAIN calls' = {} /\ Len(calls') = 0 BY <1>1
<1>8. SummaryInv'
  <2>1. SUFFICES ASSUME r.op = "summary", Wired', 0 + Len(made) = Len(accounts)
                 PROVE  \A i \in DOMAIN made : made[i].own = accounts[0 + i].id
    BY <1>1, <1>3, <1>7 DEF SummaryInv
  <2>2. Wired BY <1>1, <2>1 DEF Wired
  <2>3. PICK S : made \in Seq(S) BY DEF IsSeq
  <2>4. Len(made) \in Nat /\ \A i \in DOMAIN made : i \in Nat BY <2>3
  <2> QED BY <2>1, <2>2, <2>4
<1>9. InstrumentInv'
  <2>1. SUFFICES ASSUME r.op = "instrument", r.id = NoId, made # <<>>
                 PROVE  {made[i].own : i \in DOMAIN made} = Able
    <3>1. Able' = Able BY <1>1 DEF Able
    <3>2. {calls'[i].call.own : i \in DOMAIN calls'} = {} BY <1>7
    <3> QED BY <1>1, <1>3, <3>1, <3>2 DEF InstrumentInv
  <2> QED BY <2>1
<1> QED BY <1>1, <1>2, <1>3, <1>4, <1>5, <1>6, <1>7, <1>8, <1>9 DEF AInv

LEMMA AnsweredKeeps == ASSUME AInv, Answered PROVE AInv'
<1>1. /\ request' = NoRequest /\ todo' = <<>> /\ calls' = <<>> /\ answer' = 0
      /\ accounts' = accounts /\ brokers' = brokers
  BY DEF Answered
<1>2. ConfigOK' BY <1>1 DEF ConfigOK, AInv
<1>3. IsSeq(todo)' /\ IsSeq(calls)'
  <2>1. <<>> \in Seq({}) OBVIOUS
  <2> QED BY <1>1, <2>1 DEF IsSeq
<1>4. SummaryInv' /\ InstrumentInv' BY <1>1, NoRequestIs DEF SummaryInv, InstrumentInv
<1>5. DOMAIN todo' = {} /\ DOMAIN calls' = {} BY <1>1
<1> QED BY <1>1, <1>2, <1>3, <1>4, <1>5 DEF AInv, Statuses

\* A call that is made: it moves from those that are to be made to the others.
LEMMA CallMoves ==
  ASSUME AInv, todo # <<>>, NEW said,
         calls' = Append(calls, [call |-> Head(todo), result |-> said]), todo' = Tail(todo)
  PROVE  /\ IsSeq(calls') /\ IsSeq(todo')
         /\ Len(todo) \in Nat /\ Len(calls) \in Nat /\ Len(todo) >= 1
         /\ Len(calls') = Len(calls) + 1 /\ Len(todo') = Len(todo) - 1
         /\ Len(todo) = 1 => todo' = <<>>
         /\ DOMAIN todo = 1..Len(todo) /\ DOMAIN calls = 1..Len(calls)
         /\ DOMAIN calls' = 1..(Len(calls) + 1) /\ DOMAIN todo' = 1..(Len(todo) - 1)
         /\ \A i \in DOMAIN calls : calls'[i] = calls[i]
         /\ calls'[Len(calls) + 1].call = todo[1] /\ calls'[Len(calls) + 1].result = said
         /\ \A i \in DOMAIN todo' : todo'[i] = todo[i + 1]
<1> DEFINE c == [call |-> Head(todo), result |-> said]
<1>1. PICK S : todo \in Seq(S) BY DEF AInv, IsSeq
<1>2. PICK T : calls \in Seq(T) BY DEF AInv, IsSeq
<1>3. todo' \in Seq(S) /\ Len(todo) \in Nat \ {0} /\ Len(todo') = Len(todo) - 1
  BY <1>1, EmptySeq, HeadTailProperties
<1>4. \A i \in 1..Len(todo') : todo'[i] = todo[i + 1] BY <1>1, HeadTailProperties
<1>5. Head(todo) = todo[1] BY <1>1
<1>6. c.call = todo[1] /\ c.result = said BY <1>5
<1>7. calls' = Append(calls, c) OBVIOUS
<1> HIDE DEF c
<1>8. calls \in Seq(T \cup {c}) BY <1>2, SeqMonotonic
<1>9. /\ calls' \in Seq(T \cup {c}) /\ Len(calls') = Len(calls) + 1 /\ Len(calls) \in Nat
      /\ \A i \in 1..Len(calls) : calls'[i] = calls[i]
      /\ calls'[Len(calls) + 1] = c
  BY <1>7, <1>8
<1>10. ASSUME Len(todo) = 1 PROVE todo' = <<>>
  <2>1. Len(todo') = 0 BY <1>3, <1>10
  <2> QED BY <2>1, <1>3, EmptySeq
<1>11. IsSeq(calls') /\ IsSeq(todo') BY <1>3, <1>9 DEF IsSeq
<1>12. DOMAIN todo = 1..Len(todo) /\ DOMAIN calls = 1..Len(calls) BY <1>1, <1>2
<1>13. DOMAIN todo' = 1..(Len(todo) - 1) BY <1>3
<1>14. DOMAIN calls' = 1..(Len(calls) + 1) BY <1>9
<1>15. \A i \in DOMAIN todo' : todo'[i] = todo[i + 1] BY <1>3, <1>4, <1>13
<1> QED BY <1>3, <1>6, <1>9, <1>10, <1>11, <1>12, <1>13, <1>14, <1>15

LEMMA InstrumentStatus ==
  ASSUME NEW cs, NEW n, NEW status, status = InstrumentAnswer(cs, n = 1)
  PROVE  /\ status \in {0, 200, 400, 404, 500}
         /\ status = 404 => n = 1
         /\ status = 404 => Unanimous(cs)
<1>1. CASE "ok" \in Told(cs)
  <2>1. status = 200 BY <1>1 DEF InstrumentAnswer
  <2>2. status # 404 /\ status \in {0, 200, 400, 404, 500} BY <2>1
  <2> QED BY <2>2, Zenon
<1>2. CASE "ok" \notin Told(cs) /\ Told(cs) \cap {"market", "symbol"} # {}
  <2>1. status = 400 BY <1>2 DEF InstrumentAnswer
  <2>2. status # 404 /\ status \in {0, 200, 400, 404, 500} BY <2>1
  <2> QED BY <2>2, Zenon
<1>3. CASE "ok" \notin Told(cs) /\ Told(cs) \cap {"market", "symbol"} = {}
  <2>1. status = IF n # 1 THEN 0 ELSE IF Unanimous(cs) THEN 404 ELSE 500
    BY <1>3 DEF InstrumentAnswer
  <2>2. status \in {0, 200, 400, 404, 500} /\ (status = 404 => n = 1) BY <2>1
  <2>3. CASE Unanimous(cs) BY <2>2, <2>3, Zenon
  <2>4. CASE ~Unanimous(cs)
    <3>1. status \in {0, 500} BY <2>1, <2>4
    <3>2. status # 404 BY <3>1
    <3> QED BY <2>2, <3>2, Zenon
  <2> QED BY <2>3, <2>4
<1> QED BY <1>1, <1>2, <1>3, Zenon

LEMMA StatusOfError ==
  ASSUME NEW e, NEW fallback \in {401, 500}
  PROVE  statusFromBrokerError(e, fallback) \in {400, 401, 404, 409, 429, 501, 502, fallback}
BY DEF statusFromBrokerError

LEMMA CallBrokerKeeps == ASSUME AInv, CallBroker PROVE AInv'
<1>1. PICK said \in Says(Head(todo).own) :
        LET cs == Append(calls, [call |-> Head(todo), result |-> said])
            last == Len(todo) = 1
        IN  /\ calls' = cs
            /\ todo' = Tail(todo)
            /\ answer' = CASE request.op = "instrument" -> InstrumentAnswer(cs, last)
                           [] request.op = "summary"    -> SummaryAnswer(cs, last)
                           [] OTHER                     -> OtherAnswer(cs, last)
  BY DEF CallBroker
<1> DEFINE last == Len(todo) = 1
           n == Len(calls)
<1>2. /\ todo # <<>> /\ answer = 0
      /\ accounts' = accounts /\ brokers' = brokers /\ request' = request
  BY DEF CallBroker
<1>3. calls' = Append(calls, [call |-> Head(todo), result |-> said]) /\ todo' = Tail(todo)
  BY <1>1
<1>0. answer' = CASE request.op = "instrument" -> InstrumentAnswer(calls', last)
                     [] request.op = "summary"    -> SummaryAnswer(calls', last)
                     [] OTHER                     -> OtherAnswer(calls', last)
  BY <1>1
<1>4. /\ IsSeq(calls') /\ IsSeq(todo')
      /\ Len(todo) \in Nat /\ n \in Nat /\ Len(todo) >= 1
      /\ Len(calls') = n + 1 /\ Len(todo') = Len(todo) - 1
      /\ last => todo' = <<>>
      /\ DOMAIN todo = 1..Len(todo) /\ DOMAIN calls = 1..n
      /\ DOMAIN calls' = 1..(n + 1) /\ DOMAIN todo' = 1..(Len(todo) - 1)
      /\ \A i \in DOMAIN calls : calls'[i] = calls[i]
      /\ calls'[n + 1].call = todo[1] /\ calls'[n + 1].result = said
      /\ \A i \in DOMAIN todo' : todo'[i] = todo[i + 1]
  BY <1>2, <1>3, CallMoves
<1> HIDE DEF n
<1>5. said \in Results
  <2>1. said \in Errors \cup {"ok", "incomplete"} BY <1>1 DEF Says
  <2> QED BY <2>1 DEF Results
<1>6. request \in Requests /\ ~Idle
  <2>1. ~Idle BY <1>2 DEF AInv
  <2> QED BY <2>1 DEF AInv, Idle
<1>7. ConfigOK' BY <1>2 DEF ConfigOK, AInv
<1>8. ASSUME NEW c, CallOK(c, request) PROVE CallOK(c, request)'
  <2>1. Named(c.own, request.id) => Named(c.own, request.id)' BY <1>2 DEF Named
  <2>2. Reaches(c, request)' BY <1>2, <1>8, <2>1 DEF CallOK, Reaches
  <2>3. Keeps(c, request)' BY <1>2, <1>8 DEF CallOK, Keeps, Wired
  <2> QED BY <1>2, <1>8, <2>2, <2>3 DEF CallOK
<1>9. \A i \in DOMAIN todo' : CallOK(todo'[i], request)
  <2>1. \A i \in DOMAIN todo' : i + 1 \in DOMAIN todo BY <1>4
  <2> QED BY <1>4, <2>1 DEF AInv
<1>10. \A i \in DOMAIN calls' : CallOK(calls'[i].call, request) /\ calls'[i].result \in Results
  <2>1. \A i \in DOMAIN calls' : i = n + 1 \/ i \in DOMAIN calls BY <1>4
  <2>2. 1 \in DOMAIN todo BY <1>4
  <2>3. CallOK(calls'[n + 1].call, request) /\ calls'[n + 1].result \in Results
    BY <1>4, <1>5, <2>2 DEF AInv
  <2> QED BY <1>4, <2>1, <2>3 DEF AInv
<1>11. answer' \in Statuses
  <2>1. CASE request.op = "instrument"
    <3>1. answer' = InstrumentAnswer(calls', last) BY <1>0, <2>1
    <3>2. answer' \in {0, 200, 400, 404, 500} BY <3>1, InstrumentStatus
    <3> QED BY <3>2 DEF Statuses
  <2>2. CASE request.op = "summary"
    <3>1. answer' = SummaryAnswer(calls', last) BY <1>0, <2>2
    <3> QED BY <3>1 DEF SummaryAnswer, Statuses
  <2>3. CASE request.op # "instrument" /\ request.op # "summary"
    <3>1. answer' = OtherAnswer(calls', last) BY <1>0, <2>3
    <3> DEFINE failed == Told(calls') \ {"ok", "incomplete"}
               fallback == IF request.op = "auth" THEN 401 ELSE 500
               status == statusFromBrokerError(CHOOSE e \in failed : TRUE, fallback)
    <3>2. fallback \in {401, 500} OBVIOUS
    <3>3. status \in Statuses
      <4> HIDE DEF fallback, failed
      <4>1. status \in {400, 401, 404, 409, 429, 501, 502, fallback} BY <3>2, StatusOfError
      <4> QED BY <3>2, <4>1 DEF Statuses
    <3>4. answer' \in {status, 200, 0} BY <3>1 DEF OtherAnswer
    <3> HIDE DEF status
    <3> QED BY <3>3, <3>4 DEF Statuses
  <2> QED BY <2>1, <2>2, <2>3
<1>12. SummaryInv'
  <2>1. SUFFICES ASSUME request.op = "summary"
                 PROVE  /\ answer' = 200 =>
                             Told(calls') = {"ok"} /\ Len(calls') = Len(accounts) /\ todo' = <<>>
                        /\ Wired' /\ Len(calls') + Len(todo') = Len(accounts) =>
                             /\ \A i \in DOMAIN calls' : calls'[i].call.own = accounts[i].id
                             /\ \A i \in DOMAIN todo' : todo'[i].own = accounts[Len(calls') + i].id
    BY <1>2 DEF SummaryInv, Told
  <2>2. ASSUME answer' = 200
        PROVE  Told(calls') = {"ok"} /\ Len(calls') = Len(accounts) /\ todo' = <<>>
    <3>1. answer' = SummaryAnswer(calls', last) BY <1>0, <2>1
    <3>2. last /\ Told(calls') = {"ok"} /\ Len(calls') = Len(accounts)'
      BY <3>1, <2>2, <1>2 DEF SummaryAnswer
    <3> QED BY <3>2, <1>2, <1>4
  <2>3. ASSUME Wired', Len(calls') + Len(todo') = Len(accounts)
        PROVE  /\ \A i \in DOMAIN calls' : calls'[i].call.own = accounts[i].id
               /\ \A i \in DOMAIN todo' : todo'[i].own = accounts[Len(calls') + i].id
    <3>1. Wired BY <2>3, <1>2 DEF Wired
    <3>2. n + Len(todo) = Len(accounts) BY <2>3, <1>4
    <3>3. /\ \A i \in DOMAIN calls : calls[i].call.own = accounts[i].id
          /\ \A i \in DOMAIN todo : todo[i].own = accounts[n + i].id
      BY <2>1, <3>1, <3>2 DEF AInv, SummaryInv, n
    <3>4. \A i \in DOMAIN calls' : i = n + 1 \/ i \in DOMAIN calls BY <1>4
    <3>5. todo[1].own = accounts[n + 1].id BY <1>4, <3>3
    <3>6. ASSUME NEW i \in DOMAIN todo' PROVE todo'[i].own = accounts[Len(calls') + i].id
      <4>1. i \in Nat /\ i + 1 \in DOMAIN todo /\ n + (i + 1) = Len(calls') + i BY <1>4
      <4> QED BY <4>1, <3>3, <1>4
    <3> QED BY <3>3, <3>4, <3>5, <3>6, <1>4
  <2> QED BY <2>2, <2>3
<1>13. InstrumentInv'
  <2>1. Able' = Able BY <1>2 DEF Able
  <2>2. SUFFICES ASSUME request.op = "instrument"
                 PROVE  /\ answer' = 404 => Unanimous(calls') /\ todo' = <<>>
                        /\ request.id = NoId =>
                             {calls'[i].call.own : i \in DOMAIN calls'}
                               \cup {todo'[i].own : i \in DOMAIN todo'} = Able
    BY <1>2, <2>1 DEF InstrumentInv, Unanimous, Told
  <2>3. ASSUME answer' = 404 PROVE Unanimous(calls') /\ todo' = <<>>
    <3>1. answer' = InstrumentAnswer(calls', last) BY <1>0, <2>2
    <3>2. last /\ Unanimous(calls') BY <3>1, <2>3, InstrumentStatus
    <3> QED BY <3>2, <1>4
  <2>4. ASSUME request.id = NoId
        PROVE  {calls'[i].call.own : i \in DOMAIN calls'}
                 \cup {todo'[i].own : i \in DOMAIN todo'} = Able
    <3>1. {calls[i].call.own : i \in DOMAIN calls} \cup {todo[i].own : i \in DOMAIN todo} = Able
      BY <1>2, <2>2, <2>4 DEF AInv, InstrumentInv
    <3>2. \A i \in DOMAIN calls' : i = n + 1 \/ i \in DOMAIN calls BY <1>4
    <3>3. n + 1 \in DOMAIN calls' /\ DOMAIN calls \subseteq DOMAIN calls' /\ 1 \in DOMAIN todo BY <1>4
    <3>4. \A i \in DOMAIN todo' : i + 1 \in DOMAIN todo BY <1>4
    <3>5. \A i \in DOMAIN todo : i = 1 \/ (i - 1 \in DOMAIN todo' /\ (i - 1) + 1 = i) BY <1>4
    <3>6. {calls'[i].call.own : i \in DOMAIN calls'}
            = {calls[i].call.own : i \in DOMAIN calls} \cup {todo[1].own}
      BY <1>4, <3>2, <3>3
    <3>7. {todo[i].own : i \in DOMAIN todo} = {todo[1].own} \cup {todo'[i].own : i \in DOMAIN todo'}
      BY <1>4, <3>3, <3>4, <3>5
    <3> QED BY <3>1, <3>6, <3>7
  <2> QED BY <2>3, <2>4
<1>14. ~Idle' BY <1>2, <1>6 DEF Idle
<1>15. \A i \in DOMAIN todo' : CallOK(todo[i], request)' BY <1>8, <1>9
<1>16. \A i \in DOMAIN calls' : CallOK(calls[i].call, request)' /\ calls'[i].result \in Results
  BY <1>8, <1>10
<1> QED BY <1>2, <1>4, <1>6, <1>7, <1>11, <1>12, <1>13, <1>14, <1>15, <1>16 DEF AInv

LEMMA CallIs ==
  ASSUME NEW own, NEW account, NEW page, NEW sent
  PROVE  LET c == Call(own, account, page, sent)
         IN  c.own = own /\ c.account = account /\ c.page = page /\ c.sent = sent
BY DEF Call

LEMMA SingleIs ==
  ASSUME NEW c
  PROVE  /\ IsSeq(<<c>>) /\ <<c>> # <<>> /\ DOMAIN <<c>> = {1} /\ <<c>>[1] = c /\ Len(<<c>>) = 1
<1>1. <<c>> \in Seq({c}) /\ Len(<<c>>) = 1 OBVIOUS
<1>2. DOMAIN <<c>> = {1} OBVIOUS
<1> QED BY <1>1, <1>2 DEF IsSeq

LEMMA NothingIs == IsSeq(<<>>) /\ DOMAIN <<>> = {} /\ Len(<<>>) = 0
<1>1. <<>> \in Seq({}) OBVIOUS
<1> QED BY <1>1 DEF IsSeq

\* A call for nothing but a broker's account.
LEMMA PlainCallOK ==
  ASSUME ConfigOK, NEW r \in Requests, r.op \notin {"proxy", "auth"},
         NEW own \in DOMAIN brokers, r.id # NoId => Named(own, r.id),
         NEW id \in {NoId, r.id}, r.op \in {"balance", "positions", "place"} => id = r.id
  PROVE  CallOK(Call(own, Touched(own, id), NoCont, NoSent), r)
<1> DEFINE c == Call(own, Touched(own, id), NoCont, NoSent)
<1>1. c.own = own /\ c.account = Touched(own, id) /\ c.page = NoCont BY CallIs
<1>2. PageOK(c.page, r) BY <1>1, NoContPage, RequestsAssumption
<1>3. ASSUME r.id # NoId
      PROVE  /\ c.account.base = r.id.base
             /\ brokers[own].code = "kis" /\ r.op \in {"balance", "positions", "place"}
                  /\ r.id.suffix # "" => c.account = r.id
  <2>1. r.id \in Ids BY RequestsAssumption
  <2>2. /\ Touched(own, r.id).base = r.id.base /\ Touched(own, NoId).base = r.id.base
        /\ brokers[own].code = "kis" /\ r.id.suffix # "" => Touched(own, r.id) = r.id
    BY <1>3, <2>1, TouchedIs
  <2> QED BY <1>1, <2>2
<1> HIDE DEF c
<1>4. Reaches(c, r) BY <1>1, <1>3 DEF Reaches
<1>5. Keeps(c, r) BY <1>2 DEF Keeps
<1> QED BY <1>1, <1>4, <1>5 DEF CallOK, c

LEMMA RefusedKeeps ==
  ASSUME AInv, Idle, NEW r \in Requests, NEW dest, dest.status \in Statuses \ {200},
         r.op # "summary", Serve(r, dest, <<>>)
  PROVE  AInv'
<1> DEFINE made == <<>>
<1>1. IsSeq(made) /\ DOMAIN made = {} BY NothingIs
<1>2. Serve(r, dest, made) OBVIOUS
<1> QED BY <1>1, <1>2, ServeKeeps

LEMMA OneCallKeeps ==
  ASSUME AInv, Idle, NEW r \in Requests, NEW dest, NEW c, CallOK(c, r),
         r.op \notin {"summary", "instrument"}, Serve(r, dest, <<c>>)
  PROVE  AInv'
<1> DEFINE made == <<c>>
<1>1. /\ IsSeq(made) /\ made # <<>>
      /\ \A i \in DOMAIN made : CallOK(made[i], r)
  BY SingleIs
<1>2. Serve(r, dest, made) OBVIOUS
<1> HIDE DEF made
<1> QED BY <1>1, <1>2, ServeKeeps

\* The broker that is found is asked once.
LEMMA AskOneKeeps ==
  ASSUME AInv, Idle, NEW r \in Requests, r.op \notin {"summary", "instrument", "proxy", "auth"},
         NEW dest, dest.status \in Statuses \ {200},
         dest.status = 0 => dest.own \in DOMAIN brokers /\ (r.id # NoId => Named(dest.own, r.id)),
         NEW id \in {NoId, r.id}, r.op \in {"balance", "positions", "place"} => id = r.id,
         Serve(r, dest, One(dest, id))
  PROVE  AInv'
<1>1. CASE dest.status = 0
  <2>1. One(dest, id) = <<Call(dest.own, Touched(dest.own, id), NoCont, NoSent)>> BY <1>1 DEF One
  <2>2. CallOK(Call(dest.own, Touched(dest.own, id), NoCont, NoSent), r)
    BY <1>1, PlainCallOK DEF AInv
  <2> QED BY <2>1, <2>2, OneCallKeeps
<1>2. CASE dest.status # 0
  <2>1. One(dest, id) = <<>> BY <1>2 DEF One
  <2> QED BY <2>1, RefusedKeeps
<1> QED BY <1>1, <1>2

LEMMA ResolvedAt ==
  ASSUME AInv, NEW id, NEW dest, dest = resolveBrokerByAccountID(id)
  PROVE  /\ dest.status \in Statuses \ {200}
         /\ dest.status = 0 => dest.own \in DOMAIN brokers /\ Named(dest.own, id)
<1>1. dest.status \in {0, 400, 404} BY ResolveIs DEF AInv
<1>2. dest.status = 0 => Named(dest.own, id) BY ResolveIs DEF AInv
<1> QED BY <1>1, <1>2 DEF Named, Statuses

LEMMA AskBalanceKeeps ==
  ASSUME AInv, Idle, NEW r \in Requests, AskBalance(r) PROVE AInv'
<1> DEFINE dest == resolveBrokerByAccountID(r.id)
<1>1. r.op = "balance" /\ Serve(r, dest, One(dest, r.id)) BY DEF AskBalance
<1>2. /\ dest.status \in Statuses \ {200}
      /\ dest.status = 0 => dest.own \in DOMAIN brokers /\ Named(dest.own, r.id)
  BY ResolvedAt
<1> HIDE DEF dest
<1> QED BY <1>1, <1>2, AskOneKeeps

LEMMA AskChangeKeeps ==
  ASSUME AInv, Idle, NEW r \in Requests, AskChange(r) PROVE AInv'
<1> DEFINE dest == resolveBrokerByAccountID(r.id)
<1>1. r.op = "change" /\ Serve(r, dest, One(dest, NoId)) BY DEF AskChange
<1>2. /\ dest.status \in Statuses \ {200}
      /\ dest.status = 0 => dest.own \in DOMAIN brokers /\ Named(dest.own, r.id)
  BY ResolvedAt
<1> HIDE DEF dest
<1> QED BY <1>1, <1>2, AskOneKeeps

LEMMA AskOrderKeeps ==
  ASSUME AInv, Idle, NEW r \in Requests, AskOrder(r) PROVE AInv'
<1> DEFINE dest == resolveBrokerByAccountID(r.id)
<1>1. /\ r.op = "order"
      /\ Serve(r, Refuse(501), <<>>) \/ Serve(r, dest, One(dest, NoId))
  BY DEF AskOrder
<1>2. /\ dest.status \in Statuses \ {200}
      /\ dest.status = 0 => dest.own \in DOMAIN brokers /\ Named(dest.own, r.id)
  BY ResolvedAt
<1>3. Refuse(501).status \in Statuses \ {200} BY DEF Refuse, Statuses
<1> HIDE DEF dest
<1> QED BY <1>1, <1>2, <1>3, AskOneKeeps, RefusedKeeps

LEMMA AskPlaceKeeps ==
  ASSUME AInv, Idle, NEW r \in Requests, AskPlace(r) PROVE AInv'
<1> DEFINE dest == resolveBrokerByAccountID(r.id)
<1>1. /\ r.op = "place"
      /\ Serve(r, Refuse(400), <<>>) \/ Serve(r, dest, One(dest, r.id))
  BY DEF AskPlace
<1>2. /\ dest.status \in Statuses \ {200}
      /\ dest.status = 0 => dest.own \in DOMAIN brokers /\ Named(dest.own, r.id)
  BY ResolvedAt
<1>3. Refuse(400).status \in Statuses \ {200} BY DEF Refuse, Statuses
<1> HIDE DEF dest
<1> QED BY <1>1, <1>2, <1>3, AskOneKeeps, RefusedKeeps

LEMMA AskQuoteKeeps ==
  ASSUME AInv, Idle, NEW r \in Requests, AskQuote(r) PROVE AInv'
<1> DEFINE first == IF getFirstBroker.status = 0 THEN getFirstBroker ELSE Refuse(500)
           dest == IF r.id # NoId THEN resolveBrokerByAccountID(r.id) ELSE first
<1>1. r.op = "quote" /\ Serve(r, dest, One(dest, NoId)) BY DEF AskQuote
<1>2. /\ dest.status \in Statuses \ {200}
      /\ dest.status = 0 => dest.own \in DOMAIN brokers /\ (r.id # NoId => Named(dest.own, r.id))
  <2>1. CASE r.id # NoId
    <3>1. dest = resolveBrokerByAccountID(r.id) BY <2>1
    <3> HIDE DEF dest
    <3> QED BY <3>1, ResolvedAt
  <2>2. CASE r.id = NoId /\ getFirstBroker.status = 0
    <3>1. dest = getFirstBroker /\ dest.status = 0 BY <2>2
    <3> HIDE DEF dest
    <3> QED BY <2>2, <3>1, FirstBrokerIs DEF AInv, Statuses
  <2>3. CASE r.id = NoId /\ getFirstBroker.status # 0
    <3>1. dest = Refuse(500) BY <2>3
    <3>2. Refuse(500).status = 500 BY DEF Refuse
    <3> HIDE DEF dest
    <3> QED BY <3>1, <3>2 DEF Statuses
  <2> QED BY <2>1, <2>2, <2>3
<1> HIDE DEF dest
<1> QED BY <1>1, <1>2, AskOneKeeps

LEMMA AskAuthKeeps ==
  ASSUME AInv, Idle, NEW r \in Requests, AskAuth(r) PROVE AInv'
<1>0. PICK dest : dest = resolveAuthBroker(r.code, r.sandbox) OBVIOUS
<1>1. r.op = "auth" /\ r.id = NoId /\ Serve(r, dest, One(dest, NoId))
  BY <1>0, RequestsAssumption DEF AskAuth
<1>2. ConfigOK BY DEF AInv
<1>5. dest.status \in {0, 400, 503} BY <1>0, <1>2, AuthIs
<1>6. dest.status = 0 => Suits(dest.own, r) BY <1>0, <1>2, AuthIs
<1>3. CASE dest.status = 0
  <2> DEFINE c == Call(dest.own, Touched(dest.own, NoId), NoCont, NoSent)
  <2>1. c.own = dest.own /\ c.page = NoCont BY CallIs
  <2>2. PageOK(c.page, r) BY <1>1, <2>1, NoContPage, RequestsAssumption
  <2>3. One(dest, NoId) = <<c>> BY <1>3 DEF One
  <2> HIDE DEF c
  <2>4. Reaches(c, r) /\ Keeps(c, r) BY <1>1, <1>6, <1>3, <2>1, <2>2 DEF Suits, Reaches, Keeps
  <2>5. CallOK(c, r) BY <1>6, <1>3, <2>1, <2>4 DEF Suits, CallOK
  <2> QED BY <1>1, <2>3, <2>5, OneCallKeeps
<1>4. CASE dest.status # 0
  <2>1. One(dest, NoId) = <<>> BY <1>4 DEF One
  <2>2. dest.status \in Statuses \ {200} BY <1>5 DEF Statuses
  <2> QED BY <1>1, <2>1, <2>2, RefusedKeeps
<1> QED BY <1>3, <1>4

LEMMA AskPositionsKeeps ==
  ASSUME AInv, Idle, NEW r \in Requests, AskPositions(r) PROVE AInv'
<1> DEFINE dest == resolveBrokerByAccountID(r.id)
           c == Call(dest.own, Touched(dest.own, r.id), NoCont, NoSent)
<1>1. /\ r.op = "positions"
      /\ \/ Serve(r, dest, One(dest, r.id))
         \/ dest.status = 0 /\ Serve(r, dest, One(dest, r.id) \o One(dest, r.id))
  <2>1. r.op = "positions" /\ Serve(r, dest, GetPositions(dest, r.id)) BY DEF AskPositions
  <2> HIDE DEF dest
  <2>2. CASE dest.status = 0 /\ brokers[dest.own].code = "kis" /\ ~brokers[dest.own].sandbox
    <3>1. GetPositions(dest, r.id) = One(dest, r.id) \o One(dest, r.id) BY <2>2 DEF GetPositions
    <3> QED BY <2>1, <2>2, <3>1
  <2>3. CASE ~ (dest.status = 0 /\ brokers[dest.own].code = "kis" /\ ~brokers[dest.own].sandbox)
    <3>1. GetPositions(dest, r.id) = One(dest, r.id) BY <2>3 DEF GetPositions
    <3>2. Serve(r, dest, One(dest, r.id)) BY <2>1, <3>1
    <3> QED BY <2>1, <3>2
  <2> QED BY <2>2, <2>3
<1>2. /\ dest.status \in Statuses \ {200}
      /\ dest.status = 0 => dest.own \in DOMAIN brokers /\ Named(dest.own, r.id)
  BY ResolvedAt
<1> HIDE DEF dest
<1>3. CASE Serve(r, dest, One(dest, r.id)) BY <1>1, <1>2, <1>3, AskOneKeeps
<1>4. CASE dest.status = 0 /\ Serve(r, dest, One(dest, r.id) \o One(dest, r.id))
  <2>1. One(dest, r.id) = <<c>> BY <1>4 DEF One
  <2>2. CallOK(c, r) BY <1>1, <1>2, <1>4, PlainCallOK DEF AInv
  <2> HIDE DEF c
  <2> DEFINE made == <<c>> \o <<c>>
  <2>3. <<c>> \in Seq({c}) OBVIOUS
  <2>4. made \in Seq({c}) /\ Len(made) = 2
    <3>1. Len(<<c>>) = 1 OBVIOUS
    <3> QED BY <2>3, <3>1, ConcatProperties
  <2>5. IsSeq(made) /\ made # <<>> /\ \A i \in DOMAIN made : made[i] = c
    <3> HIDE DEF made
    <3> QED BY <2>4, EmptySeq, LenProperties, ElementOfSeq DEF IsSeq
  <2>6. \A i \in DOMAIN made : CallOK(made[i], r) BY <2>2, <2>5
  <2>7. Serve(r, dest, made) BY <1>4, <2>1
  <2> HIDE DEF made
  <2> QED BY <1>1, <2>5, <2>6, <2>7, ServeKeeps
<1> QED BY <1>1, <1>3, <1>4

-----------------------------------------------------------------------------
(* Requests that ask several brokers.                                      *)

LEMMA CandidatesAre ==
  ASSUME NEW S, IsFiniteSet(S), NEW o \in orderBrokerCandidates(S)
  PROVE  /\ Cardinality(S) \in Nat
         /\ o \in [1..Cardinality(S) -> S]
         /\ \A own \in S : \E i \in 1..Cardinality(S) : o[i] = own
<1> DEFINE n == Cardinality(S)
<1>1. n \in Nat BY FS_CardinalityType
<1>2. o \in [1..n -> S] /\ \A i, j \in 1..n : o[i] = o[j] => i = j BY DEF orderBrokerCandidates
<1>3. Cardinality(1..n) = n
  <2> HIDE DEF n
  <2> QED BY <1>1, FS_Interval
<1> HIDE DEF n
<1>4. o \in Injection(1..n, S) BY <1>2 DEF Injection, IsInjective
<1>5. Cardinality(1..n) = Cardinality(S) BY <1>3 DEF n
<1>6. o \in Surjection(1..n, S) BY <1>4, <1>5, FS_Injection
<1> QED BY <1>1, <1>2, <1>6 DEF Surjection, n

LEMMA AskInstrumentKeeps ==
  ASSUME AInv, Idle, NEW r \in Requests, AskInstrument(r) PROVE AInv'
<1>0. PICK dest : dest = resolveBrokerByAccountID(r.id) OBVIOUS
<1> DEFINE asked == IF r.id # NoId THEN {dest.own} ELSE DOMAIN brokers
           able == {own \in asked : ~brokers[own].plain}
<1>1. /\ r.op = "instrument"
      /\ \/ r.id # NoId /\ dest.status # 0 /\ Serve(r, dest, <<>>)
         \/ /\ ~ (r.id # NoId /\ dest.status # 0)
            /\ \/ Serve(r, Refuse(503), <<>>)
               \/ Serve(r, Refuse(501), <<>>)
               \/ \E o \in orderBrokerCandidates(able) :
                    Serve(r, To(NoId), [i \in DOMAIN o |-> Call(o[i], o[i], NoCont, NoSent)])
  BY <1>0 DEF AskInstrument
<1>2. /\ dest.status \in Statuses \ {200}
      /\ dest.status = 0 => dest.own \in DOMAIN brokers /\ Named(dest.own, r.id)
  BY <1>0, ResolvedAt
<1>3. Refuse(503).status \in Statuses \ {200} /\ Refuse(501).status \in Statuses \ {200}
  BY DEF Refuse, Statuses
<1>4. CASE Serve(r, dest, <<>>) BY <1>1, <1>2, <1>4, RefusedKeeps
<1>5. CASE Serve(r, Refuse(503), <<>>) \/ Serve(r, Refuse(501), <<>>)
  BY <1>1, <1>3, <1>5, RefusedKeeps
<1>6. ASSUME ~ (r.id # NoId /\ dest.status # 0), NEW o \in orderBrokerCandidates(able),
             Serve(r, To(NoId), [i \in DOMAIN o |-> Call(o[i], o[i], NoCont, NoSent)])
      PROVE  AInv'
  <2> DEFINE n == Cardinality(able)
             made == [i \in DOMAIN o |-> Call(o[i], o[i], NoCont, NoSent)]
  <2>1. asked \subseteq DOMAIN brokers BY <1>2, <1>6
  <2>2. able \subseteq DOMAIN brokers /\ (r.id = NoId => able = Able) BY <2>1 DEF Able
  <2>3. IsFiniteSet(able)
    <3> HIDE DEF able
    <3> QED BY <2>2, FS_Subset DEF AInv, ConfigOK
  <2>4. /\ n \in Nat /\ o \in [1..n -> able]
        /\ \A own \in able : \E i \in 1..n : o[i] = own
    <3> HIDE DEF able
    <3> QED BY <2>3, <1>6, CandidatesAre
  <2>5. ASSUME NEW own \in able PROVE own \in DOMAIN brokers /\ (r.id # NoId => own = dest.own)
    BY <2>2
  <2> HIDE DEF able, n
  <2>6. DOMAIN made = 1..n /\ \A i \in 1..n : made[i] = Call(o[i], o[i], NoCont, NoSent)
    BY <2>4
  <2>7. \A i \in 1..n : made[i].own = o[i] /\ made[i].account = o[i] /\ made[i].page = NoCont
    BY <2>6, CallIs
  <2>8. IsSeq(made)
    <3>1. made \in [1..n -> {made[i] : i \in 1..n}] BY <2>6
    <3>2. made \in Seq({made[i] : i \in 1..n}) BY <2>4, <3>1, SeqDef
    <3> QED BY <3>2 DEF IsSeq
  <2> HIDE DEF made
  <2>9. ASSUME NEW i \in DOMAIN made PROVE CallOK(made[i], r)
    <3>1. i \in 1..n /\ o[i] \in able BY <2>4, <2>6
    <3>2. made[i].own \in DOMAIN brokers /\ made[i].account = made[i].own
            /\ (r.id # NoId => made[i].own = dest.own)
      BY <2>5, <2>7, <3>1
    <3>3. PageOK(made[i].page, r) BY <1>1, <2>7, <3>1, NoContPage, RequestsAssumption
    <3>4. ASSUME r.id # NoId PROVE Named(made[i].own, r.id) /\ made[i].account.base = r.id.base
      <4>1. Named(made[i].own, r.id) BY <1>2, <1>6, <3>2, <3>4
      <4>2. r.id \in Ids BY RequestsAssumption
      <4> QED BY <3>2, <4>1, <4>2, NamedBase DEF AInv
    <3>5. Reaches(made[i], r) BY <1>1, <3>4 DEF Reaches
    <3>6. Keeps(made[i], r) BY <1>1, <3>3 DEF Keeps
    <3> QED BY <3>2, <3>5, <3>6 DEF CallOK
  <2>10. ASSUME r.id = NoId PROVE {made[i].own : i \in DOMAIN made} = Able
    <3>1. {made[i].own : i \in DOMAIN made} = able BY <2>4, <2>6, <2>7
    <3> QED BY <2>2, <2>10, <3>1
  <2>11. To(NoId).status \in Statuses \ {200} BY DEF To, Statuses
  <2>12. Serve(r, To(NoId), made) BY <1>6 DEF made
  <2> QED BY <1>1, <2>8, <2>9, <2>10, <2>11, <2>12, ServeKeeps
<1> QED BY <1>1, <1>4, <1>5, <1>6

\* There is one way to go through the first numbers in their order.
LEMMA IncreasingIs ==
  ASSUME NEW n \in Nat, NEW o \in [1..n -> 1..n],
         \A i, j \in 1..n : i < j => o[i] < o[j]
  PROVE  \A i \in 1..n : o[i] = i
<1> DEFINE Above == {k \in Nat : k + 1 \in 1..n => o[k + 1] >= k + 1}
           Below == {k \in Nat : n - k \in 1..n => o[n - k] <= n - k}
<1>1. Nat \subseteq Above
  <2>1. 0 \in Above OBVIOUS
  <2>2. ASSUME NEW k \in Nat, k \in Above PROVE k + 1 \in Above
    <3>1. SUFFICES ASSUME (k + 1) + 1 \in 1..n PROVE o[(k + 1) + 1] >= (k + 1) + 1 OBVIOUS
    <3>2. k + 1 \in 1..n /\ k + 1 < (k + 1) + 1 BY <3>1
    <3>3. o[k + 1] >= k + 1 BY <2>2, <3>2
    <3>4. o[k + 1] < o[(k + 1) + 1] BY <3>1, <3>2
    <3>5. o[k + 1] \in Int /\ o[(k + 1) + 1] \in Int BY <3>1, <3>2
    <3> QED BY <3>3, <3>4, <3>5
  <2> HIDE DEF Above
  <2> QED BY <2>1, <2>2, Induction
<1>2. Nat \subseteq Below
  <2>1. 0 \in Below OBVIOUS
  <2>2. ASSUME NEW k \in Nat, k \in Below PROVE k + 1 \in Below
    <3>1. SUFFICES ASSUME n - (k + 1) \in 1..n PROVE o[n - (k + 1)] <= n - (k + 1) OBVIOUS
    <3>2. n - k \in 1..n /\ n - (k + 1) < n - k BY <3>1
    <3>3. o[n - k] <= n - k BY <2>2, <3>2
    <3>4. o[n - (k + 1)] < o[n - k] BY <3>1, <3>2
    <3>5. o[n - k] \in Int /\ o[n - (k + 1)] \in Int BY <3>1, <3>2
    <3> QED BY <3>3, <3>4, <3>5
  <2> HIDE DEF Below
  <2> QED BY <2>1, <2>2, Induction
<1>3. ASSUME NEW i \in 1..n PROVE o[i] = i
  <2>1. i - 1 \in Nat /\ (i - 1) + 1 = i /\ n - i \in Nat /\ n - (n - i) = i OBVIOUS
  <2>2. i - 1 \in Above /\ n - i \in Below BY <1>1, <1>2, <2>1
  <2>3. o[i] >= i /\ o[i] <= i BY <2>1, <2>2
  <2> QED BY <2>3
<1> QED BY <1>3

LEMMA AskSummaryKeeps ==
  ASSUME AInv, Idle, NEW r \in Requests, AskSummary(r) PROVE AInv'
<1> DEFINE served == {i \in DOMAIN accounts : Resolved(accounts[i].id)}
           Of(id) == One(resolveBrokerByAccountID(id), id)[1]
<1>1. r.op = "summary" /\ r.id = NoId BY RequestsAssumption DEF AskSummary
<1>2. PICK o \in inOrder(served) : Serve(r, Refuse(503), [i \in DOMAIN o |-> Of(accounts[o[i]].id)])
  BY DEF AskSummary
<1> DEFINE n == Cardinality(served)
           made == [i \in DOMAIN o |-> Of(accounts[o[i]].id)]
<1>3. Len(accounts) \in Nat /\ DOMAIN accounts = 1..Len(accounts) BY DEF AInv, ConfigOK
<1>4. served \subseteq 1..Len(accounts) BY <1>3
<1>5. /\ IsFiniteSet(served) /\ n \in Nat /\ n <= Len(accounts)
      /\ n = Len(accounts) => served = 1..Len(accounts)
  <2>1. IsFiniteSet(1..Len(accounts)) /\ Cardinality(1..Len(accounts)) = Len(accounts)
    <3>1. PICK m \in Nat : m = Len(accounts) BY <1>3
    <3>2. IsFiniteSet(1..m) /\ Cardinality(1..m) = m BY FS_Interval
    <3> QED BY <3>1, <3>2
  <2>2. served \in SUBSET (1..Len(accounts)) BY <1>4
  <2> HIDE DEF served
  <2> QED BY <2>1, <2>2, FS_Subset, FS_CardinalityType
<1>6. o \in [1..n -> served] /\ \A i, j \in 1..n : i < j => o[i] < o[j] BY DEF inOrder
<1>7. ASSUME NEW i \in served
      PROVE  /\ Of(accounts[i].id).own \in DOMAIN brokers
             /\ Of(accounts[i].id).page = NoCont
             /\ Wired => Of(accounts[i].id).own = accounts[i].id
  <2> DEFINE dest == resolveBrokerByAccountID(accounts[i].id)
             c == Call(dest.own, Touched(dest.own, accounts[i].id), NoCont, NoSent)
  <2>1. dest.status = 0 /\ i \in DOMAIN accounts BY DEF Resolved
  <2>2. One(dest, accounts[i].id) = <<c>> BY <2>1 DEF One
  <2>3. Of(accounts[i].id) = c BY <2>2, SingleIs
  <2>4. c.own = dest.own /\ c.page = NoCont BY CallIs
  <2>5. dest.own \in DOMAIN brokers BY <2>1, ResolvedAt
  <2>6. Wired => dest.own = accounts[i].id BY <2>1, WiredIs DEF AInv
  <2> QED BY <2>3, <2>4, <2>5, <2>6
<1> HIDE DEF served, n, Of
<1>8. DOMAIN made = 1..n /\ \A i \in 1..n : made[i] = Of(accounts[o[i]].id) BY <1>6
<1>9. made \in Seq({made[i] : i \in 1..n})
  <2>1. made \in [1..n -> {made[i] : i \in 1..n}] BY <1>8
  <2> QED BY <2>1, <1>5, SeqDef
<1>10. Serve(r, Refuse(503), made) BY <1>2
<1> HIDE DEF made
<1>11. IsSeq(made) /\ Len(made) = n BY <1>5, <1>8, <1>9 DEF IsSeq
<1>12. ASSUME NEW i \in DOMAIN made PROVE CallOK(made[i], r)
  <2>1. i \in 1..n /\ o[i] \in served BY <1>6, <1>8
  <2>2. made[i].own \in DOMAIN brokers /\ made[i].page = NoCont BY <1>7, <1>8, <2>1
  <2>3. PageOK(made[i].page, r) BY <1>1, <2>2, NoContPage, RequestsAssumption
  <2>4. Reaches(made[i], r) BY <1>1 DEF Reaches
  <2>5. Keeps(made[i], r) BY <1>1, <2>3 DEF Keeps
  <2> QED BY <2>2, <2>4, <2>5 DEF CallOK
<1>13. ASSUME Wired, Len(made) = Len(accounts)
       PROVE  \A i \in DOMAIN made : made[i].own = accounts[i].id
  <2>1. n = Len(accounts) /\ served = 1..n BY <1>5, <1>11, <1>13
  <2>2. \A i \in 1..n : o[i] = i BY <1>5, <1>6, <2>1, IncreasingIs
  <2> QED BY <1>7, <1>8, <1>13, <2>1, <2>2
<1>14. Refuse(503).status \in Statuses \ {200} BY DEF Refuse, Statuses
<1>15. r.op # "instrument" BY <1>1
<1> QED BY <1>10, <1>11, <1>12, <1>13, <1>14, <1>15, ServeKeeps

-----------------------------------------------------------------------------
(* Requests for an interface.                                              *)

LEMMA ForwardKeeps ==
  ASSUME AInv, Idle, NEW r \in Requests, r.op = "proxy",
         NEW dest, dest = resolveProxyBroker(r.code, r.id),
         NEW page, page # Refused => PageOK(page, r), NEW sends,
         dest.status = 0 => \A sent \in sends :
           SentAsDocumented(r.code, brokers[dest.own].sandbox, r.wanted, sent),
         Forward(r, dest, page, sends)
  PROVE  AInv'
<1>0. ConfigOK BY DEF AInv
<1>1. /\ dest.status \in {0, 400, 404, 503}
      /\ dest.status = 0 => dest.own \in DOMAIN brokers
      /\ dest.status = 0 /\ r.id # NoId => Named(dest.own, r.id)
      /\ dest.status = 0 /\ Wired => brokers[dest.own].code = r.code
  BY <1>0, ProxyIs
<1>2. CASE dest.status # 0
  <2>1. Serve(r, dest, <<>>) BY <1>2 DEF Forward
  <2>2. dest.status \in Statuses \ {200} BY <1>1 DEF Statuses
  <2> QED BY <2>1, <2>2, RefusedKeeps
<1>3. CASE Serve(r, Refuse(400), <<>>)
  <2>1. Refuse(400).status \in Statuses \ {200} BY DEF Refuse, Statuses
  <2> QED BY <1>3, <2>1, RefusedKeeps
<1>4. CASE dest.status = 0 /\ ~Serve(r, Refuse(400), <<>>)
  <2>1. page # Refused /\ \E sent \in sends :
          Serve(r, dest, <<Call(dest.own, Touched(dest.own, NoId), page, sent)>>)
    BY <1>4 DEF Forward
  <2>2. PICK sent \in sends : Serve(r, dest, <<Call(dest.own, Touched(dest.own, NoId), page, sent)>>)
    BY <2>1
  <2> DEFINE c == Call(dest.own, Touched(dest.own, NoId), page, sent)
  <2>3. c.own = dest.own /\ c.account = Touched(dest.own, NoId) /\ c.page = page /\ c.sent = sent
    BY CallIs
  <2> HIDE DEF c
  <2>4. ASSUME r.id # NoId PROVE Named(dest.own, r.id) /\ c.account.base = r.id.base
    <3>1. Named(dest.own, r.id) BY <1>1, <1>4, <2>4
    <3>2. r.id \in Ids BY RequestsAssumption
    <3>3. Touched(dest.own, NoId).base = r.id.base BY <1>0, <2>4, <3>1, <3>2, TouchedIs
    <3> QED BY <2>3, <3>1, <3>3
  <2>5. Reaches(c, r) BY <2>3, <2>4 DEF Reaches
  <2>6. SentAsDocumented(r.code, brokers[dest.own].sandbox, r.wanted, sent) BY <1>4
  <2>7. Keeps(c, r)
    <3>1. Wired => brokers[c.own].code = r.code BY <1>1, <1>4, <2>3
    <3>2. PageOK(c.page, r) BY <2>1, <2>3
    <3>3. SentAsDocumented(r.code, brokers[c.own].sandbox, r.wanted, c.sent) BY <2>3, <2>6
    <3> QED BY <3>1, <3>2, <3>3 DEF Keeps
  <2>8. CallOK(c, r) BY <1>1, <1>4, <2>3, <2>5, <2>7 DEF CallOK
  <2>9. Serve(r, dest, <<c>>) BY <2>2 DEF c
  <2> QED BY <2>8, <2>9, OneCallKeeps
<1> QED BY <1>2, <1>3, <1>4

LEMMA MalformedKeeps ==
  ASSUME AInv, Idle, NEW r \in Requests, Malformed(r) PROVE AInv'
<1>1. r.op = "proxy" /\ Serve(r, Refuse(400), <<>>) BY DEF Malformed
<1>2. Refuse(400).status \in Statuses \ {200} BY DEF Refuse, Statuses
<1> QED BY <1>1, <1>2, RefusedKeeps

LEMMA AskKISKeeps ==
  ASSUME AInv, Idle, NEW r \in Requests, AskKIS(r) PROVE AInv'
<1>1. r.op = "proxy" /\ r.code = "kis" BY DEF AskKIS, WellFormed
<1>2. PICK dest : dest = resolveProxyBroker(r.code, r.id) OBVIOUS
<1> DEFINE sends == callKISEndpoint(r.wanted, dest.status = 0 /\ brokers[dest.own].sandbox)
<1>3. Forward(r, dest, NoCont, sends) BY <1>1, <1>2 DEF AskKIS
<1>4. ASSUME dest.status = 0, NEW sent \in sends
      PROVE  SentAsDocumented(r.code, brokers[dest.own].sandbox, r.wanted, sent)
  <2>0. ConfigOK BY DEF AInv
  <2>1. dest.own \in DOMAIN brokers BY <2>0, <1>2, <1>4, ProxyIs
  <2>2. brokers[dest.own].sandbox \in BOOLEAN BY <2>0, <2>1 DEF ConfigOK
  <2>3. (dest.status = 0 /\ brokers[dest.own].sandbox) = brokers[dest.own].sandbox BY <1>4, <2>2
  <2>4. sent \in callKISEndpoint(r.wanted, brokers[dest.own].sandbox) BY <1>4, <2>3
  <2> QED BY <1>1, <2>2, <2>4, KISSent
<1>5. PageOK(NoCont, r) BY <1>1, NoContPage, RequestsAssumption
<1> HIDE DEF sends
<1> QED BY <1>1, <1>2, <1>3, <1>4, <1>5, ForwardKeeps

LEMMA AskKiwoomKeeps ==
  ASSUME AInv, Idle, NEW r \in Requests, AskKiwoom(r) PROVE AInv'
<1>1. r.op = "proxy" /\ r.code = "kiwoom" BY DEF AskKiwoom, WellFormed
<1>2. PICK dest : dest = resolveProxyBroker(r.code, r.id) OBVIOUS
<1>3. Forward(r, dest, kiwoomRequestContinuation(r.head, r.inBody), callKiwoomEndpoint(r.wanted))
  BY <1>1, <1>2 DEF AskKiwoom
<1>4. \A sent \in callKiwoomEndpoint(r.wanted) :
        SentAsDocumented(r.code, brokers[dest.own].sandbox, r.wanted, sent)
  BY <1>1, KiwoomSent
<1> QED BY <1>1, <1>2, <1>3, <1>4, KiwoomPage, ForwardKeeps

LEMMA AskLSKeeps ==
  ASSUME AInv, Idle, NEW r \in Requests, AskLS(r) PROVE AInv'
<1>1. r.op = "proxy" /\ r.code = "ls" BY DEF AskLS, WellFormed
<1>2. PICK dest : dest = resolveProxyBroker(r.code, r.id) OBVIOUS
<1>3. Forward(r, dest, lsRequestContinuation(r.head, r.inBody), callLSEndpoint(r.wanted))
  BY <1>1, <1>2 DEF AskLS
<1>4. \A sent \in callLSEndpoint(r.wanted) :
        SentAsDocumented(r.code, brokers[dest.own].sandbox, r.wanted, sent)
  BY <1>1, LSSent
<1> QED BY <1>1, <1>2, <1>3, <1>4, LSPage, ForwardKeeps

LEMMA AskTossKeeps ==
  ASSUME AInv, Idle, NEW r \in Requests, AskToss(r) PROVE AInv'
<1>1. r.op = "proxy" /\ r.code = "toss" BY DEF AskToss, WellFormed
<1>2. PICK dest : dest = resolveProxyBroker(r.code, r.id) OBVIOUS
<1>3. PICK sends \in SUBSET callTossEndpoint(r.wanted) : Forward(r, dest, NoCont, sends)
  BY <1>1, <1>2 DEF AskToss
<1>4. \A sent \in callTossEndpoint(r.wanted) :
        SentAsDocumented(r.code, brokers[dest.own].sandbox, r.wanted, sent)
  BY <1>1, TossSent
<1>5. PageOK(NoCont, r) BY <1>1, NoContPage, RequestsAssumption
<1> QED BY <1>1, <1>2, <1>3, <1>4, <1>5, ForwardKeeps

-----------------------------------------------------------------------------
(* What a server starts with.                                              *)

\* Accounts of which each has an id of its own.
Distinct(as) == \A i, j \in DOMAIN as : as[i].id = as[j].id => i = j

LEMMA ServedIds ==
  ASSUME NEW as \in Seq(Configured), NEW S, S \subseteq {as[i].id : i \in DOMAIN as}
  PROVE  IsFiniteSet(S) /\ S \subseteq Ids
<1> DEFINE T == {as[i].id : i \in DOMAIN as}
           f == [i \in DOMAIN as |-> as[i].id]
<1>1. DOMAIN as = 1..Len(as) /\ Len(as) \in Nat /\ \A i \in DOMAIN as : as[i] \in Configured
  BY LenProperties, ElementOfSeq
<1>2. T \subseteq Ids BY <1>1 DEF Configured
<1>3. IsFiniteSet(DOMAIN as)
  <2>1. PICK m \in Nat : m = Len(as) BY <1>1
  <2>2. IsFiniteSet(1..m) BY FS_Interval
  <2> QED BY <1>1, <2>1, <2>2
<1>4. f \in Surjection(DOMAIN as, T) BY DEF Surjection
<1>5. S \in SUBSET T OBVIOUS
<1> HIDE DEF f, T
<1>6. IsFiniteSet(T) BY <1>3, <1>4, FS_Surjection
<1>7. IsFiniteSet(S) BY <1>5, <1>6, FS_Subset
<1> QED BY <1>2, <1>5, <1>7

LEMMA ConfigIs ==
  ASSUME NEW as \in Seq(Configured), Distinct(as), accounts = as,
         IsFiniteSet(DOMAIN brokers), DOMAIN brokers \subseteq Ids,
         \A own \in DOMAIN brokers : \E i \in DOMAIN as :
           /\ as[i].id = own
           /\ brokers[own].code = as[i].code /\ brokers[own].sandbox = as[i].sandbox
  PROVE  ConfigOK
<1>1. \A i \in DOMAIN as : as[i] \in Configured BY LenProperties, ElementOfSeq
<1>2. \A i \in DOMAIN as : as[i].sandbox \in BOOLEAN BY <1>1 DEF Configured
<1>3. \A own \in DOMAIN brokers : brokers[own].sandbox \in BOOLEAN BY <1>2
<1>4. ASSUME NEW i \in DOMAIN as, as[i].id \in DOMAIN brokers
      PROVE  brokers[as[i].id].code = as[i].code /\ brokers[as[i].id].sandbox = as[i].sandbox
  <2>1. PICK j \in DOMAIN as :
          /\ as[j].id = as[i].id
          /\ brokers[as[i].id].code = as[j].code /\ brokers[as[i].id].sandbox = as[j].sandbox
    BY <1>4
  <2>2. i = j BY <2>1 DEF Distinct
  <2> QED BY <2>1, <2>2
<1> QED BY <1>3, <1>4 DEF ConfigOK

LEMMA ValidateIs ==
  ASSUME NEW c \in Configs PROVE Validate(c) \in Seq(Configured) /\ Distinct(Validate(c))
<1> DEFINE n == [i \in DOMAIN c |-> normalized(c[i])]
<1>1. c \in Seq(Configured) BY AccountsAssumption
<1>2. DOMAIN c = 1..Len(c) /\ Len(c) \in Nat /\ \A i \in DOMAIN c : c[i] \in Configured BY <1>1
<1>3. ASSUME NEW a \in Configured PROVE normalized(a) \in Configured
  <2>1. "01" \in STRING BY AccountsAssumption
  <2>2. a.id \in Ids BY DEF Configured
  <2>3. [a.id EXCEPT !.suffix = "01"] \in Ids BY <2>1, <2>2 DEF Ids
  <2>4. [a EXCEPT !.id.suffix = "01"] = [a EXCEPT !.id = [a.id EXCEPT !.suffix = "01"]]
    BY DEF Configured
  <2>5. [a EXCEPT !.id.suffix = "01"] \in Configured BY <2>3, <2>4 DEF Configured
  <2> QED BY <2>5 DEF normalized
<1>4. n \in [1..Len(c) -> Configured] BY <1>2, <1>3
<1>5. n \in Seq(Configured) /\ DOMAIN n = DOMAIN c BY <1>2, <1>4, SeqDef
<1>6. <<>> \in Seq(Configured) /\ Distinct(<<>>) BY DEF Distinct
<1>7. CASE Validate(c) = <<>> BY <1>6, <1>7
<1>8. CASE Validate(c) # <<>>
  <2>1. Validate(c) = n /\ \A i, j \in DOMAIN c : n[i].id = n[j].id => i = j BY <1>8 DEF Validate
  <2> HIDE DEF n
  <2> QED BY <1>5, <2>1 DEF Distinct
<1> QED BY <1>7, <1>8

LEMMA AInvInit == ASSUME AccountsInit PROVE AInv
<1>1. request = NoRequest /\ todo = <<>> /\ calls = <<>> /\ answer = 0 BY DEF AccountsInit
<1>2. ConfigOK
  <2>1. CASE \E c \in Configs : accounts = Validate(c) /\ brokers = init(Validate(c))
    <3>1. PICK c \in Configs : accounts = Validate(c) /\ brokers = init(Validate(c)) BY <2>1
    <3> DEFINE as == Validate(c)
               ids == {as[i].id : i \in DOMAIN as}
    <3>2. as \in Seq(Configured) /\ Distinct(as) BY ValidateIs
    <3> HIDE DEF as
    <3>3. accounts = as /\ brokers = init(as) BY <3>1 DEF as
    <3>4. DOMAIN brokers = ids BY <3>3 DEF init
    <3>5. IsFiniteSet(ids) /\ ids \subseteq Ids BY <3>2, ServedIds
    <3>6. ASSUME NEW own \in ids
          PROVE  \E i \in DOMAIN as :
                   /\ as[i].id = own
                   /\ brokers[own].code = as[i].code /\ brokers[own].sandbox = as[i].sandbox
      <4> DEFINE i == CHOOSE i \in DOMAIN as : as[i].id = own
      <4>1. i \in DOMAIN as /\ as[i].id = own OBVIOUS
      <4>2. brokers[own] = Broker(as[i], FALSE, FALSE) BY <3>3 DEF init
      <4> HIDE DEF i
      <4>3. brokers[own].code = as[i].code /\ brokers[own].sandbox = as[i].sandbox
        BY <4>2 DEF Broker
      <4> QED BY <4>1, <4>3
    <3> QED BY <3>2, <3>3, <3>4, <3>5, <3>6, ConfigIs
  <2>2. CASE \E e \in Embedded : accounts = e.accounts /\ brokers = NewWithBrokers(e)
    <3>1. PICK e \in Embedded : accounts = e.accounts /\ brokers = NewWithBrokers(e) BY <2>2
    <3>2. /\ e.accounts \in Seq(Configured) /\ Distinct(e.accounts)
          /\ e.served \subseteq {e.accounts[i].id : i \in DOMAIN e.accounts}
      BY EmbeddedAssumption DEF Distinct
    <3>3. DOMAIN brokers = e.served BY <3>1 DEF NewWithBrokers
    <3>4. IsFiniteSet(e.served) /\ e.served \subseteq Ids BY <3>2, ServedIds
    <3>5. ASSUME NEW own \in e.served
          PROVE  \E i \in DOMAIN e.accounts :
                   /\ e.accounts[i].id = own
                   /\ brokers[own].code = e.accounts[i].code
                   /\ brokers[own].sandbox = e.accounts[i].sandbox
      <4> DEFINE i == CHOOSE i \in DOMAIN e.accounts : e.accounts[i].id = own
      <4>1. i \in DOMAIN e.accounts /\ e.accounts[i].id = own BY <3>2
      <4>2. brokers[own] = Broker(e.accounts[i], own \in e.plain, TRUE)
        BY <3>1 DEF NewWithBrokers
      <4> HIDE DEF i
      <4>3. brokers[own].code = e.accounts[i].code /\ brokers[own].sandbox = e.accounts[i].sandbox
        BY <4>2 DEF Broker
      <4> QED BY <4>1, <4>3
    <3> QED BY <3>1, <3>2, <3>3, <3>4, <3>5, ConfigIs
  <2> QED BY <2>1, <2>2 DEF AccountsInit
<1>3. IsSeq(todo) /\ IsSeq(calls) /\ DOMAIN todo = {} /\ DOMAIN calls = {} BY <1>1, NothingIs
<1>4. SummaryInv /\ InstrumentInv BY <1>1, NoRequestIs DEF SummaryInv, InstrumentInv
<1> QED BY <1>1, <1>2, <1>3, <1>4 DEF AInv, Statuses

LEMMA AInvStep == ASSUME AInv, [AccountsNext]_accountVars PROVE AInv'
<1>1. ASSUME Idle, NEW r \in Requests,
             \/ AskBalance(r) \/ AskPositions(r) \/ AskChange(r) \/ AskOrder(r) \/ AskPlace(r)
             \/ AskQuote(r) \/ AskInstrument(r) \/ AskSummary(r) \/ AskAuth(r)
             \/ Malformed(r) \/ AskKIS(r) \/ AskKiwoom(r) \/ AskLS(r) \/ AskToss(r)
      PROVE  AInv'
  BY <1>1, AskBalanceKeeps, AskPositionsKeeps, AskChangeKeeps, AskOrderKeeps, AskPlaceKeeps,
     AskQuoteKeeps, AskInstrumentKeeps, AskSummaryKeeps, AskAuthKeeps, MalformedKeeps,
     AskKISKeeps, AskKiwoomKeeps, AskLSKeeps, AskTossKeeps
<1>2. CASE CallBroker BY <1>2, CallBrokerKeeps
<1>3. CASE Answered BY <1>3, AnsweredKeeps
<1>4. CASE UNCHANGED accountVars
  <2>1. /\ accounts' = accounts /\ brokers' = brokers /\ request' = request
        /\ todo' = todo /\ calls' = calls /\ answer' = answer
    BY <1>4 DEF accountVars
  <2>2. ConfigOK' BY <2>1 DEF ConfigOK, AInv
  <2>3. SummaryInv' /\ InstrumentInv'
    BY <2>1 DEF AInv, SummaryInv, InstrumentInv, Wired, Able
  <2>4. ASSUME NEW c, CallOK(c, request) PROVE CallOK(c, request)'
    <3>1. Named(c.own, request.id) => Named(c.own, request.id)' BY <2>1 DEF Named
    <3>2. Reaches(c, request)' BY <2>1, <2>4, <3>1 DEF CallOK, Reaches
    <3>3. Keeps(c, request)' BY <2>1, <2>4 DEF CallOK, Keeps, Wired
    <3> QED BY <2>1, <2>4, <3>2, <3>3 DEF CallOK
  <2> QED BY <2>1, <2>2, <2>3, <2>4 DEF AInv, Idle
<1> QED BY <1>1, <1>2, <1>3, <1>4 DEF AccountsNext

\* The accounts and brokers of a server, the request it is serving and the calls made for
\* it keep their types.
THEOREM AccountsTypes == AccountsSpec => []AccountsTypeOK
<1>1. AccountsInit => AInv BY AInvInit
<1>2. AInv /\ [AccountsNext]_accountVars => AInv' BY AInvStep
<1>3. AInv => AccountsTypeOK BY AInvImplies
<1> QED BY <1>1, <1>2, <1>3, PTL DEF AccountsSpec

\* Whatever is configured and asked, the calls made for a request go to the account it
\* names and to a broker of its kind, as documented, a summary that is answered holds every
\* account, and an instrument is unknown only if every broker said so.
THEOREM AccountsRequestReachesItsAccount == AccountsSpec => []RequestReachesItsAccount
<1>1. AccountsInit => AInv BY AInvInit
<1>2. AInv /\ [AccountsNext]_accountVars => AInv' BY AInvStep
<1>3. AInv => RequestReachesItsAccount BY AInvImplies
<1> QED BY <1>1, <1>2, <1>3, PTL DEF AccountsSpec

-----------------------------------------------------------------------------
(* All together, as the runs have them.                                    *)

LEMMA FilesAreTokensAndOrders == FilesSpec => TokenFilesSpec /\ StoreSpec
<1>1. FilesInit => TokenFilesInit /\ StoreInit
  BY DEF FilesInit
<1>2. [FilesNext]_filesVars => [TokenFilesNext]_tokenFilesVars /\ [StoreNext]_storeVars
  BY DEF FilesNext, filesVars
<1> QED
  BY <1>1, <1>2, PTL DEF FilesSpec, TokenFilesSpec, StoreSpec

\* Everything the server keeps on disk, and the maps it is read into, keeps its type.
THEOREM FilesTypes == FilesSpec => []FilesTypeOK
<1>1. TokenFilesTypeOK /\ StoreTypeOK => FilesTypeOK
  BY DEF FilesTypeOK
<1> QED
  BY <1>1, FilesAreTokensAndOrders, FileTokenTypes, OrderContextStoreTypes, PTL

LEMMA ServerIsItsParts == Spec => ProxySpec /\ AccountsSpec /\ MasterSpec
<1>1. Init => ProxyInit /\ AccountsInit /\ MasterInit
  BY DEF Init
<1>2. [Next]_vars =>
        [ProxyNext]_proxyVars /\ [AccountsNext]_accountVars /\ [MasterNext]_masterVars
  BY DEF Next, vars
<1> QED
  BY <1>1, <1>2, PTL DEF Spec, ProxySpec, AccountsSpec, MasterSpec

\* The answers the server keeps, the requests it serves and the index it rebuilds keep
\* their types.
THEOREM ServerTypes == Spec => []TypeOK
<1>1. ProxyTypeOK /\ AccountsTypeOK /\ MasterTypeOK => TypeOK
  BY DEF TypeOK
<1> QED
  BY <1>1, ServerIsItsParts, ProxyTypes, AccountsTypes, MasterSymbolsTypes, PTL
=============================================================================
