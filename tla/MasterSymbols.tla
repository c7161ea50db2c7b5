--------------------------- MODULE MasterSymbols ----------------------------
(***************************************************************************)
(* The index of symbols read from the master files that KIS publishes      *)
(* (internal/kis/master_symbols.go): one goroutine per KIS account builds  *)
(* it at the start and again every day, the index is one for the process   *)
(* and requests read it while it is rebuilt.                               *)
(*                                                                         *)
(* A record is [market, symbol, day], the day being the one its file was   *)
(* published; what else it says is left out.                               *)
(***************************************************************************)
EXTENDS Naturals, Sequences, TLC

CONSTANTS
  Builders,    \* the goroutines, one per KIS account
  Sources,     \* the markets of the files, in the order they are read
  Listed,      \* the symbols of each market
  MarketNames, \* the names of markets that are looked up, "" for none
  LastDay      \* a bound of the model

ASSUME MasterSymbolsAssumption ==
  /\ Sources \in Seq(DOMAIN Listed) /\ Sources # <<>>
  /\ "" \notin DOMAIN Listed
  /\ LastDay \in Nat \ {0}

VARIABLES
  today,             \* the day of the files that are published
  bootstrapping,     \* masterSymbolsBootstrapping
  masterSymbols,     \* the index that is served
  masterSymbolsLoaded,
  doing,             \* where each goroutine is
  idx,               \* the index it builds
  reading            \* the file it reads next

masterVars == <<today, bootstrapping, masterSymbols, masterSymbolsLoaded, doing, idx, reading>>

Markets == {Sources[i] : i \in DOMAIN Sources}
Symbols == UNION {Listed[m] : m \in Markets}
Records == [market : Markets, symbol : Symbols, day : 1..LastDay]
NoRecord == [market |-> "", symbol |-> "", day |-> 0]

NoMap == [k \in {} |-> NoRecord]
Empty == [byMarketSymbol |-> NoMap, domesticBySym |-> NoMap, usBySym |-> NoMap, anyBySym |-> NoMap]

IsIndex(i) ==
  /\ DOMAIN i.byMarketSymbol \subseteq Markets \X Symbols
  /\ \A k \in DOMAIN i.byMarketSymbol : i.byMarketSymbol[k] \in Records
  /\ \A f \in {"domesticBySym", "usBySym", "anyBySym"} :
       DOMAIN i[f] \subseteq Symbols /\ \A s \in DOMAIN i[f] : i[f][s] \in Records

MasterTypeOK ==
  /\ today \in 1..LastDay
  /\ {bootstrapping, masterSymbolsLoaded} \subseteq BOOLEAN
  /\ IsIndex(masterSymbols)
  /\ doing \in [Builders -> {"bootstrap", "reload", "build", "install", "rest"}]
  /\ \A b \in Builders : IsIndex(idx[b]) /\ reading[b] \in 1..(Len(Sources) + 1)

MasterInit ==
  /\ today = 1
  /\ bootstrapping = FALSE
  /\ masterSymbols = Empty
  /\ masterSymbolsLoaded = FALSE
  /\ doing = [b \in Builders |-> "bootstrap"]
  /\ idx = [b \in Builders |-> Empty]
  /\ reading = [b \in Builders |-> 1]

-----------------------------------------------------------------------------
\* canonicalLookupMarket: the names of a market; one that is not known is its own market.
Aliases ==
  "US-NASDAQ" :> {"NASDAQ", "NAS", "NASD"} @@ "US-NYSE" :> {"NYSE", "NYS"} @@ "US-AMEX" :> {"AMEX", "AMS"}
    @@ "KONEX" :> {"KNX"} @@ "HK" :> {"HKS", "SEHK"} @@ "JP" :> {"JAPAN", "TKSE", "TSE"}
    @@ "SH" :> {"SHAA", "SHS"} @@ "SZ" :> {"SZAA", "SZS"} @@ "HNX" :> {"HASE"} @@ "HSX" :> {"VNSE"}

canonicalLookupMarket(name) ==
  LET meant == {m \in DOMAIN Aliases : name \in Aliases[m]}
  IN  IF meant = {} THEN name ELSE CHOOSE m \in meant : TRUE

Domestic == {"KRX", "KOSPI", "KOSDAQ", "KONEX", "NXT"}
American == {"US", "US-NASDAQ", "US-NYSE", "US-AMEX"}

\* The records a file gives to one of the maps by symbol, on the day it is read.
Given(market, wanted) ==
  [s \in {s \in Listed[market] : wanted} |-> [market |-> market, symbol |-> s, day |-> today]]

Keyed(market) == [k \in {market} \X Listed[market] |-> Given(market, TRUE)[k[2]]]

\* The first record of a key stays.
Put(map, given) ==
  [k \in DOMAIN map \cup DOMAIN given |-> IF k \in DOMAIN map THEN map[k] ELSE given[k]]

\* add, for all that the file of a market has.
AddAll(i, market) ==
  [byMarketSymbol |-> Put(i.byMarketSymbol, Keyed(market)),
   domesticBySym  |-> Put(i.domesticBySym, Given(market, market \in Domestic)),
   usBySym        |-> Put(i.usBySym, Given(market, market \in American)),
   anyBySym       |-> Put(i.anyBySym, Given(market, TRUE))]

\* lookupMasterSymbolFromIndex: the market that is named, then its country, then any.
LookupMasterSymbol(i, name, s) ==
  LET m == canonicalLookupMarket(name)
  IN  IF m # "" /\ <<m, s>> \in DOMAIN i.byMarketSymbol
        THEN i.byMarketSymbol[<<m, s>>]
      ELSE IF (m = "" \/ m \in Domestic) /\ s \in DOMAIN i.domesticBySym
        THEN i.domesticBySym[s]
      ELSE IF m \in American /\ s \in DOMAIN i.usBySym
        THEN i.usBySym[s]
      ELSE IF s \in DOMAIN i.anyBySym
        THEN i.anyBySym[s]
      ELSE NoRecord

-----------------------------------------------------------------------------
Do(b, d) == doing' = [doing EXCEPT ![b] = d]

\* Fault: who comes to build does not look whether another one builds.
BeginUnguarded(b) ==
  /\ doing[b] \in {"bootstrap", "reload"}
  /\ bootstrapping' = TRUE
  /\ idx' = [idx EXCEPT ![b] = Empty]
  /\ reading' = [reading EXCEPT ![b] = 1]
  /\ Do(b, "build")
  /\ UNCHANGED <<today, masterSymbols, masterSymbolsLoaded>>

\* rebuildMasterSymbols: one builds, the others look again every 100 ms.
Begin(b) ==
  /\ doing[b] = "bootstrap" => ~masterSymbolsLoaded
  /\ ~bootstrapping
  /\ BeginUnguarded(b)

\* A bootstrap that finds the index loaded, and anyone whose time runs out waiting.
Spare(b) ==
  /\ \/ doing[b] = "bootstrap" /\ masterSymbolsLoaded
     \/ doing[b] \in {"bootstrap", "reload"} /\ bootstrapping
  /\ Do(b, "rest")
  /\ UNCHANGED <<today, bootstrapping, masterSymbols, masterSymbolsLoaded, idx, reading>>

\* buildMasterSymbolsIndex reads file by file; one that cannot be fetched is skipped.
Read(b) ==
  /\ doing[b] = "build"
  /\ reading' = [reading EXCEPT ![b] = @ + 1]
  /\ \/ idx' = [idx EXCEPT ![b] = AddAll(@, Sources[reading[b]])]
     \/ UNCHANGED idx
  /\ Do(b, IF reading[b] = Len(Sources) THEN "install" ELSE "build")
  /\ UNCHANGED <<today, bootstrapping, masterSymbols, masterSymbolsLoaded>>

\* An index with no record at all is an error, and what was served stays.
Install(b) ==
  /\ doing[b] = "install"
  /\ bootstrapping' = FALSE
  /\ IF idx[b] = Empty
       THEN UNCHANGED <<masterSymbols, masterSymbolsLoaded>>
       ELSE masterSymbols' = idx[b] /\ masterSymbolsLoaded' = TRUE
  /\ idx' = [idx EXCEPT ![b] = Empty]
  /\ reading' = [reading EXCEPT ![b] = 1]
  /\ Do(b, "rest")
  /\ UNCHANGED today

\* The ticker of a goroutine, once a day.
Ticker(b) ==
  /\ doing[b] = "rest"
  /\ Do(b, "reload")
  /\ UNCHANGED <<today, bootstrapping, masterSymbols, masterSymbolsLoaded, idx, reading>>

\* KIS publishes new files, also while they are being read.
Publish ==
  /\ today < LastDay
  /\ today' = today + 1
  /\ UNCHANGED <<bootstrapping, masterSymbols, masterSymbolsLoaded, doing, idx, reading>>

MasterNext ==
  \/ Publish
  \/ \E b \in Builders : Begin(b) \/ Spare(b) \/ Read(b) \/ Install(b) \/ Ticker(b)

MasterSpec == MasterInit /\ [][MasterNext]_masterVars

-----------------------------------------------------------------------------
(* Properties.                                                             *)

\* No record is ever replaced by one from an older file, and nothing served is lost
\* to a rebuild that fetched nothing, however the goroutines of several accounts
\* overlap and whenever the files change.
NothingOlder ==
  LET old == masterSymbols.byMarketSymbol
      new == masterSymbols'.byMarketSymbol
  IN  /\ \A k \in DOMAIN old \cap DOMAIN new : old[k].day <= new[k].day
      /\ old # NoMap => new # NoMap

\* A lookup finds a symbol whenever some market of the index lists it, and in the
\* market that is named when that one does; a name that says Korea or the US, or
\* none, is answered from there as long as any market there lists the symbol.
LookupIsRight(i) ==
  LET In(m, s) == <<m, s>> \in DOMAIN i.byMarketSymbol
  IN  \A name \in MarketNames, s \in Symbols :
        LET rec == LookupMasterSymbol(i, name, s)
            m == canonicalLookupMarket(name)
            home == CASE m \in Domestic \cup {""} -> Domestic
                      [] m \in American -> American
                      [] OTHER -> {}
        IN  /\ rec = NoRecord <=> \A n \in Markets : ~In(n, s)
            /\ rec # NoRecord => rec.symbol = s /\ i.byMarketSymbol[<<rec.market, s>>] = rec
            /\ m \in Markets /\ In(m, s) => rec.market = m
            /\ (\E n \in home : In(n, s)) => rec.market \in home

\* What is served only ever gets newer, and its maps say the same.
MasterNeverOlder ==
  [][masterSymbols' # masterSymbols => NothingOlder /\ LookupIsRight(masterSymbols')]_masterVars
=============================================================================
