------------------------------- MODULE MCFiles ------------------------------
(* What the server keeps on disk, for TLC: the token files of all brokers    *)
(* and the order contexts of one account.  The two share nothing, and each   *)
(* behaviour is about one of them.                                           *)
EXTENDS FileToken, MCOrderContextStore

CONSTANTS kis, kiwoom, ls, toss, k1, k2

VARIABLE side  \* what the behaviour is about, which does not change

filesVars == <<side, tokenFilesVars, storeVars>>

FilesSymmetry == Permutations(Tokens) \cup Permutations(Orders)

\* internal/server/broker_init.go.
FourManagers == <<kis, kiwoom, ls, toss>>

\* One key of a broker that reads every file, one of a broker with a prefix.
LSAndKiwoom == (k1 :> ls @@ k2 :> kiwoom)

\* The options of the token_manager.go files.
Prefixes == (kis :> "" @@ kiwoom :> "kiwoom-" @@ ls :> "" @@ toss :> "toss-")

\* Five, three and two minutes, as positions in the life of a token: 4 is more
\* than five minutes left, 3 more than three, 2 more than two, 1 less, 0 expired.
Buffers == (kis :> 3 @@ kiwoom :> 2 @@ ls :> 3 @@ toss :> 1)

FilesTypeOK == TokenFilesTypeOK /\ StoreTypeOK

FilesInit ==
  /\ side \in {"tokens", "orders"}
  /\ TokenFilesInit
  /\ StoreInit
  /\ side = "tokens" => adapter = "LS"

FilesNext ==
  /\ \/ side = "tokens" /\ TokenFilesNext /\ UNCHANGED storeVars
     \/ side = "orders" /\ StoreNext /\ UNCHANGED tokenFilesVars
  /\ UNCHANGED side

FilesSpec == FilesInit /\ [][FilesNext]_filesVars
=============================================================================
