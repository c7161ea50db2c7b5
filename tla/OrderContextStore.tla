-------------------------- MODULE OrderContextStore -------------------------
(***************************************************************************)
(* The order contexts of one account: the map an adapter keeps in memory,  *)
(* and the file internal/orderctxstore/store.go writes it to after every   *)
(* change so that a restarted server still knows the orders it placed.     *)
(* The LS adapter persists inside the critical section that changes the    *)
(* map; the KIS and Kiwoom adapters release the lock first and take it     *)
(* again for a snapshot.                                                   *)
(*                                                                         *)
(* A context is abstracted to its version, the number of the store that    *)
(* wrote it, which also stands for its UpdatedAt or PlacedAt.  The file    *)
(* system is modelled by inodes, because the temporary file of every       *)
(* Persist has the same name.                                              *)
(***************************************************************************)
EXTENDS Naturals, FiniteSets

CONSTANTS
  Workers,          \* request goroutines that change contexts of the account
  Orders,           \* order numbers
  Inodes,           \* files that ever existed under either name
  None,             \* no inode, nobody
  Adapters,         \* the brokers' adapters, each with its way to persist
  MayOverlap,       \* requests may overlap in the adapters that do not lock
  Limit,            \* contexts kept (300 in the code)
  MaxVersion        \* bound of the model: stores in a behaviour

ASSUME OrderContextStoreAssumption ==
  /\ None \notin Inodes
  /\ None \notin Workers
  /\ Adapters \subseteq {"LS", "KIS", "Kiwoom"}
  /\ MayOverlap \in BOOLEAN
  /\ Limit \in Nat \ {0}
  /\ MaxVersion \in Nat

VARIABLES
  adapter,  \* whose account this is
  orders,   \* Adapter.orders: the version of each order's context, 0 for none
  version,  \* stores so far
  owner,    \* who holds the adapter's lock across steps (LS), None for nobody
  pc,       \* where each worker is in storeOrderContext or removeOrderContext
  snap,     \* the snapshot each worker persists
  fd,       \* the inode each worker has open for writing
  file,     \* the inode under the store's path
  tmp,      \* the inode under path + ".tmp"
  data,     \* what each inode holds
  unsaved   \* the last Persist failed (the code logs it and goes on)

memory == <<orders, version, owner>>
worker == <<pc, snap, fd>>
disk   == <<file, tmp, data>>
storeVars   == <<adapter, memory, worker, disk, unsaved>>

NoOrders  == [o \in Orders |-> 0]
Snapshots == [Orders -> 0..MaxVersion]

StoreTypeOK ==
  /\ adapter \in Adapters
  /\ orders \in Snapshots
  /\ version \in 0..MaxVersion
  /\ owner \in Workers \cup {None}
  /\ pc \in [Workers -> {"idle", "snapshot", "open", "write", "rename"}]
  /\ snap \in [Workers -> Snapshots]
  /\ fd \in [Workers -> Inodes \cup {None}]
  /\ file \in Inodes \cup {None}
  /\ tmp \in Inodes \cup {None}
  /\ data \in [Inodes -> [state : {"empty", "whole", "torn"}, orders : Snapshots]]
  /\ unsaved \in BOOLEAN

StoreInit ==
  /\ adapter \in Adapters
  /\ orders = NoOrders
  /\ version = 0
  /\ owner = None
  /\ pc = [w \in Workers |-> "idle"]
  /\ snap = [w \in Workers |-> NoOrders]
  /\ fd = [w \in Workers |-> None]
  /\ file = None
  /\ tmp = None
  /\ data = [i \in Inodes |-> [state |-> "empty", orders |-> NoOrders]]
  /\ unsaved = FALSE

-----------------------------------------------------------------------------
(* The map in memory.                                                      *)

PersistUnderLock == adapter = "LS"

\* A request may start to change the map.
MayStart(w) ==
  /\ pc[w] = "idle"
  /\ owner = None
  /\ PersistUnderLock \/ MayOverlap \/ \A q \in Workers : pc[q] = "idle"

\* Only the newest Limit contexts stay.
Compact(m) ==
  [o \in Orders |-> IF Cardinality({p \in Orders : m[p] > m[o]}) < Limit THEN m[o] ELSE 0]

\* Fault: the file is written after the lock is released.
ThenPersistUnlocked(w, m) ==
  /\ orders' = m
  /\ pc' = [pc EXCEPT ![w] = "open"]
  /\ snap' = [snap EXCEPT ![w] = m]
  /\ UNCHANGED owner

\* Fault: the snapshot is taken before the change.
ThenPersistStale(w, m) ==
  /\ orders' = m
  /\ owner' = w
  /\ pc' = [pc EXCEPT ![w] = "open"]
  /\ snap' = [snap EXCEPT ![w] = orders]

\* The map changes under the lock; the LS adapter keeps it until it has persisted
\* the map, the others let go of it before they take their snapshot.
ThenPersist(w, m) ==
  /\ orders' = m
  /\ IF PersistUnderLock
       THEN /\ owner' = w
            /\ pc' = [pc EXCEPT ![w] = "open"]
            /\ snap' = [snap EXCEPT ![w] = m]
       ELSE /\ pc' = [pc EXCEPT ![w] = "snapshot"]
            /\ UNCHANGED <<owner, snap>>

storeOrderContext(w, o) ==
  /\ MayStart(w)
  /\ version < MaxVersion
  /\ version' = version + 1
  /\ ThenPersist(w, Compact([orders EXCEPT ![o] = version + 1]))
  /\ UNCHANGED <<adapter, fd, disk, unsaved>>

\* A modified KIS order gets a new number; the context of the old one goes.
removeOrderContext(w, o) ==
  /\ ~ PersistUnderLock
  /\ MayStart(w)
  /\ ThenPersist(w, [orders EXCEPT ![o] = 0])
  /\ UNCHANGED <<adapter, version, fd, disk, unsaved>>

Snapshot(w) ==
  /\ pc[w] = "snapshot"
  /\ snap' = [snap EXCEPT ![w] = orders]
  /\ pc' = [pc EXCEPT ![w] = "open"]
  /\ UNCHANGED <<adapter, memory, fd, disk, unsaved>>

-----------------------------------------------------------------------------
(* Persist.                                                                *)

\* The worker is done, its deferred unlock included.
Done(w, failed) ==
  /\ pc' = [pc EXCEPT ![w] = "idle"]
  /\ snap' = [snap EXCEPT ![w] = NoOrders]
  /\ fd' = [fd EXCEPT ![w] = None]
  /\ owner' = IF owner = w THEN None ELSE owner
  /\ unsaved' = failed

Unlinked == {i \in Inodes : i \notin {file, tmp} /\ \A w \in Workers : fd[w] # i}

\* WriteFile truncates the temporary file, or creates it.
OpenTmp(w) ==
  /\ pc[w] = "open"
  /\ \E i \in IF tmp = None THEN Unlinked ELSE {tmp} :
       /\ tmp' = i
       /\ fd' = [fd EXCEPT ![w] = i]
       /\ data' = [data EXCEPT ![i] = [state |-> "empty", orders |-> NoOrders]]
  /\ pc' = [pc EXCEPT ![w] = "write"]
  /\ UNCHANGED <<adapter, memory, snap, file, unsaved>>

\* What is left of an inode's content when s is written over it from the start:
\* the tail of a longer content stays.
Overwrite(old, s) ==
  LET whole == [state |-> "whole", orders |-> s]
  IN  IF old.state = "empty" \/ old = whole
        THEN {whole}
        ELSE {whole, [state |-> "torn", orders |-> NoOrders]}

WriteTmp(w) ==
  /\ pc[w] = "write"
  /\ \E d \in Overwrite(data[fd[w]], snap[w]) : data' = [data EXCEPT ![fd[w]] = d]
  /\ pc' = [pc EXCEPT ![w] = "rename"]
  /\ UNCHANGED <<adapter, memory, snap, fd, file, tmp, unsaved>>

\* The temporary file takes the place of the file, unless another worker's
\* rename has taken it away.
Rename(w) ==
  /\ pc[w] = "rename"
  /\ IF tmp = None
       THEN UNCHANGED <<file, tmp>>
       ELSE file' = tmp /\ tmp' = None
  /\ Done(w, tmp = None)
  /\ UNCHANGED <<adapter, orders, version, data>>

\* The directory or the file cannot be opened, nothing or a part is written, or
\* the rename fails.
PersistFails(w) ==
  /\ pc[w] \in {"open", "write", "rename"}
  /\ \/ UNCHANGED data
     \/ /\ pc[w] = "write"
        /\ data' = [data EXCEPT ![fd[w]] = [state |-> "torn", orders |-> NoOrders]]
  /\ Done(w, TRUE)
  /\ UNCHANGED <<adapter, orders, version, file, tmp>>

-----------------------------------------------------------------------------
\* Fault: the document is taken for the map inside it.
LoadDocument ==
  IF file # None /\ data[file].state = "whole" THEN data[file] ELSE NoOrders

\* Load: an absent file is an empty map; a file that cannot be decoded is an
\* error, after which the adapter starts with an empty map.
Load ==
  IF file # None /\ data[file].state = "whole" THEN Compact(data[file].orders) ELSE NoOrders

\* The process dies between any two steps, and a new one starts.
Restart ==
  /\ orders' = Load
  /\ owner' = None
  /\ pc' = [w \in Workers |-> "idle"]
  /\ snap' = [w \in Workers |-> NoOrders]
  /\ fd' = [w \in Workers |-> None]
  /\ unsaved' = FALSE
  /\ UNCHANGED <<adapter, version, disk>>

StoreNext ==
  \/ \E w \in Workers :
       \/ \E o \in Orders : storeOrderContext(w, o) \/ removeOrderContext(w, o)
       \/ Snapshot(w)
       \/ OpenTmp(w)
       \/ WriteTmp(w)
       \/ Rename(w)
       \/ PersistFails(w)
  \/ Restart

StoreSpec == StoreInit /\ [][StoreNext]_storeVars

-----------------------------------------------------------------------------
(* Properties.                                                             *)

\* Whenever the server dies, the file it starts from again is absent or decodes
\* to contexts that were in memory together ("Persist atomically writes order
\* contexts to disk", internal/orderctxstore/store.go).
FileIsWhole == file # None => data[file].state = "whole"

\* When nobody is between a change and its Persist, the file has exactly the
\* contexts of the map, unless the last Persist reported an error: a restart
\* neither loses an order nor brings back one that was removed or evicted.
SavedWhenQuiet ==
  (\A w \in Workers : pc[w] = "idle") /\ ~ unsaved => Load = orders

\* No order's context on disk is ever replaced by an older one.
NoOlderContextOnDisk ==
  [][\A o \in Orders :
       file # None /\ data[file].orders[o] # 0 /\ data'[file'].orders[o] # 0 =>
         data'[file'].orders[o] >= data[file].orders[o]]_storeVars
=============================================================================
