------------------------ MODULE ReleaseStore_proofs ------------------------
(***************************************************************************)
(* Theorems about ReleaseStore, for any threads, tiles and releases.  The  *)
(* inductive invariant IInv joins StoreTypeOK and the properties with what *)
(* they rest on:                                                           *)
(*                                                                         *)
(*   Resolving   only who holds _resolve_lock fetches the catalog, and not *)
(*               once a release is resolved                                *)
(*   Building    who holds the lock of an index, and what is known of it   *)
(*   Fetched     a fetched collection stays loaded                         *)
(*   Listed      what is resolved or was made was once the newest release, *)
(*               so that the catalog has gone at least as far              *)
(***************************************************************************)
EXTENDS ReleaseStore, TLAPS

Early == {"idle", "resolve", "fetchLatest"}
InBuild == {"built", "load", "fetch", "save"}

Resolving ==
  /\ \A t \in Threads : resolver = t <=> pc[t] = "fetchLatest"
  /\ resolver # None => resolved = None

Building ==
  /\ \A t \in Threads, r \in Releases :
       builder[r] = t <=> pc[t] \in InBuild /\ release[t] = r
  /\ \A t \in Threads : pc[t] \in {"load", "fetch"} => release[t] \notin items
  /\ \A t \in Threads :
       pc[t] \notin Early \cup {"index"} => release[t] \in indexes /\ asked[t] # None

Fetched == \A r \in Releases : fetches[r] = 0 \/ (fetches[r] = 1 /\ r \in items)

Listed ==
  /\ resolved # None => resolved <= latest
  /\ \A k \in Tiles : file[k] # None => file[k] <= latest

IInv ==
  /\ StoreTypeOK
  /\ Resolving
  /\ ReleasePinned
  /\ FilesNotNewer
  /\ Building
  /\ Fetched
  /\ Listed

StoreVars == <<vars, store>>

\* The catalog names a release that is there.
LEMMA NewestIsThere ==
  ASSUME TypeOK, NEW r \in Newest
  PROVE  r \in Releases
BY StacAssumption DEF TypeOK, Newest, HighestSorting, Releases

\* The initial state satisfies every part of the invariant.
LEMMA InitInv == StoreInit => IInv
BY StacAssumption
   DEF StoreInit, Init, ProcessInit, IInv, StoreTypeOK, TypeOK, Resolving, ReleasePinned,
       FilesNotNewer, Building, Fetched, Listed, Early, InBuild, Labels, Releases

(***************************************************************************)
(* The order of release ids.                                               *)
(***************************************************************************)
\* The id of a release, as a string is compared: its day, then one digit or two.
LEMMA IdDigits ==
  ASSUME NEW r \in Releases
  PROVE  /\ Day[r] \in Nat /\ Count[r] \in 0 .. 99
         /\ Id(r)[1] = Day[r]
         /\ Count[r] < 10 => Len(Id(r)) = 2 /\ Id(r)[2] = Count[r]
         /\ Count[r] >= 10 =>
              /\ Len(Id(r)) = 3
              /\ Id(r)[2] = Count[r] \div 10
              /\ Id(r)[3] = Count[r] % 10
<1>1. Day[r] \in Nat /\ Count[r] \in 0 .. 99
  BY StacAssumption
<1>2. Count[r] \div 10 \in Int /\ Count[r] % 10 \in Int
  BY <1>1
<1>3. CASE Count[r] < 10
  BY <1>1, <1>3 DEF Id, Numeral
<1>4. CASE Count[r] >= 10
  BY <1>1, <1>2, <1>4 DEF Id, Numeral
<1> QED BY <1>1, <1>3, <1>4

\* Of two releases the later one sorts before the earlier one only when both are
\* of one day and its counter has a digit more; otherwise it sorts after it.
LEMMA SortsByDate ==
  ASSUME NEW r \in Releases, NEW s \in Releases, r < s,
         ~ (Day[r] = Day[s] /\ Count[r] < 10 /\ Count[s] >= 10)
  PROVE  SortsBefore(Id(r), Id(s))
<1> DEFINE a == Id(r)
           b == Id(s)
<1>1. Day[r] < Day[s] \/ (Day[r] = Day[s] /\ Count[r] < Count[s])
  BY StacAssumption
<1>2. /\ Day[r] \in Nat /\ Day[s] \in Nat
      /\ Count[r] \in 0 .. 99 /\ Count[s] \in 0 .. 99
      /\ a[1] = Day[r] /\ b[1] = Day[s]
      /\ Len(a) = 2 \/ Len(a) = 3
      /\ Len(b) = 2 \/ Len(b) = 3
  BY IdDigits
<1>3. ASSUME NEW i \in 1 .. Len(b), i <= Len(a), a[i] < b[i],
             \A j \in 1 .. i - 1 : a[j] = b[j]
      PROVE  SortsBefore(a, b)
  BY <1>2, <1>3 DEF SortsBefore
<1>4. /\ Count[r] < 10 => Len(a) = 2 /\ a[2] = Count[r]
      /\ Count[s] < 10 => Len(b) = 2 /\ b[2] = Count[s]
      /\ Count[r] >= 10 => Len(a) = 3 /\ a[2] = Count[r] \div 10 /\ a[3] = Count[r] % 10
      /\ Count[s] >= 10 => Len(b) = 3 /\ b[2] = Count[s] \div 10 /\ b[3] = Count[s] % 10
  BY IdDigits
<1> HIDE DEF a, b
<1>5. ASSUME Day[r] < Day[s] PROVE SortsBefore(a, b)
  BY <1>2, <1>3, <1>5
<1>6. ASSUME Day[r] = Day[s], Count[s] < 10 PROVE SortsBefore(a, b)
  <2>1. Count[r] < Count[s] /\ Count[r] < 10
    BY <1>1, <1>2, <1>6
  <2>2. 2 \in 1 .. Len(b) /\ 2 <= Len(a) /\ a[2] < b[2]
    BY <1>2, <1>4, <1>6, <2>1
  <2>3. \A j \in 1 .. 2 - 1 : a[j] = b[j]
    BY <1>2, <1>6
  <2> QED BY <1>3, <2>2, <2>3
<1>7. ASSUME Day[r] = Day[s], Count[r] >= 10 PROVE SortsBefore(a, b)
  <2>1. Count[r] < Count[s]
    BY <1>1, <1>2, <1>7
  <2>2. \/ Count[r] \div 10 < Count[s] \div 10
        \/ Count[r] \div 10 = Count[s] \div 10 /\ Count[r] % 10 < Count[s] % 10
    BY <1>2, <2>1
  <2>3. a[2] < b[2] \/ (a[2] = b[2] /\ a[3] < b[3])
    BY <1>2, <1>4, <1>7, <2>1, <2>2
  <2>4. Len(a) = 3 /\ Len(b) = 3
    BY <1>2, <1>4, <1>7, <2>1
  <2>5. CASE a[2] < b[2]
    <3>1. 2 \in 1 .. Len(b) /\ 2 <= Len(a)
      BY <2>4
    <3>2. \A j \in 1 .. 2 - 1 : a[j] = b[j]
      BY <1>2, <1>7
    <3> QED BY <1>3, <2>5, <3>1, <3>2
  <2>6. CASE a[2] = b[2] /\ a[3] < b[3]
    <3>1. 3 \in 1 .. Len(b) /\ 3 <= Len(a)
      BY <2>4
    <3>2. \A j \in 1 .. 3 - 1 : a[j] = b[j]
      BY <1>2, <1>7, <2>6
    <3> QED BY <1>3, <2>6, <3>1, <3>2
  <2> QED BY <2>3, <2>5, <2>6
<1> QED BY <1>1, <1>2, <1>5, <1>6, <1>7 DEF a, b

\* None of the releases in the catalog is newer than the one that is taken for
\* the newest, unless they are of one day and their counters differ in length.
LEMMA NewestOfAll ==
  ASSUME TypeOK, NEW r \in Newest, NEW s \in Releases, s <= latest
  PROVE  s <= r \/ (Day[s] = Day[r] /\ Count[r] < 10 /\ Count[s] >= 10)
<1>1. CASE flagged
  BY <1>1 DEF Newest, Releases
<1>2. CASE ~ flagged
  <2>1. r \in oldest .. latest /\ \A x \in oldest .. latest : ~ SortsBefore(Id(r), Id(x))
    BY <1>2 DEF Newest, HighestSorting
  <2>2. r \in Releases
    BY NewestIsThere
  <2>3. CASE s <= r
    BY <2>3
  <2>4. CASE r < s
    <3>1. s \in oldest .. latest
      BY <2>1, <2>4, StacAssumption DEF TypeOK, Releases
    <3>2. ~ SortsBefore(Id(r), Id(s))
      BY <2>1, <3>1
    <3> QED BY <2>2, <2>4, <3>2, SortsByDate
  <2> QED BY <2>2, <2>3, <2>4 DEF Releases
<1> QED BY <1>1, <1>2

(***************************************************************************)
(* The steps.                                                              *)
(***************************************************************************)
\* A step of a thread that resolves a release.
LEMMA ResolveStep ==
  ASSUME IInv, NEW t \in Threads, Resolve(t), UNCHANGED store
  PROVE  IInv'
<1> USE DEF IInv, StoreTypeOK, TypeOK, Resolving, ReleasePinned, FilesNotNewer,
            Building, Fetched, Listed, Early, InBuild, Labels, store, process, catalog, Goto, Return
<1>1. CASE AlreadyResolved(t)
  BY <1>1, StacAssumption DEF AlreadyResolved
<1>2. CASE StartResolving(t)
  BY <1>2, StacAssumption DEF StartResolving
<1>3. CASE FetchLatest(t)
  <2>1. resolved' \in Releases
    BY <1>3, NewestIsThere DEF FetchLatest
  <2>2. resolved = None /\ resolver = t
    BY <1>3, StacAssumption DEF FetchLatest
  <2>3. indexes = {}
    BY <2>2, StacAssumption
  <2>4. FilesNotNewer'
    BY <1>3, NewestOfAll DEF FetchLatest
  <2>5. Listed'
    BY <1>3, <2>1, StacAssumption DEF FetchLatest, Newest, HighestSorting, Releases
  <2> QED BY <1>3, <2>1, <2>2, <2>3, <2>4, <2>5, StacAssumption DEF FetchLatest
<1>4. CASE FetchLatestFails(t)
  BY <1>4, StacAssumption DEF FetchLatestFails
<1> QED BY <1>1, <1>2, <1>3, <1>4 DEF Resolve

\* A step of a thread that looks for an index or builds it.
LEMMA LoadStep ==
  ASSUME IInv, NEW t \in Threads, Load(t), UNCHANGED store
  PROVE  IInv'
<1> USE DEF IInv, StoreTypeOK, TypeOK, Resolving, ReleasePinned, FilesNotNewer,
            Building, Fetched, Listed, Early, InBuild, Labels, store, process, catalog, Goto, Return,
            Unlock, Load
<1>1. CASE GetIndex(t)
  BY <1>1, StacAssumption DEF GetIndex
<1>2. CASE TestItems(t)
  BY <1>2, StacAssumption DEF TestItems
<1>3. CASE LockIndex(t)
  BY <1>3, StacAssumption DEF LockIndex
<1>4. CASE TestBuilt(t)
  BY <1>4, StacAssumption DEF TestBuilt
<1>5. CASE LoadFromDisk(t)
  BY <1>5, StacAssumption DEF LoadFromDisk
<1>6. CASE NothingOnDisk(t)
  BY <1>6, StacAssumption DEF NothingOnDisk
<1>7. CASE FetchCollection(t)
  BY <1>7, StacAssumption DEF FetchCollection
<1>8. CASE FetchCollectionFails(t)
  BY <1>8, StacAssumption DEF FetchCollectionFails
<1>9. CASE SaveToDisk(t)
  BY <1>9, StacAssumption DEF SaveToDisk
<1>10. CASE SaveFails(t)
  BY <1>10, StacAssumption DEF SaveFails
<1> QED BY <1>1, <1>2, <1>3, <1>4, <1>5, <1>6, <1>7, <1>8, <1>9, <1>10

\* A request enters with nothing in hand.
LEMMA AskStep ==
  ASSUME IInv, NEW t \in Threads, Call(t),
         asked' \in [Threads -> Tiles \cup {None}],
         \A u \in Threads \ {t} : asked'[u] = asked[u],
         UNCHANGED file
  PROVE  IInv'
<1>1. /\ pc' \in [Threads -> Labels]
      /\ pc[t] = "idle" /\ pc'[t] = "resolve"
      /\ \A u \in Threads \ {t} : pc'[u] = pc[u]
  BY DEF IInv, StoreTypeOK, TypeOK, Labels, Call, Goto
<1>2. UNCHANGED <<latest, oldest, flagged, resolved, resolver, indexes, items, builder,
                  saved, release, fetches, file>>
  BY DEF Call, catalog, process
<1>3. \A u \in Threads :
        release'[u] = None <=> pc'[u] \in {"idle", "resolve", "fetchLatest"}
  BY <1>1, <1>2 DEF IInv, StoreTypeOK, TypeOK
<1>4. StoreTypeOK'
  BY <1>1, <1>2, <1>3 DEF IInv, StoreTypeOK, TypeOK
<1>5. Resolving' /\ ReleasePinned' /\ FilesNotNewer' /\ Fetched' /\ Listed'
  BY <1>1, <1>2
  DEF IInv, Resolving, ReleasePinned, FilesNotNewer, Fetched, Listed
<1>6. Building'
  BY <1>1, <1>2 DEF IInv, Building, Early, InBuild
<1> QED BY <1>4, <1>5, <1>6 DEF IInv

\* A query that is through leaves a tile, of the release it was made from, or none.
LEMMA ServeStep ==
  ASSUME IInv, NEW t \in Threads, PutTile(t) \/ NoTile(t) \/ Report(t)
  PROVE  IInv'
<1> USE DEF IInv, StoreTypeOK, TypeOK, Resolving, ReleasePinned, FilesNotNewer,
            Building, Fetched, Listed, Early, InBuild, Labels, store, process, catalog,
            Goto, Return
<1>1. CASE PutTile(t)
  <2>1. asked[t] \in Tiles /\ release[t] \in Releases /\ release[t] = resolved
    BY <1>1, StacAssumption DEF PutTile, Scan
  <2>2. UNCHANGED <<catalog, process, saved, fetches>> /\ Return(t)
    BY <1>1 DEF PutTile, Scan
  <2>3. file' = [file EXCEPT ![asked[t]] = resolved] /\ UNCHANGED asked
    BY <1>1, <2>1 DEF PutTile
  <2>4. FilesNotNewer' /\ Listed'
    BY <2>1, <2>2, <2>3, StacAssumption DEF Releases
  <2>5. StoreTypeOK' /\ Resolving' /\ ReleasePinned'
    BY <1>1, <2>1, <2>2, <2>3, StacAssumption DEF PutTile, Scan
  <2>6. Building' /\ Fetched'
    BY <1>1, <2>1, <2>2, <2>3, StacAssumption DEF PutTile, Scan
  <2> QED BY <2>4, <2>5, <2>6
<1>2. CASE NoTile(t)
  BY <1>2, StacAssumption DEF NoTile, Scan
<1>3. CASE Report(t)
  BY <1>3, StacAssumption DEF Report
<1> QED BY <1>1, <1>2, <1>3

\* The catalog moves on, whatever any process knows of it.
LEMMA CatalogStep ==
  ASSUME IInv, Publish \/ Delete, UNCHANGED store
  PROVE  IInv'
<1>1. /\ latest' \in Releases /\ oldest' \in 1 .. latest' /\ flagged' \in BOOLEAN
      /\ latest <= latest'
  BY StacAssumption DEF IInv, StoreTypeOK, TypeOK, Releases, Publish, Delete
<1>2. UNCHANGED <<process, saved, pc, release, fetches, store>>
  BY DEF Publish, Delete
<1>3. Listed'
  <2>1. \A r \in Releases : r <= latest => r <= latest'
    BY <1>1, StacAssumption DEF IInv, StoreTypeOK, TypeOK, Releases
  <2> QED
    BY <1>2, <2>1, StacAssumption DEF IInv, StoreTypeOK, TypeOK, Listed, process, store
<1> QED
  BY <1>1, <1>2, <1>3
  DEF IInv, StoreTypeOK, TypeOK, Resolving, ReleasePinned, FilesNotNewer,
            Building, Fetched, Early, InBuild, Labels, store, process

\* A new process has nothing but the files.
LEMMA RestartStep ==
  ASSUME IInv, NewProcess
  PROVE  IInv'
BY StacAssumption
   DEF IInv, StoreTypeOK, TypeOK, Resolving, ReleasePinned, FilesNotNewer,
       Building, Fetched, Listed, Early, InBuild, Labels, catalog, NewProcess, Restart

(***************************************************************************)
(* The theorems.                                                           *)
(***************************************************************************)
\* Every step keeps the invariant.
LEMMA NextInv == IInv /\ [StoreNext]_StoreVars => IInv'
<1> SUFFICES ASSUME IInv, [StoreNext]_StoreVars PROVE IInv'
  OBVIOUS
<1>1. CASE UNCHANGED StoreVars
  BY <1>1 DEF StoreVars, vars, store, process, catalog, IInv, StoreTypeOK, TypeOK, Resolving,
              ReleasePinned, FilesNotNewer, Building, Fetched, Listed
<1>2. ASSUME NEW t \in Threads, NEW k \in Tiles, AskTile(t, k) PROVE IInv'
  BY <1>2, AskStep DEF AskTile, IInv, StoreTypeOK
<1>3. ASSUME NEW t \in Threads, AskDatasets(t) PROVE IInv'
  BY <1>3, AskStep DEF AskDatasets, IInv, StoreTypeOK
<1>4. ASSUME NEW t \in Threads, ThreadStep(t) PROVE IInv'
  BY <1>4, ResolveStep, LoadStep, ServeStep DEF ThreadStep
<1>5. CASE (Publish \/ Delete) /\ UNCHANGED store
  BY <1>5, CatalogStep
<1>6. CASE NewProcess
  BY <1>6, RestartStep
<1> QED BY <1>1, <1>2, <1>3, <1>4, <1>5, <1>6 DEF StoreNext, StoreVars

\* The inductive invariant holds of every behaviour.
THEOREM Invariance == StoreSpec => []IInv
<1>1. StoreInit => IInv
  BY InitInv
<1>2. IInv /\ [StoreNext]_StoreVars => IInv'
  BY NextInv
<1> QED BY <1>1, <1>2, PTL DEF StoreSpec, StoreVars

\* Types: stac_index.py and the tile files.
THEOREM TypeCorrect == StoreSpec => []StoreTypeOK
<1>1. IInv => StoreTypeOK
  BY DEF IInv
<1> QED BY <1>1, Invariance, PTL

\* resolve_release: all threads of a process use the release it resolved first.
THEOREM ProcessIsPinned == StoreSpec => []ReleasePinned
<1>1. IInv => ReleasePinned
  BY DEF IInv
<1> QED BY <1>1, Invariance, PTL

\* build: the item files of a release are fetched once, whoever asks for them.
THEOREM CollectionsFetchedOnce == StoreSpec => []FetchedOnce
<1>1. IInv => FetchedOnce
  BY DEF IInv, Fetched, FetchedOnce
<1> QED BY <1>1, Invariance, PTL

\* resolve_release after _fetch_latest_release: no tile on disk is newer than
\* the release a process has resolved, but for two of one day whose counters
\* differ in length.
THEOREM FilesAreNotNewer == StoreSpec => []FilesNotNewer
<1>1. IInv => FilesNotNewer
  BY DEF IInv
<1> QED BY <1>1, Invariance, PTL

\* Neither _resolve_lock nor the lock of an index keeps all threads waiting: who
\* holds one of them is fetching or building, and waits for nothing.
THEOREM LocksKeepMoving == StoreSpec => []LocksMove
<1>1. ASSUME IInv, NEW t \in Threads, pc[t] # "idle", Waits(t)
      PROVE  \E u \in Threads : pc[u] # "idle" /\ ~ Waits(u)
  <2>1. CASE pc[t] = "resolve" /\ resolver # None
    <3>1. resolver \in Threads /\ pc[resolver] = "fetchLatest"
      BY <1>1, <2>1 DEF IInv, StoreTypeOK, TypeOK, Resolving
    <3> QED BY <3>1 DEF Waits
  <2>2. CASE pc[t] = "lock" /\ builder[release[t]] # None
    <3>1. release[t] \in Releases /\ builder[release[t]] \in Threads
      BY <1>1, <2>2 DEF IInv, StoreTypeOK, TypeOK
    <3>2. pc[builder[release[t]]] \in InBuild
      BY <1>1, <3>1 DEF IInv, Building
    <3> QED BY <3>1, <3>2 DEF InBuild, Waits
  <2> QED BY <1>1, <2>1, <2>2 DEF Waits
<1>2. IInv => LocksMove
  BY <1>1 DEF LocksMove
<1> QED BY <1>2, Invariance, PTL

(***************************************************************************)
(* The newest release.                                                     *)
(***************************************************************************)
\* _fetch_latest_release: the release a process resolves is the newest there is,
\* but for two of one day whose counters differ in length.
THEOREM NewestIsResolved == StoreSpec => NewestResolved
<1>1. ASSUME IInv, [StoreNext]_StoreVars, resolved = None, resolved' # None, resolved' # latest
      PROVE  /\ ~ flagged
             /\ Day[resolved'] = Day[latest]
             /\ Count[resolved'] < 10 /\ Count[latest] >= 10
  <2>1. resolved' \in Newest
    BY <1>1
    DEF StoreNext, StoreVars, vars, store, process, AskTile, AskDatasets, Call, ThreadStep, Resolve,
        Load, PutTile, NoTile, Report, Scan, Publish, Delete, NewProcess, Restart,
        AlreadyResolved, StartResolving, FetchLatest, FetchLatestFails, GetIndex, TestItems,
        LockIndex, TestBuilt, LoadFromDisk, NothingOnDisk, FetchCollection,
        FetchCollectionFails, SaveToDisk, SaveFails
  <2>2. /\ ~ flagged
        /\ resolved' \in oldest .. latest
        /\ ~ SortsBefore(Id(resolved'), Id(latest))
    BY <1>1, <2>1, StacAssumption
    DEF Newest, HighestSorting, IInv, StoreTypeOK, TypeOK, Releases
  <2>3. latest \in Releases /\ resolved' \in Releases /\ resolved' < latest
    BY <1>1, <2>2, StacAssumption DEF IInv, StoreTypeOK, TypeOK, Releases
  <2> QED BY <2>2, <2>3, SortsByDate
<1>2. IInv /\ [StoreNext]_StoreVars =>
        [resolved = None /\ resolved' # None /\ resolved' # latest =>
           /\ ~ flagged
           /\ Day[resolved'] = Day[latest]
           /\ Count[resolved'] < 10 /\ Count[latest] >= 10]_vars
  BY <1>1
<1> QED BY <1>2, Invariance, PTL DEF StoreSpec, StoreVars, NewestResolved
=============================================================================
