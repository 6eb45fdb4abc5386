---------------------------- MODULE ReleaseStore ----------------------------
(***************************************************************************)
(* StacIndex with what is made from it: the tiles that a process computes  *)
(* go into the tile cache, whose files the next process finds.  The name   *)
(* of a tile file, _disk_path, does not tell the release it was made from. *)
(* The listing of /datasets resolves the release as well.                  *)
(***************************************************************************)
EXTENDS StacIndex

CONSTANT Tiles  \* tiles of one dataset, each with one filter

VARIABLES file,   \* the release that a cached tile was made from
          asked   \* the tile of a thread; None for a /datasets request

store == <<file, asked>>

StoreTypeOK ==
  /\ TypeOK
  /\ file \in [Tiles -> Releases \cup {None}]
  /\ asked \in [Threads -> Tiles \cup {None}]

StoreInit ==
  /\ Init
  /\ file = [k \in Tiles |-> None]
  /\ asked = [t \in Threads |-> None]

\* A request computes only a tile that the cache does not hold, ...
AskTile(t, k) ==
  /\ Call(t)
  /\ file[k] = None
  /\ asked' = [asked EXCEPT ![t] = k]
  /\ UNCHANGED file

AskDatasets(t) ==
  /\ Call(t)
  /\ asked' = [asked EXCEPT ![t] = None]
  /\ UNCHANGED file

\* ... and puts what it computed, though another may have been faster.
PutTile(t) ==
  /\ Scan(t)
  /\ file' = [file EXCEPT ![asked[t]] = release[t]]
  /\ UNCHANGED asked

\* The query or the encoding fails, and nothing is put.
NoTile(t) == Scan(t) /\ UNCHANGED store

\* A failure is caught there too, and the sentinel reported.
Report(t) ==
  /\ asked[t] = None
  /\ pc[t] = "index"
  /\ Return(t)
  /\ UNCHANGED <<catalog, process, saved, fetches, store>>

Resolve(t) ==
  \/ AlreadyResolved(t) \/ StartResolving(t)
  \/ FetchLatest(t) \/ FetchLatestFails(t)

Load(t) ==
  /\ asked[t] # None
  /\ \/ GetIndex(t) \/ TestItems(t) \/ LockIndex(t) \/ TestBuilt(t)
     \/ LoadFromDisk(t) \/ NothingOnDisk(t)
     \/ FetchCollection(t) \/ FetchCollectionFails(t)
     \/ SaveToDisk(t) \/ SaveFails(t)

ThreadStep(t) ==
  \/ (Resolve(t) \/ Load(t)) /\ UNCHANGED store
  \/ PutTile(t) \/ NoTile(t) \/ Report(t)

NewProcess ==
  /\ Restart
  /\ asked' = [t \in Threads |-> None]
  /\ UNCHANGED file

StoreNext ==
  \/ \E t \in Threads :
       \/ \E k \in Tiles : AskTile(t, k)
       \/ AskDatasets(t)
       \/ ThreadStep(t)
  \/ (Publish \/ Delete) /\ UNCHANGED store
  \/ NewProcess

StoreSpec == StoreInit /\ [][StoreNext]_<<vars, store>>

FairStoreSpec == StoreSpec /\ \A t \in Threads : WF_<<vars, store>>(ThreadStep(t))

(***************************************************************************)
(* Properties                                                              *)
(***************************************************************************)
\* "The catalog lists newest last": among the tiles that a process serves, its
\* own and those that it found on disk, none is newer than the release it has
\* resolved, so that a restart never takes the map back, though older tiles stay
\* for good.  The exception is again two releases of one day whose counters
\* differ in length: the flag led an earlier process to the later one, and the
\* comparison of strings leads this one to the earlier.
FilesNotNewer ==
  resolved # None =>
    \A k \in Tiles : file[k] # None =>
      \/ file[k] <= resolved
      \/ Day[file[k]] = Day[resolved] /\ Count[resolved] < 10 /\ Count[file[k]] >= 10
=============================================================================
