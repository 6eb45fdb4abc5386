----------------------------- MODULE StacIndex -----------------------------
(***************************************************************************)
(* stac_index.py: which release "latest" means, and the file index of one  *)
(* (theme, type) for each release, as query_features uses them through     *)
(* get_stac_index and files_for_bbox.                                      *)
(*                                                                         *)
(* Overture's catalog is an actor: it publishes releases, numbered in      *)
(* their order, and deletes old ones.  The file list of a release does not *)
(* change while it is there, so an index is its release and whether it is  *)
(* loaded; what collection.json and the item files say is left out.        *)
(***************************************************************************)
EXTENDS Integers, Sequences

CONSTANTS Threads,      \* worker threads of the server process
          MaxRelease,   \* bound: how many releases Overture publishes
          Day, Count,   \* what the id of a release consists of
          FetchFaults,  \* TRUE: an HTTP request may fail
          SaveFaults,   \* TRUE: saving or loading the disk copy may fail
          None          \* no release, no thread

Releases == 1 .. MaxRelease

ASSUME StacAssumption ==
  /\ MaxRelease \in Nat \ {0}
  /\ Day \in [Releases -> Nat]
  /\ Count \in [Releases -> 0 .. 99]
  /\ \A r, s \in Releases :
       r < s => Day[r] < Day[s] \/ (Day[r] = Day[s] /\ Count[r] < Count[s])
  /\ FetchFaults \in BOOLEAN
  /\ SaveFaults \in BOOLEAN
  /\ None \notin Threads \cup Releases

VARIABLES latest,    \* the newest release in the catalog
          oldest,    \* the oldest one that is not deleted
          flagged,   \* the link to the newest one says "latest"
          resolved,  \* _resolved_latest
          resolver,  \* who holds _resolve_lock
          indexes,   \* the releases in _INDEXES
          items,     \* those whose _items is not None
          builder,   \* who holds the _lock of each index
          saved,     \* releases whose index has a file on disk
          pc,        \* where each thread is
          release,   \* the release a thread has resolved
          fetches    \* collections fetched by this process

catalog == <<latest, oldest, flagged>>
process == <<resolved, resolver, indexes, items, builder>>
vars == <<catalog, process, saved, pc, release, fetches>>

Labels == {"idle", "resolve", "fetchLatest", "index", "test", "lock", "built",
           "load", "fetch", "save", "scan"}

TypeOK ==
  /\ latest \in Releases /\ oldest \in 1 .. latest /\ flagged \in BOOLEAN
  /\ resolved \in Releases \cup {None}
  /\ resolver \in Threads \cup {None}
  /\ indexes \subseteq Releases
  /\ items \subseteq indexes
  /\ builder \in [Releases -> Threads \cup {None}]
  /\ saved \subseteq Releases
  /\ pc \in [Threads -> Labels]
  /\ release \in [Threads -> Releases \cup {None}]
  /\ \A t \in Threads :
       release[t] = None <=> pc[t] \in {"idle", "resolve", "fetchLatest"}
  /\ fetches \in [Releases -> Nat]

ProcessInit ==
  /\ resolved = None
  /\ resolver = None
  /\ indexes = {}
  /\ items = {}
  /\ builder = [r \in Releases |-> None]
  /\ pc = [t \in Threads |-> "idle"]
  /\ release = [t \in Threads |-> None]
  /\ fetches = [r \in Releases |-> 0]

Init ==
  /\ latest = 1 /\ oldest = 1 /\ flagged \in BOOLEAN
  /\ saved = {}
  /\ ProcessInit

Goto(t, label) == pc' = [pc EXCEPT ![t] = label]

Return(t) ==
  /\ Goto(t, "idle")
  /\ release' = [release EXCEPT ![t] = None]

(***************************************************************************)
(* The catalog.  Whoever writes it may leave the flag out.                 *)
(***************************************************************************)
Publish ==
  /\ latest < MaxRelease
  /\ latest' = latest + 1
  /\ flagged' \in BOOLEAN
  /\ UNCHANGED <<oldest, process, saved, pc, release, fetches>>

Delete ==
  /\ oldest < latest
  /\ oldest' = oldest + 1
  /\ flagged' \in BOOLEAN
  /\ UNCHANGED <<latest, process, saved, pc, release, fetches>>

(***************************************************************************)
(* _fetch_latest_release.  An id is a date, padded with zeros, and a       *)
(* counter that is not padded; ids are compared as strings.                *)
(***************************************************************************)
Numeral(n) == IF n < 10 THEN <<n>> ELSE <<n \div 10, n % 10>>

Id(r) == <<Day[r]>> \o Numeral(Count[r])

SortsBefore(a, b) ==
  \E i \in 1 .. Len(b) :
    /\ \A j \in 1 .. i - 1 : j <= Len(a) /\ a[j] = b[j]
    /\ i > Len(a) \/ a[i] < b[i]

\* Mutant: the first of the sorted candidates.
LowestSorting(S) == {r \in S : \A s \in S : ~ SortsBefore(Id(s), Id(r))}

HighestSorting(S) == {r \in S : \A s \in S : ~ SortsBefore(Id(r), Id(s))}

Newest == IF flagged THEN {latest} ELSE HighestSorting(oldest .. latest)

(***************************************************************************)
(* resolve_release, of a dataset registered as "latest" and without        *)
(* OVERTURE_RELEASE.                                                       *)
(***************************************************************************)
Call(t) ==
  /\ pc[t] = "idle"
  /\ Goto(t, "resolve")
  /\ UNCHANGED <<catalog, process, saved, release, fetches>>

AlreadyResolved(t) ==
  /\ pc[t] = "resolve"
  /\ resolver = None
  /\ resolved # None
  /\ release' = [release EXCEPT ![t] = resolved]
  /\ Goto(t, "index")
  /\ UNCHANGED <<catalog, process, saved, fetches>>

\* Mutant: _resolve_lock is not held during the request.
StartResolvingUnlocked(t) ==
  /\ pc[t] = "resolve"
  /\ resolved = None
  /\ Goto(t, "fetchLatest")
  /\ UNCHANGED <<catalog, process, saved, release, fetches>>

StartResolving(t) ==
  /\ pc[t] = "resolve"
  /\ resolver = None
  /\ resolved = None
  /\ resolver' = t
  /\ Goto(t, "fetchLatest")
  /\ UNCHANGED <<catalog, resolved, indexes, items, builder, saved, release, fetches>>

FetchLatest(t) ==
  /\ pc[t] = "fetchLatest"
  /\ resolved' \in Newest
  /\ release' = [release EXCEPT ![t] = resolved']
  /\ resolver' = None
  /\ Goto(t, "index")
  /\ UNCHANGED <<catalog, indexes, items, builder, saved, fetches>>

\* Mutant: the exception leaves _resolve_lock locked.
FetchLatestFailsLocked(t) ==
  /\ FetchFaults
  /\ pc[t] = "fetchLatest"
  /\ Return(t)
  /\ UNCHANGED <<catalog, process, saved, fetches>>

FetchLatestFails(t) ==
  /\ FetchFaults
  /\ pc[t] = "fetchLatest"
  /\ resolver' = None
  /\ Return(t)
  /\ UNCHANGED <<catalog, resolved, indexes, items, builder, saved, fetches>>

(***************************************************************************)
(* get_stac_index, then the unlocked test of files_for_bbox.               *)
(***************************************************************************)
GetIndex(t) ==
  /\ pc[t] = "index"
  /\ indexes' = indexes \cup {release[t]}
  /\ Goto(t, "test")
  /\ UNCHANGED <<catalog, resolved, resolver, items, builder, saved, release, fetches>>

TestItems(t) ==
  /\ pc[t] = "test"
  /\ Goto(t, IF release[t] \in items THEN "scan" ELSE "lock")
  /\ UNCHANGED <<catalog, process, saved, release, fetches>>

(***************************************************************************)
(* build, under the lock of the index.                                     *)
(***************************************************************************)
LockIndex(t) ==
  /\ pc[t] = "lock"
  /\ builder[release[t]] = None
  /\ builder' = [builder EXCEPT ![release[t]] = t]
  /\ Goto(t, "built")
  /\ UNCHANGED <<catalog, resolved, resolver, indexes, items, saved, release, fetches>>

Unlock(t) == builder' = [builder EXCEPT ![release[t]] = None]

\* Mutant: the test under the lock is missing.
BuildAgain(t) ==
  /\ pc[t] = "built"
  /\ Goto(t, "load")
  /\ UNCHANGED <<catalog, process, saved, release, fetches>>

TestBuilt(t) ==
  /\ pc[t] = "built"
  /\ IF release[t] \in items
       THEN Goto(t, "scan") /\ Unlock(t)
       ELSE Goto(t, "load") /\ UNCHANGED builder
  /\ UNCHANGED <<catalog, resolved, resolver, indexes, items, saved, release, fetches>>

LoadFromDisk(t) ==
  /\ pc[t] = "load"
  /\ release[t] \in saved
  /\ items' = items \cup {release[t]}
  /\ Unlock(t)
  /\ Goto(t, "scan")
  /\ UNCHANGED <<catalog, resolved, resolver, indexes, saved, release, fetches>>

NothingOnDisk(t) ==
  /\ pc[t] = "load"
  /\ release[t] \notin saved \/ SaveFaults
  /\ Goto(t, "fetch")
  /\ UNCHANGED <<catalog, process, saved, release, fetches>>

FetchCollection(t) ==
  /\ pc[t] = "fetch"
  /\ release[t] >= oldest
  /\ items' = items \cup {release[t]}
  /\ fetches' = [fetches EXCEPT ![release[t]] = @ + 1]
  /\ Goto(t, "save")
  /\ UNCHANGED <<catalog, resolved, resolver, indexes, builder, saved, release>>

\* Any failing request aborts the build: nothing is kept of it.
FetchCollectionFails(t) ==
  /\ pc[t] = "fetch"
  /\ FetchFaults \/ release[t] < oldest
  /\ Unlock(t)
  /\ Return(t)
  /\ UNCHANGED <<catalog, resolved, resolver, indexes, items, saved, fetches>>

SaveToDisk(t) ==
  /\ pc[t] = "save"
  /\ saved' = saved \cup {release[t]}
  /\ Unlock(t)
  /\ Goto(t, "scan")
  /\ UNCHANGED <<catalog, resolved, resolver, indexes, items, release, fetches>>

SaveFails(t) ==
  /\ SaveFaults
  /\ pc[t] = "save"
  /\ Unlock(t)
  /\ Goto(t, "scan")
  /\ UNCHANGED <<catalog, resolved, resolver, indexes, items, saved, release, fetches>>

\* The scan of _items, after which the query runs on the files of the release.
Scan(t) ==
  /\ pc[t] = "scan"
  /\ Return(t)
  /\ UNCHANGED <<catalog, process, saved, fetches>>

Restart ==
  /\ resolved' = None
  /\ resolver' = None
  /\ indexes' = {}
  /\ items' = {}
  /\ builder' = [r \in Releases |-> None]
  /\ pc' = [t \in Threads |-> "idle"]
  /\ release' = [t \in Threads |-> None]
  /\ fetches' = [r \in Releases |-> 0]
  /\ UNCHANGED <<catalog, saved>>

Step(t) ==
  \/ AlreadyResolved(t) \/ StartResolving(t) \/ FetchLatest(t) \/ FetchLatestFails(t)
  \/ GetIndex(t) \/ TestItems(t) \/ LockIndex(t) \/ TestBuilt(t)
  \/ LoadFromDisk(t) \/ NothingOnDisk(t)
  \/ FetchCollection(t) \/ FetchCollectionFails(t)
  \/ SaveToDisk(t) \/ SaveFails(t) \/ Scan(t)

Next ==
  \/ \E t \in Threads : Call(t) \/ Step(t)
  \/ Publish \/ Delete \/ Restart

Spec == Init /\ [][Next]_vars

\* A thread that can run is scheduled and an HTTP request ends: the client has
\* a timeout of 30 seconds.
FairSpec == Spec /\ \A t \in Threads : WF_vars(Step(t))

(***************************************************************************)
(* Properties                                                              *)
(***************************************************************************)
\* "the index and the disk cache stay pinned to one release while a worker is
\* alive": all threads of a process use the release it resolved first, though
\* the catalog moves on and a resolution may fail and be tried again.
ReleasePinned ==
  /\ indexes \subseteq {resolved}
  /\ \A t \in Threads : release[t] \in {None, resolved}

\* "we fetch the catalog once": a process fetches the item files of a release
\* at most once, whatever threads ask at the same time and whether the copy on
\* disk can be written or not.
FetchedOnce == \A r \in Releases : fetches[r] <= 1

\* "a plain lexicographic sort is chronological": a process resolves the newest
\* release there is, with one exception.  Without the flag the counters are
\* compared as strings, and two of one day may differ in length.
NewestResolved ==
  [][resolved = None /\ resolved' # None /\ resolved' # latest =>
       /\ ~ flagged
       /\ Day[resolved'] = Day[latest]
       /\ Count[resolved'] < 10 /\ Count[latest] >= 10]_vars

\* A thread that waits for another to release _resolve_lock or that of its index.
Waits(t) ==
  \/ pc[t] = "resolve" /\ resolver # None
  \/ pc[t] = "lock" /\ builder[release[t]] # None

\* The two locks never keep all threads waiting for one another: who holds one
\* does not wait for the other, and a request that fails gives its lock back.
LocksMove ==
  (\E t \in Threads : pc[t] # "idle")
    => \E t \in Threads : pc[t] # "idle" /\ ~ Waits(t)

\* Neither lock stays locked, whatever request fails under it.
LocksComeBack ==
  /\ resolver # None ~> resolver = None
  /\ \A r \in Releases : builder[r] # None ~> builder[r] = None
=============================================================================
