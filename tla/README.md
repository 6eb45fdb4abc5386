# A TLA+ model of generative-vector-tile

generative-vector-tile serves vector tiles whose filter is a sentence: an LLM turns `q` into a WHERE
clause, DuckDB reads the GeoParquet files that intersect the tile, and the result is encoded and cached.
Almost nothing in it is hard one request at a time. What is hard is that a map view asks for twenty
tiles at once: worker threads share two coalescers, two caches, a bounded DuckDB instance and a file
index, timers interrupt queries, and every call to the outside may fail. This directory models that, the
data a tile is made from, and the page that shows it.

## Inventory

Source paths are relative to `src/generative_vector_tile/`.

| component | state | operations | what is hard | what makes it correct |
|---|---|---|---|---|
| tile cache (`tile_cache.py`) | LRU, one file per tile, `.tmp` files | get, put | steps outside the lock, failing writes, crashes, several processes on one directory | no half tile is published; a published tile stays |
| request coalescer (`tile_cache.py`) | `_inflight`, `_errors`, Events | get_or_compute | generations of a key overlap, errors travel beside the Event | one leader per key, no follower left behind, followers find the tile |
| filter compiler (`filters/`, `cache.py`) | `_inflight`, `_inflight_errors`, the default FilterCache | compile_filter, invalidate | the same, an unlocked singleton, invalidation long after the read | the same; a good translation is kept |
| LLM client (`llm.py`) | client pool, counter | translate_q | fails in several ways | a documented exception or a clause |
| query engine (`duckdb_query.py`) | instance, slots, cursors, timers | query_features | double-checked locking, timers racing results, a failed build | slots come back once, interrupts hit only expired queries |
| STAC index (`stac_index.py`) | resolved release, indexes, disk copies | resolve_release, build, files_for_bbox | requests under locks, unlocked tests, the catalog moves on, ids compared as strings | the newest release, one per process, fetched once; no tile newer than it; no file of a tile left out |
| dataset registry (`datasets/`) | constant | get_dataset, list_datasets | seven tables that must agree with files made elsewhere | what the prompt lets a clause name is there |
| MVT encoding (`mvt.py`) | – | encode_mvt | – | every row with a geometry becomes a feature of the dataset's layer |
| tile handler (`server.py`) | one coroutine per request, the executor's queue and workers | tile | followers block workers, clients go away, error classes | every request answered; only who used a rejected clause drops a filter; never the unfiltered tile |
| startup (`server.py`) | – | lifespan | partial failure | ready in the end, everything tried |
| health and dataset endpoints (`server.py`) | – | health, datasets | `/datasets` may be what resolves the release | the release it tells is the one in use |
| viewer (`docs/index.html`) | what the user wants, form, layer, spinner | pick, type, apply, map and tile events, the answer of `/datasets` | all of these in any order | map and address bar agree |
| Natural Earth build (`scripts/`) | – | build_target | columns the download lacks | the columns that datasets read are published |
| deployment files | – | – | – | not modelled |

How they interact: `server.tile` runs `compile_filter`, then `TileCache.get`, then `get_or_compute`,
the first and the last as jobs of asyncio's thread pool; the leader of a tile runs `query_features`,
which asks the STAC index for files and takes a slot of the query engine; a rejected query comes back
through the coalescer and makes the handler invalidate the FilterCache. The viewer asks for `/datasets`
and the tiles. `lifespan` builds the instance
and the indexes and runs warm-up queries before the first request. All state but the tile files and the
index copies dies with the process.

## Modules

    LRU ── TileCache ── RequestCoalescer
       └── FilterCompiler           └─ implements ─┐
                └──────────────── implements ── SingleFlight
    TileServer ── uses the actions of SingleFlight for both coalescers
    StacIndex ── ReleaseStore
    Datasets ── Startup ── TileContent
       └────── Viewer
    QueryEngine ── implements ── SlotPool
    TileDisk

Every `MC*` module extends the module it is named for with what its configurations need, and every
`*_proofs` module the one whose theorems it has.

**LRU** is cachetools' `LRUCache`, a library: a recency order kept as ages, the stalest entry evicted.

**TileCache** has `get` and `put` as the steps between which threads interleave: locked lookup, file
read, locked warm-up; locked store, open, write, rename. `PutFails` and `ReadNothing` are the `OSError`
paths that the code catches; `path.exists()` is outside the `try` statement of `get`, and what it raises
ends the call (`GetRaises` of the modules that have calls). A key is one `(dataset, z, x, y, filter_sql)`. A tile is named by the limit it was computed with,
because that is all in which two tiles of one key may differ; `Torn` is what an opened file holds before
it is written. It is a component without a `Next` of its own.

**RequestCoalescer** is `get_or_compute` over it. `pc` names the place in the code, `inflight` and
`errors` are the two dictionaries, `lead[t]` names the Event a thread made or waits for by the thread
that made it, `woke[t]` tells whether that Event is set. `woke` also remembers how the leader fared,
which the code does not; no action reads that part. The finally block is three steps (`PopInflight`,
`SetEvent`, `PopError`), as it takes the lock twice with the Event in between. `Restart` loses all but
the files.

**SingleFlight** is the abstract contract of a coalescer: register, follow, withdraw, release all
followers at once. Leaders of two generations may overlap.

**FilterCompiler** is `compile_filter` and what the handler does with the SQL. Compared with
RequestCoalescer a follower that falls through runs the leader's `try` statement, but not its finally
block, and the cache is one of several that the race in `get_default_cache` can make.

**TileServer** is `server.tile`: the handler's stages on the event loop, the queue of the executor, and
the jobs on a bounded number of workers. Both coalescers appear as the actions of SingleFlight, which
is what the other two modules are shown to implement, plus the caches and the exceptions. The caches do
not evict here, and a client that has gone is the choice of `Abandon` at the two checks before a job is
queued. A query may fail in any of the ways the handler tells apart, whatever its clause: `rejected` is any
`duckdb.Error` but a timeout, be it for the clause, for a file or for a build of the instance, and a query
without files never looks at its clause. Which query was rejected on which tile is kept in `rejects`.

**QueryEngine** is `_get_instance` and `query_features`. Timer callbacks are actors of their own, in two
steps (`Fire` sets the flag, `Interrupt` interrupts); they and interrupts belong to cursors, whose names
are used again once nothing refers to them. Nothing in the repository says what DuckDB does with an interrupt
of a cursor that executes nothing, so `Interrupt` chooses: it is remembered, which is the harder case for
`InterruptsOnlyExpired`, or it is lost, which is the harder one for `NobodyHoldsForever`. With `TimerFaults`
the thread of a timer cannot be started: the slot then comes back, and the cursor is not closed
(`StartFails`).

**SlotPool** is the abstract contract of the query engine: a pool of slots, there from the start; a thread
takes one, and gives it back once or loses it. Neither the lazily built instance nor cursors and timers are
to be seen in it.

**StacIndex** is release resolution and the index of one `(theme, type)` for each release, with the
catalog as an actor that publishes and deletes releases and, each time, may flag the newest or not. `Newest` is
`_fetch_latest_release`: without the flag it takes the id that sorts highest, a date and an unpadded
counter compared as strings. `fetches` counts collections fetched.

**ReleaseStore** composes it with the tile cache and with `/datasets`. A request enters `query_features`
for a tile that the cache does not hold, and the tile that comes of it is named by the release it was made
from, which the file name in the code leaves out. It is a module of its own because StacIndex alone says
nothing of what outlives a process. Processes come one after the other; two with overlapping lives on one
directory are looked at in TileDisk, which knows no releases.

**Datasets** is the registry: for each dataset the columns of the file that its `sql_expr`s read, which
columns are filterable, and where aliases lead; and the columns of the files, as `build_target`
publishes them or, for Overture, as the datasets read them. `Prompted` is what the LLM is told that it may
name, `Binds` what DuckDB finds.

**Startup** is `lifespan` over that registry: the loop over the datasets under one `try`, the reading of
WARMUP_QUERY_TIMEOUT_S under none, the loop over WARMUP_TILES with one for each tile.

**TileContent** is the data side of `query_features` and `encode_mvt`, after Startup: the scan of the
items' boxes (`SkipsItem`), the WHERE clause of the two source modes (`Where`), LIMIT without ORDER BY
(`Limited`: any rows), and DuckDB's binder (`Reject`). The world, that is which row is in which file,
which STAC items have an asset and which columns the download lacked, is chosen in the initial state.
`EncodeMvt` skips a row without a geometry, which has counted against the limit. A
failing query is left to TileServer, and the cache to the other modules: `tile` is one answer.

**Viewer** is the script of the page. `currentDataset` and `currentQ` are what the user wants; `options`,
`selected` and `qInput` are the form, `layer` is source and layer on the map, `address` the address bar
and the info panel. `phase` is MapLibre's: before the style is there `addSource` throws, and until the
`load` event nobody listens to tile events. The listener on the select element is added twice, once for
each call of `populateDatasetSelector`; its second run in the same event repeats what the first has done
and is not a step. `asked` and `picked` remember the URL and the user for a property.

**TileDisk** is one tile of a directory that several processes share. Names and inodes are told apart,
for an open handle follows the file and not the name. Each process is one actor, because within a
process the coalescer lets one writer per tile in (theorem `OneLeaderPerKey`). What processes compute for a
key need not be the same bytes: the key leaves out the limit and the release, and LIMIT goes without ORDER
BY. A file therefore holds the tile that was written last, from offset 0, and has the length of the longest
one written since it was truncated; `Over` says what a write leaves.

## Runs

| run | bounds | shows |
|---|---|---|
| coalescer_safety | 3 threads, 1 tile, disk, failing files, restarts | types, one leader, no torn tile, no forgotten exception, no lost wake-up, followers find the tile, files stay, implements SingleFlight, every call returns |
| filter_safety | 3 threads, 1 question, failing translations | no lost wake-up, a promised translation is in some cache, implements SingleFlight |
| filter_live | 2 threads, good and bad SQL, all failures | every request gets through |
| query | 2 threads, 1 slot, failing builds and cursors | concurrency bound, implements SlotPool, slots given back, never everyone waiting, interrupts and timeouts |
| releases | 2 threads, 2 tiles, 3 releases, all failures, restarts | the newest but for one exception, pinned, no tile on disk newer, fetched once, never everyone waiting for a lock, locks come back |
| disk | 2 processes, 2 tiles of unequal length, crashes, failing file operations | an overtaken put is published; a torn file has a writer and heals, or mixes two tiles |
| server_safety | 3 clients, 2 workers, 1 question or none, 1 tile | the pool never stands still, who drops a filter, never unfiltered |
| server_live | 3 clients, 2 workers, 1 question, 1 tile | every request answered |
| startup | 7 datasets, all WARMUP_TILES of up to 2 of 3 entries; 3 rows in 2 files, 2 limits | ready with every tile tried; nothing lost; clauses that keep to the prompt bind |
| viewer | opened with 3 datasets, 2 texts, 3 tiles | map and address bar agree; the URL is honoured; the spinner; no needless rebuild |
| filter_stale_error | 2 threads, failing translations | *violated*, see below |
| disk_shared | 2 processes | *violated*, see below |

Three threads on one key are enough for a leader, a follower that has not read its outcome yet and a
leader of the next generation; a second key matters only to eviction, about which the proofs speak.
`server_safety` and `server_live` have a client more than workers, so that a job waits in the queue while
the leader and a follower have the two workers, and a follower may be woken, fall through and fail before
the third begins; `FollowersOfRunningJobs` and `PoolMoves`, which are proved for any number of workers, rule
out that the pool stands still. In `server_live` every request has the question, which is the longer way.
Two threads are enough for `query`, where they compete for one slot and one may have its build fail before
the other's, and for `releases`: one resolves, builds or fails while the other waits or goes on; of its three
releases two are of one day, with counters 9 and 10. Two processes are enough for `disk`, where each has one
handle and one tile in memory: what they do to each other is between two, and the proofs speak of any
number. The rows of `startup` are one across the tile's edge, one outside, and one within that has lost its
geometry; with two files every box of a file around them occurs.
Bounds that stand for the unbounded are `MaxRelease`, `MaxTiles`, `Entries`, `Clauses`, `Limits`, `Qs`, and
the cursor and inode names; the latter are more than can be in use, so nobody waits for a name. `filter_safety` leaves failing queries to
`filter_live`, because `TranslationKept` is about the time before one. Symmetry is used in runs without
liveness only. Two runs switch the deadlock check off because the code can really stop: in `query` all slots
are lost to cursors that fail (`EngineMoves` has that, and that alone, as its exception), in `startup` the
process ends with a timeout that is not a number.

The type invariants but that of RequestCoalescer are proved (theorems `TypeCorrect`) and take no run.

Besides `fetches` of StacIndex and what is said above of `woke` and of the Viewer, four variables are there
for properties only: `lost` of QueryEngine counts slots lost to a cursor that
could not be opened; `rejects` of TileServer has the tiles and clauses whose query was rejected; `spoiled` of
TileDisk remembers that a writer gave up between open and write, and `shared` which files two processes had
open at a time.

### Where the documentation and the code differ

Two runs check a claim of a comment and find it violated; PROJECT.json quotes the lines.

- `filter_stale_error`: "followers wait for the leader's event and read from the cache". A follower
  that falls through and fails leaves its exception in `_inflight_errors`, for it never runs the finally
  block. A follower of a later, successful leader raises it.
- `disk_shared`: the disk layer is offered to several processes, but they share the `.tmp` name. One
  renames the file another has just truncated, and what a process reads from it is not a whole tile.

The models show more places where the code does less than a comment says. They are modelled as the code
has them, and no property is checked against them:

- a follower of a failed leader may find `_errors` empty again (`PopError`), and one of a successful
  leader the exception of the next (`Reraise`). `ErrorHasLeader` bounds how long one stays, and holds
  through both;
- followers that fall through compute unregistered (`Recompute`), so that several may compute one tile;
  `FollowerFindsTile` says when not;
- the cache key leaves `limit` out, so a tile computed with one limit answers requests with another;
- after a race in `get_default_cache` a follower misses its own FilterCache and calls the LLM too;
- `invalidate` drops whatever the key holds by then, and any DuckDB error that is no timeout leads there;
- the timeout flag is set before the interrupt, so a query that fails by itself may be reported as a
  timeout; `InterruptIsTimeout` is the direction the handler relies on;
- a timer that fires after `timer.start()` and before `execute` interrupts nothing: unless DuckDB remembers
  it, that query has no deadline, and its slot is held as long as it runs. This is the exception of
  `NobodyHoldsForever`, which says of every other query that its slot comes back;
- the repository's `README.md:31` has "No pre-built tiles", "the underlying Overture release updates and the next request
  reflects it". A release is resolved once per process, so a new one waits for the next process
  (`ReleasePinned`). The docstring counts on "Knative scales these pods to zero", but `k8s/ksvc.yaml` has a
  minimal scale of 1;
- tile files outlive their release: a process that resolves a newer one serves the older tiles among its
  own, and always will. `FilesNotNewer` says that it is not the other way round;
- two processes may have one `.tmp` file open at a time. If their tiles differ in length, the shorter one
  written last leaves the end of the longer one behind it; once renamed, every process finds that file, and
  nothing mends it (`Mixed`, the exception of `TornOnlyInWriting` and `TornFileHeals`);
- "a plain lexicographic sort is chronological" holds up to the tenth release of a day (`NewestResolved`);
- a STAC item without an asset is left out of the index, and of the copy on disk that later processes load;
- two aliases of buildings lead to a column `name` that is no longer projected, so that a model that maps
  them itself writes a clause that does not bind: the tile is empty (`PromptedClausesBind`);
- `build_target` leaves out a column the download lacks, and each query of a dataset that reads it fails;
- the spinner is said to count until a tile is "loaded / errored"; a tile the map gives up is neither, and
  stays in the count until the next layer (`SpinnerCountsFetches`);
- the answer of `/datasets` puts the applied filter back into the text field over what is being typed;
- the first index that cannot be built ends the loop over the others (`WarmupFails`); a
  WARMUP_QUERY_TIMEOUT_S that is not a number ends the process (`WarmupTimeout`).

### Fairness

Worker threads are scheduled by the operating system, so each has weak fairness on the steps it can
take; locks and the queue of the executor need no more, since whoever holds them goes on. An LLM call
and an HTTP request end by their timeouts. A DuckDB query is *not* assumed to end (`QueryEnds` and
`QueryFails` are outside the fairness of QueryEngine); what is assumed is that an armed timer fires and
that DuckDB stops a query it was told to stop while it runs. In RequestCoalescer and TileServer, computing a
tile ends, which rests on that and leaves the query without a deadline aside. `lifespan` goes on, as all it waits for has a timeout. No client is obliged to
call; the viewer needs no fairness, as nothing it is asked has to happen.

## Proofs

Every theorem below is about all values of the constants: any threads, clients or processes, any number
of keys, slots, workers or releases, all settings of the fault constants. What is assumed is named in the
modules (`…Assumption`), and TLC evaluates it in every run. Most of it says that `None` and its like are
different from everything else and that sizes are positive. The assumptions with content are these.

- `IsFiniteSet(Threads)` in QueryEngine: asyncio's executor has a fixed number of threads. Slots are
  counted, and an infinite set has no cardinality.
- `StacAssumption`: Overture numbers its releases in the order of their days and, within a day, of a
  counter below 100, which is what "the newest" means.
- `ContentAssumption`: there are finitely many rows, and boxes are boxes of integers with their corners in
  order. TileContent compares coordinates and does no arithmetic on them, so integers stand for floats.

In each module an inductive invariant `IInv` joins the properties with what they rest on; TLC has checked
each `IInv` on the bounds of the runs.

`RequestCoalescer_proofs` proves, for every set of threads and keys, every cache size and both settings
of the disk and fault constants, every invariant of `coalescer_safety`, the type invariant among them, the
action property, that `get_or_compute` implements SingleFlight, and that the memory layer does not outgrow
its maxsize (`CacheIsBounded`, which no run checks). `FollowerFindsTile` has two cases: the run checks the
one of a memory layer with room for all tiles; that of a small one over a disk that works is only proved. The assumptions are those of the
modules: a positive cache size, and `None` and `Torn` being different from everything else.

None of the invariants is inductive alone. `IInv` adds

- `Roles`: `pc` decides whether a thread is a leader, a follower or neither. Without it `SingleFlight`
  does not survive a step of the finally block, since a follower could be taken for a leader;
- `Carried`: where a thread holds bytes, so that what is stored is never nothing;
- `Whole`: the `.tmp` file of a thread about to rename holds that thread's bytes. This needs
  `SingleFlight`: another writer of the key could have opened it since;
- `Published`: once a leader is through with put on a disk that works, its file is there, which is why
  a follower's lookup hits;
- `Recent`: the ages of the memory layer are a recency order without gaps, so that the held keys have
  different ages below the maxsize, which bounds their number, and a layer with room for all keys evicts
  nothing (`NothingEvicted`);
- `Remembered`: with such a layer, what a leader has put into memory is still there.

Each part has a lemma that every step keeps it, with one case for each action. The refinement maps
`_inflight` to `leader`, and a thread to what it leads until it has set its Event: `PopInflight` is
`Withdraw`, `SetEvent` is `Release`, `Restart` is `Restart`, and everything else stutters.

`ReleaseStore_proofs` proves the type invariant, `ReleasePinned`, `FetchedOnce`, `FilesNotNewer`
and `LocksMove`, for any threads, tiles, number of releases, ids and settings of the fault
constants. Its inductive invariant adds

- `Resolving`: the thread that fetches the catalog holds `_resolve_lock`, and while anyone holds it no
  release is resolved. Without it a second resolution could move a process to another release;
- `Building`: who holds the lock of an index, and that between the test under it and the fetch nobody
  else loads that index, on which `FetchedOnce` rests. A `/datasets` request never gets that far;
- `Fetched`: a fetched collection stays loaded, so that the test under the lock sees it;
- `Listed`: what a process resolves, and what a tile was made from, is a release that the catalog has had as
  its newest, so that the releases of the tiles are among those a later process takes the newest of, or are
  deleted by then and older than those.

The same module proves `NewestResolved`. Both it and `FilesNotNewer` rest on lemmas about ids: what the digits
of one are (`IdDigits`), and that an earlier release sorts before a later one unless both are of one day and
the later counter has a digit more (`SortsByDate`), which is the exception of the two properties and the only
one; `NewestOfAll` says what follows for the release that is taken for the newest.

`FilterCompiler_proofs` proves the type invariant, `NoLostWakeup`, `TranslationKept`, that no FilterCache
outgrows its maxsize (`CacheIsBounded`, which no run checks) and that `compile_filter` implements
SingleFlight. `pc` does not tell leaders from followers here, as a follower that fell through runs the
leader's `try` statement. Its `IInv` adds

- `Roles`: a thread leads if its Event is its own (`lead[t] = t`), and only such a thread gets into the
  finally block;
- `Registered`: `_inflight` has exactly the leaders that have not popped themselves. A thread that fell
  through may be translating at the same time and is not in it;
- `Recent`: the same of the ages of each FilterCache, and what is held has a translation;
- `Stored`: while nothing is evicted or dropped, a leader that is through with put has left its translation
  in the cache that it uses, which need not be the default one by then.

`QueryEngine_proofs` proves the type invariant, `SlotsConserved` (of no run, since SlotPool says more),
`BoundedConcurrency`, `InterruptsOnlyExpired`, `InterruptIsTimeout` and `EngineMoves`. Its `IInv` adds

- `Locked`: who holds `_instance_lock`, and that the semaphore of a build under way is full;
- `Unbuilt`: before there is an instance nobody has a slot or asks for one. A failed build leaves its
  semaphore in `_query_slots`, and the next build replaces it; this is why nobody can then hold a slot
  of the old one, without which the bound would be broken;
- `Owned`: a query has its cursor to itself. The names of cursors are used again, as addresses are;
- `Watched`: what is interrupted, or is going to be, has its timeout flag set. This is the order of the two
  statements in the timer's callback, and gives both properties of timeouts.

It also proves that `query_features` implements SlotPool. `free` is the value of the semaphore once there
is an instance, and all slots before; the holders are the threads between acquire and release, and `gone` is
`lost`. `Acquire` is `Take`, `Release` is `Give`, `CursorFails` is `Lose`, and all else stutters: a build
makes a semaphore that is full, and by `Unbuilt` nobody holds a slot until it is in use (`BuildingInvisible`).

`TileServer_proofs` proves the type invariant, `FollowersOfRunningJobs`, `NeverUnfiltered`,
`OnlyRejectedClausesDrop`, that the queue is exact (`QueueIsExact`, which no run checks), and that the pool
never stands still (`PoolMoves`): as long as there is a job, an idle worker can take one or a job on a worker
is not blocked. That is what `FollowersOfRunningJobs` is for, and it holds for any number
of workers, even one. Its `IInv` adds

- `Queued`: the queue holds the jobs no worker has, each once, so that a worker that takes one takes no
  running job a second time;
- `Roles`: who leads has a worker until it has released its followers;
- `Registered`: a key's leader is a job that has not withdrawn, whom a later job will follow;
- `Translated`: a translation that raised nothing has left SQL exactly where there was a question;
- `Rejections`: a rejection that a job carries, or that lies in the table of exceptions, is of a query of that
  very tile with that very clause, however long after a job picks it up, and from whoever left it.

It also proves of SingleFlight alone that no thread is registered for two keys and nobody follows a thread that has nothing
left to release (`SingleFlightIsSound`); every implementation inherits that.

`TileDisk_proofs` proves the type invariant, `OvertakenIsPublished` and `TornOnlyInWriting`, for tiles of any
lengths. Each needs to speak of the file before its rename too: `Overtaken` of a process that still writes,
`TornHeld` of the `.tmp` file, for a rename turns it into the published one. `Fronts` says what a file
consists of, and `Sharing` that a file which is not shared has at most one process at it, so that only a
shared one can mix two tiles.

`TileContent_proofs` proves `NothingLost`. The step it rests on is that the scan of the items' boxes skips no
file with a row that touches the tile (`NotSkipped`), because the box of a file encloses those of its rows
(`FileEncloses`). That is a minimum and a maximum over a finite set, which the lemmas `LeastNatural`,
`LeastValue` and `GreatestValue` get from the well-foundedness of the natural numbers. The module also proves
`PromptedClausesBind`, for downloads that lack any columns at all; the run lets them lack one. One lemma
finds a dataset by its id, and one for each kind of source goes through its tables.

`Viewer_proofs` proves `LayerMatchesState`, `UrlDatasetHonoured`, `SpinnerCountsFetches` and
`RebuiltOnlyIfDifferent`. Its `IInv` adds `Chosen`, that what is wanted is a dataset of the list or the
address, without which it could not be told from no layer at all; `ListKnown`, that the list is the
server's only after the answer; and `Counted`, that nothing is counted before the map is ready.

### Only model-checked

All liveness: `EveryCallReturns`, `EveryCompileEnds`, `EveryRequestAnswered`, `NobodyHoldsForever`,
`LocksComeBack`, `TornFileHeals`, `ReadyWithAllTried`. The prover has neither fairness nor ENABLED. What
`EngineMoves`, `LocksMove` and `PoolMoves` prove is the part of it that one state shows: somebody can go on.

## Not modelled

The wording of prompts and SQL; the client pool of the LLM, whose round-robin counter only spreads load;
`FilterCache.clear`, which has no caller in the server; `/health`; geometry and properties in
`encode_mvt`, which are mapbox_vector_tile's, with what it makes of a degenerate one; enum values of columns; the download in `build_target`; the
styles, views, popups and status dots of the page; deployment files. Hash collisions of file names are
taken not to happen, and hrefs of the catalog to have the form the code expects.

## Plan

Done in this order, most important behaviour first: SingleFlight, TileCache and RequestCoalescer with
their proofs; FilterCompiler; QueryEngine; StacIndex; TileDisk; TileServer; Startup; ReleaseStore; Datasets
and TileContent; Viewer.

The proofs of RequestCoalescer, ReleaseStore, QueryEngine, FilterCompiler, TileServer, TileDisk, Viewer and
TileContent followed. Every invariant and every action property of the runs, and both abstract
specifications, are now theorems. What is left:

1. TileServer as a client of SlotPool: that a job that runs a query takes one slot and gives it back, which
   needs the handler's `Compute` split at the boundary of `query_features`.
2. Startup: that the datasets of the registry are tried in order, up to the first that cannot be built. This
   is an induction over a sequence, and a fact of the loop rather than of an interleaving.
