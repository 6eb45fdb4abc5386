----------------------------- MODULE TileServer -----------------------------
(***************************************************************************)
(* server.tile from the request to the response.  The handler is a         *)
(* coroutine on the event loop; compile_filter and get_or_compute are jobs *)
(* that asyncio.to_thread queues for a pool of worker threads.  A job that *)
(* follows another one blocks its worker, so the pool, the two coalescers  *)
(* and the handlers have to be looked at together.                         *)
(*                                                                         *)
(* Both coalescers are taken as what SingleFlight says of them, which      *)
(* RequestCoalescer and FilterCompiler implement; they share its tables    *)
(* here, because a question and a tile are never the same key.  The caches *)
(* do not evict here: that is what those modules look at.  An exception is *)
(* named by what the handler makes of it.                                  *)
(***************************************************************************)
EXTENDS Sequences, FiniteSets, Integers

CONSTANTS Clients,    \* each has at most one request open
          Qs,         \* what q may be: questions, and None when there is no q
          Tiles,      \* coordinates of a tile
          Sqls,       \* WHERE clauses the LLM may answer with
          Workers,    \* threads of the default executor
          None        \* no q, no SQL, no key, no client, no exception

Questions == Qs \ {None}
TileKeys == Tiles \X (Sqls \cup {None})
Keys == Questions \cup TileKeys
Asks == [q : Qs, tile : Tiles]
Exceptions == {"llm", "timeout", "rejected", "other"}

ASSUME ServerAssumption ==
  /\ Workers \in Nat \ {0}
  /\ Questions \cap TileKeys = {}
  /\ None \notin Clients \cup Sqls \cup Keys \cup Asks \cup Exceptions

VARIABLES pc,       \* where the handler of each client's request is
          ask,      \* what the request asks for
          sql,      \* filter_sql of a handler
          queue,    \* jobs no worker has taken yet
          job,      \* where the job of a handler is
          raised,   \* the exception a job ends with
          filters,  \* FilterCache
          tiles,    \* TileCache
          errors,   \* _errors and _inflight_errors
          rejects,  \* history: tiles and clauses whose query was rejected
          leader, leads, follows   \* of SingleFlight

SF == INSTANCE SingleFlight WITH Threads <- Clients

flightVars == <<leader, leads, follows>>
cacheVars == <<filters, tiles, rejects>>
handlerVars == <<pc, ask, sql>>
vars == <<handlerVars, queue, job, raised, cacheVars, errors, flightVars>>

OnWorker == {"start", "wait", "work", "stored", "withdrawn", "released"}
Busy == {c \in Clients : job[c] \in OnWorker}

TypeOK ==
  /\ pc \in [Clients -> {"idle", "arrived", "compile", "look", "check", "compute"}]
  /\ ask \in [Clients -> Asks \cup {None}]
  /\ \A c \in Clients : ask[c] = None <=> pc[c] = "idle"
  /\ sql \in [Clients -> Sqls \cup {None}]
  /\ queue \in Seq(Clients)
  /\ job \in [Clients -> {"none", "queued", "done"} \cup OnWorker]
  /\ Cardinality(Busy) <= Workers
  /\ \A c \in Clients : job[c] # "none" <=> pc[c] \in {"compile", "compute"}
  /\ raised \in [Clients -> Exceptions \cup {None}]
  /\ filters \in [Questions -> Sqls \cup {None}]
  /\ tiles \subseteq TileKeys /\ rejects \subseteq TileKeys
  /\ errors \in [Keys -> Exceptions \cup {None}]
  /\ leader \in [Keys -> Clients \cup {None}]
  /\ leads \in [Clients -> Keys \cup {None}]
  /\ follows \in [Clients -> Clients \cup {None}]

Init ==
  /\ pc = [c \in Clients |-> "idle"]
  /\ ask = [c \in Clients |-> None]
  /\ sql = [c \in Clients |-> None]
  /\ queue = <<>>
  /\ job = [c \in Clients |-> "none"]
  /\ raised = [c \in Clients |-> None]
  /\ filters = [q \in Questions |-> None]
  /\ tiles = {} /\ rejects = {}
  /\ errors = [k \in Keys |-> None]
  /\ SF!Init

(***************************************************************************)
(* The client and the handler.                                             *)
(***************************************************************************)
Arrive(c, a) ==
  /\ pc[c] = "idle"
  /\ pc' = [pc EXCEPT ![c] = "arrived"]
  /\ ask' = [ask EXCEPT ![c] = a]
  /\ UNCHANGED <<sql, queue, job, raised, cacheVars, errors, flightVars>>

\* The handler returns a response or raises.
Respond(c) ==
  /\ pc' = [pc EXCEPT ![c] = "idle"]
  /\ ask' = [ask EXCEPT ![c] = None]
  /\ sql' = [sql EXCEPT ![c] = None]
  /\ job' = [job EXCEPT ![c] = "none"]
  /\ raised' = [raised EXCEPT ![c] = None]

\* request.is_disconnected(): the client may have gone at either check.
Abandon(c) ==
  /\ pc[c] \in {"arrived", "check"}
  /\ Respond(c)
  /\ UNCHANGED <<queue, cacheVars, errors, flightVars>>

Submit(c, stage) ==
  /\ pc' = [pc EXCEPT ![c] = stage]
  /\ job' = [job EXCEPT ![c] = "queued"]
  /\ queue' = Append(queue, c)

\* An unknown dataset or a zoom out of range.
Refuse(c) ==
  /\ pc[c] = "arrived"
  /\ Respond(c)
  /\ UNCHANGED <<queue, cacheVars, errors, flightVars>>

StartCompile(c) ==
  /\ pc[c] = "arrived"
  /\ Submit(c, "compile")
  /\ UNCHANGED <<ask, sql, raised, cacheVars, errors, flightVars>>

\* Mutant: the error is logged and the tile served without a filter.
CompileRaisedIgnored(c) ==
  /\ pc[c] = "compile" /\ job[c] = "done" /\ raised[c] # None
  /\ pc' = [pc EXCEPT ![c] = "look"]
  /\ job' = [job EXCEPT ![c] = "none"]
  /\ raised' = [raised EXCEPT ![c] = None]
  /\ UNCHANGED <<ask, sql, queue, cacheVars, errors, flightVars>>

CompileRaised(c) ==
  /\ pc[c] = "compile" /\ job[c] = "done" /\ raised[c] # None
  /\ Respond(c)
  /\ UNCHANGED <<queue, cacheVars, errors, flightVars>>

Compiled(c) ==
  /\ pc[c] = "compile" /\ job[c] = "done" /\ raised[c] = None
  /\ pc' = [pc EXCEPT ![c] = "look"]
  /\ job' = [job EXCEPT ![c] = "none"]
  /\ UNCHANGED <<ask, sql, queue, raised, cacheVars, errors, flightVars>>

\* Mutant: the clause is left out of the key.
TileKeyUnfiltered(c) == <<ask[c].tile, None>>

TileKey(c) == <<ask[c].tile, sql[c]>>

\* cache.get on the event loop, before the work is announced.
LookUp(c) ==
  /\ pc[c] = "look"
  /\ IF TileKey(c) \in tiles
       THEN Respond(c)
       ELSE /\ pc' = [pc EXCEPT ![c] = "check"]
            /\ UNCHANGED <<ask, sql, job, raised>>
  /\ UNCHANGED <<queue, cacheVars, errors, flightVars>>

\* path.exists(), which only a tile that is not in memory needs, raises.
LookUpRaises(c) ==
  /\ pc[c] = "look" /\ TileKey(c) \notin tiles
  /\ Respond(c)
  /\ UNCHANGED <<queue, cacheVars, errors, flightVars>>

StartCompute(c) ==
  /\ pc[c] = "check"
  /\ Submit(c, "compute")
  /\ UNCHANGED <<ask, sql, raised, cacheVars, errors, flightVars>>

ComputeDone(c) == pc[c] = "compute" /\ job[c] = "done"

\* A tile, a timeout, or an exception the handler does not catch.
Answer(c) ==
  /\ ComputeDone(c) /\ raised[c] # "rejected"
  /\ Respond(c)
  /\ UNCHANGED <<queue, cacheVars, errors, flightVars>>

\* except duckdb.Error: the filter of this question is dropped.
DropFilter(c) ==
  /\ ComputeDone(c) /\ raised[c] = "rejected"
  /\ filters' = [q \in Questions |-> IF q = ask[c].q THEN None ELSE filters[q]]
  /\ Respond(c)
  /\ UNCHANGED <<queue, tiles, rejects, errors, flightVars>>

(***************************************************************************)
(* The workers.                                                            *)
(***************************************************************************)
JobStep(c, from, to) ==
  /\ job[c] = from
  /\ job' = [job EXCEPT ![c] = to]

TakeJob ==
  /\ queue # <<>>
  /\ Cardinality(Busy) < Workers
  /\ JobStep(Head(queue), "queued", "start")
  /\ queue' = Tail(queue)
  /\ UNCHANGED <<handlerVars, raised, cacheVars, errors, flightVars>>

\* What the job asks its coalescer for.
KeyOf(c) == IF pc[c] = "compile" THEN ask[c].q ELSE TileKey(c)

\* No question needs no SQL.
FilterFor(c) == IF ask[c].q = None THEN None ELSE filters[ask[c].q]

Cached(c) ==
  IF pc[c] = "compile" THEN ask[c].q = None \/ FilterFor(c) # None
                       ELSE TileKey(c) \in tiles

\* The job returns what it found in its cache.
ReturnCached(c) ==
  /\ Cached(c)
  /\ sql' = IF pc[c] = "compile" THEN [sql EXCEPT ![c] = FilterFor(c)] ELSE sql
  /\ UNCHANGED <<pc, ask, queue, raised, cacheVars, errors, flightVars>>

FindCached(c) ==
  /\ JobStep(c, "start", "done")
  /\ ReturnCached(c)

Lead(c) ==
  /\ JobStep(c, "start", "work")
  /\ ~ Cached(c)
  /\ SF!Lead(c, KeyOf(c))
  /\ UNCHANGED <<handlerVars, queue, raised, cacheVars, errors>>

Follow(c) ==
  /\ JobStep(c, "start", "wait")
  /\ ~ Cached(c)
  /\ SF!Follow(c, KeyOf(c))
  /\ UNCHANGED <<handlerVars, queue, raised, cacheVars, errors>>

Woken(c) == job[c] = "wait" /\ follows[c] = None

Reraise(c) ==
  /\ Woken(c)
  /\ errors[KeyOf(c)] # None
  /\ JobStep(c, "wait", "done")
  /\ raised' = [raised EXCEPT ![c] = errors[KeyOf(c)]]
  /\ UNCHANGED <<handlerVars, queue, cacheVars, errors, flightVars>>

PickUp(c) ==
  /\ Woken(c)
  /\ errors[KeyOf(c)] = None
  /\ JobStep(c, "wait", "done")
  /\ ReturnCached(c)

\* Mutant: a follower that finds nothing follows again.
FollowAgain(c) ==
  /\ Woken(c)
  /\ errors[KeyOf(c)] = None
  /\ ~ Cached(c)
  /\ JobStep(c, "wait", "wait")
  /\ SF!Follow(c, KeyOf(c))
  /\ UNCHANGED <<handlerVars, queue, raised, cacheVars, errors>>

FallThrough(c) ==
  /\ Woken(c)
  /\ errors[KeyOf(c)] = None
  /\ ~ Cached(c)
  /\ JobStep(c, "wait", "work")
  /\ UNCHANGED <<handlerVars, queue, raised, cacheVars, errors, flightVars>>

\* path.exists() raises in either look at the tile cache, outside the try
\* statement of a leader.
GetRaises(c) ==
  /\ pc[c] = "compute" /\ ~ Cached(c)
  /\ \/ JobStep(c, "start", "done")
     \/ Woken(c) /\ errors[KeyOf(c)] = None /\ JobStep(c, "wait", "done")
  /\ raised' = [raised EXCEPT ![c] = "other"]
  /\ UNCHANGED <<handlerVars, queue, cacheVars, errors, flightVars>>

\* A leader goes on to its finally block, a follower has none.
AfterWork(c) == IF leads[c] = None THEN "done" ELSE "stored"

Translate(c, s) ==
  /\ pc[c] = "compile"
  /\ JobStep(c, "work", AfterWork(c))
  /\ sql' = [sql EXCEPT ![c] = s]
  /\ filters' = [filters EXCEPT ![ask[c].q] = s]
  /\ UNCHANGED <<pc, ask, queue, raised, tiles, rejects, errors, flightVars>>

\* query_features and encode_mvt; only a leader stores the tile.
Compute(c) ==
  /\ pc[c] = "compute"
  /\ JobStep(c, "work", AfterWork(c))
  /\ tiles' = IF leads[c] = None THEN tiles ELSE tiles \cup {TileKey(c)}
  /\ UNCHANGED <<handlerVars, queue, raised, filters, rejects, errors, flightVars>>

\* A follower that fails to translate leaves the exception behind, one that
\* fails to compute does not.  Any duckdb.Error but a timeout is a rejection,
\* be it for the clause, for a file or for a build that fails.
WorkFails(c, e) ==
  /\ e = "llm" <=> pc[c] = "compile"
  /\ JobStep(c, "work", AfterWork(c))
  /\ raised' = [raised EXCEPT ![c] = e]
  /\ errors' = IF leads[c] = None /\ pc[c] = "compute" THEN errors
               ELSE [errors EXCEPT ![KeyOf(c)] = e]
  /\ rejects' = IF e = "rejected" THEN rejects \cup {<<ask[c].tile, sql[c]>>} ELSE rejects
  /\ UNCHANGED <<handlerVars, queue, filters, tiles, flightVars>>

Withdraw(c) ==
  /\ JobStep(c, "stored", "withdrawn")
  /\ SF!Withdraw(c, KeyOf(c))
  /\ UNCHANGED <<handlerVars, queue, raised, cacheVars, errors>>

\* Mutant: the Event is set only when there is a result.
ReleaseOnSuccess(c) ==
  /\ JobStep(c, "withdrawn", "released")
  /\ IF raised[c] = None THEN SF!Release(c, KeyOf(c)) ELSE UNCHANGED flightVars
  /\ UNCHANGED <<handlerVars, queue, raised, cacheVars, errors>>

Release(c) ==
  /\ JobStep(c, "withdrawn", "released")
  /\ SF!Release(c, KeyOf(c))
  /\ UNCHANGED <<handlerVars, queue, raised, cacheVars, errors>>

PopError(c) ==
  /\ JobStep(c, "released", "done")
  /\ errors' = [errors EXCEPT ![KeyOf(c)] = None]
  /\ UNCHANGED <<handlerVars, queue, raised, cacheVars, flightVars>>

JobOf(c) ==
  \/ FindCached(c) \/ GetRaises(c) \/ Lead(c) \/ Follow(c)
  \/ Reraise(c) \/ PickUp(c) \/ FallThrough(c)
  \/ (\E s \in Sqls : Translate(c, s)) \/ Compute(c)
  \/ (\E e \in Exceptions : WorkFails(c, e))
  \/ Withdraw(c) \/ Release(c) \/ PopError(c)

Handle(c) ==
  \/ Refuse(c) \/ Abandon(c)
  \/ StartCompile(c) \/ CompileRaised(c) \/ Compiled(c)
  \/ LookUp(c) \/ LookUpRaises(c)
  \/ StartCompute(c) \/ Answer(c) \/ DropFilter(c)

Next ==
  \/ \E c \in Clients :
       (\E a \in Asks : Arrive(c, a)) \/ Handle(c) \/ JobOf(c)
  \/ TakeJob

Spec == Init /\ [][Next]_vars

\* The event loop runs every handler that can go on, an idle worker takes the
\* oldest job, and every job that can run is scheduled; LLM calls and queries
\* end, by their timeouts.
FairSpec ==
  /\ Spec
  /\ WF_vars(TakeJob)
  /\ \A c \in Clients : WF_vars(Handle(c)) /\ WF_vars(JobOf(c))

(***************************************************************************)
(* Properties                                                              *)
(***************************************************************************)
\* A job blocks its worker only for one that has a worker itself.  Were a
\* leader ever waiting in the queue, a burst of followers could take all the
\* workers and the server would stand still.
FollowersOfRunningJobs ==
  \A c \in Clients : follows[c] # None =>
    /\ job[c] = "wait"
    /\ job[follows[c]] \in {"work", "stored", "withdrawn"}

\* Followers block their workers, and a pool may be as small as it likes: as long
\* as there is a job, an idle worker can take the oldest one or some job that has
\* a worker can go on.
PoolMoves ==
  (\E c \in Clients : job[c] \in {"queued"} \cup OnWorker) =>
    \/ /\ queue # <<>> /\ job[Head(queue)] = "queued"
       /\ Cardinality(Busy) < Workers
    \/ \E c \in Clients : job[c] \in OnWorker /\ (job[c] = "wait" => Woken(c))

\* A request with a question is never answered with the tile that has no
\* filter, whichever way its translation fails and whoever led it.
NeverUnfiltered ==
  \A c \in Clients :
    pc[c] \in {"look", "check", "compute"} => (sql[c] = None <=> ask[c].q = None)

\* "the cached filter is fine and must not be thrown away": who drops the
\* translation of a question was to draw a tile with a clause on which a query
\* of that very tile was rejected, whether it ran the query, followed the one
\* that did or picked up an exception that was left behind.  The translation
\* that goes may be a newer one than that clause.
OnlyRejectedClausesDrop ==
  [][\A q \in Questions : filters[q] # None /\ filters'[q] = None =>
       \E c \in Clients :
         /\ pc[c] = "compute" /\ pc'[c] = "idle" /\ ask[c].q = q
         /\ <<ask[c].tile, sql[c]>> \in rejects]_vars

\* Every request is answered, also when its job waits in the queue behind jobs
\* that block their workers, and whoever leads, fails or gives up.
EveryRequestAnswered ==
  \A c \in Clients : pc[c] # "idle" ~> pc[c] = "idle"
=============================================================================
