------------------------------ MODULE Startup ------------------------------
(***************************************************************************)
(* server.lifespan, which runs before the process accepts a request: it    *)
(* builds the DuckDB instance and the file index of every Overture         *)
(* dataset, then pulls the tiles of WARMUP_TILES through DuckDB.  Every    *)
(* step may fail.  A query of the second part builds for itself what the   *)
(* first part failed to build.  Between the two, and outside both try      *)
(* statements, it reads how long such a query may take.                    *)
(***************************************************************************)
EXTENDS Datasets

CONSTANTS Unknown,    \* a name that is no dataset
          Malformed,  \* an entry of WARMUP_TILES that is not dataset/z/x/y
          Entries,    \* bound: the entries WARMUP_TILES is made of
          MaxTiles    \* bound: how many it has

Indexed == {d.id : d \in {e \in ToSet(Registry) : ~ e.direct}}

ASSUME StartupAssumption ==
  /\ MaxTiles \in Nat
  /\ {Unknown, Malformed} \cap Ids = {}
  /\ Unknown # Malformed
  /\ Entries \subseteq Ids \cup {Unknown, Malformed}

VARIABLES stage,     \* where lifespan is
          builds,    \* datasets of the first loop that are still to come
          tiles,     \* warm-up tiles that are still to come
          wanted,    \* WARMUP_TILES
          numeric,   \* WARMUP_QUERY_TIMEOUT_S is a number or not set
          instance,  \* the DuckDB instance is there
          indexes,   \* datasets whose index is built
          tried      \* warm-up tiles that a query was made for

vars == <<stage, builds, tiles, wanted, numeric, instance, indexes, tried>>

TypeOK ==
  /\ stage \in {"connect", "build", "timeout", "warm", "ready", "dead"}
  /\ builds \in Seq(ToSet(Registry))
  /\ tiles \in Seq(Entries \ {Malformed})
  /\ wanted \in SeqOf(Entries, MaxTiles)
  /\ numeric \in BOOLEAN /\ instance \in BOOLEAN
  /\ indexes \subseteq Indexed
  /\ tried \subseteq Entries

\* What _warmup_tiles makes of WARMUP_TILES.
WarmupTiles(entries) == SelectSeq(entries, LAMBDA e : e # Malformed)

Init ==
  /\ stage = "connect"
  /\ builds = Registry
  /\ wanted \in SeqOf(Entries, MaxTiles)
  /\ tiles = WarmupTiles(wanted)
  /\ numeric \in BOOLEAN
  /\ instance = FALSE
  /\ indexes = {} /\ tried = {}

GetConnection ==
  /\ stage = "connect"
  /\ instance' = TRUE
  /\ stage' = "build"
  /\ UNCHANGED <<builds, tiles, wanted, numeric, indexes, tried>>

\* A dataset with Parquet URLs of its own has no index, and is skipped.
BuildIndex ==
  /\ stage = "build" /\ builds # <<>>
  /\ indexes' = indexes \cup ({Head(builds).id} \cap Indexed)
  /\ builds' = Tail(builds)
  /\ UNCHANGED <<stage, tiles, wanted, numeric, instance, tried>>

BuildsDone ==
  /\ stage = "build" /\ builds = <<>>
  /\ stage' = "timeout"
  /\ UNCHANGED <<builds, tiles, wanted, numeric, instance, indexes, tried>>

\* One except clause around the connection and the whole loop.
WarmupFails ==
  /\ stage = "connect" \/ (stage = "build" /\ builds # <<>>)
  /\ stage' = "timeout"
  /\ UNCHANGED <<builds, tiles, wanted, numeric, instance, indexes, tried>>

WarmupTimeout ==
  /\ stage = "timeout"
  /\ stage' = IF numeric THEN "warm" ELSE "dead"
  /\ UNCHANGED <<builds, tiles, wanted, numeric, instance, indexes, tried>>

\* query_features: the index first, then, when it names a file, the instance.
QueryTile ==
  /\ stage = "warm" /\ tiles # <<>>
  /\ Head(tiles) \in Ids
  /\ indexes' = indexes \cup ({Head(tiles)} \cap Indexed)
  /\ instance' \in {instance, TRUE}
  /\ tried' = tried \cup {Head(tiles)}
  /\ tiles' = Tail(tiles)
  /\ UNCHANGED <<stage, builds, wanted, numeric>>

\* Mutant: the except clause is around this loop too.
TileFailureEndsLoop ==
  /\ stage = "warm" /\ tiles # <<>>
  /\ tried' = tried \cup {Head(tiles)}
  /\ tiles' = <<>>
  /\ UNCHANGED <<stage, builds, wanted, numeric, instance, indexes>>

\* An unknown dataset fails at once, a query at any point: the index or the
\* instance it has built by then stays.
TileFails ==
  /\ stage = "warm" /\ tiles # <<>>
  /\ \/ UNCHANGED <<indexes, instance>>
     \/ /\ Head(tiles) \in Ids
        /\ indexes' = indexes \cup ({Head(tiles)} \cap Indexed)
        /\ instance' \in {instance, TRUE}
  /\ tried' = tried \cup {Head(tiles)}
  /\ tiles' = Tail(tiles)
  /\ UNCHANGED <<stage, builds, wanted, numeric>>

Yield ==
  /\ stage = "warm" /\ tiles = <<>>
  /\ stage' = "ready"
  /\ UNCHANGED <<builds, tiles, wanted, numeric, instance, indexes, tried>>

Next ==
  \/ GetConnection \/ BuildIndex \/ BuildsDone \/ WarmupFails \/ WarmupTimeout
  \/ QueryTile \/ TileFails \/ Yield

Spec == Init /\ [][Next]_vars

\* Every step ends: HTTP requests and queries have timeouts.
FairSpec == Spec /\ WF_vars(Next)

(***************************************************************************)
(* Properties                                                              *)
(***************************************************************************)
\* "A cold cache is a slow pod, not a broken one": whatever fails, the process
\* becomes ready, and a tile that fails to warm up, or a first part that failed,
\* takes no other tile with it: all that WARMUP_TILES names have been tried.  The
\* exception is a timeout that is not a number, which ends the process.
ReadyWithAllTried ==
  <>(\/ stage = "ready" /\ (ToSet(wanted) \ {Malformed}) \subseteq tried
     \/ stage = "dead" /\ ~ numeric)
=============================================================================
