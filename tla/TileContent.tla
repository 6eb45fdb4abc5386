---------------------------- MODULE TileContent ----------------------------
(***************************************************************************)
(* What is in a tile: the data side of query_features and encode_mvt, for  *)
(* a process that has gone through Startup.  Boxes are <<west, south,      *)
(* east, north>>; there is one tile, asked for with different datasets,    *)
(* clauses and limits.  Every dataset has the same rows: those of an       *)
(* Overture dataset lie in files of which the STAC catalog tells the box,  *)
(* those of the others in one file.                                        *)
(***************************************************************************)
EXTENDS Startup, FiniteSets

CONSTANTS Rows,
          Box,       \* the box of the geometry of a row
          Touching,  \* the rows whose geometry intersects the tile's box
          Shapeless, \* the rows without a geometry; Box is their bbox column
          Tile,      \* the box of the tile
          Files,     \* the Parquet files of an Overture dataset
          Clauses,   \* bound: the sets of rows a clause may select
          Limits,    \* bound: the limits requests have
          Lacking,   \* bound: what a Natural Earth download may lack
          NoTile

Overlaps(b) == b[1] <= Tile[3] /\ Tile[1] <= b[3] /\ b[2] <= Tile[4] /\ Tile[2] <= b[4]

Boxes == Int \X Int \X Int \X Int

ASSUME ContentAssumption ==
  /\ IsFiniteSet(Rows)
  /\ Box \in [Rows -> Boxes] /\ Tile \in Boxes
  /\ \A r \in Rows : Box[r][1] <= Box[r][3] /\ Box[r][2] <= Box[r][4]
  /\ Touching \subseteq {r \in Rows : Overlaps(Box[r])}
  /\ Shapeless \subseteq Rows \ Touching
  /\ Limits \subseteq Nat \ {0}

VARIABLES placed,   \* the file of a row
          assets,   \* the files whose STAC item names the file
          lacking,  \* columns the Natural Earth downloads lack
          tile      \* the tile that is being answered

content == <<placed, assets, lacking>>

ContentInit ==
  /\ Init
  /\ placed \in [Rows -> Files]
  /\ assets \in SUBSET Files
  /\ lacking \in SUBSET Lacking
  /\ tile = NoTile

\* The box of a file, as its STAC item has it.
FileBox(f) ==
  LET corners(i) == {Box[r][i] : r \in {q \in Rows : placed[q] = f}}
      least(S) == CHOOSE x \in S : \A y \in S : x <= y
      greatest(S) == CHOOSE x \in S : \A y \in S : x >= y
  IN <<least(corners(1)), least(corners(2)), greatest(corners(3)), greatest(corners(4))>>

\* Mutant: the western edges are compared with each other.
SkipsItemWest(b) == b[1] < Tile[1] \/ b[1] > Tile[3] \/ b[4] < Tile[2] \/ b[2] > Tile[4]

SkipsItem(b) == b[3] < Tile[1] \/ b[1] > Tile[3] \/ b[4] < Tile[2] \/ b[2] > Tile[4]

\* build leaves out an item without an asset.
FilesForBbox == {f \in assets \cap {placed[r] : r \in Rows} : ~ SkipsItem(FileBox(f))}

\* The WHERE clause: ST_Intersects, or the bbox column.
Where(d, r) ==
  IF d.intersects
    THEN r \in Touching
    ELSE /\ Box[r][1] <= Tile[3] /\ Box[r][3] >= Tile[1]
         /\ Box[r][2] <= Tile[4] /\ Box[r][4] >= Tile[2]

Scanned(d) == IF d.direct THEN Rows ELSE {r \in Rows : placed[r] \in FilesForBbox}

Selected(d, clause) == {r \in Scanned(d) \cap clause : Where(d, r)}

\* LIMIT without ORDER BY: any rows, as many as there may be.
Limited(rows, limit) ==
  IF Cardinality(rows) <= limit THEN {rows} ELSE {S \in SUBSET rows : Cardinality(S) = limit}

\* A row without a geometry, which counts against the limit, is no feature.
EncodeMvt(d, limit, clause, rows) ==
  [id |-> d.id, layer |-> d.layer, limit |-> limit, clause |-> clause,
   rows |-> rows, features |-> rows \ Shapeless]

Asked == stage = "ready" /\ tile = NoTile

\* No file, no query: what the clause says is not looked at.
NothingToScan(d) == ~ d.direct /\ FilesForBbox = {}

Prepared(d) ==
  /\ indexes' = indexes \cup ({d.id} \cap Indexed)
  /\ instance' = (instance \/ ~ NothingToScan(d))
  /\ UNCHANGED <<stage, builds, tiles, wanted, numeric, tried, content>>

Answer(d, used, clause) ==
  /\ Asked
  /\ NothingToScan(d) \/ Binds(d, used, lacking)
  /\ \E limit \in Limits : \E rows \in Limited(Selected(d, clause), limit) :
       tile' = EncodeMvt(d, limit, clause, rows)
  /\ Prepared(d)

\* DuckDB's binder: the tile is empty, and a translation is dropped.
Reject(d, used) ==
  /\ Asked
  /\ ~ NothingToScan(d) /\ ~ Binds(d, used, lacking)
  /\ tile' = [id |-> d.id, rejected |-> used]
  /\ Prepared(d)

Respond ==
  /\ tile # NoTile
  /\ tile' = NoTile
  /\ UNCHANGED <<vars, content>>

ContentNext ==
  \/ Next /\ UNCHANGED <<content, tile>>
  \/ Respond
  \/ \E d \in ToSet(Registry) :
       \/ Answer(d, {}, Rows) \/ Reject(d, {})
       \/ \E column \in Prompted(d) :
            \/ \E clause \in Clauses : Answer(d, {column}, clause)
            \/ Reject(d, {column})

ContentSpec ==
  /\ ContentInit /\ [][ContentNext]_<<vars, content, tile>>
  /\ WF_<<vars, content, tile>>(Next /\ UNCHANGED <<content, tile>>)

(***************************************************************************)
(* Properties                                                              *)
(***************************************************************************)
Encoded == tile # NoTile /\ "features" \in DOMAIN tile

\* The two indexes in front of the geometry, the box of a file and that of a
\* row, lose nothing: a tile has every row that touches it and that the clause
\* selects, unless the query returned as many as the limit lets through or the
\* catalog names no file that the row is in; and no tile has a row from elsewhere.
NothingLost ==
  Encoded =>
    /\ \A r \in Touching \cap tile.clause :
         \/ r \in tile.features
         \/ Cardinality(tile.rows) = tile.limit
         \/ tile.id \in Indexed /\ placed[r] \notin assets
    /\ \A r \in tile.features : r \in tile.clause /\ Overlaps(Box[r])

\* "only these may appear in the expression", "map them yourself": a clause that
\* keeps to the prompt binds, in every dataset.  There are two exceptions: the
\* aliases of buildings lead to a column that is no longer there, and a dataset
\* reads a column that the script did not find in what it downloaded.
PromptedClausesBind ==
  tile # NoTile /\ "rejected" \in DOMAIN tile =>
    \/ tile.id = "buildings" /\ tile.rejected = {"name"}
    \/ Reads(GetDataset(tile.id)) \cap lacking # {}
=============================================================================
