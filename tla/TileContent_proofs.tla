------------------------- MODULE TileContent_proofs -------------------------
(***************************************************************************)
(* Theorems about TileContent, for any rows, boxes, files, clauses and     *)
(* limits, and any way of putting the rows into files.  NothingLost is     *)
(* inductive once it is known that the box of a file encloses those of its *)
(* rows, which needs that a finite set of numbers has a least and a        *)
(* greatest one.  PromptedClausesBind rests on the tables of Datasets.     *)
(***************************************************************************)
EXTENDS TileContent, FiniteSetTheorems, WellFoundedInduction, TLAPS

(***************************************************************************)
(* Least and greatest.                                                     *)
(***************************************************************************)
\* A set of natural numbers that is not empty has a least one.
LEMMA LeastNatural ==
  ASSUME NEW T \in SUBSET Nat, T # {}
  PROVE  \E x \in T : \A y \in T : x <= y
<1> DEFINE below == OpToRel(<, Nat)
<1>1. IsWellFoundedOn(below, Nat)
  BY NatLessThanWellFounded
<1>2. PICK x \in T : \A y \in T : ~ (<<y, x>> \in below)
  BY <1>1, WFMin
<1>3. \A y \in Nat : y < x => <<y, x>> \in below
  BY DEF OpToRel
<1>4. \A y \in T : ~ (y < x)
  BY <1>2, <1>3
<1>5. x \in T /\ \A y \in T : x <= y
  BY <1>4
<1> QED BY <1>5

\* A function from a finite set to the integers has a least value: one with the
\* fewest arguments below it.
LEMMA LeastValue ==
  ASSUME NEW S, IsFiniteSet(S), S # {}, NEW f \in [S -> Int]
  PROVE  \E s \in S : \A u \in S : f[s] <= f[u]
<1> DEFINE below(s) == {u \in S : f[u] < f[s]}
           ranks == {Cardinality(below(s)) : s \in S}
<1>1. \A s \in S : IsFiniteSet(below(s)) /\ Cardinality(below(s)) \in Nat
  BY FS_Subset, FS_CardinalityType
<1>2. ranks \in SUBSET Nat /\ ranks # {}
  BY <1>1
<1>3. PICK n \in ranks : \A m \in ranks : n <= m
  BY <1>2, LeastNatural
<1>4. PICK s \in S : n = Cardinality(below(s))
  BY <1>3
<1>5. ASSUME NEW u \in S, f[u] < f[s] PROVE FALSE
  <2>1. below(u) \in SUBSET below(s)
    BY <1>5
  <2>2. u \in below(s) /\ u \notin below(u)
    BY <1>5
  <2>3. /\ Cardinality(below(u)) <= Cardinality(below(s))
        /\ Cardinality(below(s)) = Cardinality(below(u)) => below(s) = below(u)
    BY <1>1, <2>1, FS_Subset
  <2>4. Cardinality(below(u)) < Cardinality(below(s))
    <3> HIDE DEF below
    <3> QED BY <1>1, <2>2, <2>3
  <2>5. Cardinality(below(s)) <= Cardinality(below(u))
    BY <1>3, <1>4
  <2> HIDE DEF below
  <2> QED BY <1>1, <2>4, <2>5
<1>6. \A u \in S : f[s] <= f[u]
  BY <1>5
<1> QED BY <1>6

\* It has a greatest value as well.
LEMMA GreatestValue ==
  ASSUME NEW S, IsFiniteSet(S), S # {}, NEW f \in [S -> Int]
  PROVE  \E s \in S : \A u \in S : f[s] >= f[u]
<1> DEFINE g == [s \in S |-> 0 - f[s]]
<1>1. g \in [S -> Int]
  OBVIOUS
<1>2. PICK s \in S : \A u \in S : g[s] <= g[u]
  <2> HIDE DEF g
  <2> QED BY <1>1, LeastValue
<1>3. \A u \in S : f[s] >= f[u]
  BY <1>2
<1> QED BY <1>3

(***************************************************************************)
(* The index.                                                              *)
(***************************************************************************)
\* The box of a file encloses the boxes of the rows in it.
LEMMA FileEncloses ==
  ASSUME NEW r \in Rows
  PROVE  LET b == FileBox(placed[r])
         IN  /\ b[1] <= Box[r][1] /\ b[2] <= Box[r][2]
             /\ b[3] >= Box[r][3] /\ b[4] >= Box[r][4]
             /\ b[1] \in Int /\ b[2] \in Int /\ b[3] \in Int /\ b[4] \in Int
<1> DEFINE S == {q \in Rows : placed[q] = placed[r]}
           corners(i) == {Box[q][i] : q \in S}
           least(T) == CHOOSE x \in T : \A y \in T : x <= y
           greatest(T) == CHOOSE x \in T : \A y \in T : x >= y
           edge(i) == [q \in S |-> Box[q][i]]
<1>1. IsFiniteSet(S) /\ r \in S
  BY ContentAssumption, FS_Subset
<1>2. \A q \in S : Box[q][1] \in Int /\ Box[q][2] \in Int /\ Box[q][3] \in Int /\ Box[q][4] \in Int
  BY ContentAssumption DEF Boxes
<1>3. ASSUME NEW i \in 1 .. 4
      PROVE  /\ least(corners(i)) <= Box[r][i] /\ least(corners(i)) \in Int
             /\ greatest(corners(i)) >= Box[r][i] /\ greatest(corners(i)) \in Int
  <2>1. edge(i) \in [S -> Int]
    BY <1>2
  <2>2. PICK q \in S : \A u \in S : edge(i)[q] <= edge(i)[u]
    <3> HIDE DEF S, edge
    <3> QED BY <1>1, <2>1, LeastValue
  <2>3. PICK p \in S : \A u \in S : edge(i)[p] >= edge(i)[u]
    <3> HIDE DEF S, edge
    <3> QED BY <1>1, <2>1, GreatestValue
  <2>4. \E x \in corners(i) : \A y \in corners(i) : x <= y
    BY <2>2
  <2>5. \E x \in corners(i) : \A y \in corners(i) : x >= y
    BY <2>3
  <2>6. Box[r][i] \in corners(i) /\ corners(i) \subseteq Int
    BY <1>1, <1>2
  <2> HIDE DEF corners
  <2> QED BY <2>4, <2>5, <2>6
<1>4. FileBox(placed[r]) =
        <<least(corners(1)), least(corners(2)), greatest(corners(3)), greatest(corners(4))>>
  BY DEF FileBox
<1> HIDE DEF least, greatest, corners
<1> QED BY <1>3, <1>4

\* A file with a row that touches the tile is not skipped.
LEMMA NotSkipped ==
  ASSUME NEW r \in Touching, placed[r] \in assets
  PROVE  r \in Rows /\ Overlaps(Box[r]) /\ placed[r] \in FilesForBbox
<1>1. r \in Rows /\ Overlaps(Box[r])
  BY ContentAssumption
<1>2. /\ Box[r][1] \in Int /\ Box[r][2] \in Int /\ Box[r][3] \in Int /\ Box[r][4] \in Int
      /\ Tile[1] \in Int /\ Tile[2] \in Int /\ Tile[3] \in Int /\ Tile[4] \in Int
  BY <1>1, ContentAssumption DEF Boxes
<1> DEFINE b == FileBox(placed[r])
<1>3. /\ b[1] <= Box[r][1] /\ b[2] <= Box[r][2]
      /\ b[3] >= Box[r][3] /\ b[4] >= Box[r][4]
      /\ b[1] \in Int /\ b[2] \in Int /\ b[3] \in Int /\ b[4] \in Int
  BY <1>1, FileEncloses
<1>4. ~ SkipsItem(b)
  <2> HIDE DEF b
  <2> QED BY <1>1, <1>2, <1>3 DEF SkipsItem, Overlaps
<1> QED BY <1>1, <1>4 DEF FilesForBbox

\* The two WHERE clauses select what touches the tile, and nothing that is
\* elsewhere.
LEMMA WhereIsSound ==
  ASSUME NEW d, NEW r \in Rows
  PROVE  /\ r \in Touching => Where(d, r)
         /\ Where(d, r) => Overlaps(Box[r])
BY ContentAssumption DEF Where, Overlaps, Boxes

\* What a query of a dataset returns, for any clause and limit.
LEMMA QueryLosesNothing ==
  ASSUME NEW d \in ToSet(Registry), NEW limit \in Limits, NEW clause,
         NEW rows \in Limited(Selected(d, clause), limit)
  PROVE  /\ \A r \in Touching \cap clause :
              \/ r \in rows
              \/ Cardinality(rows) = limit
              \/ d.id \in Indexed /\ placed[r] \notin assets
         /\ \A r \in rows : r \in clause /\ Overlaps(Box[r])
<1>1. rows = Selected(d, clause) \/ (rows \subseteq Selected(d, clause) /\ Cardinality(rows) = limit)
  BY DEF Limited
<1>2. \A r \in Selected(d, clause) : r \in Rows /\ r \in clause /\ Where(d, r)
  BY DEF Selected, Scanned
<1>3. \A r \in rows : r \in clause /\ Overlaps(Box[r])
  BY <1>1, <1>2, WhereIsSound
<1>4. ASSUME NEW r \in Touching \cap clause, ~ (d.id \in Indexed /\ placed[r] \notin assets)
      PROVE  r \in Selected(d, clause)
  <2>1. r \in Rows /\ Where(d, r)
    BY WhereIsSound, ContentAssumption
  <2>2. CASE d.direct
    BY <2>1, <2>2 DEF Selected, Scanned
  <2>3. CASE ~ d.direct
    <3>1. d.id \in Indexed
      BY <2>3 DEF Indexed
    <3>2. placed[r] \in FilesForBbox
      BY <1>4, <3>1, NotSkipped
    <3> QED BY <2>1, <2>3, <3>2 DEF Selected, Scanned
  <2> QED BY <2>2, <2>3
<1> QED BY <1>1, <1>3, <1>4

(***************************************************************************)
(* The tile.                                                               *)
(***************************************************************************)
contentVars == <<vars, content, tile>>

\* A tile that is answered has lost nothing.
LEMMA AnswerStep ==
  ASSUME NEW d \in ToSet(Registry), NEW used, NEW clause, Answer(d, used, clause)
  PROVE  NothingLost'
<1>0. PICK limit \in Limits :
        \E rows \in Limited(Selected(d, clause), limit) : tile' = EncodeMvt(d, limit, clause, rows)
  BY DEF Answer
<1>1. PICK rows \in Limited(Selected(d, clause), limit) : tile' = EncodeMvt(d, limit, clause, rows)
  BY <1>0
<1>2. placed' = placed /\ assets' = assets
  BY DEF Answer, Prepared, content
<1>3. /\ tile'.id = d.id /\ tile'.limit = limit /\ tile'.clause = clause
      /\ tile'.rows = rows /\ tile'.features = rows \ Shapeless
  BY <1>1 DEF EncodeMvt
<1>4. Shapeless \cap Touching = {}
  BY ContentAssumption
<1> QED BY <1>2, <1>3, <1>4, QueryLosesNothing DEF NothingLost

\* Every step keeps the property: a tile is answered whole or not at all.
LEMMA NextInv == NothingLost /\ [ContentNext]_contentVars => NothingLost'
<1> SUFFICES ASSUME NothingLost, [ContentNext]_contentVars PROVE NothingLost'
  OBVIOUS
<1>1. CASE UNCHANGED <<placed, assets, tile>>
  BY <1>1 DEF NothingLost, Encoded
<1>2. CASE Respond
  BY <1>2 DEF Respond, NothingLost, Encoded
<1>3. ASSUME NEW d, NEW used, Reject(d, used) PROVE NothingLost'
  <2>1. tile' = [id |-> d.id, rejected |-> used]
    BY <1>3 DEF Reject
  <2>2. "features" \notin DOMAIN tile'
    BY <2>1
  <2> QED BY <2>2 DEF NothingLost, Encoded
<1>4. CASE Next /\ UNCHANGED <<content, tile>>
  BY <1>1, <1>4 DEF content
<1>5. CASE UNCHANGED contentVars
  BY <1>1, <1>5 DEF contentVars, content
<1> QED BY <1>2, <1>3, <1>4, <1>5, AnswerStep DEF ContentNext

\* query_features and encode_mvt: a tile has every row that touches it and that
\* the clause selects, within its limit, and no row from elsewhere.
THEOREM TilesAreComplete == ContentSpec => []NothingLost
<1>1. ContentInit => NothingLost
  BY DEF ContentInit, NothingLost, Encoded
<1> QED BY <1>1, NextInv, PTL DEF ContentSpec, contentVars
(***************************************************************************)
(* What the prompt lets a clause name.                                     *)
(***************************************************************************)
\* The registry has seven datasets.
LEMMA Seven ==
  ToSet(Registry) =
    {places, buildings, transportation, divisions, population, economics, admin1}
BY DEF Registry, ToSet

\* get_dataset finds every dataset by its id: no two datasets share one.
LEMMA FoundById ==
  ASSUME NEW d \in ToSet(Registry)
  PROVE  GetDataset(d.id) = d
<1>1. places.id = "places"
  BY DEF places
<1>2. buildings.id = "buildings"
  BY DEF buildings
<1>3. transportation.id = "transportation"
  BY DEF transportation
<1>4. divisions.id = "divisions"
  BY DEF divisions
<1>5. population.id = "population"
  BY DEF population
<1>6. economics.id = "economics"
  BY DEF economics
<1>7. admin1.id = "admin1"
  BY DEF admin1
<1>8. \A e \in ToSet(Registry) : e.id = d.id => e = d
  BY <1>1, <1>2, <1>3, <1>4, <1>5, <1>6, <1>7, Seven
<1> QED BY <1>8 DEF GetDataset

\* A dataset of Overture reads nothing that its files lack; a clause may name all
\* that the prompt names, but the name of a building.
LEMMA OvertureBinds ==
  ASSUME NEW d \in {places, buildings, transportation, divisions}, NEW lack
  PROVE  /\ Binds(d, {}, lack)
         /\ \A column \in Prompted(d) :
              Binds(d, {column}, lack) \/ (d.id = "buildings" /\ column = "name")
<1> USE DEF Prompted, Binds, Reads, FileColumns, OvertureSchema, Range, Overture, Plain
<1>1. CASE d = places
  BY <1>1 DEF places
<1>2. CASE d = buildings
  BY <1>2 DEF buildings
<1>3. CASE d = transportation
  BY <1>3 DEF transportation
<1>4. CASE d = divisions
  BY <1>4 DEF divisions
<1> QED BY <1>1, <1>2, <1>3, <1>4

\* A dataset of Natural Earth reads what build_target publishes, unless the
\* download lacked it.
LEMMA NaturalEarthBinds ==
  ASSUME NEW d \in {population, economics, admin1}, NEW lack, Reads(d) \cap lack = {}
  PROVE  /\ Binds(d, {}, lack)
         /\ \A column \in Prompted(d) : Binds(d, {column}, lack)
<1> USE DEF Prompted, Binds, Reads, FileColumns, Published, KeepCols, CountryCols, Range, Plain,
            CommonColumns
<1>1. CASE d = population
  BY <1>1 DEF population
<1>2. CASE d = economics
  BY <1>2 DEF economics
<1>3. CASE d = admin1
  BY <1>3 DEF admin1
<1> QED BY <1>1, <1>2, <1>3

\* Of a dataset that reads nothing the download lacked, DuckDB rejects one clause
\* that keeps to the prompt: the name of a building.
LEMMA RejectedFor ==
  ASSUME NEW d \in ToSet(Registry), NEW lack, Reads(d) \cap lack = {}
  PROVE  /\ Binds(d, {}, lack)
         /\ \A column \in Prompted(d) :
              Binds(d, {column}, lack) \/ (d.id = "buildings" /\ column = "name")
<1>1. CASE d \in {places, buildings, transportation, divisions}
  BY <1>1, OvertureBinds
<1>2. CASE d \in {population, economics, admin1}
  BY <1>2, NaturalEarthBinds
<1> QED BY <1>1, <1>2, Seven

\* What the binder rejects is one of the two exceptions.
LEMMA RejectStep ==
  ASSUME NEW d \in ToSet(Registry), NEW used, Reject(d, used),
         used = {} \/ \E column \in Prompted(d) : used = {column}
  PROVE  PromptedClausesBind'
<1>1. tile' = [id |-> d.id, rejected |-> used] /\ ~ Binds(d, used, lacking)
  BY DEF Reject
<1>2. lacking' = lacking
  BY DEF Reject, Prepared, content
<1>3. tile'.id = d.id /\ tile'.rejected = used
  BY <1>1
<1>4. GetDataset(tile'.id) = d
  BY <1>3, FoundById
<1>5. (d.id = "buildings" /\ used = {"name"}) \/ Reads(d) \cap lacking # {}
  BY <1>1, RejectedFor
<1>6. (tile'.id = "buildings" /\ tile'.rejected = {"name"})
        \/ Reads(GetDataset(tile'.id)) \cap lacking' # {}
  BY <1>2, <1>3, <1>4, <1>5
<1> QED BY <1>6 DEF PromptedClausesBind

\* Every step keeps the property: only the binder rejects.
LEMMA NextBinds ==
  PromptedClausesBind /\ [ContentNext]_contentVars => PromptedClausesBind'
<1> SUFFICES ASSUME PromptedClausesBind, [ContentNext]_contentVars PROVE PromptedClausesBind'
  OBVIOUS
<1>1. CASE UNCHANGED <<content, tile>>
  BY <1>1 DEF PromptedClausesBind, content
<1>2. CASE Respond
  BY <1>2 DEF Respond, PromptedClausesBind
<1>3. ASSUME NEW d, NEW used, NEW clause, Answer(d, used, clause) PROVE PromptedClausesBind'
  <2>1. PICK limit, rows : tile' = EncodeMvt(d, limit, clause, rows)
    BY <1>3 DEF Answer
  <2>2. "rejected" \notin DOMAIN tile'
    BY <2>1 DEF EncodeMvt
  <2> QED BY <2>2 DEF PromptedClausesBind
<1> QED BY <1>1, <1>2, <1>3, RejectStep DEF ContentNext, contentVars

\* filter_compiler's prompt and query_features: a clause that names what the
\* prompt names is rejected only for the name of a building, or when the dataset
\* reads a column that the download lacked, whatever the downloads may lack.
THEOREM PromptedClausesDoBind == ContentSpec => []PromptedClausesBind
<1>1. ContentInit => PromptedClausesBind
  BY DEF ContentInit, PromptedClausesBind
<1> QED BY <1>1, NextBinds, PTL DEF ContentSpec, contentVars
=============================================================================
