------------------------------ MODULE Datasets ------------------------------
(***************************************************************************)
(* The dataset registry: what a query of each dataset reads, what the LLM  *)
(* is told that it may name in a clause, and the columns of the files that *)
(* these are read from.                                                    *)
(*                                                                         *)
(* A dataset's columns are a function from their names to the column of    *)
(* the file that the sql_expr reads.  Types, enum values, descriptions and *)
(* the words that are aliases are left out.                                *)
(***************************************************************************)
EXTENDS Naturals, SequencesExt

\* A column reads the column of its name, but for the geometry.
Plain(names) == [c \in names |-> IF c = "geom" THEN "geometry" ELSE c]

\* In Overture's files names.primary and categories.primary are fields.
Overture(names) ==
  [c \in names |-> CASE c = "name" -> "names"
                     [] c = "category" -> "categories"
                     [] OTHER -> Plain(names)[c]]

(***************************************************************************)
(* scripts/build_natural_earth_parquet.py: the columns of a target that    *)
(* the downloaded file has, in lower case, and the geometry.  What it does *)
(* not have is left out without a word.                                    *)
(***************************************************************************)
CountryCols ==
  {"name", "name_en", "name_ja", "admin", "iso_a3", "iso_a2", "continent",
   "region_un", "subregion", "region_wb", "pop_est", "pop_rank", "pop_year",
   "gdp_md", "gdp_year", "economy", "income_grp", "sovereignt", "type", "formal_en"}

KeepCols ==
  [countries_110m |-> CountryCols,
   countries_50m |-> CountryCols,
   admin1_10m |->
     {"name", "name_en", "name_ja", "name_alt", "name_local", "admin", "iso_a2",
      "iso_3166_2", "adm0_a3", "type", "type_en", "region", "region_sub",
      "latitude", "longitude", "area_sqkm"}]

Published(target, lacking) == (KeepCols[target] \ lacking) \cup {"geometry"}

(***************************************************************************)
(* The files of Overture, as far as the datasets use them.                 *)
(***************************************************************************)
OvertureSchema ==
  [place |-> {"id", "geometry", "bbox", "names", "categories", "confidence"},
   building |->
     {"id", "geometry", "bbox", "names", "height", "num_floors", "class", "subtype"},
   segment |-> {"id", "geometry", "bbox", "names", "subtype", "class"},
   division_area |->
     {"id", "geometry", "bbox", "names", "subtype", "class", "country", "region",
      "admin_level"}]

(***************************************************************************)
(* The datasets.  "source" is overture_type, or the build target behind    *)
(* the one file of parquet_urls; "aliases" are the columns aliases lead to.*)
(***************************************************************************)
places ==
  [id |-> "places", layer |-> "places",
   direct |-> FALSE, source |-> "place", intersects |-> FALSE,
   columns |-> Overture({"id", "geom", "name", "category", "confidence"}),
   filterable |-> {"name", "category", "confidence"},
   aliases |-> {"category", "name", "confidence"}]

buildings ==
  [id |-> "buildings", layer |-> "buildings",
   direct |-> FALSE, source |-> "building", intersects |-> FALSE,
   columns |-> Overture({"id", "geom", "height", "num_floors", "class", "subtype"}),
   filterable |-> {"height", "num_floors", "class", "subtype"},
   aliases |-> {"height", "num_floors", "class", "subtype", "name"}]

transportation ==
  [id |-> "transportation", layer |-> "transportation",
   direct |-> FALSE, source |-> "segment", intersects |-> FALSE,
   columns |-> Overture({"id", "geom", "subtype", "class", "name"}),
   filterable |-> {"subtype", "class", "name"},
   aliases |-> {"subtype", "class", "name"}]

\* Mutant: the column is filtered on, but not in the table of columns.
divisionsUnprojected ==
  [id |-> "divisions", layer |-> "divisions",
   direct |-> FALSE, source |-> "division_area", intersects |-> FALSE,
   columns |->
     Overture({"id", "geom", "subtype", "admin_level", "country", "region", "class"}),
   filterable |-> {"name", "subtype", "admin_level", "country", "region"},
   aliases |-> {"name", "subtype", "admin_level", "country", "region"}]

divisions ==
  [id |-> "divisions", layer |-> "divisions",
   direct |-> FALSE, source |-> "division_area", intersects |-> FALSE,
   columns |->
     Overture({"id", "geom", "name", "subtype", "admin_level", "country", "region", "class"}),
   filterable |-> {"name", "subtype", "admin_level", "country", "region"},
   aliases |-> {"name", "subtype", "admin_level", "country", "region"}]

CommonColumns ==
  {"geom", "name", "name_en", "name_ja", "iso_a3", "iso_a2", "sovereignt", "type"}

population ==
  [id |-> "population", layer |-> "countries",
   direct |-> TRUE, source |-> "countries_110m", intersects |-> TRUE,
   columns |->
     Plain(CommonColumns \cup {"pop_est", "pop_rank", "continent", "subregion", "region_wb"}),
   filterable |-> {"pop_est", "pop_rank", "continent", "subregion", "region_wb"},
   aliases |-> {"pop_est", "pop_rank", "continent", "subregion", "region_wb"}]

economics ==
  [id |-> "economics", layer |-> "countries",
   direct |-> TRUE, source |-> "countries_110m", intersects |-> TRUE,
   columns |->
     Plain(CommonColumns \cup {"gdp_md", "economy", "income_grp", "continent", "region_wb"}),
   filterable |-> {"gdp_md", "economy", "income_grp", "continent", "region_wb"},
   aliases |-> {"gdp_md", "income_grp", "economy", "continent", "region_wb"}]

admin1 ==
  [id |-> "admin1", layer |-> "admin1",
   direct |-> TRUE, source |-> "admin1_10m", intersects |-> TRUE,
   columns |->
     Plain({"geom", "name", "name_en", "name_ja", "name_alt", "admin", "iso_a2", "iso_3166_2",
            "adm0_a3", "type_en", "region", "area_sqkm"}),
   filterable |->
     {"name", "admin", "iso_a2", "iso_3166_2", "adm0_a3", "type_en", "region", "area_sqkm"},
   aliases |->
     {"name", "admin", "iso_a2", "iso_3166_2", "type_en", "region", "area_sqkm"}]

Registry ==
  <<places, buildings, transportation, divisions, population, economics, admin1>>

Ids == {d.id : d \in ToSet(Registry)}

GetDataset(id) == CHOOSE d \in ToSet(Registry) : d.id = id

(***************************************************************************)
(* What DuckDB has to find in the file.                                    *)
(***************************************************************************)
FileColumns(d, lacking) ==
  IF d.direct THEN Published(d.source, lacking) ELSE OvertureSchema[d.source]

Reads(d) == Range(d.columns) \cup (IF d.intersects THEN {} ELSE {"bbox"})

\* "only these may appear", and what "map them yourself" leads to.
Prompted(d) == d.filterable \cup d.aliases

\* A clause may use columns of the file, or what the SELECT list names.
Binds(d, used, lacking) ==
  /\ Reads(d) \subseteq FileColumns(d, lacking)
  /\ used \subseteq FileColumns(d, lacking) \cup (DOMAIN d.columns \ {"geom"})
=============================================================================
