------------------------------- MODULE Viewer -------------------------------
(***************************************************************************)
(* docs/index.html: the page that shows the tiles.  Three things run at    *)
(* once: the map loads its style, the page asks the server for /datasets,  *)
(* and the user is already at the form.  What the user wants is in         *)
(* currentDataset and currentQ, and goes from there to the form, the map   *)
(* and the address bar.                                                    *)
(*                                                                         *)
(* MapLibre and the tile server are the environment.  Styles, views and    *)
(* the status dots are left out, and the trimming of q.                    *)
(***************************************************************************)
EXTENDS Datasets

CONSTANTS FromUrl,   \* datasets that the page may be opened with
          Qs,        \* bound: the texts the user types
          Empty,     \* the empty text
          MaxTiles,  \* bound: tiles that are loading at once
          Nothing    \* no layer

Seed == {"buildings", "places"}

VARIABLES asked,           \* ?dataset=
          picked,          \* the user has picked a dataset
          phase,           \* of the map: "loading", "style" (may have sources), "ready"
          answered,        \* /datasets has answered, or failed
          authoritative,   \* datasetsAreAuthoritative
          currentDataset,
          currentQ,
          options,         \* of the select element
          selected,        \* its value
          qInput,          \* what the text field shows
          layer,           \* source and layer on the map
          address,         \* address bar and info panel
          loading,         \* tiles of the source that are being fetched
          aborted,         \* tiles of the source that were given up by the map
          inflightTiles    \* what the spinner shows

state == <<currentDataset, currentQ>>
form == <<options, selected, qInput>>
shown == <<layer, address>>
tiles == <<loading, aborted, inflightTiles>>
list == <<answered, authoritative>>
vars == <<asked, picked, phase, list, state, form, shown, tiles>>

\* The ids in "datasets", and the source-layer that a dataset then has.
Listed(known) == IF known THEN Ids ELSE Seed

LayerName(d, known) == IF known /\ d \in Ids THEN GetDataset(d).layer ELSE d

Layers ==
  [dataset : Ids \cup FromUrl,
   q : Qs \cup {Empty},
   name : {LayerName(d, known) : d \in Ids \cup FromUrl, known \in BOOLEAN}]

ASSUME ViewerAssumption == MaxTiles \in Nat /\ Empty \notin Qs /\ Nothing \notin Layers

\* populateDatasetSelector: a dataset the list does not have gets an option.
Options(d, known) == Listed(known) \cup {d}

Init ==
  /\ asked \in FromUrl
  /\ picked = FALSE
  /\ phase = "loading"
  /\ answered = FALSE /\ authoritative = FALSE
  /\ currentDataset = asked
  /\ currentQ \in Qs \cup {Empty}
  /\ options = Options(asked, FALSE)
  /\ selected = asked
  /\ qInput = currentQ
  /\ layer = Nothing
  /\ address = state
  /\ loading = 0 /\ aborted = 0 /\ inflightTiles = 0

(***************************************************************************)
(* applyLayer.  Before the style is there, addSource throws.               *)
(***************************************************************************)
Emitted(d, q, known) == [dataset |-> d, q |-> q, name |-> LayerName(d, known)]

\* Mutant: the counter is not reset.
NewSourceKeepsCount ==
  /\ layer' = Emitted(currentDataset', currentQ', authoritative')
  /\ address' = state'
  /\ loading' = 0 /\ aborted' = 0
  /\ UNCHANGED inflightTiles

NewSource ==
  /\ layer' = Emitted(currentDataset', currentQ', authoritative')
  /\ address' = state'
  /\ loading' = 0 /\ aborted' = 0 /\ inflightTiles' = 0

ApplyLayer == IF phase' = "loading" THEN UNCHANGED <<shown, tiles>> ELSE NewSource

(***************************************************************************)
(* The user.                                                               *)
(***************************************************************************)
Pick(d) ==
  /\ d \in options \ {selected}
  /\ currentDataset' = d
  /\ selected' = d
  /\ picked' = TRUE
  /\ UNCHANGED <<asked, phase, list, currentQ, options, qInput>>
  /\ ApplyLayer

Type(text) ==
  /\ text # qInput
  /\ qInput' = text
  /\ UNCHANGED <<asked, picked, phase, list, state, options, selected, shown, tiles>>

\* The button, or the return key.
Apply ==
  /\ currentQ' = qInput
  /\ UNCHANGED <<asked, picked, phase, list, currentDataset, form>>
  /\ ApplyLayer

\* The button, and the examples.
Use(text) ==
  /\ qInput' = text
  /\ currentQ' = text
  /\ UNCHANGED <<asked, picked, phase, list, currentDataset, options, selected>>
  /\ ApplyLayer

(***************************************************************************)
(* The map becomes ready.  Tile events are listened to from then on.       *)
(***************************************************************************)
StyleLoaded ==
  /\ phase = "loading"
  /\ phase' = "style"
  /\ UNCHANGED <<asked, picked, list, state, form, shown, tiles>>

MapReady ==
  /\ phase = "style"
  /\ phase' = "ready"
  /\ UNCHANGED <<asked, picked, list, state, form>>
  /\ ApplyLayer

(***************************************************************************)
(* refreshDatasetsFromServer, and what is done when it is through.         *)
(***************************************************************************)
\* Mutant: the seed list is taken for the truth.
FallBackAnyway ==
  IF currentDataset \in Listed(authoritative')
    THEN currentDataset
    ELSE Registry[1].id

FallBack ==
  IF currentDataset \in Listed(authoritative') \/ ~ authoritative'
    THEN currentDataset
    ELSE Registry[1].id

SyncForm ==
  /\ options' = Options(currentDataset, authoritative')
  /\ currentDataset' = FallBack
  /\ selected' = currentDataset'
  /\ qInput' = currentQ

\* Mutant: the layer on the map stays as the seed list made it.
NeverDiffers == FALSE

\* Mutant: every answer rebuilds the layer.
AlwaysDiffers == layer # Nothing

LayerDiffers ==
  /\ layer # Nothing
  /\ \/ layer.dataset # currentDataset'
     \/ layer.name # LayerName(currentDataset', authoritative')

DatasetsAnswer ==
  /\ ~ answered
  /\ answered' = TRUE
  /\ authoritative' \in BOOLEAN  \* FALSE: it failed, or the list is empty
  /\ SyncForm
  /\ UNCHANGED <<asked, picked, phase, currentQ>>
  /\ IF LayerDiffers THEN ApplyLayer ELSE UNCHANGED <<shown, tiles>>

(***************************************************************************)
(* The tiles.  Of a tile that the map gives up, because the user has moved *)
(* on, there is neither a "data" nor an "error" event.                     *)
(***************************************************************************)
Fewer == inflightTiles' = IF phase = "ready" /\ inflightTiles > 0
                            THEN inflightTiles - 1 ELSE inflightTiles

UntouchedByTiles == <<asked, picked, phase, list, state, form, shown>>

DataLoading ==
  /\ layer # Nothing
  /\ loading + aborted < MaxTiles
  /\ loading' = loading + 1
  /\ inflightTiles' = inflightTiles + (IF phase = "ready" THEN 1 ELSE 0)
  /\ UNCHANGED <<UntouchedByTiles, aborted>>

TileEnds ==
  /\ loading > 0
  /\ loading' = loading - 1
  /\ Fewer
  /\ UNCHANGED <<UntouchedByTiles, aborted>>

TileAborted ==
  /\ loading > 0
  /\ loading' = loading - 1
  /\ aborted' = aborted + 1
  /\ UNCHANGED <<UntouchedByTiles, inflightTiles>>

\* A tile of an earlier source, or one that is fetched again when it expires.
StrayEvent ==
  /\ layer # Nothing
  /\ Fewer
  /\ UNCHANGED <<UntouchedByTiles, loading, aborted>>

Next ==
  \/ \E d \in Ids \cup FromUrl : Pick(d)
  \/ \E text \in Qs \cup {Empty} : Type(text) \/ Use(text)
  \/ Apply
  \/ StyleLoaded \/ MapReady \/ DatasetsAnswer
  \/ DataLoading \/ TileEnds \/ TileAborted \/ StrayEvent

Spec == Init /\ [][Next]_vars

(***************************************************************************)
(* Properties                                                              *)
(***************************************************************************)
\* "a late /datasets response can rebuild it only when it would differ":
\* whatever order the user, the map and the server come in, a map that is ready
\* shows the tiles, and the layer in them, that the user has asked for, and the
\* address bar and the info panel say so.
LayerMatchesState ==
  phase = "ready" =>
    /\ layer = Emitted(currentDataset, currentQ, authoritative)
    /\ address = state

\* "we must not correct a dataset id that came from the URL": it gives way to the
\* user's choice, or to a list of the server that does not have it.
UrlDatasetHonoured ==
  currentDataset = asked \/ picked \/ (authoritative /\ asked \notin Ids)

\* "so it can't leak", "so the spinner doesn't get stuck": the spinner counts no
\* tile that is not being fetched.  Tiles that the map gave up are the exception.
SpinnerCountsFetches == inflightTiles <= loading + aborted

\* "Rebuild only if the authoritative list changes what we would emit": the
\* answer of the server takes no tile away that is being fetched for the layer
\* that is wanted.
RebuiltOnlyIfDifferent ==
  [][answered' # answered /\ layer' = layer => loading' = loading]_vars
=============================================================================
