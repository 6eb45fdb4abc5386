---------------------------- MODULE Viewer_proofs ----------------------------
(***************************************************************************)
(* Theorems about Viewer, for any texts, any datasets in the address and   *)
(* any number of tiles.  Three of its properties are not inductive:        *)
(*                                                                         *)
(*   Chosen      what is wanted is a dataset of the list or of an address, *)
(*               so that what the map shows is told from no layer at all   *)
(*   ListKnown   the list is authoritative only once the server answered,  *)
(*               which it does once                                        *)
(*   Counted     the spinner counts from the time the map is ready, and    *)
(*               before that a tile may end that it has not counted        *)
(***************************************************************************)
EXTENDS Viewer, TLAPS

Chosen ==
  /\ authoritative \in BOOLEAN
  /\ asked \in FromUrl
  /\ options \subseteq Ids \cup FromUrl
  /\ currentDataset \in Ids \cup FromUrl
  /\ {currentQ, qInput} \subseteq Qs \cup {Empty}

ListKnown == authoritative => answered

Counted ==
  /\ {loading, aborted, inflightTiles} \subseteq Nat
  /\ phase # "ready" => inflightTiles = 0

IInv ==
  /\ Chosen
  /\ ListKnown
  /\ LayerMatchesState
  /\ UrlDatasetHonoured
  /\ Counted
  /\ SpinnerCountsFetches

\* The first dataset of the registry, which the page falls back to, is in it.
LEMMA FirstIsListed == Registry[1].id \in Ids
BY DEF Registry, Ids, ToSet

\* The seed list is part of the registry.
LEMMA SeedIsListed == Seed \subseteq Ids
BY DEF Seed, Registry, Ids, ToSet, buildings, places

\* A list has only datasets of the registry.
LEMMA ListedType ==
  ASSUME NEW known \in BOOLEAN
  PROVE  Listed(known) \subseteq Ids
BY SeedIsListed DEF Listed

\* What applyLayer puts on the map is a layer, and so is not no layer.
LEMMA EmittedType ==
  ASSUME NEW d \in Ids \cup FromUrl, NEW q \in Qs \cup {Empty}, NEW known \in BOOLEAN
  PROVE  /\ Emitted(d, q, known) \in Layers
         /\ Emitted(d, q, known) # Nothing
BY ViewerAssumption DEF Emitted, Layers

\* applyLayer shows what is wanted, or nothing is shown before there is a style.
LEMMA AppliedAs ==
  ASSUME ApplyLayer
  PROVE  \/ /\ phase' # "loading"
            /\ layer' = Emitted(currentDataset', currentQ', authoritative')
            /\ address' = state'
            /\ loading' = 0 /\ aborted' = 0 /\ inflightTiles' = 0
         \/ phase' = "loading" /\ UNCHANGED <<layer, address, loading, aborted, inflightTiles>>
BY DEF ApplyLayer, NewSource, shown, tiles

\* The page before anything has happened satisfies every part of the invariant.
LEMMA InitInv == Init => IInv
<1> SUFFICES ASSUME Init PROVE IInv
  OBVIOUS
<1>1. Chosen
  BY SeedIsListed DEF Init, Chosen, Options, Listed
<1>2. ListKnown /\ LayerMatchesState /\ UrlDatasetHonoured /\ Counted /\ SpinnerCountsFetches
  BY DEF Init, ListKnown, LayerMatchesState, UrlDatasetHonoured, Counted, SpinnerCountsFetches
<1> QED BY <1>1, <1>2 DEF IInv

\* A step that ends in applyLayer leaves a map that is ready as it should be.
LEMMA ApplyStep ==
  ASSUME IInv, ApplyLayer, phase' = phase \/ phase' = "ready"
  PROVE  (LayerMatchesState /\ Counted /\ SpinnerCountsFetches)'
BY AppliedAs DEF IInv, LayerMatchesState, Counted, SpinnerCountsFetches

\* Every step keeps every part of the invariant.
LEMMA NextInv == IInv /\ [Next]_vars => IInv'
<1> SUFFICES ASSUME IInv, [Next]_vars PROVE IInv'
  OBVIOUS
<1> USE DEF Chosen, ListKnown, UrlDatasetHonoured, list, state, form
<1>1. CASE UNCHANGED vars
  BY <1>1 DEF vars, IInv, LayerMatchesState, Counted, SpinnerCountsFetches, shown, tiles
<1>2. ASSUME NEW d \in Ids \cup FromUrl, Pick(d) PROVE IInv'
  BY <1>2, ApplyStep DEF IInv, Pick
<1>3. ASSUME NEW text \in Qs \cup {Empty}, Type(text) PROVE IInv'
  BY <1>3 DEF Type, IInv, LayerMatchesState, Counted, SpinnerCountsFetches, shown, tiles
<1>4. ASSUME NEW text \in Qs \cup {Empty}, Use(text) PROVE IInv'
  BY <1>4, ApplyStep DEF IInv, Use
<1>5. CASE Apply
  BY <1>5, ApplyStep DEF IInv, Apply
<1>6. CASE StyleLoaded
  BY <1>6 DEF StyleLoaded, IInv, LayerMatchesState, Counted, SpinnerCountsFetches, shown, tiles
<1>7. CASE MapReady
  BY <1>7, ApplyStep DEF IInv, MapReady
<1>8. CASE DatasetsAnswer
  <2>1. /\ authoritative' \in BOOLEAN /\ answered'
        /\ UNCHANGED <<asked, picked, phase, currentQ>>
        /\ options' = Options(currentDataset, authoritative')
        /\ currentDataset' = FallBack
        /\ qInput' = currentQ
    BY <1>8 DEF DatasetsAnswer, SyncForm
  <2>2. Listed(authoritative') \subseteq Ids
    BY <2>1, ListedType
  <2>3. Chosen' /\ ListKnown'
    BY <2>1, <2>2, FirstIsListed DEF IInv, Options, FallBack
  <2>4. UrlDatasetHonoured'
    BY <1>8, <2>1 DEF IInv, FallBack, Listed, DatasetsAnswer
  <2>5. (LayerMatchesState /\ Counted /\ SpinnerCountsFetches)'
    <3>1. CASE LayerDiffers
      BY <1>8, <2>1, <3>1, ApplyStep DEF DatasetsAnswer
    <3>2. CASE ~ LayerDiffers
      <4>1. UNCHANGED <<layer, address, loading, aborted, inflightTiles>>
        BY <1>8, <3>2 DEF DatasetsAnswer, shown, tiles
      <4>2. (Counted /\ SpinnerCountsFetches)'
        BY <2>1, <4>1 DEF IInv, Counted, SpinnerCountsFetches
      <4>3. ASSUME phase = "ready"
            PROVE  /\ layer = Emitted(currentDataset', currentQ, authoritative')
                   /\ address = <<currentDataset', currentQ>>
        <5>1. /\ layer = Emitted(currentDataset, currentQ, authoritative)
              /\ address = <<currentDataset, currentQ>>
          BY <4>3 DEF IInv, LayerMatchesState
        <5>2. layer # Nothing
          BY <5>1, EmittedType DEF IInv
        <5>3. /\ currentDataset' = currentDataset
              /\ LayerName(currentDataset', authoritative') = LayerName(currentDataset, authoritative)
          BY <3>2, <5>1, <5>2 DEF LayerDiffers, Emitted
        <5> QED BY <5>1, <5>3 DEF Emitted
      <4> QED BY <2>1, <4>1, <4>2, <4>3 DEF LayerMatchesState
    <3> QED BY <3>1, <3>2
  <2> QED BY <2>3, <2>4, <2>5 DEF IInv
<1>9. CASE DataLoading \/ TileEnds \/ TileAborted \/ StrayEvent
  <2>1. /\ UNCHANGED UntouchedByTiles
        /\ (Counted /\ SpinnerCountsFetches)'
    <3> USE DEF IInv, Counted, SpinnerCountsFetches
    <3>1. CASE DataLoading
      BY <3>1 DEF DataLoading, UntouchedByTiles
    <3>2. CASE TileEnds
      BY <3>2 DEF TileEnds, Fewer, UntouchedByTiles
    <3>3. CASE TileAborted
      BY <3>3 DEF TileAborted, UntouchedByTiles
    <3>4. CASE StrayEvent
      BY <3>4 DEF StrayEvent, Fewer, UntouchedByTiles
    <3> QED BY <1>9, <3>1, <3>2, <3>3, <3>4
  <2> QED BY <2>1 DEF UntouchedByTiles, IInv, LayerMatchesState, shown
<1> QED BY <1>1, <1>2, <1>3, <1>4, <1>5, <1>6, <1>7, <1>8, <1>9 DEF Next

\* The inductive invariant holds throughout.
LEMMA Invariance == Spec => []IInv
BY InitInv, NextInv, PTL DEF Spec

\* A map that is ready shows what the user asked for, whatever order the user,
\* the map and the server came in.
THEOREM MapShowsWhatIsWanted == Spec => []LayerMatchesState
<1>1. IInv => LayerMatchesState
  BY DEF IInv
<1> QED BY <1>1, Invariance, PTL

\* The dataset of the address gives way to the user or to the server's list.
THEOREM AddressIsHonoured == Spec => []UrlDatasetHonoured
<1>1. IInv => UrlDatasetHonoured
  BY DEF IInv
<1> QED BY <1>1, Invariance, PTL

\* The spinner counts no more than is being fetched or was given up.
THEOREM SpinnerDoesNotLeak == Spec => []SpinnerCountsFetches
<1>1. IInv => SpinnerCountsFetches
  BY DEF IInv
<1> QED BY <1>1, Invariance, PTL

\* The answer of the server takes no tile away that is being fetched for the
\* layer that is wanted.
THEOREM AnswerSparesTheLayer == Spec => RebuiltOnlyIfDifferent
<1>1. ASSUME [Next]_vars, answered' # answered, layer' = layer
      PROVE  loading' = loading
  <2>1. DatasetsAnswer
    BY <1>1 DEF Next, vars, list, Pick, Type, Apply, Use, StyleLoaded, MapReady, DataLoading,
                TileEnds, TileAborted, StrayEvent, UntouchedByTiles
  <2>2. CASE LayerDiffers
    <3>1. layer' # Emitted(currentDataset', currentQ', authoritative')
      BY <1>1, <2>2 DEF LayerDiffers, Emitted
    <3> QED BY <2>1, <2>2, <3>1, AppliedAs DEF DatasetsAnswer
  <2>3. CASE ~ LayerDiffers
    BY <2>1, <2>3 DEF DatasetsAnswer, tiles
  <2> QED BY <2>2, <2>3
<1>2. [Next]_vars => [answered' # answered /\ layer' = layer => loading' = loading]_vars
  BY <1>1
<1> QED BY <1>2, PTL DEF Spec, RebuiltOnlyIfDifferent
=============================================================================
