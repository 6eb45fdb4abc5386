SPECIFICATION Spec
CONSTANTS
  q1 = q1
  q2 = q2
  FromUrl <- MCFromUrl
  Qs = {q1, q2}
  Empty = Empty
  MaxTiles = 3
  Nothing = Nothing
INVARIANTS
  LayerMatchesState
  UrlDatasetHonoured
  SpinnerCountsFetches
PROPERTIES
  RebuiltOnlyIfDifferent
