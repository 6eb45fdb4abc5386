SPECIFICATION ContentSpec
CONSTANTS
  across = across
  north = north
  blank = blank
  Rows = {across, north, blank}
  Box <- MCBox
  Touching = {across}
  Shapeless = {blank}
  Tile <- MCTile
  Files = {1, 2}
  Clauses <- MCClauses
  Limits = {1, 2}
  Lacking <- MCLacking
  NoTile = NoTile
  Unknown = Unknown
  Malformed = Malformed
  Entries <- MCEntries
  MaxTiles = 2
INVARIANTS
  NothingLost
  PromptedClausesBind
PROPERTIES
  ReadyWithAllTried
CHECK_DEADLOCK FALSE
