SPECIFICATION Spec
CONSTANTS
  p1 = p1
  p2 = p2
  i1 = i1
  i2 = i2
  i3 = i3
  i4 = i4
  Procs = {p1, p2}
  Inodes = {i1, i2, i3, i4}
  Crashes = FALSE
  IOFaults = FALSE
  None = None
  short = short
  long = long
  Tiles = {short, long}
  Length <- MCLength
INVARIANTS
  ReadsTheTile
