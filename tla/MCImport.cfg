\* Imports of two files into two periods under two keys, or none.
SPECIFICATION Spec
CONSTANTS
  short = short
  long = long
  Requests = {r1, r2, r3}
  Periods = {p1, p2}
  Files = {short, long}
  Length <- MCLength
  Keys = {k1, k2}
  Unused = Unused
  None = None
SYMMETRY Symmetry
CHECK_DEADLOCK FALSE
INVARIANTS TypeOK ImportedMeansThere ImportedOnce
