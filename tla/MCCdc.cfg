SPECIFICATION Spec
CONSTANTS
  None = None
  Keys <- Claims
  Values <- States
  MaxSeq = 3
INVARIANTS
  KeysAreAsLastLanded
  CaughtUpIsTheTable
