\* One caller of store(), crashes and restarts at any point.
CONSTANTS
  w1 = w1
  w2 = w2
  c0 = c0
  c1 = c1
  c2 = c2
  Writers <- OneWriter
  Values <- MCValues
  DefaultConfig = c0
  MaxInodes = 3
  None = None
  Torn = Torn

SPECIFICATION Spec

INVARIANT TypeOK
INVARIANT DiskPrevOrNew
