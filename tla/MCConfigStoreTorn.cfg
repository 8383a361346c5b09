\* Two concurrent callers of store(): the renamed file can be torn.
CONSTANTS
  w1 = w1
  w2 = w2
  c0 = c0
  c1 = c1
  c2 = c2
  Writers <- TwoWriters
  Values <- MCValues
  DefaultConfig = c0
  MaxInodes = 4
  None = None
  Torn = Torn

SPECIFICATION Spec

INVARIANT DiskPrevOrNew
