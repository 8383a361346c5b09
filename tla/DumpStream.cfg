\* The dump body: four chunks through a two-chunk pipe, with export
\* errors, panics and client disconnects at every point.
CONSTANTS
  MaxChunks = 4
  PipeCap = 2
SPECIFICATION Spec
INVARIANT TypeOK
INVARIANT EndMeansComplete
PROPERTY DumpFinishes
