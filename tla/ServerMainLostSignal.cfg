\* A single CTRL-C: it is logged as a graceful shutdown, but the server
\* may not be waiting on notified() yet.
CONSTANTS
  d1 = d1
  d2 = d2
  f1 = f1
  f2 = f2
  Unreadable = Unreadable
  Digests = {d1, d2}
  Files = {f1, f2}
  MaxLines = 3
SPECIFICATION Spec
PROPERTY AnnouncedShutdownHappens
