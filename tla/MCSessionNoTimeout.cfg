\* No acquisition timeout: a stream waiting for a permit held by another stream of the
\* same session fills its mailbox and blocks the dispatcher, which can then never
\* handle the CloseStream that would free the permit.  The session stops there,
\* so deadlock is not reported separately from the property.
CONSTANTS
  s1 = s1
  s2 = s2
  k1 = k1
  q1 = q1
  q2 = q2
  NoWorker = NoWorker
  NoCursor = NoCursor
  NoStream = NoStream
  NoJob = NoJob
  StreamIds <- MCStreamIds
  CursorIds <- MCCursorIds
  SqlIds <- MCSqlIds
  Versions = {3}
  Slots = {1, 2}
  MailboxCap = 2
  MaxSqlCount = 1
  Permits = 1
  HasTimeout = FALSE

SPECIFICATION Spec


PROPERTY DispatchProgress
CHECK_DEADLOCK FALSE
