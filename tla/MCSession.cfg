\* Session with an acquisition timeout: tables, workers, permits, progress.
CONSTANTS
  s1 = s1
  s2 = s2
  k1 = k1
  q1 = q1
  q2 = q2
  NoWorker = NoWorker
  NoCursor = NoCursor
  NoStream = NoStream
  NoJob = NoJob
  StreamIds <- MCStreamIds
  CursorIds <- MCCursorIds
  SqlIds <- MCSqlIds
  Versions = {3}
  Slots = {1, 2}
  MailboxCap = 1
  MaxSqlCount = 1
  Permits = 1
  HasTimeout = TRUE

SPECIFICATION Spec

INVARIANT TypeOK
INVARIANT CursorTablesAgree
INVARIANT WorkerAgreesOnCursor
INVARIANT PermitsConserved

PROPERTY DispatchProgress
PROPERTY StreamReleasesConnection
