------------------------------- MODULE Session -------------------------------
(***************************************************************************)
(* One Hrana WebSocket session (sqld/src/hrana/ws/session.rs): the         *)
(* dispatcher that handles requests one at a time (handle_request) and the *)
(* stream workers it spawns (stream_spawn), each draining a bounded job    *)
(* mailbox in FIFO order.                                                  *)
(*                                                                         *)
(* The dispatcher owns the tables streams, sqls and cursors.  A request    *)
(* that fails an early check (bail!) leaves them untouched and is a        *)
(* stutter step here, so each request action's guard is the conjunction   *)
(* of the checks it passes.  A job is sent with job_tx.send(job).await:   *)
(* when the mailbox is full the dispatcher blocks and handles nothing     *)
(* else until the job fits.  A worker survives the CloseStream that drops *)
(* its sender until its mailbox is drained, so workers are tracked by     *)
(* slot, apart from the stream ids the client may reuse.                  *)
(*                                                                         *)
(* Connections come from the throttled factory: here one permit per       *)
(* connection from a pool of Permits, released when the last Arc of the   *)
(* connection is dropped.  The worker's Stream holds one; OpenCursor      *)
(* hands the cursor task, spawned on the session's JoinSet, a clone.  A   *)
(* cursor task whose handle was dropped (by CloseCursor or with the       *)
(* Stream) keeps its clone until the task ends, so a slot is a worker    *)
(* together with the cursor tasks it started.                             *)
(***************************************************************************)
EXTENDS Naturals, Sequences, FiniteSets

CONSTANTS
  StreamIds,    \* stream ids the client uses
  CursorIds,    \* cursor ids the client uses
  SqlIds,       \* sql ids the client uses
  Versions,     \* protocol versions a session may negotiate (1..3)
  Slots,        \* worker tasks that may be alive at once
  MailboxCap,   \* capacity of a stream's job channel (8 in the code)
  MaxSqlCount,  \* MAX_SQL_COUNT (150 in the code)
  Permits,      \* connections the factory admits at once
  HasTimeout,   \* the factory's acquisition timeout is configured
  NoWorker, NoCursor, NoStream, NoJob   \* model values

ASSUME Versions \subseteq 1..3
ASSUME MailboxCap \in Nat \ {0}
ASSUME MaxSqlCount \in Nat \ {0}
ASSUME Permits \in Nat \ {0}
ASSUME HasTimeout \in BOOLEAN

(* Jobs a worker runs, by the request that enqueued them. *)
Jobs == {"open", "close", "db", "open_cursor", "close_cursor", "fetch"}

(* Requests whose job needs the stream's connection, and their minimum *)
(* protocol version (ensure_version!).                                  *)
DbRequests == {"execute", "batch", "sequence", "describe", "get_autocommit"}
MinVersion == [r \in DbRequests |->
                 IF r \in {"execute", "batch"} THEN 1
                 ELSE IF r = "get_autocommit" THEN 3 ELSE 2]

VARIABLES
  version,   \* negotiated protocol version
  streams,   \* session.streams: stream id -> worker slot
  scursor,   \* StreamHandle.cursor_id of each stream
  sqls,      \* session.sqls (ids only; texts are compiled into jobs)
  cursors,   \* session.cursors: cursor id -> stream id
  pending,   \* the job the dispatcher is blocked sending, or NoJob
  alive,     \* worker slots whose task is running
  mbox,      \* each worker's job channel
  closed,    \* each worker's sender has been dropped
  running,   \* the job each worker has received and not finished
  db,        \* Stream.db is Some
  cur,       \* Stream.cursor_hnd is Some
  ctask,     \* a cursor task whose handle was dropped still holds the connection
  avail      \* free connection permits

vars == <<version, streams, scursor, sqls, cursors, pending,
          alive, mbox, closed, running, db, cur, ctask, avail>>

sessionVars == <<version, streams, scursor, sqls, cursors>>
workerVars == <<alive, mbox, closed, running, db, cur, ctask, avail>>

-----------------------------------------------------------------------------
Open(s) == streams[s] # NoWorker

(* stream_respond: send the job, or block until the mailbox has room. *)
(* `close` drops the sender once the job is in.                       *)
Send(w, job, close) ==
  IF Len(mbox[w]) < MailboxCap
    THEN /\ mbox' = [mbox EXCEPT ![w] = Append(@, job)]
         /\ closed' = [closed EXCEPT ![w] = close]
         /\ UNCHANGED pending
    ELSE /\ pending' = [slot |-> w, job |-> job, close |-> close]
         /\ UNCHANGED <<mbox, closed>>

Idle == pending = NoJob

Init ==
  /\ version \in Versions
  /\ streams = [s \in StreamIds |-> NoWorker]
  /\ scursor = [s \in StreamIds |-> NoCursor]
  /\ sqls = {}
  /\ cursors = [c \in CursorIds |-> NoStream]
  /\ pending = NoJob
  /\ alive = [w \in Slots |-> FALSE]
  /\ mbox = [w \in Slots |-> <<>>]
  /\ closed = [w \in Slots |-> FALSE]
  /\ running = [w \in Slots |-> NoJob]
  /\ db = [w \in Slots |-> FALSE]
  /\ cur = [w \in Slots |-> FALSE]
  /\ ctask = [w \in Slots |-> FALSE]
  /\ avail = Permits

(* OpenStream: the id must be fresh; spawn a worker whose first job    *)
(* creates the connection, then record the stream.                    *)
OpenStream(s) ==
  /\ Idle
  /\ ~Open(s)
  /\ \E w \in Slots :
       /\ ~alive[w] /\ ~ctask[w]
       /\ alive' = [alive EXCEPT ![w] = TRUE]
       /\ Send(w, "open", FALSE)
       /\ streams' = [streams EXCEPT ![s] = w]
  /\ UNCHANGED <<version, scursor, sqls, cursors, running, db, cur, ctask, avail>>

(* Mutant: CloseStream leaves the cursor entry behind. *)
CloseStreamKeepsCursor(s) ==
  /\ Idle
  /\ Open(s)
  /\ streams' = [streams EXCEPT ![s] = NoWorker]
  /\ scursor' = [scursor EXCEPT ![s] = NoCursor]
  /\ Send(streams[s], "close", TRUE)
  /\ UNCHANGED <<version, sqls, cursors, alive, running, db, cur, ctask, avail>>

(* CloseStream: remove the stream and its cursor id, enqueue the       *)
(* closing job and drop the sender.                                    *)
CloseStream(s) ==
  /\ Idle
  /\ Open(s)
  /\ streams' = [streams EXCEPT ![s] = NoWorker]
  /\ scursor' = [scursor EXCEPT ![s] = NoCursor]
  /\ cursors' = IF scursor[s] = NoCursor THEN cursors
                ELSE [cursors EXCEPT ![scursor[s]] = NoStream]
  /\ Send(streams[s], "close", TRUE)
  /\ UNCHANGED <<version, sqls, alive, running, db, cur, ctask, avail>>

(* Execute, Batch, Sequence, Describe, GetAutocommit: version check,  *)
(* stream lookup and compilation in the dispatcher, the rest on the   *)
(* worker.                                                             *)
DbRequest(r, s) ==
  /\ Idle
  /\ version >= MinVersion[r]
  /\ Open(s)
  /\ Send(streams[s], "db", FALSE)
  /\ UNCHANGED <<sessionVars, alive, running, db, cur, ctask, avail>>

(* StoreSql: rejected when the id is taken or the store is full. *)
StoreSql(q) ==
  /\ Idle
  /\ version >= 2
  /\ q \notin sqls
  /\ Cardinality(sqls) < MaxSqlCount
  /\ sqls' = sqls \cup {q}
  /\ UNCHANGED <<version, streams, scursor, cursors, pending, workerVars>>

(* CloseSql: idempotent removal. *)
CloseSql(q) ==
  /\ Idle
  /\ version >= 2
  /\ q \in sqls
  /\ sqls' = sqls \ {q}
  /\ UNCHANGED <<version, streams, scursor, cursors, pending, workerVars>>

(* OpenCursor: the stream must have no cursor and the id must be fresh; *)
(* the job attaches the cursor, the tables are updated at once.         *)
OpenCursor(s, c) ==
  /\ Idle
  /\ version >= 3
  /\ Open(s)
  /\ scursor[s] = NoCursor
  /\ cursors[c] = NoStream
  /\ Send(streams[s], "open_cursor", FALSE)
  /\ cursors' = [cursors EXCEPT ![c] = s]
  /\ scursor' = [scursor EXCEPT ![s] = c]
  /\ UNCHANGED <<version, streams, sqls, alive, running, db, cur, ctask, avail>>

(* Mutant: CloseCursor updates the tables but sends no job. *)
CloseCursorNoJob(c) ==
  /\ Idle
  /\ version >= 3
  /\ cursors[c] # NoStream
  /\ LET s == cursors[c] IN
       /\ Open(s)
       /\ cursors' = [cursors EXCEPT ![c] = NoStream]
       /\ scursor' = [scursor EXCEPT ![s] = NoCursor]
  /\ UNCHANGED <<version, streams, sqls, pending, workerVars>>

(* CloseCursor: remove the cursor, look up its stream (asserting that it *)
(* owns the cursor), clear the stream's cursor id and enqueue the job.   *)
CloseCursor(c) ==
  /\ Idle
  /\ version >= 3
  /\ cursors[c] # NoStream
  /\ LET s == cursors[c] IN
       /\ Open(s)
       /\ cursors' = [cursors EXCEPT ![c] = NoStream]
       /\ scursor' = [scursor EXCEPT ![s] = NoCursor]
       /\ Send(streams[s], "close_cursor", FALSE)
  /\ UNCHANGED <<version, streams, sqls, alive, running, db, cur, ctask, avail>>

(* FetchCursor: look up the cursor's stream and enqueue the fetch. *)
FetchCursor(c) ==
  /\ Idle
  /\ version >= 3
  /\ cursors[c] # NoStream
  /\ Open(cursors[c])
  /\ Send(streams[cursors[c]], "fetch", FALSE)
  /\ UNCHANGED <<sessionVars, alive, running, db, cur, ctask, avail>>

(* The blocked send completes once the worker has taken a job. *)
DeliverPending ==
  /\ pending # NoJob
  /\ Len(mbox[pending.slot]) < MailboxCap
  /\ mbox' = [mbox EXCEPT ![pending.slot] = Append(@, pending.job)]
  /\ closed' = [closed EXCEPT ![pending.slot] = pending.close]
  /\ pending' = NoJob
  /\ UNCHANGED <<sessionVars, alive, running, db, cur, ctask, avail>>

-----------------------------------------------------------------------------
(* Worker loop: job_rx.recv() takes the next job. *)
Recv(w) ==
  /\ alive[w]
  /\ running[w] = NoJob
  /\ mbox[w] # <<>>
  /\ running' = [running EXCEPT ![w] = Head(mbox[w])]
  /\ mbox' = [mbox EXCEPT ![w] = Tail(@)]
  /\ UNCHANGED <<sessionVars, pending, alive, closed, db, cur, ctask, avail>>

Finish(w) == running' = [running EXCEPT ![w] = NoJob]

(* The open job: connection_maker.create() returns a connection. *)
RunOpen(w) ==
  /\ running[w] = "open"
  /\ avail > 0
  /\ avail' = avail - 1
  /\ db' = [db EXCEPT ![w] = TRUE]
  /\ Finish(w)
  /\ UNCHANGED <<sessionVars, pending, alive, mbox, closed, cur, ctask>>

(* ... or fails: a factory error, or DbCreateTimeout while no permit  *)
(* is free.  Stream.db stays None.                                     *)
OpenFails(w) ==
  /\ running[w] = "open"
  /\ Finish(w)
  /\ UNCHANGED <<sessionVars, pending, alive, mbox, closed, db, cur, ctask, avail>>

(* Mutant: the stream's connection is created without the timeout. *)
OpenNoTimeout(w) ==
  /\ FALSE
  /\ OpenFails(w)

OpenTimesOut(w) ==
  /\ HasTimeout
  /\ avail = 0
  /\ OpenFails(w)

(* Close, db and fetch jobs change no worker state (a missing db or   *)
(* cursor is an error reply).                                          *)
RunPlain(w) ==
  /\ running[w] \in {"close", "db", "fetch"}
  /\ Finish(w)
  /\ UNCHANGED <<sessionVars, pending, alive, mbox, closed, db, cur, ctask, avail>>

(* A cursor handle being dropped detaches its task, which keeps its     *)
(* clone of the connection.                                             *)
Detach(w) == ctask' = [ctask EXCEPT ![w] = @ \/ (cur[w] /\ db[w])]

(* The open_cursor job: get_stream_db! fails without a connection (the *)
(* new handle is dropped before its task got one); otherwise the task  *)
(* opens the cursor on a clone of Stream.db and the handle replaces    *)
(* Stream.cursor_hnd.                                                   *)
RunOpenCursor(w) ==
  /\ running[w] = "open_cursor"
  /\ cur' = [cur EXCEPT ![w] = db[w]]
  /\ IF db[w] THEN Detach(w) ELSE UNCHANGED ctask
  /\ Finish(w)
  /\ UNCHANGED <<sessionVars, pending, alive, mbox, closed, db, avail>>

(* The close_cursor job drops the cursor handle. *)
RunCloseCursor(w) ==
  /\ running[w] = "close_cursor"
  /\ cur' = [cur EXCEPT ![w] = FALSE]
  /\ Detach(w)
  /\ Finish(w)
  /\ UNCHANGED <<sessionVars, pending, alive, mbox, closed, db, avail>>

(* Mutant: the worker waits for its cursor to be closed before it ends. *)
ExitAfterCursor(w) ==
  /\ ~cur[w]
  /\ alive[w]
  /\ closed[w]
  /\ mbox[w] = <<>>
  /\ running[w] = NoJob
  /\ alive' = [alive EXCEPT ![w] = FALSE]
  /\ closed' = [closed EXCEPT ![w] = FALSE]
  /\ db' = [db EXCEPT ![w] = FALSE]
  /\ cur' = [cur EXCEPT ![w] = FALSE]
  /\ Detach(w)
  /\ avail' = IF db[w] /\ ~cur[w] /\ ~ctask[w] THEN avail + 1 ELSE avail
  /\ UNCHANGED <<sessionVars, pending, mbox, running>>

(* Mutant: the permit is returned even when no connection was made. *)
ExitAlwaysReleases(w) ==
  /\ alive[w]
  /\ closed[w]
  /\ mbox[w] = <<>>
  /\ running[w] = NoJob
  /\ alive' = [alive EXCEPT ![w] = FALSE]
  /\ closed' = [closed EXCEPT ![w] = FALSE]
  /\ db' = [db EXCEPT ![w] = FALSE]
  /\ cur' = [cur EXCEPT ![w] = FALSE]
  /\ Detach(w)
  /\ avail' = IF ~cur[w] /\ ~ctask[w] THEN avail + 1 ELSE avail
  /\ UNCHANGED <<sessionVars, pending, mbox, running>>

(* recv() returns None: the worker ends and drops its Stream.  The      *)
(* connection, and its permit, go with it unless a cursor task, the    *)
(* attached one now detached or an earlier one, still holds a clone.   *)
Exit(w) ==
  /\ alive[w]
  /\ closed[w]
  /\ mbox[w] = <<>>
  /\ running[w] = NoJob
  /\ alive' = [alive EXCEPT ![w] = FALSE]
  /\ closed' = [closed EXCEPT ![w] = FALSE]
  /\ db' = [db EXCEPT ![w] = FALSE]
  /\ cur' = [cur EXCEPT ![w] = FALSE]
  /\ Detach(w)
  /\ avail' = IF db[w] /\ ~cur[w] /\ ~ctask[w] THEN avail + 1 ELSE avail
  /\ UNCHANGED <<sessionVars, pending, mbox, running>>

(* Mutant: the last clone is dropped but the permit is not returned. *)
CursorTaskEndsKeepsPermit(w) ==
  /\ ctask[w]
  /\ ctask' = [ctask EXCEPT ![w] = FALSE]
  /\ UNCHANGED <<sessionVars, pending, alive, mbox, closed, running, db, cur, avail>>

(* A detached cursor task ends and drops its clone; when the Stream is  *)
(* already gone that was the last one, and the permit is returned.     *)
CursorTaskEnds(w) ==
  /\ ctask[w]
  /\ ctask' = [ctask EXCEPT ![w] = FALSE]
  /\ avail' = IF db[w] THEN avail ELSE avail + 1
  /\ UNCHANGED <<sessionVars, pending, alive, mbox, closed, running, db, cur>>

Request ==
  \/ \E s \in StreamIds :
       \/ OpenStream(s)
       \/ CloseStream(s)
       \/ \E r \in DbRequests : DbRequest(r, s)
       \/ \E c \in CursorIds : OpenCursor(s, c)
  \/ \E c \in CursorIds : CloseCursor(c) \/ FetchCursor(c)
  \/ \E q \in SqlIds : StoreSql(q) \/ CloseSql(q)

Worker(w) ==
  \/ Recv(w)
  \/ RunOpen(w) \/ OpenFails(w) \/ OpenTimesOut(w)
  \/ RunPlain(w) \/ RunOpenCursor(w) \/ RunCloseCursor(w)
  \/ Exit(w)
  \/ CursorTaskEnds(w)

Next ==
  \/ Request
  \/ DeliverPending
  \/ \E w \in Slots : Worker(w)

(* The runtime keeps polling every task; the acquisition timer fires;  *)
(* a detached cursor task stops once it sees its handle is gone.      *)
Fairness ==
  /\ WF_vars(DeliverPending)
  /\ \A w \in Slots :
       /\ WF_vars(Recv(w))
       /\ WF_vars(RunOpen(w) \/ OpenTimesOut(w))
       /\ WF_vars(RunPlain(w) \/ RunOpenCursor(w) \/ RunCloseCursor(w))
       /\ WF_vars(Exit(w))
       /\ WF_vars(CursorTaskEnds(w))

Spec == Init /\ [][Next]_vars /\ Fairness

-----------------------------------------------------------------------------
TypeOK ==
  /\ version \in Versions
  /\ streams \in [StreamIds -> Slots \cup {NoWorker}]
  /\ scursor \in [StreamIds -> CursorIds \cup {NoCursor}]
  /\ sqls \subseteq SqlIds
  /\ cursors \in [CursorIds -> StreamIds \cup {NoStream}]
  /\ pending \in {NoJob} \cup [slot : Slots, job : Jobs, close : BOOLEAN]
  /\ alive \in [Slots -> BOOLEAN]
  /\ mbox \in [Slots -> Seq(Jobs)]
  /\ closed \in [Slots -> BOOLEAN]
  /\ running \in [Slots -> Jobs \cup {NoJob}]
  /\ db \in [Slots -> BOOLEAN]
  /\ cur \in [Slots -> BOOLEAN]
  /\ ctask \in [Slots -> BOOLEAN]
  /\ avail \in 0..Permits

(* Spec invariant 3: the cursors table and the streams' cursor ids     *)
(* describe the same pairs, so the assert_eq! in CloseCursor and        *)
(* FetchCursor cannot fire and CloseCursor always finds its stream.    *)
CursorTablesAgree ==
  /\ \A c \in CursorIds : cursors[c] # NoStream =>
        Open(cursors[c]) /\ scursor[cursors[c]] = c
  /\ \A s \in StreamIds : scursor[s] # NoCursor =>
        Open(s) /\ cursors[scursor[s]] = s

(* The connection of a stream the client has closed is eventually      *)
(* dropped by its worker and by every cursor task holding a clone, and *)
(* its permit returned, whatever jobs were still queued, whether a     *)
(* cursor was attached or closed and whether the permit wait timed out. *)
Holds(w) == db[w] \/ ctask[w]

StreamReleasesConnection ==
  \A w \in Slots : (closed[w] /\ db[w]) ~> ~Holds(w)

(* Once a stream's worker has caught up with its mailbox, the worker   *)
(* holds a cursor exactly when the session thinks the stream has one   *)
(* (for a stream whose connection opened).                            *)
WorkerAgreesOnCursor ==
  \A s \in StreamIds :
    LET w == streams[s] IN
      (w # NoWorker /\ db[w] /\ mbox[w] = <<>> /\ running[w] = NoJob
       /\ ~(pending # NoJob /\ pending.slot = w))
        => (cur[w] <=> scursor[s] # NoCursor)

(* Every permit is free or held by exactly one connection, which a     *)
(* live worker's Stream or a detached cursor task still holds: none is *)
(* returned twice, none lost when a Stream and its cursor tasks end in *)
(* either order.                                                       *)
PermitsConserved ==
  avail + Cardinality({w \in Slots : Holds(w)}) = Permits

(* A request the dispatcher is blocked on is eventually enqueued, so the *)
(* session keeps serving requests.                                       *)
DispatchProgress == pending # NoJob ~> pending = NoJob
=============================================================================
