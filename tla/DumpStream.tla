----------------------------- MODULE DumpStream -----------------------------
(***************************************************************************)
(* The HTTP dump endpoint (sqld/src/http/dump.rs).  A blocking task runs  *)
(* export_dump into the write half of an in-memory duplex pipe; the       *)
(* response body is DumpStream, which yields the chunks read from the     *)
(* other half and, once that stream has ended, polls the task's           *)
(* JoinHandle to forward an export error or a crash of the task.          *)
(*                                                                         *)
(* Chunks are numbered; the pipe holds PipeCap of them.  The writer is    *)
(* dropped when export_dump returns (or unwinds), which ends the reader;  *)
(* the JoinHandle becomes ready after that.  The HTTP client may go away  *)
(* at any time, dropping the body and the read half.                      *)
(***************************************************************************)
EXTENDS Naturals, Sequences

CONSTANTS
  MaxChunks,   \* chunks export_dump writes when it succeeds
  PipeCap      \* chunks the duplex buffer holds (8 KiB in the code)

ASSUME MaxChunks \in Nat \ {0}
ASSUME PipeCap \in Nat \ {0}

(* Outcomes of the export task, as the JoinHandle reports them. *)
Running == "running"
ExportOk == "ok"
ExportErr == "err"
Panicked == "panic"

VARIABLES
  written,     \* chunks export_dump has written
  pipe,        \* chunks buffered in the duplex
  writerOpen,  \* the write half is still alive
  readerOpen,  \* the read half (and the body) is still alive
  result,      \* what export_dump returned, Running before
  joined,      \* the blocking task has completed (JoinHandle ready)
  terminated,  \* the fused reader stream has returned None
  handle,      \* DumpStream.join_handle is Some
  body,        \* the chunks the HTTP body has yielded
  ending       \* how the body ended: Open, "end" (None) or "error"

vars == <<written, pipe, writerOpen, readerOpen, result, joined, terminated,
          handle, body, ending>>

exportVars == <<written, pipe, writerOpen, result, joined>>

Open == "open"

Done == ending # Open

-----------------------------------------------------------------------------
Init ==
  /\ written = 0
  /\ pipe = <<>>
  /\ writerOpen = TRUE
  /\ readerOpen = TRUE
  /\ result = Running
  /\ joined = FALSE
  /\ terminated = FALSE
  /\ handle = TRUE
  /\ body = <<>>
  /\ ending = Open

(* Mutant: the write does not wait for room in the pipe. *)
ExportWriteUnbounded ==
  /\ result = Running
  /\ readerOpen
  /\ written < MaxChunks
  /\ written' = written + 1
  /\ pipe' = Append(pipe, written + 1)
  /\ UNCHANGED <<writerOpen, readerOpen, result, joined, terminated, handle, body, ending>>

(* export_dump writes the next chunk through SyncIoBridge; it blocks    *)
(* while the pipe is full.                                               *)
ExportWrite ==
  /\ result = Running
  /\ readerOpen
  /\ written < MaxChunks
  /\ Len(pipe) < PipeCap
  /\ written' = written + 1
  /\ pipe' = Append(pipe, written + 1)
  /\ UNCHANGED <<writerOpen, readerOpen, result, joined, terminated, handle, body, ending>>

(* Mutant: a write blocked on a full pipe is not woken when the reader  *)
(* goes away.                                                           *)
ExportReturnNoBrokenPipe ==
  /\ result = Running
  /\ Len(pipe) < PipeCap \/ written = MaxChunks
  /\ \E r \in {ExportOk, ExportErr, Panicked} :
       /\ r = ExportOk => written = MaxChunks
       /\ result' = r
  /\ writerOpen' = FALSE
  /\ UNCHANGED <<written, pipe, readerOpen, joined, terminated, handle, body, ending>>

(* export_dump returns: Ok after the last chunk, an error at any point   *)
(* (including BrokenPipe once the reader is gone), or it panics; the     *)
(* writer is dropped on the way out.  While a write is blocked on a full *)
(* pipe, only the reader going away ends it.                             *)
ExportReturn ==
  /\ result = Running
  /\ Len(pipe) < PipeCap \/ written = MaxChunks \/ ~readerOpen
  /\ \E r \in {ExportOk, ExportErr, Panicked} :
       /\ r = ExportOk => written = MaxChunks
       /\ result' = r
  /\ writerOpen' = FALSE
  /\ UNCHANGED <<written, pipe, readerOpen, joined, terminated, handle, body, ending>>

(* The blocking task finishes and its JoinHandle becomes ready. *)
TaskComplete ==
  /\ result # Running
  /\ ~joined
  /\ joined' = TRUE
  /\ UNCHANGED <<written, pipe, writerOpen, readerOpen, result, terminated,
                 handle, body, ending>>

(* poll_next while the reader has not ended: a buffered chunk is yielded. *)
PollChunk ==
  /\ readerOpen /\ ~Done
  /\ ~terminated
  /\ pipe # <<>>
  /\ body' = Append(body, Head(pipe))
  /\ pipe' = Tail(pipe)
  /\ UNCHANGED <<written, writerOpen, readerOpen, result, joined, terminated, handle, ending>>

(* Mutant: the pending JoinHandle is not put back. *)
PollJoinDropsPending(h) ==
  IF ~h THEN /\ ending' = "end"
             /\ handle' = FALSE
  ELSE IF ~joined THEN /\ UNCHANGED ending
                       /\ handle' = FALSE
  ELSE /\ ending' = IF result = ExportOk THEN "end" ELSE "error"
       /\ handle' = FALSE

(* The JoinHandle part of poll_next: take the handle; a pending task puts *)
(* it back, a finished one yields its error, its crash, or the end.      *)
PollJoin(h) ==
  IF ~h THEN /\ ending' = "end"
             /\ handle' = FALSE
  ELSE IF ~joined THEN /\ UNCHANGED ending
                       /\ handle' = TRUE
  ELSE /\ ending' = IF result = ExportOk THEN "end" ELSE "error"
       /\ handle' = FALSE

(* The reader returns None once the writer is gone and the pipe is       *)
(* drained; poll_next recurses into the terminated branch.              *)
PollEnd ==
  /\ readerOpen /\ ~Done
  /\ ~terminated
  /\ pipe = <<>>
  /\ ~writerOpen
  /\ terminated' = TRUE
  /\ PollJoin(handle)
  /\ UNCHANGED <<exportVars, readerOpen, body>>

(* A later poll_next after the reader has ended, woken by the JoinHandle. *)
PollTerminated ==
  /\ readerOpen /\ ~Done
  /\ terminated
  /\ joined \/ ~handle
  /\ PollJoin(handle)
  /\ UNCHANGED <<exportVars, readerOpen, terminated, body>>

(* The client disconnects: the body and the read half are dropped. *)
ClientGone ==
  /\ readerOpen /\ ~Done
  /\ readerOpen' = FALSE
  /\ UNCHANGED <<written, pipe, writerOpen, result, joined, terminated, handle, body, ending>>

(* The HTTP side is over: the body has ended or been dropped; hyper  *)
(* polls it no more (the blocking task may still be running).       *)
Served ==
  /\ Done \/ ~readerOpen
  /\ UNCHANGED vars

Next ==
  \/ Served
  \/ ExportWrite \/ ExportReturn \/ TaskComplete
  \/ PollChunk \/ PollEnd \/ PollTerminated
  \/ ClientGone

(* The blocking pool runs the task and hyper polls the body while it is *)
(* woken; export_dump returns once it has nothing left to write.        *)
Fairness ==
  /\ WF_vars(ExportWrite) /\ WF_vars(TaskComplete)
  /\ WF_vars(ExportReturn)
  /\ WF_vars(PollChunk) /\ WF_vars(PollEnd) /\ WF_vars(PollTerminated)

Spec == Init /\ [][Next]_vars /\ Fairness

-----------------------------------------------------------------------------
TypeOK ==
  /\ written \in 0..MaxChunks
  /\ pipe \in Seq(1..MaxChunks) /\ Len(pipe) <= PipeCap
  /\ writerOpen \in BOOLEAN /\ readerOpen \in BOOLEAN
  /\ result \in {Running, ExportOk, ExportErr, Panicked}
  /\ joined \in BOOLEAN /\ terminated \in BOOLEAN /\ handle \in BOOLEAN
  /\ body \in Seq(1..MaxChunks)
  /\ ending \in {Open, "end", "error"}

(* The body ends cleanly only if export_dump succeeded, and then it has *)
(* carried every chunk, in order; a failed or crashed export always      *)
(* ends the body with an error.                                           *)
EndMeansComplete ==
  Done =>
    IF ending = "end"
      THEN /\ result = ExportOk
           /\ body = [i \in 1..MaxChunks |-> i]
      ELSE result \in {ExportErr, Panicked}

(* Every dump request finishes: the body ends (or the client left) and  *)
(* the blocking task completes, even when the client disconnects while  *)
(* the exporter is blocked on a full pipe.                               *)
DumpFinishes == <>((Done \/ ~readerOpen) /\ joined)
=============================================================================
