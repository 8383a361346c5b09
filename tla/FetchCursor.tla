---------------------------- MODULE FetchCursor ----------------------------
(***************************************************************************)
(* The FetchCursor job of a Hrana session (sqld/src/hrana/ws/session.rs,  *)
(* the FetchCursor arm of handle_request): on the stream's worker, drain  *)
(* entries from the cursor while fewer than max_count were taken and the  *)
(* bytes taken are below max_response_size / 8; a fetch that returns None *)
(* ends the cursor (done = true), one that fails ends the job with `?`.   *)
(*                                                                         *)
(* The cursor (cursor.rs, not in this tree) is modelled from the spec as  *)
(* the sequence of entry sizes it produces, possibly failing at one       *)
(* position; a failed cursor keeps failing.  One client fetches           *)
(* repeatedly with max_count values of its choice.                        *)
(***************************************************************************)
EXTENDS Naturals, Sequences, SequencesExt

CONSTANTS
  MaxRows,           \* longest cursor output enumerated
  EntrySizes,        \* sizes an entry may have (SizedEntry.size)
  MaxResponseSizes,  \* values of the server's max_response_size
  MaxCounts          \* max_count values a FetchCursor request may carry

ASSUME MaxRows \in Nat
ASSUME EntrySizes \subseteq Nat \ {0}
ASSUME MaxResponseSizes \subseteq Nat
ASSUME MaxCounts \subseteq Nat

NoError == 0

VARIABLES
  rows,      \* sizes of the entries the cursor produces, in order
  errAt,     \* position whose fetch fails (NoError: none)
  budget,    \* max_total_size = max_response_size / 8
  pos,       \* position of the next entry the cursor will hand out
  resp,      \* the last FetchCursor reply: entries, done, or an error
  over       \* the client has seen done = true or an error

vars == <<rows, errAt, budget, pos, resp, over>>

NoResp == [entries |-> <<>>, done |-> FALSE, err |-> FALSE, asked |-> 0]

-----------------------------------------------------------------------------
(* total_size: the bytes of the entries taken so far. *)
Bytes(entries) == FoldSeq(LAMBDA x, y : x + y, 0, entries)

(* Mutant: the limit is taken as bits and divided once more by 8. *)
MaxTotalSizeBits(m) == m \div 64

(* max_total_size: the byte budget of one fetch, an eighth of the       *)
(* server's max_response_size.                                           *)
MaxTotalSize(m) == m \div 8

(* Mutant: the byte budget is compared with <=, so a reply may take one *)
(* more entry after reaching it.                                         *)
RECURSIVE FetchLoopLeBudget(_, _, _, _)
FetchLoopLeBudget(p, entries, maxCount, maxTotal) ==
  IF Len(entries) < maxCount /\ Bytes(entries) <= maxTotal
    THEN IF p = errAt THEN <<entries, p, FALSE, TRUE>>
         ELSE IF p > Len(rows) THEN <<entries, p, TRUE, FALSE>>
         ELSE FetchLoopLeBudget(p + 1, Append(entries, rows[p]), maxCount, maxTotal)
    ELSE <<entries, p, FALSE, FALSE>>

(* Mutant: reaching the end of the cursor moves past it. *)
RECURSIVE FetchLoopPastEnd(_, _, _, _)
FetchLoopPastEnd(p, entries, maxCount, maxTotal) ==
  IF Len(entries) < maxCount /\ Bytes(entries) < maxTotal
    THEN IF p = errAt THEN <<entries, p, FALSE, TRUE>>
         ELSE IF p > Len(rows) THEN <<entries, p + 1, TRUE, FALSE>>
         ELSE FetchLoopPastEnd(p + 1, Append(entries, rows[p]), maxCount, maxTotal)
    ELSE <<entries, p, FALSE, FALSE>>

(* The while loop of the job, from entry p on: <<entries, next p, done, *)
(* failed>>.  The loop condition is checked before every fetch.         *)
RECURSIVE FetchLoop(_, _, _, _)
FetchLoop(p, entries, maxCount, maxTotal) ==
  IF Len(entries) < maxCount /\ Bytes(entries) < maxTotal
    THEN IF p = errAt THEN <<entries, p, FALSE, TRUE>>
         ELSE IF p > Len(rows) THEN <<entries, p, TRUE, FALSE>>
         ELSE FetchLoop(p + 1, Append(entries, rows[p]), maxCount, maxTotal)
    ELSE <<entries, p, FALSE, FALSE>>

Init ==
  /\ rows \in BoundedSeq(EntrySizes, MaxRows)
  /\ errAt \in {NoError} \cup 1..(Len(rows) + 1)
  /\ budget \in {MaxTotalSize(m) : m \in MaxResponseSizes}
  /\ pos = 1
  /\ resp = NoResp
  /\ over = FALSE

(* One FetchCursor request, run to its reply on the stream's worker. *)
Fetch(maxCount) ==
  /\ ~over
  /\ LET r == FetchLoop(pos, <<>>, maxCount, budget) IN
       /\ pos' = r[2]
       /\ resp' = [entries |-> r[1], done |-> r[3], err |-> r[4], asked |-> maxCount]
       /\ over' = (r[3] \/ r[4])
  /\ UNCHANGED <<rows, errAt, budget>>

(* The client stops after done or an error; nothing else happens. *)
Closed ==
  /\ over
  /\ UNCHANGED vars

Next ==
  \/ \E m \in MaxCounts : Fetch(m)
  \/ Closed

(* A client that wants the rest of the cursor keeps fetching with a   *)
(* positive max_count (scenario S6: a later fetch resumes).           *)
Fairness == WF_vars(\E m \in MaxCounts \ {0} : Fetch(m))

Spec == Init /\ [][Next]_vars /\ Fairness

-----------------------------------------------------------------------------
TypeOK ==
  /\ rows \in Seq(EntrySizes) /\ Len(rows) <= MaxRows
  /\ pos \in 1..(Len(rows) + 1)
  /\ resp.entries \in Seq(EntrySizes)
  /\ resp.done \in BOOLEAN /\ resp.err \in BOOLEAN
  /\ over \in BOOLEAN

(* The reply to a fetch is the run of cursor entries right before the  *)
(* current position, it holds at most max_count entries, its bytes     *)
(* reached max_response_size/8 only with its last entry, and a reply   *)
(* that is neither full, done nor failed is one that hit that budget.  *)
FetchWithinBudget ==
  LET e == resp.entries
      n == Len(e)
  IN
  /\ n <= resp.asked
  /\ e = SubSeq(rows, pos - n, pos - 1)
  /\ n > 0 => Bytes(SubSeq(e, 1, n - 1)) < budget
  /\ (~resp.done /\ ~resp.err /\ n < resp.asked) => Bytes(e) >= budget
  /\ resp.done => pos = Len(rows) + 1

(* A client that keeps fetching eventually drains the cursor: it sees  *)
(* done = true or the cursor's error.                                   *)
FetchDrains == <>over
=============================================================================
