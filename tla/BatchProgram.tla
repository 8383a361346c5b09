---------------------------- MODULE BatchProgram ----------------------------
(***************************************************************************)
(* Lowering of a batch into a Program (make_batch_program, the rollback    *)
(* tail of execute_batch_or_rollback, rollback()) in                       *)
(* sqld/src/connection/mod.rs, and the conditional execution of the        *)
(* Program on one connection.                                              *)
(*                                                                         *)
(* The executor and the engine (connection/program.rs, connection/libsql) *)
(* are not part of this source tree; they are modelled from the spec: a    *)
(* step whose condition holds runs and records Ok or Err, a step whose     *)
(* condition fails is Skipped, and Skipped is neither Ok nor Err.  The     *)
(* connection's transaction state persists from one call to the next.    *)
(*                                                                         *)
(* Step indices are 1-based here; the code's are 0-based.                 *)
(***************************************************************************)
EXTENDS Naturals, Sequences, SequencesExt

CONSTANTS
  MaxBatchLen   \* longest client batch enumerated

ASSUME MaxBatchLen \in Nat \ {0}

(* Statement kinds that matter to the transaction state. *)
Stmts == {"begin", "commit", "rollback", "write"}

(* Outcomes of a step and transaction states of a connection. *)
Ok == "ok"
Err == "err"
Skipped == "skipped"
TxnInit == "init"
TxnOpen == "txn"

(* Which Connection method is running the program. *)
Modes == {"batch", "batch_or_rollback", "rollback"}

VARIABLES
  txn,       \* transaction state of the connection
  busy,      \* a program is being executed
  mode,      \* the Connection method that built the program
  nOrig,     \* length of the client's batch
  pgm,       \* the Program: a sequence of [stmt, cond] steps
  outcomes,  \* outcome of every step executed so far
  results    \* what the result builder hands back to the caller

vars == <<txn, busy, mode, nOrig, pgm, outcomes, results>>

-----------------------------------------------------------------------------
(* Conditions: a tree over earlier step outcomes (Cond in program.rs). *)
NoCond == [op |-> "none"]
CondOk(i) == [op |-> "ok", step |-> i]
CondNot(c) == [op |-> "not", arg |-> c]

RECURSIVE EvalCond(_, _)
EvalCond(c, outs) ==
  CASE c.op = "none" -> TRUE
    [] c.op = "ok"   -> outs[c.step] = Ok
    [] c.op = "err"  -> outs[c.step] = Err
    [] c.op = "not"  -> ~EvalCond(c.arg, outs)
    [] c.op = "and"  -> EvalCond(c.left, outs) /\ EvalCond(c.right, outs)
    [] c.op = "or"   -> EvalCond(c.left, outs) \/ EvalCond(c.right, outs)

(* Mutant: the guard starts at the third step (an off-by-one on i > 0). *)
MakeBatchProgramLate(batch) ==
  [i \in 1..Len(batch) |->
     [stmt |-> batch[i], cond |-> IF i > 2 THEN CondOk(i - 1) ELSE NoCond]]

(* make_batch_program: every step after the first runs only if the *)
(* previous step was Ok.                                              *)
MakeBatchProgram(batch) ==
  [i \in 1..Len(batch) |->
     [stmt |-> batch[i], cond |-> IF i > 1 THEN CondOk(i - 1) ELSE NoCond]]

(* Mutant: the tail is guarded by Err(last) instead of Not(Ok(last)). *)
RollbackTailOnErr(steps) ==
  IF steps # <<>>
    THEN Append(steps, [stmt |-> "rollback", cond |-> [op |-> "err", step |-> Len(steps)]])
    ELSE steps

(* The conditional ROLLBACK appended by execute_batch_or_rollback. *)
RollbackTail(steps) ==
  IF steps # <<>>
    THEN Append(steps, [stmt |-> "rollback", cond |-> CondNot(CondOk(Len(steps)))])
    ELSE steps

(* The engine's result for one statement on a connection in state t:   *)
(* pairs <<outcome, new state>> it may produce.  A write may fail       *)
(* (constraint, I/O); COMMIT may fail (busy) and leave the txn open.   *)
EngineResults(stmt, t) ==
  CASE stmt = "begin"    -> IF t = TxnInit THEN {<<Ok, TxnOpen>>} ELSE {<<Err, t>>}
    [] stmt = "commit"   -> IF t = TxnOpen THEN {<<Ok, TxnInit>>, <<Err, t>>}
                                         ELSE {<<Err, t>>}
    [] stmt = "rollback" -> IF t = TxnOpen THEN {<<Ok, TxnInit>>} ELSE {<<Err, t>>}
    [] stmt = "write"    -> {<<Ok, t>>, <<Err, t>>}

Init ==
  /\ txn = TxnInit
  /\ busy = FALSE
  /\ mode = "batch"
  /\ nOrig = 0
  /\ pgm = <<>>
  /\ outcomes = <<>>
  /\ results = <<>>

(* Mutant: the batch length is taken from the program, tail included. *)
StartCountsTail(m, batch, steps) ==
  /\ ~busy
  /\ busy' = TRUE
  /\ mode' = m
  /\ nOrig' = Len(steps)
  /\ pgm' = steps
  /\ outcomes' = <<>>
  /\ results' = <<>>
  /\ UNCHANGED txn

Start(m, batch, steps) ==
  /\ ~busy
  /\ busy' = TRUE
  /\ mode' = m
  /\ nOrig' = Len(batch)
  /\ pgm' = steps
  /\ outcomes' = <<>>
  /\ results' = <<>>
  /\ UNCHANGED txn

(* execute_batch: lower the batch and run it. *)
ExecuteBatch(batch) ==
  Start("batch", batch, MakeBatchProgram(batch))

(* execute_batch_or_rollback: lower, append the rollback tail, and  *)
(* hide the tail's result with take(batch_len).                     *)
ExecuteBatchOrRollback(batch) ==
  Start("batch_or_rollback", batch, RollbackTail(MakeBatchProgram(batch)))

(* rollback(): execute_batch of a single ROLLBACK, result ignored. *)
Rollback ==
  Start("rollback", <<"rollback">>, MakeBatchProgram(<<"rollback">>))

(* The executor runs the next step whose condition holds. *)
RunStep ==
  LET i == Len(outcomes) + 1 IN
  /\ busy
  /\ i <= Len(pgm)
  /\ EvalCond(pgm[i].cond, outcomes)
  /\ \E r \in EngineResults(pgm[i].stmt, txn) :
       /\ outcomes' = Append(outcomes, r[1])
       /\ txn' = r[2]
  /\ UNCHANGED <<busy, mode, nOrig, pgm, results>>

(* ... and records a step whose condition fails as skipped. *)
SkipStep ==
  LET i == Len(outcomes) + 1 IN
  /\ busy
  /\ i <= Len(pgm)
  /\ ~EvalCond(pgm[i].cond, outcomes)
  /\ outcomes' = Append(outcomes, Skipped)
  /\ UNCHANGED <<txn, busy, mode, nOrig, pgm, results>>

(* The program is done: the builder returned to the caller holds the *)
(* results of the first take(n) steps (into_inner of the Take).     *)
Finish ==
  /\ busy
  /\ Len(outcomes) = Len(pgm)
  /\ busy' = FALSE
  /\ results' = IF mode = "batch_or_rollback" THEN SubSeq(outcomes, 1, nOrig)
                ELSE IF mode = "rollback" THEN <<>>
                ELSE outcomes
  /\ UNCHANGED <<txn, mode, nOrig, pgm, outcomes>>

Batches == BoundedSeq(Stmts, MaxBatchLen)

Next ==
  \/ \E b \in Batches : ExecuteBatch(b) \/ ExecuteBatchOrRollback(b)
  \/ Rollback
  \/ RunStep
  \/ SkipStep
  \/ Finish

Spec == Init /\ [][Next]_vars

-----------------------------------------------------------------------------
(* Conditions whose leaves name a step of a batch. *)
Leaves == [op : {"ok", "err"}, step : 1..MaxBatchLen]
Conds == {NoCond} \cup Leaves \cup {CondNot(c) : c \in Leaves}

TypeOK ==
  /\ txn \in {TxnInit, TxnOpen}
  /\ busy \in BOOLEAN
  /\ mode \in Modes
  /\ nOrig \in 0..MaxBatchLen
  /\ pgm \in Seq([stmt : Stmts, cond : Conds])
  /\ outcomes \in Seq({Ok, Err, Skipped})
  /\ results \in Seq({Ok, Err, Skipped})

(* A finished call, and the original steps of its batch. *)
Finished == ~busy /\ mode # "rollback" /\ nOrig > 0
Orig == 1..nOrig

(* Short circuit: an original step of a finished batch ran exactly when *)
(* every earlier step of the batch was Ok.                              *)
ShortCircuit ==
  Finished =>
    \A i \in Orig :
      (outcomes[i] # Skipped) <=> (\A j \in 1..(i - 1) : outcomes[j] = Ok)

(* A batch run by execute_batch_or_rollback that did not fully succeed *)
(* never leaves a transaction open on the connection (scenario S1),    *)
(* and its caller sees exactly one result per original statement.     *)
FailedBatchRolledBack ==
  (Finished /\ mode = "batch_or_rollback") =>
    /\ Len(results) = nOrig
    /\ (\E i \in Orig : outcomes[i] # Ok) => txn = TxnInit
=============================================================================
