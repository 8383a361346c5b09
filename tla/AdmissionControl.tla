--------------------------- MODULE AdmissionControl ---------------------------
(***************************************************************************)
(* What the throttled connection factory promises its callers              *)
(* (sqld/src/connection/mod.rs, MakeThrottledConnection): a caller of      *)
(* create() waits, possibly taking units of a fixed pool one batch at a    *)
(* time, and either gets a connection that holds at least one unit or     *)
(* leaves with nothing; a connection keeps its units until it is dropped. *)
(* The pool is never overdrawn and a call that has started eventually     *)
(* ends.  How the units are chosen, queued and timed out is left open.    *)
(***************************************************************************)
EXTENDS Naturals, Functions

CONSTANTS
  Tasks,      \* callers of create()
  Capacity,   \* units in the pool
  Units       \* sizes of the batches a caller may take

VARIABLES
  status,     \* "idle", "waiting" (inside create()) or "connected"
  held        \* units each caller owns

vars == <<status, held>>

Status == {"idle", "waiting", "connected"}

InUse == SumFunction(held)

Init ==
  /\ status = [t \in Tasks |-> "idle"]
  /\ held = [t \in Tasks |-> 0]

(* A call of create() starts. *)
Request(t) ==
  /\ status[t] = "idle"
  /\ status' = [status EXCEPT ![t] = "waiting"]
  /\ UNCHANGED held

(* A waiting call takes a batch of units the pool still has. *)
Take(t, u) ==
  /\ status[t] = "waiting"
  /\ InUse + u <= Capacity
  /\ held' = [held EXCEPT ![t] = @ + u]
  /\ UNCHANGED status

(* A waiting call returns an error and gives back what it took. *)
GiveUp(t) ==
  /\ status[t] = "waiting"
  /\ status' = [status EXCEPT ![t] = "idle"]
  /\ held' = [held EXCEPT ![t] = 0]

(* A waiting call that holds units returns a connection. *)
Connect(t) ==
  /\ status[t] = "waiting"
  /\ held[t] > 0
  /\ status' = [status EXCEPT ![t] = "connected"]
  /\ UNCHANGED held

(* The connection is dropped and its units go back to the pool. *)
Release(t) ==
  /\ status[t] = "connected"
  /\ status' = [status EXCEPT ![t] = "idle"]
  /\ held' = [held EXCEPT ![t] = 0]

Next ==
  \E t \in Tasks :
    \/ Request(t) \/ GiveUp(t) \/ Connect(t) \/ Release(t)
    \/ \E u \in Units : Take(t, u)

(* Every call that has started returns: GiveUp stays possible for as  *)
(* long as the call waits, so weak fairness forces it to end.          *)
Spec == Init /\ [][Next]_vars /\ \A t \in Tasks : WF_vars(GiveUp(t))

TypeOK ==
  /\ status \in [Tasks -> Status]
  /\ held \in [Tasks -> 0..Capacity]
  /\ InUse <= Capacity
=============================================================================
