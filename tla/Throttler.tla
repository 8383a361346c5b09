------------------------------ MODULE Throttler ------------------------------
(***************************************************************************)
(* MakeThrottledConnection::create (sqld/src/connection/mod.rs) and the    *)
(* TrackedConnection it returns.                                           *)
(*                                                                         *)
(* Each task in Tasks is one concurrent caller of create().  A call        *)
(* samples the global response-size gauge, registers in the waiters        *)
(* counter, acquires `units` permits from a FIFO semaphore (tokio's        *)
(* Semaphore is fair), re-samples the gauge and, under pressure, acquires  *)
(* a second batch of permits while holding the first, then calls the      *)
(* underlying factory.  The permits live as long as the TrackedConnection. *)
(* Both acquisitions may time out when a timeout is configured.            *)
(***************************************************************************)
EXTENDS Naturals, Sequences, FiniteSets, Functions

CONSTANTS
  Tasks,          \* concurrent callers of create()
  Concurrency,    \* permits the semaphore is created with
  MaxWaiters,     \* the waiters cap (128 in the code)
  MaxTotalSize,   \* max_total_response_size
  Sizes,          \* values the TOTAL_RESPONSE_SIZE gauge may take
  HasTimeout      \* whether `timeout` is Some(_)

ASSUME Concurrency \in Nat \ {0}
ASSUME MaxWaiters \in Nat \ {0}
ASSUME Sizes \subseteq Nat /\ Sizes # {}
ASSUME HasTimeout \in BOOLEAN

VARIABLES
  avail,     \* free permits of the semaphore
  queue,     \* FIFO of tasks blocked in acquire_many_owned
  waiters,   \* the AtomicUsize waiters counter
  pc,        \* where each call of create() is
  need,      \* permits the pending acquisition asks for
  held,      \* permits owned by the task (first permit merged with second)
  gauge      \* TOTAL_RESPONSE_SIZE, written by result builders elsewhere

vars == <<avail, queue, waiters, pc, need, held, gauge>>

(* Control points of one create() call. *)
Idle      == "idle"       \* not in create(), holding nothing
Entered   == "entered"    \* WaitersGuard created, cap not yet checked
Acquire1  == "acquire1"   \* waiting for the first permit
Granted1  == "granted1"   \* first permit obtained, about to re-sample
Acquire2  == "acquire2"   \* waiting for the pressure permit
Creating  == "creating"   \* permits held, inner factory running
Connected == "connected"  \* a TrackedConnection is alive

PC == {Idle, Entered, Acquire1, Granted1, Acquire2, Creating, Connected}

(* Calls that are between WaitersGuard::new and the return of create(). *)
InCreate == {t \in Tasks : pc[t] \in {Entered, Acquire1, Granted1, Acquire2, Creating}}

-----------------------------------------------------------------------------
(* units_to_take: the unit cost chosen from the response-size gauge. *)
UnitsToTake(size) ==
  IF size * 2 > MaxTotalSize THEN 16
  ELSE IF size * 4 > MaxTotalSize THEN 4
  ELSE 1

(* WaitersGuard drop: every return from create() decrements the counter. *)
Leave == waiters' = waiters - 1

Init ==
  /\ avail = Concurrency
  /\ queue = <<>>
  /\ waiters = 0
  /\ pc = [t \in Tasks |-> Idle]
  /\ need = [t \in Tasks |-> 0]
  /\ held = [t \in Tasks |-> 0]
  /\ gauge \in Sizes

(* create(): sample the gauge, then WaitersGuard::new (fetch_add). *)
Enter(t) ==
  /\ pc[t] = Idle
  /\ need' = [need EXCEPT ![t] = UnitsToTake(gauge)]
  /\ waiters' = waiters + 1
  /\ pc' = [pc EXCEPT ![t] = Entered]
  /\ UNCHANGED <<avail, queue, held, gauge>>

(* Mutant: the cap compared with > instead of >=. *)
CheckWaitersOffByOne(t) ==
  /\ pc[t] = Entered
  /\ IF waiters > MaxWaiters
       THEN /\ Leave
            /\ pc' = [pc EXCEPT ![t] = Idle]
            /\ need' = [need EXCEPT ![t] = 0]
            /\ UNCHANGED queue
       ELSE /\ queue' = Append(queue, t)
            /\ pc' = [pc EXCEPT ![t] = Acquire1]
            /\ UNCHANGED <<waiters, need>>
  /\ UNCHANGED <<avail, held, gauge>>

(* Mutant: the rejection returns without decrementing the counter. *)
CheckWaitersNoGuard(t) ==
  /\ pc[t] = Entered
  /\ IF waiters >= MaxWaiters
       THEN /\ pc' = [pc EXCEPT ![t] = Idle]
            /\ need' = [need EXCEPT ![t] = 0]
            /\ UNCHANGED <<queue, waiters>>
       ELSE /\ queue' = Append(queue, t)
            /\ pc' = [pc EXCEPT ![t] = Acquire1]
            /\ UNCHANGED <<waiters, need>>
  /\ UNCHANGED <<avail, held, gauge>>

(* The separate load of the counter: reject at the cap, else start *)
(* acquire_many_owned(units), which joins the semaphore's FIFO.     *)
CheckWaiters(t) ==
  /\ pc[t] = Entered
  /\ IF waiters >= MaxWaiters
       THEN /\ Leave
            /\ pc' = [pc EXCEPT ![t] = Idle]
            /\ need' = [need EXCEPT ![t] = 0]
            /\ UNCHANGED queue
       ELSE /\ queue' = Append(queue, t)
            /\ pc' = [pc EXCEPT ![t] = Acquire1]
            /\ UNCHANGED <<waiters, need>>
  /\ UNCHANGED <<avail, held, gauge>>

(* The semaphore hands `need` permits to the head of its FIFO queue. *)
Grant ==
  /\ queue # <<>>
  /\ LET t == Head(queue) IN
       /\ avail >= need[t]
       /\ avail' = avail - need[t]
       /\ held' = [held EXCEPT ![t] = @ + need[t]]
       /\ need' = [need EXCEPT ![t] = 0]
       /\ pc' = [pc EXCEPT ![t] = IF pc[t] = Acquire1 THEN Granted1 ELSE Creating]
  /\ queue' = Tail(queue)
  /\ UNCHANGED <<waiters, gauge>>

(* Re-sample the gauge; above one unit, acquire that many more permits *)
(* while still holding the first ones (they are merged on success).   *)
Resample(t) ==
  /\ pc[t] = Granted1
  /\ LET units == UnitsToTake(gauge) IN
       IF units > 1
         THEN /\ need' = [need EXCEPT ![t] = units]
              /\ queue' = Append(queue, t)
              /\ pc' = [pc EXCEPT ![t] = Acquire2]
         ELSE /\ pc' = [pc EXCEPT ![t] = Creating]
              /\ UNCHANGED <<need, queue>>
  /\ UNCHANGED <<avail, waiters, held, gauge>>

(* Mutant: only the first acquisition is bounded by the timeout. *)
TimeoutFirstOnly(t) ==
  /\ HasTimeout
  /\ pc[t] = Acquire1
  /\ queue' = SelectSeq(queue, LAMBDA x : x # t)
  /\ avail' = avail + held[t]
  /\ held' = [held EXCEPT ![t] = 0]
  /\ need' = [need EXCEPT ![t] = 0]
  /\ pc' = [pc EXCEPT ![t] = Idle]
  /\ Leave
  /\ UNCHANGED gauge

(* Mutant: a timed-out second acquisition returns while the first    *)
(* permit stays alive (it is kept outside the timed future).          *)
TimeoutKeepsPermit(t) ==
  /\ HasTimeout
  /\ pc[t] \in {Acquire1, Acquire2}
  /\ queue' = SelectSeq(queue, LAMBDA x : x # t)
  /\ need' = [need EXCEPT ![t] = 0]
  /\ pc' = [pc EXCEPT ![t] = Idle]
  /\ Leave
  /\ UNCHANGED <<avail, held, gauge>>

(* tokio::time::timeout fires on a pending acquisition: the waiter      *)
(* leaves the queue, `?` returns DbCreateTimeout, the permit already    *)
(* held (if any) is dropped and the WaitersGuard decrements.           *)
TimeoutAcquire(t) ==
  /\ HasTimeout
  /\ pc[t] \in {Acquire1, Acquire2}
  /\ queue' = SelectSeq(queue, LAMBDA x : x # t)
  /\ avail' = avail + held[t]
  /\ held' = [held EXCEPT ![t] = 0]
  /\ need' = [need EXCEPT ![t] = 0]
  /\ pc' = [pc EXCEPT ![t] = Idle]
  /\ Leave
  /\ UNCHANGED gauge

(* connection_maker.create(): success wraps the permit in a            *)
(* TrackedConnection; failure drops the permit through `?`.           *)
FactoryOk(t) ==
  /\ pc[t] = Creating
  /\ pc' = [pc EXCEPT ![t] = Connected]
  /\ Leave
  /\ UNCHANGED <<avail, queue, need, held, gauge>>

(* Mutant: the permit is kept after the factory fails. *)
FactoryErrKeepsPermit(t) ==
  /\ pc[t] = Creating
  /\ pc' = [pc EXCEPT ![t] = Idle]
  /\ held' = [held EXCEPT ![t] = 0]
  /\ Leave
  /\ UNCHANGED <<avail, queue, need, gauge>>

FactoryErr(t) ==
  /\ pc[t] = Creating
  /\ pc' = [pc EXCEPT ![t] = Idle]
  /\ avail' = avail + held[t]
  /\ held' = [held EXCEPT ![t] = 0]
  /\ Leave
  /\ UNCHANGED <<queue, need, gauge>>

(* Mutant: the connection also drops a WaitersGuard. *)
DropConnectionTwice(t) ==
  /\ pc[t] = Connected
  /\ pc' = [pc EXCEPT ![t] = Idle]
  /\ avail' = avail + held[t]
  /\ held' = [held EXCEPT ![t] = 0]
  /\ Leave
  /\ UNCHANGED <<queue, need, gauge>>

(* Dropping the TrackedConnection drops its OwnedSemaphorePermit. *)
DropConnection(t) ==
  /\ pc[t] = Connected
  /\ pc' = [pc EXCEPT ![t] = Idle]
  /\ avail' = avail + held[t]
  /\ held' = [held EXCEPT ![t] = 0]
  /\ UNCHANGED <<queue, waiters, need, gauge>>

(* Result builders elsewhere in the process move the gauge. *)
ChangeGauge ==
  /\ \E s \in Sizes \ {gauge} : gauge' = s
  /\ UNCHANGED <<avail, queue, waiters, pc, need, held>>

Next ==
  \/ ChangeGauge
  \/ Grant
  \/ \E t \in Tasks :
       \/ Enter(t) \/ CheckWaiters(t) \/ Resample(t) \/ TimeoutAcquire(t)
       \/ FactoryOk(t) \/ FactoryErr(t) \/ DropConnection(t)

(* The semaphore, the timer and the factory are driven by the runtime; *)
(* a task resumes once woken.  Only the gauge and the lifetime of a    *)
(* connection are up to the rest of the system.                        *)
Fairness ==
  /\ WF_vars(Grant)
  /\ \A t \in Tasks :
       /\ WF_vars(CheckWaiters(t))
       /\ WF_vars(Resample(t))
       /\ WF_vars(TimeoutAcquire(t))
       /\ WF_vars(FactoryOk(t) \/ FactoryErr(t))

Spec == Init /\ [][Next]_vars /\ Fairness

(* The refinement mapping: a call inside create() is waiting, a live   *)
(* TrackedConnection is connected, and the permits are the units.       *)
AbstractStatus ==
  [t \in Tasks |-> CASE pc[t] = Idle -> "idle"
                    [] pc[t] = Connected -> "connected"
                    [] OTHER -> "waiting"]

Admission == INSTANCE AdmissionControl
               WITH Capacity <- Concurrency, Units <- {1, 4, 16},
                    status <- AbstractStatus, held <- held

(* Connections are eventually dropped by their users. *)
FairDrop == \A t \in Tasks : WF_vars(DropConnection(t))

SpecDrop == Spec /\ FairDrop

-----------------------------------------------------------------------------
TypeOK ==
  /\ avail \in 0..Concurrency
  /\ queue \in Seq(Tasks)
  /\ waiters \in 0..Cardinality(Tasks)
  /\ pc \in [Tasks -> PC]
  /\ need \in [Tasks -> {0, 1, 4, 16}]
  /\ held \in [Tasks -> 0..Concurrency]
  /\ gauge \in Sizes

(* Every permit is either free or owned by exactly one call or          *)
(* connection: no path of create() (reject, timeout of either           *)
(* acquisition, factory error) loses or duplicates permits.             *)
PermitsConserved ==
  avail + SumFunction(held) = Concurrency

(* The waiters counter equals the number of calls inside create(): the *)
(* WaitersGuard is decremented on every way out of create().            *)
WaitersCounted ==
  waiters = Cardinality(InCreate)

(* Even when several calls increment and load the counter in between  *)
(* each other, fewer than MaxWaiters calls get past the cap.           *)
WaitersCapped ==
  Cardinality({t \in Tasks : pc[t] \in {Acquire1, Granted1, Acquire2, Creating}})
    < MaxWaiters

(* Every call of create() eventually returns, with a connection or an  *)
(* error.                                                               *)
CreateReturns ==
  \A t \in Tasks : pc[t] = Entered ~> pc[t] \in {Idle, Connected}

(* create() implements the admission promise: every step is a request, *)
(* a batch of permits taken from the pool, a return with nothing, a     *)
(* return with a connection holding permits, or a drop that gives all   *)
(* of them back, and every call that starts returns.                    *)
AdmissionRefined == Admission!Spec
=============================================================================
