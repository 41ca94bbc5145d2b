------------------------------- MODULE Outbox -------------------------------
(***************************************************************************)
(* The transactional outbox (outbox/): applications add event rows in their *)
(* own transactions, and any number of drainers (one per replica) turn      *)
(* pending rows into River jobs.  A drain is ONE PostgreSQL transaction: it *)
(* locks a batch with FOR UPDATE SKIP LOCKED, inserts each job, marks each  *)
(* row and commits.  A drain may fail, time out, lose its connection or die *)
(* with its process between any two steps.                                  *)
(*                                                                          *)
(* Time is relative to "now": nextAttempt[e] is next_attempt_at - now(), so *)
(* a row is due when it is at most 0.  A tick lowers every offset by one;   *)
(* beyond the age of the oldest possible transaction only the order of the  *)
(* offsets matters, so Compact closes the gaps between them.                *)
(***************************************************************************)
EXTENDS Integers, FiniteSets

CONSTANTS
    Events,        \* row ids of golusoris_outbox (BIGSERIAL)
    Drainers,      \* replicas that run the drainer
    Batch,         \* DrainerOptions.Batch
    RetryDelay,    \* DrainerOptions.RetryDelay, in ticks
    DrainTimeout,  \* DrainerOptions.DrainTimeout, in ticks
    Poison,        \* events whose dispatch always fails
    Dropped,       \* events for which the dispatcher returns nil arguments
    MaxFaults      \* bound: failures of the environment in one behaviour

ASSUME OutboxAssumption ==
    /\ Events \subseteq Nat
    /\ IsFiniteSet(Events)
    /\ Batch \in Nat \ {0}
    /\ RetryDelay \in Nat \ {0}
    /\ DrainTimeout \in Nat \ {0}
    /\ Poison \subseteq Events
    /\ Dropped \subseteq Events
    /\ Poison \cap Dropped = {}
    /\ MaxFaults \in Nat

VARIABLES
    row,          \* what the table holds for an id
    nextAttempt,  \* next_attempt_at relative to now
    jobs,         \* River jobs committed for an event
    marked,       \* events the application marked dispatched itself
    run,          \* lifecycle of the goroutine started by OnStart
    pc,           \* where the drain of a drainer is
    started,      \* now() of the drain's transaction, relative to now
    todo,         \* rows of the batch not yet handed to dispatchOne
    fate,         \* uncommitted outcome the transaction recorded for a row
    orphans,      \* rows still locked by connections whose client is gone
    faults        \* faults so far

dbVars == <<row, nextAttempt, jobs, marked>>
txVars == <<pc, started, todo, fate>>
vars == <<row, nextAttempt, jobs, marked, run, pc, started, todo, fate, orphans, faults>>

RowStates == {"absent", "adding", "pending", "dispatched"}
Fates == {"none", "job", "dropped", "failed"}

NoFate == [e \in Events |-> "none"]

(***************************************************************************)
(* Rows a drain transaction holds locks on: its whole batch.               *)
(***************************************************************************)
Locked(d) == todo[d] \cup {e \in Events : fate[d][e] # "none"}

Unlocked(e) == e \notin orphans /\ \A d \in Drainers : e \notin Locked(d)

InTx(d) == pc[d] # "idle"

Fault == faults < MaxFaults /\ faults' = faults + 1

TypeOK ==
    /\ row \in [Events -> RowStates]
    /\ nextAttempt \in [Events -> Int]
    /\ jobs \in [Events -> Nat]
    /\ marked \subseteq Events
    /\ run \in [Drainers -> {"off", "on", "stopping"}]
    /\ pc \in [Drainers -> {"idle", "begun", "loop"}]
    /\ started \in [Drainers -> Int]
    /\ todo \in [Drainers -> SUBSET Events]
    /\ fate \in [Drainers -> [Events -> Fates]]
    /\ orphans \subseteq Events
    /\ faults \in Nat

Init ==
    /\ row = [e \in Events |-> "absent"]
    /\ nextAttempt = [e \in Events |-> 0]
    /\ jobs = [e \in Events |-> 0]
    /\ marked = {}
    /\ run = [d \in Drainers |-> "off"]
    /\ pc = [d \in Drainers |-> "idle"]
    /\ started = [d \in Drainers |-> 0]
    /\ todo = [d \in Drainers |-> {}]
    /\ fate = [d \in Drainers |-> NoFate]
    /\ orphans = {}
    /\ faults = 0

-----------------------------------------------------------------------------
(***************************************************************************)
(* The application's side.                                                  *)
(***************************************************************************)
\* AddEvent inside the application's transaction; next_attempt_at defaults to
\* now().  A validation or insert error leaves the row absent.
AddEvent(e) ==
    /\ row[e] = "absent"
    /\ row' = [row EXCEPT ![e] = "adding"]
    /\ nextAttempt' = [nextAttempt EXCEPT ![e] = 0]
    /\ UNCHANGED <<jobs, marked, run, txVars, orphans, faults>>

\* The application's transaction commits or rolls back.
AppTxEnds(e) ==
    /\ row[e] = "adding"
    /\ \E s \in {"pending", "absent"} : row' = [row EXCEPT ![e] = s]
    /\ UNCHANGED <<nextAttempt, jobs, marked, run, txVars, orphans, faults>>

\* MarkDispatched on the pool: one UPDATE by id, which waits for the row lock.
\* An application that dispatches an event on its own calls it.
MarkDispatched(e) ==
    /\ row[e] \in {"pending", "dispatched"}
    /\ Unlocked(e)
    /\ row' = [row EXCEPT ![e] = "dispatched"]
    /\ marked' = marked \cup {e}
    /\ UNCHANGED <<nextAttempt, jobs, run, txVars, orphans, faults>>

\* MarkFailed on the pool.  It does not look at dispatched_at.
MarkFailed(e) ==
    /\ row[e] \in {"pending", "dispatched"}
    /\ Unlocked(e)
    /\ nextAttempt' = [nextAttempt EXCEPT ![e] = RetryDelay]
    /\ Fault
    /\ UNCHANGED <<row, jobs, marked, run, txVars, orphans>>

-----------------------------------------------------------------------------
(***************************************************************************)
(* The drainer's lifecycle (Module, Run).                                   *)
(***************************************************************************)
OnStart(d) ==
    /\ run[d] = "off"
    /\ run' = [run EXCEPT ![d] = "on"]
    /\ UNCHANGED <<dbVars, txVars, orphans, faults>>

OnStop(d) ==
    /\ run[d] = "on"
    /\ run' = [run EXCEPT ![d] = "stopping"]
    /\ Fault
    /\ UNCHANGED <<dbVars, txVars, orphans>>

\* Run sees the cancelled context between two drains and returns.
RunReturns(d) ==
    /\ run[d] = "stopping"
    /\ ~InTx(d)
    /\ run' = [run EXCEPT ![d] = "off"]
    /\ UNCHANGED <<dbVars, txVars, orphans, faults>>

-----------------------------------------------------------------------------
(***************************************************************************)
(* One drain.                                                               *)
(***************************************************************************)
Begin(d) ==
    /\ run[d] = "on"
    /\ ~InTx(d)
    /\ pc' = [pc EXCEPT ![d] = "begun"]
    /\ started' = [started EXCEPT ![d] = 0]
    /\ UNCHANGED <<dbVars, run, todo, fate, orphans, faults>>

\* ORDER BY next_attempt_at, id
BeforeMutIdOnly(e, f) == e < f
Before(e, f) ==
    \/ nextAttempt[e] < nextAttempt[f]
    \/ nextAttempt[e] = nextAttempt[f] /\ e < f

\* dispatched_at IS NULL AND next_attempt_at <= now(), where now() is the time
\* the transaction began; SKIP LOCKED passes over other transactions' rows.
DueMutNoLock(d, e) == row[e] = "pending" /\ nextAttempt[e] <= started[d]
Due(d, e) ==
    /\ row[e] = "pending"
    /\ nextAttempt[e] <= started[d]
    /\ Unlocked(e)

QueryPending(d) ==
    /\ pc[d] = "begun"
    /\ LET due == {e \in Events : Due(d, e)} IN
       \E batch \in SUBSET due :
          /\ Cardinality(batch) <= Batch
          /\ Cardinality(batch) < Batch => batch = due
          /\ \A e \in batch, f \in due \ batch : Before(e, f)
          /\ todo' = [todo EXCEPT ![d] = batch]
    /\ pc' = [pc EXCEPT ![d] = "loop"]
    /\ UNCHANGED <<dbVars, run, started, fate, orphans, faults>>

\* The event the loop over the batch has reached.
Current(d, e) ==
    /\ pc[d] = "loop"
    /\ e \in todo[d]
    /\ \A f \in todo[d] \ {e} : Before(e, f)

Record(d, e, f) ==
    /\ todo' = [todo EXCEPT ![d] = @ \ {e}]
    /\ fate' = [fate EXCEPT ![d][e] = f]
    /\ UNCHANGED <<dbVars, run, pc, started, orphans>>

\* dispatchOne returned nil and markDispatched updated the row: the job was
\* inserted under its savepoint, or the dispatcher dropped the event.
DispatchOK(d, e) ==
    /\ Current(d, e)
    /\ e \notin Poison
    /\ Record(d, e, IF e \in Dropped THEN "dropped" ELSE "job")
    /\ UNCHANGED faults

\* dispatchOne returned an error, the savepoint was rolled back and markFailed
\* updated the row.
DispatchFailed(d, e) ==
    /\ Current(d, e)
    /\ Record(d, e, "failed")
    /\ IF e \in Poison THEN UNCHANGED faults ELSE Fault

EndTx(d) ==
    /\ pc' = [pc EXCEPT ![d] = "idle"]
    /\ started' = [started EXCEPT ![d] = 0]
    /\ todo' = [todo EXCEPT ![d] = {}]
    /\ fate' = [fate EXCEPT ![d] = NoFate]

\* tx.Commit: every recorded outcome becomes visible at once.  Whether the
\* client then sees success or an error makes no difference: the next drain
\* starts from the table.
CommitMutMarksLater(d) ==
    /\ pc[d] = "loop"
    /\ todo[d] = {}
    /\ row' = [e \in Events |-> IF fate[d][e] = "dropped" THEN "dispatched" ELSE row[e]]
    /\ jobs' = [e \in Events |-> IF fate[d][e] = "job" THEN jobs[e] + 1 ELSE jobs[e]]
    /\ nextAttempt' = [e \in Events |->
                 IF fate[d][e] = "failed" THEN started[d] + RetryDelay ELSE nextAttempt[e]]
    /\ EndTx(d)
    /\ UNCHANGED <<marked, run, orphans, faults>>
Commit(d) ==
    /\ pc[d] = "loop"
    /\ todo[d] = {}
    /\ row' = [e \in Events |->
                 IF fate[d][e] \in {"job", "dropped"} THEN "dispatched" ELSE row[e]]
    /\ jobs' = [e \in Events |-> IF fate[d][e] = "job" THEN jobs[e] + 1 ELSE jobs[e]]
    /\ nextAttempt' = [e \in Events |->
                 IF fate[d][e] = "failed" THEN started[d] + RetryDelay ELSE nextAttempt[e]]
    /\ EndTx(d)
    /\ UNCHANGED <<marked, run, orphans, faults>>

\* An error return (query, mark, commit), the DrainTimeout or a cancelled
\* context: the deferred rollback ends the transaction and frees its locks.
RollbackMutKeepsJobs(d) ==
    /\ InTx(d)
    /\ EndTx(d)
    /\ jobs' = [e \in Events |-> IF fate[d][e] = "job" THEN jobs[e] + 1 ELSE jobs[e]]
    /\ Fault
    /\ UNCHANGED <<row, nextAttempt, marked, run, orphans>>
Rollback(d) ==
    /\ InTx(d)
    /\ EndTx(d)
    /\ Fault
    /\ UNCHANGED <<dbVars, run, orphans>>

\* The connection is lost, or the process dies with it: nobody rolls back, and
\* the server keeps the locks until it notices.
ConnectionLost(d) ==
    /\ InTx(d)
    /\ EndTx(d)
    /\ orphans' = orphans \cup Locked(d)
    /\ \E r \in {run[d], "off"} : run' = [run EXCEPT ![d] = r]
    /\ Fault
    /\ UNCHANGED dbVars

\* The server aborts the transactions of the lost connections.
ServerReaps ==
    /\ orphans # {}
    /\ orphans' = {}
    /\ UNCHANGED <<dbVars, run, txVars, faults>>

\* Offsets below -DrainTimeout are renumbered without gaps: their order, their
\* ties and being due for every open transaction are kept.
Compact(t) ==
    [e \in Events |->
        IF t[e] >= -DrainTimeout THEN t[e]
        ELSE -DrainTimeout - 1
             - Cardinality({t[f] : f \in {x \in Events : t[e] < t[x] /\ t[x] < -DrainTimeout}})]

\* One unit of time.  A transaction that reached DrainTimeout ends first.  The
\* offset of a row that is not waiting is never read again.
Tick ==
    /\ \A d \in Drainers : InTx(d) => started[d] > -DrainTimeout
    /\ nextAttempt' = Compact([e \in Events |->
                         IF row[e] \in {"adding", "pending"} THEN nextAttempt[e] - 1 ELSE 0])
    /\ started' = [d \in Drainers |-> IF InTx(d) THEN started[d] - 1 ELSE started[d]]
    /\ UNCHANGED <<row, jobs, marked, run, pc, todo, fate, orphans, faults>>

App(e) == AddEvent(e) \/ AppTxEnds(e) \/ MarkDispatched(e) \/ MarkFailed(e)

Drain(d) ==
    \/ Begin(d)
    \/ QueryPending(d)
    \/ \E e \in Events : DispatchOK(d, e) \/ DispatchFailed(d, e)
    \/ Commit(d)

Next ==
    \/ \E e \in Events : App(e)
    \/ \E d \in Drainers : OnStart(d) \/ OnStop(d) \/ RunReturns(d)
    \/ \E d \in Drainers : Drain(d) \/ Rollback(d) \/ ConnectionLost(d)
    \/ ServerReaps
    \/ Tick

Spec == Init /\ [][Next]_vars

\* A running drainer keeps polling (Run's loop), a stopped replica is started
\* again, the server detects dead connections and time passes.  Faults are not
\* fair: there are at most MaxFaults of them.
Replica(d) == OnStart(d) \/ Drain(d) \/ RunReturns(d)

FairSpec ==
    /\ Spec
    /\ \A d \in Drainers : WF_vars(Replica(d))
    /\ WF_vars(ServerReaps) /\ WF_vars(Tick)

-----------------------------------------------------------------------------
\* An event is handed to River at most once, whatever drainers, rollbacks, lost
\* connections and restarts do (drain: insert and mark commit together).
AtMostOneJob == \A e \in Events : jobs[e] <= 1

\* Insertion and marking are atomic: a job exists only for a row that is marked
\* dispatched, and a marked row has its job unless the dispatcher dropped the
\* event or the application marked it itself.
JobsMatchRows ==
    \A e \in Events :
        /\ jobs[e] > 0 => row[e] = "dispatched"
        /\ row[e] = "dispatched" => jobs[e] > 0 \/ e \in Dropped \/ e \in marked

\* FOR UPDATE SKIP LOCKED partitions the pending rows: no row is in the batches
\* of two drains, nor in a batch while a dead connection still locks it, and
\* what a batch holds stays pending until its transaction ends.
BatchesPartitionPending ==
    /\ \A d1, d2 \in Drainers : d1 # d2 => Locked(d1) \cap Locked(d2) = {}
    /\ \A d \in Drainers : Locked(d) \cap orphans = {}
    /\ \A d \in Drainers : \A e \in Locked(d) : row[e] = "pending"

\* "either the event is committed (and will be dispatched eventually)": a stored
\* event is dispatched in the end, even when as many events as a batch holds
\* fail forever, because a failed row goes behind the due ones.
StoredIsDispatched ==
    \A e \in Events \ Poison : row[e] = "pending" ~> row[e] = "dispatched"

-----------------------------------------------------------------------------
\* What the outbox promises, with no drains in it (see OutboxPromise).
Promise == INSTANCE OutboxPromise WITH
    status <- [e \in Events |->
                 CASE row[e] \in {"absent", "adding"} -> "none"
                   [] row[e] = "pending" -> "stored"
                   [] row[e] = "dispatched" -> "done"],
    queued <- {e \in Events : jobs[e] > 0}

\* Every step of the outbox is a step of OutboxPromise: an event becomes
\* dispatched and gets its job in one step, never loses either, and a batch
\* commits as a whole.
ImplementsPromise == Promise!Spec
=============================================================================
