---------------------------- MODULE OutboxProofs ----------------------------
(***************************************************************************)
(* Proofs about Outbox, for any finite set of events, any set of drainers,  *)
(* every batch size, delay and number of faults.                            *)
(***************************************************************************)
EXTENDS Outbox, FiniteSetTheorems, TLAPS

\* The inductive invariant.  A drop recorded in a transaction is a drop the
\* dispatcher asked for; with the locks partitioning the pending rows, a
\* commit then turns pending rows only, and each of them once.
IInv ==
    /\ BatchesPartitionPending
    /\ JobsMatchRows
    /\ AtMostOneJob
    /\ \A d \in Drainers, e \in Events : fate[d][e] = "dropped" => e \in Dropped

\* Compact returns an integer offset for every row.
LEMMA CompactType ==
    ASSUME NEW t \in [Events -> Int]
    PROVE  Compact(t) \in [Events -> Int]
<1> SUFFICES ASSUME NEW e \in Events
             PROVE  Cardinality({t[f] : f \in {x \in Events : t[e] < t[x] /\ t[x] < -DrainTimeout}}) \in Nat
    BY OutboxAssumption DEF Compact
<1> DEFINE S == {x \in Events : t[e] < t[x] /\ t[x] < -DrainTimeout}
           T == {t[f] : f \in S}
           g == [f \in S |-> t[f]]
<1>1. IsFiniteSet(S)
    BY OutboxAssumption, FS_Subset
<1>2. g \in Surjection(S, T)
    BY DEF Surjection
<1>3. IsFiniteSet(T)
    BY <1>1, <1>2, FS_Surjection
<1> QED
    BY <1>3, FS_CardinalityType

\* A transaction that ends leaves no lock of its own, and no other drainer's.
LEMMA EndTxLocks ==
    ASSUME TypeOK, NEW d \in Drainers, EndTx(d)
    PROVE  /\ pc' \in [Drainers -> {"idle", "begun", "loop"}]
           /\ started' \in [Drainers -> Int]
           /\ todo' \in [Drainers -> SUBSET Events]
           /\ fate' \in [Drainers -> [Events -> Fates]]
           /\ Locked(d)' = {}
           /\ \A c \in Drainers \ {d} : Locked(c)' = Locked(c) /\ fate'[c] = fate[c]
           /\ fate'[d] = NoFate
<1>1. NoFate \in [Events -> Fates]
    BY DEF NoFate, Fates
<1> QED
    BY <1>1 DEF TypeOK, EndTx, Locked, NoFate

\* Recording an outcome moves a row from todo to fate and changes no lock.
LEMMA RecordLocks ==
    ASSUME TypeOK, NEW d \in Drainers, NEW e \in Events, NEW f \in Fates \ {"none"},
           e \in todo[d], Record(d, e, f)
    PROVE  /\ todo' \in [Drainers -> SUBSET Events]
           /\ fate' \in [Drainers -> [Events -> Fates]]
           /\ \A c \in Drainers : Locked(c)' = Locked(c)
           /\ fate'[d] = [fate[d] EXCEPT ![e] = f]
           /\ \A c \in Drainers \ {d} : fate'[c] = fate[c]
<1> USE DEF TypeOK, Record
<1>1. fate[d] \in [Events -> Fates]
    OBVIOUS
<1>2. fate' = [fate EXCEPT ![d] = [fate[d] EXCEPT ![e] = f]]
    OBVIOUS
<1>3. /\ fate'[d] = [fate[d] EXCEPT ![e] = f]
      /\ \A c \in Drainers \ {d} : fate'[c] = fate[c] /\ todo'[c] = todo[c]
      /\ todo'[d] = todo[d] \ {e}
    BY <1>2
<1>4. Locked(d)' = Locked(d)
    BY <1>1, <1>3 DEF Locked
<1>5. \A c \in Drainers \ {d} : Locked(c)' = Locked(c)
    BY <1>3 DEF Locked
<1>6. [fate[d] EXCEPT ![e] = f] \in [Events -> Fates]
    BY <1>1
<1>7. fate' \in [Drainers -> [Events -> Fates]]
    BY <1>2, <1>6
<1> QED
    BY <1>3, <1>4, <1>5, <1>7

\* The type invariant of the outbox: every row, batch, recorded outcome and
\* counter keeps its range through every step of the application, the drainers
\* and the database.
THEOREM TypeCorrect == Spec => []TypeOK
<1>1. Init => TypeOK
    BY DEF Init, TypeOK, RowStates, Fates, NoFate
<1>2. TypeOK /\ [Next]_vars => TypeOK'
  <2> SUFFICES ASSUME TypeOK, [Next]_vars PROVE TypeOK'
    OBVIOUS
  <2>1. ASSUME NEW e \in Events, App(e) PROVE TypeOK'
    <3>1. CASE AddEvent(e)
      BY <3>1 DEF TypeOK, AddEvent, txVars, RowStates
    <3>2. CASE AppTxEnds(e)
      BY <3>2 DEF TypeOK, AppTxEnds, txVars, RowStates
    <3>3. CASE MarkDispatched(e)
      BY <3>3 DEF TypeOK, MarkDispatched, txVars, RowStates
    <3>4. CASE MarkFailed(e)
      BY <3>4, OutboxAssumption DEF TypeOK, MarkFailed, Fault, txVars
    <3> QED
      BY <2>1, <3>1, <3>2, <3>3, <3>4 DEF App
  <2>2. ASSUME NEW d \in Drainers, OnStart(d) \/ OnStop(d) \/ RunReturns(d) PROVE TypeOK'
    <3>1. CASE OnStart(d)
      BY <3>1 DEF TypeOK, OnStart, dbVars, txVars
    <3>2. CASE OnStop(d)
      BY <3>2 DEF TypeOK, OnStop, Fault, dbVars, txVars
    <3>3. CASE RunReturns(d)
      BY <3>3 DEF TypeOK, RunReturns, dbVars, txVars
    <3> QED
      BY <2>2, <3>1, <3>2, <3>3
  <2>3. ASSUME NEW d \in Drainers, Begin(d) PROVE TypeOK'
    BY <2>3 DEF TypeOK, Begin, dbVars
  <2>4. ASSUME NEW d \in Drainers, QueryPending(d) PROVE TypeOK'
    <3>1. todo' \in [Drainers -> SUBSET Events]
      BY <2>4 DEF TypeOK, QueryPending
    <3> QED
      BY <2>4, <3>1 DEF TypeOK, QueryPending, dbVars
  <2>5. ASSUME NEW d \in Drainers, NEW e \in Events, DispatchOK(d, e) \/ DispatchFailed(d, e)
        PROVE  TypeOK'
    <3>1. PICK f \in Fates \ {"none"} : Record(d, e, f)
      BY <2>5 DEF DispatchOK, DispatchFailed, Fates
    <3>2. e \in todo[d]
      BY <2>5 DEF DispatchOK, DispatchFailed, Current
    <3>3. faults' \in Nat
      BY <2>5 DEF TypeOK, DispatchOK, DispatchFailed, Fault
    <3> QED
      BY <3>1, <3>2, <3>3, RecordLocks DEF TypeOK, Record, dbVars
  <2>6. ASSUME NEW d \in Drainers, Commit(d) \/ Rollback(d) \/ ConnectionLost(d) PROVE TypeOK'
    <3>1. EndTx(d)
      BY <2>6 DEF Commit, Rollback, ConnectionLost
    <3>2. CASE Commit(d)
      BY <3>1, <3>2, EndTxLocks, OutboxAssumption DEF TypeOK, Commit, RowStates
    <3>3. CASE Rollback(d)
      BY <3>1, <3>3, EndTxLocks DEF TypeOK, Rollback, Fault, dbVars
    <3>4. CASE ConnectionLost(d)
      <4>1. orphans' \subseteq Events
        BY <3>4 DEF TypeOK, ConnectionLost, Locked
      <4>2. run' \in [Drainers -> {"off", "on", "stopping"}]
        BY <3>4 DEF TypeOK, ConnectionLost
      <4> QED
        BY <3>1, <3>4, <4>1, <4>2, EndTxLocks DEF TypeOK, ConnectionLost, Fault, dbVars
    <3> QED
      BY <2>6, <3>2, <3>3, <3>4
  <2>7. CASE ServerReaps
    BY <2>7 DEF TypeOK, ServerReaps, dbVars, txVars
  <2>8. CASE Tick
    <3> DEFINE t == [e \in Events |->
                       IF row[e] \in {"adding", "pending"} THEN nextAttempt[e] - 1 ELSE 0]
    <3>1. t \in [Events -> Int]
      BY DEF TypeOK
    <3>2. nextAttempt' \in [Events -> Int]
      BY <3>1, <2>8, CompactType DEF Tick
    <3>3. started' \in [Drainers -> Int]
      BY <2>8 DEF TypeOK, Tick
    <3> QED
      BY <2>8, <3>2, <3>3 DEF TypeOK, Tick
  <2>9. CASE UNCHANGED vars
    BY <2>9 DEF TypeOK, vars
  <2> QED
    BY <2>1, <2>2, <2>3, <2>4, <2>5, <2>6, <2>7, <2>8, <2>9 DEF Next, Drain
<1> QED
    BY <1>1, <1>2, PTL DEF Spec

-----------------------------------------------------------------------------
\* A step that keeps every lock, every transaction's outcomes and every row, job
\* and mark keeps the invariant.
LEMMA IInvUnchanged ==
    ASSUME IInv, UNCHANGED <<row, jobs, todo, fate, orphans, marked>>
    PROVE  IInv'
BY DEF IInv, BatchesPartitionPending, JobsMatchRows, AtMostOneJob, Locked

\* The inductive invariant: every step of the application, of a drain and of the
\* database keeps the batches apart and jobs and marks together.
LEMMA OutboxInductive == Spec => []IInv
<1>1. Init => IInv
    BY DEF Init, IInv, BatchesPartitionPending, JobsMatchRows, AtMostOneJob, Locked, NoFate
<1>2. TypeOK /\ IInv /\ [Next]_vars => IInv'
  <2> SUFFICES ASSUME TypeOK, IInv, [Next]_vars PROVE IInv'
    OBVIOUS
  <2> USE DEF IInv
  <2>1. ASSUME NEW e \in Events, App(e) PROVE IInv'
    <3>1. CASE AddEvent(e) \/ AppTxEnds(e) \/ MarkDispatched(e)
      <4>1. \A d \in Drainers : Locked(d)' = Locked(d)
        BY <3>1 DEF AddEvent, AppTxEnds, MarkDispatched, txVars, Locked
      <4>2. \A d \in Drainers : e \notin Locked(d)
        BY <3>1 DEF AddEvent, AppTxEnds, MarkDispatched, Unlocked, BatchesPartitionPending
      <4>3. orphans' = orphans /\ \A x \in Events \ {e} : row'[x] = row[x]
        BY <3>1 DEF AddEvent, AppTxEnds, MarkDispatched, TypeOK
      <4>4. \A d \in Drainers : Locked(d) \subseteq Events \ {e}
        BY <4>2 DEF Locked, TypeOK
      <4>5. BatchesPartitionPending'
        BY <4>1, <4>3, <4>4 DEF BatchesPartitionPending
      <4>6. JobsMatchRows' /\ AtMostOneJob'
        BY <3>1 DEF AddEvent, AppTxEnds, MarkDispatched, JobsMatchRows, AtMostOneJob, TypeOK
      <4> QED
        BY <3>1, <4>5, <4>6 DEF AddEvent, AppTxEnds, MarkDispatched, txVars
    <3>2. CASE MarkFailed(e)
      BY <3>2, IInvUnchanged DEF MarkFailed, txVars
    <3> QED
      BY <2>1, <3>1, <3>2 DEF App
  <2>2. ASSUME NEW d \in Drainers, OnStart(d) \/ OnStop(d) \/ RunReturns(d) \/ Begin(d)
        PROVE  IInv'
    BY <2>2, IInvUnchanged DEF OnStart, OnStop, RunReturns, Begin, dbVars, txVars
  <2>3. ASSUME NEW d \in Drainers, QueryPending(d) PROVE IInv'
    <3>1. PICK batch \in SUBSET {e \in Events : Due(d, e)} : todo' = [todo EXCEPT ![d] = batch]
      BY <2>3, Zenon DEF QueryPending
    <3>2. \A e \in batch : row[e] = "pending" /\ Unlocked(e)
      BY DEF Due
    <3>3. /\ Locked(d)' \subseteq Locked(d) \cup batch
          /\ \A c \in Drainers \ {d} : Locked(c)' = Locked(c)
      BY <2>3, <3>1 DEF QueryPending, Locked, TypeOK
    <3>4. BatchesPartitionPending'
      BY <2>3, <3>2, <3>3 DEF QueryPending, BatchesPartitionPending, Unlocked, dbVars
    <3>5. JobsMatchRows' /\ AtMostOneJob'
      BY <2>3 DEF QueryPending, JobsMatchRows, AtMostOneJob, dbVars
    <3> QED
      BY <2>3, <3>4, <3>5 DEF QueryPending
  <2>4. ASSUME NEW d \in Drainers, NEW e \in Events, DispatchOK(d, e) \/ DispatchFailed(d, e)
        PROVE  IInv'
    <3>1. PICK f \in Fates \ {"none"} : Record(d, e, f) /\ (f = "dropped" => e \in Dropped)
      BY <2>4 DEF DispatchOK, DispatchFailed, Fates
    <3>2. e \in todo[d]
      BY <2>4 DEF DispatchOK, DispatchFailed, Current
    <3>3. /\ \A c \in Drainers : Locked(c)' = Locked(c)
          /\ fate'[d] = [fate[d] EXCEPT ![e] = f]
          /\ \A c \in Drainers \ {d} : fate'[c] = fate[c]
      BY <3>1, <3>2, RecordLocks
    <3>4. fate[d] \in [Events -> Fates]
      BY DEF TypeOK
    <3>5. \A c \in Drainers, x \in Events : fate'[c][x] = "dropped" => x \in Dropped
      BY <3>1, <3>3, <3>4
    <3>6. BatchesPartitionPending' /\ JobsMatchRows' /\ AtMostOneJob'
      BY <3>1, <3>3
         DEF Record, dbVars, BatchesPartitionPending, JobsMatchRows, AtMostOneJob
    <3> QED
      BY <3>5, <3>6
  <2>5. ASSUME NEW d \in Drainers, Commit(d) \/ Rollback(d) \/ ConnectionLost(d) PROVE IInv'
    <3>1. EndTx(d)
      BY <2>5 DEF Commit, Rollback, ConnectionLost
    <3>2. /\ Locked(d)' = {}
          /\ \A c \in Drainers \ {d} : Locked(c)' = Locked(c) /\ fate'[c] = fate[c]
          /\ fate'[d] = NoFate
      BY <3>1, EndTxLocks
    <3>3. \A c \in Drainers, x \in Events : fate'[c][x] = "dropped" => x \in Dropped
      BY <3>2 DEF NoFate
    <3>4. CASE Commit(d)
      <4>1. \A x \in Events : fate[d][x] \in {"job", "dropped"} => x \in Locked(d) /\ row[x] = "pending"
        BY DEF Locked, BatchesPartitionPending
      <4>2. \A x \in Events : row'[x] = IF fate[d][x] \in {"job", "dropped"} THEN "dispatched" ELSE row[x]
        BY <3>4 DEF Commit
      <4>3. \A x \in Events : jobs'[x] = IF fate[d][x] = "job" THEN jobs[x] + 1 ELSE jobs[x]
        BY <3>4 DEF Commit
      <4>4. \A c \in Drainers \ {d} : \A x \in Locked(c) : x \in Events /\ row'[x] = row[x]
        BY <4>1, <4>2 DEF BatchesPartitionPending, Locked, TypeOK
      <4>5. BatchesPartitionPending'
        BY <3>2, <3>4, <4>4 DEF Commit, BatchesPartitionPending
      <4>6. JobsMatchRows' /\ AtMostOneJob'
        <5> SUFFICES ASSUME NEW x \in Events
                     PROVE  /\ jobs'[x] > 0 => row'[x] = "dispatched"
                            /\ row'[x] = "dispatched" => jobs'[x] > 0 \/ x \in Dropped \/ x \in marked'
                            /\ jobs'[x] <= 1
          BY DEF JobsMatchRows, AtMostOneJob
        <5>1. jobs[x] \in Nat /\ marked' = marked
          BY <3>4 DEF TypeOK, Commit
        <5>2. CASE fate[d][x] = "job"
          BY <4>1, <4>2, <4>3, <5>1, <5>2 DEF JobsMatchRows
        <5>3. CASE fate[d][x] = "dropped"
          BY <4>1, <4>2, <4>3, <5>1, <5>3 DEF JobsMatchRows, AtMostOneJob
        <5>4. CASE fate[d][x] \notin {"job", "dropped"}
          BY <4>2, <4>3, <5>1, <5>4 DEF JobsMatchRows, AtMostOneJob
        <5> QED
          BY <5>2, <5>3, <5>4
      <4> QED
        BY <3>3, <4>5, <4>6
    <3>5. CASE Rollback(d) \/ ConnectionLost(d)
      <4>1. BatchesPartitionPending'
        BY <3>2, <3>5 DEF Rollback, ConnectionLost, dbVars, BatchesPartitionPending
      <4>2. JobsMatchRows' /\ AtMostOneJob'
        BY <3>5 DEF Rollback, ConnectionLost, dbVars, JobsMatchRows, AtMostOneJob
      <4> QED
        BY <3>3, <4>1, <4>2
    <3> QED
      BY <2>5, <3>4, <3>5
  <2>6. CASE ServerReaps
    BY <2>6 DEF ServerReaps, dbVars, txVars, BatchesPartitionPending, JobsMatchRows, AtMostOneJob, Locked
  <2>7. CASE Tick \/ UNCHANGED vars
    BY <2>7, IInvUnchanged, Zenon DEF Tick, vars
  <2> QED
    BY <2>1, <2>2, <2>3, <2>4, <2>5, <2>6, <2>7 DEF Next, Drain
<1> QED
    BY <1>1, <1>2, TypeCorrect, PTL DEF Spec

\* No event ever gets two jobs, however drains, retries and lost connections
\* interleave (Drainer.drain, Drainer.dispatchOne).
THEOREM OutboxAtMostOneJob == Spec => []AtMostOneJob
<1>1. IInv => AtMostOneJob
    BY DEF IInv
<1> QED
    BY <1>1, OutboxInductive, PTL

\* A job and the dispatched mark of its row become visible together: the drain
\* commits both or neither.
THEOREM OutboxJobsMatchRows == Spec => []JobsMatchRows
<1>1. IInv => JobsMatchRows
    BY DEF IInv
<1> QED
    BY <1>1, OutboxInductive, PTL

\* Concurrent drains never share a row (FOR UPDATE SKIP LOCKED), and a batch
\* holds pending rows only.
THEOREM OutboxBatchesPartition == Spec => []BatchesPartitionPending
<1>1. IInv => BatchesPartitionPending
    BY DEF IInv
<1> QED
    BY <1>1, OutboxInductive, PTL

-----------------------------------------------------------------------------
(***************************************************************************)
(* The refinement: Status and Queued are what the mapping of Promise gives  *)
(* to OutboxPromise.                                                        *)
(***************************************************************************)
Status == [e \in Events |->
             CASE row[e] \in {"absent", "adding"} -> "none"
               [] row[e] = "pending" -> "stored"
               [] row[e] = "dispatched" -> "done"]
Queued == {e \in Events : jobs[e] > 0}

\* A step that leaves every row's stage and every job alone is a stutter of the
\* promise.
LEMMA PromiseStutters ==
    ASSUME UNCHANGED <<row, jobs>>
    PROVE  UNCHANGED <<Status, Queued>>
BY DEF Status, Queued

\* Committing a drain delivers its whole batch at once.
LEMMA CommitDelivers ==
    ASSUME TypeOK, IInv, NEW d \in Drainers, Commit(d)
    PROVE  Promise!Next
<1>1. PICK S \in SUBSET Events : S = {e \in Events : fate[d][e] \in {"job", "dropped"}}
  BY Zenon
<1>2. PICK J \in SUBSET S : J = {e \in Events : fate[d][e] = "job"}
  BY <1>1, Zenon
<1>3. \A e \in S : row[e] = "pending"
  BY <1>1 DEF IInv, BatchesPartitionPending, Locked
<1>4. \A e \in S : Status[e] = "stored"
  BY <1>3 DEF Status
<1>5. Status' = [e \in Events |-> IF e \in S THEN "done" ELSE Status[e]]
  BY <1>1 DEF Status, Commit, TypeOK, RowStates
<1>6. Queued' = Queued \cup J
  BY <1>2 DEF Queued, Commit, TypeOK
<1>7. Promise!Deliver(S, J)
  BY <1>4, <1>5, <1>6, Zenon DEF Promise!Deliver, Status, Queued
<1> QED
  BY <1>7 DEF Promise!Next

\* The application's own steps store an event, deliver one by hand or stutter.
LEMMA AppKeepsPromise ==
    ASSUME TypeOK, NEW e \in Events, App(e)
    PROVE  Promise!Next \/ UNCHANGED <<Status, Queued>>
<1>1. \A x \in Events : /\ Status[x] = "none" <=> row[x] \in {"absent", "adding"}
                        /\ Status[x] = "stored" <=> row[x] = "pending"
  BY DEF Status, TypeOK, RowStates
<1>2. CASE AddEvent(e)
  <2>1. Status' = Status /\ Queued' = Queued
    BY <1>2 DEF Status, Queued, AddEvent, TypeOK, RowStates
  <2> QED BY <2>1
<1>3. CASE AppTxEnds(e)
  <2>1. PICK s \in {"pending", "absent"} : row' = [row EXCEPT ![e] = s]
    BY <1>3, Zenon DEF AppTxEnds
  <2>2. Queued' = Queued
    BY <1>3 DEF Queued, AppTxEnds
  <2>3. CASE s = "absent"
    <3>1. Status' = Status
      BY <1>3, <2>1, <2>3 DEF Status, AppTxEnds, TypeOK, RowStates
    <3> QED BY <3>1, <2>2
  <2>4. CASE s = "pending"
    <3>1. Status' = [Status EXCEPT ![e] = "stored"]
      BY <2>1, <2>4, Zenon DEF Status, TypeOK, RowStates
    <3>2. Status[e] = "none"
      BY <1>1, <1>3 DEF AppTxEnds
    <3>3. Promise!Store(e)
      BY <2>2, <3>1, <3>2, Zenon DEF Promise!Store, Status, Queued
    <3> QED BY <3>3 DEF Promise!Next
  <2> QED BY <2>1, <2>3, <2>4
<1>4. CASE MarkDispatched(e)
  <2>1. Queued' = Queued
    BY <1>4 DEF Queued, MarkDispatched
  <2>2. CASE row[e] = "dispatched"
    <3>1. row' = row
      BY <1>4, <2>2 DEF MarkDispatched, TypeOK
    <3> QED BY <1>4, <3>1, PromiseStutters DEF MarkDispatched
  <2>3. CASE row[e] = "pending"
    <3>1. Status' = [x \in Events |-> IF x \in {e} THEN "done" ELSE Status[x]]
      BY <1>4 DEF Status, MarkDispatched, TypeOK, RowStates
    <3>2. Promise!Deliver({e}, {})
      BY <1>1, <2>1, <2>3, <3>1, Zenon DEF Promise!Deliver, Status, Queued
    <3> QED BY <3>2 DEF Promise!Next
  <2> QED BY <1>4, <2>2, <2>3 DEF MarkDispatched
<1>5. CASE MarkFailed(e)
  BY <1>5, PromiseStutters DEF MarkFailed
<1> QED
  BY <1>2, <1>3, <1>4, <1>5 DEF App

\* The outbox implements OutboxPromise: whatever drains, rollbacks and lost
\* connections do, the application sees each event stored once and then
\* delivered once, its job and its mark in one step.
THEOREM OutboxImplementsPromise == Spec => ImplementsPromise
<1>1. Init => Promise!Init
  BY DEF Init, Promise!Init
<1>2. TypeOK /\ IInv /\ [Next]_vars => [Promise!Next]_<<Status, Queued>>
  <2> SUFFICES ASSUME TypeOK, IInv, [Next]_vars
               PROVE  Promise!Next \/ UNCHANGED <<Status, Queued>>
    OBVIOUS
  <2>1. ASSUME NEW e \in Events, App(e) PROVE Promise!Next \/ UNCHANGED <<Status, Queued>>
    BY <2>1, AppKeepsPromise
  <2>2. ASSUME NEW d \in Drainers, Commit(d) PROVE Promise!Next
    BY <2>2, CommitDelivers
  <2>3. ASSUME NEW d \in Drainers, OnStart(d) \/ OnStop(d) \/ RunReturns(d) \/ Begin(d)
                 \/ QueryPending(d) \/ Rollback(d) \/ ConnectionLost(d)
        PROVE  UNCHANGED <<row, jobs>>
    BY <2>3 DEF OnStart, OnStop, RunReturns, Begin, QueryPending, Rollback, ConnectionLost, dbVars
  <2>4. ASSUME NEW d \in Drainers, NEW e \in Events, DispatchOK(d, e) \/ DispatchFailed(d, e)
        PROVE  UNCHANGED <<row, jobs>>
    BY <2>4 DEF DispatchOK, DispatchFailed, Record, dbVars
  <2>5. ASSUME ServerReaps \/ Tick PROVE UNCHANGED <<row, jobs>>
    BY <2>5 DEF ServerReaps, Tick, dbVars
  <2>6. CASE UNCHANGED vars
    BY <2>6, PromiseStutters DEF vars
  <2> QED
    BY <2>1, <2>2, <2>3, <2>4, <2>5, <2>6, PromiseStutters DEF Next, Drain
<1> QED
  BY <1>1, <1>2, OutboxInductive, TypeCorrect, PTL DEF Spec, ImplementsPromise, Promise!Spec, Status, Queued
=============================================================================
