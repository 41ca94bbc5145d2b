----------------------------- MODULE UploadLock -----------------------------
(***************************************************************************)
(* The lock of one resumable upload (storage/tus/locker.go).  Requests of   *)
(* tusd queue for it and ask its holder to let go; the drain goroutine only *)
(* tries it.  The lock's state is kept in a map while somebody refers to    *)
(* it, and a later request makes a new one.                                 *)
(*                                                                          *)
(* A step is a critical section of one mutex, or a call made outside them.  *)
(***************************************************************************)
EXTENDS Integers, FiniteSets

CONSTANTS
    Requests,   \* concurrent requests for the upload; one that ended comes back as another
    Drain,      \* the drain goroutine
    States,     \* uploadLockState objects; an object nobody refers to is used again
    Nil

ASSUME UploadLockAssumption ==
    /\ IsFiniteSet(Requests)
    /\ Drain \notin Requests
    /\ Nil \notin States

VARIABLES
    phase,      \* where each actor is in Lock, Unlock or tryMaintenanceLock
    at,         \* the state object it refers to
    current,    \* the entry of uploadLocker.states
    state,      \* the fields of each state object
    ahead,      \* the requests queued before a queued one
    acquired,   \* uploadLock.acquired
    target,     \* the requestRelease a queued request is about to call
    asked       \* requests whose requestRelease was called

lockVars == <<phase, at, current, state, ahead, acquired, target, asked>>

Actors == Requests \cup {Drain}
Phases == {"idle", "new", "wake", "wait", "notify", "hold", "drop"}
NewState == [refs |-> 0, held |-> FALSE, owner |-> {}, wake |-> {}, queue |-> {}]

LockInit ==
    /\ phase = [a \in Actors |-> "idle"]
    /\ at = [a \in Actors |-> Nil]
    /\ current = Nil
    /\ state = [s \in States |-> NewState]
    /\ ahead = [r \in Requests |-> {}]
    /\ acquired = [r \in Requests |-> FALSE]
    /\ target = [r \in Requests |-> {}]
    /\ asked = [r \in Requests |-> FALSE]

\* newUploadLocker, in a process that takes over from one that died.
LockRestart ==
    /\ phase' = [a \in Actors |-> "idle"]
    /\ at' = [a \in Actors |-> Nil]
    /\ current' = Nil
    /\ state' = [s \in States |-> NewState]
    /\ ahead' = [r \in Requests |-> {}]
    /\ acquired' = [r \in Requests |-> FALSE]
    /\ target' = [r \in Requests |-> {}]
    /\ asked' = [r \in Requests |-> FALSE]

Goes(a, to) == phase' = [phase EXCEPT ![a] = to]

\* retain: the state in the map, or a new one.
Unused(s) == \A a \in Actors : at[a] # s
Unreferenced == CHOOSE s \in States : Unused(s)
Retain(a) ==
    /\ current = Nil => \E s \in States : Unused(s)
    /\ LET s == IF current = Nil THEN Unreferenced ELSE current
           before == IF current = Nil THEN NewState ELSE state[s]
       IN /\ current' = s
          /\ at' = [at EXCEPT ![a] = s]
          /\ state' = [state EXCEPT ![s] = [before EXCEPT !.refs = @ + 1]]

NewLock(r) ==
    /\ phase[r] = "idle"
    /\ Retain(r)
    /\ asked' = [asked EXCEPT ![r] = FALSE]
    /\ Goes(r, "new")
    /\ UNCHANGED <<ahead, acquired, target>>

\* release: nobody calls a requestRelease of an ended request to any effect.
ReleaseMutDropsEntry(a) ==
    /\ phase[a] = "drop"
    /\ state' = [state EXCEPT ![at[a]].refs = @ - 1]
    /\ current' = Nil
    /\ at' = [at EXCEPT ![a] = Nil]
    /\ target' = [r \in Requests |-> target[r] \ {a}]
    /\ Goes(a, "idle")
    /\ UNCHANGED <<ahead, acquired, asked>>
Release(a) ==
    /\ phase[a] = "drop"
    /\ state' = [state EXCEPT ![at[a]].refs = @ - 1]
    /\ current' = IF state[at[a]].refs = 1 /\ current = at[a] THEN Nil ELSE current
    /\ at' = [at EXCEPT ![a] = Nil]
    /\ target' = [r \in Requests |-> target[r] \ {a}]
    /\ Goes(a, "idle")
    /\ UNCHANGED <<ahead, acquired, asked>>

\* Lock: the lock is free, or the request queues behind the others.
LockFree(r) ==
    /\ phase[r] = "new" /\ ~state[at[r]].held
    /\ state' = [state EXCEPT ![at[r]].held = TRUE, ![at[r]].owner = {r}, ![at[r]].wake = {r}]
    /\ acquired' = [acquired EXCEPT ![r] = TRUE]
    /\ Goes(r, "hold")
    /\ UNCHANGED <<at, current, ahead, target, asked>>
Enqueue(r) ==
    /\ phase[r] = "new" /\ state[at[r]].held
    /\ state' = [state EXCEPT ![at[r]].queue = @ \cup {r}]
    /\ ahead' = [ahead EXCEPT ![r] = state[at[r]].queue]
    /\ target' = [target EXCEPT ![r] = state[at[r]].wake]
    /\ Goes(r, "wake")
    /\ UNCHANGED <<at, current, acquired, asked>>
Ask(who) == asked' = [r \in Requests |-> asked[r] \/ r \in who]
Wake(r) ==
    /\ phase[r] = "wake"
    /\ Ask(target[r])
    /\ target' = [target EXCEPT ![r] = {}]
    /\ Goes(r, "wait")
    /\ UNCHANGED <<at, current, state, ahead, acquired>>

Queued(r) == at[r] # Nil /\ r \in state[at[r]].queue

\* The select of Lock: ready, or ctx.Done with the lock granted meanwhile.
Granted(r) ==
    /\ phase[r] = "wait" /\ ~Queued(r)
    /\ Goes(r, "notify")
    /\ UNCHANGED <<at, current, state, ahead, acquired, target, asked>>
Dequeue(r, s) == /\ state' = [state EXCEPT ![s].queue = @ \ {r}]
                 /\ ahead' = [w \in Requests |-> ahead[w] \ {r}]
TimesOut(r) ==
    /\ phase[r] = "wait" /\ Queued(r)
    /\ Dequeue(r, at[r])
    /\ Goes(r, "drop")
    /\ UNCHANGED <<at, current, acquired, target, asked>>

\* notifyWaiters: those who queued while the request waited called the requestRelease of the
\* holder before it.
NotifyWaitersMutNone(r) ==
    /\ phase[r] = "notify"
    /\ Goes(r, "hold")
    /\ UNCHANGED <<at, current, state, ahead, acquired, target, asked>>
NotifyWaiters(r) ==
    /\ phase[r] = "notify"
    /\ LET s == state[at[r]] IN Ask(IF s.owner = {r} /\ s.queue # {} THEN s.wake ELSE {})
    /\ Goes(r, "hold")
    /\ UNCHANGED <<at, current, state, ahead, acquired, target>>

\* handoff
Handoff(s) ==
    LET others == [r \in Requests |-> acquired[r] /\ r \notin state[s].owner]
    IN \/ /\ state[s].queue = {}
          /\ state' = [state EXCEPT ![s].held = FALSE, ![s].owner = {}, ![s].wake = {}]
          /\ acquired' = others
          /\ UNCHANGED ahead
       \/ \E next \in state[s].queue :
          /\ ahead[next] = {}
          /\ state' = [state EXCEPT ![s].queue = @ \ {next}, ![s].owner = {next}, ![s].wake = {next}]
          /\ ahead' = [w \in Requests |-> ahead[w] \ {next}]
          /\ acquired' = [others EXCEPT ![next] = TRUE]
UnlockUpload(r) ==
    /\ phase[r] = "hold" /\ acquired[r]
    /\ Handoff(at[r])
    /\ Goes(r, "drop")
    /\ UNCHANGED <<at, current, target, asked>>

\* tryMaintenanceLock, and the function it returns.
TryMaintenanceLock ==
    /\ phase[Drain] = "idle"
    /\ Retain(Drain)
    /\ Goes(Drain, "new")
    /\ UNCHANGED <<ahead, acquired, target, asked>>
MaintenanceLocked ==
    /\ phase[Drain] = "new"
    /\ \/ state[at[Drain]].held /\ Goes(Drain, "drop") /\ UNCHANGED state
       \/ /\ ~state[at[Drain]].held
          /\ state' = [state EXCEPT ![at[Drain]].held = TRUE]
          /\ Goes(Drain, "hold")
    /\ UNCHANGED <<at, current, ahead, acquired, target, asked>>
MaintenanceUnlock ==
    /\ phase[Drain] = "hold"
    /\ Handoff(at[Drain])
    /\ Goes(Drain, "drop")
    /\ UNCHANGED <<at, current, target, asked>>

\* What a request goes through inside Lock and after Unlock, without waiting for anybody.
Proceeds(r) == LockFree(r) \/ Enqueue(r) \/ Wake(r) \/ Granted(r) \/ NotifyWaiters(r)

LockNext ==
    \/ \E r \in Requests : NewLock(r) \/ Proceeds(r) \/ TimesOut(r) \/ UnlockUpload(r)
    \/ TryMaintenanceLock \/ MaintenanceLocked \/ MaintenanceUnlock
    \/ \E a \in Actors : Release(a)
    \/ LockRestart

LockSpec == LockInit /\ [][LockNext]_lockVars

-----------------------------------------------------------------------------
\* Two actors never work on the upload at once, although the state of the lock is dropped and made
\* anew and a request that times out may have been granted the lock (handoff, release).
OneHolder == \A a, b \in Actors : phase[a] = "hold" /\ phase[b] = "hold" => a = b

\* Who was given the lock, noticed or not.
HasLock(a) ==
    \/ phase[a] \in {"notify", "hold"}
    \/ a \in Requests /\ phase[a] \in {"wake", "wait"} /\ a \notin state[at[a]].queue

\* No wakeup is lost: whoever is queued waits for somebody that has the lock of the same state and
\* whose Unlock does not return early, and handoff finds a head of the queue (acquired, handoff).
QueueIsServed ==
    \A r \in Requests : Queued(r) =>
        /\ \E a \in Actors : HasLock(a) /\ at[a] = at[r] /\ (a \in Requests => acquired[a])
        /\ \E next \in state[at[r]].queue : ahead[next] = {}

\* The lock goes to requests in the order they queued, and neither a request that arrives later nor
\* the drain goroutine gets it while one is queued (enqueue, remove, handoff, tryMaintenanceLock).
FirstComeFirstServed ==
    [][\A r \in Requests, a \in Actors :
          Queued(r) /\ ~HasLock(a) /\ HasLock(a)' => a = r \/ a \in ahead[r]]_lockVars

\* The map holds no state that nobody refers to: release leaves no entry behind for an upload whose
\* requests are over, however they queued, timed out and were handed the lock (retain, release).
MapIsClean == current # Nil => \E a \in Actors : at[a] = current
=============================================================================
