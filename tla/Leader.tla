------------------------------- MODULE Leader -------------------------------
(***************************************************************************)
(* Leader election (leader): the PostgreSQL advisory-lock elector and the   *)
(* Kubernetes Lease elector, the Status observer, and the gate that runs a  *)
(* periodic loop while its replica leads.                                   *)
(*                                                                          *)
(* A term is numbered by the acquisition that began it.  Its context is     *)
(* live while the elector of the replica is at "lead" in that term.         *)
(*                                                                          *)
(* Status and the gate share no state: Status observes the election as      *)
(* NamedModule wires it, the gate runs the election Gate.Run is given.  One *)
(* election is observed by both here, so each sees every order of events.   *)
(***************************************************************************)
EXTENDS Naturals, FiniteSets

CONSTANTS
    Replicas,
    Backends,   \* electors looked at: "pg", "k8s"
    Gated,      \* TRUE: gate.Run drives the elector; FALSE: the bare fx Module
    MaxFaults   \* bound: failures of connections, statements, renewals and stops

ASSUME LeaderAssumption ==
    /\ Backends \subseteq {"pg", "k8s"}
    /\ Gated \in BOOLEAN
    /\ MaxFaults \in Nat

VARIABLES
    backend,    \* the elector of this deployment
    holder,     \* {} or the replica whose session or identity holds the lock
    ghost,      \* the lock is held for a session or leader that is gone
    pc,         \* where the elector of a replica is
    conn,       \* its lock session: "none", "open" or "broken"
    term,       \* acquisitions so far
    starts,     \* terms whose OnStartedLeading has not run yet
    leading,    \* Status.leading
    armed,      \* terms whose context.AfterFunc has not run yet
    running,    \* Gate.running
    electErr,   \* Gate.electErr is set
    loop,       \* terms of Periodic goroutines that are not canceled
    stray,      \* canceled ones whose tick stopAll waits for
    late,       \* canceled ones whose tick outlived StopTimeout
    stop,       \* fx asked the replica to stop
    faults

lockVars == <<holder, ghost, conn>>
appVars == <<leading, armed, running, electErr, loop, stray, late>>
vars == <<backend, holder, ghost, pc, conn, term, starts, leading, armed, running, electErr, loop, stray, late,
          stop, faults>>

TypeOK ==
    /\ backend \in Backends
    /\ holder \in SUBSET Replicas /\ Cardinality(holder) <= 1
    /\ ghost \in BOOLEAN /\ (ghost => holder # {})
    /\ pc \in [Replicas -> {"connect", "try", "lead", "drain", "close", "wait", "off"}]
    /\ conn \in [Replicas -> {"none", "open", "broken"}]
    /\ term \in [Replicas -> Nat]
    /\ starts \in [Replicas -> SUBSET Nat]
    /\ leading \in [Replicas -> Nat]
    /\ armed \in [Replicas -> SUBSET Nat]
    /\ running \in [Replicas -> BOOLEAN]
    /\ electErr \in [Replicas -> BOOLEAN]
    /\ loop \in [Replicas -> SUBSET Nat]
    /\ stray \in [Replicas -> SUBSET Nat]
    /\ late \in [Replicas -> SUBSET Nat]
    /\ stop \in [Replicas -> BOOLEAN]
    /\ faults \in 0..MaxFaults

Init ==
    /\ backend \in Backends
    /\ holder = {} /\ ghost = FALSE
    /\ pc = [r \in Replicas |-> "connect"]
    /\ conn = [r \in Replicas |-> "none"]
    /\ term = [r \in Replicas |-> 0]
    /\ starts = [r \in Replicas |-> {}]
    /\ leading = [r \in Replicas |-> 0]
    /\ armed = [r \in Replicas |-> {}]
    /\ running = [r \in Replicas |-> FALSE]
    /\ electErr = [r \in Replicas |-> FALSE]
    /\ loop = [r \in Replicas |-> {}]
    /\ stray = [r \in Replicas |-> {}]
    /\ late = [r \in Replicas |-> {}]
    /\ stop = [r \in Replicas |-> FALSE]
    /\ faults = 0

Fault == faults < MaxFaults /\ faults' = faults + 1
Holds(r) == holder = {r} /\ ~ghost

-----------------------------------------------------------------------------
(***************************************************************************)
(* What the gate does: stopAll cancels the loop and waits for its tick.    *)
(***************************************************************************)
StopAll(r) ==
    /\ running' = [running EXCEPT ![r] = FALSE]
    /\ stray' = [stray EXCEPT ![r] = @ \cup loop[r]]
    /\ loop' = [loop EXCEPT ![r] = {}]

(***************************************************************************)
(* Run of the elector returns.  The gate notes an error and waits for its   *)
(* retry, or ends with the process; the bare Module only logs.              *)
(***************************************************************************)
ReturnsMutNoRetry(r, failed) ==
    /\ pc' = [pc EXCEPT ![r] = IF Gated /\ ~stop[r] /\ ~failed THEN "wait" ELSE "off"]
    /\ UNCHANGED <<electErr, running, loop, stray>>

Returns(r, failed) ==
    /\ pc' = [pc EXCEPT ![r] = IF Gated /\ ~stop[r] THEN "wait" ELSE "off"]
    /\ electErr' = [electErr EXCEPT ![r] = @ \/ (Gated /\ failed)]
    /\ IF Gated /\ stop[r] THEN StopAll(r) ELSE UNCHANGED <<running, loop, stray>>

Retry(r) ==
    /\ pc[r] = "wait"
    /\ pc' = [pc EXCEPT ![r] = "connect"]
    /\ UNCHANGED <<backend, lockVars, term, starts, appVars, stop, faults>>

(***************************************************************************)
(* campaign takes a connection of its own out of the pool.  After the stop  *)
(* Run sees its context ended and returns nil, or Acquire fails.            *)
(***************************************************************************)
Connect(r) ==
    /\ pc[r] = "connect" /\ ~stop[r]
    /\ conn' = [conn EXCEPT ![r] = IF backend = "pg" THEN "open" ELSE "none"]
    /\ pc' = [pc EXCEPT ![r] = "try"]
    /\ UNCHANGED <<backend, holder, ghost, term, starts, appVars, stop, faults>>

ConnectFails(r) ==
    /\ backend = "pg" /\ pc[r] = "connect"
    /\ \/ stop[r] /\ UNCHANGED faults /\ \E failed \in BOOLEAN : Returns(r, failed)
       \/ Fault /\ Returns(r, TRUE)
    /\ UNCHANGED <<backend, lockVars, term, starts, leading, armed, stop, late>>

(***************************************************************************)
(* The lock is won: a term begins, with OnStartedLeading on a goroutine.   *)
(***************************************************************************)
Wins(r) ==
    /\ pc[r] = "try" /\ holder = {} /\ conn[r] # "broken"
    /\ holder' = {r}
    /\ term' = [term EXCEPT ![r] = @ + 1]
    /\ starts' = [starts EXCEPT ![r] = @ \cup {term[r] + 1}]
    /\ pc' = [pc EXCEPT ![r] = "lead"]
    /\ UNCHANGED <<backend, ghost, conn, appVars, stop, faults>>

(***************************************************************************)
(* tryLock fails, or the stop ends the wait or cancels tryLock: the session *)
(* is closed and Run returns.  The server may have granted a failed tryLock.*)
(***************************************************************************)
TryFails(r) ==
    /\ backend = "pg" /\ pc[r] = "try"
    /\ \/ (stop[r] \/ conn[r] = "broken") /\ UNCHANGED faults
       \/ Fault
    /\ \/ stop[r] /\ Returns(r, FALSE) /\ UNCHANGED <<holder, ghost>>
       \/ Returns(r, TRUE) /\ UNCHANGED <<holder, ghost>>
       \/ Returns(r, TRUE) /\ holder = {} /\ holder' = {r} /\ ghost' = TRUE
    /\ conn' = [conn EXCEPT ![r] = "none"]
    /\ UNCHANGED <<backend, term, starts, leading, armed, stop, late>>

(***************************************************************************)
(* client-go keeps trying until the stop, then calls OnStoppedLeading and   *)
(* returns without an error.                                                *)
(***************************************************************************)
GivesUp(r) ==
    /\ backend = "k8s" /\ pc[r] \in {"connect", "try"} /\ stop[r]
    /\ leading' = [leading EXCEPT ![r] = 0]
    /\ Returns(r, FALSE)
    /\ UNCHANGED <<backend, lockVars, term, starts, armed, stop, faults, late>>

(***************************************************************************)
(* OnStartedLeading as Observe wraps it, then startAll of the gate, which   *)
(* waits for a stopAll in progress.                                         *)
(***************************************************************************)
StartAll(r, t) ==
    IF Gated /\ ~running[r]
    THEN /\ running' = [running EXCEPT ![r] = TRUE]
         /\ loop' = [loop EXCEPT ![r] = @ \cup {t}]
         /\ electErr' = [electErr EXCEPT ![r] = FALSE]
    ELSE UNCHANGED <<running, loop, electErr>>

OnStartedLeading(r) ==
    /\ pc[r] # "close"
    /\ \E t \in starts[r] :
        /\ starts' = [starts EXCEPT ![r] = @ \ {t}]
        /\ leading' = [leading EXCEPT ![r] = t]
        /\ armed' = [armed EXCEPT ![r] = @ \cup {t}]
        /\ StartAll(r, t)
    /\ UNCHANGED <<backend, lockVars, pc, term, stray, stop, faults, late>>

(***************************************************************************)
(* The AfterFunc of a term whose context ended clears its own term only.   *)
(***************************************************************************)
ClearedMutAny(r, t) ==
    [leading EXCEPT ![r] = 0]

ClearedMutNever(r, t) ==
    leading

Cleared(r, t) ==
    [leading EXCEPT ![r] = IF @ = t THEN 0 ELSE @]

AfterFunc(r) ==
    /\ \E t \in armed[r] :
        /\ ~(t = term[r] /\ pc[r] = "lead")
        /\ leading' = Cleared(r, t)
        /\ armed' = [armed EXCEPT ![r] = @ \ {t}]
    /\ UNCHANGED <<backend, lockVars, pc, term, starts, running, electErr, loop, stray, stop, faults, late>>

(***************************************************************************)
(* The connection of the lock session breaks; the server may take a while   *)
(* to see it.                                                               *)
(***************************************************************************)
SessionBreaks(r) ==
    /\ conn[r] = "open" /\ Fault
    /\ conn' = [conn EXCEPT ![r] = "broken"]
    /\ IF Holds(r) THEN \/ holder' = {} /\ UNCHANGED ghost
                        \/ ghost' = TRUE /\ UNCHANGED holder
                   ELSE UNCHANGED <<holder, ghost>>
    /\ UNCHANGED <<backend, pc, term, starts, appVars, stop>>

(***************************************************************************)
(* The server ends a dead session, or the Lease expires.                   *)
(***************************************************************************)
LockExpires ==
    /\ ghost
    /\ holder' = {} /\ ghost' = FALSE
    /\ UNCHANGED <<backend, pc, conn, term, starts, appVars, stop, faults>>

(***************************************************************************)
(* The term ends: a heartbeat fails, a renewal misses its deadline, or the  *)
(* replica stops.  client-go then releases the Lease if it can.             *)
(***************************************************************************)
LosesTerm(r) ==
    /\ pc[r] = "lead"
    /\ \/ (stop[r] \/ conn[r] = "broken") /\ UNCHANGED faults
       \/ backend = "k8s" /\ Fault
    /\ pc' = [pc EXCEPT ![r] = "drain"]
    /\ IF backend = "k8s" THEN \/ holder' = {} /\ UNCHANGED ghost
                               \/ ghost' = TRUE /\ UNCHANGED holder
                          ELSE UNCHANGED <<holder, ghost>>
    /\ UNCHANGED <<backend, conn, term, starts, appVars, stop>>

(***************************************************************************)
(* OnStoppedLeading.  hook.Lead calls it on the goroutine that ran          *)
(* OnStartedLeading; client-go calls it from the elector's.                 *)
(***************************************************************************)
OnStoppedLeading(r) ==
    /\ pc[r] = "drain"
    /\ backend = "pg" => starts[r] = {}
    /\ pc' = [pc EXCEPT ![r] = "close"]
    /\ leading' = [leading EXCEPT ![r] = 0]
    /\ StopAll(r)
    /\ UNCHANGED <<backend, lockVars, term, starts, armed, electErr, stop, faults, late>>

(***************************************************************************)
(* The tick of a canceled loop returns, or outlives StopTimeout.           *)
(***************************************************************************)
LoopExits(r) ==
    /\ stray[r] \cup late[r] # {}
    /\ stray' = [stray EXCEPT ![r] = {}]
    /\ late' = [late EXCEPT ![r] = {}]
    /\ UNCHANGED <<backend, lockVars, pc, term, starts, leading, armed, running, electErr, loop, stop, faults>>

StopTimesOut(r) ==
    /\ pc[r] = "close" /\ stray[r] # {} /\ Fault
    /\ stray' = [stray EXCEPT ![r] = {}]
    /\ late' = [late EXCEPT ![r] = @ \cup stray[r]]
    /\ UNCHANGED <<backend, lockVars, pc, term, starts, leading, armed, running, electErr, loop, stop>>

(***************************************************************************)
(* stopAll is over: the loop ended or was given up.  Then the lock session  *)
(* is closed and a new campaign begins; the Run of client-go returns.       *)
(***************************************************************************)
DrainedMutEarly(r) ==
    TRUE

Drained(r) == stray[r] = {}

Released(r) ==
    /\ holder' = IF backend = "pg" /\ Holds(r) THEN {} ELSE holder
    /\ conn' = [conn EXCEPT ![r] = "none"]
    /\ UNCHANGED ghost

Close(r) ==
    /\ pc[r] = "close" /\ Drained(r)
    /\ Released(r)
    /\ IF backend = "pg" /\ ~stop[r]
       THEN pc' = [pc EXCEPT ![r] = "connect"] /\ UNCHANGED <<running, electErr, loop, stray>>
       ELSE Returns(r, FALSE)
    /\ UNCHANGED <<backend, term, starts, leading, armed, stop, faults, late>>

(***************************************************************************)
(* The socket does not close: Run returns the error, and the server may     *)
(* keep the session, and its lock, for a while.                             *)
(***************************************************************************)
CloseFails(r) ==
    /\ backend = "pg" /\ pc[r] = "close" /\ Drained(r) /\ Fault
    /\ \/ Released(r)
       \/ /\ Holds(r) /\ ghost' = TRUE
          /\ conn' = [conn EXCEPT ![r] = "none"]
          /\ UNCHANGED holder
    /\ Returns(r, TRUE)
    /\ UNCHANGED <<backend, term, starts, leading, armed, stop, late>>

(***************************************************************************)
(* fx stops the replica; a gate that waits ends at once.                   *)
(***************************************************************************)
Stop(r) ==
    /\ ~stop[r]
    /\ stop' = [stop EXCEPT ![r] = TRUE]
    /\ UNCHANGED <<backend, lockVars, pc, term, starts, appVars, faults>>

WaitEnds(r) ==
    /\ pc[r] = "wait" /\ stop[r]
    /\ pc' = [pc EXCEPT ![r] = "off"]
    /\ StopAll(r)
    /\ UNCHANGED <<backend, lockVars, term, starts, leading, armed, electErr, stop, faults, late>>

Elector(r) ==
    \/ Retry(r) \/ Connect(r) \/ ConnectFails(r) \/ Wins(r) \/ TryFails(r) \/ GivesUp(r)
    \/ LosesTerm(r) \/ OnStoppedLeading(r) \/ Close(r) \/ CloseFails(r) \/ WaitEnds(r)

Next ==
    \/ LockExpires
    \/ \E r \in Replicas :
        Elector(r) \/ OnStartedLeading(r) \/ AfterFunc(r) \/ LoopExits(r) \/ StopTimesOut(r)
        \/ SessionBreaks(r) \/ Stop(r)

Spec == Init /\ [][Next]_vars

(***************************************************************************)
(* Goroutines run, timers fire, ticks honour their deadline, and a dead     *)
(* session or a stale Lease ends in time.                                   *)
(***************************************************************************)
FairSpec ==
    /\ Spec
    /\ WF_vars(LockExpires)
    /\ \A r \in Replicas :
        WF_vars(Elector(r)) /\ WF_vars(OnStartedLeading(r)) /\ WF_vars(AfterFunc(r)) /\ WF_vars(LoopExits(r))

-----------------------------------------------------------------------------
(***************************************************************************)
(* While a replica's loop or its last tick runs and its lock session is     *)
(* open, the replica holds the lock: leadWhileHeld waits for the callbacks  *)
(* before campaign closes the session, so loops of two replicas overlap     *)
(* only after a session broke or a tick outlived StopTimeout.               *)
(***************************************************************************)
LoopsHoldLock ==
    backend = "pg" =>
        \A r \in Replicas : loop[r] \cup stray[r] # {} /\ conn[r] = "open" => Holds(r)

(***************************************************************************)
(* Two replicas run loops, or the last ticks that stopAll waits for, at     *)
(* once only while the session of one of them is broken or closed (tryLock, *)
(* leadWhileHeld, stopAll).                                                 *)
(***************************************************************************)
LoopsExclusive ==
    backend = "pg" =>
        \A r, s \in Replicas :
            /\ loop[r] \cup stray[r] # {} /\ conn[r] = "open"
            /\ loop[s] \cup stray[s] # {} /\ conn[s] = "open"
            => r = s

(***************************************************************************)
(* "Loops start when leadership is acquired and stop when lost" (package    *)
(* gate): a loop that is not canceled belongs to the current term of its    *)
(* replica, whose OnStoppedLeading has yet to run.                          *)
(***************************************************************************)
LoopsFollowTerm ==
    backend = "pg" =>
        \A r \in Replicas :
            loop[r] # {} => loop[r] = {term[r]} /\ pc[r] \in {"lead", "drain"}

(***************************************************************************)
(* Status reports the term from OnStartedLeading on, whatever AfterFunc of  *)
(* an older term comes late, and no term is reported while campaigning.     *)
(***************************************************************************)
StatusTracksTerm ==
    backend = "pg" =>
        \A r \in Replicas :
            /\ pc[r] = "lead" /\ starts[r] = {} => leading[r] = term[r]
            /\ pc[r] \notin {"lead", "drain"} => leading[r] = 0

(***************************************************************************)
(* A replica whose loops run does not report a failing election.           *)
(***************************************************************************)
RunningIsReady ==
    backend = "pg" => \A r \in Replicas : running[r] => ~electErr[r]

(***************************************************************************)
(* Loops run somewhere again and again until every replica is asked to      *)
(* stop: failed elections are retried and dead sessions give up the lock.   *)
(***************************************************************************)
LeadershipRecovers ==
    backend = "pg" => []<>((\A r \in Replicas : stop[r]) \/ (\E r \in Replicas : loop[r] # {}))

(***************************************************************************)
(* A term that is over is not reported for ever, even when its              *)
(* OnStartedLeading runs after its OnStoppedLeading: AfterFunc clears it.   *)
(***************************************************************************)
StatusSettles ==
    \A r \in Replicas : pc[r] # "lead" ~> (leading[r] = 0 \/ pc[r] = "lead")

(***************************************************************************)
(* "Run blocks until ctx is canceled" (Elector.Run): a replica that is not  *)
(* asked to stop goes on taking part in elections.                          *)
(***************************************************************************)
RunsUntilCanceled ==
    \A r \in Replicas : pc[r] = "off" => stop[r]
=============================================================================
