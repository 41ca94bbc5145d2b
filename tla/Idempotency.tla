---------------------------- MODULE Idempotency ----------------------------
(***************************************************************************)
(* Idempotency keys (idempotency/): the HTTP middleware and the gRPC unary  *)
(* interceptor over the stores behind idempotency.Store.                    *)
(*                                                                          *)
(* A request claims its scoped key, runs the handler if it acquired the     *)
(* reservation, and commits the response or releases the reservation.  The  *)
(* memory and Redis stores do each operation in one atomic step.  The SQL   *)
(* stores read the clock first and then run one or two statements, so time  *)
(* and other requests may pass between the reading and each statement.  A   *)
(* statement sent to a server may fail, or be applied and have its reply    *)
(* lost; the process of a request may die between any two steps.            *)
(***************************************************************************)
EXTENDS Naturals, FiniteSets

CONSTANTS
    Requests,         \* requests that carry a key; each is sent once
    Keys,             \* scoped keys (scopedKey, grpcScopedKey)
    GRPCKeys,         \* the ones of the interceptor (prefix "grpc:v1:")
    Fingerprints,     \* digests of request payloads
    Backends,         \* stores of the deployments looked at: "memory", "redis", "sql"
    TTL,              \* Options.TTL, in ticks
    MaxClaimAttempts, \* maxClaimAttempts
    SweepBatch,       \* SweepConfig.Batch
    MaxTime           \* bound: ticks in one behaviour

ASSUME IdempotencyAssumption ==
    /\ GRPCKeys \subseteq Keys
    /\ Backends \subseteq {"memory", "redis", "sql"}
    /\ TTL \in Nat \ {0}
    /\ MaxClaimAttempts \in Nat \ {0}
    /\ SweepBatch \in Nat \ {0}
    /\ MaxTime \in Nat

VARIABLES
    now,      \* the clock
    row,      \* what the store holds for a key
    backend,  \* the store of this deployment
    pc,       \* where a request is
    key,      \* its scoped key
    fp,       \* its fingerprint
    at,       \* the clock reading its current store operation uses
    tries,    \* iterations of the claim loop so far
    outcome,  \* what its handler did
    reply,    \* what the middleware did with the request
    source,   \* the request, if any, whose stored response it was given
    sweepAt   \* clock readings of sweeps whose DELETE has not run yet

reqVars == <<backend, pc, key, fp, at, tries, outcome, reply, source>>
vars == <<now, row, backend, pc, key, fp, at, tries, outcome, reply, source, sweepAt>>

NoRow == [state |-> "absent"]

(***************************************************************************)
(* What a handler can do: end with a response worth keeping, send a 1xx     *)
(* header before its final one (the recorder keeps the first code only), or *)
(* end in a way that is never replayed.                                     *)
(***************************************************************************)
Outcomes == {"kept", "informational", "discarded"}
Rows == [state : {"inflight", "completed"}, token : Requests, fp : Fingerprints, exp : Nat]

TypeOK ==
    /\ now \in Nat
    /\ row \in [Keys -> Rows \cup {NoRow}]
    /\ backend \in Backends
    /\ pc \in [Requests -> {"idle", "reserve", "lookup", "run", "commit", "release",
                            "done", "crashed"}]
    /\ key \in [Requests -> Keys]
    /\ fp \in [Requests -> Fingerprints]
    /\ at \in [Requests -> Nat]
    /\ tries \in [Requests -> 0..MaxClaimAttempts]
    /\ outcome \in [Requests -> Outcomes \cup {"none"}]
    /\ reply \in [Requests -> {"none", "error", "conflict", "mismatch", "replayed", "invalid",
                               "committed", "uncommitted"}]
    /\ source \in [Requests -> SUBSET Requests]
    /\ sweepAt \in SUBSET Nat

(***************************************************************************)
(* Every request knows its key and fingerprint from the start.             *)
(***************************************************************************)
Init ==
    /\ now = 0
    /\ row = [k \in Keys |-> NoRow]
    /\ backend \in Backends
    /\ pc = [r \in Requests |-> "idle"]
    /\ key \in [Requests -> Keys]
    /\ fp \in [Requests -> Fingerprints]
    /\ at = [r \in Requests |-> 0]
    /\ tries = [r \in Requests |-> 0]
    /\ outcome = [r \in Requests |-> "none"]
    /\ reply = [r \in Requests |-> "none"]
    /\ source = [r \in Requests |-> {}]
    /\ sweepAt = {}

Goto(r, where) == pc' = [pc EXCEPT ![r] = where]
Answer(r, what) == Goto(r, "done") /\ reply' = [reply EXCEPT ![r] = what]

(***************************************************************************)
(* Local variables of a store call that is over.                           *)
(***************************************************************************)
Forget(r) == at' = [at EXCEPT ![r] = 0] /\ tries' = [tries EXCEPT ![r] = 0]
Remember(r, t) == at' = [at EXCEPT ![r] = t] /\ tries' = [tries EXCEPT ![r] = 0]

(***************************************************************************)
(* What can happen to a statement: it runs, it fails, or it runs and the    *)
(* caller is told that it failed.  Calls on the memory store always run.    *)
(***************************************************************************)
Faults == IF backend = "memory" THEN {"ok"} ELSE {"ok", "failed", "replyLost"}

Exists(k) == row[k].state # "absent"
ExpiredAt(k, t) == row[k].exp <= t
Owns(r) == Exists(key[r]) /\ row[key[r]].state = "inflight" /\ row[key[r]].token = r

VacantMutEarly(k, t) == Exists(k) => row[k].exp <= t + 1
VacantMutCompleted(k, t) == Exists(k) => ExpiredAt(k, t) \/ row[k].state = "completed"
Vacant(k, t) == Exists(k) => ExpiredAt(k, t)

InFlight(r, t) == [state |-> "inflight", token |-> r, fp |-> fp[r], exp |-> t + TTL]

(***************************************************************************)
(* handleClaim for a live record found under the key.                       *)
(***************************************************************************)
AnswerFromMutNoFingerprint(r) ==
    IF row[key[r]].state = "inflight"
    THEN Answer(r, "conflict") /\ UNCHANGED source
    ELSE Answer(r, "replayed") /\ source' = [source EXCEPT ![r] = {row[key[r]].token}]
AnswerFrom(r) ==
    \/ row[key[r]].fp # fp[r] /\ Answer(r, "mismatch") /\ UNCHANGED source
    \/ row[key[r]].fp = fp[r] /\ row[key[r]].state = "inflight"
       /\ Answer(r, "conflict") /\ UNCHANGED source
    \/ row[key[r]].fp = fp[r] /\ row[key[r]].state = "completed"
       /\ Answer(r, IF outcome[row[key[r]].token] = "informational" THEN "invalid" ELSE "replayed")
       /\ source' = [source EXCEPT ![r] = {row[key[r]].token}]

(***************************************************************************)
(* serveWithKey up to the first access to a SQL store: Claim reads the      *)
(* clock for its first attempt.                                             *)
(***************************************************************************)
Arrive(r) ==
    /\ backend = "sql" /\ pc[r] = "idle"
    /\ at' = [at EXCEPT ![r] = now]
    /\ tries' = [tries EXCEPT ![r] = 1]
    /\ Goto(r, "reserve")
    /\ UNCHANGED <<now, row, backend, key, fp, outcome, reply, source, sweepAt>>

(***************************************************************************)
(* Claim of the memory store and the claim script of the Redis store: find  *)
(* or reserve in one step.                                                  *)
(***************************************************************************)
Claim(r) ==
    /\ backend # "sql" /\ pc[r] = "idle"
    /\ \E fault \in Faults :
        \/ /\ Vacant(key[r], now) /\ fault # "failed"
           /\ row' = [row EXCEPT ![key[r]] = InFlight(r, now)]
           /\ \/ fault = "ok" /\ Goto(r, "run") /\ Remember(r, now) /\ UNCHANGED reply
              \/ fault = "replyLost" /\ Answer(r, "error") /\ Forget(r)
           /\ UNCHANGED source
        \/ ~Vacant(key[r], now) /\ fault = "ok" /\ AnswerFrom(r) /\ Forget(r) /\ UNCHANGED row
        \/ fault = "failed" /\ Answer(r, "error") /\ Forget(r) /\ UNCHANGED <<row, source>>
    /\ UNCHANGED <<now, backend, key, fp, outcome, sweepAt>>

(***************************************************************************)
(* The INSERT ... ON CONFLICT DO UPDATE WHERE expires_at <= now of a SQL     *)
(* store, with the clock reading of this attempt.                           *)
(***************************************************************************)
Reserve(r) ==
    /\ pc[r] = "reserve"
    /\ \E fault \in Faults :
        \/ /\ Vacant(key[r], at[r]) /\ fault # "failed"
           /\ row' = [row EXCEPT ![key[r]] = InFlight(r, at[r])]
           /\ \/ fault = "ok" /\ Goto(r, "run") /\ Remember(r, at[r]) /\ UNCHANGED reply
              \/ fault = "replyLost" /\ Answer(r, "error") /\ Forget(r)
        \/ /\ ~Vacant(key[r], at[r]) /\ fault = "ok" /\ Goto(r, "lookup")
           /\ UNCHANGED <<row, reply, at, tries>>
        \/ fault = "failed" /\ Answer(r, "error") /\ Forget(r) /\ UNCHANGED row
    /\ UNCHANGED <<now, backend, key, fp, outcome, source, sweepAt>>

Retries(r) == tries[r] < MaxClaimAttempts

(***************************************************************************)
(* The SELECT after a reservation that was not acquired.  The record may    *)
(* have vanished in between; then the loop tries again with a new reading.  *)
(***************************************************************************)
Lookup(r) ==
    /\ pc[r] = "lookup"
    /\ \/ ~Vacant(key[r], at[r]) /\ AnswerFrom(r) /\ Forget(r)
       \/ /\ Vacant(key[r], at[r]) /\ Retries(r)
          /\ tries' = [tries EXCEPT ![r] = @ + 1]
          /\ at' = [at EXCEPT ![r] = now]
          /\ Goto(r, "reserve")
          /\ UNCHANGED <<reply, source>>
       \/ Vacant(key[r], at[r]) /\ ~Retries(r)
          /\ Answer(r, "error") /\ Forget(r) /\ UNCHANGED source
       \/ "failed" \in Faults /\ Answer(r, "error") /\ Forget(r) /\ UNCHANGED source
    /\ UNCHANGED <<now, row, backend, key, fp, outcome, sweepAt>>

(***************************************************************************)
(* What handlers do under the HTTP middleware (a 5xx status, an overflow or *)
(* a panic is discarded) and under the interceptor (encodeGRPCOutcome also  *)
(* discards errors that are no status and codes outside grpcCacheable).     *)
(***************************************************************************)
CaptureResponse == {"kept", "informational", "discarded"}
EncodeGRPCOutcome == {"kept", "discarded"}

HandlerOutcomes(k) == IF k \in GRPCKeys THEN EncodeGRPCOutcome ELSE CaptureResponse

(***************************************************************************)
(* The handler ends.  A response worth keeping goes to Commit, which reads  *)
(* the clock; everything else, a panic included, goes to the deferred       *)
(* Release.                                                                 *)
(***************************************************************************)
HandlerReturns(r) ==
    /\ pc[r] = "run"
    /\ \E o \in HandlerOutcomes(key[r]) :
        /\ outcome' = [outcome EXCEPT ![r] = o]
        /\ IF o = "discarded"
           THEN Goto(r, "release") /\ at' = [at EXCEPT ![r] = 0]
           ELSE Goto(r, "commit") /\ at' = [at EXCEPT ![r] = now]
    /\ UNCHANGED <<now, row, backend, key, fp, tries, reply, source, sweepAt>>

(***************************************************************************)
(* Commit turns the reservation the token still owns into the completed     *)
(* response.  On any error the deferred Release runs.  (After a SQL UPDATE  *)
(* that matched no row, Owner only decides which error is logged.)          *)
(***************************************************************************)
Completed(r, t) == [state |-> "completed", token |-> r, fp |-> fp[r], exp |-> t + TTL]
CommitTime(r) == IF backend = "sql" THEN at[r] ELSE now
Completes(r) == Owns(r) /\ row[key[r]].fp = fp[r] /\ ~ExpiredAt(key[r], CommitTime(r))

Commit(r) ==
    /\ pc[r] = "commit"
    /\ \E fault \in Faults :
        \/ /\ Completes(r) /\ fault # "failed"
           /\ row' = [row EXCEPT ![key[r]] = Completed(r, CommitTime(r))]
           /\ \/ fault = "ok" /\ Answer(r, "committed") /\ Remember(r, CommitTime(r))
              \/ fault = "replyLost" /\ Goto(r, "release") /\ Forget(r) /\ UNCHANGED reply
        \/ /\ (Completes(r) => fault = "failed")
           /\ Goto(r, "release") /\ Forget(r) /\ UNCHANGED <<row, reply>>
    /\ UNCHANGED <<now, backend, key, fp, outcome, source, sweepAt>>

(***************************************************************************)
(* releaseClaim: delete the reservation if the token still owns it.  A lost *)
(* reservation and a failed DELETE are only logged.                         *)
(***************************************************************************)
Released(r) == IF Owns(r) THEN [row EXCEPT ![key[r]] = NoRow] ELSE row

Release(r) ==
    /\ pc[r] = "release"
    /\ \E fault \in Faults : row' = IF fault = "failed" THEN row ELSE Released(r)
    /\ Answer(r, "uncommitted")
    /\ UNCHANGED <<now, backend, key, fp, at, tries, outcome, source, sweepAt>>

(***************************************************************************)
(* The process of a request dies; its row stays.  (The memory store dies    *)
(* with its requests, so nothing of that survives to be checked.)           *)
(***************************************************************************)
Crash(r) ==
    /\ backend # "memory"
    /\ pc[r] \notin {"idle", "done", "crashed"}
    /\ Goto(r, "crashed") /\ Forget(r)
    /\ UNCHANGED <<now, row, backend, key, fp, outcome, reply, source, sweepAt>>

(***************************************************************************)
(* The sweep loop reads the clock and deletes at most a batch of records    *)
(* that had expired by then, the oldest first.                              *)
(***************************************************************************)
SweepStart ==
    /\ backend # "redis" /\ sweepAt = {}
    /\ \E k \in Keys : Exists(k) /\ ExpiredAt(k, now)
    /\ sweepAt' = {now}
    /\ UNCHANGED <<now, row, reqVars>>

SweepableMutStrict(k, t) == Exists(k) /\ row[k].exp < t
Sweepable(k, t) == Exists(k) /\ ExpiredAt(k, t)

SweepBatches(t) ==
    LET expired == {k \in Keys : Sweepable(k, t)}
    IN  {S \in SUBSET expired :
            /\ Cardinality(S) <= SweepBatch
            /\ S # expired => Cardinality(S) = SweepBatch
            /\ \A k \in S, l \in expired \ S : row[k].exp <= row[l].exp}

Sweep ==
    /\ \E t \in sweepAt : \E S \in SweepBatches(t) :
        row' = [k \in Keys |-> IF k \in S THEN NoRow ELSE row[k]]
    /\ sweepAt' = {}
    /\ UNCHANGED <<now, reqVars>>

Tick ==
    /\ now < MaxTime
    /\ now' = now + 1
    /\ UNCHANGED <<row, reqVars, sweepAt>>

Step(r) ==
    \/ Arrive(r) \/ Claim(r) \/ Reserve(r) \/ Lookup(r)
    \/ HandlerReturns(r) \/ Commit(r) \/ Release(r)

(***************************************************************************)
(* No request is left and the clock is at its bound: nothing more happens. *)
(***************************************************************************)
Quiet ==
    /\ now = MaxTime
    /\ \A r \in Requests : pc[r] \in {"done", "crashed"}
    /\ UNCHANGED vars

Next ==
    \/ \E r \in Requests : Step(r) \/ Crash(r)
    \/ SweepStart \/ Sweep \/ Tick \/ Quiet

Spec == Init /\ [][Next]_vars

(***************************************************************************)
(* A request whose context is alive keeps going: its handler returns and    *)
(* the statements have time limits.  The sweep loop runs at its interval.   *)
(***************************************************************************)
Fairness ==
    /\ \A r \in Requests : WF_vars(Step(r))
    /\ WF_vars(SweepStart) /\ WF_vars(Sweep) /\ WF_vars(Tick)

FairSpec == Spec /\ Fairness

-----------------------------------------------------------------------------
Reserved(r) == pc[r] = "run" /\ now < at[r] + TTL
Stored(r) == reply[r] = "committed" /\ now < at[r] + TTL

(***************************************************************************)
(* Two handlers run for one key only if the reservation of one of them has  *)
(* outlived its TTL (Store.Claim: "creates an in-flight reservation").      *)
(***************************************************************************)
ExclusiveExecution ==
    \A q, r \in Requests : q # r /\ key[q] = key[r] => ~(Reserved(q) /\ Reserved(r))

(***************************************************************************)
(* Once a Commit was acknowledged, the response stays in the store for its  *)
(* TTL: no late Commit, Release, Reserve or sweep of another request, with  *)
(* however old a clock reading, removes or replaces it.                     *)
(***************************************************************************)
AckedIsKept ==
    \A r \in Requests : Stored(r) =>
        /\ row[key[r]].state = "completed"
        /\ row[key[r]].token = r

(***************************************************************************)
(* A response is replayed only to a request with the same key and the same  *)
(* payload, and only if the handler that produced it ended with a response  *)
(* worth keeping (handleClaim, serveClaimed, encodeGRPCOutcome).            *)
(***************************************************************************)
ReplayIsFaithful ==
    \A r \in Requests : \A p \in source[r] :
        /\ p # r /\ key[p] = key[r] /\ fp[p] = fp[r]
        /\ outcome[p] \in {"kept", "informational"}

(***************************************************************************)
(* While an acknowledged response is retained no other handler starts for   *)
(* the key: "a completed retry replays it without running the handler".     *)
(***************************************************************************)
NoRerun ==
    [][\A r \in Requests : pc[r] # "run" /\ pc'[r] = "run" =>
         \A q \in Requests : key[q] = key[r] => ~Stored(q)]_vars

(***************************************************************************)
(* Every request that reaches the middleware is answered, however often the *)
(* record of its key changes under the claim loop, and expired records go.  *)
(***************************************************************************)
EveryRequestAnswered ==
    /\ \A r \in Requests : pc[r] # "idle" ~> pc[r] \in {"done", "crashed"}
    /\ \A k \in Keys : backend # "redis" => [](Vacant(k, now) => <>(~Exists(k) \/ ~Vacant(k, now)))

(***************************************************************************)
(* The package comment's "Completed retries replay the response": a request *)
(* that finds the completed response of its own payload is answered by it.  *)
(***************************************************************************)
CompletedRetriesReplay == \A r \in Requests : reply[r] # "invalid"
=============================================================================
