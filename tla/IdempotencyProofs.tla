------------------------- MODULE IdempotencyProofs -------------------------
(***************************************************************************)
(* Proofs about Idempotency for every set of requests, keys and payloads,   *)
(* every TTL and every backend.                                             *)
(***************************************************************************)
EXTENDS Idempotency, TLAPS

Claiming == {"idle", "reserve", "lookup"}

Kept(p) == outcome[p] \in {"kept", "informational"} /\ pc[p] \notin Claiming \cup {"run"}

Holds(r, state) ==
    /\ row[key[r]].state = state
    /\ row[key[r]].token = r
    /\ row[key[r]].exp = at[r] + TTL

(***************************************************************************)
(* No operation works with a clock reading of the future.                  *)
(***************************************************************************)
Clocks == (\A r \in Requests : at[r] <= now) /\ (\A t \in sweepAt : t <= now)

(***************************************************************************)
(* A reservation that has not expired, and an acknowledged response that    *)
(* has not, is the row of its key.                                          *)
(***************************************************************************)
Leases ==
    \A r \in Requests :
        /\ Reserved(r) => Holds(r, "inflight")
        /\ Stored(r) => Holds(r, "completed")

(***************************************************************************)
(* A row belongs to a request for that key and payload which is past its    *)
(* claim, and a completed row to one whose response was worth keeping.      *)
(***************************************************************************)
RowsOwned ==
    \A k \in Keys : Exists(k) =>
        /\ key[row[k].token] = k
        /\ fp[row[k].token] = row[k].fp
        /\ pc[row[k].token] \notin Claiming
        /\ row[k].state = "completed" => Kept(row[k].token)

Ends ==
    \A r \in Requests :
        /\ pc[r] = "commit" => outcome[r] \in {"kept", "informational"}
        /\ reply[r] = "committed" => pc[r] = "done"
        /\ \A p \in source[r] : p # r /\ key[p] = key[r] /\ fp[p] = fp[r] /\ Kept(p)

IInv == TypeOK /\ Clocks /\ Leases /\ RowsOwned /\ Ends

LEMMA InitIInv == Init => IInv
  BY IdempotencyAssumption DEF Init, IInv, TypeOK, Clocks, Leases, RowsOwned, Ends, Reserved, Stored,
     Exists, NoRow, Rows, Claiming

(***************************************************************************)
(* The type invariant, action by action.                                   *)
(***************************************************************************)
LEMMA TypeStep == TypeOK /\ [Next]_vars => TypeOK'
<1> SUFFICES ASSUME TypeOK, [Next]_vars PROVE TypeOK'
  OBVIOUS
<1> USE IdempotencyAssumption
<1>1. ASSUME NEW r \in Requests, Arrive(r) PROVE TypeOK'
  BY <1>1 DEF TypeOK, Arrive, Goto
<1>2. ASSUME NEW r \in Requests, Claim(r) PROVE TypeOK'
  <2>1. CASE /\ row' = row /\ Forget(r)
             /\ \/ ~Vacant(key[r], now) /\ AnswerFrom(r)
                \/ Answer(r, "error") /\ source' = source
    <3>1. row[key[r]] \in Rows \/ Vacant(key[r], now)
      BY DEF TypeOK, Vacant, Exists, NoRow
    <3> QED
      BY <1>2, <2>1, <3>1 DEF TypeOK, Claim, AnswerFrom, Answer, Goto, Forget, Rows
  <2>2. CASE /\ row' = [row EXCEPT ![key[r]] = InFlight(r, now)] /\ source' = source
             /\ \/ Goto(r, "run") /\ Remember(r, now) /\ reply' = reply
                \/ Answer(r, "error") /\ Forget(r)
    <3>1. InFlight(r, now) \in Rows
      BY DEF TypeOK, InFlight, Rows
    <3> QED
      BY <1>2, <2>2, <3>1 DEF TypeOK, Claim, Answer, Goto, Remember, Forget
  <2> QED
    BY <1>2, <2>1, <2>2 DEF Claim
<1>3. ASSUME NEW r \in Requests, Reserve(r) PROVE TypeOK'
  BY <1>3, SMTT(30) DEF TypeOK, Reserve, Goto, Answer, InFlight, Forget, Remember, Rows
<1>4. ASSUME NEW r \in Requests, Lookup(r) PROVE TypeOK'
  <2>1. CASE ~Vacant(key[r], at[r]) /\ AnswerFrom(r) /\ Forget(r)
    <3>1. row[key[r]] \in Rows
      BY <2>1 DEF TypeOK, Vacant, Exists, NoRow
    <3>2. source' \in [Requests -> SUBSET Requests]
      BY <2>1, <3>1 DEF TypeOK, AnswerFrom, Rows
    <3>3. PICK what \in {"mismatch", "conflict", "invalid", "replayed"} : Answer(r, what)
      BY <2>1 DEF AnswerFrom
    <3> QED
      BY <1>4, <2>1, <3>2, <3>3 DEF TypeOK, Lookup, Answer, Goto, Forget
  <2>2. CASE /\ Retries(r) /\ tries' = [tries EXCEPT ![r] = @ + 1]
             /\ at' = [at EXCEPT ![r] = now] /\ Goto(r, "reserve")
             /\ UNCHANGED <<reply, source>>
    BY <1>4, <2>2 DEF TypeOK, Lookup, Goto, Retries
  <2>3. CASE Answer(r, "error") /\ Forget(r) /\ UNCHANGED source
    BY <1>4, <2>3 DEF TypeOK, Lookup, Answer, Goto, Forget
  <2> QED
    BY <1>4, <2>1, <2>2, <2>3 DEF Lookup
<1>5. ASSUME NEW r \in Requests, HandlerReturns(r) PROVE TypeOK'
  BY <1>5 DEF TypeOK, HandlerReturns, Goto, HandlerOutcomes, EncodeGRPCOutcome, CaptureResponse, Outcomes
<1>6. ASSUME NEW r \in Requests, Commit(r) PROVE TypeOK'
  <2>1. CommitTime(r) \in Nat
    BY DEF TypeOK, CommitTime
  <2>2. row' \in [Keys -> Rows \cup {NoRow}]
    BY <1>6, <2>1 DEF TypeOK, Commit, Completed, Rows
  <2>3. /\ at' \in [Requests -> Nat] /\ tries' \in [Requests -> 0..MaxClaimAttempts]
        /\ (Goto(r, "release") /\ reply' = reply) \/ Answer(r, "committed")
    BY <1>6, <2>1 DEF TypeOK, Commit, Remember, Forget
  <2> QED
    BY <1>6, <2>2, <2>3 DEF TypeOK, Commit, Answer, Goto
<1>7. ASSUME NEW r \in Requests, Release(r) PROVE TypeOK'
  BY <1>7 DEF TypeOK, Release, Goto, Answer, Released, Rows, NoRow
<1>8. ASSUME NEW r \in Requests, Crash(r) PROVE TypeOK'
  BY <1>8 DEF TypeOK, Crash, Goto, Forget
<1>9. CASE SweepStart
  BY <1>9 DEF TypeOK, SweepStart, reqVars
<1>10. CASE Sweep
  BY <1>10 DEF TypeOK, Sweep, reqVars, NoRow
<1>11. CASE Tick
  BY <1>11 DEF TypeOK, Tick, reqVars
<1>12. CASE Quiet \/ UNCHANGED vars
  BY <1>12, Zenon DEF TypeOK, Quiet, vars
<1> QED
  BY <1>1, <1>2, <1>3, <1>4, <1>5, <1>6, <1>7, <1>8, <1>9, <1>10, <1>11, <1>12 DEF Next, Step

(***************************************************************************)
(* A key that is vacant at a clock reading is the key of no live            *)
(* reservation and of no live response.                                     *)
(***************************************************************************)
LEMMA VacantIsFree ==
    ASSUME IInv, NEW r \in Requests, NEW t \in Nat, t <= now, Vacant(key[r], t)
    PROVE  ~Reserved(r) /\ ~Stored(r)
  BY IdempotencyAssumption DEF IInv, TypeOK, Leases, Holds, Reserved, Stored, Vacant, ExpiredAt, Exists

(***************************************************************************)
(* What the two forms of a claim do when they acquire the reservation.     *)
(***************************************************************************)
Takes(r, t) ==
    /\ pc[r] \in Claiming /\ Vacant(key[r], t)
    /\ row' = [row EXCEPT ![key[r]] = InFlight(r, t)]
    /\ \/ Goto(r, "run") /\ Remember(r, t) /\ reply' = reply
       \/ Answer(r, "error") /\ Forget(r)
    /\ UNCHANGED <<now, key, fp, outcome, source, sweepAt>>

LEMMA TakesStep ==
    ASSUME IInv, TypeOK', NEW r \in Requests, NEW t \in Nat, t <= now, Takes(r, t)
    PROVE  IInv'
<1> USE IdempotencyAssumption
<1>1. Clocks'
  BY DEF IInv, TypeOK, Clocks, Takes, Remember, Forget
<1>2. Leases'
  <2> SUFFICES ASSUME NEW q \in Requests
               PROVE  /\ Reserved(q)' => Holds(q, "inflight")'
                      /\ Stored(q)' => Holds(q, "completed")'
    BY DEF Leases
  <2>1. CASE q = r
    <3>1. ~Stored(r)'
      BY DEF IInv, TypeOK, Ends, Takes, Claiming, Answer, Stored
    <3>2. row'[key[r]] = InFlight(r, t) /\ key' = key
      BY DEF IInv, TypeOK, Takes
    <3>3. pc'[r] = "run" => at'[r] = t
      BY DEF IInv, TypeOK, Takes, Goto, Answer, Remember
    <3> QED
      BY <2>1, <3>1, <3>2, <3>3 DEF Reserved, Holds, InFlight
  <2>2. CASE q # r /\ key[q] = key[r]
    <3>1. ~Reserved(q) /\ ~Stored(q)
      BY <2>2, VacantIsFree DEF Takes
    <3> QED
      BY <2>2, <3>1 DEF IInv, TypeOK, Takes, Goto, Answer, Remember, Forget, Reserved, Stored
  <2>3. CASE q # r /\ key[q] # key[r]
    BY <2>3 DEF IInv, TypeOK, Leases, Takes, Goto, Answer, Remember, Forget, Reserved, Stored, Holds
  <2> QED
    BY <2>1, <2>2, <2>3
<1>3. RowsOwned'
  BY DEF IInv, TypeOK, RowsOwned, Takes, Claiming, Goto, Answer, Exists, InFlight, Kept, Rows, NoRow
<1>4. Ends'
  BY DEF IInv, TypeOK, Ends, Takes, Claiming, Goto, Answer, Kept
<1> QED
  BY <1>1, <1>2, <1>3, <1>4 DEF IInv

(***************************************************************************)
(* Steps that leave the rows alone and take a request that holds nothing    *)
(* to another such place: the rest of a claim, the end of a handler, a      *)
(* crash.                                                                   *)
(***************************************************************************)
Moves(r) ==
    /\ row' = row /\ key' = key /\ fp' = fp /\ now' = now /\ sweepAt' = sweepAt
    /\ \A q \in Requests \ {r} :
        pc'[q] = pc[q] /\ reply'[q] = reply[q] /\ outcome'[q] = outcome[q] /\ at'[q] = at[q]
    /\ pc[r] # "done" /\ pc'[r] # "run"
    /\ pc'[r] \in Claiming => pc[r] \in Claiming
    /\ pc'[r] = "commit" => outcome'[r] \in {"kept", "informational"}
    /\ reply'[r] = "committed" => reply[r] = "committed"
    /\ pc[r] # "run" => outcome'[r] = outcome[r]
    /\ at'[r] <= now

LEMMA MovesStep ==
    ASSUME IInv, TypeOK', NEW r \in Requests, Moves(r),
           \A p \in source'[r] : p # r /\ key[p] = key[r] /\ fp[p] = fp[r] /\ Kept(p),
           \A q \in Requests \ {r} : source'[q] = source[q]
    PROVE  IInv'
<1> USE IdempotencyAssumption
<1>1. Clocks'
  BY DEF IInv, TypeOK, Clocks, Moves
<1>2. Leases'
  <2>1. ASSUME NEW q \in Requests
        PROVE  /\ Reserved(q)' => q # r /\ Reserved(q)
               /\ Stored(q)' => q # r /\ Stored(q)
    BY <2>1 DEF IInv, TypeOK, Ends, Moves, Reserved, Stored
  <2> QED
    BY <2>1 DEF IInv, TypeOK, Leases, Moves, Holds
<1>3. \A p \in Requests : Kept(p) => Kept(p)'
  BY DEF IInv, TypeOK, Moves, Goto, Kept, Claiming
<1>4. RowsOwned'
  BY <1>3 DEF IInv, TypeOK, RowsOwned, Moves, Goto, Claiming, Exists, Rows, NoRow
<1>5. Ends'
  <2> SUFFICES ASSUME NEW q \in Requests
               PROVE  /\ (pc[q] = "commit" => outcome[q] \in {"kept", "informational"})'
                      /\ (reply[q] = "committed" => pc[q] = "done")'
                      /\ (\A p \in source[q] : p # q /\ key[p] = key[q] /\ fp[p] = fp[q] /\ Kept(p))'
    BY DEF Ends
  <2>1. (pc[q] = "commit" => outcome[q] \in {"kept", "informational"})'
    BY DEF IInv, TypeOK, Ends, Moves, Goto
  <2>2. (reply[q] = "committed" => pc[q] = "done")'
    BY DEF IInv, TypeOK, Ends, Moves, Goto
  <2>3. (\A p \in source[q] : p # q /\ key[p] = key[q] /\ fp[p] = fp[q] /\ Kept(p))'
    BY <1>3 DEF IInv, TypeOK, Ends, Moves
  <2> QED
    BY <2>1, <2>2, <2>3
<1> QED
  BY <1>1, <1>2, <1>4, <1>5 DEF IInv

(***************************************************************************)
(* The record a claim answers from was left by another request for the     *)
(* same key; it is replayed only when the payload is the same too.          *)
(***************************************************************************)
LEMMA AnswerFromSource ==
    ASSUME IInv, NEW r \in Requests, pc[r] \in Claiming, Exists(key[r]), AnswerFrom(r)
    PROVE  /\ \A p \in source'[r] : p # r /\ key[p] = key[r] /\ fp[p] = fp[r] /\ Kept(p)
           /\ \A q \in Requests \ {r} : source'[q] = source[q]
           /\ Goto(r, "done")
           /\ \E what \in {"conflict", "mismatch", "replayed", "invalid"} :
                reply' = [reply EXCEPT ![r] = what]
<1>1. row[key[r]].token \in Requests \ {r}
  BY DEF IInv, TypeOK, RowsOwned, Exists, Rows, NoRow
<1>2. row[key[r]].state = "completed" /\ row[key[r]].fp = fp[r] =>
        /\ key[row[key[r]].token] = key[r]
        /\ fp[row[key[r]].token] = fp[r]
        /\ Kept(row[key[r]].token)
  BY DEF IInv, TypeOK, RowsOwned
<1> QED
  BY <1>1, <1>2 DEF IInv, TypeOK, Ends, AnswerFrom, Answer

\* A request that is answered before its handler ran leaves all else alone.
LEMMA AnswerMoves ==
    ASSUME TypeOK, NEW r \in Requests, pc[r] \in Claiming, Forget(r), Goto(r, "done"),
           NEW what \in {"error", "conflict", "mismatch", "replayed", "invalid"},
           reply' = [reply EXCEPT ![r] = what],
           UNCHANGED <<now, row, key, fp, outcome, sweepAt>>
    PROVE  Moves(r)
  BY DEF TypeOK, Moves, Goto, Forget, Claiming

LEMMA IInvStep == IInv /\ [Next]_vars => IInv'
<1> SUFFICES ASSUME IInv, [Next]_vars PROVE IInv'
  OBVIOUS
<1> USE IdempotencyAssumption
<1>t. TypeOK /\ TypeOK'
  BY TypeStep DEF IInv
<1>s. \A r \in Requests : \A p \in source[r] : p # r /\ key[p] = key[r] /\ fp[p] = fp[r] /\ Kept(p)
  BY DEF IInv, Ends
<1>1. ASSUME NEW r \in Requests, Arrive(r) PROVE IInv'
  <2>1. Moves(r)
    BY <1>1, <1>t DEF TypeOK, Arrive, Moves, Goto, Claiming
  <2> QED
    BY <1>1, <1>t, <1>s, <2>1, MovesStep DEF Arrive
<1>2. ASSUME NEW r \in Requests, Claim(r) PROVE IInv'
  <2>1. CASE Takes(r, now)
    BY <1>t, <2>1, TakesStep DEF TypeOK
  <2>2. CASE /\ row' = row /\ Forget(r)
             /\ \/ ~Vacant(key[r], now) /\ AnswerFrom(r)
                \/ Answer(r, "error") /\ source' = source
    <3>1. /\ Moves(r)
          /\ \A p \in source'[r] : p # r /\ key[p] = key[r] /\ fp[p] = fp[r] /\ Kept(p)
          /\ \A q \in Requests \ {r} : source'[q] = source[q]
      <4>1. pc[r] \in Claiming /\ UNCHANGED <<now, row, key, fp, outcome, sweepAt>>
        BY <1>2, <2>2, Zenon DEF Claim, Claiming
      <4>2. CASE ~Vacant(key[r], now) /\ AnswerFrom(r)
        <5>1. Exists(key[r])
          BY <4>2, Zenon DEF Vacant
        <5> QED
          BY <1>t, <2>2, <4>1, <4>2, <5>1, AnswerFromSource, AnswerMoves, Zenon
      <4>3. CASE Answer(r, "error") /\ source' = source
        BY <1>t, <1>s, <2>2, <4>1, <4>3, AnswerMoves, Zenon DEF Answer
      <4> QED
        BY <2>2, <4>2, <4>3, Zenon
    <3> QED
      BY <1>t, <3>1, MovesStep
  <2> QED
    BY <1>2, <2>1, <2>2 DEF Claim, Takes, Claiming
<1>3. ASSUME NEW r \in Requests, Reserve(r) PROVE IInv'
  <2>1. CASE Takes(r, at[r])
    BY <1>t, <2>1, TakesStep DEF TypeOK, IInv, Clocks
  <2>2. CASE /\ row' = row
             /\ \/ Goto(r, "lookup") /\ UNCHANGED <<reply, at, tries>>
                \/ Answer(r, "error") /\ Forget(r)
    <3>1. Moves(r)
      BY <1>3, <1>t, <2>2 DEF TypeOK, IInv, Clocks, Reserve, Moves, Answer, Goto, Forget, Claiming
    <3> QED
      BY <1>3, <1>t, <1>s, <3>1, MovesStep, Zenon DEF Reserve
  <2> QED
    BY <1>3, <2>1, <2>2, Zenon DEF Reserve, Takes, Claiming
<1>4. ASSUME NEW r \in Requests, Lookup(r) PROVE IInv'
  <2>1. CASE ~Vacant(key[r], at[r]) /\ AnswerFrom(r) /\ Forget(r)
    <3>1. /\ Moves(r)
          /\ \A p \in source'[r] : p # r /\ key[p] = key[r] /\ fp[p] = fp[r] /\ Kept(p)
          /\ \A q \in Requests \ {r} : source'[q] = source[q]
      <4>1. pc[r] \in Claiming /\ UNCHANGED <<now, row, key, fp, outcome, sweepAt>>
        BY <1>4, Zenon DEF Lookup, Claiming
      <4>2. Exists(key[r])
        BY <2>1, Zenon DEF Vacant
      <4> QED
        BY <1>t, <2>1, <4>1, <4>2, AnswerFromSource, AnswerMoves, Zenon
    <3> QED
      BY <1>t, <3>1, MovesStep
  <2>2. CASE source' = source /\ (\/ Goto(r, "reserve") /\ at' = [at EXCEPT ![r] = now] /\ reply' = reply
                                  \/ Answer(r, "error") /\ Forget(r))
    <3>1. Moves(r)
      BY <1>4, <1>t, <2>2 DEF TypeOK, Lookup, Moves, Answer, Goto, Forget, Claiming
    <3> QED
      BY <1>t, <1>s, <2>2, <3>1, MovesStep, Zenon
  <2> QED
    BY <1>4, <2>1, <2>2, Zenon DEF Lookup
<1>5. ASSUME NEW r \in Requests, HandlerReturns(r) PROVE IInv'
  <2>1. Moves(r)
    BY <1>5, <1>t DEF TypeOK, HandlerReturns, Moves, Goto, Claiming, HandlerOutcomes, EncodeGRPCOutcome, CaptureResponse
  <2> QED
    BY <1>5, <1>t, <1>s, <2>1, MovesStep, Zenon DEF HandlerReturns
<1>6. ASSUME NEW r \in Requests, Commit(r) PROVE IInv'
  <2>t. CommitTime(r) \in Nat /\ CommitTime(r) <= now
    BY <1>t DEF TypeOK, IInv, Clocks, CommitTime
  <2>1. CASE row' = row /\ Goto(r, "release") /\ Forget(r) /\ reply' = reply
    <3>1. Moves(r)
      BY <1>6, <1>t, <2>1 DEF TypeOK, Commit, Moves, Goto, Forget, Claiming
    <3> QED
      BY <1>6, <1>t, <1>s, <3>1, MovesStep, Zenon DEF Commit
  <2>2. CASE /\ Completes(r)
             /\ row' = [row EXCEPT ![key[r]] = Completed(r, CommitTime(r))]
             /\ \/ Answer(r, "committed") /\ Remember(r, CommitTime(r))
                \/ Goto(r, "release") /\ Forget(r) /\ reply' = reply
    <3>1. Clocks'
      BY <1>6, <1>t, <2>t, <2>2 DEF TypeOK, IInv, Clocks, Commit, Remember, Forget
    <3>2. Leases'
      <4> SUFFICES ASSUME NEW q \in Requests
                   PROVE  /\ Reserved(q)' => Holds(q, "inflight")'
                          /\ Stored(q)' => Holds(q, "completed")'
        BY DEF Leases
      <4>0. row'[key[r]] = Completed(r, CommitTime(r)) /\ key' = key /\ now' = now
        BY <1>6, <1>t, <2>2, Zenon DEF TypeOK, Commit
      <4>1. CASE q = r
        <5>1. ~Reserved(r)'
          BY <1>t, <2>2 DEF TypeOK, Reserved, Answer, Goto
        <5>2. reply'[r] = "committed" => at'[r] = CommitTime(r)
          BY <1>6, <1>t, <2>2 DEF TypeOK, IInv, Ends, Commit, Answer, Remember
        <5> QED
          BY <4>0, <4>1, <5>1, <5>2 DEF Stored, Holds, Completed
      <4>2. CASE q # r
        <5>1. Reserved(q)' = Reserved(q) /\ Stored(q)' = Stored(q) /\ at'[q] = at[q]
          <6>1. pc'[q] = pc[q] /\ reply'[q] = reply[q] /\ at'[q] = at[q]
            BY <1>t, <2>2, <4>2, SMTT(20) DEF TypeOK, Answer, Goto, Remember, Forget
          <6> QED
            BY <4>0, <6>1, Zenon DEF Reserved, Stored
        <5>2. key[q] = key[r] => ~Reserved(q) /\ ~Stored(q)
          BY <2>2, <4>2, Zenon DEF IInv, Leases, Holds, Completes, Owns
        <5> QED
          <6>1. key[q] # key[r] => row'[key[q]] = row[key[q]]
            BY <1>t, <2>2 DEF TypeOK
          <6> QED
            BY <4>0, <5>1, <5>2, <6>1, Zenon DEF IInv, Leases, Holds
      <4> QED
        BY <4>1, <4>2
    <3>3. \A p \in Requests : Kept(p) => Kept(p)'
      BY <1>6, <1>t, <2>2 DEF TypeOK, Commit, Kept, Claiming, Answer, Goto
    <3>4. Kept(r)'
      BY <1>6, <1>t, <2>2 DEF TypeOK, IInv, Ends, Commit, Kept, Claiming, Answer, Goto
    <3>5. RowsOwned'
      <4> SUFFICES ASSUME NEW k \in Keys, Exists(k)'
                   PROVE  /\ (key[row[k].token] = k)'
                          /\ (fp[row[k].token] = row[k].fp)'
                          /\ (pc[row[k].token] \notin Claiming)'
                          /\ (row[k].state = "completed" => Kept(row[k].token))'
        BY Zenon DEF RowsOwned
      <4>1. CASE k = key[r]
        <5>1. row'[k] = Completed(r, CommitTime(r))
          BY <1>t, <2>2, <4>1 DEF TypeOK
        <5>2. row'[k].token = r /\ row'[k].fp = fp[r] /\ key' = key /\ fp' = fp
          BY <1>6, <5>1 DEF Completed, Commit
        <5> QED
          BY <3>4, <4>1, <5>2 DEF Kept
      <4>2. CASE k # key[r]
        <5>1. row'[k] = row[k] /\ row[k] \in Rows /\ Exists(k) /\ key' = key /\ fp' = fp
          <6>1. row'[k] = row[k]
            BY <1>t, <2>2, <4>2 DEF TypeOK
          <6>2. key' = key /\ fp' = fp
            BY <1>6, Zenon DEF Commit
          <6> QED
            BY <1>t, <6>1, <6>2 DEF TypeOK, Exists, NoRow
        <5> QED
          <6>1. \A q \in Requests : pc[q] \notin Claiming => pc'[q] \notin Claiming
            BY <1>t, <2>2 DEF TypeOK, Claiming, Answer, Goto
          <6>2. row[k].token \in Requests
            BY <5>1 DEF Rows, Exists
          <6> QED
            BY <3>3, <5>1, <6>1, <6>2, Zenon DEF IInv, RowsOwned
      <4> QED
        BY <4>1, <4>2, Zenon
    <3>6. Ends'
      <4>1. key' = key /\ fp' = fp /\ outcome' = outcome /\ source' = source /\ pc[r] = "commit"
        BY <1>6, Zenon DEF Commit
      <4>2. \A q \in Requests :
              /\ pc'[q] = "commit" => pc[q] = "commit"
              /\ reply'[q] = "committed" => pc'[q] = "done" \/ (reply[q] = "committed" /\ (q = r \/ pc'[q] = pc[q]))
        BY <1>t, <2>2 DEF TypeOK, Answer, Goto
      <4>3. \A q \in Requests : \A p \in source[q] : p \in Requests
        BY <1>t DEF TypeOK
      <4>4. reply[r] # "committed"
        BY <4>1, Zenon DEF IInv, Ends
      <4>5. \A q \in Requests : reply'[q] = "committed" => pc'[q] = "done"
        BY <4>2, <4>4, Zenon DEF IInv, Ends
      <4>6. \A q \in Requests : \A p \in source'[q] : p # q /\ key'[p] = key'[q] /\ fp'[p] = fp'[q] /\ Kept(p)'
        BY <3>3, <4>1, <4>3, Zenon DEF IInv, Ends
      <4>7. \A q \in Requests : pc'[q] = "commit" => outcome'[q] \in {"kept", "informational"}
        BY <4>1, <4>2, Zenon DEF IInv, Ends
      <4> QED
        BY <4>5, <4>6, <4>7, Zenon DEF Ends
    <3> QED
      BY <1>t, <3>1, <3>2, <3>5, <3>6 DEF IInv
  <2> QED
    BY <1>6, <2>1, <2>2 DEF Commit
<1>7. ASSUME NEW r \in Requests, Release(r) PROVE IInv'
  <2>1. CASE row' = row
    <3>1. Moves(r)
      BY <1>7, <1>t, <2>1 DEF TypeOK, IInv, Clocks, Release, Moves, Answer, Goto, Claiming
    <3> QED
      BY <1>7, <1>t, <1>s, <3>1, MovesStep DEF Release
  <2>2. CASE Owns(r) /\ row' = [row EXCEPT ![key[r]] = NoRow]
    <3>1. Clocks'
      BY <1>7, Zenon DEF IInv, Clocks, Release
    <3>2. Leases'
      <4> SUFFICES ASSUME NEW q \in Requests
                   PROVE  /\ Reserved(q)' => Holds(q, "inflight")'
                          /\ Stored(q)' => Holds(q, "completed")'
        BY DEF Leases
      <4>1. (Reserved(q)' => q # r /\ Reserved(q)) /\ (Stored(q)' => q # r /\ Stored(q))
        BY <1>7, <1>t DEF TypeOK, Release, Answer, Goto, Reserved, Stored
      <4>2. q # r /\ key[q] = key[r] => ~Reserved(q) /\ ~Stored(q)
        BY <2>2, Zenon DEF IInv, Leases, Holds, Owns
      <4> QED
        BY <1>7, <1>t, <2>2, <4>1, <4>2, Zenon DEF TypeOK, IInv, Leases, Holds, Release
    <3>3. \A p \in Requests : Kept(p) => Kept(p)'
      BY <1>7, <1>t DEF TypeOK, Release, Kept, Claiming, Answer, Goto
    <3>4. RowsOwned'
      <4>1. \A q \in Requests : pc[q] \notin Claiming => pc'[q] \notin Claiming
        BY <1>7, <1>t DEF TypeOK, Release, Claiming, Answer, Goto
      <4>2. \A k \in Keys : Exists(k)' => row'[k] = row[k] /\ Exists(k) /\ row[k].token \in Requests
        BY <1>t, <2>2 DEF TypeOK, Rows, NoRow, Exists
      <4>3. key' = key /\ fp' = fp
        BY <1>7, Zenon DEF Release
      <4> QED
        BY <3>3, <4>1, <4>2, <4>3, Zenon DEF IInv, RowsOwned
    <3>5. Ends'
      <4>1. key' = key /\ fp' = fp /\ outcome' = outcome /\ source' = source
        BY <1>7, Zenon DEF Release
      <4>2. \A q \in Requests :
              /\ pc'[q] = "commit" => pc[q] = "commit"
              /\ reply'[q] = "committed" => pc'[q] = "done" \/ (reply[q] = "committed" /\ pc'[q] = pc[q])
        BY <1>7, <1>t DEF TypeOK, Release, Answer, Goto
      <4>3. \A q \in Requests : \A p \in source[q] : p \in Requests
        BY <1>t DEF TypeOK
      <4> QED
        BY <3>3, <4>1, <4>2, <4>3, Zenon DEF IInv, Ends
    <3> QED
      BY <1>t, <3>1, <3>2, <3>4, <3>5 DEF IInv
  <2> QED
    BY <1>7, <2>1, <2>2, Zenon DEF Release, Released
<1>8. ASSUME NEW r \in Requests, Crash(r) PROVE IInv'
  <2>1. Moves(r)
    BY <1>8, <1>t DEF TypeOK, Crash, Moves, Goto, Forget, Claiming
  <2> QED
    BY <1>8, <1>t, <1>s, <2>1, MovesStep, Zenon DEF Crash
<1>9. CASE SweepStart
  <2>1. Clocks'
    BY <1>9, <1>t DEF TypeOK, IInv, Clocks, SweepStart, reqVars
  <2>2. Leases'
    <3>1. UNCHANGED <<now, row, pc, key, at, reply>>
      BY <1>9 DEF SweepStart, reqVars
    <3> QED
      BY <3>1, Zenon DEF IInv, Leases, Reserved, Stored, Holds
  <2>3. RowsOwned'
    BY <1>9 DEF IInv, RowsOwned, Exists, Kept, SweepStart, reqVars
  <2>4. Ends'
    BY <1>9 DEF IInv, Ends, Kept, SweepStart, reqVars
  <2> QED
    BY <1>t, <2>1, <2>2, <2>3, <2>4 DEF IInv
<1>10. CASE Sweep
  <2>0. PICK t \in sweepAt : \E S \in SweepBatches(t) :
            row' = [k \in Keys |-> IF k \in S THEN NoRow ELSE row[k]]
    BY <1>10 DEF Sweep
  <2>1. PICK S \in SweepBatches(t) : row' = [k \in Keys |-> IF k \in S THEN NoRow ELSE row[k]]
    BY <2>0
  <2>2. \A k \in Keys : row'[k] = row[k] \/ (Vacant(k, t) /\ row'[k] = NoRow)
    <3>1. S \in SUBSET {k \in Keys : Sweepable(k, t)}
      BY Zenon DEF SweepBatches
    <3>2. \A k \in S : Vacant(k, t)
      BY <3>1 DEF Sweepable, Vacant
    <3> QED
      BY <2>1, <3>2
  <2>3. Leases'
    <3> SUFFICES ASSUME NEW q \in Requests
                 PROVE  /\ Reserved(q)' => Holds(q, "inflight")'
                        /\ Stored(q)' => Holds(q, "completed")'
      BY DEF Leases
    <3>1. Reserved(q)' = Reserved(q) /\ Stored(q)' = Stored(q)
      BY <1>10, Zenon DEF Sweep, reqVars, Reserved, Stored
    <3>2. Vacant(key[q], t) => ~Reserved(q) /\ ~Stored(q)
      BY <1>t, VacantIsFree, Zenon DEF TypeOK, IInv, Clocks
    <3> QED
      BY <1>10, <1>t, <2>2, <3>1, <3>2, Zenon DEF TypeOK, IInv, Leases, Holds, Sweep, reqVars
  <2>4. RowsOwned'
    BY <1>10, <1>t, <2>2 DEF TypeOK, IInv, RowsOwned, Sweep, reqVars, Exists, NoRow, Kept
  <2>5. Clocks' /\ Ends'
    BY <1>10, Zenon DEF IInv, Clocks, Ends, Kept, Sweep, reqVars
  <2> QED
    BY <1>t, <2>3, <2>4, <2>5 DEF IInv
<1>11. CASE Tick
  <2>1. Clocks'
    BY <1>11, <1>t DEF TypeOK, IInv, Clocks, Tick, reqVars
  <2>2. Leases'
    <3>1. now' = now + 1 /\ UNCHANGED <<row, pc, key, at, reply>>
      BY <1>11 DEF Tick, reqVars
    <3>2. \A q \in Requests : (Reserved(q)' => Reserved(q)) /\ (Stored(q)' => Stored(q))
      BY <1>t, <3>1 DEF TypeOK, Reserved, Stored
    <3> QED
      BY <3>1, <3>2, Zenon DEF IInv, Leases, Holds
  <2>3. RowsOwned'
    BY <1>11 DEF IInv, RowsOwned, Exists, Kept, Tick, reqVars
  <2>4. Ends'
    BY <1>11 DEF IInv, Ends, Kept, Tick, reqVars
  <2> QED
    BY <1>t, <2>1, <2>2, <2>3, <2>4 DEF IInv
<1>12. CASE Quiet \/ UNCHANGED vars
  <2>1. Clocks'
    BY <1>12, <1>t DEF TypeOK, IInv, Clocks, Quiet, vars
  <2>2. Leases'
    <3>1. UNCHANGED <<now, row, pc, key, at, reply>>
      BY <1>12 DEF Quiet, vars
    <3> QED
      BY <3>1, ZenonT(30) DEF IInv, Leases, Reserved, Stored, Holds
  <2>3. RowsOwned'
    BY <1>12, Zenon DEF IInv, RowsOwned, Exists, Kept, Quiet, vars
  <2>4. Ends'
    BY <1>12 DEF IInv, Ends, Kept, Quiet, vars
  <2> QED
    BY <1>t, <2>1, <2>2, <2>3, <2>4 DEF IInv
<1> QED
  BY <1>1, <1>2, <1>3, <1>4, <1>5, <1>6, <1>7, <1>8, <1>9, <1>10, <1>11, <1>12 DEF Next, Step

(***************************************************************************)
(* Every reachable state has the types of TypeOK, whatever the store, the   *)
(* statements and the processes do.                                         *)
(***************************************************************************)
THEOREM IdempotencyTypes == Spec => []TypeOK
<1>1. Init => TypeOK
  BY InitIInv DEF IInv
<1> QED
  BY <1>1, TypeStep, PTL DEF Spec

(***************************************************************************)
(* For every backend, TTL and number of requests: no two handlers run under *)
(* live reservations of one key (Store.Claim).                              *)
(***************************************************************************)
THEOREM IdempotencyExclusive == Spec => []ExclusiveExecution
<1>1. IInv => ExclusiveExecution
  BY DEF IInv, Leases, Holds, ExclusiveExecution
<1> QED
  BY <1>1, InitIInv, IInvStep, PTL DEF Spec

(***************************************************************************)
(* For every backend, TTL and number of requests: an acknowledged response  *)
(* (Store.Commit) is kept for its TTL.                                      *)
(***************************************************************************)
THEOREM IdempotencyAckedIsKept == Spec => []AckedIsKept
<1>1. IInv => AckedIsKept
  BY DEF IInv, Leases, Holds, AckedIsKept
<1> QED
  BY <1>1, InitIInv, IInvStep, PTL DEF Spec

(***************************************************************************)
(* For every backend, TTL and number of requests: a response is replayed    *)
(* only for the payload that produced it (handleClaim).                     *)
(***************************************************************************)
THEOREM IdempotencyReplays == Spec => []ReplayIsFaithful
<1>1. IInv => ReplayIsFaithful
  BY DEF IInv, Ends, Kept, ReplayIsFaithful
<1> QED
  BY <1>1, InitIInv, IInvStep, PTL DEF Spec

(***************************************************************************)
(* For every backend, TTL and number of requests: while an acknowledged     *)
(* response is retained, no handler starts for its key.                     *)
(***************************************************************************)
THEOREM IdempotencyNoRerun == Spec => NoRerun
<1>1. IInv /\ [Next]_vars =>
        [\A r \in Requests : pc[r] # "run" /\ pc'[r] = "run" =>
            \A q \in Requests : key[q] = key[r] => ~Stored(q)]_vars
  <2> SUFFICES ASSUME IInv, Next, NEW r \in Requests, pc[r] # "run", pc'[r] = "run",
                      NEW q \in Requests, key[q] = key[r]
               PROVE  ~Stored(q)
    BY DEF vars
  <2>t. TypeOK
    BY DEF IInv
  <2>1. \E t \in Nat : t <= now /\ Vacant(key[r], t)
    <3>1. CASE Claim(r)
      BY <2>t, <3>1 DEF TypeOK, Claim, AnswerFrom, Answer, Goto
    <3>2. CASE Reserve(r)
      BY <2>t, <3>2, Zenon DEF TypeOK, IInv, Clocks, Reserve, Answer, Goto
    <3>3. Claim(r) \/ Reserve(r)
      <4>1. ASSUME NEW p \in Requests, Step(p) \/ Crash(p)
            PROVE  \E where : Goto(p, where) /\ (where = "run" => Claim(p) \/ Reserve(p))
        <5>1. CASE Claim(p) \/ Reserve(p)
          BY <5>1, ZenonT(30) DEF Claim, Reserve, AnswerFrom, Answer
        <5>2. CASE Lookup(p)
          <6>1. Goto(p, "done") \/ Goto(p, "reserve")
            BY <5>2, Zenon DEF Lookup, AnswerFrom, Answer
          <6> QED
            BY <6>1
        <5>3. CASE Arrive(p) \/ HandlerReturns(p) \/ Commit(p) \/ Release(p) \/ Crash(p)
          <6>1. \E where \in {"reserve", "release", "commit", "done", "crashed"} : Goto(p, where)
            BY <5>3, Zenon DEF Arrive, HandlerReturns, Commit, Release, Crash, Answer
          <6> QED
            BY <6>1
        <5> QED
          BY <4>1, <5>1, <5>2, <5>3, Zenon DEF Step
      <4>2. ASSUME NEW p \in Requests, Step(p) \/ Crash(p) PROVE p = r
        BY <2>t, <4>1, <4>2 DEF TypeOK, Goto
      <4>3. ~SweepStart /\ ~Sweep /\ ~Tick /\ ~Quiet
        BY DEF SweepStart, Sweep, Tick, Quiet, reqVars, vars
      <4> QED
        BY <2>t, <4>1, <4>2, <4>3 DEF TypeOK, Next, Goto
    <3> QED
      BY <3>1, <3>2, <3>3
  <2> QED
    BY <2>1, VacantIsFree
<1> QED
  BY <1>1, InitIInv, IInvStep, PTL DEF Spec, NoRerun
=============================================================================
