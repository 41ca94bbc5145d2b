---------------------------- MODULE OutboxPromise ----------------------------
(***************************************************************************)
(* What the transactional outbox promises to the application (package doc   *)
(* of outbox/outbox.go): an event exists from the commit that stored it,    *)
(* and becomes done exactly once.  It becomes done together with its job,   *)
(* or without one when it was dropped or dispatched by hand.                *)
(***************************************************************************)
CONSTANTS Events
VARIABLES status, queued

Init ==
    /\ status = [e \in Events |-> "none"]
    /\ queued = {}

Store(e) ==
    /\ status[e] = "none"
    /\ status' = [status EXCEPT ![e] = "stored"]
    /\ UNCHANGED queued

\* A set of stored events becomes done; some of them get a job.
Deliver(S, withJob) ==
    /\ \A e \in S : status[e] = "stored"
    /\ status' = [e \in Events |-> IF e \in S THEN "done" ELSE status[e]]
    /\ queued' = queued \cup withJob

Next ==
    \/ \E e \in Events : Store(e)
    \/ \E S \in SUBSET Events : \E withJob \in SUBSET S : Deliver(S, withJob)

Spec == Init /\ [][Next]_<<status, queued>>
=============================================================================
