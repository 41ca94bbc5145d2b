------------------------------ MODULE MCOutbox ------------------------------
(***************************************************************************)
(* Two deployments of Outbox: two drainers that race over an ordinary and a *)
(* dropped event, and one drainer whose batches two poison events fill.     *)
(* A deployment says which events the application adds, which replicas are  *)
(* started and how many faults there are.                                   *)
(***************************************************************************)
EXTENDS Outbox

CONSTANTS d1, d2

VARIABLE deployment

Deployments == {[events |-> {3, 4}, drainers |-> {d1, d2}, faults |-> 2],
                [events |-> {1, 2, 3}, drainers |-> {d1}, faults |-> 0]}

MCInit == Init /\ deployment \in Deployments
MCNext ==
    /\ Next
    /\ \A e \in Events \ deployment.events : row'[e] = "absent"
    /\ \A d \in Drainers \ deployment.drainers : run'[d] = "off"
    /\ faults' <= deployment.faults
    /\ UNCHANGED deployment

\* FairSpec, with the replicas of the deployment.
MCSpec ==
    /\ MCInit /\ [][MCNext]_<<vars, deployment>>
    /\ \A d \in Drainers : WF_vars(d \in deployment.drainers /\ Replica(d))
    /\ WF_vars(ServerReaps) /\ WF_vars(Tick)
=============================================================================
