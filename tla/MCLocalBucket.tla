--------------------------- MODULE MCLocalBucket ----------------------------
(***************************************************************************)
(* Two workloads of LocalBucket: every value on one key, among them values  *)
(* that share a body or a tag, and one value on two keys.                   *)
(***************************************************************************)
EXTENDS LocalBucket

CONSTANTS k1, k2

VARIABLE workload

MCValues == {"a", "b"} \X {"plain", "text"}
Workloads == {[keys |-> {k1}, values |-> MCValues],
              [keys |-> {k1, k2}, values |-> {<<"a", "text">>}]}

Asked(kind, k, value) == k \in workload.keys /\ (kind = "put" => value \in workload.values)

MCInit ==
    /\ Init
    /\ workload \in Workloads
    /\ \A k \in Keys \ workload.keys : dir[k] = NoFiles
MCNext ==
    /\ Next
    /\ pc = "idle" /\ pc' = "recover" => Asked(op'.kind, op'.key, op'.value)
    /\ UNCHANGED workload

\* FairSpec, with the calls of the workload.
MCSpec == MCInit /\ [][MCNext]_<<vars, workload>> /\ WF_vars(Step) /\ WF_vars(Call)
=============================================================================
