----------------------------- MODULE MCTwoTier ------------------------------
(***************************************************************************)
(* The two configurations in which the cache promises fresh answers: one    *)
(* replica with concurrent calls over an L2, and two replicas without one.  *)
(***************************************************************************)
EXTENDS TwoTier

CONSTANTS Peer

VARIABLE setup

Peers == INSTANCE TwoTier WITH Replicas <- Replicas \cup {Peer}, Slots <- {1}, HasL2 <- FALSE, MaxEpoch <- 1

MCInit == (setup = "one" /\ Init) \/ (setup = "peers" /\ Peers!Init)
MCNext == /\ (setup = "one" /\ Next) \/ (setup = "peers" /\ Peers!Next)
          /\ UNCHANGED setup

\* FairSpec of each.
MCSpec == /\ MCInit /\ [][MCNext]_<<vars, setup>>
          /\ \A g \in Gets : WF_vars(setup = "one" /\ GetStep(g))
          /\ \A g \in Peers!Gets : WF_vars(setup = "peers" /\ Peers!GetStep(g))
=============================================================================
