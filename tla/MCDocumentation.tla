-------------------------- MODULE MCDocumentation ---------------------------
(***************************************************************************)
(* The documentation tooling: runs of the Markdown gate, over paths of      *)
(* different lengths so that batches differ; and, in place of one whose     *)
(* installation failed at once, the text algorithms, each on one input that *)
(* is built piece by piece.                                                 *)
(***************************************************************************)
EXTENDS MCText, MarkdownGate

MCPathBytes(f) == f

Gating == kind = "gate"
MCInit == Init /\ Gating /\ input = <<>>
StartsText == /\ Gating /\ mode = "gate" /\ step = "done" /\ clock = 0
              /\ reason = "command" /\ settings.maxFiles = 0
              /\ kind' \in DOMAIN Bound
              /\ UNCHANGED <<vars, input>>
MCNext == \/ Gating /\ Next /\ UNCHANGED <<kind, input>>
          \/ StartsText
          \/ TextNext /\ UNCHANGED vars

\* FairSpec of the gate.
MCSpec == /\ MCInit /\ [][MCNext]_<<vars, kind, input>>
          /\ WF_vars(Gating /\ GateStep)
          /\ WF_vars(Gating /\ MainStep /\ UNCHANGED gateVars)
          /\ WF_vars(Gating /\ WorkerStops /\ UNCHANGED gateVars)
=============================================================================
