---------------------------- MODULE MCEgressGate ----------------------------
(* Launches side by side.                                                   *)
EXTENDS EgressGate, TLC

=============================================================================
