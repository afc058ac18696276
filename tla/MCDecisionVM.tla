---------------------------- MODULE MCDecisionVM ----------------------------
(* The virtual machine, instantiated for TLC.                              *)
EXTENDS DecisionVMRefinement
=============================================================================
