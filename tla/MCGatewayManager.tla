--------------------------- MODULE MCGatewayManager ---------------------------
(* Model-checking instance of GatewayManager: names, configs and task slots *)
(* are model values given in the .cfg files.                                *)
EXTENDS GatewayManager, TLC

\* Task slots are interchangeable (used only where no liveness is checked).
TaskSymmetry == Permutations(Tasks)
=============================================================================
