----------------------------- MODULE MCMLPackage -----------------------------
(* MLPackage with a tensor above every threshold, one between the thresholds  *)
(* and one that has no bytes for the weight file.                             *)
EXTENDS MLPackage, TLC

CONSTANTS large, small, bools

MCSize == large :> 4096 @@ small :> 8 @@ bools :> 0

=============================================================================
