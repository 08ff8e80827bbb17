-------------------------- MODULE MCRuntimeOverrides --------------------------
(* Instances of RuntimeOverrides for TLC. *)
EXTENDS RuntimeOverrides, TLC

CONSTANTS k1, k2

MCNewValue == k1 :> "BROKEN" @@ k2 :> "MAINTENANCE"

===============================================================================
