--------------------------- MODULE MCSharedMemory ---------------------------
(* Commands that between them meet every outcome of the policy but MERGE,   *)
(* which takes the same steps as REPLACE: a note that expires, a person's   *)
(* correction, and the same correction proposed by an agent that is unsure. *)
EXTENDS SharedMemory, TLC

CONSTANTS k1, k2, k3, a, b

MCCommand ==
    k1 :> [content |-> a, evidence |-> 1, confidence |-> 8, expires |-> TRUE,  human |-> FALSE] @@
    k2 :> [content |-> b, evidence |-> 2, confidence |-> 4, expires |-> FALSE, human |-> TRUE]  @@
    k3 :> [content |-> b, evidence |-> 2, confidence |-> 4, expires |-> FALSE, human |-> FALSE]

MemorySymmetry == Permutations(Calls)
=============================================================================
