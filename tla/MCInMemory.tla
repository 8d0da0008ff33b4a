----------------------------- MODULE MCInMemory -----------------------------
(* Two keys, one of them with two spellings.                               *)
EXTENDS InMemoryPerProcess, TLC

CONSTANTS ip, IP, user, w1, w2

MCFold == (ip :> ip) @@ (IP :> ip) @@ (user :> user)
WorkerSymmetry == Permutations({w1, w2})
=============================================================================
