------------------------------- MODULE MCLMDB -------------------------------
(* Two processes and one key.                                              *)
EXTENDS LMDB, TLC

CONSTANTS key, w1, w2

MCExtends == key :> {key}
=============================================================================
