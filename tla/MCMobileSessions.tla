-------------------------- MODULE MCMobileSessions --------------------------
(* MobileSessions for TLC: requests in flight are interchangeable. *)
EXTENDS MobileSessions, TLC

RequestSymmetry == Permutations(Requests)
=============================================================================
