--------------------------- MODULE MCBitcoinRelay ---------------------------
(* Instances of BitcoinRelay for TLC.                                      *)
EXTENDS BitcoinRelay, TLC

CONSTANTS a, b

(* Nothing tells one branch from another; for runs without liveness.       *)
Branches == Permutations(Branch)
=============================================================================
