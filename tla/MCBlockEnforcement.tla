------------------------- MODULE MCBlockEnforcement -------------------------
(* Constants for model-checking BlockEnforcement. *)
EXTENDS BlockEnforcement, TLC

CONSTANTS h, a, b, g1, g2

NetworkSymmetry == Permutations(Gateway)

=============================================================================
