--------------------------- MODULE MCFilterControl ---------------------------
(* Constants for model-checking FilterControl are all in the configuration. *)
EXTENDS FilterControl, TLC
=============================================================================
