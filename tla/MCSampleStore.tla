---------------------------- MODULE MCSampleStore ----------------------------
(* The history of traffic on its own, for what its comments promise. *)
EXTENDS SampleStore
=============================================================================
