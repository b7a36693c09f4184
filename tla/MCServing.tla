------------------------------- MODULE MCServing -------------------------------
(* Instances of Serving for TLC. *)
EXTENDS Serving, TLC

CONSTANTS r1, r2, ann
=============================================================================
