---------------------------- MODULE MCAudioRoute ----------------------------
(* An incoming call and one the user places. *)
EXTENDS AudioRoute

CONSTANTS in, out
=============================================================================
