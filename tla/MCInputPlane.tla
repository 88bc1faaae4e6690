---------------------------- MODULE MCInputPlane ----------------------------
(***************************************************************************)
(* InputPlane with queues small enough to overflow.                        *)
(***************************************************************************)
EXTENDS InputPlane

=============================================================================
