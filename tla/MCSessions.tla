------------------------------ MODULE MCSessions ------------------------------
(***************************************************************************)
(* Sessions with its bounds given in the configurations.                   *)
(***************************************************************************)
EXTENDS Sessions

=============================================================================
