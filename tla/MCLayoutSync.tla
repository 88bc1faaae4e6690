----------------------------- MODULE MCLayoutSync -----------------------------
(* Two machines with up to two screens each, for TLC.  A draft has the     *)
(* first screens of both machines, or that of one of them.                 *)
EXTENDS LayoutSync

MCDrafts == {{<<1, 0>>}, {<<2, 0>>}, {<<1, 0>>, <<2, 0>>}}
===============================================================================
