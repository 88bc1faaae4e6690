---------------------------- MODULE MCClipboard ----------------------------
(* Two machines for TLC: a Wayland one that takes pictures, 1, and text,   *)
(* 2, and one that takes only text; whatever is copied is both.            *)
EXTENDS Clipboard

CONSTANTS a, b

MCTakes == [n \in Machine |-> IF n = a THEN Format ELSE {2}]
MCShapes == {Format}
============================================================================
