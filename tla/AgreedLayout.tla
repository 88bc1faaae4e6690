----------------------------- MODULE AgreedLayout -----------------------------
(***************************************************************************)
(* What the machines of a mesh promise about the arrangement of their      *)
(* screens.  Every machine has a copy and changes it alone, always for a   *)
(* better one, so that no copy ever returns to what it was; and once       *)
(* nobody changes anything any more the copies are the same.               *)
(***************************************************************************)
CONSTANTS
  Machine,
  Better(_, _)   \* the second of two copies wins over the first

VARIABLE copy

Improve(m) ==
  /\ Better(copy[m], copy'[m])
  /\ copy' = [copy EXCEPT ![m] = copy'[m]]

AgreedSpec == DOMAIN copy = Machine /\ [][\E m \in Machine : Improve(m)]_copy

Agreement == \A m, o \in Machine : copy[m] = copy[o]

===============================================================================
