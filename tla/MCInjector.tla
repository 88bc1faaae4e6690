------------------------------ MODULE MCInjector ------------------------------
(***************************************************************************)
(* One key besides the modifiers, with a character on each level that has  *)
(* a modifier of its own.                                                  *)
(***************************************************************************)
EXTENDS Injector

MCCharacters == {[key |-> "a", level |-> l] : l \in {{"shift"}, {"level3"}}}

MCSnapshots == {{}, {"ctrl"}, {"shift", "level3"}}

=============================================================================
