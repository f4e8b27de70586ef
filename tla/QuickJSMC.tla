----------------------------- MODULE QuickJSMC -----------------------------
(* Small instances of QuickJS for TLC. *)
EXTENDS QuickJS, TLC

Symmetry == Permutations(Values)
=============================================================================
