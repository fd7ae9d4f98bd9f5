------------------------------- MODULE MCHooks -------------------------------
(* Model values and symmetry for Hooks.                                    *)
EXTENDS Hooks, TLC

\* Addresses and plugins are only compared.
HookSymmetry == Permutations(Hooks) \cup Permutations(Plugins)
=============================================================================
