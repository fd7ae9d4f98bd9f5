----------------------------- MODULE MCSessions -----------------------------
(* Model values and symmetry for Sessions.                                 *)
EXTENDS Sessions, TLC

\* Addresses are only compared.
AddressSymmetry == Permutations(Windows) \cup Permutations(Servers)
=============================================================================
