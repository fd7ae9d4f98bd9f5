---------------------------- MODULE MCSendQueue -----------------------------
(* Model values and symmetry for SendQueue.                                *)
EXTENDS SendQueue, TLC

\* The ids of ordinary lines are only compared.
IdSymmetry == Permutations(Ids)
=============================================================================
