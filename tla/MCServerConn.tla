---------------------------- MODULE MCServerConn ----------------------------
(* Model values and symmetry for ServerConn.                               *)
EXTENDS ServerConn, TLC

\* Ids are only compared.
TagSymmetry == Permutations(Tags)
=============================================================================
