----------------------------- MODULE MCUserlist -----------------------------
(* Model values and symmetry for Userlist.                                 *)
EXTENDS Userlist, TLC

OpVoice == <<"@", "+">>
AdminOp == <<"&", "@">>

\* Addresses are only compared.
IdSymmetry == Permutations(Ids)
=============================================================================
