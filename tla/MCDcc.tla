------------------------------- MODULE MCDcc --------------------------------
EXTENDS Dcc, TLC

\* Addresses are only compared.
DccSymmetry == Permutations(Dccs)
=============================================================================
