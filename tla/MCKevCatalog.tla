---------------------------- MODULE MCKevCatalog ----------------------------
EXTENDS KevCatalog, TLC
CONSTANTS p1, p2

AnyJSON == OtherJSON

TwoProcs == {p1, p2}
ProcSymmetry == Permutations(TwoProcs)
=============================================================================
