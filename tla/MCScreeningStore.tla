-------------------------- MODULE MCScreeningStore --------------------------
EXTENDS ScreeningStore, TLC

CONSTANTS d1, d2, r1, r2

OneDoc == {d1}
TwoDocs == {d1, d2}
OneRequest == {r1}
TwoRequests == {r1, r2}

Symmetry == Permutations(TwoRequests)
=============================================================================
