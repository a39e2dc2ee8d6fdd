------------------------- MODULE MCSubscriptionFiles -------------------------
EXTENDS SubscriptionFiles, TLC

Symmetry == Permutations(Requests)
=============================================================================
