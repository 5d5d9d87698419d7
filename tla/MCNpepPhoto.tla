---------------------------- MODULE MCNpepPhoto ----------------------------
EXTENDS NpepPhoto, TLC
CONSTANTS e1, e2, x1, x2, h1, h2
MCNear == {}
PhotoSymmetry == Permutations(Events) \cup Permutations(Contents) \cup Permutations(Handlers)
=============================================================================
