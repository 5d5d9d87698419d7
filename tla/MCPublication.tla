---------------------------- MODULE MCPublication ----------------------------
EXTENDS Publication, TLC
CONSTANTS p1, p2, h1, h2, t1, t2, s1, w1, w2, b1, b2, k1
MCScope == {t1} \X Workspaces
MCPartScope == {<<t1, w1>>}
MCScreenWorkspaces == [s \in Screens |-> {w1}]
HandlerSymmetry == Permutations(Handlers)
RowSymmetry == Permutations(Handlers) \cup Permutations(Ids)
=============================================================================
