--------------------------- MODULE MCTermTransition ---------------------------
EXTENDS TermTransition
CONSTANTS t1, t2, t3, s1, m1, m2
=============================================================================
