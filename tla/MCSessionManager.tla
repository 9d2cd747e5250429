--------------------------- MODULE MCSessionManager ---------------------------
EXTENDS SessionManager, TLC
Symmetry == Permutations(Session)
===============================================================================
