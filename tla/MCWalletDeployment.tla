------------------------- MODULE MCWalletDeployment -------------------------
EXTENDS WalletDeployment, TLC

Symmetry == Permutations(Thread) \cup Permutations(Addr)

\* Bound of the abort run: the screen has at most one update on its way.
OneUpdate == Cardinality(toShow) + (IF uiStale THEN 1 ELSE 0) <= 1
=============================================================================
