----------------------- MODULE MCTransactionLifecycle -----------------------
(* Instances of TransactionLifecycle for TLC.                              *)
EXTENDS TransactionLifecycle, TLC

Symmetry == Permutations(Ids) \cup Permutations(Tasks) \cup Permutations(Pollers)

\* What a trap does to the process a crash does as well: runs do not go on
\* after one.  Without a synchronisation loop nobody looks at receipts.
Interesting ==
    /\ trap = "none"
    /\ Pollers = {} => \A h \in Hashes : receipts[h] = "none"

=============================================================================
