------------------------ MODULE MCOwnerModification ------------------------
(* Instances of OwnerModification for TLC.                                 *)
EXTENDS OwnerModification, TLC

Symmetry == Permutations(Ids) \cup Permutations(Tasks)

\* What a trap does to the process a crash does as well: runs do not go on
\* after one.
Interesting == trap = "none"

\* One of: the process is killed, a read of the owners fails, the user chooses
\* another fee token.
OneDisturbance == Interesting /\ crashes + failedReads + chosen <= 1
=============================================================================
