-------------------------- MODULE MCAuthentication --------------------------
EXTENDS Authentication, TLC

\* Passwords are interchangeable.
PasswordSymmetry == Permutations(Passwords)

=============================================================================
