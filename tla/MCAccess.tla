------------------------------ MODULE MCAccess ------------------------------
EXTENDS Access, TLC

\* Addresses, clients and requests are interchangeable.
Symmetry == Permutations(Emails) \cup Permutations(Networks) \cup Permutations(Attempts)
=============================================================================
