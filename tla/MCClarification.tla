-------------------------- MODULE MCClarification --------------------------
EXTENDS Clarification, TLC

\* Messages are interchangeable: no transaction compares them with one another.
Symmetry == Permutations(Messages)
=============================================================================
