--------------------------- MODULE MCRequirement ---------------------------
(* Requirement on small instances: symmetric ids.                          *)
EXTENDS Requirement, TLC

Symmetric == Permutations(Clients) \cup Permutations(Events)
             \cup Permutations(Requirements) \cup Permutations(WithCriteria)
=============================================================================
