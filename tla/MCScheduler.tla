---------------------------- MODULE MCScheduler ----------------------------
(* Scheduler for TLC: sessions are interchangeable.                        *)
EXTENDS Scheduler

Symmetry == Permutations(Sessions)
=============================================================================
