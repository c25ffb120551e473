---- MODULE ClaimOrderMC ----
EXTENDS ClaimOrder, TLC
Symmetry == Permutations(Job) \cup Permutations(Worker)
====
