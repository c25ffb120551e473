----------------------------- MODULE LeaseQueueMC -----------------------------
(***************************************************************************)
(* LeaseQueue and its refinement for TLC.                                  *)
(***************************************************************************)
EXTENDS QueueLifecycle, TLC

\* Jobs, servers and slots are interchangeable: no definition names one.
Symmetry ==
  Permutations(Job) \cup Permutations(Server) \cup Permutations(Slot)
===============================================================================
