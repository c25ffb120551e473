---------------------------- MODULE OperatorApiMC ----------------------------
(***************************************************************************)
(* OperatorApi for TLC.                                                    *)
(***************************************************************************)
EXTENDS OperatorApi, TLC

\* Jobs, holders and clients are interchangeable.
Symmetry ==
  Permutations(Job) \cup Permutations(Holder) \cup Permutations(Client)
===============================================================================
