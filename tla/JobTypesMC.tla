------------------------------ MODULE JobTypesMC ------------------------------
(* Payloads for TLC: one that is not good, and numbers around MaxSeconds. *)
EXTENDS JobTypes

MCPayload == {[good |-> FALSE, n |-> 1]} \cup [good : {TRUE}, n : {-1, 0, 1, 3}]
===============================================================================
