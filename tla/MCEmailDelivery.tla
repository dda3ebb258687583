---------------------------- MODULE MCEmailDelivery ---------------------------
(* Two overlapping requests with two tries each; requests are interchangeable. *)
EXTENDS EmailDelivery, TLC

CONSTANTS send1, send2

Symmetry == Permutations(Requests)
===============================================================================
