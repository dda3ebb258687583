------------------------------ MODULE MCDocuments ------------------------------
(* Three documents of one or two customers, two requests at once.              *)
EXTENDS Documents, TLC

CONSTANTS ann, ben, nobody, req1, req2

MCSymmetry == Permutations(Customers) \cup Permutations(Requests)
===============================================================================
