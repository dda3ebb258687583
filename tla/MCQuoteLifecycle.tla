--------------------------- MODULE MCQuoteLifecycle ---------------------------
(* Small instances of QuoteLifecycle: two requests and a viewer.  Requests are *)
(* interchangeable, and so are the customers.                                  *)
EXTENDS QuoteLifecycle, TLC

CONSTANTS q1, q2, v1, ann, bob, nobody

Symmetry == Permutations(Requests) \cup Permutations(Customers)
===============================================================================
