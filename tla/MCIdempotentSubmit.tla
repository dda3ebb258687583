-------------------------- MODULE MCIdempotentSubmit --------------------------
(* Small instances of IdempotentSubmit: requests that share one key, and one   *)
(* that reuses it for other content; an email key beside them.                 *)
EXTENDS IdempotentSubmit, TLC

CONSTANTS r1, r2, r3, r4, m1, capture, mail, notes, other, nobody

MCKeyOf == [r \in Requests |-> IF r = m1 THEN mail ELSE capture]
MCContentOf == [r \in Requests |-> IF r = r4 THEN other ELSE notes]

Symmetry == Permutations(Requests \ {r4, m1})
===============================================================================
