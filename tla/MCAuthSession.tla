---------------------------- MODULE MCAuthSession ----------------------------
(* Two tabs, of one browser or of two; two calls at once in the first tab. *)
EXTENDS AuthSession, TLC

CONSTANTS phone, laptop, tabA, tabB, a1, a2, b1, form1, form2

MCTabOf == (a1 :> tabA) @@ (a2 :> tabA) @@ (b1 :> tabB)
MCSymmetry ==
  Permutations({phone, laptop}) \cup Permutations({a1, a2}) \cup Permutations({form1, form2})
===============================================================================
