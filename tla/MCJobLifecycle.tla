---------------------------- MODULE MCJobLifecycle ----------------------------
(* Small instances of JobLifecycle. *)
EXTENDS JobLifecycle

CONSTANTS x1, x2, e1, alice

MCOwner == [j \in Jobs |-> alice]
===============================================================================
