---------------------------- MODULE MCCaptureOutbox ---------------------------
(* Small instances of CaptureOutbox.  Passes are interchangeable.              *)
EXTENDS CaptureOutbox, TLC

CONSTANTS pass1, pass2, screen1

Symmetry == Permutations(Passes)
===============================================================================
