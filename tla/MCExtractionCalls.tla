-------------------------- MODULE MCExtractionCalls --------------------------
(* Two clients that may call again, one slot, two tiers of two requests. *)
EXTENDS ExtractionCalls

CONSTANTS phone, laptop
===============================================================================
