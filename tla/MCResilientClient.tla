------------------------- MODULE MCResilientClient -------------------------
(* Two callers race on a chain of two providers with one retry each: one   *)
(* caller's failures can open a circuit while the other is between its     *)
(* check and its calls.                                                    *)
EXTENDS ResilientClientHistory

CONSTANTS p1, p2

MCChain == <<p1, p2>>
=============================================================================
