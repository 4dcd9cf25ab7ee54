-------------------------- MODULE MCFallbackChain --------------------------
EXTENDS FallbackChain, FiniteSets
CONSTANTS p1, p2
MCChain == <<p1, p2>>
=============================================================================
