----------------------------- MODULE MCUnitChain -----------------------------
(* UnitChain for TLC.  The finding identities are interchangeable, but        *)
(* ChainEnds is a liveness property, so no symmetry is declared.              *)
EXTENDS UnitChain
=============================================================================
