------------------------------ MODULE MCHandoff ------------------------------
(* Instances of Handoff for TLC; its runs check liveness, so no symmetry is    *)
(* used.                                                                    *)
EXTENDS Handoff
=============================================================================
