------------------------------- MODULE MCTenancy -------------------------------
(* Instances of Tenancy for TLC.  Its run checks liveness and one tenant is  *)
(* settled, so no symmetry is used.                                          *)
EXTENDS Tenancy
===============================================================================
