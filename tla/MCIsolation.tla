------------------------------ MODULE MCIsolation ------------------------------
(* An instance of Isolation for TLC.                                         *)
EXTENDS Isolation, TLC

Symmetric == Permutations(Old)

\* Changes by hand, or commands of provisioning and deprovisioning; the runs of
\* apply_tenant come between either.
OneOfTheTwo == hands' = 0 \/ commands' = 0
ApartSpec == Init /\ [][Next /\ OneOfTheTwo]_vars
===============================================================================
