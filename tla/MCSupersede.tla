----------------------------- MODULE MCSupersede -----------------------------
(* Instances of Supersede for TLC; its runs check liveness, so no symmetry is    *)
(* used.                                                                    *)
EXTENDS Supersede

\* Every key is on file already, and every load brings a correction of it.
CorrectionsSpec ==
    /\ Spec
    /\ \A k \in Keys : Live(k) # {}
    /\ \A t \in Loads, r \in rows : \A i \in DOMAIN file[t] : file[t][i] # <<r[2], r[3]>>
=============================================================================
