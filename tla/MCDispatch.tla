------------------------------ MODULE MCDispatch ------------------------------
(* Instances of Dispatch for TLC.                                            *)
EXTENDS Dispatch, TLC

Symmetric == Permutations(Triggers) \union Permutations(Known) \union Permutations(Contents)

\* The artefacts are promoted by promote.py, and are triggered again only once they
\* were answered QUARANTINED: what an operator does after a parser fix.
AfterAFix ==
    \A t \in loadTrigger' \ loadTrigger, u \in loadTrigger :
        pc[u] = "done" /\ outcome[u] = "QUARANTINED"
ParserFixSpec ==
    /\ Init
    /\ \A t \in Triggers : mechanism[t] = "ARCHETYPE1_PROMOTE"
    /\ [][Next /\ AfterAFix]_vars
===============================================================================
