------------------------------ MODULE BatchQueue ------------------------------
(***************************************************************************)
(* What the hand-off promises Pipeline 2: a durable queue.  Every batch    *)
(* that was handed over waits in it until some version of the engine has   *)
(* executed it, nothing else takes it out, and each version writes the     *)
(* results of a batch once; never those of a batch not handed over.        *)
(***************************************************************************)
EXTENDS Naturals

CONSTANTS Batches, Versions

VARIABLES given,     \* the batches handed over
          waiting,   \* the ones no version has executed
          results    \* per batch and version: how often its results were written

vars == <<given, waiting, results>>

Init ==
    /\ given = {}
    /\ waiting = {}
    /\ results = [k \in Batches \X Versions |-> 0]

HandOver(b) ==
    /\ b \notin given
    /\ given' = given \union {b}
    /\ waiting' = waiting \union {b}
    /\ UNCHANGED results

Execute(b, v) ==
    /\ b \in given
    /\ results[<<b, v>>] = 0
    /\ results' = [results EXCEPT ![<<b, v>>] = 1]
    /\ waiting' = waiting \ {b}
    /\ UNCHANGED given

Next ==
    \/ \E b \in Batches : HandOver(b)
    \/ \E b \in Batches, v \in Versions : Execute(b, v)

Spec == Init /\ [][Next]_vars
===============================================================================
