---------------------------- MODULE ArtefactStore ----------------------------
(***************************************************************************)
(* What Bronze promises those who upload: a store of bytes that keeps the  *)
(* first upload of any bytes, once and for good, and tells every upload    *)
(* that gets an answer which artefact holds its bytes, and whether it is   *)
(* new.  An answer is given once, and never before the artefact it names   *)
(* can be read.                                                            *)
(***************************************************************************)
CONSTANTS Uploads, Files, Flagged, None

VARIABLES held,      \* per file: the upload it is kept as, or None
          told,      \* per upload: the answer it was given, or None
          carries    \* per upload: the file it carries

vars == <<held, told, carries>>

Init ==
    /\ held = [f \in Files |-> None]
    /\ told = [u \in Uploads |-> None]
    /\ carries \in [Uploads -> Files]

Keep(u) ==
    /\ carries[u] \notin Flagged
    /\ held[carries[u]] = None
    /\ held' = [held EXCEPT ![carries[u]] = u]
    /\ UNCHANGED <<told, carries>>

Tell(u) ==
    /\ told[u] = None
    /\ held[carries[u]] # None
    /\ told' = [told EXCEPT ![u] = [id           |-> held[carries[u]],
                                   deduplicated |-> held[carries[u]] # u]]
    /\ UNCHANGED <<held, carries>>

Next == \E u \in Uploads : Keep(u) \/ Tell(u)

Spec == Init /\ [][Next]_vars
==============================================================================
