-------------------------------- MODULE Intake --------------------------------
(***************************************************************************)
(* Bronze intake: BronzeIngestionService.receive for concurrent uploads to *)
(* one tenant, with the schema pin it ends in (module SchemaPin), and      *)
(* operators and release publication running beside it.                    *)
(*                                                                         *)
(* An upload's identity stands for the ingest_id it would be given, and    *)
(* the bytes of a file for their SHA-256.  The uploads are requests of     *)
(* their own, or the files of one request to the batch route.              *)
(***************************************************************************)
EXTENDS SchemaPin

CONSTANTS Files,     \* byte contents
          Flagged,   \* the ones the configured scanner flags ({} for NullScanner)
          Batch      \* the uploads in the order a batch request lists them

ASSUME FlaggedAssumption == Flagged \subseteq Files /\ None \notin Files
ASSUME BatchAssumption == \A u \in Uploads : \E i \in DOMAIN Batch : Batch[i] = u

VARIABLES
    batched,   \* the uploads came in one batch request
    pc,        \* per upload: where receive is
    file,      \* per upload: the bytes it carries
    objects,   \* per upload: the bytes under its ingest_id's key, or None
    ledger,    \* artefact_ledger: the uploads that have a row
    receipt    \* per upload: None, or the ArtefactReceipt returned

intakeVars == <<batched, pc, file, objects, ledger, receipt>>
vars == <<intakeVars, platformVars, pinVars>>

Stopped == {"refused", "error", "done"}

TypeOK ==
    /\ PinTypeOK
    /\ batched \in BOOLEAN
    /\ pc \in [Uploads -> {"check", "dedup", "scan", "put", "insert", "lookup", "pin"}
                          \union Stopped]
    /\ file \in [Uploads -> Files]
    /\ objects \in [Uploads -> Files \union {None}]
    /\ ledger \subseteq Uploads
    /\ receipt \in [Uploads -> [id : Uploads, deduplicated : BOOLEAN] \union {None}]

Init ==
    /\ PinInit
    /\ batched \in BOOLEAN
    /\ pc = [u \in Uploads |-> "check"]
    /\ file \in [Uploads -> Files]
    /\ objects = [u \in Uploads |-> None]
    /\ ledger = {}
    /\ receipt = [u \in Uploads |-> None]

-----------------------------------------------------------------------------
\* upload_artefact_batch takes the next file when the one before is answered.
Before(u) == {v \in Uploads : batched /\ \E i, j \in DOMAIN Batch :
                                   i < j /\ Batch[i] = v /\ Batch[j] = u}
Turn(u) == \A v \in Before(u) : pc[v] \in {"refused", "done"}

Holders(f) == {v \in ledger : file[v] = f}

To(u, where) == pc' = [pc EXCEPT ![u] = where]

Return(u, id, dedup) ==
    /\ To(u, "done")
    /\ receipt' = [receipt EXCEPT ![u] = [id |-> id, deduplicated |-> dedup]]

\* check_file and _check_document_type_in_scope accept or refuse.
CheckFile(u) ==
    /\ pc[u] = "check"
    /\ Turn(u)
    /\ To(u, "dedup") \/ To(u, "refused")
    /\ UNCHANGED <<batched, file, objects, ledger, receipt, platformVars, pinVars>>

\* A file already held is answered with the prior artefact; it is neither
\* scanned nor stored nor pinned again.
Dedup(u) ==
    /\ pc[u] = "dedup"
    /\ IF Holders(file[u]) # {}
       THEN \E v \in Holders(file[u]) : Return(u, v, TRUE)
       ELSE To(u, "scan") /\ UNCHANGED receipt
    /\ UNCHANGED <<batched, file, objects, ledger, platformVars, pinVars>>

\* Wrong on purpose: the scanner's answer is not looked at.
ScanUnheeded(u) ==
    /\ pc[u] = "scan"
    /\ To(u, "put")
    /\ UNCHANGED <<batched, file, objects, ledger, receipt, platformVars, pinVars>>

Scan(u) ==
    /\ pc[u] = "scan"
    /\ To(u, IF file[u] \in Flagged THEN "refused" ELSE "put")
    /\ UNCHANGED <<batched, file, objects, ledger, receipt, platformVars, pinVars>>

\* Wrong on purpose: a failed PUT is swallowed.
PutSwallowed(u) ==
    /\ pc[u] = "put"
    /\ To(u, "insert")
    /\ UNCHANGED <<batched, file, objects, ledger, receipt, platformVars, pinVars>>

PutObject(u) ==
    /\ pc[u] = "put"
    /\ objects' = [objects EXCEPT ![u] = file[u]]
    /\ To(u, "insert")
    /\ UNCHANGED <<batched, file, ledger, receipt, platformVars, pinVars>>

\* The ledger row, if the content_hash is still free; then the pin.
InsertLedger(u) ==
    /\ pc[u] = "insert"
    /\ Holders(file[u]) = {}
    /\ ledger' = ledger \union {u}
    /\ To(u, "pin")
    /\ Goto(u, "check")
    /\ UNCHANGED <<batched, file, objects, receipt, platformVars>>
    /\ UNCHANGED <<snapshot, pins, clock, pinnedAt, release, body, existing>>

\* Wrong on purpose: the loser removes its object, or starts over.
LoserCleansUp(u) ==
    /\ pc[u] = "insert"
    /\ Holders(file[u]) # {}
    /\ objects' = [objects EXCEPT ![u] = None]
    /\ To(u, "lookup")
    /\ UNCHANGED <<batched, file, ledger, receipt, platformVars, pinVars>>
LoserRetries(u) ==
    /\ pc[u] = "insert"
    /\ Holders(file[u]) # {}
    /\ To(u, "put")
    /\ UNCHANGED <<batched, file, objects, ledger, receipt, platformVars, pinVars>>

\* UniqueViolation: a concurrent identical upload won.
LoseRace(u) ==
    /\ pc[u] = "insert"
    /\ Holders(file[u]) # {}
    /\ To(u, "lookup")
    /\ UNCHANGED <<batched, file, objects, ledger, receipt, platformVars, pinVars>>

\* Wrong on purpose: the receipt carries the loser's id, or no id.
AnswerOwnId(u) ==
    /\ pc[u] = "lookup"
    /\ Return(u, u, TRUE)
    /\ UNCHANGED <<batched, file, objects, ledger, platformVars, pinVars>>
AnswerNoId(u) ==
    /\ pc[u] = "lookup"
    /\ Return(u, None, TRUE)
    /\ UNCHANGED <<batched, file, objects, ledger, platformVars, pinVars>>

LookupWinner(u) ==
    /\ pc[u] = "lookup"
    /\ \E v \in Holders(file[u]) : Return(u, v, TRUE)
    /\ UNCHANGED <<batched, file, objects, ledger, platformVars, pinVars>>

\* ensure_schema_pin has returned, with a pin or without one.
Finish(u) ==
    /\ pc[u] = "pin"
    /\ pinPc[u] \in PinOver
    /\ Return(u, u, FALSE)
    /\ UNCHANGED <<batched, file, objects, ledger, platformVars, pinVars>>

\* Outside the pin nothing is swallowed: the scanner is unreachable, the store
\* or the database fails, or the process dies (then the pin dies with it).  The
\* batch route catches only IntakeRejected: the files behind are not taken up.
Fail(u) ==
    /\ pc[u] \notin Stopped
    /\ Turn(u)
    /\ pc' = [v \in Uploads |-> IF v = u \/ u \in Before(v) THEN "error" ELSE pc[v]]
    /\ IF pinPc[u] \in {"off"} \union PinOver
       THEN UNCHANGED pinPc
       ELSE Goto(u, "failed")
    /\ UNCHANGED <<batched, file, objects, ledger, receipt, platformVars>>
    /\ UNCHANGED <<snapshot, pins, clock, pinnedAt, release, body, existing>>

Receive(u) ==
    \/ CheckFile(u) \/ Dedup(u) \/ Scan(u) \/ PutObject(u)
    \/ InsertLedger(u) \/ LoseRace(u) \/ LookupWinner(u) \/ Finish(u)

Pinning(p) == PinStep(p) /\ UNCHANGED intakeVars
RollForward(o) == StartRollForward(o) /\ UNCHANGED intakeVars
Publishing == Publish /\ UNCHANGED intakeVars

Next ==
    \/ \E u \in Uploads : Receive(u) \/ Fail(u)
    \/ \E p \in Pinners : Pinning(p)
    \/ \E o \in Operators : RollForward(o)
    \/ Publishing

Spec == Init /\ [][Next]_vars

\* A request that was accepted is carried on with until it is answered.
FairSpec == Spec /\ \A u \in Uploads : WF_vars(Receive(u) \/ Pinning(u))

-----------------------------------------------------------------------------
(* Properties.                                                             *)

\* Object first, index second: whatever fails in between, a ledger row always
\* has its bytes, byte for byte, and no two rows hold the same bytes.
LedgerIsBacked ==
    \A u \in ledger : objects[u] = file[u] /\ Holders(file[u]) = {u}

\* All uploads of the same bytes are told the same artefact, which exists,
\* and exactly one of them, the one that wrote it, is told it is new.
ReceiptsAgree ==
    \A u \in Uploads : receipt[u] # None =>
        /\ receipt[u].id \in Holders(file[u])
        /\ receipt[u].deduplicated <=> receipt[u].id # u

\* "A refused file leaves no trace", and bytes the scanner flags are never
\* stored, whichever way they come in.
RefusedLeavesNoTrace ==
    \A u \in Uploads :
        /\ pc[u] = "refused" => objects[u] = None /\ u \notin ledger
        /\ objects[u] \notin Flagged

\* The artefacts of a file that can be read: a ledger row, and these bytes under
\* its key.
Readable(f) == {v \in ledger : objects[v] = f}
Held(f) == IF Readable(f) = {} THEN None ELSE CHOOSE v \in Readable(f) : TRUE

\* To those who upload, object store, ledger, races and failures are one store
\* that keeps each file once, and answers each upload once, with the artefact it
\* keeps; exactly the upload that is kept is told it is new.
Store == INSTANCE ArtefactStore WITH
    held <- [f \in Files |-> Held(f)],
    told <- receipt,
    carries <- file
ImplementsArtefactStore == Store!Spec

\* A pin names an artefact that is in the ledger, and a release whose copy is
\* already in the tenant's bucket.
PinIsBacked ==
    \A i \in DOMAIN pins :
        /\ pins[i].by = None \/ pins[i].by \in ledger
        /\ snapshot[pins[i].release] # 0

\* Bronze is INSERT-only: rows of the ledger, objects and pins stay as they
\* were written.
BronzeIsInsertOnly ==
    [][/\ ledger \subseteq ledger'
       /\ \A u \in Uploads : objects[u] # None => objects'[u] = objects[u]
       /\ Len(pins) <= Len(pins') /\ SubSeq(pins', 1, Len(pins)) = pins]_vars

\* Every upload is answered, refused or reported as failed; in a batch, a file
\* that is refused does not hold up the ones behind it.
EveryUploadEnds == \A u \in Uploads : <>(pc[u] \in Stopped)

\* "never by ingestion itself": an upload does not move a pin in force.
PinMovesOnlyByOperator ==
    [][InForce(pins) # None /\ InForce(pins') # InForce(pins)
         => \E o \in Operators : pinPc[o] = "insert" /\ pinPc'[o] = "pinned"]_vars
===============================================================================
