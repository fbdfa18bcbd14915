------------------------------- MODULE Dispatch -------------------------------
(***************************************************************************)
(* From a recorded trigger to an answer: record_and_dispatch_trigger,      *)
(* dispatch_load and the load mechanisms behind it, for triggers running   *)
(* concurrently over the artefacts of one tenant, and artefact_outcome,    *)
(* which answers "did my upload succeed" from what they left in Silver.    *)
(*                                                                         *)
(* Every database transaction is one step (module Supersede opens up the   *)
(* row replacement inside it).  A trigger creates at most one batch, so    *)
(* the trigger stands for the batch_id.  What the parser in force makes of *)
(* an artefact may change from one trigger to the next (a parser fix, a    *)
(* corrected registry cell, another doc_type_code or period), so it is     *)
(* chosen at each parse.  The registry is taken to be one that             *)
(* gen_registry_seed accepts: ARCHETYPE1_PROMOTE types are archetype 1.    *)
(***************************************************************************)
EXTENDS Naturals, FiniteSets

CONSTANTS Triggers,
          Artefacts,   \* ingest ids a trigger may name
          Known,       \* the ones in this tenant's artefact_ledger
          Contents,    \* document hashes of GSTN statements
          None         \* no statement yet

ASSUME KnownAssumption == Known \subseteq Artefacts /\ None \notin Contents

\* GSTN_JSON_PROMOTE, by the types it has a loader for.
Returns == {"GSTR_2B", "GSTR_3B"}

\* dispatch_mechanism, with PDF_EXTRACTION split by what its extractor writes:
\* one fact row of its own, or a CSV handed to promote or to a register loader.
Mechanisms == {"PDF_FACT", "PDF_PROMOTE", "PDF_REGISTER", "SALES_REGISTER",
               "REGISTER_LOADER", "ARCHETYPE1_PROMOTE", "NONE"} \union Returns

VARIABLES
    artefact,     \* per trigger: the artefact it names
    mechanism,    \* per trigger: what the registry says of its doc_type_code
    content,      \* per artefact: the document hash it parses to
    pc,           \* per trigger: where record_and_dispatch_trigger is
    outcome,      \* per trigger: what it will answer, or has answered
    badRows,      \* triggers whose parse rejected some rows of the file
    loadTrigger,  \* bronze.load_trigger
    batches,      \* silver.ingest_batch: triggers that have a READY batch
    written,      \* triggers whose business rows are committed
    rejectedRow,  \* silver.rejected_row: batches with rejected rows
    quarantined,  \* silver.quarantined_artefact
    statement,    \* per return: the document hash of the live statement
    published     \* batches whose manifest was sent

inputs == <<artefact, mechanism, content>>
silverVars == <<batches, written, rejectedRow, quarantined, statement>>
vars == <<inputs, pc, outcome, badRows, loadTrigger, silverVars, published>>

Answers == {"ACCEPTED", "PARTIAL", "QUARANTINED"}
Failures == {"UNROUTED", "NOT_FOUND", "BAD_REQUEST", "CONFLICT", "INVALID", "ERROR"}

TypeOK ==
    /\ artefact \in [Triggers -> Artefacts]
    /\ mechanism \in [Triggers -> Mechanisms]
    /\ content \in [Artefacts -> Contents]
    /\ pc \in [Triggers -> {"idle", "recorded", "quarantine", "load", "fact",
                            "publish", "done"}]
    /\ outcome \in [Triggers -> {"none"} \union Answers \union Failures]
    /\ badRows \subseteq Triggers
    /\ loadTrigger \subseteq Triggers
    /\ batches \subseteq Triggers
    /\ written \subseteq Triggers
    /\ rejectedRow \subseteq batches
    /\ quarantined \subseteq Artefacts
    /\ statement \in [Returns -> Contents \union {None}]
    /\ published \subseteq Triggers

Init ==
    /\ artefact \in [Triggers -> Artefacts]
    /\ mechanism \in [Triggers -> Mechanisms]
    /\ content \in [Artefacts -> Contents]
    /\ pc = [t \in Triggers |-> "idle"]
    /\ outcome = [t \in Triggers |-> "none"]
    /\ badRows = {}
    /\ loadTrigger = {}
    /\ batches = {}
    /\ written = {}
    /\ rejectedRow = {}
    /\ quarantined = {}
    /\ statement = [r \in Returns |-> None]
    /\ published = {}

-----------------------------------------------------------------------------
To(t, where) == pc' = [pc EXCEPT ![t] = where]

Answer(t, o) ==
    /\ To(t, "done")
    /\ outcome' = [outcome EXCEPT ![t] = o]

\* load_trigger first, in a transaction of its own.
RecordTrigger(t) ==
    /\ pc[t] = "idle"
    /\ artefact[t] \in Known
    /\ loadTrigger' = loadTrigger \union {t}
    /\ To(t, "recorded")
    /\ UNCHANGED <<inputs, outcome, badRows, silverVars, published>>

UnknownArtefact(t) ==
    /\ pc[t] = "idle"
    /\ artefact[t] \notin Known
    /\ Answer(t, "NOT_FOUND")
    /\ UNCHANGED <<inputs, badRows, loadTrigger, silverVars, published>>

Unrouted(t) ==
    /\ pc[t] = "recorded"
    /\ mechanism[t] = "NONE"
    /\ Answer(t, "UNROUTED")
    /\ UNCHANGED <<inputs, badRows, loadTrigger, silverVars, published>>

\* An extension infer_content_format does not know, a missing period or gstin,
\* a type without an extractor: nothing was parsed.
BadRequest(t) ==
    /\ pc[t] = "recorded"
    /\ Answer(t, "BAD_REQUEST")
    /\ UNCHANGED <<inputs, badRows, loadTrigger, silverVars, published>>

\* A parse changes nothing but where the trigger is.
Parsed(t, where) ==
    /\ To(t, where)
    /\ UNCHANGED <<inputs, outcome, loadTrigger, silverVars, published>>

\* run_extraction reads the text layer and the extractor its fields: without
\* either the document is quarantined, otherwise it goes where its archetype
\* writes to.
Extracts(t, where) ==
    /\ pc[t] = "recorded"
    /\ Parsed(t, where) \/ Parsed(t, "quarantine")

\* Archetypes 3, 4, 6, 7 and 8: one fact of its own.
ExtractFact(t) ==
    /\ mechanism[t] = "PDF_FACT"
    /\ Extracts(t, "fact")
    /\ UNCHANGED badRows

\* A transaction document, handed to promote as a one-row CSV.
ExtractTransaction(t) ==
    /\ mechanism[t] = "PDF_PROMOTE"
    /\ Extracts(t, "load")
    /\ UNCHANGED badRows

\* A table, handed to a register loader, which may reject some of its rows.
ExtractRegister(t) ==
    /\ mechanism[t] = "PDF_REGISTER"
    /\ Extracts(t, "load")
    /\ badRows' \in IF pc'[t] = "load" THEN {badRows, badRows \union {t}} ELSE {badRows}

\* One bad row refuses the whole sales register.
ParseSalesRegister(t) ==
    /\ pc[t] = "recorded"
    /\ mechanism[t] = "SALES_REGISTER"
    /\ Parsed(t, "load") \/ Parsed(t, "quarantine")
    /\ UNCHANGED badRows

\* The register parsers keep the good rows of a file with bad ones; only bad
\* encoding, a missing column or a file without data rows refuses it.
ParseRegister(t) ==
    /\ pc[t] = "recorded"
    /\ mechanism[t] = "REGISTER_LOADER"
    /\ \/ Parsed(t, "load") /\ badRows' \in {badRows, badRows \union {t}}
       \/ Parsed(t, "quarantine") /\ UNCHANGED badRows

\* Wrong on purpose: archetype 1 writes its manifest in a transaction of its own.
ValidateSplit(t) ==
    /\ pc[t] = "recorded"
    /\ mechanism[t] = "ARCHETYPE1_PROMOTE"
    /\ Parsed(t, "fact")
    /\ UNCHANGED badRows

\* validate_transaction_documents finds every line good, or the file is refused.
ValidateDocuments(t) ==
    /\ pc[t] = "recorded"
    /\ mechanism[t] = "ARCHETYPE1_PROMOTE"
    /\ Parsed(t, "load") \/ Parsed(t, "quarantine")
    /\ UNCHANGED badRows

\* ValidationRejected without a quarantine row: nothing is written, and the
\* trigger answers QUARANTINED all the same.
RejectReturn(t) ==
    /\ Answer(t, "QUARANTINED")
    /\ UNCHANGED <<inputs, loadTrigger, silverVars, published>>

\* Malformed JSON, another period, a cdnr section.
ParseGstr2b(t) ==
    /\ pc[t] = "recorded"
    /\ mechanism[t] = "GSTR_2B"
    /\ Parsed(t, "load") \/ RejectReturn(t)
    /\ UNCHANGED badRows

\* Malformed JSON, another period, an inter_sup section, an unknown row type.
ParseGstr3b(t) ==
    /\ pc[t] = "recorded"
    /\ mechanism[t] = "GSTR_3B"
    /\ Parsed(t, "load") \/ RejectReturn(t)
    /\ UNCHANGED badRows

\* Wrong on purpose: the verdict is answered and not stored.
QuarantineUnrecorded(t) ==
    /\ pc[t] = "quarantine"
    /\ Answer(t, "QUARANTINED")
    /\ UNCHANGED <<inputs, badRows, loadTrigger, silverVars, published>>

\* The upsert of quarantined_artefact; no code ever deletes from it.
Quarantine(t) ==
    /\ pc[t] = "quarantine"
    /\ quarantined' = quarantined \union {artefact[t]}
    /\ Answer(t, "QUARANTINED")
    /\ UNCHANGED <<inputs, badRows, loadTrigger, batches, written, rejectedRow,
                   statement, published>>

-----------------------------------------------------------------------------
(* One transaction: the manifest, the rows and the rejected rows.          *)

WriteBatch(t, rejected, answer) ==
    /\ batches' = batches \union {t}
    /\ written' = written \union {t}
    /\ rejectedRow' = rejectedRow \union rejected
    /\ outcome' = [outcome EXCEPT ![t] = answer]
    /\ To(t, "publish")
    /\ UNCHANGED <<inputs, badRows, loadTrigger, quarantined, published>>

LoadSalesRegister(t) ==
    /\ pc[t] = "load"
    /\ mechanism[t] = "SALES_REGISTER"
    /\ WriteBatch(t, {}, "ACCEPTED")
    /\ UNCHANGED statement

\* A PDF extractor that loads a register does not pass its rejections on.
LoadRegister(t) ==
    /\ pc[t] = "load"
    /\ mechanism[t] \in {"REGISTER_LOADER", "PDF_REGISTER"}
    /\ WriteBatch(t, {t} \intersect badRows,
                  IF t \in badRows /\ mechanism[t] = "REGISTER_LOADER"
                  THEN "PARTIAL" ELSE "ACCEPTED")
    /\ UNCHANGED statement

PromoteDocuments(t) ==
    /\ pc[t] = "load"
    /\ mechanism[t] \in {"ARCHETYPE1_PROMOTE", "PDF_PROMOTE"}
    /\ WriteBatch(t, {}, "ACCEPTED")
    /\ UNCHANGED statement

\* The live statement is superseded as a whole.
ReplaceStatement(t, return) ==
    /\ pc[t] = "load"
    /\ mechanism[t] = return
    /\ statement[return] # content[artefact[t]]
    /\ WriteBatch(t, {}, "ACCEPTED")
    /\ statement' = [statement EXCEPT ![return] = content[artefact[t]]]

LoadGstr2b(t) == ReplaceStatement(t, "GSTR_2B")
LoadGstr3b(t) == ReplaceStatement(t, "GSTR_3B")

\* A statement with the hash of the live one: accepted, and nothing is written.
ReturnUnchanged(t) ==
    /\ pc[t] = "load"
    /\ mechanism[t] \in Returns
    /\ statement[mechanism[t]] = content[artefact[t]]
    /\ Answer(t, "ACCEPTED")
    /\ UNCHANGED <<inputs, badRows, loadTrigger, silverVars, published>>

\* Wrong on purpose: the doorbell rings as soon as the manifest is there.
CreateBatchAndRing(t) ==
    /\ pc[t] = "fact"
    /\ t \notin batches
    /\ batches' = batches \union {t}
    /\ published' = published \union {t}
    /\ UNCHANGED <<inputs, pc, outcome, badRows, loadTrigger, written, rejectedRow,
                   quarantined, statement>>

\* create_single_document_batch and record_or_supersede: two transactions.
CreateBatch(t) ==
    /\ pc[t] = "fact"
    /\ t \notin batches
    /\ batches' = batches \union {t}
    /\ UNCHANGED <<inputs, pc, outcome, badRows, loadTrigger, written, rejectedRow,
                   quarantined, statement, published>>

RecordFact(t) ==
    /\ pc[t] = "fact"
    /\ t \in batches
    /\ written' = written \union {t}
    /\ outcome' = [outcome EXCEPT ![t] = "ACCEPTED"]
    /\ To(t, "publish")
    /\ UNCHANGED <<inputs, badRows, loadTrigger, batches, rejectedRow, quarantined,
                   statement, published>>

\* Wrong on purpose: the rejections outlive the rollback of their batch.
RefusedKeepsRejections(t) ==
    /\ pc[t] \in {"load", "fact"}
    /\ rejectedRow' = rejectedRow \union ({t} \intersect badRows)
    /\ \E o \in {"CONFLICT", "INVALID"} : Answer(t, o)
    /\ UNCHANGED <<inputs, badRows, loadTrigger, batches, written, quarantined,
                   statement, published>>

\* The database refuses a row: the open transaction rolls back.
Refused(t) ==
    /\ pc[t] \in {"load", "fact"}
    /\ \E o \in {"CONFLICT", "INVALID"} : Answer(t, o)
    /\ UNCHANGED <<inputs, badRows, loadTrigger, silverVars, published>>

\* The doorbell is best effort and follows the commit; then the answer.
Publish(t) ==
    /\ pc[t] = "publish"
    /\ published' = published \union {t} \/ UNCHANGED published
    /\ To(t, "done")
    /\ UNCHANGED <<inputs, outcome, badRows, loadTrigger, silverVars>>

\* The process dies or a connection is lost: what was committed stays.
Crash(t) ==
    /\ pc[t] \notin {"idle", "done"}
    /\ Answer(t, "ERROR")
    /\ UNCHANGED <<inputs, badRows, loadTrigger, silverVars, published>>

Load(t) ==
    \/ LoadSalesRegister(t) \/ LoadRegister(t) \/ PromoteDocuments(t)
    \/ LoadGstr2b(t) \/ LoadGstr3b(t)

Parse(t) ==
    \/ ExtractFact(t) \/ ExtractTransaction(t) \/ ExtractRegister(t)
    \/ ParseSalesRegister(t) \/ ParseRegister(t) \/ ValidateDocuments(t)
    \/ ParseGstr2b(t) \/ ParseGstr3b(t)

Next == \E t \in Triggers :
    \/ RecordTrigger(t) \/ UnknownArtefact(t) \/ Unrouted(t) \/ BadRequest(t)
    \/ Parse(t) \/ Quarantine(t)
    \/ Load(t) \/ ReturnUnchanged(t) \/ CreateBatch(t) \/ RecordFact(t)
    \/ Refused(t) \/ Publish(t) \/ Crash(t)

Spec == Init /\ [][Next]_vars

-----------------------------------------------------------------------------
(* artefact_outcome: quarantine first, then the batch, then its rejections.*)

BatchesOf(a) == {t \in batches : artefact[t] = a}

\* Wrong on purpose: a batch with rejected rows counts as accepted.
StatusWithoutRejections(a) ==
    IF a \in quarantined THEN "QUARANTINED"
    ELSE IF BatchesOf(a) = {} THEN "PENDING" ELSE "ACCEPTED"

Status(a) ==
    IF a \in quarantined THEN "QUARANTINED"
    ELSE IF BatchesOf(a) = {} THEN "PENDING"
    ELSE IF BatchesOf(a) \intersect rejectedRow = {} THEN "ACCEPTED" ELSE "PARTIAL"

\* tenantctl trigger, which runs the same record_and_dispatch_trigger.
ExitCode(t) == IF outcome[t] \in {"ACCEPTED", "PARTIAL"} THEN 0 ELSE 1

-----------------------------------------------------------------------------
(* Properties.                                                             *)

Answered(t) == pc[t] = "done" /\ outcome[t] \in Answers

\* The load mechanisms that write in one transaction leave all of their batch
\* or nothing, however they end; a trigger that is refused leaves no batch.
\* cmd_trigger: "0 for ACCEPTED/PARTIAL - a real write happened", now or, for a
\* return that is on file already, before.
LoadsAreAtomic ==
    \A t \in Triggers :
        /\ mechanism[t] # "PDF_FACT" =>
            /\ t \in batches <=> t \in written
            /\ outcome[t] \in Failures \ {"ERROR"} => t \notin batches
        /\ pc[t] = "done" /\ ExitCode(t) = 0 => \E u \in written :
            u = t \/ (mechanism[t] \in Returns /\ mechanism[u] = mechanism[t]
                        /\ content[artefact[u]] = content[artefact[t]])

\* The doorbell never rings for a batch whose rows a consumer cannot read, not
\* even for a PDF fact, whose batch is READY before its row is there.
DoorbellMeansComplete == published \subseteq batches \intersect written

\* A client that was told the outcome of a file load never polls PENDING: the
\* past "reported PENDING forever" failure that sales_register.load describes.
AnsweredIsNotPending ==
    \A t \in Triggers : Answered(t) /\ mechanism[t] \notin Returns
        => Status(artefact[t]) # "PENDING"

\* With one trigger for the artefact, polling repeats the trigger's answer.
\* (PDF_REGISTER answers ACCEPTED for a file with bad rows: polling says PARTIAL.)
AnswerAgreesWithStatus ==
    \A t \in Triggers :
        /\ Answered(t)
        /\ mechanism[t] \notin Returns \union {"PDF_REGISTER"}
        /\ \A u \in Triggers \ {t} : artefact[u] = artefact[t] => pc[u] = "idle"
        => Status(artefact[t]) = outcome[t]

\* router.py: "a dispatched trigger is never PENDING, since dispatch_load only
\* returns after the write (or quarantine) already committed".
NeverPending == \A t \in Triggers : Answered(t) => Status(artefact[t]) # "PENDING"

\* silver_reader.py on QUARANTINED: "No batch exists".
QuarantinedMeansNoBatch ==
    \A a \in Artefacts : Status(a) = "QUARANTINED" => BatchesOf(a) \intersect written = {}
=============================================================================
