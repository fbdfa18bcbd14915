---------------------------- MODULE DispatchProofs ----------------------------
(***************************************************************************)
(* Proofs about Dispatch, for every number of concurrent triggers, every   *)
(* set of artefacts and every mix of load mechanisms.                      *)
(***************************************************************************)
EXTENDS Dispatch, TLAPS

-----------------------------------------------------------------------------
(* The inductive invariant, in parts.                                      *)

\* Where a trigger is says what it has committed and answered so far.
Places ==
    \A t \in Triggers :
        /\ pc[t] \notin {"publish", "done"} => outcome[t] = "none" /\ t \notin written
        /\ pc[t] \in {"idle", "recorded", "quarantine", "load"} => t \notin batches
        /\ pc[t] = "quarantine" => mechanism[t] \notin Returns
        /\ pc[t] = "fact" => mechanism[t] = "PDF_FACT"
        /\ pc[t] = "publish" => t \in written /\ outcome[t] \in {"ACCEPTED", "PARTIAL"}
        /\ pc[t] = "done" => outcome[t] # "none"

\* Rows have their manifest, and but for a PDF fact a manifest has its rows;
\* a trigger the database refused left no manifest.
Manifests ==
    \A t \in Triggers :
        /\ t \in written => t \in batches
        /\ mechanism[t] # "PDF_FACT" /\ t \in batches => t \in written
        /\ mechanism[t] # "PDF_FACT" /\ outcome[t] \in Failures \ {"ERROR"} =>
              t \notin batches

\* Rejected rows are those of the batches answered PARTIAL, unless the answer
\* was lost or came through a PDF extractor.
Rejections ==
    \A t \in Triggers :
        /\ outcome[t] = "PARTIAL" => t \in rejectedRow
        /\ t \in rejectedRow /\ mechanism[t] # "PDF_REGISTER" =>
              outcome[t] \in {"PARTIAL", "ERROR"}

\* quarantined_artefact and the answers QUARANTINED.
Verdicts ==
    /\ \A a \in quarantined : \E t \in Triggers :
          artefact[t] = a /\ pc[t] = "done" /\ outcome[t] = "QUARANTINED"
    /\ \A t \in Triggers :
          outcome[t] = "QUARANTINED" /\ mechanism[t] \notin Returns =>
              artefact[t] \in quarantined

\* A live statement was written by a load.
StatementOnFile ==
    \A r \in Returns : statement[r] # None =>
        \E u \in written : mechanism[u] = r /\ content[artefact[u]] = statement[r]

\* An answer that says a write happened has one to show: its own, or that of
\* the same return before it.
OnFile(t) ==
    \E u \in written :
        u = t \/ (mechanism[t] \in Returns /\ mechanism[u] = mechanism[t]
                    /\ content[artefact[u]] = content[artefact[t]])
AcceptedOnFile ==
    \A t \in Triggers : outcome[t] \in {"ACCEPTED", "PARTIAL"} => OnFile(t)

\* The doorbell has rung for committed rows only.
Rung == published \subseteq written

IndInv ==
    /\ TypeOK
    /\ Places
    /\ Manifests
    /\ Rejections
    /\ Verdicts
    /\ StatementOnFile
    /\ AcceptedOnFile
    /\ Rung

-----------------------------------------------------------------------------
(* One lemma per kind of step.                                             *)

\* Nothing was triggered yet.
LEMMA IndInit == Init => IndInv
  <1> SUFFICES ASSUME Init PROVE IndInv
    OBVIOUS
  <1>1. TypeOK
    BY DEF Init, TypeOK
  <1>2. Places /\ Manifests /\ Rejections /\ Verdicts
    BY DEF Init, Places, Manifests, Rejections, Verdicts, Failures, Returns
  <1>3. StatementOnFile /\ AcceptedOnFile /\ Rung
    BY DEF Init, StatementOnFile, AcceptedOnFile, Rung
  <1> QED
    BY <1>1, <1>2, <1>3 DEF IndInv

\* A trigger moves on and commits nothing to Silver.
LEMMA MoveOn ==
    ASSUME IndInv, NEW t \in Triggers, NEW where, To(t, where),
           UNCHANGED <<inputs, outcome, silverVars, published>>,
           badRows' \subseteq Triggers, loadTrigger' \subseteq Triggers,
           \/ pc[t] = "idle" /\ where = "recorded"
           \/ pc[t] = "recorded" /\ where = "quarantine" /\ mechanism[t] \notin Returns
           \/ pc[t] = "recorded" /\ where = "load"
           \/ pc[t] = "recorded" /\ where = "fact" /\ mechanism[t] = "PDF_FACT"
    PROVE  IndInv'
  <1> USE DEF IndInv
  <1>1. /\ UNCHANGED <<artefact, mechanism, content, outcome, batches, written, rejectedRow>>
        /\ UNCHANGED <<quarantined, statement, published>>
        /\ pc' = [pc EXCEPT ![t] = where]
    BY DEF To, inputs, silverVars
  <1>2. TypeOK'
    BY <1>1 DEF TypeOK
  <1>3. Places'
    BY <1>1 DEF Places, TypeOK
  <1>4. Verdicts'
    BY <1>1 DEF Verdicts, TypeOK
  <1>5. Manifests' /\ Rejections' /\ StatementOnFile' /\ AcceptedOnFile' /\ Rung'
    BY <1>1 DEF Manifests, Rejections, StatementOnFile, AcceptedOnFile, OnFile, Rung
  <1> QED
    BY <1>2, <1>3, <1>4, <1>5

\* A trigger answers without a write of its own.
LEMMA AnswerOnly ==
    ASSUME IndInv, NEW t \in Triggers, NEW o, Answer(t, o),
           UNCHANGED <<inputs, badRows, loadTrigger, silverVars, published>>,
           \/ o = "ERROR" /\ pc[t] # "done"
           \/ o \in Failures /\ pc[t] \in {"idle", "recorded", "load", "fact"}
           \/ o = "QUARANTINED" /\ pc[t] = "recorded" /\ mechanism[t] \in Returns
           \/ o = "ACCEPTED" /\ pc[t] = "load" /\ OnFile(t)
    PROVE  IndInv'
  <1> USE DEF IndInv
  <1>1. /\ UNCHANGED <<artefact, mechanism, content, badRows, loadTrigger, batches, written>>
        /\ UNCHANGED <<rejectedRow, quarantined, statement, published>>
        /\ pc' = [pc EXCEPT ![t] = "done"] /\ outcome' = [outcome EXCEPT ![t] = o]
    BY DEF Answer, To, inputs, silverVars
  <1>2. TypeOK'
    BY <1>1 DEF TypeOK, Answers, Failures
  <1>3. Places'
    BY <1>1 DEF Places, TypeOK, Failures
  <1>4. Manifests'
    BY <1>1 DEF Manifests, Places, TypeOK, Failures
  <1>5. Rejections'
    BY <1>1 DEF Rejections, Places, Manifests, TypeOK, Failures
  <1>6. Verdicts'
    BY <1>1 DEF Verdicts, Places, TypeOK, Failures
  <1>7. StatementOnFile' /\ Rung'
    BY <1>1 DEF StatementOnFile, Rung
  <1>8. AcceptedOnFile'
    BY <1>1 DEF AcceptedOnFile, OnFile, TypeOK, Failures
  <1> QED
    BY <1>2, <1>3, <1>4, <1>5, <1>6, <1>7, <1>8

\* The upsert of the verdict, and the answer that repeats it.
LEMMA QuarantineStep ==
    ASSUME IndInv, NEW t \in Triggers, Quarantine(t)
    PROVE  IndInv'
  <1> USE DEF IndInv
  <1>1. /\ UNCHANGED <<artefact, mechanism, content, badRows, loadTrigger, batches, written>>
        /\ UNCHANGED <<rejectedRow, statement, published>>
        /\ pc[t] = "quarantine" /\ quarantined' = quarantined \union {artefact[t]}
        /\ pc' = [pc EXCEPT ![t] = "done"]
        /\ outcome' = [outcome EXCEPT ![t] = "QUARANTINED"]
    BY DEF Quarantine, Answer, To, inputs
  <1>2. TypeOK'
    BY <1>1 DEF TypeOK, Answers
  <1>3. Places'
    BY <1>1 DEF Places, TypeOK
  <1>4. Manifests' /\ Rejections'
    BY <1>1 DEF Manifests, Rejections, Places, TypeOK, Failures
  <1>5. Verdicts'
    BY <1>1 DEF Verdicts, Places, TypeOK
  <1>6. StatementOnFile' /\ Rung' /\ AcceptedOnFile'
    BY <1>1 DEF StatementOnFile, Rung, AcceptedOnFile, OnFile, TypeOK
  <1> QED
    BY <1>2, <1>3, <1>4, <1>5, <1>6

\* The transaction of a load mechanism: manifest, rows and rejected rows.
LEMMA WriteStep ==
    ASSUME IndInv, NEW t \in Triggers, NEW rejected, NEW answer,
           WriteBatch(t, rejected, answer), pc[t] = "load",
           \/ rejected = {} /\ answer = "ACCEPTED"
           \/ rejected = {t} /\ answer = "PARTIAL"
           \/ rejected = {t} /\ answer = "ACCEPTED" /\ mechanism[t] = "PDF_REGISTER",
           \/ statement' = statement
           \/ /\ mechanism[t] \in Returns
              /\ statement' = [statement EXCEPT ![mechanism[t]] = content[artefact[t]]]
    PROVE  IndInv'
  <1> USE DEF IndInv
  <1>1. /\ UNCHANGED <<artefact, mechanism, content, badRows, loadTrigger, quarantined, published>>
        /\ batches' = batches \union {t} /\ written' = written \union {t}
        /\ rejectedRow' = rejectedRow \union rejected
        /\ pc' = [pc EXCEPT ![t] = "publish"] /\ outcome' = [outcome EXCEPT ![t] = answer]
    BY DEF WriteBatch, To, inputs
  <1>2. t \notin batches /\ t \notin rejectedRow /\ outcome[t] = "none"
    BY DEF Places, TypeOK
  <1>3. statement' \in [Returns -> Contents \union {None}]
    BY DEF TypeOK
  <1>4. TypeOK'
    BY <1>1, <1>3 DEF TypeOK, Answers
  <1>5. Places'
    BY <1>1 DEF Places, TypeOK
  <1>6. Manifests'
    BY <1>1 DEF Manifests, TypeOK, Failures
  <1>7. Rejections'
    BY <1>1, <1>2 DEF Rejections, TypeOK
  <1>8. Verdicts'
    BY <1>1, <1>2 DEF Verdicts, TypeOK
  <1>9. StatementOnFile'
    BY <1>1 DEF StatementOnFile, TypeOK
  <1>10. AcceptedOnFile' /\ Rung'
    BY <1>1 DEF AcceptedOnFile, OnFile, Rung, TypeOK
  <1> QED
    BY <1>4, <1>5, <1>6, <1>7, <1>8, <1>9, <1>10

\* A PDF fact: the manifest first, in a transaction of its own.
LEMMA CreateBatchStep ==
    ASSUME IndInv, NEW t \in Triggers, CreateBatch(t)
    PROVE  IndInv'
  <1> USE DEF IndInv
  <1>1. /\ UNCHANGED <<artefact, mechanism, content, pc, outcome, badRows, loadTrigger, written>>
        /\ UNCHANGED <<rejectedRow, quarantined, statement, published>>
        /\ pc[t] = "fact" /\ batches' = batches \union {t}
    BY DEF CreateBatch, inputs
  <1>2. TypeOK'
    BY <1>1 DEF TypeOK
  <1>3. Places' /\ Manifests' /\ Rejections'
    BY <1>1 DEF Places, Manifests, Rejections, TypeOK
  <1>4. Verdicts' /\ StatementOnFile' /\ AcceptedOnFile' /\ Rung'
    BY <1>1 DEF Verdicts, StatementOnFile, AcceptedOnFile, OnFile, Rung
  <1> QED
    BY <1>2, <1>3, <1>4

\* ... and then the fact.
LEMMA RecordFactStep ==
    ASSUME IndInv, NEW t \in Triggers, RecordFact(t)
    PROVE  IndInv'
  <1> USE DEF IndInv
  <1>1. /\ UNCHANGED <<artefact, mechanism, content, badRows, loadTrigger, batches>>
        /\ UNCHANGED <<rejectedRow, quarantined, statement, published>>
        /\ pc[t] = "fact" /\ t \in batches /\ written' = written \union {t}
        /\ pc' = [pc EXCEPT ![t] = "publish"]
        /\ outcome' = [outcome EXCEPT ![t] = "ACCEPTED"]
    BY DEF RecordFact, To, inputs
  <1>2. TypeOK'
    BY <1>1 DEF TypeOK, Answers
  <1>3. Places'
    BY <1>1 DEF Places, TypeOK
  <1>4. Manifests'
    BY <1>1 DEF Manifests, TypeOK, Failures
  <1>5. Rejections'
    BY <1>1 DEF Rejections, Places, TypeOK
  <1>6. Verdicts'
    BY <1>1 DEF Verdicts, Places, TypeOK
  <1>7. StatementOnFile' /\ AcceptedOnFile' /\ Rung'
    BY <1>1 DEF StatementOnFile, AcceptedOnFile, OnFile, Rung, TypeOK
  <1> QED
    BY <1>2, <1>3, <1>4, <1>5, <1>6, <1>7

\* The doorbell, or its failure, and the answer.
LEMMA PublishStep ==
    ASSUME IndInv, NEW t \in Triggers, Publish(t)
    PROVE  IndInv'
  <1> USE DEF IndInv
  <1>1. /\ UNCHANGED <<artefact, mechanism, content, outcome, badRows, loadTrigger, batches>>
        /\ UNCHANGED <<written, rejectedRow, quarantined, statement>>
        /\ pc[t] = "publish" /\ pc' = [pc EXCEPT ![t] = "done"]
        /\ published' \subseteq published \union {t}
    BY DEF Publish, To, inputs, silverVars
  <1>2. TypeOK'
    BY <1>1 DEF TypeOK
  <1>3. Places' /\ Rung'
    BY <1>1 DEF Places, Rung, TypeOK
  <1>4. Verdicts'
    BY <1>1 DEF Verdicts, TypeOK
  <1>5. Manifests' /\ Rejections' /\ StatementOnFile' /\ AcceptedOnFile'
    BY <1>1 DEF Manifests, Rejections, StatementOnFile, AcceptedOnFile, OnFile
  <1> QED
    BY <1>2, <1>3, <1>4, <1>5

\* What the parsers and extractors do to a recorded trigger.
LEMMA ParseStep ==
    ASSUME IndInv, NEW t \in Triggers, Parse(t)
    PROVE  IndInv'
  <1> USE DEF IndInv
  <1>0. badRows \subseteq Triggers /\ loadTrigger \subseteq Triggers
    BY DEF TypeOK
  <1>1. ASSUME NEW where, Parsed(t, where), pc[t] = "recorded", badRows' \subseteq Triggers,
               \/ where = "quarantine" /\ mechanism[t] \notin Returns
               \/ where = "load"
               \/ where = "fact" /\ mechanism[t] = "PDF_FACT"
        PROVE  IndInv'
    BY <1>0, <1>1, MoveOn DEF Parsed
  <1>2. CASE ExtractFact(t)
    BY <1>0, <1>1, <1>2 DEF ExtractFact, Extracts, Returns
  <1>3. CASE ExtractTransaction(t)
    BY <1>0, <1>1, <1>3 DEF ExtractTransaction, Extracts, Returns
  <1>4. CASE ExtractRegister(t)
    BY <1>0, <1>1, <1>4 DEF ExtractRegister, Extracts, Returns
  <1>5. CASE ParseSalesRegister(t)
    BY <1>0, <1>1, <1>5 DEF ParseSalesRegister, Returns
  <1>6. CASE ParseRegister(t)
    BY <1>0, <1>1, <1>6 DEF ParseRegister, Returns
  <1>7. CASE ValidateDocuments(t)
    BY <1>0, <1>1, <1>7 DEF ValidateDocuments, Returns
  <1>8. CASE ParseGstr2b(t)
    BY <1>0, <1>1, <1>8, AnswerOnly DEF ParseGstr2b, RejectReturn, Returns
  <1>9. CASE ParseGstr3b(t)
    BY <1>0, <1>1, <1>9, AnswerOnly DEF ParseGstr3b, RejectReturn, Returns
  <1> QED
    BY <1>2, <1>3, <1>4, <1>5, <1>6, <1>7, <1>8, <1>9 DEF Parse

\* What the load mechanisms commit in one transaction.
LEMMA LoadStep ==
    ASSUME IndInv, NEW t \in Triggers, Load(t)
    PROVE  IndInv'
  <1>1. CASE LoadSalesRegister(t)
    BY <1>1, WriteStep DEF LoadSalesRegister
  <1>2. CASE LoadRegister(t)
    <2>1. CASE t \notin badRows
      <3>1. {t} \intersect badRows = {}
        BY <2>1
      <3>2. WriteBatch(t, {}, "ACCEPTED")
        BY <1>2, <2>1, <3>1 DEF LoadRegister
      <3> QED
        BY <1>2, <3>2, WriteStep DEF LoadRegister
    <2>2. CASE t \in badRows /\ mechanism[t] = "REGISTER_LOADER"
      <3>1. {t} \intersect badRows = {t}
        BY <2>2
      <3>2. WriteBatch(t, {t}, "PARTIAL")
        BY <1>2, <2>2, <3>1 DEF LoadRegister
      <3> QED
        BY <1>2, <3>2, WriteStep DEF LoadRegister
    <2>3. CASE t \in badRows /\ mechanism[t] = "PDF_REGISTER"
      <3>1. {t} \intersect badRows = {t}
        BY <2>3
      <3>2. WriteBatch(t, {t}, "ACCEPTED")
        BY <1>2, <2>3, <3>1 DEF LoadRegister
      <3> QED
        BY <1>2, <2>3, <3>2, WriteStep DEF LoadRegister
    <2> QED
      BY <1>2, <2>1, <2>2, <2>3 DEF LoadRegister
  <1>3. CASE PromoteDocuments(t)
    BY <1>3, WriteStep DEF PromoteDocuments
  <1>4. CASE LoadGstr2b(t)
    BY <1>4, WriteStep DEF LoadGstr2b, ReplaceStatement, Returns
  <1>5. CASE LoadGstr3b(t)
    BY <1>5, WriteStep DEF LoadGstr3b, ReplaceStatement, Returns
  <1> QED
    BY <1>1, <1>2, <1>3, <1>4, <1>5 DEF Load

\* Every step of every trigger.
LEMMA IndNext == IndInv /\ [Next]_vars => IndInv'
  <1> SUFFICES ASSUME IndInv, [Next]_vars PROVE IndInv'
    OBVIOUS
  <1>1. ASSUME NEW t \in Triggers, RecordTrigger(t) PROVE IndInv'
    <2>1. badRows' \subseteq Triggers /\ loadTrigger' \subseteq Triggers
      BY <1>1 DEF RecordTrigger, IndInv, TypeOK
    <2> QED
      BY <1>1, <2>1, MoveOn DEF RecordTrigger
  <1>2. ASSUME NEW t \in Triggers, UnknownArtefact(t) \/ Unrouted(t) \/ BadRequest(t)
        PROVE  IndInv'
    BY <1>2, AnswerOnly DEF UnknownArtefact, Unrouted, BadRequest, Failures
  <1>3. ASSUME NEW t \in Triggers, ReturnUnchanged(t) PROVE IndInv'
    <2>1. /\ pc[t] = "load" /\ mechanism[t] \in Returns
          /\ statement[mechanism[t]] = content[artefact[t]]
      BY <1>3 DEF ReturnUnchanged
    <2>2. content[artefact[t]] # None
      BY KnownAssumption DEF IndInv, TypeOK
    <2>3. OnFile(t)
      BY <2>1, <2>2 DEF IndInv, StatementOnFile, OnFile
    <2> QED
      BY <1>3, <2>1, <2>3, AnswerOnly DEF ReturnUnchanged
  <1>4. ASSUME NEW t \in Triggers, Refused(t) PROVE IndInv'
    BY <1>4, AnswerOnly DEF Refused, Failures
  <1>5. ASSUME NEW t \in Triggers, Crash(t) PROVE IndInv'
    BY <1>5, AnswerOnly DEF Crash
  <1>6. CASE UNCHANGED vars
    BY <1>6 DEF IndInv, vars, inputs, silverVars, TypeOK, Places, Manifests, Rejections,
                Verdicts, StatementOnFile, AcceptedOnFile, OnFile, Rung
  <1> QED
    BY <1>1, <1>2, <1>3, <1>4, <1>5, <1>6, ParseStep, QuarantineStep, LoadStep,
       CreateBatchStep, RecordFactStep, PublishStep DEF Next

-----------------------------------------------------------------------------
(* The theorems.                                                           *)

\* The inductive invariant holds in every reachable state.
LEMMA Inductive == Spec => []IndInv
  BY IndInit, IndNext, PTL DEF Spec

\* Every variable keeps its type; no rejected row is left without its batch.
THEOREM DispatchTypeCorrect == Spec => []TypeOK
  <1>1. IndInv => TypeOK
    BY DEF IndInv
  <1> QED
    BY <1>1, Inductive, PTL

\* A load is all or nothing, however it ends; a refused trigger leaves no batch,
\* and exit code 0 of tenantctl trigger means that the write is there.
THEOREM AtomicLoads == Spec => []LoadsAreAtomic
  <1>1. IndInv => LoadsAreAtomic
    BY DEF IndInv, Manifests, AcceptedOnFile, OnFile, LoadsAreAtomic, ExitCode
  <1> QED
    BY <1>1, Inductive, PTL

\* The doorbell rings for nothing a consumer cannot read.
THEOREM DoorbellComplete == Spec => []DoorbellMeansComplete
  <1>1. IndInv => DoorbellMeansComplete
    BY DEF IndInv, TypeOK, Manifests, Rung, DoorbellMeansComplete
  <1> QED
    BY <1>1, Inductive, PTL

\* An answered file load has left what artefact_outcome looks for: its batch, or
\* its quarantine row.
THEOREM NoPendingAnswer == Spec => []AnsweredIsNotPending
  <1>1. IndInv => AnsweredIsNotPending
    <2> SUFFICES ASSUME IndInv, NEW t \in Triggers, Answered(t), mechanism[t] \notin Returns
                 PROVE  Status(artefact[t]) # "PENDING"
      BY DEF AnsweredIsNotPending
    <2> USE DEF IndInv
    <2>1. CASE outcome[t] = "QUARANTINED"
      BY <2>1 DEF Verdicts, Status
    <2>2. CASE outcome[t] \in {"ACCEPTED", "PARTIAL"}
      <3>1. t \in batches
        BY <2>2 DEF AcceptedOnFile, OnFile, Manifests
      <3>2. t \in BatchesOf(artefact[t])
        BY <3>1 DEF BatchesOf
      <3> QED
        BY <3>2 DEF Status
    <2> QED
      BY <2>1, <2>2 DEF Answered, Answers
  <1> QED
    BY <1>1, Inductive, PTL

\* Polling repeats the answer of the one trigger an artefact had.
THEOREM StatusRepeatsAnswer == Spec => []AnswerAgreesWithStatus
  <1>1. IndInv => AnswerAgreesWithStatus
    <2> SUFFICES ASSUME IndInv, NEW t \in Triggers, Answered(t),
                        mechanism[t] \notin Returns \union {"PDF_REGISTER"},
                        \A u \in Triggers \ {t} : artefact[u] = artefact[t] => pc[u] = "idle"
                 PROVE  Status(artefact[t]) = outcome[t]
      BY DEF AnswerAgreesWithStatus
    <2> USE DEF IndInv
    <2>1. CASE outcome[t] = "QUARANTINED"
      BY <2>1 DEF Verdicts, Status
    <2>2. CASE outcome[t] \in {"ACCEPTED", "PARTIAL"}
      <3>1. artefact[t] \notin quarantined
        BY <2>2 DEF Verdicts
      <3>2. t \in batches
        BY <2>2 DEF AcceptedOnFile, OnFile, Manifests
      <3>3. BatchesOf(artefact[t]) = {t}
        BY <3>2 DEF BatchesOf, Places, TypeOK
      <3>4. t \in rejectedRow <=> outcome[t] = "PARTIAL"
        BY <2>2 DEF Rejections
      <3> QED
        BY <2>2, <3>1, <3>3, <3>4 DEF Status
    <2> QED
      BY <2>1, <2>2 DEF Answered, Answers
  <1> QED
    BY <1>1, Inductive, PTL
===============================================================================
