---------------------------- MODULE ExtractionProofs ----------------------------
(***************************************************************************)
(* Proofs about Extraction: for any documents, any number of extractions   *)
(* of them at once and every fiscal year, what is written of a PDF is a    *)
(* whole snapshot, and a footnote changes none of it.                      *)
(***************************************************************************)
EXTENDS Extraction, LabelValueProofs, TLAPS

-----------------------------------------------------------------------------
(* The inductive invariant, in parts.                                      *)

\* Where an extraction has got to shows in Silver and in its answer.
Stages ==
    \A x \in Extractions :
        /\ pc[x] \in {"idle", "read", "quarantine", "load", "batch"} => x \notin batches
        /\ pc[x] \in {"find", "wait", "write"} => x \in batches
        /\ x \in recorded => pc[x] \in {"copy", "done"}
        /\ pc[x] = "copy" => x \in recorded
        /\ result[x] # "none" <=> pc[x] = "done"

\* Only what was extracted in full gets past the quarantine; a shareholding that
\* was has a date, and a table its rows.
Parsed ==
    \A x \in Extractions :
        /\ x \in recorded \/ pc[x] \in {"load", "batch", "find", "wait", "write", "copy"}
              => outcome[x].kind = "Extracted"
        /\ docType = "SHAREHOLDING" /\ outcome[x].kind = "Extracted"
              => "date" \in DOMAIN outcome[x].fields
        /\ docType \in TableTypes /\ outcome[x].kind = "Extracted"
              => outcome[x].rows = ParseTableRows(TableForm[docType], document[artefact[x]].words)

\* The unique index of the fact table.
OneKeyEach == \A g, h \in openFacts : g # h => FactKey(g.fact) # FactKey(h.fact)

IndInv ==
    /\ TypeOK
    /\ DOMAIN outcome = Extractions
    /\ Stages
    /\ Parsed
    /\ TornOnlyByFailure
    /\ SnapshotIsWhole
    /\ OneKeyEach

-----------------------------------------------------------------------------
(* Reading a document.                                                     *)

\* What the outcome o of reading the PDF d is like.
Outcome(o, d) ==
    /\ o.kind \in {"NoTextLayer", "Partial", "Extracted"}
    /\ \A n \in DOMAIN o.fields : o.fields[n] \in Raws
    /\ docType = "SHAREHOLDING" /\ o.kind = "Extracted" => "date" \in DOMAIN o.fields
    /\ docType = "CONTRACT" => o.kind # "Partial"
    /\ docType \in TableTypes /\ o.kind = "Extracted"
          => o.rows = ParseTableRows(TableForm[docType], d.words)

LEMMA ReadIn ==
    ASSUME TypeOK, NEW x \in Extractions
    PROVE  /\ document[artefact[x]].lines \in Seq(Lines)
           /\ document[artefact[x]].words \in Seq(Words)
  <1>1. artefact[x] \in Artefacts /\ docType \in DocTypes
    BY DEF TypeOK
  <1>2. document[artefact[x]] \in Documents[<<docType, artefact[x]>>]
    BY <1>1 DEF TypeOK
  <1> QED
    BY <1>1, <1>2, DocumentsAssumption

LEMMA ExtractGives ==
    ASSUME TypeOK, NEW d, d.lines \in Seq(Lines)
    PROVE  Outcome(Extract(d), d)
  <1>1. CASE docType \in {"PAYROLL", "FIRC"}
    <2>1. /\ ExtractRegister(d.chunks).kind \in {"Partial", "Extracted"}
          /\ ExtractRegister(d.chunks).fields = <<>>
      BY DEF ExtractRegister, NoOutcome
    <2> QED
      BY <1>1, <2>1 DEF Extract, Outcome, TableTypes
  <1>2. CASE docType \notin {"PAYROLL", "FIRC"}
    <2> DEFINE spec == LabelSpec[docType]
               o == ParseLabelValue(d.lines, spec)
    <2>1. docType = "CONTRACT" => DOMAIN spec = {}
      BY DEF LabelSpec
    <2>2. docType = "SHAREHOLDING" => "date" \in DOMAIN spec /\ spec["date"].required
      BY DEF LabelSpec, Field
    <2> HIDE DEF spec
    <2>3. /\ o.kind \in {"Partial", "Extracted"}
          /\ \A n \in DOMAIN o.fields : o.fields[n] \in Raws
          /\ o.kind = "Extracted" => \A n \in DOMAIN spec :
                                        spec[n].required => n \in DOMAIN o.fields
          /\ DOMAIN spec = {} => o.kind = "Extracted"
          /\ o = [kind |-> o.kind, fields |-> o.fields, missing |-> o.missing,
                  failed |-> o.failed, rows |-> o.rows]
      BY ParsedLabels
    <2>4. Extract(d) = IF docType \in TableTypes THEN ExtractTable(o, d.words)
                       ELSE IF docType = "FORM_15CA" THEN ExtractForm(o) ELSE o
      BY <1>2 DEF Extract, spec
    <2> HIDE DEF o
    <2>5. docType \notin TableTypes => Outcome(o, d)
      BY <2>1, <2>2, <2>3 DEF Outcome
    <2>6. /\ ExtractTable(o, d.words).fields = o.fields
          /\ ExtractTable(o, d.words).kind \in {"Partial", "Extracted"}
          /\ ExtractTable(o, d.words).kind = "Extracted" =>
                /\ o.kind = "Extracted"
                /\ ExtractTable(o, d.words).rows = ParseTableRows(TableForm[docType], d.words)
      BY <2>3 DEF ExtractTable
    <2>7. ExtractForm(o).fields = o.fields /\ ExtractForm(o).kind = o.kind
      BY <2>3 DEF ExtractForm
    <2>8. CASE docType \in TableTypes
      <3>1. /\ Extract(d) = ExtractTable(o, d.words)
            /\ docType # "CONTRACT"
        BY <2>4, <2>8 DEF TableTypes
      <3> QED
        BY <2>2, <2>3, <2>6, <3>1 DEF Outcome
    <2>9. CASE docType = "FORM_15CA"
      BY <2>4, <2>5, <2>7, <2>9 DEF Outcome, TableTypes
    <2>10. CASE docType \notin TableTypes /\ docType # "FORM_15CA"
      BY <2>4, <2>5, <2>10
    <2> QED
      BY <2>8, <2>9, <2>10
  <1> QED
    BY <1>1, <1>2

\* Where an outcome goes.
LEMMA SinkOf ==
    ASSUME NEW o, NEW d, Outcome(o, d)
    PROVE  /\ Sink(o) \in {"quarantine", "load", "batch"}
           /\ Sink(o) # "quarantine" => o.kind = "Extracted"
  BY DEF Outcome, Sink, SinkCsv, SinkContract, SinkFact, CsvTypes, RegisterTypes

\* ReadAndExtract, as far as the rest of the extraction can tell.
LEMMA ReadStep ==
    ASSUME TypeOK, NEW x \in Extractions, ReadAndExtract(x)
    PROVE  \/ Answer(x, "BAD_REQUEST") /\ UNCHANGED outcome
           \/ \E o : /\ Outcome(o, document[artefact[x]])
                     /\ outcome' = [outcome EXCEPT ![x] = o]
                     /\ \/ Answer(x, "ERROR")
                        \/ To(x, Sink(o)) /\ UNCHANGED result
  <1> DEFINE d == document[artefact[x]]
             none == [NoOutcome EXCEPT !.kind = "NoTextLayer"]
  <1>1. Outcome(Extract(d), d)
    BY ReadIn, ExtractGives
  <1>2. Outcome(none, d)
    BY DEF Outcome, NoOutcome
  <1>3. \/ Answer(x, "BAD_REQUEST") /\ UNCHANGED outcome
        \/ \E o \in {Extract(d), none} :
              /\ outcome' = [outcome EXCEPT ![x] = o]
              /\ \/ Answer(x, "ERROR")
                 \/ To(x, Sink(o)) /\ UNCHANGED result
    BY DEF ReadAndExtract
  <1> QED
    BY <1>1, <1>2, <1>3

-----------------------------------------------------------------------------
(* The invariant is inductive.                                             *)

LEMMA IndInit == Init => IndInv
  <1> SUFFICES ASSUME Init PROVE IndInv
    OBVIOUS
  <1>1. \A a \in Artefacts : document[a] \in Documents[<<docType, a>>]
    BY DEF Init, Filings
  <1>2. TypeOK /\ DOMAIN outcome = Extractions
    BY <1>1, NoneAssumption DEF Init, TypeOK, NoOutcome
  <1>3. Stages /\ Parsed
    BY DEF Init, Stages, Parsed, NoOutcome
  <1>4. TornOnlyByFailure /\ SnapshotIsWhole /\ OneKeyEach
    BY DEF Init, TornOnlyByFailure, SnapshotIsWhole, OneKeyEach
  <1> QED
    BY <1>2, <1>3, <1>4 DEF IndInv

\* A step that leaves Silver's rows alone, and the outcome of what is recorded,
\* leaves the snapshot as it is.
LEMMA SnapshotStays ==
    ASSUME IndInv, UNCHANGED <<docType, artefact, current, openFacts>>,
           \A y \in current : outcome'[y] = outcome[y]
    PROVE  SnapshotIsWhole' /\ OneKeyEach'
  <1>1. \A y \in current : FactRows(y)' = FactRows(y)
    BY DEF FactRows, Windows
  <1>2. \A y, z \in current : SameKey(y, z)' <=> SameKey(y, z)
    BY DEF SameKey, ArtefactKey, NumberKey
  <1> QED
    BY <1>1, <1>2 DEF IndInv, SnapshotIsWhole, OneKeyEach, FactKey

\* The snapshot as SnapshotIsWhole has it, and by its members.
Whole == openFacts = UNION {{[header |-> x, fact |-> f] : f \in FactRows(x)} : x \in current}

Members ==
    \A g : g \in openFacts
             <=> \E y \in current : \E f \in FactRows(y) : g = [header |-> y, fact |-> f]

LEMMA InSnapshot == Whole <=> Members
  <1> DEFINE U == UNION {{[header |-> x, fact |-> f] : f \in FactRows(x)} : x \in current}
  <1>1. \A g : g \in U <=> \E y \in current : \E f \in FactRows(y) : g = [header |-> y, fact |-> f]
    OBVIOUS
  <1> HIDE DEF U
  <1>2. openFacts = U <=> \A g : g \in openFacts <=> g \in U
    BY Zenon
  <1> QED
    BY <1>1, <1>2 DEF U, Whole, Members

\* The commit of record_or_supersede replaces the snapshot of the prior header
\* by the one of the new.
LEMMA WriteReplaces ==
    ASSUME IndInv, NEW x \in Extractions, Write(x)
    PROVE  SnapshotIsWhole' /\ OneKeyEach' /\ \A g \in openFacts' : g.header \in current'
  <1>1. /\ UNCHANGED <<docType, artefact, outcome>>
        /\ current' = (current \ {prior[x]}) \union {x}
        /\ openFacts' = OpenBeside(x) \union {[header |-> x, fact |-> f] : f \in FactRows(x)}
        /\ ~Collides(x)
        /\ pc[x] = "write"
    BY DEF Write, inputs
  <1>2. \A y : FactRows(y)' = FactRows(y)
    BY <1>1 DEF FactRows, Windows
  <1>3. \A y, z : /\ SameKey(y, z)' <=> SameKey(y, z)
                  /\ SameKey(y, z) <=> SameKey(z, y)
    BY <1>1 DEF SameKey, ArtefactKey, NumberKey
  <1>4. /\ \A y \in current \ {prior[x]} : ~SameKey(x, y)
        /\ \A f, g \in FactRows(x) : f # g => FactKey(f) # FactKey(g)
        /\ \A f \in FactRows(x), g \in OpenBeside(x) : FactKey(f) # FactKey(g.fact)
    BY <1>1 DEF Collides
  <1>5. \A g : g \in openFacts
                 <=> \E y \in current : \E f \in FactRows(y) : g = [header |-> y, fact |-> f]
    BY InSnapshot DEF IndInv, SnapshotIsWhole, Whole, Members
  <1>6. x \notin current
    BY <1>1 DEF IndInv, TypeOK, Stages
  <1>7. \A g : g \in openFacts'
                 <=> \E y \in current' : \E f \in FactRows(y) : g = [header |-> y, fact |-> f]
    <2>1. ASSUME NEW g \in openFacts'
          PROVE  \E y \in current' : \E f \in FactRows(y) : g = [header |-> y, fact |-> f]
      <3>1. CASE g \in OpenBeside(x)
        BY <1>1, <1>5, <3>1 DEF OpenBeside
      <3>2. CASE g \in {[header |-> x, fact |-> f] : f \in FactRows(x)}
        BY <1>1, <3>2
      <3> QED
        BY <1>1, <3>1, <3>2
    <2>2. ASSUME NEW y \in current', NEW f \in FactRows(y)
          PROVE  [header |-> y, fact |-> f] \in openFacts'
      <3>1. CASE y = x
        BY <1>1, <2>2, <3>1
      <3>2. CASE y # x
        <4>1. y \in current /\ y # prior[x]
          BY <1>1, <3>2
        <4>2. [header |-> y, fact |-> f] \in openFacts
          BY <1>5, <4>1
        <4> QED
          BY <1>1, <4>1, <4>2 DEF OpenBeside
      <3> QED
        BY <3>1, <3>2
    <2> QED
      BY <2>1, <2>2
  <1>8. Whole'
    <2>1. Members'
      BY <1>2, <1>7 DEF Members
    <2> QED
      BY <2>1, InSnapshot, PTL
  <1>9. (\A y, z \in current : y # z => ~SameKey(y, z))'
    <2>1. ASSUME NEW y \in current', NEW z \in current', y # z
          PROVE  ~SameKey(y, z)
      <3>1. CASE y = x
        BY <1>1, <1>4, <2>1, <3>1
      <3>2. CASE z = x
        BY <1>1, <1>3, <1>4, <2>1, <3>2
      <3>3. CASE y # x /\ z # x
        BY <1>1, <2>1, <3>3 DEF IndInv, SnapshotIsWhole
      <3> QED
        BY <3>1, <3>2, <3>3
    <2> QED
      BY <1>3, <2>1
  <1>10. ASSUME NEW g \in openFacts', NEW h \in openFacts', g # h
         PROVE  FactKey(g.fact) # FactKey(h.fact)
    <2> DEFINE New == {[header |-> x, fact |-> f] : f \in FactRows(x)}
    <2>1. \A k \in New : k.fact \in FactRows(x) /\ k = [header |-> x, fact |-> k.fact]
      OBVIOUS
    <2>2. g \in OpenBeside(x) \union New /\ h \in OpenBeside(x) \union New
      BY <1>1
    <2>3. OpenBeside(x) \subseteq openFacts
      BY DEF OpenBeside
    <2> HIDE DEF New
    <2>4. CASE g \in New /\ h \in New
      <3>1. g.fact # h.fact
        BY <1>10, <2>1, <2>4
      <3> QED
        BY <1>4, <2>1, <2>4, <3>1
    <2>5. CASE g \in New /\ h \in OpenBeside(x)
      BY <1>4, <2>1, <2>5
    <2>6. CASE g \in OpenBeside(x) /\ h \in New
      BY <1>4, <2>1, <2>6
    <2>7. CASE g \in OpenBeside(x) /\ h \in OpenBeside(x)
      BY <1>10, <2>3, <2>7 DEF IndInv, OneKeyEach
    <2> QED
      BY <2>2, <2>4, <2>5, <2>6, <2>7
  <1>11. \A g \in openFacts' : g.header \in current'
    BY <1>7
  <1>12. OneKeyEach'
    BY <1>1, <1>10 DEF OneKeyEach, FactKey
  <1> QED
    BY <1>8, <1>9, <1>11, <1>12 DEF SnapshotIsWhole, Whole

LEMMA IndNext == IndInv /\ [Next]_vars => IndInv'
  <1> SUFFICES ASSUME IndInv, [Next]_vars PROVE IndInv'
    OBVIOUS
  <1>1. CASE UNCHANGED vars
    <2>1. /\ UNCHANGED <<docType, artefact, document, pc, outcome, prior, result>>
          /\ UNCHANGED <<batches, recorded, current, openFacts, quarantined>>
      BY <1>1 DEF vars, inputs, silverVars
    <2>2. SnapshotIsWhole' /\ OneKeyEach'
      BY <2>1, SnapshotStays
    <2>3. TypeOK'
      BY <2>1 DEF IndInv, TypeOK
    <2>4. Stages' /\ Parsed' /\ TornOnlyByFailure' /\ DOMAIN outcome' = Extractions
      BY <2>1 DEF IndInv, Stages, Parsed, TornOnlyByFailure
    <2> QED
      BY <2>2, <2>3, <2>4 DEF IndInv
  <1>2. ASSUME NEW x \in Extractions, BuildRegistry(x)
        PROVE  IndInv'
    <2>1. /\ pc[x] = "idle"
          /\ UNCHANGED <<docType, artefact, document, outcome, prior>>
          /\ UNCHANGED <<batches, recorded, current, openFacts, quarantined>>
      BY <1>2 DEF BuildRegistry, inputs, silverVars
    <2>2. \/ pc' = [pc EXCEPT ![x] = "read"] /\ UNCHANGED result
          \/ /\ pc' = [pc EXCEPT ![x] = "done"]
             /\ result' = [result EXCEPT ![x] = "BAD_REQUEST"]
      BY <1>2 DEF BuildRegistry, To, Answer
    <2>3. SnapshotIsWhole' /\ OneKeyEach'
      BY <2>1, SnapshotStays
    <2>4. TypeOK'
      BY <2>1, <2>2 DEF IndInv, TypeOK, Failures
    <2>5. Stages'
      BY <2>1, <2>2 DEF IndInv, TypeOK, Stages
    <2>6. Parsed' /\ DOMAIN outcome' = Extractions
      BY <2>1, <2>2 DEF IndInv, TypeOK, Stages, Parsed
    <2>7. TornOnlyByFailure'
      BY <2>1, <2>2 DEF IndInv, TypeOK, Stages, TornOnlyByFailure
    <2> QED
      BY <2>3, <2>4, <2>5, <2>6, <2>7 DEF IndInv
  <1>3. ASSUME NEW x \in Extractions, ReadAndExtract(x)
        PROVE  IndInv'
    <2>1. /\ pc[x] = "read"
          /\ UNCHANGED <<docType, artefact, document, prior>>
          /\ UNCHANGED <<batches, recorded, current, openFacts, quarantined>>
      BY <1>3 DEF ReadAndExtract, inputs, silverVars
    <2>2. x \notin batches /\ x \notin recorded /\ x \notin current
      BY <2>1 DEF IndInv, TypeOK, Stages
    <2>3. CASE Answer(x, "BAD_REQUEST") /\ UNCHANGED outcome
      <3>1. /\ pc' = [pc EXCEPT ![x] = "done"]
            /\ result' = [result EXCEPT ![x] = "BAD_REQUEST"]
            /\ UNCHANGED outcome
        BY <2>3 DEF Answer, To
      <3>2. SnapshotIsWhole' /\ OneKeyEach'
        BY <2>1, <3>1, SnapshotStays
      <3>3. TypeOK'
        BY <2>1, <3>1 DEF IndInv, TypeOK, Failures
      <3>4. Stages'
        BY <2>1, <3>1 DEF IndInv, TypeOK, Stages
      <3>5. Parsed' /\ DOMAIN outcome' = Extractions
        BY <2>1, <3>1 DEF IndInv, TypeOK, Stages, Parsed
      <3>6. TornOnlyByFailure'
        BY <2>1, <2>2, <3>1 DEF IndInv, TypeOK, Stages, TornOnlyByFailure
      <3> QED
        BY <3>2, <3>3, <3>4, <3>5, <3>6 DEF IndInv
    <2>4. ASSUME NEW o, Outcome(o, document[artefact[x]]), outcome' = [outcome EXCEPT ![x] = o],
                 Answer(x, "ERROR") \/ (To(x, Sink(o)) /\ UNCHANGED result)
          PROVE  IndInv'
      <3>1. PICK where \in {"quarantine", "load", "batch", "done"} :
               /\ pc' = [pc EXCEPT ![x] = where]
               /\ where \in {"load", "batch"} => o.kind = "Extracted"
               /\ where # "done" => UNCHANGED result
               /\ where = "done" => result' = [result EXCEPT ![x] = "ERROR"]
        BY <2>4, SinkOf DEF Answer, To
      <3>2. /\ outcome'[x] = o /\ DOMAIN outcome' = Extractions
            /\ \A y \in Extractions \ {x} : outcome'[y] = outcome[y]
        BY <2>4 DEF IndInv
      <3>3. SnapshotIsWhole' /\ OneKeyEach'
        <4>1. \A y \in current : outcome'[y] = outcome[y]
          BY <2>2, <3>2 DEF IndInv, TypeOK
        <4> QED
          BY <2>1, <4>1, SnapshotStays
      <3>4. TypeOK'
        <4>1. \A y \in Extractions :
                 /\ outcome'[y].kind \in {"none", "NoTextLayer", "Partial", "Extracted"}
                 /\ \A n \in DOMAIN outcome'[y].fields : outcome'[y].fields[n] \in Raws
          BY <2>4, <3>2 DEF IndInv, TypeOK, Outcome
        <4> QED
          BY <2>1, <3>1, <4>1 DEF IndInv, TypeOK, Failures
      <3>5. Stages'
        BY <2>1, <2>2, <3>1 DEF IndInv, TypeOK, Stages
      <3>6. Parsed'
        <4>1. docType = "SHAREHOLDING" /\ o.kind = "Extracted" => "date" \in DOMAIN o.fields
          BY <2>4 DEF Outcome
        <4>2. /\ x \in recorded' \/ pc'[x] \in {"load", "batch", "find", "wait", "write", "copy"}
                   => outcome'[x].kind = "Extracted"
              /\ docType' = "SHAREHOLDING" /\ outcome'[x].kind = "Extracted"
                   => "date" \in DOMAIN outcome'[x].fields
          BY <2>1, <2>2, <3>1, <3>2, <4>1 DEF IndInv, TypeOK
        <4>3. ASSUME NEW y \in Extractions \ {x}
              PROVE  /\ y \in recorded' \/ pc'[y] \in {"load", "batch", "find", "wait", "write", "copy"}
                          => outcome'[y].kind = "Extracted"
                     /\ docType' = "SHAREHOLDING" /\ outcome'[y].kind = "Extracted"
                          => "date" \in DOMAIN outcome'[y].fields
          <5>1. pc'[y] = pc[y] /\ outcome'[y] = outcome[y]
            BY <3>1, <3>2 DEF IndInv, TypeOK
          <5> QED
            BY <2>1, <5>1 DEF IndInv, Parsed
        <4>4. ASSUME NEW y \in Extractions
              PROVE  docType' \in TableTypes /\ outcome'[y].kind = "Extracted"
                       => outcome'[y].rows
                            = ParseTableRows(TableForm[docType'], document'[artefact'[y]].words)
          <5>1. UNCHANGED <<docType, document, artefact>>
            BY <2>1
          <5>2. CASE y = x
            BY <2>4, <3>2, <5>1, <5>2 DEF Outcome
          <5>3. CASE y # x
            BY <3>2, <5>1, <5>3 DEF IndInv, Parsed
          <5> QED
            BY <5>2, <5>3
        <4> QED
          BY <4>2, <4>3, <4>4 DEF Parsed
      <3>7. TornOnlyByFailure'
        BY <2>1, <2>2, <3>1, <3>2 DEF IndInv, TypeOK, Stages, TornOnlyByFailure
      <3> QED
        BY <3>2, <3>3, <3>4, <3>5, <3>6, <3>7 DEF IndInv
    <2>5. TypeOK
      BY DEF IndInv
    <2> QED
      BY <1>3, <2>3, <2>4, <2>5, ReadStep
  <1>4. ASSUME NEW x \in Extractions, Quarantine(x)
        PROVE  IndInv'
    <2>1. /\ pc[x] = "quarantine"
          /\ pc' = [pc EXCEPT ![x] = "done"]
          /\ result' = [result EXCEPT ![x] = "QUARANTINED"]
          /\ quarantined' = quarantined \union {artefact[x]}
          /\ UNCHANGED <<docType, artefact, document, outcome>>
          /\ UNCHANGED <<prior, batches, recorded, current, openFacts>>
      BY <1>4 DEF Quarantine, Answer, To, inputs
    <2>2. SnapshotIsWhole' /\ OneKeyEach'
      BY <2>1, SnapshotStays
    <2>3. TypeOK'
      BY <2>1 DEF IndInv, TypeOK, Failures
    <2>4. Stages'
      BY <2>1 DEF IndInv, TypeOK, Stages
    <2>5. Parsed' /\ DOMAIN outcome' = Extractions
      BY <2>1 DEF IndInv, TypeOK, Stages, Parsed
    <2>6. TornOnlyByFailure'
      BY <2>1 DEF IndInv, TypeOK, Stages, Parsed, TornOnlyByFailure
    <2> QED
      BY <2>2, <2>3, <2>4, <2>5, <2>6 DEF IndInv
  <1>5. ASSUME NEW x \in Extractions, LoadCsv(x)
        PROVE  IndInv'
    <2>1. /\ pc[x] = "load"
          /\ pc' = [pc EXCEPT ![x] = "copy"]
          /\ batches' = batches \union {x} /\ recorded' = recorded \union {x}
          /\ UNCHANGED <<docType, artefact, document, outcome>>
          /\ UNCHANGED <<prior, result, current, openFacts, quarantined>>
      BY <1>5 DEF LoadCsv, To, inputs
    <2>2. SnapshotIsWhole' /\ OneKeyEach'
      BY <2>1, SnapshotStays
    <2>3. TypeOK'
      BY <2>1 DEF IndInv, TypeOK, Failures
    <2>4. Stages'
      BY <2>1 DEF IndInv, TypeOK, Stages
    <2>5. Parsed' /\ DOMAIN outcome' = Extractions
      BY <2>1 DEF IndInv, TypeOK, Stages, Parsed
    <2>6. TornOnlyByFailure'
      BY <2>1 DEF IndInv, TypeOK, Stages, Parsed, TornOnlyByFailure
    <2> QED
      BY <2>2, <2>3, <2>4, <2>5, <2>6 DEF IndInv
  <1>6. ASSUME NEW x \in Extractions, CsvRejected(x)
        PROVE  IndInv'
    <2>1. /\ pc[x] = "load"
          /\ pc' = [pc EXCEPT ![x] = "done"]
          /\ result' = [result EXCEPT ![x] = "QUARANTINED"]
          /\ quarantined' = quarantined \union {artefact[x]}
          /\ UNCHANGED <<docType, artefact, document, outcome>>
          /\ UNCHANGED <<prior, batches, recorded, current, openFacts>>
      BY <1>6 DEF CsvRejected, Answer, To, inputs
    <2>2. SnapshotIsWhole' /\ OneKeyEach'
      BY <2>1, SnapshotStays
    <2>3. TypeOK'
      BY <2>1 DEF IndInv, TypeOK, Failures
    <2>4. Stages'
      BY <2>1 DEF IndInv, TypeOK, Stages
    <2>5. Parsed' /\ DOMAIN outcome' = Extractions
      BY <2>1 DEF IndInv, TypeOK, Stages, Parsed
    <2>6. TornOnlyByFailure'
      BY <2>1 DEF IndInv, TypeOK, Stages, Parsed, TornOnlyByFailure
    <2> QED
      BY <2>2, <2>3, <2>4, <2>5, <2>6 DEF IndInv
  <1>7. ASSUME NEW x \in Extractions, CsvRefused(x)
        PROVE  IndInv'
    <2>1. /\ pc[x] = "load"
          /\ pc' = [pc EXCEPT ![x] = "done"]
          /\ \E r \in {"CONFLICT", "INVALID"} : result' = [result EXCEPT ![x] = r]
          /\ UNCHANGED <<docType, artefact, document, outcome>>
          /\ UNCHANGED <<prior, batches, recorded, current, openFacts, quarantined>>
      BY <1>7 DEF CsvRefused, Answer, To, inputs, silverVars
    <2>2. SnapshotIsWhole' /\ OneKeyEach'
      BY <2>1, SnapshotStays
    <2>3. TypeOK'
      BY <2>1 DEF IndInv, TypeOK, Failures
    <2>4. Stages'
      BY <2>1 DEF IndInv, TypeOK, Stages
    <2>5. Parsed' /\ DOMAIN outcome' = Extractions
      BY <2>1 DEF IndInv, TypeOK, Stages, Parsed
    <2>6. TornOnlyByFailure'
      BY <2>1 DEF IndInv, TypeOK, Stages, Parsed, TornOnlyByFailure
    <2> QED
      BY <2>2, <2>3, <2>4, <2>5, <2>6 DEF IndInv
  <1>8. ASSUME NEW x \in Extractions, CreateBatch(x)
        PROVE  IndInv'
    <2>1. /\ pc[x] = "batch"
          /\ pc' = [pc EXCEPT ![x] = "find"]
          /\ batches' = batches \union {x}
          /\ UNCHANGED <<docType, artefact, document, outcome>>
          /\ UNCHANGED <<prior, result, recorded, current, openFacts, quarantined>>
      BY <1>8 DEF CreateBatch, To, inputs
    <2>2. SnapshotIsWhole' /\ OneKeyEach'
      BY <2>1, SnapshotStays
    <2>3. TypeOK'
      BY <2>1 DEF IndInv, TypeOK, Failures
    <2>4. Stages'
      BY <2>1 DEF IndInv, TypeOK, Stages
    <2>5. Parsed' /\ DOMAIN outcome' = Extractions
      BY <2>1 DEF IndInv, TypeOK, Stages, Parsed
    <2>6. TornOnlyByFailure'
      BY <2>1 DEF IndInv, TypeOK, Stages, Parsed, TornOnlyByFailure
    <2> QED
      BY <2>2, <2>3, <2>4, <2>5, <2>6 DEF IndInv
  <1>9. ASSUME NEW x \in Extractions, FindCurrent(x)
        PROVE  IndInv'
    <2>1. /\ pc[x] = "find"
          /\ \E w \in {"wait", "write"} : pc' = [pc EXCEPT ![x] = w]
          /\ prior' \in [Extractions -> Extractions \union {None}]
          /\ UNCHANGED <<docType, artefact, document, outcome>>
          /\ UNCHANGED <<result, batches, recorded, current, openFacts, quarantined>>
      BY <1>9 DEF FindCurrent, To, inputs, silverVars, IndInv, TypeOK
    <2>2. SnapshotIsWhole' /\ OneKeyEach'
      BY <2>1, SnapshotStays
    <2>3. TypeOK'
      <3>1. PICK w \in {"wait", "write"} : pc' = [pc EXCEPT ![x] = w]
        BY <2>1
      <3> QED
        BY <2>1, <3>1 DEF IndInv, TypeOK
    <2>4. Stages'
      BY <2>1 DEF IndInv, TypeOK, Stages
    <2>5. Parsed' /\ DOMAIN outcome' = Extractions
      BY <2>1 DEF IndInv, TypeOK, Stages, Parsed
    <2>6. TornOnlyByFailure'
      BY <2>1 DEF IndInv, TypeOK, Stages, Parsed, TornOnlyByFailure
    <2> QED
      BY <2>2, <2>3, <2>4, <2>5, <2>6 DEF IndInv
  <1>10. ASSUME NEW x \in Extractions, Recheck(x)
        PROVE  IndInv'
    <2>1. /\ pc[x] = "wait"
          /\ pc' = [pc EXCEPT ![x] = "write"]
          /\ prior' \in [Extractions -> Extractions \union {None}]
          /\ UNCHANGED <<docType, artefact, document, outcome>>
          /\ UNCHANGED <<result, batches, recorded, current, openFacts, quarantined>>
      BY <1>10 DEF Recheck, To, inputs, silverVars, IndInv, TypeOK
    <2>2. SnapshotIsWhole' /\ OneKeyEach'
      BY <2>1, SnapshotStays
    <2>3. TypeOK'
      BY <2>1 DEF IndInv, TypeOK, Failures
    <2>4. Stages'
      BY <2>1 DEF IndInv, TypeOK, Stages
    <2>5. Parsed' /\ DOMAIN outcome' = Extractions
      BY <2>1 DEF IndInv, TypeOK, Stages, Parsed
    <2>6. TornOnlyByFailure'
      BY <2>1 DEF IndInv, TypeOK, Stages, Parsed, TornOnlyByFailure
    <2> QED
      BY <2>2, <2>3, <2>4, <2>5, <2>6 DEF IndInv
  <1>11. ASSUME NEW x \in Extractions, Write(x)
        PROVE  IndInv'
    <2>1. /\ pc[x] = "write"
          /\ pc' = [pc EXCEPT ![x] = "copy"]
          /\ recorded' = recorded \union {x}
          /\ current' = (current \ {prior[x]}) \union {x}
          /\ UNCHANGED <<docType, artefact, document, outcome>>
          /\ UNCHANGED <<prior, result, batches, quarantined>>
      BY <1>11 DEF Write, To, inputs
    <2>2. SnapshotIsWhole' /\ OneKeyEach' /\ \A g \in openFacts' : g.header \in current'
      BY <1>11, WriteReplaces
    <2>3. TypeOK'
      <3>1. x \in batches
        BY <2>1 DEF IndInv, TypeOK, Stages
      <3> QED
        BY <2>1, <2>2, <3>1 DEF IndInv, TypeOK
    <2>4. Stages'
      BY <2>1 DEF IndInv, TypeOK, Stages
    <2>5. Parsed' /\ DOMAIN outcome' = Extractions
      BY <2>1 DEF IndInv, TypeOK, Stages, Parsed
    <2>6. TornOnlyByFailure'
      BY <2>1 DEF IndInv, TypeOK, Stages, Parsed, TornOnlyByFailure
    <2> QED
      BY <2>2, <2>3, <2>4, <2>5, <2>6 DEF IndInv
  <1>12. ASSUME NEW x \in Extractions, WriteRefused(x)
        PROVE  IndInv'
    <2>1. /\ pc[x] = "write"
          /\ pc' = [pc EXCEPT ![x] = "done"]
          /\ \E r \in {"CONFLICT", "INVALID"} : result' = [result EXCEPT ![x] = r]
          /\ UNCHANGED <<docType, artefact, document, outcome>>
          /\ UNCHANGED <<prior, batches, recorded, current, openFacts, quarantined>>
      BY <1>12 DEF WriteRefused, Answer, To, inputs, silverVars
    <2>2. SnapshotIsWhole' /\ OneKeyEach'
      BY <2>1, SnapshotStays
    <2>3. TypeOK'
      BY <2>1 DEF IndInv, TypeOK, Failures
    <2>4. Stages'
      BY <2>1 DEF IndInv, TypeOK, Stages
    <2>5. Parsed' /\ DOMAIN outcome' = Extractions
      BY <2>1 DEF IndInv, TypeOK, Stages, Parsed
    <2>6. TornOnlyByFailure'
      BY <2>1 DEF IndInv, TypeOK, Stages, Parsed, TornOnlyByFailure
    <2> QED
      BY <2>2, <2>3, <2>4, <2>5, <2>6 DEF IndInv
  <1>13. ASSUME NEW x \in Extractions, PutSilverCopy(x)
        PROVE  IndInv'
    <2>1. /\ pc[x] = "copy"
          /\ pc' = [pc EXCEPT ![x] = "done"]
          /\ result' = [result EXCEPT ![x] = "ACCEPTED"]
          /\ UNCHANGED <<docType, artefact, document, outcome>>
          /\ UNCHANGED <<prior, batches, recorded, current, openFacts, quarantined>>
      BY <1>13 DEF PutSilverCopy, Answer, To, inputs, silverVars
    <2>2. SnapshotIsWhole' /\ OneKeyEach'
      BY <2>1, SnapshotStays
    <2>3. TypeOK'
      BY <2>1 DEF IndInv, TypeOK, Failures
    <2>4. Stages'
      BY <2>1 DEF IndInv, TypeOK, Stages
    <2>5. Parsed' /\ DOMAIN outcome' = Extractions
      BY <2>1 DEF IndInv, TypeOK, Stages, Parsed
    <2>6. TornOnlyByFailure'
      BY <2>1 DEF IndInv, TypeOK, Stages, Parsed, TornOnlyByFailure
    <2> QED
      BY <2>2, <2>3, <2>4, <2>5, <2>6 DEF IndInv
  <1>14. ASSUME NEW x \in Extractions, Crash(x)
        PROVE  IndInv'
    <2>1. /\ pc[x] \notin {"idle", "done"}
          /\ pc' = [pc EXCEPT ![x] = "done"]
          /\ result' = [result EXCEPT ![x] = "ERROR"]
          /\ UNCHANGED <<docType, artefact, document, outcome>>
          /\ UNCHANGED <<prior, batches, recorded, current, openFacts, quarantined>>
      BY <1>14 DEF Crash, Answer, To, inputs, silverVars
    <2>2. SnapshotIsWhole' /\ OneKeyEach'
      BY <2>1, SnapshotStays
    <2>3. TypeOK'
      BY <2>1 DEF IndInv, TypeOK, Failures
    <2>4. Stages'
      BY <2>1 DEF IndInv, TypeOK, Stages
    <2>5. Parsed' /\ DOMAIN outcome' = Extractions
      BY <2>1 DEF IndInv, TypeOK, Stages, Parsed
    <2>6. TornOnlyByFailure'
      BY <2>1 DEF IndInv, TypeOK, Stages, Parsed, TornOnlyByFailure
    <2> QED
      BY <2>2, <2>3, <2>4, <2>5, <2>6 DEF IndInv
  <1> QED
    BY <1>1, <1>2, <1>3, <1>4, <1>5, <1>6, <1>7, <1>8, <1>9, <1>10, <1>11, <1>12, <1>13, <1>14
       DEF Next, Step

LEMMA Inductive == Spec => []IndInv
  BY IndInit, IndNext, PTL DEF Spec

-----------------------------------------------------------------------------
(* The theorems.                                                           *)

\* Whatever run_extraction meets, what it writes is well formed: every row has a
\* batch, every current header and every open fact a committed row.
THEOREM ExtractionTypeCorrect == Spec => []TypeOK
  <1>1. IndInv => TypeOK
    BY DEF IndInv
  <1> QED
    BY <1>1, Inductive, PTL

\* SnapshotIsWhole holds for any number of extractions at once: record_or_supersede
\* replaces a document's facts as a whole, and no number has two current headers.
THEOREM WholeSnapshots == Spec => []SnapshotIsWhole
  <1>1. IndInv => SnapshotIsWhole
    BY DEF IndInv
  <1> QED
    BY <1>1, Inductive, PTL

\* TornOnlyByFailure holds for any number of extractions at once: a manifest
\* without its fact is left by a failure that was reported, and an answer is true.
THEOREM AnswersAreTrue == Spec => []TornOnlyByFailure
  <1>1. IndInv => TornOnlyByFailure
    BY DEF IndInv
  <1> QED
    BY <1>1, Inductive, PTL

\* OneHoldingPerDay holds for every document and every start of the fiscal year:
\* the windows _extra_silver_write gives the facts never overlap for a holder, and
\* one of them contains the date of the document.
THEOREM OneHolding == Spec => []OneHoldingPerDay
  <1>1. ASSUME IndInv, docType = "SHAREHOLDING"
        PROVE  OneHoldingPerDay
    <2>1. ASSUME NEW x \in current
          PROVE  /\ outcome[x].fields.date.month \in Nat
                 /\ FyContaining(outcome[x].fields.date.month) \in Int
                 /\ FyContaining(outcome[x].fields.date.month) - 1 \in Int
      <3>1. x \in Extractions /\ outcome[x].kind = "Extracted"
        BY <1>1 DEF IndInv, TypeOK, Parsed
      <3>2. "date" \in DOMAIN outcome[x].fields
        BY <1>1, <3>1 DEF IndInv, Parsed
      <3>3. outcome[x].fields["date"] \in Raws
        BY <1>1, <3>1, <3>2 DEF IndInv, TypeOK
      <3>4. outcome[x].fields.date.month \in Nat
        BY <3>3 DEF Raws
      <3>5. FyContaining(outcome[x].fields.date.month) \in Int
        BY <3>4, FiscalYears
      <3> QED
        BY <3>4, <3>5
    <2>2. Members
      BY <1>1, InSnapshot DEF IndInv, SnapshotIsWhole, Whole
    <2>3. ASSUME NEW g \in openFacts
          PROVE  \E y \in Int : g.fact.from = FyBounds(y).from /\ g.fact.to = FyBounds(y).to
      <3>1. PICK x \in current : \E f \in FactRows(x) : g = [header |-> x, fact |-> f]
        BY <2>2 DEF Members
      <3>2. PICK f \in FactRows(x) : g = [header |-> x, fact |-> f]
        BY <3>1
      <3>3. \E w \in Windows(x) : f.from = w.from /\ f.to = w.to
        BY <1>1 DEF FactRows
      <3>4. \A w \in Windows(x) : \E y \in Int : w = FyBounds(y)
        BY <2>1 DEF Windows
      <3> QED
        BY <3>2, <3>3, <3>4
    <2>4. ASSUME NEW g \in openFacts, NEW h \in openFacts,
                 g # h, g.fact.name = h.fact.name
          PROVE  g.fact.to < h.fact.from \/ h.fact.to < g.fact.from
      <3>1. FactKey(g.fact) # FactKey(h.fact)
        BY <1>1, <2>4 DEF IndInv, OneKeyEach
      <3>2. g.fact.from # h.fact.from
        BY <1>1, <2>4, <3>1 DEF FactKey
      <3>3. PICK y \in Int : g.fact.from = FyBounds(y).from /\ g.fact.to = FyBounds(y).to
        BY <2>3
      <3>4. PICK z \in Int : h.fact.from = FyBounds(z).from /\ h.fact.to = FyBounds(z).to
        BY <2>3
      <3> QED
        BY <3>2, <3>3, <3>4, FiscalYears
    <2>5. ASSUME NEW x \in current, NEW i \in DOMAIN outcome[x].rows
          PROVE  \E g \in openFacts :
                    /\ g.header = x /\ g.fact.row = i
                    /\ outcome[x].fields.date.month \in g.fact.from..g.fact.to
      <3> DEFINE w == FyBounds(FyContaining(outcome[x].fields.date.month))
                 f == [row |-> i, name |-> outcome[x].rows[i].name,
                       opening |-> outcome[x].rows[i].opening, from |-> w.from, to |-> w.to]
                 g == [header |-> x, fact |-> f]
      <3>1. w \in Windows(x)
        BY DEF Windows
      <3>2. outcome[x].fields.date.month \in w.from..w.to
        BY <2>1, FiscalYears
      <3> HIDE DEF w
      <3>3. f \in FactRows(x)
        BY <1>1, <3>1 DEF FactRows
      <3>4. f.row = i /\ f.from = w.from /\ f.to = w.to
        OBVIOUS
      <3> HIDE DEF f
      <3>5. g \in openFacts
        BY <2>2, <3>3 DEF Members
      <3>6. g.header = x /\ g.fact = f
        OBVIOUS
      <3> HIDE DEF g
      <3> QED
        BY <3>2, <3>4, <3>5, <3>6
    <2> QED
      BY <2>4, <2>5 DEF OneHoldingPerDay
  <1>2. IndInv => OneHoldingPerDay
    BY <1>1 DEF OneHoldingPerDay
  <1> QED
    BY <1>2, Inductive, PTL

\* FootnotesNeverWin holds for documents of any length: _find_value takes the
\* first line that declares a label, so no line below it changes what is bound.
THEOREM FootnotesLose == Spec => []FootnotesNeverWin
  <1>1. ASSUME NEW lines \in Seq(Lines), NEW line \in Lines, NEW spec, NEW n \in DOMAIN spec,
               Labelled(lines, spec[n].label, TRUE) # {}
        PROVE  LET o == ParseLabelValue(lines, spec)
                   p == ParseLabelValue(Append(lines, line), spec)
               IN  /\ n \in DOMAIN p.fields <=> n \in DOMAIN o.fields
                   /\ n \in DOMAIN o.fields => p.fields[n] = o.fields[n]
    <2> DEFINE raw(ls) == [m \in DOMAIN spec |-> FindValue(ls, spec[m].label, spec[m].type)]
               bound(ls) == {m \in {k \in DOMAIN spec : raw(ls)[k] # NoRaw /\ raw(ls)[k].text # ""} :
                                Coerces(spec[m].type, raw(ls)[m])}
    <2>1. ASSUME NEW ls
          PROVE  ParseLabelValue(ls, spec).fields = [m \in bound(ls) |-> raw(ls)[m]]
      BY DEF ParseLabelValue
    <2>2. raw(Append(lines, line))[n] = raw(lines)[n]
      BY <1>1, FootnoteIgnored
    <2>3. n \in bound(Append(lines, line)) <=> n \in bound(lines)
      BY <2>2
    <2> HIDE DEF raw, bound
    <2> QED
      BY <2>1, <2>2, <2>3
  <1>2. ASSUME NEW d \in DocTypes, NEW line \in LinesSeen[d]
        PROVE  line \in Lines
    <2>1. PICK c \in Contents(d) : \E i \in DOMAIN c.lines : line = c.lines[i]
      BY DEF LinesSeen
    <2>2. c.lines \in Seq(Lines)
      BY DocumentsAssumption DEF Contents
    <2> QED
      BY <2>1, <2>2
  <1>3. TypeOK => FootnotesNeverWin
    <2> SUFFICES ASSUME TypeOK, NEW x \in Extractions, NEW line \in LinesSeen[docType],
                        NEW n \in DOMAIN LabelSpec[docType],
                        Labelled(document[artefact[x]].lines, LabelSpec[docType][n].label, TRUE) # {}
                 PROVE  LET o == ParseLabelValue(document[artefact[x]].lines, LabelSpec[docType])
                            p == ParseLabelValue(Append(document[artefact[x]].lines, line),
                                                 LabelSpec[docType])
                        IN  /\ n \in DOMAIN p.fields <=> n \in DOMAIN o.fields
                            /\ n \in DOMAIN o.fields => p.fields[n] = o.fields[n]
      BY DEF FootnotesNeverWin
    <2>1. document[artefact[x]].lines \in Seq(Lines)
      BY ReadIn
    <2>2. line \in Lines
      BY <1>2 DEF TypeOK
    <2> DEFINE lines == document[artefact[x]].lines
               spec == LabelSpec[docType]
    <2>3. /\ lines \in Seq(Lines) /\ n \in DOMAIN spec
          /\ Labelled(lines, spec[n].label, TRUE) # {}
      BY <2>1
    <2>4. SUFFICES LET o == ParseLabelValue(lines, spec)
                       p == ParseLabelValue(Append(lines, line), spec)
                   IN  /\ n \in DOMAIN p.fields <=> n \in DOMAIN o.fields
                       /\ n \in DOMAIN o.fields => p.fields[n] = o.fields[n]
      OBVIOUS
    <2> HIDE DEF lines, spec
    <2> QED
      BY <1>1, <2>2, <2>3
  <1>4. IndInv => FootnotesNeverWin
    BY <1>3 DEF IndInv
  <1> QED
    BY <1>4, Inductive, PTL

\* EveryRowOnce holds for pages of any length, windows of any size and any bound
\* on the words of a name: the rows to_silver writes of a table are the ones its
\* pattern finds, none of them twice and none passed over, and for a shareholding
\* all the figures that have a name in reach.
THEOREM TablesAreWhole == Spec => []EveryRowOnce
  <1>1. ASSUME IndInv, NEW x \in Extractions, docType \in TableTypes,
               outcome[x].kind = "Extracted"
        PROVE  LET words == document[artefact[x]].words
                   form  == TableForm[docType]
                   spans == RowSpans(form, words)
               IN  /\ outcome[x].rows = RowsAt(form, words, spans)
                   /\ Found(spans, form, words, 1)
                   /\ docType = "SHAREHOLDING" => FiguresRead(spans, words)
    <2> DEFINE words == document[artefact[x]].words
               form  == TableForm[docType]
               spans == RowSpans(form, words)
    <2>1. words \in Seq(Words)
      BY <1>1, ReadIn DEF IndInv
    <2>2. form \in Forms /\ (docType = "SHAREHOLDING" => form = Listed)
      <3>1. CASE docType = "SHAREHOLDING"
        BY <3>1 DEF TableForm, Forms, Listed
      <3>2. CASE docType = "GSTIN_REGISTER"
        BY <3>2 DEF TableForm, Forms
      <3> QED
        BY <1>1, <3>1, <3>2 DEF TableTypes
    <2>3. outcome[x].rows = RowsAt(form, words, spans)
      BY <1>1 DEF IndInv, Parsed, ParseTableRows
    <2> SUFFICES /\ outcome[x].rows = RowsAt(form, words, spans)
                 /\ Found(spans, form, words, 1)
                 /\ docType = "SHAREHOLDING" => FiguresRead(spans, words)
      OBVIOUS
    <2> HIDE DEF words, form
    <2>4. Found(spans, form, words, 1)
      BY <2>1, <2>2, TableIsRead
    <2>5. docType = "SHAREHOLDING" => FiguresRead(spans, words)
      BY <2>1, <2>2, FiguresAreRead
    <2> QED
      BY <2>3, <2>4, <2>5
  <1>2. IndInv => EveryRowOnce
    BY <1>1 DEF EveryRowOnce
  <1> QED
    BY <1>2, Inductive, PTL

=============================================================================
