------------------------------ MODULE Extraction ------------------------------
(***************************************************************************)
(* run_extraction from a PDF to Silver, for concurrent extractions of one  *)
(* document type of one tenant: the registry of extractors, the text       *)
(* layer, the extractor of the type, and what to_silver writes of it.      *)
(* (Module Dispatch has the triggers around it.)  Types never share a key. *)
(*                                                                         *)
(* Transactions are one step, except record_or_supersede: its lookup takes *)
(* a lock its insert is made under.  An extraction writes at most one      *)
(* batch and one header row, so it stands for the id of both.              *)
(***************************************************************************)
EXTENDS LabelValue

\* Archetypes 3, 6, 4, 8, 7, the tables of 7, 1 and 2; the registry has many
\* types of each, which differ in their labels.
DocTypes == {"ENTITLEMENT", "PROCEEDING", "STATEMENT", "CONTRACT", "MASTER",
             "GSTIN_REGISTER", "SHAREHOLDING", "TRANSACTION",
             "PAYROLL", "FIRC", "FORM_15CA"}

CONSTANTS Extractions, Artefacts,
          Documents,     \* per document type and artefact: what may be in the PDF
          OcrEnabled,    \* Settings.ocr_enabled: a second reader is configured
          None

ASSUME DocumentsAssumption ==
    /\ DOMAIN Documents = DocTypes \X Artefacts
    /\ \A d \in DocTypes, a \in Artefacts : \A c \in Documents[<<d, a>>] :
        c.lines \in Seq(Lines) /\ c.words \in Seq(Words) /\ c.chunks \in Seq(Chunks)
ASSUME NoneAssumption == None \notin Extractions

TableTypes == {"GSTIN_REGISTER", "SHAREHOLDING"}
RegisterTypes == {"PAYROLL", "FIRC", "FORM_15CA"}
CsvTypes == RegisterTypes \union {"TRANSACTION"}

VARIABLES
    docType,      \* the type all of the extractions are of
    artefact,     \* per extraction: the artefact it reads
    document,     \* per artefact: what is in the PDF
    pc,           \* per extraction: where run_extraction is
    outcome,      \* per extraction: the ExtractionOutcome
    prior,        \* per extraction: the row its lookup found or waits for, or None
    result,       \* per extraction: how it ended
    batches,      \* ingest_batch: the extractions that have a READY row
    recorded,     \* the ones whose rows are committed
    current,      \* the header rows with superseded_at null
    openFacts,    \* the fact rows with superseded_at null
    quarantined   \* quarantined_artefact

inputs == <<docType, artefact, document>>
silverVars == <<batches, recorded, current, openFacts, quarantined>>
vars == <<inputs, pc, outcome, prior, result, silverVars>>

Contents(d) == UNION {Documents[<<d, a>>] : a \in Artefacts}

Filings(d) == {f \in [Artefacts -> Contents(d)] : \A a \in Artefacts : f[a] \in Documents[<<d, a>>]}

Failures == {"BAD_REQUEST", "CONFLICT", "INVALID", "ERROR"}

TypeOK ==
    /\ docType \in DocTypes
    /\ artefact \in [Extractions -> Artefacts]
    /\ \A a \in Artefacts : document[a] \in Documents[<<docType, a>>]
    /\ pc \in [Extractions -> {"idle", "read", "quarantine", "load", "batch", "find",
                               "wait", "write", "copy", "done"}]
    /\ \A x \in Extractions :
        /\ outcome[x].kind \in {"none", "NoTextLayer", "Partial", "Extracted"}
        /\ \A n \in DOMAIN outcome[x].fields : outcome[x].fields[n] \in Raws
    /\ prior \in [Extractions -> Extractions \union {None}]
    /\ result \in [Extractions -> {"none", "ACCEPTED", "QUARANTINED"} \union Failures]
    /\ recorded \subseteq batches /\ batches \subseteq Extractions
    /\ current \subseteq recorded
    /\ \A g \in openFacts : g.header \in recorded
    /\ quarantined \subseteq Artefacts

Init ==
    /\ docType \in DocTypes
    /\ document \in Filings(docType)
    /\ artefact \in [Extractions -> Artefacts]
    /\ pc = [x \in Extractions |-> "idle"]
    /\ outcome = [x \in Extractions |-> NoOutcome]
    /\ prior = [x \in Extractions |-> None]
    /\ result = [x \in Extractions |-> "none"]
    /\ batches = {}
    /\ recorded = {}
    /\ current = {}
    /\ openFacts = {}
    /\ quarantined = {}

To(x, where) == pc' = [pc EXCEPT ![x] = where]

Answer(x, r) ==
    /\ To(x, "done")
    /\ result' = [result EXCEPT ![x] = r]

-----------------------------------------------------------------------------
(* The registry of extractors.                                             *)

\* What an extraction_spec cell can be: empty, refused by
\* parse_extraction_spec, without a table clause, or in order.
Cells == {"good", "empty", "malformed", "tableless"}

\* build_extractor_registry: one cell that does not parse, or a table type
\* without its table, and there is no registry at all; {} stands for that.
Registry(cells) ==
    IF \E d \in DocTypes : \/ cells[d] = "malformed"
                           \/ d \in TableTypes /\ cells[d] = "tableless"
    THEN {}
    ELSE {d \in DocTypes : cells[d] # "empty"} \union RegisterTypes

\* It is read for each extraction, so a cell may have been edited since the
\* last one; at most one is out of order at a time.
Registries ==
    {Registry([e \in DocTypes |-> IF e = d THEN c ELSE "good"]) : d \in DocTypes, c \in Cells}

BuildRegistry(x) ==
    /\ pc[x] = "idle"
    /\ \E known \in {(docType \in r) : r \in Registries} :
        IF known THEN To(x, "read") /\ UNCHANGED result ELSE Answer(x, "BAD_REQUEST")
    /\ UNCHANGED <<inputs, outcome, prior, silverVars>>

-----------------------------------------------------------------------------
(* The extractors: label_spec of each archetype, and the types with more.  *)

Field(label, type, required) == [label |-> label, type |-> type, required |-> required]

Header == [number |-> Field("number", "text", TRUE), date |-> Field("date", "date", TRUE)]

LabelSpec ==
    [ENTITLEMENT    |-> [number |-> Field("number", "text", TRUE),
                         date   |-> Field("date", "date_range", TRUE)],
     PROCEEDING     |-> [number |-> Field("number", "text", TRUE),
                         date   |-> Field("date", "date", TRUE),
                         amount |-> Field("amount", "money", FALSE)],
     STATEMENT      |-> [auditor |-> Field("number", "text", TRUE),
                         date    |-> Field("date", "date", FALSE)],
     CONTRACT       |-> <<>>,
     MASTER         |-> Header,
     GSTIN_REGISTER |-> Header,
     SHAREHOLDING   |-> [number |-> Field("number", "text", TRUE),
                         date   |-> Field("number", "date", TRUE)],
     TRANSACTION    |-> [number |-> Field("number", "text", TRUE),
                         date   |-> Field("date", "date", TRUE),
                         amount |-> Field("amount", "money", TRUE)],
     FORM_15CA      |-> [number |-> Field("number", "text", TRUE)]]

\* The table_pattern of the two types.  Those of DIRECTOR_LIST_WITH_DIN and
\* KMP_LIST have a name, the former a gap too.
TableForm ==
    [GSTIN_REGISTER |-> [named |-> FALSE, gap |-> TRUE, tail |-> TRUE],
     SHAREHOLDING   |-> [named |-> TRUE, gap |-> FALSE, tail |-> FALSE]]

\* The extract of a table type: a table without rows is a missing fact.
ExtractTable(o, words) ==
    LET rows == ParseTableRows(TableForm[docType], words)
    IN  IF o.kind # "Extracted" THEN o
        ELSE IF rows = <<>> THEN [o EXCEPT !.kind = "Partial", !.missing = {"table_rows"}]
        ELSE [o EXCEPT !.rows = rows]

\* The registers cut off their note and keep the chunks that have the shape of
\* a row.
BeforeNote(chunks) ==
    LET notes == {i \in DOMAIN chunks : chunks[i].kind = "note"}
    IN  IF notes = {} THEN chunks ELSE SubSeq(chunks, 1, Min(notes) - 1)

RegisterRows(chunks) == SelectSeq(BeforeNote(chunks), LAMBDA c : c.kind = "row")

ExtractRegister(chunks) ==
    LET rows == RegisterRows(chunks)
    IN  IF rows = <<>>
        THEN [NoOutcome EXCEPT !.kind = "Partial", !.missing = {"rows"}]
        ELSE [NoOutcome EXCEPT !.kind = "Extracted", !.rows = rows]

\* A certificate: its labelled facts are the one row.
ExtractForm(o) == IF o.kind = "Extracted" THEN [o EXCEPT !.rows = <<o.fields>>] ELSE o

Extract(d) ==
    IF docType \in {"PAYROLL", "FIRC"} THEN ExtractRegister(d.chunks)
    ELSE LET o == ParseLabelValue(d.lines, LabelSpec[docType])
         IN  IF docType \in TableTypes THEN ExtractTable(o, d.words)
             ELSE IF docType = "FORM_15CA" THEN ExtractForm(o) ELSE o

\* The invoice date of a FIRC row has the shape of a date and is none: strptime.
DateRaises(d) ==
    docType = "FIRC" /\ \E i \in DOMAIN BeforeNote(d.chunks) : d.chunks[i].kind = "bad"

\* _csv_row makes a Decimal of the figure: of "", if all it had was a comma.
RowRaises(o) ==
    /\ docType = "TRANSACTION"
    /\ o.kind = "Extracted"
    /\ o.fields.amount.num = "comma"

\* FallbackPdfTextReader: the native layer, or else OCR where it is configured,
\* which may find nothing either.
HasText(d) ==
    IF d.layer = "native" THEN {TRUE} ELSE IF OcrEnabled THEN BOOLEAN ELSE {FALSE}

\* Where to_silver goes with an outcome: of the archetypes 3, 4, 6 and 7, ...
SinkFact(o) == IF o.kind = "Extracted" THEN "batch" ELSE "quarantine"

\* ... of 8, which writes a contract without a field that failed to parse, ...
SinkContract(o) ==
    IF o.kind = "NoTextLayer" \/ (o.kind = "Partial" /\ o.missing # {})
    THEN "quarantine" ELSE "batch"

\* ... and of 1 and 2.
SinkCsv(o) == IF o.kind = "Extracted" THEN "load" ELSE "quarantine"

Sink(o) ==
    CASE docType \in CsvTypes  -> SinkCsv(o)
      [] docType = "CONTRACT" -> SinkContract(o)
      [] OTHER                -> SinkFact(o)

\* Reading and parsing are plain computation: nothing is written.
ReadAndExtract(x) ==
    /\ pc[x] = "read"
    /\ LET d == document[artefact[x]]
       IN  IF d.layer = "unreadable"
           THEN Answer(x, "BAD_REQUEST") /\ UNCHANGED outcome
           ELSE \E hasText \in HasText(d) :
                IF hasText /\ DateRaises(d)
                THEN Answer(x, "BAD_REQUEST") /\ UNCHANGED outcome
                ELSE LET o == IF hasText THEN Extract(d)
                              ELSE [NoOutcome EXCEPT !.kind = "NoTextLayer"]
                     IN  /\ outcome' = [outcome EXCEPT ![x] = o]
                         /\ IF RowRaises(o) THEN Answer(x, "ERROR")
                            ELSE To(x, Sink(o)) /\ UNCHANGED result
    /\ UNCHANGED <<inputs, prior, silverVars>>

\* Wrong on purpose: the batch is made before the outcome is looked at.
QuarantineLate(x) ==
    /\ pc[x] = "quarantine"
    /\ batches' = batches \union {x}
    /\ quarantined' = quarantined \union {artefact[x]}
    /\ Answer(x, "QUARANTINED")
    /\ UNCHANGED <<inputs, outcome, prior, recorded, current, openFacts>>

Quarantine(x) ==
    /\ pc[x] = "quarantine"
    /\ quarantined' = quarantined \union {artefact[x]}
    /\ Answer(x, "QUARANTINED")
    /\ UNCHANGED <<inputs, outcome, prior, batches, recorded, current, openFacts>>

-----------------------------------------------------------------------------
(* Archetypes 1 and 2: the rows go as a CSV to promote or to a register    *)
(* loader, which write the batch and its rows in one transaction.          *)

\* Wrong on purpose: the rows are written and their batch is not.
LoadCsvBatchless(x) ==
    /\ pc[x] = "load"
    /\ recorded' = recorded \union {x}
    /\ To(x, "copy")
    /\ UNCHANGED <<inputs, outcome, prior, result, batches, current, openFacts,
                   quarantined>>

LoadCsv(x) ==
    /\ pc[x] = "load"
    /\ batches' = batches \union {x}
    /\ recorded' = recorded \union {x}
    /\ To(x, "copy")
    /\ UNCHANGED <<inputs, outcome, prior, result, current, openFacts, quarantined>>

\* ValidationRejected: the loader has quarantined the artefact itself.
CsvRejected(x) ==
    /\ pc[x] = "load"
    /\ quarantined' = quarantined \union {artefact[x]}
    /\ Answer(x, "QUARANTINED")
    /\ UNCHANGED <<inputs, outcome, prior, batches, recorded, current, openFacts>>

CsvRefused(x) ==
    /\ pc[x] = "load"
    /\ \E r \in {"CONFLICT", "INVALID"} : Answer(x, r)
    /\ UNCHANGED <<inputs, outcome, prior, silverVars>>

-----------------------------------------------------------------------------
(* Archetypes 3, 4, 6, 7 and 8: a batch, and then a row of their own.      *)

CreateBatch(x) ==
    /\ pc[x] = "batch"
    /\ batches' = batches \union {x}
    /\ To(x, "find")
    /\ UNCHANGED <<inputs, outcome, prior, result, recorded, current, openFacts,
                   quarantined>>

\* The columns of the type's *_current_uq index: the number the document
\* carries, or the artefact where it carries none.
NumberKey(x) == outcome[x].fields.number.text
ArtefactKey(x) == artefact[x]

SameKey(x, y) ==
    IF docType \in {"STATEMENT", "CONTRACT"} THEN ArtefactKey(x) = ArtefactKey(y)
    ELSE NumberKey(x) = NumberKey(y)

Locked(y) == \E z \in Extractions : pc[z] = "write" /\ prior[z] = y

\* close_current: SELECT .. FOR UPDATE of the current row; the update of the
\* row it finds is part of the transaction that Write commits.
FindCurrent(x) ==
    /\ pc[x] = "find"
    /\ LET found == {y \in current : SameKey(x, y)}
       IN  IF found = {} THEN To(x, "write") /\ UNCHANGED prior
           ELSE \E y \in found :
                /\ prior' = [prior EXCEPT ![x] = y]
                /\ To(x, IF Locked(y) THEN "wait" ELSE "write")
    /\ UNCHANGED <<inputs, outcome, result, silverVars>>

\* The lock is free: a row that is no longer current is no longer selected.
Recheck(x) ==
    /\ pc[x] = "wait"
    /\ ~Locked(prior[x])
    /\ prior' = [prior EXCEPT ![x] = IF @ \in current THEN @ ELSE None]
    /\ To(x, "write")
    /\ UNCHANGED <<inputs, outcome, result, silverVars>>

Windows(x) ==
    LET year == FyContaining(outcome[x].fields.date.month)
    IN  {FyBounds(year), FyBounds(year - 1)}

\* Wrong on purpose: the year before ends with the month this one starts in.
FactRowsOverlapping(x) ==
    {[row |-> i, name |-> outcome[x].rows[i].name, opening |-> outcome[x].rows[i].opening,
      from |-> w.from, to |-> w.to + 1] :
        i \in DOMAIN outcome[x].rows,
        w \in IF docType = "SHAREHOLDING" THEN Windows(x) ELSE {[from |-> 0, to |-> 0]}}

\* _extra_silver_write: a fact per row, for a shareholding one for each of the
\* two fiscal years the row states.
FactRows(x) ==
    {[row |-> i, name |-> outcome[x].rows[i].name, opening |-> outcome[x].rows[i].opening,
      from |-> w.from, to |-> w.to] :
        i \in DOMAIN outcome[x].rows,
        w \in IF docType = "SHAREHOLDING" THEN Windows(x) ELSE {[from |-> 0, to |-> 0]}}

\* The columns of the fact table's *_current_uq index beside the entity: the
\* holder and the start of the window, or the GSTIN, which opens a row.
FactKey(f) == IF docType = "SHAREHOLDING" THEN <<f.name, f.from>> ELSE f.opening

\* The fact rows that stay open beside the ones x writes.
OpenBeside(x) == {g \in openFacts : g.header # prior[x]}

\* What the unique indexes of the header and of the fact table refuse.
Collides(x) ==
    \/ \E y \in current \ {prior[x]} : SameKey(x, y)
    \/ \E f, g \in FactRows(x) : f # g /\ FactKey(f) = FactKey(g)
    \/ \E f \in FactRows(x), g \in OpenBeside(x) : FactKey(f) = FactKey(g.fact)

\* A value a column does not take: '' for a number, more than a hundred percent.
Unfit(x) ==
    \/ /\ "amount" \in DOMAIN outcome[x].fields
       /\ outcome[x].fields.amount.num = "comma"
    \/ \E i \in DOMAIN outcome[x].rows : outcome[x].rows[i].over

\* Wrong on purpose: close_prior_fact_rows is forgotten.
WriteOver(x) ==
    /\ pc[x] = "write"
    /\ ~Unfit(x)
    /\ recorded' = recorded \union {x}
    /\ current' = (current \ {prior[x]}) \union {x}
    /\ openFacts' = openFacts \union {[header |-> x, fact |-> f] : f \in FactRows(x)}
    /\ To(x, "copy")
    /\ UNCHANGED <<inputs, outcome, prior, result, batches, quarantined>>

\* The rest of record_or_supersede and its commit: the prior header is closed,
\* the new one inserted, and by on_write the prior fact rows are closed and the
\* new ones inserted.
Write(x) ==
    /\ pc[x] = "write"
    /\ ~Collides(x) /\ ~Unfit(x)
    /\ recorded' = recorded \union {x}
    /\ current' = (current \ {prior[x]}) \union {x}
    /\ openFacts' = OpenBeside(x) \union {[header |-> x, fact |-> f] : f \in FactRows(x)}
    /\ To(x, "copy")
    /\ UNCHANGED <<inputs, outcome, prior, result, batches, quarantined>>

WriteRefused(x) ==
    /\ pc[x] = "write"
    /\ \/ Collides(x) /\ Answer(x, "CONFLICT")
       \/ Unfit(x) /\ Answer(x, "INVALID")
    /\ UNCHANGED <<inputs, outcome, prior, silverVars>>

\* _put_silver_copy, after the commit: best effort, and read by nobody here.
PutSilverCopy(x) ==
    /\ pc[x] = "copy"
    /\ Answer(x, "ACCEPTED")
    /\ UNCHANGED <<inputs, outcome, prior, silverVars>>

\* The process dies or a connection is lost: what was committed stays.
Crash(x) ==
    /\ pc[x] \notin {"idle", "done"}
    /\ Answer(x, "ERROR")
    /\ UNCHANGED <<inputs, outcome, prior, silverVars>>

Step(x) ==
    \/ BuildRegistry(x) \/ ReadAndExtract(x) \/ Quarantine(x)
    \/ LoadCsv(x) \/ CsvRejected(x) \/ CsvRefused(x)
    \/ CreateBatch(x) \/ FindCurrent(x) \/ Recheck(x) \/ Write(x) \/ WriteRefused(x)
    \/ PutSilverCopy(x)

Next == \E x \in Extractions : Step(x) \/ Crash(x)

Spec == Init /\ [][Next]_vars

-----------------------------------------------------------------------------
(* Properties.                                                             *)

LinesSeen ==
    [d \in DocTypes |-> UNION {{c.lines[i] : i \in DOMAIN c.lines} : c \in Contents(d)}]

JustParsed(x) == pc[x] \in {"quarantine", "load", "batch"}

\* _find_value: "a corrected figure restated in a footnote must not silently win
\* over the primary declaration": no line added below a document changes what
\* is bound to a label it declares, nor turns a missing declaration into a value.
FootnotesNeverWin ==
    \A x \in Extractions :
        JustParsed(x) /\ docType \notin {"PAYROLL", "FIRC"} =>
        LET lines == document[artefact[x]].lines
            spec  == LabelSpec[docType]
            o     == ParseLabelValue(lines, spec)
        IN  \A line \in LinesSeen[docType] :
            LET p == ParseLabelValue(Append(lines, line), spec)
            IN  \A n \in DOMAIN spec : Labelled(lines, spec[n].label, TRUE) # {} =>
                    /\ n \in DOMAIN p.fields <=> n \in DOMAIN o.fields
                    /\ n \in DOMAIN o.fields => p.fields[n] = o.fields[n]

\* parse_table_rows finds the rows of a page whatever lines they wrap over, values
\* that break in the middle included: the rows do not overlap and are in order,
\* each ends with the first line that completes it, and no line that could start
\* a row is passed over.  For a shareholding that means: figures with a name in
\* reach, of at most MaxWords words, are in the table exactly once, under the
\* longest name in reach.
EveryRowOnce ==
    \A x \in Extractions :
        docType \in TableTypes /\ JustParsed(x) /\ outcome[x].kind = "Extracted" =>
            LET words == document[artefact[x]].words
                form  == TableForm[docType]
                spans == RowSpans(form, words)
            IN  /\ outcome[x].rows = RowsAt(form, words, spans)
                /\ Found(spans, form, words, 1)
                /\ docType = "SHAREHOLDING" => FiguresRead(spans, words)

\* "Supersede is full-snapshot replace": the open fact rows are those of the
\* current headers, all of them and nothing else, whatever was superseded,
\* refused or interrupted; and a header has no rival for its number.
SnapshotIsWhole ==
    /\ openFacts = UNION {{[header |-> x, fact |-> f] : f \in FactRows(x)} : x \in current}
    /\ \A x, y \in current : x # y => ~SameKey(x, y)

\* The query migration 032 was written for, "who held how much on that day", has
\* at most one answer for a holder, over all the documents on file, and every
\* document on file answers it for its own date.
OneHoldingPerDay ==
    docType = "SHAREHOLDING" =>
        /\ \A g, h \in openFacts :
            g # h /\ g.fact.name = h.fact.name
                => g.fact.to < h.fact.from \/ h.fact.to < g.fact.from
        /\ \A x \in current : \A i \in DOMAIN outcome[x].rows : \E g \in openFacts :
            /\ g.header = x /\ g.fact.row = i
            /\ outcome[x].fields.date.month \in g.fact.from..g.fact.to

\* The manifest of a PDF fact commits before the fact.  A READY batch without
\* its row is never left by an extraction that told its caller ACCEPTED or
\* QUARANTINED, and what it was told is what is on file: nothing of a refused
\* document is, all of an accepted one.
TornOnlyByFailure ==
    \A x \in Extractions :
        /\ x \in batches \ recorded =>
            pc[x] \in {"find", "wait", "write"} \/ result[x] \in {"CONFLICT", "INVALID", "ERROR"}
        /\ result[x] = "ACCEPTED" => x \in recorded /\ outcome[x].kind = "Extracted"
        /\ result[x] \in {"QUARANTINED", "CONFLICT", "INVALID"} => x \notin recorded
        /\ result[x] = "QUARANTINED" => x \notin batches /\ artefact[x] \in quarantined
=============================================================================
