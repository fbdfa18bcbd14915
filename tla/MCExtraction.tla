----------------------------- MODULE MCExtraction -----------------------------
(* An instance of Extraction for TLC: the documents.                         *)
EXTENDS Extraction, TLC

CONSTANTS Probe,   \* the artefact that goes through every combination of lines
          MaxLines \* bound: physical lines of a table

Symmetric == Permutations(Extractions)

Raw(text, num, date, month) == [text |-> text, num |-> num, date |-> date, month |-> month]
Line(label, colon, raw) == [label |-> label, colon |-> colon, raw |-> raw]
Pdf(lines, words) == [layer |-> "native", lines |-> lines, words |-> words, chunks |-> <<>>]
Unread(layer, pdf) == [pdf EXCEPT !.layer = layer]
Chunk(kind, holder) == [kind |-> kind, holder |-> holder]
Register(chunks) == [Pdf(<<>>, <<>>) EXCEPT !.chunks = chunks]
Word(text, piece, fit) == [text |-> text, piece |-> piece, fit |-> fit, last |-> FALSE]

\* March and April of one year, and March of the next.
Mar == 26
Apr == 27
NextMar == 38

Dashed(text, m) == Raw(text, "figure", "dashed", m)
Spaced(text, m) == Raw(text, "figure", "spaced", m)
Plain(text) == Raw(text, "none", "none", 0)

Number(text) == Line("number", TRUE, Plain(text))
Dated(m) == Line("date", TRUE, Dashed("d", m))
Yearly(text, m) == Line("number", TRUE, Spaced(text, m))
Amount(num) == Line("amount", TRUE, Raw("n", num, "none", 0))

\* What may stand around the number of an order: dates declared, in a table, wrapped.
OrderLines ==
    {Dated(Mar), Line("date", TRUE, Plain("soon")),
     Line("date", FALSE, Dashed("d", Apr)), Line("date", FALSE, Spaced("d", Mar)),
     Line("date", FALSE, Raw("h", "figure", "half", 0)),
     Line("", FALSE, Raw("t", "figure", "tail", Apr))}

Orders ==
    {Pdf(<<Number("A")>> \o s, <<>>) : s \in SeqOf(OrderLines, 2)} \union
    {Pdf(<<Number("A"), Line("date", TRUE, Plain(""))>>, <<>>),
     Pdf(<<Number("A"), Dated(Mar), Line("amount", FALSE, Raw("n", "comma", "none", 0))>>, <<>>)}

\* A line of the words given.
OnLine(ws) == [k \in DOMAIN ws |-> [ws[k] EXCEPT !.last = (k = Len(ws))]]
Page(lines) == FoldLeft(LAMBDA page, line : page \o OnLine(line), <<>>, lines)

Name(h) == Word(h, 0, "good")
Text == Name("text")

\* The values of a row: the opening and the closing pieces.
Pieces(h, from, to, fit) == [k \in 1..(to - from + 1) |-> Word(h, from + k - 1, fit)]
Opens(h) == Pieces(h, 1, Opening, "good")
Closes(fit) == Pieces("", Opening + 1, Opening + Closing, fit)

\* Rows on a line of their own.
Holder(h) == <<Name(h)>> \o Opens(h) \o Closes("good")
Gstin(h) == Opens(h) \o <<Text>> \o Closes("good") \o <<Text>>

\* The lines of pages with such rows: whole, broken in many places, malformed.
HolderLines ==
    {Holder("h1"), <<Text, Text>>, <<Name("h2")>> \o Opens("h2"),
     Opens("h2") \o Closes("good"), Closes("good"), <<Text>> \o Opens("h2") \o Closes("bad")}
GstinLines ==
    {Gstin("g1"), <<Text>>, SubSeq(Gstin("g2"), 1, 1), SubSeq(Gstin("g2"), 2, Opening + 1 + Closing),
     Closes("good") \o <<Text>>, Opens("g2") \o <<Text>> \o Closes("bad") \o <<Text>>}

Listing(text, page) == Pdf(<<Number(text), Dated(Mar)>>, Page(page))
Holding(text, m, page) == Pdf(<<Yearly(text, m)>>, Page(page))

Entry == Chunk("row", "h1")
BadEntry == Chunk("bad", "")

Many(d) ==
    CASE d = "PROCEEDING" -> Orders
      [] d = "GSTIN_REGISTER" -> 
            {Listing("A", p) : p \in {<<Gstin("g1")>>, <<Gstin("g1"), <<Text>>, Gstin("g2")>>,
                                      <<Gstin("g1"), Gstin("g1")>>, <<<<Text>>>>}}
      [] d = "SHAREHOLDING" ->
            {Holding("A", m, p) : m \in {Mar, Apr, NextMar},
                                  p \in {<<Holder("h1"), Holder("h2")>>, <<<<Text>>, Holder("h1")>>}}
            \union {Holding("A", Mar, <<<<Name("h1")>> \o Opens("h1") \o Closes("over")>>)}
      [] d = "ENTITLEMENT" ->
            {Pdf(<<Number("A"), Line("date", TRUE, Raw("r", "figure", r, Mar))>>, <<>>) :
                r \in {"range", "dashed"}}
      [] d = "MASTER" -> {Listing("A", <<>>), Unread("scanned", Listing("A", <<>>)),
                          Unread("unreadable", Listing("A", <<>>))}
      [] d = "STATEMENT" -> {Pdf(<<Number("A")>> \o s, <<>>) : s \in SeqOf({Dated(Mar)}, 1)}
      [] d = "CONTRACT" -> {Pdf(<<>>, <<>>), Unread("scanned", Pdf(<<>>, <<>>))}
      [] d = "TRANSACTION" ->
            {Pdf(<<Number("A"), Dated(Mar), Amount(n)>>, <<>>) : n \in {"figure", "comma", "none"}}
      [] d \in {"PAYROLL", "FIRC"} ->
            {Register(c) : c \in {<<Entry>>, <<BadEntry, Entry>>, <<Chunk("text", "")>>,
                                  <<Entry, Chunk("note", ""), BadEntry>>}}
      [] d = "FORM_15CA" -> {Pdf(<<Number("A")>>, <<>>), Pdf(<<Number("")>>, <<>>)}

Few(d) ==
    CASE d = "PROCEEDING" ->
            {Pdf(<<Number(n), Dated(Mar), Amount("figure")>>, <<>>) : n \in {"A", "B"}}
      [] d \in {"GSTIN_REGISTER", "MASTER"} -> {Listing(n, <<Gstin("g1")>>) : n \in {"A", "B"}}
      [] d = "SHAREHOLDING" -> 
            {Holding("A", Mar, <<Holder("h1")>>), Holding("B", NextMar, <<Holder("h1")>>)}
      [] d \in {"PAYROLL", "FIRC"} -> {Register(<<Entry>>)}
      [] OTHER -> Many(d)

\* Tables wrapped in every way over a few lines.
Pages(d) ==
    CASE d = "GSTIN_REGISTER" -> {Listing("page", p) : p \in SeqOf(GstinLines, MaxLines)}
      [] d = "SHAREHOLDING" -> {Holding("page", Mar, p) : p \in SeqOf(HolderLines, MaxLines)}
      [] OTHER -> {}

AllDocuments ==
    <<>> @@ [da \in DocTypes \X Artefacts |->
        IF da[2] = Probe THEN Many(da[1]) \union Pages(da[1]) ELSE Few(da[1])]

\* By another name, so that TLC evaluates the sets only once.
SomeDocuments == AllDocuments

\* How a page is read depends on nothing else, so that a page is read once.
ReadOnce ==
    (document[Probe].lines # <<>> /\ document[Probe].lines[1].raw.text = "page") =>
        /\ \A x \in Extractions : artefact[x] = Probe
        /\ \A x, y \in Extractions : x # y => "idle" \in {pc[x], pc[y]}
===============================================================================
