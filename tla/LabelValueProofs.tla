--------------------------- MODULE LabelValueProofs ---------------------------
(***************************************************************************)
(* Proofs about the two grammars of LabelValue, for documents and tables   *)
(* of any length and for any window: what parse_label_value binds, and     *)
(* that parse_table_rows reads a table the way a reader does.              *)
(***************************************************************************)
EXTENDS LabelValue, FiniteSetTheorems, WellFoundedInduction, TLAPS

-----------------------------------------------------------------------------
(* Label: Value.                                                           *)

\* There is a first line of any set of lines.
LEMMA MinOf ==
    ASSUME NEW S, S \subseteq Nat, S # {}
    PROVE  Min(S) \in S /\ \A y \in S : Min(S) <= y
  <1> DEFINE R == {ss \in Nat \X Nat : ss[1] < ss[2]}
  <1>1. IsWellFoundedOn(R, Nat)
    BY NatLessThanWellFounded DEF OpToRel
  <1> HIDE DEF R
  <1>2. PICK x \in S : \A y \in S : ~ (<<y, x>> \in R)
    BY <1>1, WFMin
  <1>3. ASSUME NEW y \in S
        PROVE  x <= y
    <2>1. ~ (<<y, x>> \in R) /\ <<y, x>> \in Nat \X Nat
      BY <1>2
    <2>2. ~ (y < x)
      BY <2>1 DEF R
    <2> QED
      BY <2>2
  <1> QED
    BY <1>3 DEF Min

\* What is found for a label, if anything is, is the rest of a line.
LEMMA FoundIsRaw ==
    ASSUME NEW lines \in Seq(Lines), NEW label, NEW type
    PROVE  FindValue(lines, label, type) \in Raws \union {NoRaw}
  <1>1. ASSUME NEW i \in DOMAIN lines
        PROVE  lines[i].raw \in Raws
    <2>1. lines[i] \in Lines
      OBVIOUS
    <2> QED
      BY <2>1 DEF Lines
  <1>3. ASSUME NEW raw \in Raws
        PROVE  Squeeze(raw) \in Raws /\ [raw EXCEPT !.date = "dashed"] \in Raws
    BY DEF Squeeze, Raws
  <1>4. ASSUME NEW i \in DOMAIN lines
        PROVE  RowDate(lines, i) \in Raws \union {NoRaw}
    <2>1. i # Len(lines) => i + 1 \in DOMAIN lines
      OBVIOUS
    <2> QED
      BY <1>1, <1>3, <2>1 DEF RowDate
  <1>5. ASSUME NEW S, S \subseteq DOMAIN lines, S # {}
        PROVE  Min(S) \in DOMAIN lines
    <2>1. S \subseteq Nat
      BY <1>5
    <2> QED
      BY <1>5, <2>1, MinOf
  <1>6. /\ Labelled(lines, label, TRUE) \subseteq DOMAIN lines
        /\ MoneyRows(lines, label) \subseteq DOMAIN lines
        /\ DateRows(lines, label) \subseteq DOMAIN lines
    BY DEF Labelled, MoneyRows, DateRows
  <1> QED
    BY <1>1, <1>4, <1>5, <1>6 DEF FindValue

\* What parse_label_value returns.
LEMMA ParsedLabels ==
    ASSUME NEW lines \in Seq(Lines), NEW spec
    PROVE  LET o == ParseLabelValue(lines, spec)
           IN  /\ o.kind \in {"Partial", "Extracted"}
               /\ \A n \in DOMAIN o.fields : o.fields[n] \in Raws
               /\ o.kind = "Extracted" => \A n \in DOMAIN spec :
                                             spec[n].required => n \in DOMAIN o.fields
               /\ DOMAIN spec = {} => o.kind = "Extracted"
               /\ o = [kind |-> o.kind, fields |-> o.fields, missing |-> o.missing,
                       failed |-> o.failed, rows |-> o.rows]
  <1> DEFINE raw    == [n \in DOMAIN spec |-> FindValue(lines, spec[n].label, spec[n].type)]
             found  == {n \in DOMAIN spec : raw[n] # NoRaw /\ raw[n].text # ""}
             bound  == {n \in found : Coerces(spec[n].type, raw[n])}
             needed == {n \in DOMAIN spec : spec[n].required}
             o      == ParseLabelValue(lines, spec)
  <1>1. o = [kind    |-> IF needed \subseteq bound THEN "Extracted" ELSE "Partial",
             fields  |-> [n \in bound |-> raw[n]],
             missing |-> needed \ found,
             failed  |-> (needed \intersect found) \ bound,
             rows    |-> <<>>]
    BY DEF ParseLabelValue
  <1>2. \A n \in bound : raw[n] \in Raws
    <2>1. \A n \in DOMAIN spec : raw[n] \in Raws \union {NoRaw}
      BY FoundIsRaw
    <2> QED
      BY <2>1
  <1>3. bound \subseteq DOMAIN spec /\ needed \subseteq DOMAIN spec
    OBVIOUS
  <1>4. \A n \in DOMAIN spec : spec[n].required => n \in needed
    OBVIOUS
  <1> HIDE DEF raw, found, bound, needed, o
  <1>5. /\ o.kind = IF needed \subseteq bound THEN "Extracted" ELSE "Partial"
        /\ o.fields = [n \in bound |-> raw[n]]
    BY <1>1
  <1>6. DOMAIN o.fields = bound /\ \A n \in bound : o.fields[n] = raw[n]
    BY <1>5
  <1>7. o = [kind |-> o.kind, fields |-> o.fields, missing |-> o.missing,
             failed |-> o.failed, rows |-> o.rows]
    BY <1>1
  <1>8. o.kind = "Extracted" => \A n \in DOMAIN spec : spec[n].required => n \in DOMAIN o.fields
    BY <1>4, <1>5, <1>6
  <1>9. DOMAIN spec = {} => o.kind = "Extracted"
    BY <1>3, <1>5
  <1>10. /\ o.kind \in {"Partial", "Extracted"}
         /\ \A n \in DOMAIN o.fields : o.fields[n] \in Raws
    BY <1>2, <1>3, <1>5, <1>6
  <1> QED
    BY <1>7, <1>8, <1>9, <1>10 DEF o

\* A line below the others does not change what a declared label is bound to.
LEMMA FootnoteIgnored ==
    ASSUME NEW lines \in Seq(Lines), NEW line \in Lines, NEW label, NEW type,
           Labelled(lines, label, TRUE) # {}
    PROVE  FindValue(Append(lines, line), label, type) = FindValue(lines, label, type)
  <1> DEFINE more == Append(lines, line)
             S == Labelled(lines, label, TRUE)
             T == Labelled(more, label, TRUE)
  <1>1. /\ DOMAIN lines = 1..Len(lines) /\ DOMAIN more = 1..(Len(lines) + 1)
        /\ \A i \in 1..Len(lines) : more[i] = lines[i]
        /\ Len(lines) \in Nat
    OBVIOUS
  <1> HIDE DEF more
  <1>2. /\ S \subseteq 1..Len(lines) /\ S \subseteq T
        /\ T \subseteq S \union {Len(lines) + 1}
    BY <1>1 DEF Labelled
  <1>3. S # {}
    OBVIOUS
  <1> HIDE DEF S, T
  <1>4. S \subseteq Nat /\ T \subseteq Nat /\ T # {}
    <2>1. 1..Len(lines) \subseteq Nat /\ Len(lines) + 1 \in Nat
      BY <1>1
    <2> QED
      BY <1>2, <1>3, <2>1
  <1>5. Min(S) \in S /\ \A y \in S : Min(S) <= y
    BY <1>3, <1>4, MinOf
  <1>6. Min(T) \in T /\ \A y \in T : Min(T) <= y
    BY <1>4, MinOf
  <1>7. Min(T) = Min(S)
    <2>1. Min(T) <= Min(S)
      BY <1>2, <1>5, <1>6
    <2>2. Min(T) \in S
      <3>1. Min(S) \in 1..Len(lines)
        BY <1>2, <1>5
      <3>2. Min(T) # Len(lines) + 1
        BY <1>1, <2>1, <3>1
      <3> QED
        BY <1>2, <1>6, <3>2
    <2>3. Min(S) <= Min(T) /\ Min(S) \in Nat /\ Min(T) \in Nat
      BY <1>4, <1>5, <2>2
    <2> QED
      BY <2>1, <2>3
  <1>8. more[Min(T)].raw = lines[Min(S)].raw
    BY <1>1, <1>2, <1>5, <1>7
  <1>9. FindValue(more, label, type) = more[Min(T)].raw
    BY <1>2, <1>3 DEF FindValue, S, T
  <1>10. FindValue(lines, label, type) = lines[Min(S)].raw
    BY <1>3 DEF FindValue, S
  <1> QED
    BY <1>8, <1>9, <1>10 DEF more

-----------------------------------------------------------------------------
(* The rows of a flattened table.                                          *)

\* _locate_row: the shortest window that is a row.
LEMMA FirstEnd ==
    ASSUME NEW form, NEW words \in Seq(Words), NEW i \in 1..Len(words),
           RowEnds(form, words, i) # {}
    PROVE  /\ Min(RowEnds(form, words, i)) \in i..Len(words)
           /\ Min(RowEnds(form, words, i)) \in RowEnds(form, words, i)
           /\ \A e \in RowEnds(form, words, i) : Min(RowEnds(form, words, i)) <= e
  <1>1. RowEnds(form, words, i) \subseteq i..Len(words)
    BY DEF RowEnds
  <1>2. i..Len(words) \subseteq Nat
    OBVIOUS
  <1> QED
    BY <1>1, <1>2, MinOf

\* One line of parse_table_rows, given what it makes of the lines below.
ScanStep(form, words, scan, i) ==
    IF i > Len(words) THEN <<>>
    ELSE IF RowEnds(form, words, i) = {} THEN scan[i + 1]
    ELSE <<[from |-> i, to |-> Min(RowEnds(form, words, i))]>>
             \o scan[Min(RowEnds(form, words, i)) + 1]

Scans(form, words, scan, from) ==
    scan = [i \in from..(Len(words) + 1) |-> ScanStep(form, words, scan, i)]

\* A line is read by what is below it alone.
LEMMA ScansBelow ==
    ASSUME NEW form, NEW words \in Seq(Words), NEW i \in 1..(Len(words) + 1), NEW f, NEW g,
           \A j \in (i + 1)..(Len(words) + 1) : f[j] = g[j]
    PROVE  ScanStep(form, words, f, i) = ScanStep(form, words, g, i)
  <1>1. CASE i > Len(words)
    BY <1>1 DEF ScanStep
  <1>2. CASE i <= Len(words) /\ RowEnds(form, words, i) = {}
    <2>1. f[i + 1] = g[i + 1]
      BY <1>2
    <2> QED
      BY <1>2, <2>1 DEF ScanStep
  <1>3. CASE i <= Len(words) /\ RowEnds(form, words, i) # {}
    <2> DEFINE end == Min(RowEnds(form, words, i))
    <2>1. end \in i..Len(words)
      BY <1>3, FirstEnd
    <2> HIDE DEF end
    <2>2. f[end + 1] = g[end + 1]
      BY <2>1
    <2> QED
      BY <1>3, <2>2 DEF ScanStep, end
  <1> QED
    BY <1>1, <1>2, <1>3

\* What holds of the place after the last line, and of a line when it holds of
\* all that is below, holds everywhere.
LEMMA FromBelow ==
    ASSUME NEW n \in Nat, NEW S, n + 1 \in S,
           \A i \in 1..n : (\A j \in (i + 1)..(n + 1) : j \in S) => i \in S
    PROVE  \A i \in 1..(n + 1) : i \in S
  <1> DEFINE open == {k \in 0..n : n + 1 - k \notin S}
  <1> SUFFICES ASSUME NEW i \in 1..(n + 1), i \notin S
               PROVE  FALSE
    OBVIOUS
  <1>1. n + 1 - i \in open
    <2>1. n + 1 - i \in 0..n /\ n + 1 - (n + 1 - i) = i
      OBVIOUS
    <2> QED
      BY <2>1
  <1>2. open \subseteq Nat
    OBVIOUS
  <1>3. \A k \in open : k \in 1..n /\ n + 1 - k \notin S
    OBVIOUS
  <1>4. ASSUME NEW j \in 1..(n + 1), j \notin S
        PROVE  n + 1 - j \in open
    <2>1. n + 1 - j \in 0..n /\ n + 1 - (n + 1 - j) = j
      OBVIOUS
    <2> QED
      BY <1>4, <2>1
  <1> HIDE DEF open
  <1>5. PICK k \in open : \A y \in open : k <= y
    BY <1>1, <1>2, MinOf
  <1>6. n + 1 - k \in 1..n /\ n + 1 - k \notin S /\ k \in 1..n
    BY <1>3
  <1>7. ASSUME NEW j \in (n + 1 - k + 1)..(n + 1)
        PROVE  j \in S
    <2>1. j \in 1..(n + 1) /\ ~ (k <= n + 1 - j)
      BY <1>6
    <2> QED
      BY <1>4, <1>5, <2>1
  <1> QED
    BY <1>6, <1>7

\* The recursion of parse_table_rows ends: there is a function that satisfies it.
LEMMA ScanDefined ==
    ASSUME NEW form, NEW words \in Seq(Words)
    PROVE  \E scan : Scans(form, words, scan, 1)
  <1> DEFINE n == Len(words)
             S == {i \in 1..(n + 1) : \E scan : Scans(form, words, scan, i)}
  <1>1. n \in Nat
    OBVIOUS
  <1>2. n + 1 \in S
    <2> DEFINE scan == [i \in {n + 1} |-> <<>>]
    <2>1. (n + 1)..(n + 1) = {n + 1} /\ n + 1 > n /\ n + 1 \in 1..(n + 1)
      BY <1>1
    <2>2. \A f : ScanStep(form, words, f, n + 1) = <<>>
      BY <2>1 DEF ScanStep
    <2>3. Scans(form, words, scan, n + 1)
      BY <2>1, <2>2 DEF Scans
    <2> QED
      BY <2>1, <2>3
  <1>3. ASSUME NEW m \in 1..n, m + 1 \in S
        PROVE  m \in S
    <2>1. PICK g : Scans(form, words, g, m + 1)
      BY <1>3
    <2> DEFINE f == [i \in m..(n + 1) |-> IF i = m THEN ScanStep(form, words, g, m) ELSE g[i]]
    <2>2. \A i \in (m + 1)..(n + 1) : f[i] = g[i]
      BY <1>1
    <2>3. ASSUME NEW i \in m..(n + 1)
          PROVE  f[i] = ScanStep(form, words, f, i)
      <3>1. i \in 1..(n + 1) /\ \A j \in (i + 1)..(n + 1) : f[j] = g[j]
        BY <1>1, <2>2
      <3> HIDE DEF f
      <3>2. ScanStep(form, words, f, i) = ScanStep(form, words, g, i)
        BY <3>1, ScansBelow
      <3>3. CASE i = m
        BY <3>2, <3>3, <1>1 DEF f
      <3>4. CASE i # m
        <4>1. i \in (m + 1)..(n + 1)
          BY <1>1, <3>4
        <4>2. g[i] = ScanStep(form, words, g, i)
          BY <2>1, <4>1 DEF Scans
        <4> QED
          BY <2>2, <3>2, <4>1, <4>2
      <3> QED
        BY <3>3, <3>4
    <2>4. f = [i \in m..(n + 1) |-> ScanStep(form, words, f, i)]
      <3>1. f = [i \in m..(n + 1) |-> f[i]]
        OBVIOUS
      <3> HIDE DEF f
      <3> QED
        BY <2>3, <3>1
    <2>5. Scans(form, words, f, m)
      BY <2>4 DEF Scans
    <2> QED
      BY <1>1, <2>5
  <1>4. \A i \in 1..n : (\A j \in (i + 1)..(n + 1) : j \in S) => i \in S
    <2>1. \A i \in 1..n : i + 1 \in (i + 1)..(n + 1)
      BY <1>1
    <2> HIDE DEF S
    <2> QED
      BY <1>3, <2>1
  <1>5. 1 \in 1..(n + 1)
    BY <1>1
  <1>6. 1 \in S
    <2> HIDE DEF S
    <2>1. \A i \in 1..(n + 1) : i \in S
      BY <1>1, <1>2, <1>4, FromBelow
    <2> QED
      BY <1>5, <2>1
  <1> QED
    BY <1>6

\* parse_table_rows is a scan of the document from its first line.
LEMMA ParseScans ==
    ASSUME NEW form, NEW words \in Seq(Words)
    PROVE  \E scan : /\ RowSpans(form, words) = scan[1]
                     /\ \A i \in 1..(Len(words) + 1) : scan[i] = ScanStep(form, words, scan, i)
  <1> DEFINE S(f) == [i \in 1..(Len(words) + 1) |-> ScanStep(form, words, f, i)]
             scan == CHOOSE f : f = S(f)
  <1>1. RowSpans(form, words) = scan[1]
    BY DEF RowSpans, ScanStep
  <1>2. \E f : f = S(f)
    BY ScanDefined DEF Scans
  <1>3. scan = S(scan)
    <2> HIDE DEF S
    <2> QED
      BY <1>2
  <1>4. \A i \in 1..(Len(words) + 1) : S(scan)[i] = ScanStep(form, words, scan, i)
    OBVIOUS
  <1> HIDE DEF scan, S
  <1> QED
    BY <1>1, <1>3, <1>4

\* A line that starts no row adds none to those below it.
LEMMA LinePassedOver ==
    ASSUME NEW form, NEW words \in Seq(Words), NEW i \in 1..Len(words), NEW spans,
           \A j \in DOMAIN spans : spans[j].from \in Nat,
           RowEnds(form, words, i) = {}, Found(spans, form, words, i + 1)
    PROVE  Found(spans, form, words, i)
  <1>1. \A j \in DOMAIN spans : i <= spans[j].from
    BY DEF Found
  <1>2. ASSUME NEW s \in i..Len(words), RowEnds(form, words, s) # {}
        PROVE  \E j \in DOMAIN spans : s \in spans[j].from..spans[j].to
    <2>1. s \in (i + 1)..Len(words)
      BY <1>2
    <2> QED
      BY <1>2, <2>1 DEF Found
  <1> QED
    BY <1>1, <1>2 DEF Found

\* The spans of a page are positions.
LEMMA Positions ==
    ASSUME NEW spans \in Seq([from : Nat, to : Nat])
    PROVE  \A j \in DOMAIN spans : spans[j].from \in Nat /\ spans[j].to \in Nat
  <1> DEFINE Spans == [from : Nat, to : Nat]
  <1>1. \A x \in Spans : x.from \in Nat /\ x.to \in Nat
    OBVIOUS
  <1>2. \A j \in DOMAIN spans : spans[j] \in Spans
    <2>1. spans \in Seq(Spans)
      OBVIOUS
    <2> HIDE DEF Spans
    <2> QED
      BY <2>1
  <1> QED
    BY <1>1, <1>2

\* The shortest row from a line on, and the rows behind it.
LEMMA SpanTaken ==
    ASSUME NEW form, NEW words \in Seq(Words), NEW i \in 1..Len(words),
           NEW end \in i..Len(words), NEW behind \in Seq([from : Nat, to : Nat]),
           end \in RowEnds(form, words, i),
           \A e \in RowEnds(form, words, i) : end <= e,
           Found(behind, form, words, end + 1)
    PROVE  Found(<<[from |-> i, to |-> end]>> \o behind, form, words, i)
  <1> DEFINE n == Len(behind)
             span == [from |-> i, to |-> end]
             spans == <<span>> \o behind
  <1>1. /\ n \in Nat /\ DOMAIN behind = 1..n
        /\ \A j \in 1..n : behind[j].from \in Nat /\ behind[j].to \in Nat
    <2>1. n \in Nat /\ DOMAIN behind = 1..n
      OBVIOUS
    <2> QED
      BY <2>1, Positions
  <1>2. /\ DOMAIN spans = 1..(n + 1)
        /\ spans[1] = span
        /\ \A j \in 1..(n + 1) : j # 1 => j - 1 \in 1..n /\ spans[j] = behind[j - 1]
        /\ \A j \in 1..n : j + 1 \in 1..(n + 1) /\ spans[j + 1] = behind[j]
    OBVIOUS
  <1>3. span.from = i /\ span.to = end /\ 1 \in 1..(n + 1)
    BY <1>1
  <1>4. SUFFICES Found(spans, form, words, i)
    OBVIOUS
  <1> HIDE DEF n, span, spans
  <1>5. /\ \A j \in 1..n :
            /\ end + 1 <= behind[j].from
            /\ behind[j].to \in RowEnds(form, words, behind[j].from)
            /\ \A e \in RowEnds(form, words, behind[j].from) : behind[j].to <= e
        /\ \A j, k \in 1..n : j < k => behind[j].to < behind[k].from
        /\ \A s \in (end + 1)..Len(words) : RowEnds(form, words, s) # {} =>
            \E j \in 1..n : s \in behind[j].from..behind[j].to
    BY <1>1 DEF Found
  <1>6. ASSUME NEW j \in 1..(n + 1)
        PROVE  /\ i <= spans[j].from
               /\ spans[j].to \in RowEnds(form, words, spans[j].from)
               /\ \A e \in RowEnds(form, words, spans[j].from) : spans[j].to <= e
    <2>1. CASE j = 1
      BY <1>2, <1>3, <2>1
    <2>2. CASE j # 1
      <3> DEFINE l == j - 1
      <3>1. l \in 1..n /\ spans[j] = behind[l]
        BY <1>2, <2>2
      <3> HIDE DEF l
      <3>2. i <= behind[l].from
        BY <1>1, <1>5, <3>1
      <3> QED
        BY <1>5, <3>1, <3>2
    <2> QED
      BY <2>1, <2>2
  <1>7. ASSUME NEW j \in 1..(n + 1), NEW k \in 1..(n + 1), j < k
        PROVE  spans[j].to < spans[k].from
    <2>1. k - 1 \in 1..n /\ spans[k] = behind[k - 1]
      BY <1>1, <1>2, <1>7
    <2>2. CASE j = 1
      BY <1>1, <1>2, <1>3, <1>5, <2>1, <2>2
    <2>3. CASE j # 1
      <3>1. j - 1 \in 1..n /\ spans[j] = behind[j - 1] /\ j - 1 < k - 1
        BY <1>1, <1>2, <1>7, <2>3
      <3> QED
        BY <1>5, <2>1, <3>1
    <2> QED
      BY <2>2, <2>3
  <1>8. ASSUME NEW s \in i..Len(words), RowEnds(form, words, s) # {}
        PROVE  \E j \in 1..(n + 1) : s \in spans[j].from..spans[j].to
    <2>1. CASE s <= end
      BY <1>2, <1>3, <2>1
    <2>2. CASE s > end
      <3>1. s \in (end + 1)..Len(words)
        BY <2>2
      <3>2. PICK j \in 1..n : s \in behind[j].from..behind[j].to
        BY <1>5, <1>8, <3>1
      <3> QED
        BY <1>2, <3>2
    <2> QED
      BY <2>1, <2>2
  <1> QED
    BY <1>2, <1>6, <1>7, <1>8 DEF Found

\* What the scan finds, from the last word of the page to its first.
LEMMA SpansFound ==
    ASSUME NEW form, NEW words \in Seq(Words)
    PROVE  /\ RowSpans(form, words) \in Seq([from : Nat, to : Nat])
           /\ Found(RowSpans(form, words), form, words, 1)
  <1> DEFINE n == Len(words)
             Spans == [from : Nat, to : Nat]
  <1>1. PICK scan : /\ RowSpans(form, words) = scan[1]
                    /\ \A i \in 1..(n + 1) : scan[i] = ScanStep(form, words, scan, i)
    BY ParseScans
  <1> DEFINE S == {i \in 1..(n + 1) : scan[i] \in Seq(Spans) /\ Found(scan[i], form, words, i)}
  <1>2. n \in Nat
    OBVIOUS
  <1>3. n + 1 \in S
    <2>1. n + 1 \in 1..(n + 1) /\ n + 1 > n
      BY <1>2
    <2>2. scan[n + 1] = <<>>
      BY <1>1, <2>1 DEF ScanStep
    <2>3. (n + 1)..Len(words) = {} /\ DOMAIN <<>> = {} /\ <<>> \in Seq(Spans)
      BY <1>2
    <2>4. Found(<<>>, form, words, n + 1)
      BY <2>3 DEF Found
    <2> QED
      BY <2>1, <2>2, <2>3, <2>4
  <1>4. ASSUME NEW i \in 1..n, \A j \in (i + 1)..(n + 1) : j \in S
        PROVE  i \in S
    <2>1. i \in 1..(n + 1) /\ ~ (i > n) /\ i + 1 \in (i + 1)..(n + 1)
      BY <1>2
    <2>2. CASE RowEnds(form, words, i) = {}
      <3>1. scan[i] = scan[i + 1]
        BY <1>1, <2>1, <2>2 DEF ScanStep
      <3>2. scan[i + 1] \in Seq(Spans) /\ Found(scan[i + 1], form, words, i + 1)
        BY <1>4, <2>1
      <3>3. \A j \in DOMAIN scan[i + 1] : scan[i + 1][j].from \in Nat
        BY <3>2, Positions
      <3>4. Found(scan[i], form, words, i)
        BY <2>2, <3>1, <3>2, <3>3, LinePassedOver
      <3> QED
        BY <2>1, <3>1, <3>2, <3>4
    <2>3. CASE RowEnds(form, words, i) # {}
      <3> DEFINE end == Min(RowEnds(form, words, i))
                 span == [from |-> i, to |-> end]
                 behind == scan[end + 1]
      <3>1. /\ end \in i..n /\ end \in RowEnds(form, words, i)
            /\ \A e \in RowEnds(form, words, i) : end <= e
        BY <2>3, FirstEnd
      <3>2. scan[i] = <<span>> \o behind
        BY <1>1, <2>1, <2>3 DEF ScanStep
      <3> HIDE DEF end
      <3>3. end + 1 \in (i + 1)..(n + 1)
        BY <1>2, <3>1
      <3>4. behind \in Seq(Spans) /\ Found(behind, form, words, end + 1)
        BY <1>4, <3>3
      <3> HIDE DEF behind
      <3>5. Found(<<span>> \o behind, form, words, i)
        BY <3>1, <3>4, SpanTaken
      <3>6. span \in Spans
        BY <3>1
      <3> HIDE DEF span, Spans
      <3>7. <<span>> \o behind \in Seq(Spans)
        BY <3>4, <3>6
      <3> QED
        BY <2>1, <3>2, <3>5, <3>7
    <2> QED
      BY <2>2, <2>3
  <1>5. 1 \in S
    <2>1. 1 \in 1..(n + 1)
      BY <1>2
    <2> HIDE DEF S
    <2>2. \A i \in 1..(n + 1) : i \in S
      BY <1>2, <1>3, <1>4, FromBelow
    <2> QED
      BY <2>1, <2>2
  <1> QED
    BY <1>1, <1>5

\* For a page of any length, wrapped anyhow, any window, any bound on names and
\* any of the patterns: the rows parse_table_rows finds are apart and in order,
\* each is complete on its last line and not before, and no line outside of them
\* could have started a row.
THEOREM TableIsRead ==
    ASSUME NEW form \in Forms, NEW words \in Seq(Words)
    PROVE  Found(RowSpans(form, words), form, words, 1)
  BY SpansFound

\* The pattern of a name and figures, with no free text behind the name.
Listed == [named |-> TRUE, gap |-> FALSE, tail |-> FALSE]

\* It reads a window in one way at most: the figures are its last words.
LEMMA ListedSplits ==
    ASSUME NEW w \in Seq(Words), NEW m, m = Len(w) - Opening - Closing
    PROVE  \A x : x \in Splits(Listed, w) <=>
              /\ x = <<m, 0>>
              /\ m \in 1..MaxWords
              /\ \A k \in 1..(Opening + Closing) : w[m + k].piece = k
  <1>0. /\ MaxWords \in Nat /\ Opening \in Nat \ {0} /\ Closing \in Nat \ {0}
        /\ Len(w) \in Nat /\ m \in Int
    BY TableAssumption
  <1>1. Listed.named = TRUE /\ Listed.gap = FALSE /\ Listed.tail = FALSE
    BY DEF Listed
  <1>2. ASSUME NEW x \in Splits(Listed, w)
        PROVE  /\ x = <<m, 0>> /\ m \in 1..MaxWords
               /\ \A k \in 1..(Opening + Closing) : w[m + k].piece = k
    <2>1. /\ x \in (0..MaxWords) \X (0..Len(w))
          /\ x[1] > 0 /\ ~ (x[2] > 0)
          /\ x[1] + Opening + x[2] + Closing <= Len(w)
          /\ ~ (x[1] + Opening + x[2] + Closing < Len(w))
          /\ Anchor(w, x[1] + 1)
          /\ \A j \in 1..Closing : w[x[1] + Opening + x[2] + j].piece = Opening + j
      BY <1>1 DEF Splits
    <2>2. x[1] \in 0..MaxWords /\ x[2] \in 0..Len(w) /\ x = <<x[1], x[2]>>
      BY <2>1
    <2>3. x[2] = 0 /\ x[1] = m /\ m \in 1..MaxWords
      BY <1>0, <2>1, <2>2
    <2>4. ASSUME NEW k \in 1..(Opening + Closing)
          PROVE  w[m + k].piece = k
      <3>1. CASE k <= Opening
        <4>1. k \in 1..Opening /\ m + 1 + k - 1 = m + k
          BY <1>0, <3>1
        <4>2. w[m + 1 + k - 1].piece = k
          BY <2>1, <2>3, <4>1 DEF Anchor
        <4> QED
          BY <4>1, <4>2
      <3>2. CASE k > Opening
        <4>1. k - Opening \in 1..Closing /\ m + Opening + 0 + (k - Opening) = m + k
              /\ Opening + (k - Opening) = k
          BY <1>0, <3>2
        <4>2. w[m + Opening + 0 + (k - Opening)].piece = Opening + (k - Opening)
          BY <2>1, <2>3, <4>1
        <4> QED
          BY <4>1, <4>2
      <3> QED
        BY <1>0, <3>1, <3>2
    <2> QED
      BY <2>2, <2>3, <2>4
  <1>3. ASSUME m \in 1..MaxWords, \A k \in 1..(Opening + Closing) : w[m + k].piece = k
        PROVE  <<m, 0>> \in Splits(Listed, w)
    <2> DEFINE x == <<m, 0>>
    <2>1. x[1] = m /\ x[2] = 0 /\ x \in (0..MaxWords) \X (0..Len(w))
      BY <1>0, <1>3
    <2> HIDE DEF x
    <2>2. Anchor(w, x[1] + 1)
      <3>1. ASSUME NEW j \in 1..Opening
            PROVE  m + 1 + j - 1 <= Len(w) /\ w[m + 1 + j - 1].piece = j
        <4>1. j \in 1..(Opening + Closing) /\ m + 1 + j - 1 = m + j /\ m + j <= Len(w)
          BY <1>0
        <4> QED
          BY <1>3, <4>1
      <3> QED
        BY <2>1, <3>1 DEF Anchor
    <2>3. ASSUME NEW j \in 1..Closing
          PROVE  w[x[1] + Opening + x[2] + j].piece = Opening + j
      <3>1. Opening + j \in 1..(Opening + Closing) /\ m + Opening + 0 + j = m + (Opening + j)
        BY <1>0
      <3> QED
        BY <1>3, <2>1, <3>1
    <2>4. x[1] + Opening + x[2] + Closing = Len(w) /\ x[1] > 0 /\ ~ (x[2] > 0)
      BY <1>0, <1>3, <2>1
    <2>5. (x[1] + Opening + x[2] + Closing + 1)..Len(w) = {}
      BY <1>0, <2>4
    <2>6. x \in Splits(Listed, w)
      <3> DEFINE end == x[1] + Opening + x[2] + Closing
      <3>1. /\ Listed.named <=> x[1] > 0
            /\ Listed.gap <=> x[2] > 0
            /\ end <= Len(w) /\ (Listed.tail <=> end < Len(w))
        BY <1>0, <1>1, <2>4
      <3>2. \A k \in (end + 1)..Len(w) : ~Anchor(w, k)
        BY <2>5
      <3>3. \A j \in 1..Closing : w[x[1] + Opening + x[2] + j].piece = Opening + j
        BY <2>3
      <3> QED
        BY <2>1, <2>2, <3>1, <3>2, <3>3 DEF Splits
    <2> QED
      BY <2>6 DEF x
  <1> QED
    BY <1>2, <1>3

\* A window of such a page is a row iff figures end it and its start is within
\* their reach.
LEMMA ListedEnds ==
    ASSUME NEW words \in Seq(Words), NEW s \in 1..Len(words), NEW e \in s..Len(words)
    PROVE  e \in RowEnds(Listed, words, s)
             <=> Reaches(words, s, e) /\ e \in FigureEnds(words)
  <1> DEFINE w == SubSeq(words, s, e)
             m == Len(w) - Opening - Closing
             N == Opening + Closing
  <1>0. /\ MaxWords \in Nat /\ Opening \in Nat \ {0} /\ Closing \in Nat \ {0}
        /\ Len(words) \in Nat
    BY TableAssumption
  <1>1. /\ Len(w) = e - s + 1
        /\ \A k \in 1..(e - s + 1) : w[k] = words[s + k - 1]
    OBVIOUS
  <1>2. w \in Seq(Words)
    OBVIOUS
  <1> HIDE DEF w
  <1>3. m = e - s + 1 - N /\ m = e - Opening - Closing - s + 1 /\ m \in Int
    BY <1>0, <1>1
  <1>4. \A x : x \in Splits(Listed, w) <=>
              /\ x = <<m, 0>> /\ m \in 1..MaxWords
              /\ \A k \in 1..N : w[m + k].piece = k
    BY <1>2, ListedSplits
  <1> HIDE DEF m
  <1>5. ASSUME m \in 1..MaxWords
        PROVE  /\ \A k \in 1..N : w[m + k] = words[e - Opening - Closing + k]
               /\ e > N
    <2>1. ASSUME NEW k \in 1..N
          PROVE  m + k \in 1..(e - s + 1) /\ s + (m + k) - 1 = e - Opening - Closing + k
      BY <1>0, <1>3, <1>5
    <2>2. e > N
      BY <1>0, <1>3, <1>5
    <2> QED
      BY <1>1, <2>1, <2>2
  <1>6. ASSUME Splits(Listed, w) # {}
        PROVE  CoercesCleanly(Listed, w)
                 <=> \A k \in 1..N : words[e - Opening - Closing + k].fit # "bad"
    <2>1. /\ Splits(Listed, w) = {<<m, 0>>} /\ m \in 1..MaxWords
      BY <1>4, <1>6
    <2>2. Split(Listed, w) = <<m, 0>>
      <3>1. \A x \in Splits(Listed, w) : x = <<m, 0>>
        BY <2>1
      <3>2. <<m, 0>>[1] = m /\ <<m, 0>>[2] = 0
        OBVIOUS
      <3>3. \A y \in Splits(Listed, w) :
               <<m, 0>>[1] < y[1] \/ (<<m, 0>>[1] = y[1] /\ <<m, 0>>[2] <= y[2])
        BY <3>1, <3>2
      <3>4. <<m, 0>> \in Splits(Listed, w)
        BY <2>1
      <3> QED
        BY <3>1, <3>3, <3>4 DEF Split
    <2>3. ValuesAt(Split(Listed, w)) = (m + 1)..(m + N)
      <3>1. ValuesAt(<<m, 0>>) = ((m + 1)..(m + Opening))
                                  \union ((m + Opening + 0 + 1)..(m + Opening + 0 + Closing))
        BY DEF ValuesAt
      <3>2. ((m + 1)..(m + Opening)) \union ((m + Opening + 0 + 1)..(m + Opening + 0 + Closing))
               = (m + 1)..(m + N)
        BY <1>0, <2>1
      <3> QED
        BY <2>2, <3>1, <3>2
    <2>4. /\ \A k \in (m + 1)..(m + N) : k - m \in 1..N /\ m + (k - m) = k
          /\ \A k \in 1..N : m + k \in (m + 1)..(m + N)
      BY <1>0, <2>1
    <2>5. (\A k \in (m + 1)..(m + N) : w[k].fit # "bad") <=> (\A k \in 1..N : w[m + k].fit # "bad")
      <3> HIDE DEF N
      <3> QED
        BY <2>4
    <2>6. \A k \in 1..N : w[m + k] = words[e - Opening - Closing + k]
      BY <1>5, <2>1
    <2> QED
      BY <2>3, <2>5, <2>6 DEF CoercesCleanly
  <1>7. Matches(Listed, w) <=> /\ m \in 1..MaxWords
                               /\ \A k \in 1..N : words[e - Opening - Closing + k].piece = k
    <2>1. Matches(Listed, w) <=> m \in 1..MaxWords /\ \A k \in 1..N : w[m + k].piece = k
      BY <1>4 DEF Matches
    <2> QED
      BY <1>5, <2>1
  <1>8. e \in RowEnds(Listed, words, s)
          <=> /\ StartsLine(words, s) /\ EndsLine(words, e)
              /\ LinesIn(words, s, e) <= MaxWindowLines
              /\ Matches(Listed, w) /\ CoercesCleanly(Listed, w)
    BY DEF RowEnds, w
  <1>9. Reaches(words, s, e) <=> /\ StartsLine(words, s) /\ m \in 1..MaxWords
                                 /\ LinesIn(words, s, e) <= MaxWindowLines
    BY <1>3 DEF Reaches
  <1>10. e \in FigureEnds(words)
           <=> /\ e > N /\ EndsLine(words, e)
               /\ \A k \in 1..N : /\ words[e - Opening - Closing + k].piece = k
                                  /\ words[e - Opening - Closing + k].fit # "bad"
    <2>1. e \in DOMAIN words
      BY <1>0
    <2> QED
      BY <2>1 DEF FigureEnds
  <1> HIDE DEF N
  <1> QED
    BY <1>5, <1>6, <1>7, <1>8, <1>9, <1>10 DEF Matches

\* A window has fewer lines than a longer one.
LEMMA FewerLines ==
    ASSUME NEW words \in Seq(Words), NEW s \in 1..Len(words), NEW e \in s..Len(words),
           NEW d \in s..e
    PROVE  LinesIn(words, s, d) <= LinesIn(words, s, e)
  <1> DEFINE S == {k \in s..d : StartsLine(words, k)}
             T == {k \in s..e : StartsLine(words, k)}
  <1>1. S \subseteq T
    OBVIOUS
  <1>2. IsFiniteSet(T)
    <2>1. IsFiniteSet(s..e)
      BY FS_Interval
    <2> QED
      BY <2>1, FS_Subset
  <1>3. Cardinality(S) <= Cardinality(T)
    BY <1>1, <1>2, FS_Subset
  <1> QED
    BY <1>3 DEF LinesIn

\* For a table of names and figures of any length, wrapped anyhow: figures that
\* have a name in reach, of at most MaxWords words and within MaxWindowLines
\* lines, are read, once, whatever lines their values break over; and a row's
\* name is as long as that reach and the row before it allow.
THEOREM FiguresAreRead ==
    ASSUME NEW words \in Seq(Words)
    PROVE  FiguresRead(RowSpans(Listed, words), words)
  <1> DEFINE spans == RowSpans(Listed, words)
  <1>1. spans \in Seq([from : Nat, to : Nat]) /\ Found(spans, Listed, words, 1)
    BY SpansFound
  <1> HIDE DEF spans
  <1>0. /\ MaxWords \in Nat /\ Opening \in Nat \ {0} /\ Closing \in Nat \ {0}
        /\ Len(words) \in Nat /\ DOMAIN words = 1..Len(words) /\ MaxWindowLines \in Nat
    BY TableAssumption
  <1>2. ASSUME NEW i \in DOMAIN spans
        PROVE  /\ spans[i].from \in 1..Len(words)
               /\ spans[i].to \in spans[i].from..Len(words)
               /\ spans[i].to \in RowEnds(Listed, words, spans[i].from)
               /\ \A e \in RowEnds(Listed, words, spans[i].from) : spans[i].to <= e
               /\ Reaches(words, spans[i].from, spans[i].to)
               /\ spans[i].to \in FigureEnds(words)
    <2>1. /\ spans[i].from \in Nat /\ 1 <= spans[i].from
          /\ spans[i].to \in RowEnds(Listed, words, spans[i].from)
          /\ \A e \in RowEnds(Listed, words, spans[i].from) : spans[i].to <= e
      BY <1>1, Positions DEF Found
    <2>2. spans[i].to \in spans[i].from..Len(words)
      BY <2>1 DEF RowEnds
    <2>3. spans[i].from \in 1..Len(words)
      BY <1>0, <2>1, <2>2
    <2> QED
      BY <2>1, <2>2, <2>3, ListedEnds
  <1>3. ASSUME NEW q \in FigureEnds(words), NEW s \in DOMAIN words, Reaches(words, s, q)
        PROVE  q \in s..Len(words) /\ \E i \in DOMAIN spans : s \in spans[i].from..spans[i].to
    <2>1. q \in DOMAIN words
      BY DEF FigureEnds
    <2>2. q - Opening - Closing - s + 1 \in 1..MaxWords
      BY <1>3 DEF Reaches
    <2>3. q \in s..Len(words) /\ s \in 1..Len(words)
      BY <1>0, <2>1, <2>2
    <2>4. q \in RowEnds(Listed, words, s)
      BY <1>3, <2>3, ListedEnds
    <2> QED
      BY <1>1, <2>3, <2>4 DEF Found
  <1>4. ASSUME NEW q \in FigureEnds(words), NEW s \in DOMAIN words, Reaches(words, s, q),
               \A p \in FigureEnds(words) : p \notin s..(q - 1)
        PROVE  \E i \in DOMAIN spans : spans[i].to = q
    <2>1. PICK i \in DOMAIN spans : s \in spans[i].from..spans[i].to
      BY <1>3, <1>4
    <2>2. q \in s..Len(words)
      BY <1>3, <1>4
    <2> DEFINE a == spans[i].from
               b == spans[i].to
    <2>3. /\ a \in 1..Len(words) /\ b \in a..Len(words) /\ s \in a..b
          /\ \A e \in RowEnds(Listed, words, a) : b <= e
          /\ Reaches(words, a, b) /\ b \in FigureEnds(words)
      BY <1>2, <2>1
    <2>4. SUFFICES ASSUME b # q PROVE FALSE
      OBVIOUS
    <2> HIDE DEF a, b
    <2>5. ~ (b < q)
      <3>1. b \notin s..(q - 1)
        BY <1>4, <2>3
      <3> QED
        BY <1>0, <2>2, <2>3, <3>1
    <2>6. q \in a..b /\ q < b /\ q \in a..Len(words)
      BY <1>0, <2>2, <2>3, <2>4, <2>5
    <2>7. Reaches(words, a, q)
      <3>1. /\ StartsLine(words, a) /\ b - Opening - Closing - a + 1 \in 1..MaxWords
            /\ LinesIn(words, a, b) <= MaxWindowLines
        BY <2>3 DEF Reaches
      <3>2. q - Opening - Closing - s + 1 \in 1..MaxWords
        BY <1>4 DEF Reaches
      <3>3. q - Opening - Closing - a + 1 \in 1..MaxWords
        BY <1>0, <2>2, <2>3, <2>6, <3>1, <3>2
      <3>4. LinesIn(words, a, q) <= LinesIn(words, a, b)
        BY <2>3, <2>6, FewerLines
      <3>5. LinesIn(words, a, q) \in Int /\ LinesIn(words, a, b) \in Int
        <4>1. ASSUME NEW e \in a..Len(words)
              PROVE  LinesIn(words, a, e) \in Nat
          <5>1. IsFiniteSet(a..e)
            BY <2>3, FS_Interval
          <5>2. IsFiniteSet({k \in a..e : StartsLine(words, k)})
            BY <5>1, FS_Subset
          <5> QED
            BY <5>2, FS_CardinalityType DEF LinesIn
        <4> QED
          BY <2>3, <2>6, <4>1
      <3> QED
        BY <1>0, <3>1, <3>3, <3>4, <3>5 DEF Reaches
    <2>8. q \in RowEnds(Listed, words, a)
      BY <2>3, <2>6, <2>7, ListedEnds
    <2> QED
      BY <1>0, <2>3, <2>6, <2>8
  <1>5. ASSUME NEW i \in DOMAIN spans, NEW s \in DOMAIN words,
               Reaches(words, s, spans[i].to), s < spans[i].from
        PROVE  \E j \in DOMAIN spans : j < i /\ s <= spans[j].to
    <2>1. PICK j \in DOMAIN spans : s \in spans[j].from..spans[j].to
      BY <1>2, <1>3, <1>5
    <2>2. DOMAIN spans = 1..Len(spans) /\ Len(spans) \in Nat
      BY <1>1
    <2>3. /\ spans[i].from \in Nat /\ spans[i].to \in Nat /\ s \in Nat
          /\ spans[j].from \in Nat /\ spans[j].to \in Nat
          /\ spans[i].from <= spans[i].to
      BY <1>0, <1>1, <1>2, Positions
    <2>4. ~ (i < j)
      <3> SUFFICES ASSUME i < j PROVE FALSE
        OBVIOUS
      <3>1. spans[i].to < spans[j].from
        BY <1>1 DEF Found
      <3> QED
        BY <1>5, <2>1, <2>3, <3>1
    <2>5. i # j
      BY <1>5, <2>1, <2>3
    <2> QED
      BY <2>1, <2>2, <2>3, <2>4, <2>5
  <1>6. FiguresRead(spans, words)
    BY <1>2, <1>4, <1>5 DEF FiguresRead
  <1> QED
    BY <1>6 DEF spans

-----------------------------------------------------------------------------
(* Fiscal years.                                                           *)

\* The fiscal year a month falls in contains it, and two fiscal years have no
\* month in common.
LEMMA FiscalYears ==
    /\ \A m \in Nat : /\ FyContaining(m) \in Int
                      /\ m \in FyBounds(FyContaining(m)).from..FyBounds(FyContaining(m)).to
    /\ \A y, z \in Int : FyBounds(y).from # FyBounds(z).from
           => FyBounds(y).to < FyBounds(z).from \/ FyBounds(z).to < FyBounds(y).from
  BY MonthAssumption DEF FyBounds, FyContaining
=============================================================================
