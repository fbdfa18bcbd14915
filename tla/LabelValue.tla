------------------------------ MODULE LabelValue ------------------------------
(***************************************************************************)
(* The two grammars PDF text is read with: parse_label_value, which binds  *)
(* the `Label: Value` facts of a document, and parse_table_rows, which     *)
(* puts the rows of a flattened table together again; and the fiscal-year  *)
(* windows a shareholding is valid for.  Pure functions, with no state.    *)
(*                                                                         *)
(* A line is the label it starts with, whether a colon follows, and the    *)
(* rest of it.  The rest is known by what the coercions look for: is there *)
(* any text, a figure, a date and in which notation.  No label is the      *)
(* beginning of another one.  A date is its month, counted from year 0.    *)
(***************************************************************************)
EXTENDS Naturals, Sequences, SequencesExt, FiniteSetsExt

CONSTANTS MaxWindowLines,   \* _MAX_WINDOW_LINES
          MaxWords,         \* words of a name: (?:\S+\s+){0,5}?\S+
          Opening, Closing, \* pieces of a row's values
          StartMonth        \* Settings.fiscal_year_start_month

ASSUME TableAssumption ==
    /\ MaxWindowLines \in Nat \ {0} /\ MaxWords \in Nat \ {0}
    /\ Opening \in Nat \ {0} /\ Closing \in Nat \ {0}
ASSUME MonthAssumption == StartMonth \in 1..12

\* The rest of a line.  num: "comma" is a run of commas without a digit.
\* date: "half" and "tail" are 31- and Mar-2025 on two lines, "squeezed" is
\* 31March2025.
Raws == [text  : STRING,
         num   : {"none", "comma", "figure"},
         date  : {"none", "spaced", "dashed", "range", "half", "tail", "squeezed"},
         month : Nat]

Lines == [label : STRING, colon : BOOLEAN, raw : Raws]

NoRaw == [text |-> "absent", num |-> "none", date |-> "none", month |-> 0]

-----------------------------------------------------------------------------
(* coerce_field_value: does the text hold a value of the declared type?    *)
(* int, gstin and hsn search for a pattern just as money does.             *)

ShowsDate(raw) == raw.date \in {"spaced", "dashed", "range"}

Coerces(type, raw) ==
    CASE type = "text"       -> TRUE
      [] type = "date"       -> ShowsDate(raw)
      [] type = "date_range" -> raw.date = "range"
      [] type = "money"      -> raw.num # "none"

\* A table-row date loses its blanks: 31-Mar-2025 survives; 31 March 2025, the
\* way a range is written too, does not.
Squeeze(raw) ==
    IF raw.date \in {"spaced", "range"} THEN [raw EXCEPT !.date = "squeezed"] ELSE raw

Labelled(lines, label, colon) ==
    {i \in DOMAIN lines : lines[i].label = label /\ lines[i].colon = colon}

\* The date a table row shows, alone or with the next line joined to it: the
\* rest of a wrapped date, or whatever date the next line holds.
RowDate(lines, i) ==
    IF ShowsDate(lines[i].raw) THEN Squeeze(lines[i].raw)
    ELSE IF i = Len(lines) THEN NoRaw
    ELSE LET next == lines[i + 1].raw
         IN  IF ShowsDate(next) THEN Squeeze(next)
             ELSE IF lines[i].raw.date = "half" /\ next.date = "tail"
             THEN [next EXCEPT !.date = "dashed"] ELSE NoRaw

MoneyRows(lines, label) ==
    {i \in Labelled(lines, label, FALSE) : lines[i].raw.num # "none"}

DateRows(lines, label) ==
    {i \in Labelled(lines, label, FALSE) : RowDate(lines, i) # NoRaw}

\* Wrong on purpose: the last line with the label and a colon wins.
FindLast(lines, label, type) ==
    LET colon == Labelled(lines, label, TRUE)
    IN  IF colon # {} THEN lines[Max(colon)].raw ELSE NoRaw

\* _find_value: the first line with the label and a colon, or else the first
\* row of a table, which only money and dates are read from.
FindValue(lines, label, type) ==
    LET colon == Labelled(lines, label, TRUE)
    IN  IF colon # {} THEN lines[Min(colon)].raw
        ELSE IF type = "money" /\ MoneyRows(lines, label) # {}
        THEN lines[Min(MoneyRows(lines, label))].raw
        ELSE IF type = "date" /\ DateRows(lines, label) # {}
        THEN RowDate(lines, Min(DateRows(lines, label)))
        ELSE NoRaw

NoOutcome == [kind |-> "none", fields |-> <<>>, missing |-> {}, failed |-> {}, rows |-> <<>>]

\* spec is a function from field names to [label, type, required].
ParseLabelValue(lines, spec) ==
    LET raw    == [n \in DOMAIN spec |-> FindValue(lines, spec[n].label, spec[n].type)]
        found  == {n \in DOMAIN spec : raw[n] # NoRaw /\ raw[n].text # ""}
        bound  == {n \in found : Coerces(spec[n].type, raw[n])}
        needed == {n \in DOMAIN spec : spec[n].required}
    IN  [kind    |-> IF needed \subseteq bound THEN "Extracted" ELSE "Partial",
         fields  |-> [n \in bound |-> raw[n]],
         missing |-> needed \ found,
         failed  |-> (needed \intersect found) \ bound,
         rows    |-> <<>>]

-----------------------------------------------------------------------------
(* Table rows.  The pages are the sequence of their words, each of which    *)
(* may be the last of its line.  A word is free text, piece 0, or a piece   *)
(* of a row's values: the opening pieces, up to where free text may follow, *)
(* and the closing ones.  A GSTIN that breaks across lines is two pieces.   *)
(* A "bad" piece has the shape and does not coerce, one that is "over" the  *)
(* table's CHECK refuses.                                                   *)

Words == [text : STRING, piece : Nat, fit : {"good", "bad", "over"}, last : BOOLEAN]

\* A table_pattern: do its rows begin with a name of at most MaxWords words, is
\* there free text of any length among the values, and free text behind them?
Forms == [named : BOOLEAN, gap : BOOLEAN, tail : BOOLEAN]

StartsLine(words, s) == s = 1 \/ words[s - 1].last
EndsLine(words, e) == e = Len(words) \/ words[e].last
LinesIn(words, s, e) == Cardinality({k \in s..e : StartsLine(words, k)})

\* The opening pieces of a row, all of them, at word k of a window.
Anchor(w, k) ==
    \A j \in 1..Opening : k + j - 1 <= Len(w) /\ w[k + j - 1].piece = j

\* The ways table_pattern.fullmatch can read a joined window: the length of the
\* name and of the gap.  The name and the gap are any words; the tail is any
\* words but the next row's anchor.
Splits(form, w) ==
    {x \in (0..MaxWords) \X (0..Len(w)) :
        LET close == x[1] + Opening + x[2]
            end   == close + Closing
        IN  /\ form.named <=> x[1] > 0
            /\ form.gap <=> x[2] > 0
            /\ end <= Len(w) /\ (form.tail <=> end < Len(w))
            /\ Anchor(w, x[1] + 1)
            /\ \A j \in 1..Closing : w[close + j].piece = Opening + j
            /\ \A k \in (end + 1)..Len(w) : ~Anchor(w, k)}

Matches(form, w) == Splits(form, w) # {}

\* The one the regular expression settles on: name and gap are lazy.
Split(form, w) ==
    CHOOSE x \in Splits(form, w) : \A y \in Splits(form, w) :
        x[1] < y[1] \/ (x[1] = y[1] /\ x[2] <= y[2])

ValuesAt(x) ==
    LET close == x[1] + Opening + x[2]
    IN  ((x[1] + 1)..(x[1] + Opening)) \union ((close + 1)..(close + Closing))

CoercesCleanly(form, w) == \A k \in ValuesAt(Split(form, w)) : w[k].fit # "bad"

\* Where the windows that start at word s and are a row end; _locate_row takes
\* the shortest.
RowEnds(form, words, s) ==
    {e \in s..Len(words) :
        /\ StartsLine(words, s) /\ EndsLine(words, e)
        /\ LinesIn(words, s, e) <= MaxWindowLines
        /\ Matches(form, SubSeq(words, s, e))
        /\ CoercesCleanly(form, SubSeq(words, s, e))}

\* Wrong on purpose: the longest window is taken.
LongestSpans(form, words) ==
    LET n == Len(words)
        scan[i \in 1..(n + 1)] ==
            IF i > n THEN <<>>
            ELSE IF RowEnds(form, words, i) = {} THEN scan[i + 1]
            ELSE LET end == Max(RowEnds(form, words, i))
                 IN  <<[from |-> i, to |-> end]>> \o scan[end + 1]
    IN  scan[1]

\* The scan of parse_table_rows: where the rows are.  A line that starts no row
\* is passed over.
RowSpans(form, words) ==
    LET n == Len(words)
        scan[i \in 1..(n + 1)] ==
            IF i > n THEN <<>>
            ELSE IF RowEnds(form, words, i) = {} THEN scan[i + 1]
            ELSE LET end == Min(RowEnds(form, words, i))
                 IN  <<[from |-> i, to |-> end]>> \o scan[end + 1]
    IN  scan[1]

Texts(w, from, to) == [k \in 1..(to - from + 1) |-> w[from + k - 1].text]

Row(form, w) ==
    LET x   == Split(form, w)
        end == x[1] + Opening + x[2] + Closing
    IN  [name    |-> Texts(w, 1, x[1]),
         opening |-> Texts(w, x[1] + 1, x[1] + Opening),
         tail    |-> Texts(w, end + 1, Len(w)),
         over    |-> \E k \in ValuesAt(x) : w[k].fit = "over"]

RowsAt(form, words, spans) ==
    [i \in DOMAIN spans |-> Row(form, SubSeq(words, spans[i].from, spans[i].to))]

ParseTableRows(form, words) == RowsAt(form, words, RowSpans(form, words))

\* The rows of a page from word start on as they should be found, with no scan:
\* apart and in order, each complete on its last line and on none before, and
\* no other line that could start a row.
Found(spans, form, words, start) ==
    /\ \A i \in DOMAIN spans :
        /\ start <= spans[i].from
        /\ spans[i].to \in RowEnds(form, words, spans[i].from)
        /\ \A e \in RowEnds(form, words, spans[i].from) : spans[i].to <= e
    /\ \A i, j \in DOMAIN spans : i < j => spans[i].to < spans[j].from
    /\ \A s \in start..Len(words) : RowEnds(form, words, s) # {} =>
        \E i \in DOMAIN spans : s \in spans[i].from..spans[i].to

\* A table of names and figures: where figures that coerce end a line ...
FigureEnds(words) ==
    {q \in DOMAIN words :
        /\ q > Opening + Closing /\ EndsLine(words, q)
        /\ \A k \in 1..(Opening + Closing) :
              LET word == words[q - Opening - Closing + k]
              IN  word.piece = k /\ word.fit # "bad"}

\* ... and the lines their name may begin with.
Reaches(words, s, q) ==
    /\ StartsLine(words, s)
    /\ q - Opening - Closing - s + 1 \in 1..MaxWords
    /\ LinesIn(words, s, q) <= MaxWindowLines

\* Figures that have a name in reach, without other figures in it, end a row of
\* their own; and a row's name is the longest that is in reach below the rows
\* before it.
FiguresRead(spans, words) ==
    /\ \A q \in FigureEnds(words), s \in DOMAIN words :
        Reaches(words, s, q) /\ (\A p \in FigureEnds(words) : p \notin s..(q - 1))
            => \E i \in DOMAIN spans : spans[i].to = q
    /\ \A i \in DOMAIN spans :
        /\ spans[i].to \in FigureEnds(words)
        /\ \A s \in DOMAIN words : Reaches(words, s, spans[i].to) /\ s < spans[i].from
            => \E j \in DOMAIN spans : j < i /\ s <= spans[j].to

-----------------------------------------------------------------------------
(* The registers of archetype 2 cut their pages into chunks with patterns  *)
(* of their own: a row, one with the shape of a row and an impossible date, *)
(* other text, and the line their footnote begins with.                     *)

Chunks == [kind : {"row", "bad", "text", "note"}, holder : STRING]

-----------------------------------------------------------------------------
(* Fiscal years, named by the year they start in.                          *)

FyContaining(month) ==
    IF (month % 12) + 1 >= StartMonth THEN month \div 12 ELSE (month \div 12) - 1

\* The last day is the one before the next year starts: the month before.
FyBounds(year) ==
    [from |-> 12 * year + StartMonth - 1, to |-> 12 * (year + 1) + StartMonth - 2]
=============================================================================
