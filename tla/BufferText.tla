----------------------------- MODULE BufferText -----------------------------
(***************************************************************************)
(* Reading text out of a buffer (term/walk.rs, term/selection.rs,           *)
(* term/search.rs, term/logical.rs): the selection that is highlighted and  *)
(* copied, the word and the logical line around a cell, the matches of a    *)
(* search and the document a screen reader gets, each over rows that wrap,  *)
(* wide glyphs, wrap artefacts and combining marks.                         *)
(*                                                                         *)
(* A cell is a string: a character, "W" or "Z" the lead of a wide glyph and *)
(* "_" its spacer, "<" the artefact of a wrap, "e'" a character with a mark *)
(* (Chars has them).  What is in the buffer does not change here (RowEdit,  *)
(* Anchors); regular expressions and letter case are left out.              *)
(***************************************************************************)
EXTENDS Integers, Sequences

CONSTANTS Buffers,      \* buffers: sequences of rows, each [cells, wrapped]
          Chars,        \* the characters of a cell, a sequence
          Wide,         \* the cells that are leads
          Separators,   \* word_separators, " " among them
          WordChars,    \* is_word: alphanumerics and marks
          Needles,      \* the queries
          Rows          \* the rows of the screen: the rest is history

VARIABLES buf, floor, offset, sel, carries
textVars == <<buf, floor, offset, sel, carries>>

Least(a, b) == IF a < b THEN a ELSE b
Most(a, b) == IF a > b THEN a ELSE b
SmallestOf(S) == CHOOSE x \in S : \A y \in S : x <= y
GreatestOf(S) == CHOOSE x \in S : \A y \in S : x >= y

Total == Len(buf)
Cols == Len(buf[1].cells)
Base == Total - Rows  \* scrollback.len()
Top == Base - offset
Cell(line, col) == buf[line + 1].cells[col + 1]  \* from 0, as the code counts
Wrapped(line) == buf[line + 1].wrapped
IsSpacer(c) == c \in {"_", "<"}
CharOf(c) == IF IsSpacer(c) THEN " " ELSE Chars[c][1]
IsBlank(c) == c = " "

(* walk_logical_line, append_cell, extract_lines: characters with the cell they are of. *)
AppendCell(line, col) ==
  IF IsSpacer(Cell(line, col)) THEN <<>>
  ELSE [i \in DOMAIN Chars[Cell(line, col)] |-> [ch |-> Chars[Cell(line, col)][i], line |-> line, col |-> col]]
RowText(line, from, to) ==
  LET upTo[c \in from..Most(from, to)] == IF c = from THEN <<>> ELSE upTo[c - 1] \o AppendCell(line, c - 1)
  IN  upTo[Most(from, to)]
Trimmed(text) ==
  LET last == {i \in DOMAIN text : text[i].ch # " "}
  IN  IF last = {} THEN <<>> ELSE SubSeq(text, 1, GreatestOf(last))
LogicalEnd(start) == SmallestOf({l \in start..(Total - 1) : ~Wrapped(l) \/ l + 1 = Total})
LogicalStart(line) == SmallestOf({l \in floor..line : \A k \in l..(line - 1) : Wrapped(k)})
LogicalText(start) ==
  LET upTo[l \in (start - 1)..LogicalEnd(start)] == IF l < start THEN <<>> ELSE upTo[l - 1] \o RowText(l, 0, Cols)
  IN  upTo[LogicalEnd(start)]
NewLine == <<[ch |-> "\n", line |-> -1, col |-> -1]>>
ExtractLines(first, left, last, right) ==
  LET past == left >= Cols /\ first < last
      start == IF past THEN first + 1 ELSE first
      piece(l) == RowText(l, IF l = start /\ ~past THEN left ELSE 0, IF l = last THEN Least(right, Cols) ELSE Cols)
      read[l \in (start - 1)..last] ==
        IF l < start THEN [out |-> <<>>, current |-> <<>>]
        ELSE LET current == read[l - 1].current \o piece(l)
             IN  IF l = last THEN [out |-> read[l - 1].out \o Trimmed(current), current |-> <<>>]
                 ELSE IF Wrapped(l) THEN [read[l - 1] EXCEPT !.current = current]
                 ELSE [out |-> read[l - 1].out \o Trimmed(current) \o NewLine, current |-> <<>>]
  IN  read[last].out

(* Words. *)
PrevPos(p) ==
  IF p.col > 0 THEN {[p EXCEPT !.col = @ - 1]}
  ELSE IF p.line > floor /\ Wrapped(p.line - 1) THEN {[line |-> p.line - 1, col |-> Cols - 1]} ELSE {}
NextPos(p) ==
  IF p.col + 1 < Cols THEN {[p EXCEPT !.col = @ + 1]}
  ELSE IF p.line >= floor /\ p.line + 1 < Total /\ Wrapped(p.line) THEN {[line |-> p.line + 1, col |-> 0]} ELSE {}
IsWrapArtefact(p) == Cell(p.line, p.col) = "<" /\ p.col + 1 = Cols
IsWalkTransparentSpacer(p) ==
  \/ IsWrapArtefact(p)
  \/ Cell(p.line, p.col) = "_" /\ p.col > 0 /\ Cell(p.line, p.col - 1) \in Wide
     /\ CharOf(Cell(p.line, p.col - 1)) \notin Separators
EndsWord(p) == ~IsWalkTransparentSpacer(p) /\ CharOf(Cell(p.line, p.col)) \in Separators
Walk(p, Step(_)) ==
  LET w[i \in 0..(Total * Cols)] ==
        IF i = 0 THEN p
        ELSE IF \E q \in Step(w[i - 1]) : ~EndsWord(q) THEN CHOOSE q \in Step(w[i - 1]) : TRUE ELSE w[i - 1]
  IN  w[Total * Cols]
WordStart(p) == Walk(p, PrevPos)
WordEnd(p) == Walk(p, NextPos)

(* The selection. *)
PairStart(line, col) ==
  IF col \in 1..(Cols - 1) /\ Cell(line, col) = "_" /\ Cell(line, col - 1) \in Wide THEN col - 1 ELSE col
\* Mutant of PairEnd: a lead ends where it stands.
OwnEnd(line, col) == col
PairEnd(line, col) ==
  IF col + 1 < Cols /\ Cell(line, col) \in Wide /\ Cell(line, col + 1) = "_" THEN col + 1 ELSE col
Before(a, b) == a.line < b.line \/ (a.line = b.line /\ a.col < b.col)
Ordered ==
  LET a == sel.anchor
      b == sel.focus
  IN  IF Before(a, b) \/ (a.line = b.line /\ a.col = b.col /\ a.side = "left") THEN <<a, b>> ELSE <<b, a>>
Edge(end) == IF end.side = "left" THEN end.col ELSE end.col + 1
FinishesRow(line) == line + 1 < Total /\ ~Wrapped(line)
TextEnd(line) ==
  LET text == {c \in 0..(Cols - 1) : ~IsBlank(Cell(line, c))} IN IF text = {} THEN 0 ELSE GreatestOf(text) + 1
Linear(first, from, last, to) == [block |-> FALSE, first |-> first, from |-> from, last |-> last, to |-> to]
Widened(r) ==
  LET from == PairStart(r.first, r.from)
      to == IF r.to > 0 THEN PairEnd(r.last, r.to - 1) + 1 ELSE r.to
  IN  IF r.first = r.last /\ r.from >= r.to THEN r
      ELSE IF ~carries THEN Linear(r.first, from, r.last, to)
      ELSE IF sel.type # "line" /\ r.first = r.last /\ FinishesRow(r.first) /\ from >= TextEnd(r.first)  \* covers_padding_only
      THEN Linear(r.first, from, r.first, from)
      ELSE IF FinishesRow(r.last) /\ (to > TextEnd(r.last) \/ to >= Cols)  \* end_past_text
      THEN Linear(r.first, from, r.last + 1, 0)
      ELSE Linear(r.first, from, r.last, to)
Resolve ==
  LET start == Ordered[1]
      end == Ordered[2]
      a == sel.anchor
      b == sel.focus
      leftmost == IF a.col < b.col \/ (a.col = b.col /\ a.side = "left") THEN <<a, b>> ELSE <<b, a>>
  IN  CASE sel.type = "char" -> Widened(Linear(start.line, Edge(start), end.line, Edge(end)))
        [] sel.type = "word" -> LET ws == WordStart([line |-> start.line, col |-> start.col])
                                    we == WordEnd([line |-> end.line, col |-> end.col])
                                IN  Widened(Linear(ws.line, ws.col, we.line, we.col + 1))
        [] sel.type = "line" -> Widened(Linear(start.line, 0, end.line, Cols))
        [] sel.type = "block" -> [block |-> TRUE, first |-> start.line, last |-> end.line, from |-> Edge(leftmost[1]),
                                  to |-> Most(Least(Edge(leftmost[2]), Cols), Edge(leftmost[1]))]

\* selection_range: the highlighted spans of the viewport.
Visible(line) == line \in Top..(Top + Rows - 1)
Span(line, left, right) == [line |-> line, left |-> left, right |-> right]
SpansOf(r) ==
  LET left(l) == IF l = r.first THEN Least(r.from, Cols) ELSE 0
      right(l) == IF l = r.last THEN Least(r.to, Cols) ELSE Cols
  IN  IF r.block
      THEN {Span(l, PairStart(l, Least(r.from, Cols)), PairEnd(l, r.to - 1)) :
              l \in {l \in r.first..r.last : Visible(l) /\ r.to > Least(r.from, Cols)}}
      ELSE {Span(l, left(l), right(l) - 1) : l \in {l \in r.first..Least(r.last, Total - 1) : Visible(l) /\ right(l) > left(l)}}
SelectionRange == SpansOf(Resolve)
\* selection_text: what is copied.
TextOf(r) ==
  LET low(l) == IF r.to > r.from THEN PairStart(l, r.from) ELSE r.from
      high(l) == IF r.to > r.from THEN PairEnd(l, Least(r.to, Cols) - 1) + 1 ELSE Least(r.to, Cols)
      rows[l \in (r.first - 1)..r.last] ==
        IF l < r.first THEN <<>>
        ELSE rows[l - 1] \o (IF l = r.first THEN <<>> ELSE NewLine) \o Trimmed(RowText(l, low(l), high(l)))
  IN  IF r.block THEN rows[r.last] ELSE ExtractLines(r.first, r.from, r.last, r.to)
SelectionText == TextOf(Resolve)

(* search_with, a literal query; a match is dropped if it is of the cells of the last one. *)
\* Mutant of LineStarts: a line of the alternate screen may begin in the history.
LineStartsOfTheBuffer == {l \in floor..(Total - 1) : l = 0 \/ ~Wrapped(l - 1)}
LineStarts == {l \in floor..(Total - 1) : l = floor \/ ~Wrapped(l - 1)}
WordBounded(hay, i, len) ==
  /\ i = 1 \/ hay[i - 1].ch \notin WordChars
  /\ i + len > Len(hay) \/ hay[i + len].ch \notin WordChars
MatchOf(hay, i, len) ==
  [first |-> [line |-> hay[i].line, col |-> hay[i].col],
   last |-> [line |-> hay[i + len - 1].line, col |-> hay[i + len - 1].col]]
HitAt(hay, needle, i) == i + Len(needle) - 1 <= Len(hay) /\ \A k \in DOMAIN needle : hay[i + k - 1].ch = needle[k]
MatchesIn(hay, needle, wholeWord) ==
  LET found[i \in 0..Len(hay)] ==  \* the matches among the first i places, and the next place to look
        IF i = 0 THEN [matches |-> <<>>, next |-> 1]
        ELSE LET was == found[i - 1]
                 m == MatchOf(hay, i, Len(needle))
             IN  IF i < was.next THEN was
                 ELSE IF /\ HitAt(hay, needle, i) /\ (wholeWord => WordBounded(hay, i, Len(needle)))
                         /\ was.matches = <<>> \/ was.matches[Len(was.matches)] # m
                 THEN [matches |-> Append(was.matches, m), next |-> i + Len(needle)]
                 ELSE was
  IN  found[Len(hay)].matches
Search(needle, wholeWord) ==
  LET upTo[l \in (floor - 1)..(Total - 1)] ==
        IF l < floor THEN <<>>
        ELSE IF l \in LineStarts THEN upTo[l - 1] \o MatchesIn(Trimmed(LogicalText(l)), needle, wholeWord) ELSE upTo[l - 1]
  IN  upTo[Total - 1]
MatchSpans(m) ==
  {Span(l, PairStart(l, IF l = m.first.line THEN Least(m.first.col, Cols - 1) ELSE 0),
        PairEnd(l, IF l = m.last.line THEN Least(m.last.col, Cols - 1) ELSE Cols - 1)) :
     l \in {l \in m.first.line..m.last.line : Visible(l)}}

(* viewport_logical_lines and accessible_text. *)
ViewportLogicalLines ==
  {Trimmed(LogicalText(l)) : l \in {l \in LineStarts : LogicalEnd(l) >= Top /\ l < Top + Rows}} \ {<<>>}
AccessibleText == ExtractLines(floor, 0, Total - 1, Cols)

----------------------------------------------------------------------------
NoSelection == [type |-> "none"]
TextInit ==
  /\ buf \in Buffers /\ floor \in {0, Base} /\ offset = 0 /\ sel = NoSelection
  /\ carries \in BOOLEAN

\* viewport_to_abs
Ends == [line : Top..(Top + Rows - 1), col : 0..(Cols - 1), side : {"left", "right"}]
SelectionBegin ==
  /\ \E end \in Ends, type \in {"char", "word", "line", "block"} : sel' = [type |-> type, anchor |-> end, focus |-> end]
  /\ UNCHANGED <<buf, floor, offset, carries>>
SelectionExtend ==
  /\ sel # NoSelection /\ \E end \in Ends : sel' = [sel EXCEPT !.focus = end]
  /\ UNCHANGED <<buf, floor, offset, carries>>
SelectAll ==
  LET text == {p \in [line : floor..(Total - 1), col : 0..(Cols - 1)] : CharOf(Cell(p.line, p.col)) # " "}
      At(p, side) == [line |-> p.line, col |-> p.col, side |-> side]
  IN  /\ sel' = IF text = {} THEN NoSelection
                ELSE [type |-> "char",
                      anchor |-> At(CHOOSE p \in text : \A q \in text : ~Before(q, p), "left"),
                      focus |-> At(CHOOSE p \in text : \A q \in text : ~Before(p, q), "right")]
      /\ UNCHANGED <<buf, floor, offset, carries>>
\* set_display_offset: the alternate screen does not scroll.
Scroll == /\ floor = 0 /\ offset' \in 0..Base /\ UNCHANGED <<buf, floor, sel, carries>>

TextNext == SelectionBegin \/ SelectionExtend \/ SelectAll \/ Scroll

----------------------------------------------------------------------------
Cells(spans) == UNION {{<<s.line, c>> : c \in s.left..s.right} : s \in spans}
CellsOf(text) == {<<text[i].line, text[i].col>> : i \in DOMAIN text} \ {<<-1, -1>>}
Seen(cells) == {p \in cells : Visible(p[1])}
Solid(cells) == {p \in cells : CharOf(Cell(p[1], p[2])) # " "}
WholePairs(cells) ==
  \A p \in cells :
    /\ Cell(p[1], p[2]) \in Wide /\ p[2] + 1 < Cols /\ Cell(p[1], p[2] + 1) = "_" => <<p[1], p[2] + 1>> \in cells
    /\ Cell(p[1], p[2]) = "_" /\ p[2] > 0 /\ Cell(p[1], p[2] - 1) \in Wide => <<p[1], p[2] - 1>> \in cells
Clicked == sel # NoSelection /\ sel.type = "word" /\ sel.anchor = sel.focus
           /\ Solid({<<sel.anchor.line, sel.anchor.col>>}) # {}
           /\ CharOf(Cell(sel.anchor.line, sel.anchor.col)) \notin Separators
IsWord(hay, in) ==
  /\ \A i \in in : Chars[Cell(hay[i].line, hay[i].col)][1] \notin Separators
  /\ \A i \in DOMAIN hay \ in :
       {i - 1, i + 1} \cap in # {} => Chars[Cell(hay[i].line, hay[i].col)][1] \in Separators
InWord(hay, cells) == IsWord(hay, {i \in DOMAIN hay : <<hay[i].line, hay[i].col>> \in cells})
Agree(shown, copied) ==
  /\ Seen(copied) \subseteq shown /\ Solid(shown) \subseteq copied /\ WholePairs(shown)
  /\ Clicked => /\ <<sel.anchor.line, sel.anchor.col>> \in copied
                /\ InWord(LogicalText(LogicalStart(sel.anchor.line)), copied)
\* selection_range and selection_text (term/selection.rs:608 "the pair of observables #454 exists
\* to keep in agreement"): what is copied is what is highlighted, glyph for glyph and pair for
\* pair, padding aside; a word that was clicked is a whole one, over wraps and wide glyphs.
CopyIsTheHighlight == sel # NoSelection => Agree(Cells(SelectionRange), CellsOf(SelectionText))

\* Flattened, the text between two cells of the buffer.
Between(m) == LET hay == LogicalText(LogicalStart(m.first.line))
              IN  SelectSeq(hay, LAMBDA x : ~Before(x, m.first) /\ ~Before(m.last, x))
Holds(text, needle) == \E i \in DOMAIN text : HitAt(text, needle, i)
\* search_with, match_spans, viewport_logical_lines, accessible_text: a match's cells read the
\* query, no match overlaps an earlier one, no occurrence is left without one, and its spans
\* are those cells; every visible glyph is in exactly one logical line of the viewport, and the
\* document reads the logical lines in order.
SearchFindsTheText ==
  sel = NoSelection =>
    /\ \A needle \in Needles :
         LET found == Search(needle, FALSE)
             words == Search(needle, TRUE)
         IN  /\ \A i \in DOMAIN found :
                  /\ Holds(Between(found[i]), needle)
                  /\ i > 1 => ~Before(found[i].first, found[i - 1].last)
                  /\ Solid(Cells(MatchSpans(found[i]))) = Seen(Solid(CellsOf(Between(found[i]))))
                  /\ WholePairs(Cells(MatchSpans(found[i])))
             /\ \A i \in DOMAIN words : Holds(Between(words[i]), needle)
             /\ \A l \in LineStarts :
                  LET hay == Trimmed(LogicalText(l))
                  IN  \A i \in DOMAIN hay : HitAt(hay, needle, i) =>
                        \E k \in DOMAIN found : /\ ~Before(hay[i + Len(needle) - 1], found[k].first)
                                                /\ ~Before(found[k].last, hay[i])
    /\ \A p \in Seen(Solid({<<l, c>> : l \in floor..(Total - 1), c \in 0..(Cols - 1)})) :
         \E text \in ViewportLogicalLines :
           /\ p \in CellsOf(text)
           /\ \A other \in ViewportLogicalLines \ {text} : p \notin CellsOf(other)
    /\ Solid(CellsOf(AccessibleText)) = Solid({<<l, c>> : l \in floor..(Total - 1), c \in 0..(Cols - 1)})
    /\ \A text \in ViewportLogicalLines :
         \E i \in 0..Len(AccessibleText) : SubSeq(AccessibleText, i + 1, i + Len(text)) = text
=============================================================================
