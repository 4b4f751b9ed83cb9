------------------------------ MODULE Preedit ------------------------------
(***************************************************************************)
(* The two runs the renderer draws over the cursor's row and the engine    *)
(* knows nothing of: the text an input method is composing                 *)
(* (justerm-renderer/src/preedit.rs) and a suggestion of the host          *)
(* (justerm-renderer/src/suggestion.rs).  Frames, key strokes and          *)
(* highlights come in any order; every pack writes the runs into a copy of *)
(* the row that is there then.                                             *)
(***************************************************************************)
EXTENDS Integers, Sequences, FiniteSets, SequencesExt

CONSTANTS Lines,       \* the cells of the cursor's row, in every frame
          Composed,    \* <<run, anchor>> of an input method: [cp, wide] in order, from a <<col, row>>
          Suggested,   \* <<run, anchor>> of a host; the grid has row 0 only
          Highlights   \* sets of columns a highlight, a decoration or a link covers

VARIABLES line,        \* cells of row 0: [cp, flags, cluster, fg, bg]
          run, anchor, \* preedit_run, preedit_col and preedit_row
          hint, spot,  \* suggestion_run, suggestion_col and suggestion_row
          covered      \* the columns the overlays cover

runVars == <<line, run, anchor, hint, spot, covered>>

Default == 0
HintInk == 9        \* suggestion_fg
Space == 32
Cols == Len(line)
Cell(l, col) == l[col + 1]
IsWideLead(cell) == "wide" \in cell.flags
IsWideSpacer(cell) == "spacer" \in cell.flags
Width(c) == IF c.wide THEN 2 ELSE 1
Widths(r) == FoldLeft(LAMBDA w, c : w + Width(c), 0, r)
Clamp(n) == IF n < 0 THEN 0 ELSE n      \* saturating_sub

-----------------------------------------------------------------------------
(* preedit.rs.                                                              *)

\* The longest suffix that fits a row of max + 1 cells, shifted left until it ends in it.
Suffix(r, n) == SubSeq(r, n + 1, Len(r))
CpOffset(r, max) ==
  CHOOSE n \in 0..Len(r) :
    /\ Widths(Suffix(r, n)) <= max + 1
    /\ n > 0 => Widths(Suffix(r, n - 1)) > max + 1
Shifted(start, end, n, shift) == [start |-> Clamp(start - shift), end |-> Clamp(end - shift), offset |-> n]
EndingBy(max, start, end, n) == Shifted(start, end, n, Clamp(end - max))
RunEnd(start, w) == IF w > 0 THEN start + w - 1 ELSE start
SuffixRange(r, start, max, n) == EndingBy(max, start, RunEnd(start, Widths(Suffix(r, n))), n)
RunRange(r, start, max) == SuffixRange(r, start, max, CpOffset(r, max))

CaretAfter(end, max, wide) == IF end < max THEN end + 1 ELSE IF wide THEN Clamp(end - 1) ELSE end
CaretCol(r, start, max) ==
  IF r = <<>> THEN IF start < max THEN start ELSE max
  ELSE CaretAfter(RunRange(r, start, max).end, max, Last(r).wide)

Write(col, cp, flags, kind) == [col |-> col, cp |-> cp, flags |-> flags, kind |-> kind]
\* One codepoint of a run at a column; none of it when its second half has no room.
Glyph(c, col, flags, kind, cols) ==
  IF col + Width(c) > cols THEN <<>>
  ELSE IF c.wide THEN <<Write(col, c.cp, {"wide"} \cup flags, kind), Write(col + 1, 0, {"spacer"} \cup flags, kind)>>
  ELSE <<Write(col, c.cp, flags, kind)>>
Glyphs(r, start, flags, kind, cols) ==
  FlattenSeq([k \in 1..Len(r) |-> Glyph(r[k], start + Widths(SubSeq(r, 1, k - 1)), flags, kind, cols)])
WritesAt(r, at, cols) == Glyphs(Suffix(r, at.offset), at.start, {"underline"}, "run", cols)
RunWrites(r, start, cols) == WritesAt(r, RunRange(r, start, cols - 1), cols)

Unpaired(flags) == flags \ {"wide", "spacer"}
\* The other halves of the pairs a run cuts at its start and at its end.
RepairsOfTheStart(w, l) ==
  LET first == w[1].col
  IN  IF IsWideSpacer(Cell(l, first)) /\ first > 0
      THEN <<Write(first - 1, Space, Unpaired(Cell(l, first - 1).flags), "repair")>> ELSE <<>>
Repairs(w, l) ==
  LET last == Last(w).col
  IN  RepairsOfTheStart(w, l) \o
      (IF IsWideLead(Cell(l, last)) /\ last + 1 < Len(l)
       THEN <<Write(last + 1, Space, Unpaired(Cell(l, last + 1).flags), "repair")>> ELSE <<>>)

Repaired(w, l) == IF w = <<>> THEN <<>> ELSE w \o Repairs(w, l)
\* The writes over a row, and those over a row that has no flags (preedit_span's).
PreeditWrites(r, at, l) ==
  IF r = <<>> \/ at[2] >= 1 THEN <<>>
  ELSE Repaired(RunWrites(r, at[1], Len(l)), l)
NoFlags == [k \in 1..Cols |-> [line[k] EXCEPT !.flags = {}]]
SpanOf(w) == IF w = <<>> THEN {} ELSE w[1].col..Last(w).col
PreeditSpan == SpanOf(PreeditWrites(run, anchor, NoFlags))

Patched(cell, w) ==
  [cell EXCEPT !.cp = w.cp, !.flags = w.flags, !.cluster = FALSE,
               !.fg = IF w.kind = "run" THEN Default ELSE @, !.bg = IF w.kind = "run" THEN Default ELSE @]
PreeditPatch(l, writes) == FoldLeft(LAMBDA p, w : [p EXCEPT ![w.col + 1] = Patched(@, w)], l, writes)

-----------------------------------------------------------------------------
(* suggestion.rs.                                                           *)

IsBlank(cell) == cell.cp \in {0, Space} /\ ~cell.cluster
                 /\ cell.flags \cap {"inverse", "underline", "strike", "wide", "spacer"} = {}
\* The run up to the first glyph that meets the edge or a cell that is not blank;
\* a covered glyph is passed over.
HintColumns(r, col, k) == (col + Widths(SubSeq(r, 1, k - 1)))..(col + Widths(SubSeq(r, 1, k)) - 1)
Fits(r, col, k, l) == \A x \in HintColumns(r, col, k) : x < Len(l) /\ IsBlank(Cell(l, x))
HintWrites(r, at, l) ==
  IF at[2] >= 1 THEN <<>>
  ELSE LET shown == {k \in 1..Len(r) : \A j \in 1..k : Fits(r, at[1], j, l)}
           One(k) == IF HintColumns(r, at[1], k) \cap covered # {} THEN <<>>
                     ELSE Glyph(r[k], at[1] + Widths(SubSeq(r, 1, k - 1)), {"dim"}, "hint", Len(l))
       IN  FlattenSeq([k \in 1..Cardinality(shown) |-> One(k)])
SuggestionPatch(l) ==
  IF run # <<>> THEN l
  ELSE FoldLeft(LAMBDA p, w : [p EXCEPT ![w.col + 1].cp = w.cp, ![w.col + 1].flags = w.flags, ![w.col + 1].fg = HintInk],
                l, HintWrites(hint, spot, l))

\* resolve_and_pack: the preedit's patch, or else the suggestion's.
PackedOver(l, writes) == IF writes # <<>> THEN PreeditPatch(l, writes) ELSE SuggestionPatch(l)
Packed == PackedOver(line, PreeditWrites(run, anchor, line))

-----------------------------------------------------------------------------
RunInit == /\ line \in Lines /\ run = <<>> /\ anchor = <<0, 0>> /\ hint = <<>> /\ spot = <<0, 0>> /\ covered = {}

ApplyDamage == line' \in {l \in Lines : Len(l) = Cols} /\ UNCHANGED <<run, anchor, hint, spot, covered>>
SetPreedit == \E c \in Composed : run' = c[1] /\ anchor' = c[2] /\ UNCHANGED <<line, hint, spot, covered>>
SetSuggestion == \E c \in Suggested : hint' = c[1] /\ spot' = c[2] /\ UNCHANGED <<line, run, anchor, covered>>
SetOverlay == covered' \in Highlights /\ UNCHANGED <<line, run, anchor, hint, spot>>
RunNext == ApplyDamage \/ SetPreedit \/ SetSuggestion \/ SetOverlay

-----------------------------------------------------------------------------
\* A row in which every half of a wide glyph has its other half, save a lead in
\* the last column, which a resize may leave.
PairsAreWhole(l) ==
  \A x \in 0..(Len(l) - 1) :
    /\ IsWideLead(Cell(l, x)) => x + 1 = Len(l) \/ IsWideSpacer(Cell(l, x + 1))
    /\ IsWideSpacer(Cell(l, x)) => x > 0 /\ IsWideLead(Cell(l, x - 1))

\* The end of what is composed is drawn whole from the cursor, or as far left of
\* it as the edge asks; its cells are those the other layers stand down for, and
\* no cell beside them changes its colours.
Whole == {n \in 0..Len(run) : Widths(Suffix(run, n)) <= Cols}
Drawn(packed, span) == SelectSeq([x \in 1..Cols |-> IF x - 1 \in span THEN Cell(packed, x - 1).cp ELSE 0], LAMBDA cp : cp # 0)
PreeditIsDrawn(packed, span) ==
  run # <<>> /\ anchor[2] = 0 =>
    /\ \E n \in Whole : /\ \A m \in Whole : n <= m
                        /\ Drawn(packed, span) = [k \in 1..(Len(run) - n) |-> run[n + k].cp]
                        /\ Cardinality(span) = Widths(Suffix(run, n))
    /\ span # {} => \E start \in span : /\ \A x \in span : start <= x
                                        /\ start <= anchor[1]
                                        /\ start < anchor[1] => Cols - 1 \in span
    /\ \A x \in 0..(Cols - 1) :
         LET cell == Cell(packed, x)
         IN  IF x \in span THEN cell.fg = Default /\ cell.bg = Default /\ ~cell.cluster /\ "underline" \in cell.flags
             ELSE cell.fg = Cell(line, x).fg /\ cell.bg = Cell(line, x).bg

\* The caret is on the screen, never on the second half of a glyph, and inside
\* what is composed only where that ends at the edge.
CaretIsSound(caret, packed, span) ==
  /\ caret \in 0..(Cols - 1)
  /\ run # <<>> /\ anchor[2] = 0 /\ span # {} =>
       /\ ~IsWideSpacer(Cell(packed, caret))
       /\ caret \in span => Cols - 1 \in span

\* A suggestion hides no ink, keeps the backgrounds and yields to a composition.
SuggestionHidesNothing(packed, span) ==
  span = {} =>
    \A x \in 0..(Cols - 1) :
      LET cell == Cell(packed, x)
      IN  /\ cell # Cell(line, x) => run = <<>> /\ x \notin covered /\ Cell(line, x).cp \in {0, Space}
                                     /\ Cell(line, x).flags \subseteq {"dim"} /\ ~Cell(line, x).cluster
          /\ cell.bg = Cell(line, x).bg

\* What a composition and a suggestion make of a row: no half a glyph, all that
\* is being typed, the caret beside it, and nothing of the program's hidden by a hint.
IsWholeOf(packed, span) ==
  /\ PairsAreWhole(packed)
  /\ PreeditIsDrawn(packed, span)
  /\ CaretIsSound(CaretCol(run, anchor[1], Cols - 1), packed, span)
  /\ SuggestionHidesNothing(packed, span)
RunsAreWhole == IsWholeOf(Packed, PreeditSpan)
=============================================================================
