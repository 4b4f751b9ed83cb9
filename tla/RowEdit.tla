------------------------------ MODULE RowEdit -------------------------------
(***************************************************************************)
(* Writing, erasing and shifting the cells of a screen (term.rs, grid.rs):  *)
(* a wide glyph is a lead and a spacer in the next column, the column a     *)
(* pair could not use before it wrapped is a leading spacer, a row knows    *)
(* whether it wraps into the next, and links and combining marks lie in     *)
(* maps of the row, read only through a bit of the cell.                    *)
(*                                                                         *)
(* A cell's own and ownMarks are ghosts: what was written with the glyph    *)
(* and moves with it; so is returned: a parked cursor was restored.  view   *)
(* is what a consumer of the frames holds.  One map stands for links and    *)
(* underline colours.  History is its last row's end; the screen is the     *)
(* primary one.  The width of a cluster is the Unicode tables' affair:      *)
(* either, where the code asks them.                                       *)
(***************************************************************************)
EXTENDS Integers, FiniteSets

CONSTANTS Rows, Cols,
          ClusterTail,  \* MAX_CLUSTER_TAIL
          Modes,        \* the modes sessions start in
          MaxOps        \* bound on the operations of a session

\* At least one row, at least two columns (MIN_COLUMNS), a tail of at least one mark.
ASSUME RowAssumption ==
  /\ Rows \in Nat \ {0} /\ Cols \in Nat \ {0, 1} /\ ClusterTail \in Nat \ {0} /\ MaxOps \in Nat
  /\ Modes \subseteq [autowrap : BOOLEAN, insert : BOOLEAN, cluster : BOOLEAN, reverse : BOOLEAN]

VARIABLES t,    \* the terminal
          ops   \* operations so far
rowVars == <<t, ops>>

LastRow == Rows - 1
LastCol == Cols - 1
Least(a, b) == IF a < b THEN a ELSE b
Update(m, key, v) == [x \in DOMAIN m \cup {key} |-> IF x = key THEN v ELSE m[x]]
Without(m, keys) == [x \in DOMAIN m \ keys |-> m[x]]

----------------------------------------------------------------------------
(* Cells and rows (cell.rs, grid.rs). *)
Blank == [k |-> "blank", lead |-> FALSE, linked |-> FALSE, marked |-> FALSE, own |-> 0, ownMarks |-> 0]
BlankRow == [cells |-> [c \in 0..LastCol |-> Blank], links |-> <<>>, marks |-> <<>>, wrapped |-> FALSE]
\* blank_in_place: the maps stay, their bits are gone.
BlankInPlace(row) == [row EXCEPT !.cells = [c \in 0..LastCol |-> Blank], !.wrapped = FALSE]

LinkAt(row, c) == IF row.cells[c].linked /\ c \in DOMAIN row.links THEN row.links[c] ELSE 0
MarksAt(row, c) == IF row.cells[c].marked /\ c \in DOMAIN row.marks THEN row.marks[c] ELSE 0
PurgeSideMaps(row, cols) == [row EXCEPT !.links = Without(@, cols), !.marks = Without(@, cols)]
SetExtAttrs(row, c, link) ==
  [row EXCEPT !.cells[c].linked = link # 0, !.cells[c].own = link,
              !.links = IF link # 0 THEN Update(@, c, link) ELSE Without(@, {c})]
\* Mutant of PushMark: a mark joins whatever the map holds for the column, bit or no bit.
PushMarkOnStale(row, c) ==
  [row EXCEPT !.cells[c].marked = TRUE, !.cells[c].ownMarks = Least(@ + 1, ClusterTail),
              !.marks = Update(@, c, Least((IF c \in DOMAIN @ THEN @[c] ELSE 0) + 1, ClusterTail))]
PushMark(row, c) ==
  IF row.cells[c].marked
  THEN [row EXCEPT !.marks = Update(@, c, Least(MarksAt(row, c) + 1, ClusterTail)),
                   !.cells[c].ownMarks = Least(@ + 1, ClusterTail)]
  ELSE [row EXCEPT !.cells[c].marked = TRUE, !.cells[c].ownMarks = 1, !.marks = Update(@, c, 1)]
\* move_map: the entries of src follow their cells to dst; a stale one may stay behind.
MoveMap(m, src, shift) ==
  LET moved == {c \in src : c \in DOMAIN m}
      left == DOMAIN m \ moved
  IN  [c \in left \cup {x + shift : x \in moved} |-> IF c - shift \in moved THEN m[c - shift] ELSE m[c]]
\* copy_within and move_maps, and what the shift leaves behind blanked.
Shifted(row, src, shift, exposed) ==
  [row EXCEPT !.cells = [c \in 0..LastCol |-> IF c \in exposed THEN Blank
                                              ELSE IF c - shift \in src THEN @[c - shift] ELSE @[c]],
              !.links = MoveMap(@, src, shift), !.marks = MoveMap(@, src, shift)]

----------------------------------------------------------------------------
(* Damage, wraps and the artefacts of a wrap. *)
DamageSpan(s, r, a, b) == [s EXCEPT !.dmg = @ \cup {<<r, c>> : c \in a..b}]
ShownBlank == <<"blank", 0, 0, FALSE>>
IsWide(s, r, c) == s.rows[r].cells[c].k = "wide"
IsSpacer(s, r, c) == s.rows[r].cells[c].k = "spacer"

FreeCell(s, r, c) ==
  DamageSpan([s EXCEPT !.rows[r] = PurgeSideMaps([@ EXCEPT !.cells[c] = Blank], {c})], r, c, c)
FreeIf(cond, s, r, c) == IF cond THEN FreeCell(s, r, c) ELSE s
\* The other half of the pair that half a row's edit takes.
FreeLeadOf(s, r, c) == FreeIf(c > 0 /\ IsSpacer(s, r, c), s, r, c - 1)
FreeSpacerOf(s, r, c) == FreeIf(c + 1 < Cols /\ IsWide(s, r, c), s, r, c + 1)

BeginWrap(s, r) == DamageSpan([s EXCEPT !.rows[r].wrapped = TRUE], r, LastCol, LastCol)
EndWrap(s, r) ==
  DamageSpan([s EXCEPT !.rows[r].wrapped = FALSE, !.rows[r].cells[LastCol].lead = FALSE], r, LastCol, LastCol)

\* The pair that wrapped from the row above is being destroyed: the blank the wrap
\* left there is an ordinary one now.
VoidWrapArtefactAbove(s, r) ==
  IF r > 0 THEN IF s.rows[r - 1].cells[LastCol].lead
                THEN DamageSpan([s EXCEPT !.rows[r - 1].cells[LastCol].lead = FALSE], r - 1, LastCol, LastCol) ELSE s
  ELSE [s EXCEPT !.back.lead = FALSE]
VoidIf(cond, s, r) == IF cond /\ IsWide(s, r, 0) THEN VoidWrapArtefactAbove(s, r) ELSE s
DropArtefactIfErased(s, r, from, to) ==
  IF from <= LastCol /\ to > LastCol THEN [s EXCEPT !.rows[r].cells[LastCol].lead = FALSE] ELSE s

----------------------------------------------------------------------------
(* Shifting rows. *)
Source(r, top, bottom, down) == IF r \notin top..bottom THEN r ELSE IF down THEN r - 1 ELSE r + 1
Exposed(top, bottom, down) == IF down THEN top ELSE bottom
Rotated(f, top, bottom, down, new) ==
  [r \in 0..LastRow |-> IF r = Exposed(top, bottom, down) THEN new ELSE f[Source(r, top, bottom, down)]]
\* record_scroll: the consumer shifts its rows, and the damage recorded so far goes along.
RecordScroll(s, top, bottom, down) ==
  [s EXCEPT !.view = Rotated(@, top, bottom, down, [c \in 0..LastCol |-> ShownBlank]),
            !.dmg = {x \in (0..LastRow) \X (0..LastCol) :
                       x[1] # Exposed(top, bottom, down) /\ <<Source(x[1], top, bottom, down), x[2]>> \in s.dmg}
                    \cup {<<Exposed(top, bottom, down), c>> : c \in 0..LastCol}]
\* The rotated-out row comes back blanked in place, at the exposed end.
Rotate(s, top, bottom, down) ==
  [s EXCEPT !.rows = Rotated(@, top, bottom, down, BlankInPlace(@[IF down THEN bottom ELSE top]))]
ShiftRegion(s, top, bottom, down, evicts, servesWrap) ==
  LET above(moved) == IF top > 0 THEN EndWrap(moved, top - 1)
                      ELSE IF evicts THEN moved ELSE [moved EXCEPT !.back = [wrapped |-> FALSE, lead |-> FALSE]]
      orphan == IF down THEN bottom ELSE bottom - 1
      below(moved) == IF servesWrap \/ orphan < 0 \/ (~down /\ bottom = LastRow) THEN moved ELSE EndWrap(moved, orphan)
  IN  below(above(RecordScroll(Rotate(s, top, bottom, down), top, bottom, down)))
PushHistory(s, row) == [s EXCEPT !.back = [wrapped |-> row.wrapped, lead |-> row.cells[LastCol].lead]]

LinefeedInner(s, servesWrap) ==
  IF s.row # s.bottom THEN [s EXCEPT !.row = Least(@ + 1, LastRow)]
  ELSE IF s.top > 0 THEN ShiftRegion(s, s.top, s.bottom, FALSE, FALSE, servesWrap)
  ELSE IF s.bottom = LastRow
       THEN PushHistory(RecordScroll([s EXCEPT !.rows = Rotated(@, 0, LastRow, FALSE, BlankRow)], 0, LastRow, FALSE), s.rows[0])
       ELSE PushHistory(ShiftRegion(s, 0, s.bottom, FALSE, TRUE, servesWrap), s.rows[0])
Wrapline(s) == [LinefeedInner(s, TRUE) EXCEPT !.col = 0, !.park = FALSE]
WraplineAdvances(s) == s.row = s.bottom \/ s.row < LastRow

----------------------------------------------------------------------------
(* Writing. *)
PenCell(k) == [Blank EXCEPT !.k = k]
Put(s, r, c, cell, link) == [s EXCEPT !.rows[r] = SetExtAttrs([@ EXCEPT !.cells[c] = cell], c, link)]
\* Past the last column the cursor parks instead.
Advance(s, c) == IF c >= Cols THEN [s EXCEPT !.col = LastCol, !.park = TRUE] ELSE [s EXCEPT !.col = c]

VacateForWrap(s, r, c) ==
  DamageSpan(BeginWrap(Put(FreeLeadOf(s, r, c), r, c, [PenCell("blank") EXCEPT !.lead = TRUE], s.pen), r), r, c, c)

\* Half of a pair that its other half was moved away from.
FreeWideAt(s, r, c) == FreeIf(c \in 0..LastCol /\ IsWide(s, r, c), s, r, c)
FreeSpacerAt(s, r, c) == FreeIf(c \in 0..LastCol /\ IsSpacer(s, r, c), s, r, c)
ShiftCells(s, r, src, shift, exposed) == [s EXCEPT !.rows[r] = Shifted(@, src, shift, exposed)]
InsertCells(s, r, c, k) ==
  LET moved == ShiftCells(VoidIf(c <= 1, s, r), r, c..(LastCol - k), k, c..(c + k - 1))
  IN  DamageSpan(FreeWideAt(FreeSpacerAt(FreeWideAt(moved, r, c - 1), r, c + k), r, LastCol), r, c, LastCol)
InsertCharsAt(s, n) == LET k == Least(n, Cols - s.col) IN IF k = 0 THEN s ELSE InsertCells(s, s.row, s.col, k)

\* The room a glyph of this width needs: a parked cursor wraps first, and a pair that
\* does not fit leaves its column vacant.
Unparked(s) ==
  IF s.park /\ s.autowrap THEN Wrapline(IF WraplineAdvances(s) THEN BeginWrap(s, s.row) ELSE s)
  ELSE [s EXCEPT !.park = FALSE]
MadeRoom(s, width) ==
  IF width = 2 /\ s.col + 1 >= Cols
  THEN Wrapline(IF WraplineAdvances(s) THEN VacateForWrap(s, s.row, LastCol) ELSE s) ELSE s
Dropped(s, width) == width = 2 /\ s.col + 1 >= Cols /\ ~s.autowrap

WithRoom(s, width) == IF s.insert THEN InsertCharsAt(MadeRoom(s, width), width) ELSE MadeRoom(s, width)
PutGlyph(s, width) ==
  LET r == s.row
      c == s.col
      last == c + width - 1
      cleared == FreeSpacerOf(FreeLeadOf(VoidIf(c <= 1 /\ ~(c = 0 /\ width = 2), s, r), r, c), r, last)
      paired(u) == IF width = 2 /\ c + 1 < Cols THEN Put(u, r, c + 1, PenCell("spacer"), s.pen) ELSE u
      written == Put(cleared, r, c, PenCell(IF width = 2 THEN "wide" ELSE "glyph"), s.pen)
  IN  Advance(DamageSpan(paired(written), r, c, last), c + width)
WriteUnparked(s, width) == IF Dropped(s, width) THEN s ELSE PutGlyph(WithRoom(s, width), width)
WriteGlyph(s, width) == WriteUnparked(Unparked(s), width)

\* The base cell of the cluster before the cursor, or none at the start of a row.
ClusterCol(s) ==
  LET c == IF s.park THEN s.col ELSE s.col - 1
  IN  IF c < 0 THEN {} ELSE {IF IsSpacer(s, s.row, c) /\ c > 0 THEN c - 1 ELSE c}
PushCombining(s) ==
  LET c == IF ClusterCol(s) = {} THEN 0 ELSE CHOOSE x \in ClusterCol(s) : TRUE
  IN  DamageSpan([s EXCEPT !.rows[s.row] = PushMark(@, c)], s.row, c, c)

Demote(s, r, c) ==
  LET narrow == [s EXCEPT !.rows[r].cells[c].k = "glyph", !.park = FALSE, !.col = Least(c + 1, LastCol)]
  IN  DamageSpan(FreeIf(c + 1 < Cols, narrow, r, c + 1), r, c, Least(c + 1, LastCol))
\* The cluster base, with its link and its n marks, on the row that was wrapped to.
Landed(s, base, link, n) ==
  LET lead == [base EXCEPT !.k = "wide", !.marked = n > 0, !.ownMarks = n]
      marked == [FreeSpacerOf(s, s.row, 1) EXCEPT !.rows[s.row].marks = IF n > 0 THEN Update(@, 0, n) ELSE @]
      paired == Put(Put(marked, s.row, 0, lead, link), s.row, 1, PenCell("spacer"), link)
  IN  DamageSpan(Advance([paired EXCEPT !.park = FALSE], 2), s.row, 0, 1)
Relocate(s, r, c) ==
  IF ~s.autowrap \/ ~WraplineAdvances(s) THEN s
  ELSE Landed(Wrapline(VacateForWrap(s, r, c)), s.rows[r].cells[c], LinkAt(s.rows[r], c), MarksAt(s.rows[r], c))
Promote(s, r, c) ==
  LET wide == [FreeSpacerOf(s, r, c + 1) EXCEPT !.rows[r].cells[c].k = "wide"]
      paired == Put(wide, r, c + 1, PenCell("spacer"), LinkAt(s.rows[r], c))
  IN  IF c + 1 >= Cols THEN Relocate(s, r, c) ELSE DamageSpan(Advance(paired, c + 2), r, c, c + 1)
\* try_grapheme_join, for a scalar that extends the cluster at c; its cluster is then
\* width columns wide.
Join(s, c, width) ==
  LET r == s.row
      joined == [s EXCEPT !.rows[r] = PushMark(@, c)]
      resized == IF width = 2 /\ ~IsWide(s, r, c) THEN Promote(joined, r, c)
                 ELSE IF width = 1 /\ IsWide(s, r, c) THEN Demote(joined, r, c) ELSE joined
  IN  IF MarksAt(s.rows[r], c) >= ClusterTail THEN s ELSE DamageSpan(resized, r, c, c)
\* width_may_change: a selector as the first join, or a scalar with a width of its own
\* after a narrow base.
JoinWidths(s, c, kind) ==
  LET wide == IsWide(s, s.row, c)
  IN  IF \/ kind = "selector" /\ MarksAt(s.rows[s.row], c) = 0 /\ s.rows[s.row].cells[c].k # "blank"
         \/ kind = "joiner" /\ ~wide /\ s.rows[s.row].cells[c].k = "glyph"
      THEN {1, 2} ELSE {IF wide THEN 2 ELSE 1}

----------------------------------------------------------------------------
(* Erasing and shifting within a row. *)
Blanked(s, r, from, to) ==
  LET row == s.rows[r]
      cells == [c \in 0..LastCol |-> IF c \in from..(to - 1) THEN Blank ELSE row.cells[c]]
      cleared == [s EXCEPT !.rows[r] = PurgeSideMaps([row EXCEPT !.cells = cells], from..(to - 1))]
  IN  IF to > from THEN DamageSpan(cleared, r, from, to - 1) ELSE cleared
\* Mutant of ClearCells: the lead of a pair whose spacer is the first cell cleared stays.
ClearCellsFrom(s, r, from, to) ==
  LET voided == VoidIf(from <= 1 /\ to > from, s, r)
  IN  Blanked(IF to > from THEN FreeSpacerOf(voided, r, to - 1) ELSE voided, r, from, to)
ClearCells(s, r, from, to) ==
  LET voided == VoidIf(from <= 1 /\ to > from, s, r)
  IN  Blanked(IF to > from THEN FreeSpacerOf(FreeLeadOf(voided, r, from), r, to - 1)
              ELSE IF from < Cols THEN FreeLeadOf(voided, r, from) ELSE voided, r, from, to)
ClearRow(s, r) == EndWrap(ClearCells(s, r, 0, Cols), r)
\* Whole rows, from first to last.
ClearedRows(s, first, last) ==
  LET cleared[n \in 0..(last - first + 1)] == IF n = 0 THEN s ELSE ClearRow(cleared[n - 1], first + n - 1)
  IN  cleared
ClearRows(s, first, last) == IF first > last THEN s ELSE ClearedRows(s, first, last)[last - first + 1]
EraseLeft(s) == DropArtefactIfErased(ClearCells(s, s.row, 0, s.col + 1), s.row, 0, s.col + 1)
EraseRight(s) == EndWrap(ClearCells(s, s.row, s.col, Cols), s.row)

DeleteCells(s, r, c, k) ==
  LET moved == ShiftCells(VoidIf(c <= 1, EndWrap(s, r), r), r, (c + k)..LastCol, -k, (Cols - k)..LastCol)
  IN  DamageSpan(FreeSpacerAt(FreeWideAt(moved, r, c - 1), r, c), r, c, LastCol)
DeleteCharsAt(s, n) == LET k == Least(n, Cols - s.col) IN IF k = 0 THEN s ELSE DeleteCells(s, s.row, s.col, k)

StepBack(s) ==
  LET prev == s.row - 1
  IN  IF s.reverse /\ s.autowrap /\ s.park THEN [s EXCEPT !.park = FALSE]
      ELSE IF s.col > 0 THEN [s EXCEPT !.park = FALSE, !.col = @ - 1]
      ELSE IF s.reverse /\ s.autowrap /\ s.row > s.top /\ s.row <= s.bottom /\ s.rows[prev].wrapped
           THEN [s EXCEPT !.park = FALSE, !.row = prev, !.col = LastCol]
           ELSE [s EXCEPT !.park = FALSE]

----------------------------------------------------------------------------
(* One frame after each operation: the damaged cells are sent. *)
Shown(s, r, c) == <<s.rows[r].cells[c].k, LinkAt(s.rows[r], c), MarksAt(s.rows[r], c), c = LastCol /\ s.rows[r].wrapped>>
Sent(s) == [s EXCEPT !.view = [r \in 0..LastRow |-> [c \in 0..LastCol |-> IF <<r, c>> \in s.dmg THEN Shown(s, r, c) ELSE @[r][c]]],
                     !.dmg = {}]
Does(s) == ops < MaxOps /\ ops' = ops + 1 /\ t' = Sent(s)

NewTerminal(m) ==
  [rows |-> [r \in 0..LastRow |-> BlankRow], back |-> [wrapped |-> FALSE, lead |-> FALSE],
   row |-> 0, col |-> 0, park |-> FALSE, top |-> 0, bottom |-> LastRow, pen |-> 0,
   autowrap |-> m.autowrap, insert |-> m.insert, cluster |-> m.cluster, reverse |-> m.reverse,
   saved |-> [row |-> 0, col |-> 0, park |-> FALSE, pen |-> 0], returned |-> FALSE,
   view |-> [r \in 0..LastRow |-> [c \in 0..LastCol |-> ShownBlank]], dmg |-> {}]
RowInit == ops = 0 /\ \E m \in Modes : t = NewTerminal(m)

\* place_grapheme: a glyph one or two columns wide, a mark of no width, and a scalar that
\* the clustering mode joins to the cluster before it.
Glyph == \E width \in {1, 2} : Does(WriteGlyph(t, width))
Mark == \E kind \in {"selector", "mark"} :
          IF t.cluster /\ ClusterCol(t) # {}
          THEN \E c \in ClusterCol(t) : \E w \in JoinWidths(t, c, kind) : Does(Join(t, c, w))
          ELSE Does(PushCombining(t))
Joiner == /\ t.cluster
          /\ \E c \in ClusterCol(t) : \E w \in JoinWidths(t, c, "joiner") : Does(Join(t, c, w))

Linefeed == Does([LinefeedInner(t, FALSE) EXCEPT !.park = FALSE])
ReverseIndex ==
  Does([(IF t.row = t.top THEN ShiftRegion(t, t.top, t.bottom, TRUE, FALSE, FALSE)
         ELSE IF t.row > 0 THEN [t EXCEPT !.row = @ - 1] ELSE t) EXCEPT !.park = FALSE])
CarriageReturn == Does([t EXCEPT !.col = 0, !.park = FALSE])
Backspace == Does(StepBack(t))
Goto == \E r \in 0..LastRow, c \in 0..LastCol : Does([t EXCEPT !.row = r, !.col = c, !.park = FALSE])

EraseDisplay ==
  \/ Does(ClearRows(EraseRight(t), t.row + 1, LastRow))
  \/ Does(LET s == EraseLeft(ClearRows(t, 0, t.row - 1)) IN IF t.col = LastCol THEN EndWrap(s, t.row) ELSE s)
  \/ Does(ClearRows(t, 0, LastRow))
EraseLine == Does(EraseRight(t)) \/ Does(EraseLeft(t)) \/ Does(ClearRows(t, t.row, t.row))
EraseChars == \E n \in 1..Cols : Does(EndWrap(ClearCells(t, t.row, t.col, Least(t.col + n, Cols)), t.row))
InsertChars == \E n \in 1..Cols : Does(InsertCharsAt(t, n))
DeleteChars == \E n \in 1..Cols : Does(DeleteCharsAt(t, n))

ScrolledLines(s, top, bottom, down) ==
  LET after[i \in Nat] == IF i = 0 THEN s ELSE ShiftRegion(after[i - 1], top, bottom, down, FALSE, FALSE)
  IN  after
ScrollRegionLines(s, top, bottom, n, down) == ScrolledLines(s, top, bottom, down)[n]
ScrollLines == \E n \in 1..2, down \in BOOLEAN :
                 /\ n <= t.bottom - t.top + 1
                 /\ Does(ScrollRegionLines(t, t.top, t.bottom, n, down))
InsertOrDeleteLines ==
  /\ t.row \in t.top..t.bottom
  /\ \E down \in BOOLEAN : Does([ScrollRegionLines(t, t.row, t.bottom, 1, down) EXCEPT !.park = FALSE])
SetScrollRegion == \E top \in 0..LastRow, bottom \in 0..LastRow :
  /\ top < bottom
  /\ Does([t EXCEPT !.top = top, !.bottom = bottom, !.row = 0, !.col = 0, !.park = FALSE])
SetAutowrap == Does([t EXCEPT !.autowrap = ~@])
SetInsert == Does([t EXCEPT !.insert = ~@])
SetPen == Does([t EXCEPT !.pen = 1 - @])
SaveCursor == Does([t EXCEPT !.saved = [row |-> t.row, col |-> t.col, park |-> t.park, pen |-> t.pen]])
RestoreCursor == Does([t EXCEPT !.row = t.saved.row, !.col = t.saved.col, !.park = t.saved.park, !.pen = t.saved.pen,
                                !.returned = @ \/ t.saved.park])

RowNext == \/ Glyph \/ Mark \/ Joiner \/ Linefeed \/ ReverseIndex \/ CarriageReturn \/ Backspace \/ Goto
           \/ EraseDisplay \/ EraseLine \/ EraseChars \/ InsertChars \/ DeleteChars
           \/ ScrollLines \/ InsertOrDeleteLines \/ SetScrollRegion \/ SetAutowrap \/ SetInsert \/ SetPen
           \/ SaveCursor \/ RestoreCursor
RowSpec == RowInit /\ [][RowNext]_rowVars

----------------------------------------------------------------------------
Kind(r, c) == t.rows[r].cells[c].k

\* The repairs of write_glyph, clear_cells, insert_chars, delete_chars, promote, demote and
\* relocate (term.rs): no verb leaves half of a wide pair on the screen.
NoHalfPair ==
  \A r \in 0..LastRow, c \in 0..LastCol :
    /\ Kind(r, c) = "wide" => c < LastCol /\ Kind(r, c + 1) = "spacer"
    /\ Kind(r, c) = "spacer" => c > 0 /\ Kind(r, c - 1) = "wide"

\* vacate_for_wrap, end_wrap, void_wrap_artefact_above and the shifts (term.rs, ADR-0025 D3):
\* a column is marked as left vacant by a wrapped pair only at the end of a row that
\* still wraps.
ArtefactIsOfAWrap ==
  \A r \in 0..LastRow, c \in 0..LastCol :
    t.rows[r].cells[c].lead => c = LastCol /\ Kind(r, c) = "blank" /\ t.rows[r].wrapped

\* void_wrap_artefact_above (term.rs): the row after a vacated column begins with the pair
\* that did not fit.  Not so with clustering on: a selector that narrows the pair
\* (demote_cluster_to_narrow) leaves the column above it as it was.  Nor after a cursor was
\* restored parked: the wrap it then makes may scroll a vacated column off its pair.  Nor on
\* two columns: a pair may be vacated (vacate_for_wrap) that had itself wrapped.
VacancyIsBacked ==
  ~t.cluster /\ ~t.returned /\ Cols > 2 => \A r \in 0..LastRow : t.rows[r].cells[LastCol].lead => (r < LastRow /\ Kind(r + 1, 0) = "wide")

\* The pairs and the wraps they cause, after any sequence of verbs.
PairsAreWhole == NoHalfPair /\ ArtefactIsOfAWrap /\ VacancyIsBacked

\* push_combining, set_ext_attrs, move_map and purge_side_maps (grid.rs): a cell reads the
\* link and the marks that were written with it, wherever it has moved and whatever lies
\* stale in the maps.
AttributesFollowTheirCell ==
  \A r \in 0..LastRow, c \in 0..LastCol :
    /\ LinkAt(t.rows[r], c) = t.rows[r].cells[c].own
    /\ MarksAt(t.rows[r], c) = t.rows[r].cells[c].ownMarks

\* damage_span and record_scroll in every verb (term.rs): a consumer that is sent the damaged
\* cells holds the screen.
ViewIsTheScreen == \A r \in 0..LastRow, c \in 0..LastCol : t.view[r][c] = Shown(t, r, c)

\* What a cell carries beside its glyph, on the screen and at the consumer.
CellsAreTold == AttributesFollowTheirCell /\ ViewIsTheScreen
=============================================================================
