---------------------------- MODULE FrameStream ----------------------------
(***************************************************************************)
(* What justerm-core (justerm-core/src/term.rs) sends a frame consumer, and *)
(* what justerm-web's CellMirror (justerm-web/src/cell-mirror.ts) makes of  *)
(* it: the verbs that change the screen record damage and one scroll op,    *)
(* and a frame is the scroll op followed by the damaged spans.              *)
(*                                                                          *)
(* A cell's content is where the consumer has it: the viewport position the *)
(* mirror held it at when the last frame was acknowledged, or Fresh if the  *)
(* mirror has it nowhere.  A step that writes a cell makes it Fresh, one    *)
(* that moves a row moves its cells' positions, and an acknowledged frame   *)
(* names the cells anew.  So two contents are equal exactly when they are   *)
(* the same cell, which is the case the damage must answer for.  A row's    *)
(* wrap flag is kept as it is, with the flag the mirror holds beside it.    *)
(*                                                                          *)
(* Glyphs are one column wide, DECAWM is set and DECOM is not.              *)
(***************************************************************************)
EXTENDS Integers, Sequences, FiniteSets

CONSTANTS
    Rows, Cols,    \* the screen
    Limit,         \* scrollback_limit
    MaxCount,      \* bound: the counts CSI sequences carry
    MaxOps         \* bound: changes in a behaviour

ASSUME FrameAssumption ==
    /\ Rows \in Nat \ {0} /\ Cols \in Nat \ {0} /\ Limit \in Nat
    /\ MaxCount \in Nat \ {0} /\ MaxOps \in Nat

VARIABLES
    t,       \* the Term
    mirrorWraps,   \* the wrap flag the mirror held for each row at the last ack
    ops            \* changes so far (history)

vars == <<t, mirrorWraps, ops>>

RowIds == 0..Rows - 1
ColIds == 0..Cols - 1
Fresh  == Rows * Cols
At(r, c) == r * Cols + c

Row(cells, wrapped) == [cells |-> cells, wrapped |-> wrapped]
BlankRow   == Row([c \in ColIds |-> Fresh], FALSE)
BlankGrid  == [r \in RowIds |-> BlankRow]
Undamaged  == [left |-> Cols, right |-> 0]
FullyDamaged == [left |-> 0, right |-> Cols - 1]

Lesser(a, b)  == IF a < b THEN a ELSE b
Greater(a, b) == IF a > b THEN a ELSE b

-----------------------------------------------------------------------------
(* Recording damage. *)

MarkFullyDamaged(s) == [s EXCEPT !.full = TRUE]

DamageSpan(s, row, left, right) ==
    [s EXCEPT !.damage[row] = [left  |-> Lesser(@.left, left),
                               right |-> Greater(@.right, right)]]

\* A slot's new value when rows top..bottom move by one.
Rotated(f, top, bottom, down, exposed) ==
    [r \in RowIds |->
        IF r \notin top..bottom THEN f[r]
        ELSE IF down THEN (IF r = top THEN exposed ELSE f[r - 1])
        ELSE (IF r = bottom THEN exposed ELSE f[r + 1])]

\* Mutant of RecordScroll: the damage already recorded stays where it was.
RecordScrollUnrotated(s, top, bottom, down) ==
    LET count == IF down THEN -1 ELSE 1
        op    == [top |-> top, bottom |-> bottom, count |-> count]
        moved == [s EXCEPT !.damage[IF down THEN top ELSE bottom] = FullyDamaged]
    IN  IF s.scroll = {} THEN [moved EXCEPT !.scroll = {op}]
        ELSE LET old == CHOOSE o \in s.scroll : TRUE
             IN  IF old.top = top /\ old.bottom = bottom
                 THEN [moved EXCEPT !.scroll = {[old EXCEPT !.count = @ + count]}]
                 ELSE MarkFullyDamaged([moved EXCEPT !.scroll = {}])

\* The damage follows the rows; repeated scrolls of one region add up, and a second
\* region makes the frame Full.
RecordScroll(s, top, bottom, down) ==
    LET count == IF down THEN -1 ELSE 1
        op    == [top |-> top, bottom |-> bottom, count |-> count]
        moved == [s EXCEPT !.damage = Rotated(@, top, bottom, down, FullyDamaged)]
    IN  IF s.scroll = {} THEN [moved EXCEPT !.scroll = {op}]
        ELSE LET old == CHOOSE o \in s.scroll : TRUE
             IN  IF old.top = top /\ old.bottom = bottom
                 THEN [moved EXCEPT !.scroll = {[old EXCEPT !.count = @ + count]}]
                 ELSE MarkFullyDamaged([moved EXCEPT !.scroll = {}])

\* begin_wrap and end_wrap.
SetWrap(s, row, wrapped) ==
    DamageSpan([s EXCEPT !.grid[row].wrapped = wrapped], row, Cols - 1, Cols - 1)

EndWrap(s, row) == SetWrap(s, row, FALSE)

\* clear_cells, from..to - 1.
ClearCells(s, row, from, to) ==
    IF from >= to THEN s
    ELSE DamageSpan([s EXCEPT !.grid[row].cells =
                        [c \in ColIds |-> IF c \in from..to - 1 THEN Fresh ELSE @[c]]],
                    row, from, to - 1)

-----------------------------------------------------------------------------
(* Moving rows. *)

\* shift_region; the seams are ended after the scroll is recorded.
ShiftRegion(s, top, bottom, down, evicts, servesWrap) ==
    LET shifted == RecordScroll([s EXCEPT !.grid = Rotated(@, top, bottom, down, BlankRow)],
                                top, bottom, down)
        above   == IF top > 0 THEN EndWrap(shifted, top - 1)
                   ELSE IF evicts \/ s.alt \/ s.hist = << >> THEN shifted
                   ELSE [shifted EXCEPT !.hist[Len(s.hist)].wrapped = FALSE]
        orphan  == IF down THEN bottom ELSE bottom - 1
    IN  IF servesWrap \/ orphan < 0 \/ (~down /\ bottom + 1 = Rows) THEN above
        ELSE EndWrap(above, orphan)

\* Mutant of PushHistory: the viewport moves with the evicted line, unrepainted.
PushHistoryUnpainted(s, row) ==
    LET hist   == Append(s.hist, row)
        offset == IF s.offset > 0 THEN Lesser(s.offset + 1, Len(hist)) ELSE 0
    IN  IF Len(hist) <= Limit THEN [s EXCEPT !.hist = hist, !.offset = offset]
        ELSE [s EXCEPT !.hist = Tail(hist), !.offset = Greater(offset - 1, 0)]

\* linefeed_inner's history half: a scrolled-up view stays on its lines, and moves
\* only when the oldest is evicted under it.
PushHistory(s, row) ==
    LET hist   == Append(s.hist, row)
        offset == IF s.offset > 0 THEN Lesser(s.offset + 1, Len(hist)) ELSE 0
        kept   == [s EXCEPT !.hist = hist, !.offset = offset]
    IN  IF Len(hist) <= Limit THEN kept
        ELSE IF offset = 0 THEN [kept EXCEPT !.hist = Tail(hist)]
        ELSE MarkFullyDamaged([kept EXCEPT !.hist = Tail(hist), !.offset = offset - 1])

LinefeedInner(s, servesWrap) ==
    IF s.row # s.bottom
    THEN [s EXCEPT !.row = Lesser(@ + 1, Rows - 1)]
    ELSE IF s.top = 0 /\ ~s.alt
    THEN LET evicted == s.grid[0]
             moved == IF s.bottom = Rows - 1
                      THEN RecordScroll([s EXCEPT !.grid = Rotated(@, 0, Rows - 1, FALSE, BlankRow)],
                                        0, Rows - 1, FALSE)
                      ELSE ShiftRegion(s, 0, s.bottom, FALSE, TRUE, servesWrap)
         IN  PushHistory(moved, evicted)
    ELSE ShiftRegion(s, s.top, s.bottom, FALSE, FALSE, servesWrap)

WraplineAdvances(s) == s.row = s.bottom \/ s.row + 1 < Rows

WrapLine(s) == [LinefeedInner(s, TRUE) EXCEPT !.col = 0, !.pend = FALSE]

\* scroll_region_lines: n one-line shifts.
Shifts(s, top, bottom, down) ==
    LET shift[k \in Nat] ==
            IF k = 0 THEN s ELSE ShiftRegion(shift[k - 1], top, bottom, down, FALSE, FALSE)
    IN  shift
ShiftLines(s, top, bottom, n, down) == Shifts(s, top, bottom, down)[Lesser(n, bottom - top + 1)]

EraseHistory(s) ==
    IF s.hist = << >> THEN s
    ELSE MarkFullyDamaged([s EXCEPT !.hist = << >>, !.offset = 0])

-----------------------------------------------------------------------------
(* The viewport and a frame of it. *)

\* viewport_line.
ViewRow(s, v) ==
    LET idx == Len(s.hist) - s.offset + v
    IN  IF idx < Len(s.hist) THEN s.hist[idx + 1] ELSE s.grid[idx - Len(s.hist)]

\* damage and frame: the cells a frame taken now carries (frame_damage adds the
\* caret's two cells to them).
Ships(s, r, c) ==
    \/ s.full
    \/ s.offset = 0 /\ s.damage[r].left <= c /\ c <= s.damage[r].right

\* scroll_delta and cap_scroll.
ScrollDelta(s) ==
    IF s.offset > 0 THEN {}
    ELSE {[op EXCEPT !.count = Lesser(Greater(@, -(op.bottom - op.top + 1)),
                                      op.bottom - op.top + 1)] : op \in s.scroll}

\* shiftRegion: the row of the mirror that row r's unshipped cells come from, or
\* none (Rows) where the shift left a blank.
Blanked == Rows
MirrorSource(s, r) ==
    LET shifts == {op \in ScrollDelta(s) : r \in op.top..op.bottom}
    IN  IF shifts = {} THEN r
        ELSE LET op == CHOOSE o \in shifts : TRUE
             IN  IF r + op.count \in op.top..op.bottom THEN r + op.count ELSE Blanked

\* applyFrame: whether the mirror then has the cell the viewport shows at (r, c) ...
MirrorHas(s, r, c) ==
    \/ Ships(s, r, c)
    \/ MirrorSource(s, r) # Blanked /\ ViewRow(s, r).cells[c] = At(MirrorSource(s, r), c)

\* ... and the wrap flag it then has for row r.
MirrorWrap(s, r) ==
    IF Ships(s, r, Cols - 1) THEN ViewRow(s, r).wrapped
    ELSE MirrorSource(s, r) # Blanked /\ mirrorWraps[MirrorSource(s, r)]

-----------------------------------------------------------------------------
\* An acknowledged screen: n lines of history above it, its margins set (which
\* homes the cursor), nothing damaged.
Init ==
    \E n \in 0..Limit, top, bottom \in RowIds :
        /\ top < bottom
        /\ t = [grid   |-> [r \in RowIds |-> Row([c \in ColIds |-> At(r, c)], FALSE)],
                other  |-> BlankGrid,
                hist   |-> [i \in 1..n |-> BlankRow],
                offset |-> 0, alt |-> FALSE,
                top    |-> top, bottom |-> bottom,
                row    |-> 0, col |-> 0, pend |-> FALSE,
                damage |-> [r \in RowIds |-> Undamaged], scroll |-> {}, full |-> FALSE]
        /\ mirrorWraps = [r \in RowIds |-> FALSE]
        /\ ops = 0

\* Every change is counted.
Change(s) ==
    /\ ops < MaxOps
    /\ ops' = ops + 1
    /\ t' = s
    /\ UNCHANGED mirrorWraps

\* write_glyph of a narrow character.
WriteGlyph ==
    LET wrapped == IF ~t.pend THEN t
                   ELSE WrapLine(IF WraplineAdvances(t) THEN SetWrap(t, t.row, TRUE) ELSE t)
        written == ClearCells(wrapped, wrapped.row, wrapped.col, wrapped.col + 1)
    IN  Change(IF wrapped.col + 1 >= Cols
               THEN [written EXCEPT !.col = Cols - 1, !.pend = TRUE]
               ELSE [written EXCEPT !.col = @ + 1])

Linefeed == Change([LinefeedInner(t, FALSE) EXCEPT !.pend = FALSE])

ReverseIndex ==
    Change([(IF t.row = t.top THEN ShiftRegion(t, t.top, t.bottom, TRUE, FALSE, FALSE)
             ELSE [t EXCEPT !.row = Greater(@ - 1, 0)]) EXCEPT !.pend = FALSE])

Goto(r, c) == Change([t EXCEPT !.row = r, !.col = c, !.pend = FALSE])

SetScrollRegion(top, bottom) ==
    Change([t EXCEPT !.top = top, !.bottom = bottom, !.row = 0, !.col = 0, !.pend = FALSE])

\* Rows `from'..`to' erased whole, clear_cells and end_wrap of each.
EraseRows(s, from, to) ==
    [s EXCEPT !.grid   = [r \in RowIds |-> IF r \in from..to THEN BlankRow ELSE @[r]],
              !.damage = [r \in RowIds |-> IF r \in from..to THEN FullyDamaged ELSE @[r]]]

EraseDisplay(mode) ==
    Change(CASE mode = 0 -> EraseRows(EndWrap(ClearCells(t, t.row, t.col, Cols), t.row),
                                      t.row + 1, Rows - 1)
             [] mode = 1 -> LET left == ClearCells(EraseRows(t, 0, t.row - 1), t.row, 0, t.col + 1)
                            IN  IF t.col + 1 = Cols THEN EndWrap(left, t.row) ELSE left
             [] mode = 2 -> EraseRows(t, 0, Rows - 1)
             [] mode = 3 -> EraseHistory(t))

EraseLine(mode) ==
    Change(CASE mode = 0 -> EndWrap(ClearCells(t, t.row, t.col, Cols), t.row)
             [] mode = 1 -> ClearCells(t, t.row, 0, t.col + 1)
             [] mode = 2 -> EndWrap(ClearCells(t, t.row, 0, Cols), t.row))

EraseChars(n) ==
    Change(EndWrap(ClearCells(t, t.row, t.col, Lesser(t.col + n, Cols)), t.row))

\* The row's cells from the cursor moved by n, and blanks in the gap.
ShiftCells(s, n) ==
    DamageSpan([s EXCEPT !.grid[s.row].cells =
                    [c \in ColIds |-> IF c < s.col THEN @[c]
                                      ELSE IF c + n \in s.col..Cols - 1 THEN @[c + n]
                                      ELSE Fresh]],
               s.row, s.col, Cols - 1)

InsertChars(n) == Change(ShiftCells(t, -Lesser(n, Cols - t.col)))

DeleteChars(n) == Change(ShiftCells(EndWrap(t, t.row), Lesser(n, Cols - t.col)))

\* SU and SD.
ScrollLines(n, down) == Change(ShiftLines(t, t.top, t.bottom, n, down))

\* IL and DL.
EditLines(n, down) ==
    /\ t.row \in t.top..t.bottom
    /\ Change(ShiftLines([t EXCEPT !.pend = FALSE], t.row, t.bottom, n, down))

\* Both are Full: the two screens share no cell.
SwitchToAlt ==
    /\ ~t.alt
    /\ Change(MarkFullyDamaged([t EXCEPT !.grid = BlankGrid, !.other = t.grid,
                                         !.alt = TRUE, !.offset = 0]))

SwitchToPrimary ==
    /\ t.alt
    /\ Change(MarkFullyDamaged([t EXCEPT !.grid = t.other, !.other = BlankGrid,
                                         !.alt = FALSE, !.offset = 0]))

\* The first row of the cursor's logical line.
LineStart(s) ==
    LET starts == {r \in 0..s.row : \A q \in r..s.row - 1 : s.grid[q].wrapped}
    IN  CHOOSE r \in starts : \A q \in starts : r <= q

KeptRows(s, top) == [r \in RowIds |-> IF r <= s.row - top THEN s.grid[r + top] ELSE BlankRow]

\* Engine::clear, which keeps the cursor's logical line.
Clear ==
    /\ ~t.alt
    /\ LET top  == LineStart(t)
           last == t.row - top
       IN  Change(MarkFullyDamaged(
               EndWrap([t EXCEPT !.grid = KeptRows(t, top), !.hist = << >>, !.offset = 0, !.row = last,
                                 !.scroll = {}], last)))

\* scroll_up, scroll_down, scroll_to_bottom.
SetDisplayOffset(offset) ==
    /\ ~t.alt /\ offset # t.offset
    /\ Change(MarkFullyDamaged([t EXCEPT !.offset = offset]))

\* mark_fully_damaged: a consumer that reattaches.
Reattach == Change(MarkFullyDamaged(t))

\* RIS.
FullReset ==
    Change([t EXCEPT !.grid = BlankGrid, !.other = BlankGrid, !.hist = << >>, !.offset = 0,
                     !.alt = FALSE, !.top = 0, !.bottom = Rows - 1, !.row = 0, !.col = 0,
                     !.pend = FALSE, !.damage = [r \in RowIds |-> Undamaged], !.scroll = {},
                     !.full = TRUE])

\* A row at viewport line v, its cells named by where the mirror now has them.
Seen(s, row, v) ==
    [row EXCEPT !.cells = [c \in ColIds |->
        IF v \in RowIds /\ MirrorHas(s, v, c) THEN At(v, c) ELSE Fresh]]

\* Session::flush: a frame goes out, is applied and is acknowledged (reset_damage).
Ack ==
    /\ mirrorWraps' = [r \in RowIds |-> MirrorWrap(t, r)]
    /\ t' = [t EXCEPT
                !.grid   = [r \in RowIds |-> Seen(t, @[r], r + t.offset)],
                !.other  = [r \in RowIds |-> Seen(t, @[r], Rows)],
                !.hist   = [i \in 1..Len(@) |-> Seen(t, @[i], i - 1 - Len(@) + t.offset)],
                !.damage = [r \in RowIds |-> Undamaged],
                !.scroll = {}, !.full = FALSE]
    /\ UNCHANGED ops

Next ==
    \/ WriteGlyph \/ Linefeed \/ ReverseIndex
    \/ \E r \in RowIds, c \in ColIds : Goto(r, c)
    \/ \E top, bottom \in RowIds : top < bottom /\ SetScrollRegion(top, bottom)
    \/ \E mode \in 0..3 : EraseDisplay(mode)
    \/ \E mode \in 0..2 : EraseLine(mode)
    \/ \E n \in 1..MaxCount : EraseChars(n) \/ InsertChars(n) \/ DeleteChars(n)
    \/ \E n \in 1..MaxCount, down \in BOOLEAN : ScrollLines(n, down) \/ EditLines(n, down)
    \/ SwitchToAlt \/ SwitchToPrimary
    \/ Clear
    \/ \E offset \in 0..Len(t.hist) : SetDisplayOffset(offset)
    \/ Reattach \/ FullReset
    \/ Ack

Spec == Init /\ [][Next]_vars

-----------------------------------------------------------------------------
Tags == 0..Fresh
RowType == [cells : [ColIds -> Tags], wrapped : BOOLEAN]

\* The indices the verbs use stay inside the screen and the history.
TypeOK ==
    /\ t.grid \in [RowIds -> RowType] /\ t.other \in [RowIds -> RowType]
    /\ Len(t.hist) <= Limit /\ \A i \in 1..Len(t.hist) : t.hist[i] \in RowType
    /\ t.offset \in 0..Len(t.hist) /\ t.alt \in BOOLEAN
    /\ t.top \in RowIds /\ t.bottom \in RowIds
    /\ t.row \in RowIds /\ t.col \in ColIds /\ t.pend \in BOOLEAN
    /\ t.damage \in [RowIds -> [left : 0..Cols, right : ColIds]]
    /\ Cardinality(t.scroll) <= 1 /\ t.full \in BOOLEAN
    /\ mirrorWraps \in [RowIds -> BOOLEAN] /\ ops \in 0..MaxOps

\* A consumer that applies the frames shows the screen: at the bottom of the buffer,
\* whatever verbs ran since the last ack and in whatever order, the mirror after a
\* frame taken now holds every cell of the viewport (ADR-0003's incremental damage).
FrameIsFaithful ==
    t.offset = 0 => \A r \in RowIds, c \in ColIds : MirrorHas(t, r, c)

\* The wrap flag rides the last cell of a row; the mirror's follows the engine's.
WrapsAreFaithful ==
    t.offset = 0 => \A r \in RowIds : MirrorWrap(t, r) = ViewRow(t, r).wrapped

\* Cells and flags: a mirror is right in both or of no use.
MirrorIsFaithful == TypeOK /\ FrameIsFaithful /\ WrapsAreFaithful

\* A view scrolled into history past the live screen stays as it is unless a repaint
\* is asked for: what a program writes meanwhile does not show there.
FrozenViewIsStill ==
    [][ops' > ops /\ t.offset >= Rows /\ t'.offset >= Rows /\ ~t'.full =>
        \A v \in RowIds : ViewRow(t', v).cells = ViewRow(t, v).cells]_vars

\* term.rs:800-802 says it of every scrolled-up view: screen changes "are not visible".
ScrolledFrameIsFaithful ==
    \A r \in RowIds, c \in ColIds : MirrorHas(t, r, c)
=============================================================================
