----------------------------- MODULE FrameGrid -----------------------------
(***************************************************************************)
(* What the consumers of a damage frame keep of it: the renderer's dense   *)
(* grid (justerm-renderer/src/frame_grid.rs, fed by apply_damage) and the  *)
(* widget's CellMirror (justerm-web/src/cell-mirror.ts).  The engine sends *)
(* frames, a caller may send one that names cells outside the grid, and    *)
(* the blink loop re-issues a frame that carries nothing but a phase.      *)
(***************************************************************************)
EXTENDS Integers, Sequences, FiniteSets, SequencesExt

CONSTANTS Sizes,   \* <<cols, rows>> of the screens
          Word,    \* what a usize counts to, more than any screen has cells
          Runs,    \* what the program writes: sequences of cells, each <<char>> or <<char, marks>>
          Scrolls  \* <<top, bottom, count>> of the scroll operations, 0-based

VARIABLES screen,  \* the engine's: [cols, rows, cells]
          grid,    \* the renderer's FrameGrid; cells is row-major, from 0
          mirror,  \* the widget's CellMirror, likewise
          phase,   \* last_blink_on: the blink phase the renderer packs at
          view,    \* the widget's: [frame: lastFrameGrid, asked: the size asked for, believed: lastTextBlinkOn]
          outcome, \* of the last apply_damage: "applied", "refused" or "trapped" (an index out of bounds)
          whole    \* history: no refused frame has replaced the grid since the last Full frame

gridVars == <<screen, grid, mirror, phase, view, outcome, whole>>

Space == 32
Cells(size) == 0..(size[1] * size[2] - 1)
SizeOf(g) == <<g.cols, g.rows>>
BlankScreen(size) == [cols |-> size[1], rows |-> size[2], cells |-> [i \in Cells(size) |-> <<Space>>]]

\* Blank cells: codepoint 0 and no cluster in the grid, a space in the mirror.
BlankCell == [cp |-> 0, cluster |-> <<>>]
TryNew(size) == [cols |-> size[1], rows |-> size[2], cells |-> [i \in Cells(size) |-> BlankCell]]
NewMirror(size) == [cols |-> size[1], rows |-> size[2], cells |-> [i \in Cells(size) |-> <<Space>>]]

-----------------------------------------------------------------------------
(* The engine's frames.                                                     *)

\* What a scroll of the screen leaves: rows taken over, the others exposed.
Kept(op, y) == op # <<>> /\ op[1] <= y /\ y <= op[2] /\ op[1] <= y + op[3] /\ y + op[3] <= op[2]
Exposed(op, size) == {y \in 0..(size[2] - 1) : op # <<>> /\ op[1] <= y /\ y <= op[2] /\ ~Kept(op, y)}
Scrolled(s, op) ==
  [s EXCEPT !.cells = [i \in DOMAIN @ |->
     LET y == i \div s.cols
     IN  IF Kept(op, y) THEN @[i + op[3] * s.cols] ELSE IF y \in Exposed(op, SizeOf(s)) THEN <<Space>> ELSE @[i]]]

\* A frame of runs <<line, left, texts>>: the cells of all spans in one column,
\* the marks of its clusters in a table of the frame's own, entry 0 for none.
FrameOf(size, kind, op, runs) ==
  LET texts == FlattenSeq([k \in 1..Len(runs) |-> runs[k][3]])
      before == [k \in 1..Len(runs) |-> FoldLeft(LAMBDA n, j : n + Len(runs[j][3]), 0, [j \in 1..(k - 1) |-> j])]
      clusters == SelectSeq([i \in 1..Len(texts) |-> i], LAMBDA i : Len(texts[i]) > 1)
  IN [cols |-> size[1], rows |-> size[2], kind |-> kind, scroll |-> op,
      spans |-> [k \in 1..Len(runs) |-> [line |-> runs[k][1], left |-> runs[k][2],
                                         offset |-> before[k], count |-> Len(runs[k][3])]],
      codepoints |-> [i \in 1..Len(texts) |-> texts[i][1]],
      extra |-> [i \in 1..Len(texts) |-> Cardinality({k \in DOMAIN clusters : clusters[k] <= i /\ Len(texts[i]) > 1})],
      sideTable |-> [k \in DOMAIN clusters |-> texts[clusters[k]][2]]]

\* apply_damage's header carries a scroll whose count is not 0.
ScrollOf(f) == IF f.scroll # <<>> /\ f.scroll[3] # 0 THEN f.scroll ELSE <<>>

-----------------------------------------------------------------------------
(* FrameGrid.                                                               *)

\* checked_add: a sum past the word exceeds any limit.
Exceeds(a, b, limit) == a + b >= Word \/ a + b > limit

ScrollOutsideGrid(g, f) ==
  ScrollOf(f) # <<>> /\ f.kind # 0 /\ f.scroll[1] <= f.scroll[2] /\ f.scroll[2] >= g.rows
SpanOutsideGrid(g, span) == span.line >= g.rows \/ Exceeds(span.left, span.count, g.cols)
SpanCellsMissing(f, span) == Exceeds(span.offset, span.count, Len(f.codepoints))
Validate(g, f) ==
  /\ ~ScrollOutsideGrid(g, f)
  /\ \A k \in DOMAIN f.spans : ~SpanOutsideGrid(g, f.spans[k]) /\ ~SpanCellsMissing(f, f.spans[k])

\* shift_row: row y takes row y + count of the region, or goes blank.
ShiftRow(cells, cols, y, op, blank) ==
  LET src == y + op[3]
  IN  [i \in DOMAIN cells |->
         IF i \div cols # y THEN cells[i]
         ELSE IF src >= op[1] /\ src <= op[2] THEN cells[src * cols + (i % cols)] ELSE blank]
\* shift_region: rows one by one, in the order that reads none after it was written.
OrderFromTheTop(op) == [k \in 1..(op[2] - op[1] + 1) |-> op[1] + k - 1]
Order(op) == LET rows == [k \in 1..(op[2] - op[1] + 1) |-> op[1] + k - 1]
             IN  IF op[3] > 0 THEN rows ELSE Reverse(rows)
ShiftRegion(cells, cols, op, blank) ==
  IF op[1] > op[2] \/ op[3] = 0 THEN cells
  ELSE FoldLeft(LAMBDA c, y : ShiftRow(c, cols, y, op, blank), cells, Order(op))

\* One cell of the frame, its cluster looked up in the frame's own table.
Resolved(f, src) ==
  LET extra == f.extra[src + 1]
  IN  [cp |-> f.codepoints[src + 1],
       cluster |-> IF extra = 0 \/ extra > Len(f.sideTable) THEN <<>>
                   ELSE <<f.codepoints[src + 1], f.sideTable[extra]>>]
\* Where a span's cells come from and go to; the sums are a usize's.
Writes(g, span) ==
  {<<(span.line * g.cols + span.left + i) % Word, (span.offset + i) % Word>> : i \in 0..(span.count - 1)}
Scatter(cells, g, f) ==
  FoldLeft(LAMBDA c, span :
             LET w == Writes(g, span)
             IN  [i \in DOMAIN c |-> IF \E p \in w : p[1] = i THEN Resolved(f, (CHOOSE p \in w : p[1] = i)[2]) ELSE c[i]],
           cells, f.spans)
InBounds(g, f) ==
  /\ \A k \in DOMAIN f.spans : \A p \in Writes(g, f.spans[k]) : p[1] \in DOMAIN g.cells /\ p[2] < Len(f.codepoints)
  /\ ScrollOf(f) # <<>> /\ f.kind # 0 => f.scroll[1] > f.scroll[2] \/ f.scroll[2] < g.rows
Apply(g, f) ==
  LET wiped == IF f.kind = 0 THEN [i \in DOMAIN g.cells |-> BlankCell]
               ELSE IF ScrollOf(f) # <<>> THEN ShiftRegion(g.cells, g.cols, f.scroll, BlankCell)
               ELSE g.cells
  IN  [g EXCEPT !.cells = Scatter(wiped, g, f)]

\* apply_damage: a grid of another size is replaced first, also for a frame that is then refused.
Taken(f) == IF SizeOf(grid) = <<f.cols, f.rows>> THEN grid ELSE TryNew(<<f.cols, f.rows>>)
ApplyDamage(f, blink) ==
  LET g == Taken(f)
  IN  \/ /\ ~Validate(g, f)
         /\ grid' = g /\ outcome' = "refused" /\ whole' = (whole /\ g = grid) /\ UNCHANGED phase
      \/ /\ Validate(g, f) /\ ~InBounds(g, f)
         /\ grid' = g /\ outcome' = "trapped" /\ UNCHANGED <<whole, phase>>
      \/ /\ Validate(g, f) /\ InBounds(g, f)
         /\ grid' = Apply(g, f) /\ outcome' = "applied" /\ whole' = (whole \/ f.kind = 0) /\ phase' = blink

\* CellMirror.applyFrame: wipes, shifts and stores, without a check.
MirrorSymbol(f, src) ==
  IF f.codepoints[src + 1] = 0 THEN <<Space>>
  ELSE IF f.extra[src + 1] = 0 THEN <<f.codepoints[src + 1]>>
  ELSE <<f.codepoints[src + 1], f.sideTable[f.extra[src + 1]]>>
MirrorApply(m, f) ==
  LET held == IF SizeOf(m) = <<f.cols, f.rows>> THEN m ELSE NewMirror(<<f.cols, f.rows>>)
      wiped == IF f.kind = 0 THEN [i \in DOMAIN held.cells |-> <<Space>>] ELSE held.cells
      shifted == IF ScrollOf(f) = <<>> THEN wiped ELSE ShiftRegion(wiped, held.cols, f.scroll, <<Space>>)
      stored == FoldLeft(LAMBDA c, span :
                           [i \in DOMAIN c |->
                              LET x == i - (span.line * held.cols + span.left)
                              IN  IF x \in 0..(span.count - 1) THEN MirrorSymbol(f, span.offset + x) ELSE c[i]],
                         shifted, f.spans)
  IN  [held EXCEPT !.cells = stored]

-----------------------------------------------------------------------------
(* The widget: JustermRenderer.applyFrame and then the mirror, unless the   *)
(* renderer throws.                                                         *)

GridInit ==
  /\ \E size \in Sizes : /\ screen = BlankScreen(size) /\ grid = TryNew(size) /\ mirror = NewMirror(size)
                         /\ view = [frame |-> size, asked |-> size, believed |-> TRUE]
  /\ phase = TRUE /\ outcome = "applied" /\ whole = TRUE

OnFrame(f, blink) ==
  /\ ApplyDamage(f, blink)
  /\ IF outcome' = "applied"
       THEN /\ view' = [view EXCEPT !.frame = <<f.cols, f.rows>>, !.believed = blink]
            /\ mirror' = MirrorApply(mirror, f)
       ELSE UNCHANGED <<view, mirror>>

ScrollsOf(s) == {op \in Scrolls : op[1] < s.rows /\ op[2] < s.rows}
\* A Partial frame: a scroll and the rows it exposed, or a run.
SendPartial ==
  \E blink \in BOOLEAN :
    \/ \E op \in ScrollsOf(screen) :
         LET s == Scrolled(screen, op)
             exposed == SetToSortSeq(Exposed(op, SizeOf(screen)), <)
         IN  /\ screen' = s
             /\ OnFrame(FrameOf(SizeOf(s), 1, op,
                                [k \in DOMAIN exposed |-> <<exposed[k], 0, [x \in 1..s.cols |-> <<Space>>]>>]), blink)
    \/ \E i \in DOMAIN screen.cells, run \in Runs :
         /\ (i % screen.cols) + Len(run) <= screen.cols
         /\ screen' = [screen EXCEPT !.cells = [j \in DOMAIN @ |-> IF j \in i..(i + Len(run) - 1) THEN run[j - i + 1] ELSE @[j]]]
         /\ OnFrame(FrameOf(SizeOf(screen), 1, <<>>, << <<i \div screen.cols, i % screen.cols, run>> >>), blink)
\* A Full frame: every row that is not blank, and a scroll that is spent.
FullOf(s, op) ==
  LET Row(y) == [x \in 1..s.cols |-> s.cells[y * s.cols + x - 1]]
      rows == SetToSortSeq({y \in 0..(s.rows - 1) : \E x \in 1..s.cols : Row(y)[x] # <<Space>>}, <)
  IN  FrameOf(SizeOf(s), 0, op, [k \in DOMAIN rows |-> <<rows[k], 0, Row(rows[k])>>])
SendFull ==
  \E op \in ScrollsOf(screen) \cup {<<>>} : OnFrame(FullOf(screen, op), TRUE) /\ UNCHANGED screen
\* The host resizes: the size asked for moves first, the engine's frame follows later.
Ask == \E size \in Sizes : view' = [view EXCEPT !.asked = size] /\ UNCHANGED <<screen, grid, mirror, phase, outcome, whole>>
SendResized ==
  /\ view.asked # SizeOf(screen)
  /\ \E run \in Runs :
       LET s == [BlankScreen(view.asked) EXCEPT !.cells = [i \in DOMAIN @ |-> IF i < Len(run) THEN run[i + 1] ELSE @[i]]]
       IN  screen' = s /\ OnFrame(FullOf(s, <<>>), TRUE)

\* A caller's frame that names what is not there, after a span that does.
Malformed(size) ==
  LET good == FrameOf(size, 1, <<>>, << <<0, 0, << <<99>> >> >> >>)
      With(span) == [good EXCEPT !.spans = Append(@, span)]
      Span(line, left, offset, count) == [line |-> line, left |-> left, offset |-> offset, count |-> count]
  IN  {With(Span(size[2], 0, 0, 1)), With(Span(0, size[1], 0, 1)), With(Span(size[2] - 1, Word - 1, 0, 1)),
       With(Span(0, 0, 1, 1)), With(Span(0, 0, Word - 1, 1)), With(Span(0, 0, 0, Word - 1)),
       [good EXCEPT !.scroll = <<0, size[2], 1>>]}
SendMalformed == (\E size \in Sizes : \E f \in Malformed(size) : OnFrame(f, view.believed)) /\ UNCHANGED screen

\* repackAtTextBlinkPhase: a frame of no cells, for the size of the last one.
Phase ==
  \E on \in BOOLEAN :
    /\ on # view.believed /\ view.frame = view.asked
    /\ ApplyDamage(FrameOf(view.frame, 1, <<>>, <<>>), on)
    /\ view' = [view EXCEPT !.believed = on]
    /\ UNCHANGED <<screen, mirror>>

\* What a cell of the grid shows.
Shown(cell) == IF cell.cluster # <<>> THEN cell.cluster ELSE IF cell.cp = 0 THEN <<Space>> ELSE <<cell.cp>>

GridNext == SendPartial \/ SendFull \/ Ask \/ SendResized \/ SendMalformed \/ Phase

-----------------------------------------------------------------------------
\* Whatever frames came, whole or scrolled, and whatever was refused between
\* them, the renderer's grid and the mirror show the engine's screen, no index
\* leaves the grid, and the blink loop knows the phase that is packed.
FramesAreShown ==
  /\ outcome # "trapped"
  /\ view.believed = phase
  /\ SizeOf(mirror) = SizeOf(screen) /\ mirror.cells = screen.cells
  /\ whole => /\ SizeOf(grid) = SizeOf(screen)
              /\ \A i \in DOMAIN screen.cells : Shown(grid.cells[i]) = screen.cells[i]
=============================================================================
