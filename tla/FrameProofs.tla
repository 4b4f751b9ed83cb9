----------------------------- MODULE FrameProofs -----------------------------
(***************************************************************************)
(* Proofs about FrameStream, what is sent, for a screen and a history of     *)
(* any size, any margins, any counts and any number of verbs between two     *)
(* frames; and about RenderSurface, what is drawn with, for any fonts and    *)
(* densities and any number of terminals and losses.                        *)
(*                                                                         *)
(* FrameStream.  Between two acks a cell is either damaged or where the      *)
(* mirror will have it: at the same place, or as many rows away as the one   *)
(* scroll op says, inside its region (Faithful).  That is claimed only while *)
(* the frame is not Full and the view is at the bottom: every way back to    *)
(* the bottom makes the frame Full.  Follows carries this from a state to    *)
(* the next through each operator a verb is made of, together with what      *)
(* keeps a view scrolled into history still (Steady).                        *)
(*                                                                         *)
(* RenderSurface.  The tables stay in order (Tables) and count the holders   *)
(* of a configuration (Booked) through every operation, also one that fails. *)
(* While a frame could be drawn, everything in them is of the context that   *)
(* is there (Drawn) and every terminal stands on its cells (Placed); a build *)
(* that failed, a loss and a disposal are what these may be missing after    *)
(* (SurfaceInv).  Carries says that a call of the host keeps this.           *)
(***************************************************************************)
EXTENDS FrameStream, RenderSurface, Iteration, FiniteSetTheorems, FunctionTheorems, SequenceTheorems

Spans == [left : 0..Cols, right : ColIds]
ScrollOps == [top : RowIds, bottom : RowIds, count : Int]
State ==
  [grid : [RowIds -> RowType], other : [RowIds -> RowType], hist : Seq(RowType), offset : Nat,
   alt : BOOLEAN, top : RowIds, bottom : RowIds, row : RowIds, col : ColIds, pend : BOOLEAN,
   damage : [RowIds -> Spans], scroll : SUBSET ScrollOps, full : BOOLEAN]
Flags == [RowIds -> BOOLEAN]

Sane(s) ==
  /\ s \in State
  /\ Len(s.hist) <= Limit /\ s.offset <= Len(s.hist) /\ s.top <= s.bottom
  /\ s.scroll = {} \/ \E op \in ScrollOps : s.scroll = {op}

Damaged(s, r, c) == s.damage[r].left <= c /\ c <= s.damage[r].right

\* Row r of the screen is row q of the mirror, moved.
From(s, r, q) ==
  /\ s.scroll = {} => q = r
  /\ \A op \in s.scroll : IF r \in op.top..op.bottom THEN q \in op.top..op.bottom /\ q = r + op.count ELSE q = r

\* Where no damage is, the mirror of wrap flags m will have the cell, and a row's flag with its last one.
Faithful(s, m) ==
  \A r \in RowIds, c \in ColIds : ~Damaged(s, r, c) =>
    \E q \in RowIds : /\ From(s, r, q) /\ s.grid[r].cells[c] = At(q, c)
                      /\ c = Cols - 1 => s.grid[r].wrapped = m[q]

Good(s, m) == s.full \/ s.offset > 0 \/ Faithful(s, m)

\* A scrolled-up view stays on its lines unless the frame is Full, and Full it stays.
SameLines(s, z) ==
  /\ z.offset > 0 /\ Len(z.hist) - z.offset = Len(s.hist) - s.offset /\ Len(s.hist) <= Len(z.hist)
  /\ \A i \in 1..Len(s.hist) : z.hist[i].cells = s.hist[i].cells
Steady(s, z) == (s.full => z.full) /\ (z.full \/ s.offset = 0 \/ SameLines(s, z))

Follows(s, z, m) == Sane(z) /\ (Good(s, m) => Good(z, m)) /\ Steady(s, z)

Inv == Sane(t) /\ mirrorWraps \in Flags /\ Good(t, mirrorWraps) /\ ops \in 0..MaxOps

-----------------------------------------------------------------------------
(* The screen.                                                               *)

LEMMA Sizes ==
  /\ Rows \in Nat /\ Rows > 0 /\ Cols \in Nat /\ Cols > 0 /\ Limit \in Nat
  /\ RowIds \subseteq Nat /\ ColIds \subseteq Nat /\ 0 \in RowIds /\ Rows - 1 \in RowIds
  /\ 0 \in ColIds /\ Cols - 1 \in ColIds /\ Cols - 1 >= 0
  /\ \A r : r \in RowIds <=> r \in Int /\ 0 <= r /\ r < Rows
  /\ \A c : c \in ColIds <=> c \in Int /\ 0 <= c /\ c < Cols
  BY FrameAssumption DEF RowIds, ColIds

LEMMA AtIs ==
  ASSUME NEW r \in RowIds, NEW c \in ColIds
  PROVE  At(r, c) \in Tags
  <1>1. r \in Nat /\ c \in Nat /\ c < Cols /\ Rows \in Nat /\ Cols \in Nat /\ Rows - 1 - r \in Nat
    BY Sizes
  <1>2. PICK d \in Nat : d = Rows - 1 - r
    BY <1>1
  <1>3. d * Cols >= 0 /\ r * Cols >= 0 /\ d * Cols \in Int /\ r * Cols \in Int
    BY <1>1, <1>2
  <1>4. Rows = r + d + 1
    BY <1>1, <1>2
  <1>5. Rows * Cols = r * Cols + d * Cols + Cols
    BY <1>1, <1>2, <1>4
  <1>6. QED
    BY <1>1, <1>3, <1>5 DEF At, Tags, Fresh

LEMMA FreshIs == Fresh \in Tags /\ BlankRow \in RowType /\ BlankGrid \in [RowIds -> RowType]
  <1>1. Fresh \in Nat
    BY Sizes DEF Fresh
  <1>2. Fresh \in Tags
    BY <1>1 DEF Tags
  <1>3. BlankRow \in RowType
    BY <1>2 DEF BlankRow, Row, RowType
  <1>4. QED
    BY <1>2, <1>3 DEF BlankGrid

LEMMA DamageIs == Undamaged \in Spans /\ FullyDamaged \in Spans
  BY Sizes DEF Undamaged, FullyDamaged, Spans

LEMMA RowIs ==
  ASSUME NEW line \in RowType
  PROVE  line.cells \in [ColIds -> Tags] /\ line.wrapped \in BOOLEAN
  BY DEF RowType

-----------------------------------------------------------------------------
(* Following a state, through the operators a verb is made of.               *)

LEMMA FollowsItself ==
  ASSUME NEW m, NEW s, Sane(s)
  PROVE  Follows(s, s, m)
  <1>1. s.hist \in Seq(RowType) /\ s.offset \in Nat
    BY DEF Sane, State
  <1>2. QED
    BY <1>1 DEF Follows, Steady, SameLines

LEMMA FollowsOn ==
  ASSUME NEW m, NEW s, NEW y, NEW z, Sane(s), Follows(s, y, m), Follows(y, z, m)
  PROVE  Follows(s, z, m)
  <1>1. /\ s.offset \in Nat /\ y.offset \in Nat /\ z.offset \in Nat
        /\ Len(s.hist) \in Nat /\ Len(y.hist) \in Nat /\ Len(z.hist) \in Nat
    BY DEF Follows, Sane, State
  <1>2. CASE z.full
    BY <1>2 DEF Follows, Steady, Good
  <1>3. CASE ~z.full
    <2>1. ~y.full /\ ~s.full
      BY <1>3 DEF Follows, Steady
    <2>2. s.offset = 0 \/ SameLines(s, y)
      BY <2>1 DEF Follows, Steady
    <2>3. CASE SameLines(s, y)
      <3>1. SameLines(y, z)
        BY <1>1, <1>3, <2>3 DEF Follows, Steady, SameLines
      <3>2. \A i \in 1..Len(s.hist) : i \in 1..Len(y.hist)
        BY <1>1, <2>3 DEF SameLines
      <3>3. SameLines(s, z)
        BY <1>1, <2>3, <3>1, <3>2 DEF SameLines
      <3>4. QED
        BY <2>1, <3>3 DEF Follows, Steady
    <2>4. QED
      BY <2>1, <2>2, <2>3 DEF Follows, Steady
  <1>4. QED
    BY <1>2, <1>3

\* A frame that is Full carries every cell.
LEMMA FullFollows ==
  ASSUME NEW m, NEW s, NEW z, Sane(z), z.full
  PROVE  Follows(s, z, m)
  BY DEF Follows, Steady, Good

\* What moves the cursor or the margins changes no cell.
LEMMA CursorFollows ==
  ASSUME NEW m, NEW s, NEW z, Sane(s), Sane(z), z.grid = s.grid, z.hist = s.hist, z.offset = s.offset,
         z.damage = s.damage, z.scroll = s.scroll, z.full = s.full
  PROVE  Follows(s, z, m)
  <1>1. s.hist \in Seq(RowType) /\ s.offset \in Nat
    BY DEF Sane, State
  <1>2. Faithful(s, m) => Faithful(z, m)
    BY DEF Faithful, Damaged, From
  <1>3. QED
    BY <1>1, <1>2 DEF Follows, Steady, SameLines, Good

(* One row written, inside the span that is recorded for it.                 *)
Hull(span, left, right) == [left |-> Lesser(span.left, left), right |-> Greater(span.right, right)]
Painted(s, row, line, left, right) ==
  [s EXCEPT !.grid = [s.grid EXCEPT ![row] = line],
            !.damage = [s.damage EXCEPT ![row] = Hull(s.damage[row], left, right)]]

LEMMA PaintedIs ==
  ASSUME NEW s, Sane(s), NEW row \in RowIds, NEW line \in RowType, NEW left \in ColIds, NEW right \in ColIds
  PROVE  LET z == Painted(s, row, line, left, right)
         IN  /\ Sane(z) /\ z.hist = s.hist /\ z.offset = s.offset /\ z.scroll = s.scroll /\ z.full = s.full
             /\ z.row = s.row /\ z.col = s.col /\ z.alt = s.alt /\ z.pend = s.pend /\ z.top = s.top /\ z.bottom = s.bottom
             /\ z.grid = [s.grid EXCEPT ![row] = line]
             /\ z.damage = [s.damage EXCEPT ![row] = Hull(s.damage[row], left, right)]
             /\ s.damage[row].left \in Nat /\ s.damage[row].right \in Nat
  <1> DEFINE z == Painted(s, row, line, left, right)
  <1>1. s \in State
    BY DEF Sane
  <1>2. s.damage[row] \in Spans /\ s.damage[row].left \in 0..Cols /\ s.damage[row].right \in ColIds
    BY <1>1 DEF State, Spans
  <1>3. Hull(s.damage[row], left, right) \in Spans
    BY <1>2, Sizes DEF Hull, Spans, Lesser, Greater
  <1>4. /\ z.hist = s.hist /\ z.offset = s.offset /\ z.scroll = s.scroll /\ z.full = s.full
        /\ z.row = s.row /\ z.col = s.col /\ z.alt = s.alt /\ z.pend = s.pend /\ z.top = s.top /\ z.bottom = s.bottom
        /\ z.grid = [s.grid EXCEPT ![row] = line]
        /\ z.damage = [s.damage EXCEPT ![row] = Hull(s.damage[row], left, right)]
    BY <1>1 DEF State, Painted
  <1>5. z.grid \in [RowIds -> RowType] /\ z.damage \in [RowIds -> Spans]
    BY <1>1, <1>3, <1>4 DEF State
  <1>6. z \in State
    BY <1>1, <1>3 DEF State, Painted
  <1>7. QED
    BY <1>2, <1>4, <1>6, Sizes DEF Sane

LEMMA PaintedFollows ==
  ASSUME NEW m, NEW s, Sane(s), NEW row \in RowIds, NEW line \in RowType, NEW left \in ColIds, NEW right \in ColIds,
         \A c \in ColIds : c < left \/ c > right => line.cells[c] = s.grid[row].cells[c],
         right = Cols - 1 \/ line.wrapped = s.grid[row].wrapped
  PROVE  Follows(s, Painted(s, row, line, left, right), m)
  <1> DEFINE z == Painted(s, row, line, left, right)
  <1>1. /\ Sane(z) /\ z.hist = s.hist /\ z.offset = s.offset /\ z.scroll = s.scroll /\ z.full = s.full
        /\ z.grid = [s.grid EXCEPT ![row] = line]
        /\ z.damage = [s.damage EXCEPT ![row] = Hull(s.damage[row], left, right)]
        /\ s.damage[row].left \in Nat /\ s.damage[row].right \in Nat
    BY PaintedIs
  <1>2. /\ s.grid \in [RowIds -> RowType] /\ s.damage \in [RowIds -> Spans] /\ s.hist \in Seq(RowType) /\ s.offset \in Nat
    BY DEF Sane, State
  <1> HIDE DEF z
  <1>3. \A r \in RowIds : r # row => z.grid[r] = s.grid[r] /\ z.damage[r] = s.damage[r]
    BY <1>1, <1>2
  <1>4. z.grid[row] = line /\ z.damage[row] = Hull(s.damage[row], left, right)
    BY <1>1, <1>2
  <1>5. ASSUME NEW c \in ColIds, ~Damaged(z, row, c)
        PROVE  /\ ~Damaged(s, row, c) /\ line.cells[c] = s.grid[row].cells[c]
               /\ c = Cols - 1 => line.wrapped = s.grid[row].wrapped
    <2>1. c \in Nat /\ left \in Nat /\ right \in Nat /\ Cols \in Nat /\ left < Cols
      BY Sizes
    <2>2. ~(Lesser(s.damage[row].left, left) <= c /\ c <= Greater(s.damage[row].right, right))
      BY <1>4, <1>5 DEF Damaged, Hull
    <2>3. ~Damaged(s, row, c) /\ (c < left \/ c > right)
      BY <1>1, <2>1, <2>2 DEF Damaged, Lesser, Greater
    <2>4. QED
      BY <2>1, <2>3
  <1>6. ASSUME Faithful(s, m) PROVE Faithful(z, m)
    <2> SUFFICES ASSUME NEW r \in RowIds, NEW c \in ColIds, ~Damaged(z, r, c)
                 PROVE  \E q \in RowIds : /\ From(z, r, q) /\ z.grid[r].cells[c] = At(q, c)
                                          /\ c = Cols - 1 => z.grid[r].wrapped = m[q]
      BY DEF Faithful
    <2>1. ~Damaged(s, r, c) /\ z.grid[r].cells[c] = s.grid[r].cells[c]
          /\ (c = Cols - 1 => z.grid[r].wrapped = s.grid[r].wrapped)
      BY <1>3, <1>4, <1>5 DEF Damaged
    <2>2. PICK q \in RowIds : /\ From(s, r, q) /\ s.grid[r].cells[c] = At(q, c)
                              /\ c = Cols - 1 => s.grid[r].wrapped = m[q]
      BY <1>6, <2>1 DEF Faithful
    <2>3. From(z, r, q)
      BY <1>1, <2>2 DEF From
    <2>4. QED
      BY <2>1, <2>2, <2>3
  <1>7. Follows(s, z, m)
    BY <1>1, <1>2, <1>6 DEF Follows, Steady, SameLines, Good
  <1>8. QED
    BY <1>7 DEF z

LEMMA DamageSpanIs ==
  ASSUME NEW s, Sane(s), NEW row \in RowIds, NEW line \in RowType, NEW left \in ColIds, NEW right \in ColIds
  PROVE  DamageSpan([s EXCEPT !.grid = [s.grid EXCEPT ![row] = line]], row, left, right)
         = Painted(s, row, line, left, right)
  <1>1. s \in State
    BY DEF Sane
  <1> DEFINE y == [s EXCEPT !.grid = [s.grid EXCEPT ![row] = line]]
  <1>2. y.damage = s.damage
    BY <1>1 DEF State
  <1>3. DamageSpan(y, row, left, right)
        = [y EXCEPT !.damage = [y.damage EXCEPT ![row] = Hull(y.damage[row], left, right)]]
    BY <1>1, <1>2 DEF State, DamageSpan, Hull
  <1>4. QED
    BY <1>1, <1>2, <1>3 DEF State, Painted

LEMMA SetWrapIs ==
  ASSUME NEW m, NEW s, Sane(s), NEW row \in RowIds, NEW wrapped \in BOOLEAN
  PROVE  /\ Follows(s, SetWrap(s, row, wrapped), m)
         /\ SetWrap(s, row, wrapped) = Painted(s, row, [s.grid[row] EXCEPT !.wrapped = wrapped], Cols - 1, Cols - 1)
  <1> DEFINE line == [s.grid[row] EXCEPT !.wrapped = wrapped]
  <1>1. s \in State /\ s.grid[row] \in RowType
    BY DEF Sane, State
  <1>2. line \in RowType /\ line.cells = s.grid[row].cells
    BY <1>1 DEF RowType
  <1>3. [s EXCEPT !.grid[row].wrapped = wrapped] = [s EXCEPT !.grid = [s.grid EXCEPT ![row] = line]]
    BY <1>1 DEF State
  <1>4. SetWrap(s, row, wrapped) = DamageSpan([s EXCEPT !.grid = [s.grid EXCEPT ![row] = line]], row, Cols - 1, Cols - 1)
    BY <1>3 DEF SetWrap
  <1> HIDE DEF line
  <1>5. SetWrap(s, row, wrapped) = Painted(s, row, line, Cols - 1, Cols - 1)
    BY <1>2, <1>4, DamageSpanIs, Sizes
  <1>6. Follows(s, Painted(s, row, line, Cols - 1, Cols - 1), m)
    BY <1>2, PaintedFollows, Sizes
  <1>7. QED
    BY <1>5, <1>6 DEF line

LEMMA EndWrapFollows ==
  ASSUME NEW m, NEW s, Sane(s), NEW row \in RowIds
  PROVE  Follows(s, EndWrap(s, row), m)
  BY SetWrapIs DEF EndWrap

LEMMA ClearCellsFollows ==
  ASSUME NEW m, NEW s, Sane(s), NEW row \in RowIds, NEW from \in Nat, NEW to \in 0..Cols
  PROVE  Follows(s, ClearCells(s, row, from, to), m)
  <1>1. CASE from >= to
    BY <1>1, FollowsItself DEF ClearCells
  <1>2. CASE ~(from >= to)
    <2> DEFINE cells == [c \in ColIds |-> IF c \in from..to - 1 THEN Fresh ELSE s.grid[row].cells[c]]
               line == [s.grid[row] EXCEPT !.cells = cells]
    <2>1. s \in State /\ s.grid[row] \in RowType
      BY DEF Sane, State
    <2>2. cells \in [ColIds -> Tags]
      BY <2>1, RowIs, FreshIs
    <2>3. line \in RowType /\ line.cells = cells /\ line.wrapped = s.grid[row].wrapped
      BY <2>1, <2>2 DEF RowType
    <2>4. [s EXCEPT !.grid[row].cells = cells] = [s EXCEPT !.grid = [s.grid EXCEPT ![row] = line]]
      BY <2>1 DEF State
    <2>5. ClearCells(s, row, from, to) = DamageSpan([s EXCEPT !.grid = [s.grid EXCEPT ![row] = line]], row, from, to - 1)
      BY <1>2, <2>4 DEF ClearCells
    <2>6. \A c \in ColIds : c < from \/ c > to - 1 => line.cells[c] = s.grid[row].cells[c]
      BY <2>3, Sizes
    <2>7. from \in ColIds /\ to - 1 \in ColIds
      BY <1>2, Sizes
    <2> HIDE DEF line
    <2>8. ClearCells(s, row, from, to) = Painted(s, row, line, from, to - 1)
      BY <2>3, <2>5, <2>7, DamageSpanIs
    <2>9. Follows(s, Painted(s, row, line, from, to - 1), m)
      BY <2>3, <2>6, <2>7, PaintedFollows
    <2>10. QED
      BY <2>8, <2>9
  <1>3. QED
    BY <1>1, <1>2

LEMMA ShiftCellsFollows ==
  ASSUME NEW m, NEW s, Sane(s), NEW n \in Int
  PROVE  Follows(s, ShiftCells(s, n), m)
  <1> DEFINE cells == [c \in ColIds |-> IF c < s.col THEN s.grid[s.row].cells[c]
                                        ELSE IF c + n \in s.col..Cols - 1 THEN s.grid[s.row].cells[c + n]
                                        ELSE Fresh]
             line == [s.grid[s.row] EXCEPT !.cells = cells]
  <1>1. s \in State /\ s.row \in RowIds /\ s.col \in ColIds /\ s.grid[s.row] \in RowType
    BY DEF Sane, State
  <1>2. cells \in [ColIds -> Tags]
    <2>1. \A c \in ColIds : c + n \in s.col..Cols - 1 => c + n \in ColIds
      BY <1>1, Sizes
    <2>2. QED
      BY <1>1, <2>1, RowIs, FreshIs
  <1>3. line \in RowType /\ line.cells = cells /\ line.wrapped = s.grid[s.row].wrapped
    BY <1>1, <1>2 DEF RowType
  <1>4. [s EXCEPT !.grid[s.row].cells = cells] = [s EXCEPT !.grid = [s.grid EXCEPT ![s.row] = line]]
    BY <1>1 DEF State
  <1>5. ShiftCells(s, n) = DamageSpan([s EXCEPT !.grid = [s.grid EXCEPT ![s.row] = line]], s.row, s.col, Cols - 1)
    BY <1>4 DEF ShiftCells
  <1>6. \A c \in ColIds : c < s.col \/ c > Cols - 1 => line.cells[c] = s.grid[s.row].cells[c]
    BY <1>3, Sizes
  <1> HIDE DEF line
  <1>7. ShiftCells(s, n) = Painted(s, s.row, line, s.col, Cols - 1)
    <2>1. PICK row \in RowIds, col \in ColIds : row = s.row /\ col = s.col
      BY <1>1
    <2>2. Cols - 1 \in ColIds
      BY Sizes
    <2>3. DamageSpan([s EXCEPT !.grid = [s.grid EXCEPT ![row] = line]], row, col, Cols - 1)
          = Painted(s, row, line, col, Cols - 1)
      BY <1>3, <2>2, DamageSpanIs
    <2>4. QED
      BY <1>5, <2>1, <2>3
  <1>8. Follows(s, Painted(s, s.row, line, s.col, Cols - 1), m)
    BY <1>1, <1>3, <1>6, PaintedFollows, Sizes
  <1>9. QED
    BY <1>7, <1>8

LEMMA EraseRowsFollows ==
  ASSUME NEW m, NEW s, Sane(s), NEW from, NEW to
  PROVE  Follows(s, EraseRows(s, from, to), m)
  <1> DEFINE z == EraseRows(s, from, to)
  <1>1. s \in State
    BY DEF Sane
  <1>2. /\ z.hist = s.hist /\ z.offset = s.offset /\ z.scroll = s.scroll /\ z.full = s.full
        /\ z.top = s.top /\ z.bottom = s.bottom
        /\ z.grid = [r \in RowIds |-> IF r \in from..to THEN BlankRow ELSE s.grid[r]]
        /\ z.damage = [r \in RowIds |-> IF r \in from..to THEN FullyDamaged ELSE s.damage[r]]
    BY <1>1 DEF State, EraseRows
  <1>3. z.grid \in [RowIds -> RowType] /\ z.damage \in [RowIds -> Spans]
    BY <1>1, <1>2, FreshIs, DamageIs DEF State
  <1>4. z \in State
    <2>1. PICK grid \in [RowIds -> RowType] : grid = z.grid
      BY <1>3
    <2>2. PICK damage \in [RowIds -> Spans] : damage = z.damage
      BY <1>3
    <2>3. z = [s EXCEPT !.grid = grid, !.damage = damage]
      BY <1>1, <1>2, <2>1, <2>2 DEF EraseRows, State
    <2> HIDE DEF z
    <2>4. QED
      BY <1>1, <2>3 DEF State
  <1> HIDE DEF z
  <1>5. Sane(z)
    BY <1>2, <1>4 DEF Sane
  <1>6. ASSUME Faithful(s, m) PROVE Faithful(z, m)
    <2> SUFFICES ASSUME NEW r \in RowIds, NEW c \in ColIds, ~Damaged(z, r, c)
                 PROVE  \E q \in RowIds : /\ From(z, r, q) /\ z.grid[r].cells[c] = At(q, c)
                                          /\ c = Cols - 1 => z.grid[r].wrapped = m[q]
      BY DEF Faithful
    <2>1. r \notin from..to
      BY <1>2, Sizes DEF Damaged, FullyDamaged
    <2>2. ~Damaged(s, r, c) /\ z.grid[r] = s.grid[r]
      BY <1>2, <2>1 DEF Damaged
    <2>3. QED
      BY <1>2, <1>6, <2>2 DEF Faithful, From
  <1>7. Follows(s, z, m)
    BY <1>1, <1>2, <1>5, <1>6 DEF Follows, Steady, SameLines, Good, State
  <1>8. QED
    BY <1>7 DEF z

(* Rows moved by one inside a region, with the damage and the scroll op.     *)

\* The row a row comes from.
Before(r, down) == IF down THEN r - 1 ELSE r + 1
Exposed(top, bottom, down) == IF down THEN top ELSE bottom

Turned(g, f, top, bottom, down, x) ==
  \A r \in RowIds :
    /\ r \notin top..bottom => g[r] = f[r]
    /\ r \in top..bottom /\ r = Exposed(top, bottom, down) => g[r] = x
    /\ r \in top..bottom /\ r # Exposed(top, bottom, down) =>
         Before(r, down) \in RowIds /\ Before(r, down) \in top..bottom /\ g[r] = f[Before(r, down)]

LEMMA TurnedIs ==
  ASSUME NEW f, NEW x, NEW top \in RowIds, NEW bottom \in RowIds, NEW down \in BOOLEAN
  PROVE  Turned(Rotated(f, top, bottom, down, x), f, top, bottom, down, x)
  <1>1. \A r \in RowIds : r \in top..bottom /\ r # Exposed(top, bottom, down) =>
          Before(r, down) \in RowIds /\ Before(r, down) \in top..bottom
    BY Sizes DEF Before, Exposed
  <1>2. \A r \in RowIds :
          /\ r \notin top..bottom => Rotated(f, top, bottom, down, x)[r] = f[r]
          /\ r \in top..bottom /\ r = Exposed(top, bottom, down) => Rotated(f, top, bottom, down, x)[r] = x
          /\ r \in top..bottom /\ r # Exposed(top, bottom, down) =>
               Rotated(f, top, bottom, down, x)[r] = f[Before(r, down)]
    BY DEF Rotated, Before, Exposed
  <1>3. QED
    BY <1>1, <1>2 DEF Turned

LEMMA RotatedIs ==
  ASSUME NEW S, NEW f \in [RowIds -> S], NEW x \in S, NEW top \in RowIds, NEW bottom \in RowIds, NEW down \in BOOLEAN
  PROVE  Rotated(f, top, bottom, down, x) \in [RowIds -> S]
  <1>1. Turned(Rotated(f, top, bottom, down, x), f, top, bottom, down, x)
    BY TurnedIs
  <1>2. \A r \in RowIds : Rotated(f, top, bottom, down, x)[r] \in S
    BY <1>1 DEF Turned
  <1>3. QED
    BY <1>2 DEF Rotated

Scrolled(s, top, bottom, down) ==
  RecordScroll([s EXCEPT !.grid = Rotated(s.grid, top, bottom, down, BlankRow)], top, bottom, down)

\* The op of the frame after one more shift of the region.
Adds(s, op, top, bottom, down) ==
  /\ op \in ScrollOps /\ op.top = top /\ op.bottom = bottom
  /\ \/ s.scroll = {} /\ op.count = (IF down THEN -1 ELSE 1)
     \/ \E old \in ScrollOps : /\ s.scroll = {old} /\ old.top = top /\ old.bottom = bottom
                               /\ op.count = old.count + (IF down THEN -1 ELSE 1)

LEMMA ScrolledIs ==
  ASSUME NEW s, Sane(s), NEW top \in RowIds, NEW bottom \in RowIds, NEW down \in BOOLEAN
  PROVE  LET z == Scrolled(s, top, bottom, down)
         IN  /\ Sane(z) /\ z.hist = s.hist /\ z.offset = s.offset /\ z.alt = s.alt
             /\ s.full => z.full
             /\ \/ z.full
                \/ /\ z.grid = Rotated(s.grid, top, bottom, down, BlankRow)
                   /\ z.damage = Rotated(s.damage, top, bottom, down, FullyDamaged)
                   /\ \E op : z.scroll = {op} /\ Adds(s, op, top, bottom, down)
  <1> DEFINE z == Scrolled(s, top, bottom, down)
             count == IF down THEN -1 ELSE 1
             op == [top |-> top, bottom |-> bottom, count |-> count]
  <1>1. s \in State /\ s.scroll \subseteq ScrollOps
    BY DEF Sane, State
  <1>2. PICK grid \in [RowIds -> RowType] : grid = Rotated(s.grid, top, bottom, down, BlankRow)
    BY <1>1, RotatedIs, FreshIs DEF State
  <1>3. PICK damage \in [RowIds -> Spans] : damage = Rotated(s.damage, top, bottom, down, FullyDamaged)
    BY <1>1, RotatedIs, DamageIs DEF State
  <1> DEFINE y == [s EXCEPT !.grid = grid]
             moved == [y EXCEPT !.damage = damage]
  <1>4. y \in State /\ y.damage = s.damage /\ y.scroll = s.scroll
    BY <1>1 DEF State
  <1>5. z = IF y.scroll = {} THEN [moved EXCEPT !.scroll = {op}]
            ELSE LET old == CHOOSE o \in y.scroll : TRUE
                 IN  IF old.top = top /\ old.bottom = bottom
                     THEN [moved EXCEPT !.scroll = {[old EXCEPT !.count = old.count + count]}]
                     ELSE MarkFullyDamaged([moved EXCEPT !.scroll = {}])
    BY <1>2, <1>3, <1>4 DEF Scrolled, RecordScroll
  <1>6. /\ moved \in State /\ moved.grid = grid /\ moved.damage = damage /\ moved.hist = s.hist /\ moved.offset = s.offset
        /\ moved.alt = s.alt /\ moved.full = s.full /\ moved.scroll = s.scroll
        /\ moved.top = s.top /\ moved.bottom = s.bottom
    BY <1>1 DEF State
  <1>7. count \in Int /\ op \in ScrollOps
    BY DEF ScrollOps
  <1> HIDE DEF z, y, moved
  <1>8. ASSUME NEW new \in ScrollOps, z = [moved EXCEPT !.scroll = {new}]
        PROVE  /\ Sane(z) /\ z.hist = s.hist /\ z.offset = s.offset /\ z.alt = s.alt /\ z.full = s.full
               /\ z.grid = grid /\ z.damage = damage /\ z.scroll = {new}
    <2>1. {new} \subseteq ScrollOps
      BY <1>8
    <2>2. /\ z \in State /\ z.hist = s.hist /\ z.offset = s.offset /\ z.alt = s.alt /\ z.full = s.full
          /\ z.grid = grid /\ z.damage = damage /\ z.scroll = {new} /\ z.top = s.top /\ z.bottom = s.bottom
      BY <1>6, <1>8, <2>1 DEF State
    <2>3. QED
      BY <2>2 DEF Sane
  <1>9. CASE s.scroll = {}
    <2>1. z = [moved EXCEPT !.scroll = {op}]
      BY <1>4, <1>5, <1>9
    <2>2. Adds(s, op, top, bottom, down)
      BY <1>7, <1>9 DEF Adds
    <2> HIDE DEF op
    <2>3. QED
      BY <1>2, <1>3, <1>7, <1>8, <2>1, <2>2 DEF z
  <1>10. ASSUME NEW old \in ScrollOps, s.scroll = {old}
         PROVE  /\ Sane(z) /\ z.hist = s.hist /\ z.offset = s.offset /\ z.alt = s.alt
                /\ s.full => z.full
                /\ \/ z.full
                   \/ /\ z.grid = grid /\ z.damage = damage
                      /\ \E new : z.scroll = {new} /\ Adds(s, new, top, bottom, down)
    <2>1. (CHOOSE o \in y.scroll : TRUE) = old /\ y.scroll # {}
      BY <1>4, <1>10
    <2>2. CASE old.top = top /\ old.bottom = bottom
      <3>1. PICK new : new = [old EXCEPT !.count = old.count + count]
        OBVIOUS
      <3>2. new \in ScrollOps /\ new.top = top /\ new.bottom = bottom /\ new.count = old.count + count
        BY <1>7, <2>2, <3>1 DEF ScrollOps
      <3>3. z = [moved EXCEPT !.scroll = {new}]
        BY <1>5, <2>1, <2>2, <3>1
      <3>4. Adds(s, new, top, bottom, down)
        BY <1>10, <2>2, <3>2 DEF Adds
      <3>5. QED
        BY <1>8, <3>2, <3>3, <3>4
    <2>3. CASE ~(old.top = top /\ old.bottom = bottom)
      <3>1. z = MarkFullyDamaged([moved EXCEPT !.scroll = {}])
        BY <1>5, <2>1, <2>3
      <3>2. /\ z \in State /\ z.hist = s.hist /\ z.offset = s.offset /\ z.alt = s.alt /\ z.full /\ z.scroll = {}
            /\ z.top = s.top /\ z.bottom = s.bottom
        BY <1>6, <3>1 DEF State, MarkFullyDamaged
      <3>3. QED
        BY <3>2 DEF Sane
    <2>4. QED
      BY <2>2, <2>3
  <1>11. QED
    BY <1>2, <1>3, <1>9, <1>10 DEF Sane, z

LEMMA ScrolledFollows ==
  ASSUME NEW m, NEW s, Sane(s), NEW top \in RowIds, NEW bottom \in RowIds, NEW down \in BOOLEAN
  PROVE  Follows(s, Scrolled(s, top, bottom, down), m)
  <1>1. PICK z : z = Scrolled(s, top, bottom, down)
    OBVIOUS
  <1>2. /\ Sane(z) /\ z.hist = s.hist /\ z.offset = s.offset
        /\ s.full => z.full
        /\ \/ z.full
           \/ /\ z.grid = Rotated(s.grid, top, bottom, down, BlankRow)
              /\ z.damage = Rotated(s.damage, top, bottom, down, FullyDamaged)
              /\ \E op : z.scroll = {op} /\ Adds(s, op, top, bottom, down)
    BY <1>1, ScrolledIs
  <1>3. s \in State
    BY DEF Sane
  <1>4. CASE z.full
    BY <1>1, <1>2, <1>4, FullFollows
  <1>5. CASE ~z.full
    <2>1. PICK op : z.scroll = {op} /\ Adds(s, op, top, bottom, down)
      BY <1>2, <1>5
    <2>2. /\ op.top = top /\ op.bottom = bottom /\ op.count \in Int
          /\ z.grid = Rotated(s.grid, top, bottom, down, BlankRow)
          /\ z.damage = Rotated(s.damage, top, bottom, down, FullyDamaged)
      BY <1>2, <1>5, <2>1 DEF Adds, ScrollOps
    <2>3. ASSUME Faithful(s, m) PROVE Faithful(z, m)
      <3> SUFFICES ASSUME NEW r \in RowIds, NEW c \in ColIds, ~Damaged(z, r, c)
                   PROVE  \E q \in RowIds : /\ From(z, r, q) /\ z.grid[r].cells[c] = At(q, c)
                                            /\ c = Cols - 1 => z.grid[r].wrapped = m[q]
        BY DEF Faithful
      <3>1. PICK grid \in [RowIds -> RowType], damage \in [RowIds -> Spans] : grid = s.grid /\ damage = s.damage
        BY <1>3 DEF State
      <3>2. Turned(z.grid, grid, top, bottom, down, BlankRow)
        BY <2>2, <3>1, TurnedIs
      <3>3. Turned(z.damage, damage, top, bottom, down, FullyDamaged)
        BY <2>2, <3>1, TurnedIs
      <3>4. CASE r \notin top..bottom
        <4>1. z.grid[r] = s.grid[r] /\ z.damage[r] = s.damage[r]
          BY <3>1, <3>2, <3>3, <3>4 DEF Turned
        <4>2. PICK q \in RowIds : /\ From(s, r, q) /\ s.grid[r].cells[c] = At(q, c)
                                  /\ c = Cols - 1 => s.grid[r].wrapped = m[q]
          BY <2>3, <4>1 DEF Faithful, Damaged
        <4>3. q = r
          BY <2>1, <3>4, <4>2 DEF Adds, From
        <4>4. From(z, r, q)
          BY <2>1, <2>2, <3>4, <4>3 DEF From
        <4>5. QED
          BY <4>1, <4>2, <4>4
      <3>5. CASE r \in top..bottom /\ r = Exposed(top, bottom, down)
        <4>1. z.damage[r] = FullyDamaged
          BY <3>1, <3>3, <3>5 DEF Turned
        <4>2. QED
          BY <4>1, Sizes DEF Damaged, FullyDamaged
      <3>6. CASE r \in top..bottom /\ r # Exposed(top, bottom, down)
        <4>1. PICK p \in RowIds : p = Before(r, down) /\ p \in top..bottom
          BY <3>2, <3>6 DEF Turned
        <4>2. z.grid[r] = s.grid[p]
          BY <3>1, <3>2, <3>6, <4>1 DEF Turned
        <4>3. z.damage[r] = s.damage[p]
          BY <3>1, <3>3, <3>6, <4>1 DEF Turned
        <4>4. PICK q \in RowIds : /\ From(s, p, q) /\ s.grid[p].cells[c] = At(q, c)
                                  /\ c = Cols - 1 => s.grid[p].wrapped = m[q]
          BY <2>3, <4>3 DEF Faithful, Damaged
        <4>5. r \in Int /\ p = r + (IF down THEN -1 ELSE 1)
          BY <4>1, Sizes DEF Before
        <4>6. q \in top..bottom /\ q = r + op.count
          <5>1. CASE s.scroll = {} /\ op.count = (IF down THEN -1 ELSE 1)
            BY <4>1, <4>4, <4>5, <5>1 DEF From
          <5>2. ASSUME NEW old \in ScrollOps, s.scroll = {old}, old.top = top, old.bottom = bottom,
                       op.count = old.count + (IF down THEN -1 ELSE 1)
                PROVE  q \in top..bottom /\ q = r + op.count
            <6>1. q \in top..bottom /\ q = p + old.count
              BY <4>1, <4>4, <5>2 DEF From
            <6>2. old.count \in Int
              BY DEF ScrollOps
            <6>3. QED
              BY <4>5, <5>2, <6>1, <6>2
          <5>3. QED
            BY <2>1, <5>1, <5>2 DEF Adds
        <4>7. From(z, r, q)
          BY <2>1, <2>2, <3>6, <4>6 DEF From
        <4>8. QED
          BY <4>2, <4>4, <4>7
      <3>7. QED
        BY <3>4, <3>5, <3>6
    <2>4. s.hist \in Seq(RowType) /\ s.offset \in Nat
      BY <1>3 DEF State
    <2>5. Follows(s, z, m)
      BY <1>2, <1>5, <2>3, <2>4 DEF Follows, Steady, SameLines, Good
    <2>6. QED
      BY <1>1, <2>5
  <1>6. QED
    BY <1>4, <1>5

\* History kept, or grown under a view that stays on its lines.
LEMMA HistoryFollows ==
  ASSUME NEW m, NEW s, Sane(s), NEW hist \in Seq(RowType), NEW offset \in Nat, Len(hist) <= Limit, offset <= Len(hist),
         s.offset > 0 => /\ offset > 0 /\ Len(hist) - offset = Len(s.hist) - s.offset /\ Len(s.hist) <= Len(hist)
                         /\ \A i \in 1..Len(s.hist) : hist[i].cells = s.hist[i].cells
  PROVE  Follows(s, [s EXCEPT !.hist = hist, !.offset = offset], m)
  <1>1. s \in State /\ s.offset \in Nat
    BY DEF Sane, State
  <1>2. PICK z : z = [s EXCEPT !.hist = hist, !.offset = offset]
    OBVIOUS
  <1>3. /\ z \in State /\ z.hist = hist /\ z.offset = offset /\ z.grid = s.grid /\ z.damage = s.damage
        /\ z.scroll = s.scroll /\ z.full = s.full /\ z.top = s.top /\ z.bottom = s.bottom
    BY <1>1, <1>2 DEF State
  <1>4. Sane(z)
    BY <1>3 DEF Sane
  <1>5. Faithful(s, m) => Faithful(z, m)
    BY <1>3 DEF Faithful, Damaged, From
  <1>6. Steady(s, z)
    BY <1>1, <1>3 DEF Steady, SameLines
  <1>7. Good(s, m) => Good(z, m)
    BY <1>1, <1>3, <1>5 DEF Good
  <1>8. QED
    BY <1>2, <1>4, <1>6, <1>7 DEF Follows

\* The last line of history loses its wrap flag, which is not in the view's cells.
LEMMA UnwrapHistoryFollows ==
  ASSUME NEW m, NEW s, Sane(s), s.hist # << >>
  PROVE  Follows(s, [s EXCEPT !.hist[Len(s.hist)].wrapped = FALSE], m)
  <1>1. s \in State /\ s.offset \in Nat /\ Len(s.hist) <= Limit /\ s.offset <= Len(s.hist)
    BY DEF Sane, State
  <1>2. PICK h \in Seq(RowType) : h = s.hist
    BY <1>1 DEF State
  <1>3. Len(h) \in 1..Len(h) /\ Len(h) \in Nat /\ h[Len(h)] \in RowType
    BY <1>1, <1>2
  <1>4. PICK line \in RowType : line = [h[Len(h)] EXCEPT !.wrapped = FALSE] /\ line.cells = h[Len(h)].cells
    <2>1. PICK last \in RowType : last = h[Len(h)]
      BY <1>3
    <2>2. [last EXCEPT !.wrapped = FALSE] \in RowType /\ [last EXCEPT !.wrapped = FALSE].cells = last.cells
      BY DEF RowType
    <2>3. QED
      BY <2>1, <2>2
  <1>5. PICK hist \in Seq(RowType) : hist = [h EXCEPT ![Len(h)] = line]
    BY <1>3, ExceptSeq
  <1>6. Len(hist) = Len(h) /\ \A i \in 1..Len(h) : hist[i].cells = h[i].cells
    BY <1>3, <1>4, <1>5
  <1>7. Follows(s, [s EXCEPT !.hist = hist, !.offset = s.offset], m)
    <2>1. PICK offset \in Nat : offset = s.offset
      BY <1>1
    <2>2. Len(hist) <= Limit /\ offset <= Len(hist)
      BY <1>1, <1>2, <1>6, <2>1
    <2>3. s.offset > 0 => /\ offset > 0 /\ Len(hist) - offset = Len(s.hist) - s.offset /\ Len(s.hist) <= Len(hist)
                          /\ \A i \in 1..Len(s.hist) : hist[i].cells = s.hist[i].cells
      BY <1>2, <1>3, <1>6, <2>1
    <2>4. Follows(s, [s EXCEPT !.hist = hist, !.offset = offset], m)
      BY <2>2, <2>3, HistoryFollows
    <2>5. QED
      BY <2>1, <2>4
  <1>8. [s EXCEPT !.hist[Len(s.hist)].wrapped = FALSE] = [s EXCEPT !.hist = hist, !.offset = s.offset]
    BY <1>1, <1>2, <1>4, <1>5 DEF State
  <1>9. QED
    BY <1>7, <1>8

LEMMA ShiftRegionFollows ==
  ASSUME NEW m, NEW s, Sane(s), NEW top \in RowIds, NEW bottom \in RowIds, NEW down \in BOOLEAN,
         NEW evicts \in BOOLEAN, NEW servesWrap \in BOOLEAN
  PROVE  Follows(s, ShiftRegion(s, top, bottom, down, evicts, servesWrap), m)
  <1>1. PICK shifted : shifted = Scrolled(s, top, bottom, down)
    OBVIOUS
  <1>2. Follows(s, shifted, m) /\ shifted.hist = s.hist
    BY <1>1, ScrolledFollows, ScrolledIs
  <1>3. PICK above : above = IF top > 0 THEN EndWrap(shifted, top - 1)
                             ELSE IF evicts \/ s.alt \/ s.hist = << >> THEN shifted
                             ELSE [shifted EXCEPT !.hist[Len(s.hist)].wrapped = FALSE]
    OBVIOUS
  <1>4. PICK orphan : orphan = IF down THEN bottom ELSE bottom - 1
    OBVIOUS
  <1>5. ShiftRegion(s, top, bottom, down, evicts, servesWrap)
        = IF servesWrap \/ orphan < 0 \/ (~down /\ bottom + 1 = Rows) THEN above ELSE EndWrap(above, orphan)
    BY <1>1, <1>3, <1>4 DEF ShiftRegion, Scrolled
  <1>6. Follows(shifted, above, m)
    <2>1. Sane(shifted)
      BY <1>2 DEF Follows
    <2>2. CASE top > 0
      <3>1. top - 1 \in RowIds
        BY <2>2, Sizes
      <3>2. Follows(shifted, EndWrap(shifted, top - 1), m)
        BY <2>1, <3>1, EndWrapFollows
      <3>3. QED
        BY <1>3, <2>2, <3>2
    <2>3. CASE ~(top > 0) /\ (evicts \/ s.alt \/ s.hist = << >>)
      BY <1>3, <2>1, <2>3, FollowsItself
    <2>4. CASE ~(top > 0) /\ ~(evicts \/ s.alt \/ s.hist = << >>)
      <3>1. Follows(shifted, [shifted EXCEPT !.hist[Len(shifted.hist)].wrapped = FALSE], m)
        BY <1>2, <2>1, <2>4, UnwrapHistoryFollows
      <3>2. QED
        BY <1>2, <1>3, <2>4, <3>1
    <2>5. QED
      BY <2>2, <2>3, <2>4
  <1>7. Follows(s, above, m)
    BY <1>2, <1>6, FollowsOn
  <1>8. CASE servesWrap \/ orphan < 0 \/ (~down /\ bottom + 1 = Rows)
    BY <1>5, <1>7, <1>8
  <1>9. CASE ~(servesWrap \/ orphan < 0 \/ (~down /\ bottom + 1 = Rows))
    <2>1. orphan \in RowIds
      BY <1>4, <1>9, Sizes
    <2>2. Sane(above)
      BY <1>7 DEF Follows
    <2>3. Follows(above, EndWrap(above, orphan), m)
      BY <2>1, <2>2, EndWrapFollows
    <2>4. QED
      BY <1>5, <1>7, <1>9, <2>3, FollowsOn
  <1>10. QED
    BY <1>8, <1>9

LEMMA PushHistoryFollows ==
  ASSUME NEW m, NEW s, Sane(s), NEW line \in RowType
  PROVE  Follows(s, PushHistory(s, line), m)
  <1>1. s \in State /\ s.offset \in Nat /\ Len(s.hist) <= Limit /\ s.offset <= Len(s.hist)
    BY DEF Sane, State
  <1>2. PICK h \in Seq(RowType) : h = s.hist
    BY <1>1 DEF State
  <1>3. PICK hist \in Seq(RowType) : hist = Append(h, line)
    BY AppendProperties
  <1>4. Len(h) \in Nat /\ Len(hist) = Len(h) + 1 /\ \A i \in 1..Len(h) : hist[i] = h[i]
    BY <1>3, AppendProperties
  <1>5. PICK offset \in Nat : offset = IF s.offset > 0 THEN Lesser(s.offset + 1, Len(hist)) ELSE 0
    BY <1>1, <1>4 DEF Lesser
  <1>6. offset = IF s.offset > 0 THEN s.offset + 1 ELSE 0
    BY <1>1, <1>2, <1>4, <1>5 DEF Lesser
  <1> DEFINE kept == [s EXCEPT !.hist = hist, !.offset = offset]
  <1>7. PushHistory(s, line)
        = IF Len(hist) <= Limit THEN kept
          ELSE IF offset = 0 THEN [kept EXCEPT !.hist = Tail(hist)]
          ELSE MarkFullyDamaged([kept EXCEPT !.hist = Tail(hist), !.offset = offset - 1])
    BY <1>2, <1>3, <1>5 DEF PushHistory
  <1>8. CASE Len(hist) <= Limit
    <2>1. offset <= Len(hist)
      BY <1>1, <1>2, <1>4, <1>6
    <2>2. s.offset > 0 => offset > 0 /\ Len(hist) - offset = Len(h) - s.offset /\ Len(h) <= Len(hist)
      <3>1. PICK n \in Nat, o \in Nat : n = Len(h) /\ o = s.offset
        BY <1>1, <1>4
      <3>2. Len(hist) = n + 1 /\ offset = IF o > 0 THEN o + 1 ELSE 0
        BY <1>4, <1>6, <3>1
      <3>3. o > 0 => offset > 0 /\ (n + 1) - offset = n - o /\ n <= n + 1
        BY <3>2
      <3>4. QED
        BY <3>1, <3>2, <3>3
    <2>3. s.offset > 0 => /\ offset > 0 /\ Len(hist) - offset = Len(s.hist) - s.offset /\ Len(s.hist) <= Len(hist)
                          /\ \A i \in 1..Len(s.hist) : hist[i].cells = s.hist[i].cells
      BY <1>2, <1>4, <2>2
    <2>4. Follows(s, kept, m)
      BY <1>8, <2>1, <2>3, HistoryFollows
    <2>5. QED
      BY <1>7, <1>8, <2>4
  <1>9. PICK tail \in Seq(RowType) : tail = Tail(hist) /\ Len(tail) = Len(hist) - 1
    <2>1. hist # << >>
      BY <1>4
    <2>2. QED
      BY <2>1, HeadTailProperties
  <1>10. Len(tail) = Len(h)
    BY <1>4, <1>9
  <1>11. CASE ~(Len(hist) <= Limit) /\ offset = 0
    <2>1. [kept EXCEPT !.hist = Tail(hist)] = [s EXCEPT !.hist = tail, !.offset = offset]
      BY <1>1, <1>9 DEF State
    <2>2. s.offset = 0
      BY <1>1, <1>6, <1>11
    <2>3. Len(tail) <= Limit /\ offset <= Len(tail) /\ ~(s.offset > 0)
      BY <1>1, <1>2, <1>4, <1>10, <1>11, <2>2
    <2>4. Follows(s, [s EXCEPT !.hist = tail, !.offset = offset], m)
      BY <2>3, HistoryFollows
    <2>5. QED
      BY <1>7, <1>11, <2>1, <2>4
  <1>12. CASE ~(Len(hist) <= Limit) /\ offset # 0
    <2>1. PICK back \in Nat : back = offset - 1 /\ back = s.offset
      BY <1>1, <1>6, <1>12
    <2>2. PICK z : z = PushHistory(s, line)
      OBVIOUS
    <2>3. z = MarkFullyDamaged([kept EXCEPT !.hist = tail, !.offset = back])
      BY <1>7, <1>9, <1>12, <2>1, <2>2
    <2>4. z = [s EXCEPT !.hist = tail, !.offset = back, !.full = TRUE]
      BY <1>1, <2>3 DEF State, MarkFullyDamaged
    <2>5. /\ z \in State /\ z.hist = tail /\ z.offset = back /\ z.full /\ z.top = s.top /\ z.bottom = s.bottom
          /\ z.scroll = s.scroll
      BY <1>1, <2>4 DEF State
    <2>6. Sane(z)
      BY <1>1, <1>2, <1>10, <2>1, <2>5 DEF Sane
    <2>7. QED
      BY <2>2, <2>5, <2>6, FullFollows
  <1>13. QED
    BY <1>8, <1>11, <1>12

-----------------------------------------------------------------------------
(* The operators of the verbs.                                               *)

LEMMA MovedFollows ==
  ASSUME NEW m, NEW s, Sane(s), NEW row \in RowIds, NEW col \in ColIds, NEW pend \in BOOLEAN
  PROVE  Follows(s, [s EXCEPT !.row = row, !.col = col, !.pend = pend], m)
  <1>1. s \in State
    BY DEF Sane
  <1>2. PICK z : z = [s EXCEPT !.row = row, !.col = col, !.pend = pend]
    OBVIOUS
  <1>3. /\ z \in State /\ z.grid = s.grid /\ z.hist = s.hist /\ z.offset = s.offset /\ z.damage = s.damage
        /\ z.scroll = s.scroll /\ z.full = s.full /\ z.top = s.top /\ z.bottom = s.bottom
    BY <1>1, <1>2 DEF State
  <1>4. Sane(z)
    BY <1>3 DEF Sane
  <1>5. QED
    BY <1>2, <1>3, <1>4, CursorFollows

LEMMA RowFollows ==
  ASSUME NEW m, NEW s, Sane(s), NEW row \in RowIds
  PROVE  Follows(s, [s EXCEPT !.row = row], m)
  <1>1. s \in State
    BY DEF Sane
  <1>2. PICK col \in ColIds, pend \in BOOLEAN : col = s.col /\ pend = s.pend
    BY <1>1 DEF State
  <1>3. [s EXCEPT !.row = row] = [s EXCEPT !.row = row, !.col = col, !.pend = pend]
    BY <1>1, <1>2 DEF State
  <1>4. Follows(s, [s EXCEPT !.row = row, !.col = col, !.pend = pend], m)
    BY MovedFollows
  <1>5. QED
    BY <1>3, <1>4

LEMMA ColFollows ==
  ASSUME NEW m, NEW s, Sane(s), NEW col \in ColIds, NEW pend \in BOOLEAN
  PROVE  Follows(s, [s EXCEPT !.col = col, !.pend = pend], m)
  <1>1. s \in State
    BY DEF Sane
  <1>2. PICK row \in RowIds : row = s.row
    BY <1>1 DEF State
  <1>3. [s EXCEPT !.col = col, !.pend = pend] = [s EXCEPT !.row = row, !.col = col, !.pend = pend]
    BY <1>1, <1>2 DEF State
  <1>4. QED
    BY <1>3, MovedFollows

LEMMA SettledFollows ==
  ASSUME NEW m, NEW s, Sane(s), NEW pend \in BOOLEAN
  PROVE  Follows(s, [s EXCEPT !.pend = pend], m)
  <1>1. s \in State
    BY DEF Sane
  <1>2. PICK col \in ColIds : col = s.col
    BY <1>1 DEF State
  <1>3. [s EXCEPT !.pend = pend] = [s EXCEPT !.col = col, !.pend = pend]
    BY <1>1, <1>2 DEF State
  <1>4. QED
    BY <1>3, ColFollows

LEMMA LinefeedInnerFollows ==
  ASSUME NEW m, NEW s, Sane(s), NEW servesWrap \in BOOLEAN
  PROVE  Follows(s, LinefeedInner(s, servesWrap), m)
  <1>1. s \in State /\ s.row \in RowIds /\ s.top \in RowIds /\ s.bottom \in RowIds /\ s.grid[0] \in RowType
    BY Sizes DEF Sane, State
  <1>2. CASE s.row # s.bottom
    <2>1. PICK row \in RowIds : row = Lesser(s.row + 1, Rows - 1)
      BY <1>1, Sizes DEF Lesser
    <2>2. LinefeedInner(s, servesWrap) = [s EXCEPT !.row = row]
      BY <1>2, <2>1 DEF LinefeedInner
    <2>3. QED
      BY <2>2, RowFollows
  <1>3. CASE ~(s.row # s.bottom) /\ s.top = 0 /\ ~s.alt
    <2>1. PICK evicted \in RowType : evicted = s.grid[0]
      BY <1>1
    <2>2. PICK bottom \in RowIds, last \in RowIds : bottom = s.bottom /\ last = Rows - 1
      BY <1>1, Sizes
    <2>3. PICK moved : moved = IF bottom = last THEN Scrolled(s, 0, last, FALSE)
                               ELSE ShiftRegion(s, 0, bottom, FALSE, TRUE, servesWrap)
      OBVIOUS
    <2>4. LinefeedInner(s, servesWrap) = PushHistory(moved, evicted)
      BY <1>3, <2>1, <2>2, <2>3 DEF LinefeedInner, Scrolled
    <2>5. Follows(s, moved, m)
      <3>1. Follows(s, Scrolled(s, 0, last, FALSE), m)
        BY ScrolledFollows, Sizes
      <3>2. Follows(s, ShiftRegion(s, 0, bottom, FALSE, TRUE, servesWrap), m)
        BY ShiftRegionFollows, Sizes
      <3>3. QED
        BY <2>3, <3>1, <3>2
    <2>6. Follows(moved, PushHistory(moved, evicted), m)
      BY <2>5, PushHistoryFollows DEF Follows
    <2>7. QED
      BY <2>4, <2>5, <2>6, FollowsOn
  <1>4. CASE ~(s.row # s.bottom) /\ ~(s.top = 0 /\ ~s.alt)
    <2>1. PICK top \in RowIds, bottom \in RowIds : top = s.top /\ bottom = s.bottom
      BY <1>1
    <2>2. LinefeedInner(s, servesWrap) = ShiftRegion(s, top, bottom, FALSE, FALSE, servesWrap)
      BY <1>4, <2>1 DEF LinefeedInner
    <2>3. QED
      BY <2>2, ShiftRegionFollows
  <1>5. QED
    BY <1>2, <1>3, <1>4

LEMMA WrapLineFollows ==
  ASSUME NEW m, NEW s, Sane(s)
  PROVE  Follows(s, WrapLine(s), m)
  <1>1. PICK y : y = LinefeedInner(s, TRUE)
    OBVIOUS
  <1>2. Follows(s, y, m)
    BY <1>1, LinefeedInnerFollows
  <1>3. Follows(y, [y EXCEPT !.col = 0, !.pend = FALSE], m)
    BY <1>2, ColFollows, Sizes DEF Follows
  <1>4. QED
    BY <1>1, <1>2, <1>3, FollowsOn DEF WrapLine

Repeats(h, s, top, bottom, down) ==
  h[0] = s /\ \A k \in Nat : h[k + 1] = ShiftRegion(h[k], top, bottom, down, FALSE, FALSE)

LEMMA ShiftsIs ==
  ASSUME NEW s, Sane(s), NEW top \in RowIds, NEW bottom \in RowIds, NEW down \in BOOLEAN
  PROVE  Repeats(Shifts(s, top, bottom, down), s, top, bottom, down)
  <1>1. PICK h : h = Shifts(s, top, bottom, down)
    OBVIOUS
  <1>2. PICK S : S = {y \in State : Sane(y)}
    OBVIOUS
  <1>3. PICK g : g = [y \in S |-> ShiftRegion(y, top, bottom, down, FALSE, FALSE)]
    OBVIOUS
  <1> DEFINE step(f) == [k \in Nat |-> IF k = 0 THEN s ELSE ShiftRegion(f[k - 1], top, bottom, down, FALSE, FALSE)]
  <1>4. \A y \in S : ShiftRegion(y, top, bottom, down, FALSE, FALSE) \in S
    <2> SUFFICES ASSUME NEW y, Sane(y) PROVE Sane(ShiftRegion(y, top, bottom, down, FALSE, FALSE))
      BY <1>2 DEF Sane
    <2>1. Follows(y, ShiftRegion(y, top, bottom, down, FALSE, FALSE), mirrorWraps)
      BY ShiftRegionFollows
    <2>2. QED
      BY <2>1 DEF Follows
  <1>5. g \in [S -> S] /\ s \in S
    BY <1>2, <1>3, <1>4 DEF Sane
  <1>6. PICK f \in [Nat -> S] : Loops(f, g, s)
    BY <1>5, LoopExists
  <1>7. f = [k \in Nat |-> IF k = 0 THEN s ELSE g[f[k - 1]]]
    BY <1>6 DEF Loops
  <1>8. \A k \in Nat : k # 0 => f[k - 1] \in S
    <2> SUFFICES ASSUME NEW k \in Nat, k # 0 PROVE f[k - 1] \in S
      OBVIOUS
    <2>1. k - 1 \in Nat
      OBVIOUS
    <2>2. QED
      BY <1>6, <2>1
  <1>9. f = step(f)
    BY <1>3, <1>7, <1>8
  <1>10. h = CHOOSE i : i = step(i)
    BY <1>1 DEF Shifts
  <1>11. h = step(h)
    BY <1>9, <1>10
  <1>12. h[0] = s
    BY <1>11
  <1>13. ASSUME NEW k \in Nat PROVE h[k + 1] = ShiftRegion(h[k], top, bottom, down, FALSE, FALSE)
    <2>1. PICK n \in Nat : n = k + 1 /\ n # 0 /\ n - 1 = k
      OBVIOUS
    <2>2. h[n] = ShiftRegion(h[n - 1], top, bottom, down, FALSE, FALSE)
      BY <1>11, <2>1
    <2>3. QED
      BY <2>1, <2>2
  <1>14. QED
    BY <1>1, <1>12, <1>13 DEF Repeats

LEMMA ShiftLinesFollows ==
  ASSUME NEW m, NEW s, Sane(s), NEW top \in RowIds, NEW bottom \in RowIds, top <= bottom, NEW n \in Nat, NEW down \in BOOLEAN
  PROVE  Follows(s, ShiftLines(s, top, bottom, n, down), m)
  <1>1. PICK f : f = Shifts(s, top, bottom, down)
    OBVIOUS
  <1>2. f[0] = s /\ \A k \in Nat : f[k + 1] = ShiftRegion(f[k], top, bottom, down, FALSE, FALSE)
    <2>1. Repeats(f, s, top, bottom, down)
      BY <1>1, ShiftsIs
    <2>2. QED
      BY <2>1 DEF Repeats
  <1> DEFINE T == {k \in Nat : ~Follows(s, f[k], m)}
  <1>3. ASSUME T # {} PROVE FALSE
    <2>1. PICK k \in T : \A j \in T : k <= j
      BY <1>3, Smallest
    <2>2. k # 0
      BY <1>2, <2>1, FollowsItself
    <2>3. PICK j \in Nat : k = j + 1
      BY <2>1, <2>2
    <2>4. Follows(s, f[j], m)
      BY <2>1, <2>3
    <2>5. PICK y : y = f[j]
      OBVIOUS
    <2>6. Follows(s, y, m) /\ Sane(y)
      BY <2>4, <2>5 DEF Follows
    <2>7. Follows(y, ShiftRegion(y, top, bottom, down, FALSE, FALSE), m)
      BY <2>6, ShiftRegionFollows
    <2>8. Follows(s, f[k], m)
      BY <1>2, <2>3, <2>5, <2>6, <2>7, FollowsOn
    <2>9. QED
      BY <2>1, <2>8
  <1>4. Lesser(n, bottom - top + 1) \in Nat
    BY Sizes DEF Lesser
  <1>5. QED
    BY <1>1, <1>3, <1>4 DEF ShiftLines

LEMMA NoHistory == << >> \in Seq(RowType) /\ Len(<< >>) = 0
  <1>1. \A S : << >> \in Seq(S)
    OBVIOUS
  <1>2. QED
    BY <1>1

LEMMA EraseHistoryFollows ==
  ASSUME NEW m, NEW s, Sane(s)
  PROVE  Follows(s, EraseHistory(s), m)
  <1>1. CASE s.hist = << >>
    BY <1>1, FollowsItself DEF EraseHistory
  <1>2. CASE s.hist # << >>
    <2>1. s \in State
      BY DEF Sane
    <2>2. PICK none \in Seq(RowType) : none = << >> /\ Len(none) = 0
      BY NoHistory
    <2>3. PICK z : z = EraseHistory(s)
      OBVIOUS
    <2>4. z = [s EXCEPT !.hist = none, !.offset = 0, !.full = TRUE]
      BY <1>2, <2>1, <2>2, <2>3 DEF EraseHistory, MarkFullyDamaged, State
    <2>5. /\ z \in State /\ z.hist = none /\ z.offset = 0 /\ z.full /\ z.top = s.top /\ z.bottom = s.bottom
          /\ z.scroll = s.scroll
      BY <2>1, <2>4 DEF State
    <2>6. Sane(z)
      BY <2>2, <2>5, Sizes DEF Sane
    <2>7. QED
      BY <2>3, <2>5, <2>6, FullFollows
  <1>3. QED
    BY <1>1, <1>2

-----------------------------------------------------------------------------
(* The verbs, each from a sane Term s.                                       *)

LEMMA WriteGlyphFollows ==
  ASSUME NEW m, NEW s, s = t, Sane(s), WriteGlyph
  PROVE  Follows(s, t', m)
  <1>1. PICK y : y = IF ~s.pend THEN s ELSE WrapLine(IF WraplineAdvances(s) THEN SetWrap(s, s.row, TRUE) ELSE s)
    OBVIOUS
  <1>2. PICK z : z = ClearCells(y, y.row, y.col, y.col + 1)
    OBVIOUS
  <1>3. t' = IF y.col + 1 >= Cols THEN [z EXCEPT !.col = Cols - 1, !.pend = TRUE] ELSE [z EXCEPT !.col = z.col + 1]
    BY <1>1, <1>2 DEF WriteGlyph, Change
  <1>4. Follows(s, y, m)
    <2>1. PICK row \in RowIds : row = s.row
      BY DEF Sane, State
    <2>2. PICK x : x = IF WraplineAdvances(s) THEN SetWrap(s, row, TRUE) ELSE s
      OBVIOUS
    <2>3. Follows(s, SetWrap(s, row, TRUE), m) /\ Follows(s, s, m)
      BY SetWrapIs, FollowsItself
    <2>4. Follows(s, x, m)
      BY <2>2, <2>3
    <2>5. Follows(x, WrapLine(x), m)
      BY <2>4, WrapLineFollows DEF Follows
    <2>6. Follows(s, WrapLine(x), m)
      BY <2>4, <2>5, FollowsOn
    <2>7. QED
      BY <1>1, <2>1, <2>2, <2>3, <2>6
  <1>5. Sane(y)
    BY <1>4 DEF Follows
  <1>6. PICK row \in RowIds, col \in ColIds : row = y.row /\ col = y.col
    BY <1>5 DEF Sane, State
  <1>7. Follows(y, z, m) /\ z.col = col
    <2>1. col \in Nat /\ col + 1 \in 0..Cols
      BY Sizes
    <2>2. z = ClearCells(y, row, col, col + 1)
      BY <1>2, <1>6
    <2>3. Follows(y, z, m)
      BY <1>5, <2>1, <2>2, ClearCellsFollows
    <2>4. z.col = y.col
      BY <1>5, <2>1, <2>2 DEF ClearCells, DamageSpan, Sane, State
    <2>5. QED
      BY <1>6, <2>3, <2>4
  <1>8. Sane(z) /\ z \in State
    BY <1>7 DEF Follows, Sane
  <1>9. Follows(z, t', m)
    <2>1. CASE col + 1 >= Cols
      <3>1. Cols - 1 \in ColIds
        BY Sizes
      <3>2. t' = [z EXCEPT !.col = Cols - 1, !.pend = TRUE]
        BY <1>3, <1>6, <2>1
      <3>3. QED
        BY <1>8, <3>1, <3>2, ColFollows
    <2>2. CASE ~(col + 1 >= Cols)
      <3>1. PICK next \in ColIds : next = col + 1
        BY <2>2, Sizes
      <3>2. PICK pend \in BOOLEAN : pend = z.pend
        BY <1>8 DEF State
      <3>3. t' = [z EXCEPT !.col = next, !.pend = pend]
        BY <1>3, <1>6, <1>7, <1>8, <2>2, <3>1, <3>2 DEF State
      <3>4. Follows(z, [z EXCEPT !.col = next, !.pend = pend], m)
        BY <1>8, ColFollows
      <3>5. QED
        BY <3>3, <3>4
    <2>3. QED
      BY <2>1, <2>2
  <1>10. Follows(s, z, m)
    BY <1>4, <1>7, FollowsOn
  <1>11. QED
    BY <1>9, <1>10, FollowsOn

LEMMA LinefeedFollows ==
  ASSUME NEW m, NEW s, s = t, Sane(s), Linefeed
  PROVE  Follows(s, t', m)
  <1>1. PICK y : y = LinefeedInner(s, FALSE)
    OBVIOUS
  <1>2. Follows(s, y, m)
    BY <1>1, LinefeedInnerFollows
  <1>3. Follows(y, [y EXCEPT !.pend = FALSE], m)
    BY <1>2, SettledFollows DEF Follows
  <1>4. t' = [y EXCEPT !.pend = FALSE]
    BY <1>1 DEF Linefeed, Change
  <1>5. QED
    BY <1>2, <1>3, <1>4, FollowsOn

LEMMA ReverseIndexFollows ==
  ASSUME NEW m, NEW s, s = t, Sane(s), ReverseIndex
  PROVE  Follows(s, t', m)
  <1>1. PICK top \in RowIds, bottom \in RowIds, row \in RowIds : top = s.top /\ bottom = s.bottom /\ row = s.row
    BY DEF Sane, State
  <1>2. PICK higher \in RowIds : higher = Greater(row - 1, 0)
    BY Sizes DEF Greater
  <1>3. PICK y : y = IF row = top THEN ShiftRegion(s, top, bottom, TRUE, FALSE, FALSE) ELSE [s EXCEPT !.row = higher]
    OBVIOUS
  <1>4. Follows(s, ShiftRegion(s, top, bottom, TRUE, FALSE, FALSE), m)
    BY ShiftRegionFollows
  <1>5. Follows(s, [s EXCEPT !.row = higher], m)
    BY RowFollows
  <1>6. Follows(s, y, m)
    BY <1>3, <1>4, <1>5
  <1>7. Follows(y, [y EXCEPT !.pend = FALSE], m)
    BY <1>6, SettledFollows DEF Follows
  <1>8. t' = [y EXCEPT !.pend = FALSE]
    BY <1>1, <1>2, <1>3 DEF ReverseIndex, Change
  <1>9. QED
    BY <1>6, <1>7, <1>8, FollowsOn

LEMMA GotoFollows ==
  ASSUME NEW m, NEW s, s = t, Sane(s), NEW row \in RowIds, NEW col \in ColIds, Goto(row, col)
  PROVE  Follows(s, t', m)
  <1>1. t' = [s EXCEPT !.row = row, !.col = col, !.pend = FALSE]
    BY DEF Goto, Change
  <1>2. QED
    BY <1>1, MovedFollows

LEMMA SetScrollRegionFollows ==
  ASSUME NEW m, NEW s, s = t, Sane(s), NEW top \in RowIds, NEW bottom \in RowIds, top < bottom, SetScrollRegion(top, bottom)
  PROVE  Follows(s, t', m)
  <1>1. PICK z : z = t'
    OBVIOUS
  <1>2. z = [s EXCEPT !.top = top, !.bottom = bottom, !.row = 0, !.col = 0, !.pend = FALSE]
    BY <1>1 DEF SetScrollRegion, Change
  <1>3. /\ z \in State /\ z.grid = s.grid /\ z.hist = s.hist /\ z.offset = s.offset /\ z.damage = s.damage
        /\ z.scroll = s.scroll /\ z.full = s.full /\ z.top = top /\ z.bottom = bottom
    BY <1>2, Sizes DEF Sane, State
  <1>4. top <= bottom
    BY Sizes
  <1>5. Sane(z)
    BY <1>3, <1>4 DEF Sane
  <1>6. QED
    BY <1>1, <1>3, <1>5, CursorFollows

LEMMA EraseDisplayFollows ==
  ASSUME NEW m, NEW s, s = t, Sane(s), NEW mode \in 0..3, EraseDisplay(mode)
  PROVE  Follows(s, t', m)
  <1>1. PICK row \in RowIds, col \in ColIds : row = s.row /\ col = s.col
    BY DEF Sane, State
  <1>2. /\ mode = 0 => t' = EraseRows(EndWrap(ClearCells(s, row, col, Cols), row), row + 1, Rows - 1)
        /\ mode = 1 => LET left == ClearCells(EraseRows(s, 0, row - 1), row, 0, col + 1)
                       IN  t' = IF col + 1 = Cols THEN EndWrap(left, row) ELSE left
        /\ mode = 2 => t' = EraseRows(s, 0, Rows - 1)
        /\ mode = 3 => t' = EraseHistory(s)
    BY <1>1 DEF EraseDisplay, Change
  <1>3. col \in Nat /\ 0 \in Nat /\ col + 1 \in 0..Cols /\ Cols \in 0..Cols
    BY Sizes
  <1>4. CASE mode = 0
    <2>1. PICK x : x = ClearCells(s, row, col, Cols)
      OBVIOUS
    <2>2. Follows(s, x, m)
      BY <1>3, <2>1, ClearCellsFollows
    <2>3. PICK y : y = EndWrap(x, row)
      OBVIOUS
    <2>4. Follows(x, y, m)
      BY <2>2, <2>3, EndWrapFollows DEF Follows
    <2>5. Follows(s, y, m)
      BY <2>2, <2>4, FollowsOn
    <2>6. Follows(y, EraseRows(y, row + 1, Rows - 1), m)
      BY <2>5, EraseRowsFollows DEF Follows
    <2>7. t' = EraseRows(y, row + 1, Rows - 1)
      BY <1>2, <1>4, <2>1, <2>3
    <2>8. QED
      BY <2>5, <2>6, <2>7, FollowsOn
  <1>5. CASE mode = 1
    <2>1. PICK x : x = EraseRows(s, 0, row - 1)
      OBVIOUS
    <2>2. Follows(s, x, m)
      BY <2>1, EraseRowsFollows
    <2>3. PICK left : left = ClearCells(x, row, 0, col + 1)
      OBVIOUS
    <2>4. Follows(x, left, m)
      BY <1>3, <2>2, <2>3, ClearCellsFollows DEF Follows
    <2>5. Follows(s, left, m)
      BY <2>2, <2>4, FollowsOn
    <2>6. Follows(left, EndWrap(left, row), m)
      BY <2>5, EndWrapFollows DEF Follows
    <2>7. Follows(s, EndWrap(left, row), m)
      BY <2>5, <2>6, FollowsOn
    <2>8. t' = IF col + 1 = Cols THEN EndWrap(left, row) ELSE left
      BY <1>2, <1>5, <2>1, <2>3
    <2>9. QED
      BY <2>5, <2>7, <2>8
  <1>6. CASE mode = 2
    <2>1. Follows(s, EraseRows(s, 0, Rows - 1), m)
      BY EraseRowsFollows
    <2>2. QED
      BY <1>2, <1>6, <2>1
  <1>7. CASE mode = 3
    BY <1>2, <1>7, EraseHistoryFollows
  <1>8. QED
    BY <1>4, <1>5, <1>6, <1>7

\* The clear of a row's cells that ends its wrap.
LEMMA ClearAndEndFollows ==
  ASSUME NEW m, NEW s, Sane(s), NEW row \in RowIds, NEW from \in Nat, NEW to \in 0..Cols
  PROVE  Follows(s, EndWrap(ClearCells(s, row, from, to), row), m)
  <1>1. PICK x : x = ClearCells(s, row, from, to)
    OBVIOUS
  <1>2. Follows(s, x, m)
    BY <1>1, ClearCellsFollows
  <1>3. Follows(x, EndWrap(x, row), m)
    BY <1>2, EndWrapFollows DEF Follows
  <1>4. QED
    BY <1>1, <1>2, <1>3, FollowsOn

LEMMA EraseLineFollows ==
  ASSUME NEW m, NEW s, s = t, Sane(s), NEW mode \in 0..2, EraseLine(mode)
  PROVE  Follows(s, t', m)
  <1>1. PICK row \in RowIds, col \in ColIds : row = s.row /\ col = s.col
    BY DEF Sane, State
  <1>2. /\ mode = 0 => t' = EndWrap(ClearCells(s, row, col, Cols), row)
        /\ mode = 1 => t' = ClearCells(s, row, 0, col + 1)
        /\ mode = 2 => t' = EndWrap(ClearCells(s, row, 0, Cols), row)
    BY <1>1 DEF EraseLine, Change
  <1>3. col \in Nat /\ 0 \in Nat /\ col + 1 \in 0..Cols /\ Cols \in 0..Cols
    BY Sizes
  <1>4. Follows(s, EndWrap(ClearCells(s, row, col, Cols), row), m)
    BY <1>3, ClearAndEndFollows
  <1>5. Follows(s, ClearCells(s, row, 0, col + 1), m)
    BY <1>3, ClearCellsFollows
  <1>6. Follows(s, EndWrap(ClearCells(s, row, 0, Cols), row), m)
    BY <1>3, ClearAndEndFollows
  <1>7. mode = 0 \/ mode = 1 \/ mode = 2
    OBVIOUS
  <1>8. QED
    BY <1>2, <1>4, <1>5, <1>6, <1>7

LEMMA EraseCharsFollows ==
  ASSUME NEW m, NEW s, s = t, Sane(s), NEW n \in Nat, EraseChars(n)
  PROVE  Follows(s, t', m)
  <1>1. PICK row \in RowIds, col \in ColIds : row = s.row /\ col = s.col
    BY DEF Sane, State
  <1>2. PICK to \in 0..Cols : to = Lesser(col + n, Cols)
    BY Sizes DEF Lesser
  <1>3. t' = EndWrap(ClearCells(s, row, col, to), row)
    BY <1>1, <1>2 DEF EraseChars, Change
  <1>4. col \in Nat
    BY Sizes
  <1>5. QED
    BY <1>3, <1>4, ClearAndEndFollows

LEMMA InsertCharsFollows ==
  ASSUME NEW m, NEW s, s = t, Sane(s), NEW n \in Nat, InsertChars(n)
  PROVE  Follows(s, t', m)
  <1>1. PICK col \in ColIds : col = s.col
    BY DEF Sane, State
  <1>2. PICK d \in Int : d = -Lesser(n, Cols - col)
    BY Sizes DEF Lesser
  <1>3. t' = ShiftCells(s, d)
    BY <1>1, <1>2 DEF InsertChars, Change
  <1>4. QED
    BY <1>3, ShiftCellsFollows

LEMMA DeleteCharsFollows ==
  ASSUME NEW m, NEW s, s = t, Sane(s), NEW n \in Nat, DeleteChars(n)
  PROVE  Follows(s, t', m)
  <1>1. PICK row \in RowIds, col \in ColIds : row = s.row /\ col = s.col
    BY DEF Sane, State
  <1>2. PICK d \in Int : d = Lesser(n, Cols - col)
    BY Sizes DEF Lesser
  <1>3. PICK x : x = EndWrap(s, row)
    OBVIOUS
  <1>4. Follows(s, x, m)
    BY <1>3, EndWrapFollows
  <1>5. Follows(x, ShiftCells(x, d), m)
    BY <1>4, ShiftCellsFollows DEF Follows
  <1>6. t' = ShiftCells(x, d)
    BY <1>1, <1>2, <1>3 DEF DeleteChars, Change
  <1>7. QED
    BY <1>4, <1>5, <1>6, FollowsOn

LEMMA ScrollLinesFollows ==
  ASSUME NEW m, NEW s, s = t, Sane(s), NEW n \in Nat, NEW down \in BOOLEAN, ScrollLines(n, down)
  PROVE  Follows(s, t', m)
  <1>1. PICK top \in RowIds, bottom \in RowIds : top = s.top /\ bottom = s.bottom /\ top <= bottom
    BY DEF Sane, State
  <1>2. t' = ShiftLines(s, top, bottom, n, down)
    BY <1>1 DEF ScrollLines, Change
  <1>3. QED
    BY <1>1, <1>2, ShiftLinesFollows

LEMMA EditLinesFollows ==
  ASSUME NEW m, NEW s, s = t, Sane(s), NEW n \in Nat, NEW down \in BOOLEAN, EditLines(n, down)
  PROVE  Follows(s, t', m)
  <1>1. PICK row \in RowIds, bottom \in RowIds : row = s.row /\ bottom = s.bottom
    BY DEF Sane, State
  <1>2. row <= bottom
    BY <1>1, Sizes DEF EditLines
  <1>3. PICK x : x = [s EXCEPT !.pend = FALSE]
    OBVIOUS
  <1>4. Follows(s, x, m)
    BY <1>3, SettledFollows
  <1>5. Follows(x, ShiftLines(x, row, bottom, n, down), m)
    BY <1>2, <1>4, ShiftLinesFollows DEF Follows
  <1>6. t' = ShiftLines(x, row, bottom, n, down)
    BY <1>1, <1>3 DEF EditLines, Change
  <1>7. QED
    BY <1>4, <1>5, <1>6, FollowsOn

LEMMA SwitchToAltFollows ==
  ASSUME NEW m, NEW s, s = t, Sane(s), SwitchToAlt
  PROVE  Follows(s, t', m)
  <1>1. PICK grid \in [RowIds -> RowType] : grid = s.grid
    BY DEF Sane, State
  <1>2. PICK blank \in [RowIds -> RowType] : blank = BlankGrid
    BY FreshIs
  <1>3. PICK z : z = t'
    OBVIOUS
  <1>4. z = [s EXCEPT !.grid = blank, !.other = grid, !.alt = TRUE, !.offset = 0, !.full = TRUE]
    BY <1>1, <1>2, <1>3 DEF SwitchToAlt, Change, MarkFullyDamaged, Sane, State
  <1>5. /\ z \in State /\ z.hist = s.hist /\ z.offset = 0 /\ z.full /\ z.top = s.top /\ z.bottom = s.bottom
        /\ z.scroll = s.scroll
    BY <1>4 DEF Sane, State
  <1>6. Len(s.hist) \in Nat
    BY DEF Sane, State
  <1>7. Sane(z)
    BY <1>5, <1>6 DEF Sane
  <1>8. QED
    BY <1>3, <1>5, <1>7, FullFollows

LEMMA SwitchToPrimaryFollows ==
  ASSUME NEW m, NEW s, s = t, Sane(s), SwitchToPrimary
  PROVE  Follows(s, t', m)
  <1>1. PICK grid \in [RowIds -> RowType] : grid = s.other
    BY DEF Sane, State
  <1>2. PICK blank \in [RowIds -> RowType] : blank = BlankGrid
    BY FreshIs
  <1>3. PICK z : z = t'
    OBVIOUS
  <1>4. z = [s EXCEPT !.grid = grid, !.other = blank, !.alt = FALSE, !.offset = 0, !.full = TRUE]
    BY <1>1, <1>2, <1>3 DEF SwitchToPrimary, Change, MarkFullyDamaged, Sane, State
  <1>5. /\ z \in State /\ z.hist = s.hist /\ z.offset = 0 /\ z.full /\ z.top = s.top /\ z.bottom = s.bottom
        /\ z.scroll = s.scroll
    BY <1>4 DEF Sane, State
  <1>6. Len(s.hist) \in Nat
    BY DEF Sane, State
  <1>7. Sane(z)
    BY <1>5, <1>6 DEF Sane
  <1>8. QED
    BY <1>3, <1>5, <1>7, FullFollows

LEMMA ClearFollows ==
  ASSUME NEW m, NEW s, s = t, Sane(s), Clear
  PROVE  Follows(s, t', m)
  <1>1. s \in State /\ s.row \in RowIds
    BY DEF Sane, State
  <1>2. PICK row \in RowIds, g \in [RowIds -> RowType] : row = s.row /\ g = s.grid
    BY <1>1 DEF State
  <1>3. PICK top \in 0..row : top = LineStart(s)
    <2>1. PICK starts : starts = {r \in 0..s.row : \A q \in r..s.row - 1 : s.grid[q].wrapped}
      OBVIOUS
    <2>2. row \in starts /\ starts \in SUBSET Nat /\ starts \subseteq 0..row
      BY <1>2, <2>1, Sizes
    <2>3. \E r \in starts : \A q \in starts : r <= q
      BY <2>2, Smallest
    <2>4. LineStart(s) = CHOOSE r \in starts : \A q \in starts : r <= q
      BY <2>1 DEF LineStart
    <2>5. LineStart(s) \in starts
      BY <2>3, <2>4
    <2>6. QED
      BY <2>2, <2>5
  <1>4. PICK last \in RowIds : last = row - top
    BY Sizes
  <1>5. PICK kept \in [RowIds -> RowType] : kept = KeptRows(s, top)
    <2>1. \A r \in RowIds : r <= row - top => r + top \in RowIds
      BY Sizes
    <2>2. KeptRows(s, top) \in [RowIds -> RowType]
      BY <1>2, <2>1, FreshIs DEF KeptRows
    <2>3. QED
      BY <2>2
  <1>6. PICK none \in Seq(RowType) : none = << >> /\ Len(none) = 0
    BY NoHistory
  <1>7. PICK y : y = [s EXCEPT !.grid = kept, !.hist = none, !.offset = 0, !.row = last, !.scroll = {}]
    OBVIOUS
  <1>8. Sane(y)
    <2>1. /\ y \in State /\ y.hist = none /\ y.offset = 0 /\ y.top = s.top /\ y.bottom = s.bottom /\ y.scroll = {}
      BY <1>1, <1>7 DEF State
    <2>2. QED
      BY <1>6, <2>1, Sizes DEF Sane
  <1>9. PICK x : x = EndWrap(y, last)
    OBVIOUS
  <1>10. Sane(x)
    <2>1. Follows(y, EndWrap(y, last), m)
      BY <1>8, EndWrapFollows
    <2>2. QED
      BY <1>9, <2>1 DEF Follows
  <1>11. t' = MarkFullyDamaged(x)
    BY <1>2, <1>3, <1>4, <1>5, <1>6, <1>7, <1>9 DEF Clear, Change
  <1>12. PICK z : z = t'
    OBVIOUS
  <1>13. /\ z \in State /\ z.hist = x.hist /\ z.offset = x.offset /\ z.full /\ z.top = x.top /\ z.bottom = x.bottom
         /\ z.scroll = x.scroll
    BY <1>10, <1>11, <1>12 DEF MarkFullyDamaged, Sane, State
  <1>14. Sane(z)
    BY <1>10, <1>13 DEF Sane
  <1>15. QED
    BY <1>12, <1>13, <1>14, FullFollows

LEMMA SetDisplayOffsetFollows ==
  ASSUME NEW m, NEW s, s = t, Sane(s), NEW offset \in 0..Len(s.hist), SetDisplayOffset(offset)
  PROVE  Follows(s, t', m)
  <1>1. offset \in Nat /\ offset <= Len(s.hist)
    BY DEF Sane, State
  <1>2. PICK z : z = t'
    OBVIOUS
  <1>3. z = [s EXCEPT !.offset = offset, !.full = TRUE]
    BY <1>2 DEF SetDisplayOffset, Change, MarkFullyDamaged, Sane, State
  <1>4. /\ z \in State /\ z.hist = s.hist /\ z.offset = offset /\ z.full /\ z.top = s.top /\ z.bottom = s.bottom
        /\ z.scroll = s.scroll
    BY <1>1, <1>3 DEF Sane, State
  <1>5. Sane(z)
    BY <1>1, <1>4 DEF Sane
  <1>6. QED
    BY <1>2, <1>4, <1>5, FullFollows

LEMMA ReattachFollows ==
  ASSUME NEW m, NEW s, s = t, Sane(s), Reattach
  PROVE  Follows(s, t', m)
  <1>1. PICK z : z = t'
    OBVIOUS
  <1>2. z = [s EXCEPT !.full = TRUE]
    BY <1>1 DEF Reattach, Change, MarkFullyDamaged
  <1>3. /\ z \in State /\ z.hist = s.hist /\ z.offset = s.offset /\ z.full /\ z.top = s.top /\ z.bottom = s.bottom
        /\ z.scroll = s.scroll
    BY <1>2 DEF Sane, State
  <1>4. Sane(z)
    BY <1>3 DEF Sane
  <1>5. QED
    BY <1>1, <1>3, <1>4, FullFollows

LEMMA FullResetFollows ==
  ASSUME NEW m, NEW s, s = t, Sane(s), FullReset
  PROVE  Follows(s, t', m)
  <1>1. PICK blank \in [RowIds -> RowType] : blank = BlankGrid
    BY FreshIs
  <1>2. PICK none \in Seq(RowType) : none = << >> /\ Len(none) = 0
    BY NoHistory
  <1>3. PICK damage \in [RowIds -> Spans] : damage = [r \in RowIds |-> Undamaged]
    BY DamageIs
  <1>4. PICK last \in RowIds : last = Rows - 1
    BY Sizes
  <1>5. PICK z : z = t'
    OBVIOUS
  <1>6. z = [s EXCEPT !.grid = blank, !.other = blank, !.hist = none, !.offset = 0, !.alt = FALSE,
                      !.top = 0, !.bottom = last, !.row = 0, !.col = 0, !.pend = FALSE,
                      !.damage = damage, !.scroll = {}, !.full = TRUE]
    BY <1>1, <1>2, <1>3, <1>4, <1>5 DEF FullReset, Change
  <1>7. /\ z \in State /\ z.hist = none /\ z.offset = 0 /\ z.full /\ z.top = 0 /\ z.bottom = last /\ z.scroll = {}
    BY <1>6, Sizes DEF Sane, State
  <1>8. Sane(z)
    BY <1>2, <1>4, <1>7, Sizes DEF Sane
  <1>9. QED
    BY <1>5, <1>7, <1>8, FullFollows

-----------------------------------------------------------------------------
(* A frame, as the mirror applies it.                                        *)

\* The row of the mirror that the capped scroll brings is the one the op says.
LEMMA SourceIs ==
  ASSUME NEW s, Sane(s), s.offset = 0, NEW r \in RowIds, NEW q \in RowIds, From(s, r, q)
  PROVE  MirrorSource(s, r) = q
  <1>1. CASE s.scroll = {}
    <2>1. ScrollDelta(s) = {}
      BY <1>1 DEF ScrollDelta
    <2>2. q = r
      BY <1>1 DEF From
    <2>3. QED
      BY <2>1, <2>2 DEF MirrorSource
  <1>2. ASSUME NEW op \in ScrollOps, s.scroll = {op} PROVE MirrorSource(s, r) = q
    <2>1. PICK cap : cap = [op EXCEPT !.count = Lesser(Greater(op.count, -(op.bottom - op.top + 1)), op.bottom - op.top + 1)]
      OBVIOUS
    <2>2. ScrollDelta(s) = {cap}
      BY <1>2, <2>1 DEF ScrollDelta
    <2>3. op.top \in Nat /\ op.bottom \in Nat /\ op.count \in Int
      BY Sizes DEF ScrollOps
    <2>4. cap.top = op.top /\ cap.bottom = op.bottom
          /\ cap.count = Lesser(Greater(op.count, -(op.bottom - op.top + 1)), op.bottom - op.top + 1)
      BY <2>1 DEF ScrollOps
    <2>5. PICK shifts : shifts = {o \in ScrollDelta(s) : r \in o.top..o.bottom}
      OBVIOUS
    <2>6. MirrorSource(s, r) = IF shifts = {} THEN r
                               ELSE LET o == CHOOSE o \in shifts : TRUE
                                    IN  IF r + o.count \in o.top..o.bottom THEN r + o.count ELSE Blanked
      BY <2>5 DEF MirrorSource
    <2>7. CASE r \notin op.top..op.bottom
      <3>1. shifts = {}
        BY <2>2, <2>4, <2>5, <2>7
      <3>2. q = r
        BY <1>2, <2>7 DEF From
      <3>3. QED
        BY <2>6, <3>1, <3>2
    <2>8. CASE r \in op.top..op.bottom
      <3>1. shifts = {cap}
        BY <2>2, <2>4, <2>5, <2>8
      <3>2. (CHOOSE o \in shifts : TRUE) = cap /\ shifts # {}
        BY <3>1
      <3>3. q \in op.top..op.bottom /\ q = r + op.count /\ r \in Nat
        BY <1>2, <2>8, Sizes DEF From
      <3>4. cap.count = op.count
        BY <2>3, <2>4, <2>8, <3>3 DEF Lesser, Greater
      <3>5. QED
        BY <2>4, <2>6, <3>2, <3>3, <3>4
    <2>9. QED
      BY <2>7, <2>8
  <1>3. QED
    BY <1>1, <1>2 DEF Sane

LEMMA ViewIs ==
  ASSUME NEW s, Sane(s), s.offset = 0, NEW r \in RowIds
  PROVE  ViewRow(s, r) = s.grid[r]
  <1>1. PICK n \in Nat : n = Len(s.hist)
    BY DEF Sane, State
  <1>2. PICK i \in Nat : i = n - s.offset + r
    BY Sizes
  <1>3. ~(i < n) /\ i - n = r
    BY <1>2, Sizes
  <1>4. QED
    BY <1>1, <1>2, <1>3 DEF ViewRow

\* A good state's frame leaves the mirror with every cell and every flag.
LEMMA FrameIs ==
  ASSUME NEW s, s = t, Sane(s), mirrorWraps \in Flags, Good(s, mirrorWraps), s.offset = 0, NEW r \in RowIds
  PROVE  /\ \A c \in ColIds : MirrorHas(s, r, c)
         /\ MirrorWrap(s, r) = s.grid[r].wrapped
  <1>1. Blanked \notin RowIds
    BY Sizes DEF Blanked
  <1>2. \A c \in ColIds : Ships(s, r, c) <=> s.full \/ Damaged(s, r, c)
    BY DEF Ships, Damaged
  <1>3. ViewRow(s, r) = s.grid[r]
    BY ViewIs
  <1>4. ASSUME NEW c \in ColIds, ~Ships(s, r, c)
        PROVE  /\ MirrorSource(s, r) # Blanked /\ s.grid[r].cells[c] = At(MirrorSource(s, r), c)
               /\ c = Cols - 1 => s.grid[r].wrapped = mirrorWraps[MirrorSource(s, r)]
    <2>1. ~s.full /\ ~Damaged(s, r, c)
      BY <1>2, <1>4
    <2>2. Faithful(s, mirrorWraps)
      BY <2>1 DEF Good
    <2>3. PICK q \in RowIds : /\ From(s, r, q) /\ s.grid[r].cells[c] = At(q, c)
                              /\ c = Cols - 1 => s.grid[r].wrapped = mirrorWraps[q]
      BY <2>1, <2>2 DEF Faithful
    <2>4. MirrorSource(s, r) = q
      BY <2>3, SourceIs
    <2>5. QED
      BY <1>1, <2>3, <2>4
  <1>5. \A c \in ColIds : MirrorHas(s, r, c)
    BY <1>3, <1>4 DEF MirrorHas
  <1>6. MirrorWrap(s, r) = s.grid[r].wrapped
    <2>1. CASE Ships(s, r, Cols - 1)
      BY <1>3, <2>1 DEF MirrorWrap
    <2>2. CASE ~Ships(s, r, Cols - 1)
      <3>1. MirrorSource(s, r) # Blanked /\ s.grid[r].wrapped = mirrorWraps[MirrorSource(s, r)]
        BY <1>4, <2>2, Sizes
      <3>2. s.grid[r].wrapped \in BOOLEAN
        BY DEF Sane, State, RowType
      <3>3. QED
        BY <2>2, <3>1, <3>2 DEF MirrorWrap
    <2>3. QED
      BY <2>1, <2>2
  <1>7. QED
    BY <1>5, <1>6

LEMMA SeenIs ==
  ASSUME NEW s, NEW row \in RowType, NEW v
  PROVE  /\ Seen(s, row, v) \in RowType /\ Seen(s, row, v).wrapped = row.wrapped
         /\ \A c \in ColIds : Seen(s, row, v).cells[c] = IF v \in RowIds /\ MirrorHas(s, v, c) THEN At(v, c) ELSE Fresh
  <1>1. PICK cells : cells = [c \in ColIds |-> IF v \in RowIds /\ MirrorHas(s, v, c) THEN At(v, c) ELSE Fresh]
    OBVIOUS
  <1>2. \A c \in ColIds : v \in RowIds => At(v, c) \in Tags
    BY AtIs
  <1>3. cells \in [ColIds -> Tags]
    BY <1>1, <1>2, FreshIs
  <1>4. Seen(s, row, v) = [row EXCEPT !.cells = cells]
    BY <1>1 DEF Seen
  <1>5. Seen(s, row, v) \in RowType /\ Seen(s, row, v).wrapped = row.wrapped /\ Seen(s, row, v).cells = cells
    BY <1>3, <1>4 DEF RowType
  <1>6. QED
    BY <1>1, <1>5

LEMMA ViewRowIs ==
  ASSUME NEW s, Sane(s), NEW v \in RowIds
  PROVE  ViewRow(s, v) \in RowType
  <1>1. PICK h \in Seq(RowType), n \in Nat, offset \in Nat, g \in [RowIds -> RowType] :
          h = s.hist /\ n = Len(h) /\ offset = s.offset /\ g = s.grid /\ offset <= n
    BY DEF Sane, State
  <1>2. PICK idx \in Nat : idx = n - offset + v
    BY <1>1, Sizes
  <1>3. CASE idx < n
    BY <1>1, <1>2, <1>3 DEF ViewRow
  <1>4. CASE ~(idx < n)
    <2>1. PICK r \in Nat : r = idx - n
      BY <1>4
    <2>2. v \in Nat /\ v < Rows /\ Rows \in Nat
      BY Sizes
    <2>3. r < Rows
      BY <1>1, <1>2, <2>1, <2>2
    <2>4. r \in RowIds
      BY <2>2, <2>3 DEF RowIds
    <2>5. QED
      BY <1>1, <1>2, <1>4, <2>1, <2>4 DEF ViewRow
  <1>5. QED
    BY <1>3, <1>4

LEMMA AckHolds ==
  ASSUME NEW s, s = t, Sane(s), mirrorWraps \in Flags, Good(s, mirrorWraps), Ack
  PROVE  Sane(t') /\ mirrorWraps' \in Flags /\ Good(t', mirrorWraps')
  <1>1. PICK g \in [RowIds -> RowType], o \in [RowIds -> RowType], h \in Seq(RowType), offset \in Nat, n \in Nat :
          g = s.grid /\ o = s.other /\ h = s.hist /\ offset = s.offset /\ n = Len(h) /\ n <= Limit /\ offset <= n
    BY DEF Sane, State
  <1>2. PICK grid \in [RowIds -> RowType] : grid = [r \in RowIds |-> Seen(s, g[r], r + offset)]
    BY SeenIs
  <1>3. PICK other \in [RowIds -> RowType] : other = [r \in RowIds |-> Seen(s, o[r], Rows)]
    BY SeenIs
  <1>4. PICK hist \in Seq(RowType) : hist = [i \in 1..n |-> Seen(s, h[i], i - 1 - n + offset)] /\ Len(hist) = n
    <2>1. \A i \in 1..n : h[i] \in RowType
      BY <1>1
    <2>2. \A i \in 1..n : Seen(s, h[i], i - 1 - n + offset) \in RowType
      BY <2>1, SeenIs
    <2>3. PICK f : f = [i \in 1..n |-> Seen(s, h[i], i - 1 - n + offset)]
      OBVIOUS
    <2>4. f \in [1..n -> RowType]
      BY <2>2, <2>3
    <2>5. f \in Seq(RowType) /\ Len(f) = n
      BY <2>4
    <2>6. QED
      BY <2>3, <2>5
  <1>5. PICK damage \in [RowIds -> Spans] : damage = [r \in RowIds |-> Undamaged]
    BY DamageIs
  <1>6. PICK z, m : z = t' /\ m = mirrorWraps'
    OBVIOUS
  <1>7. z = [s EXCEPT !.grid = grid, !.other = other, !.hist = hist, !.damage = damage, !.scroll = {}, !.full = FALSE]
    BY <1>1, <1>2, <1>3, <1>4, <1>5, <1>6 DEF Ack
  <1>8. m = [r \in RowIds |-> MirrorWrap(s, r)]
    BY <1>6 DEF Ack
  <1>9. /\ z \in State /\ z.grid = grid /\ z.hist = hist /\ z.offset = offset /\ z.damage = damage /\ z.scroll = {}
        /\ z.top = s.top /\ z.bottom = s.bottom
    BY <1>1, <1>7 DEF Sane, State
  <1>10. Sane(z)
    BY <1>1, <1>4, <1>9 DEF Sane
  <1>11. m \in Flags
    <2>1. \A r \in RowIds : MirrorWrap(s, r) \in BOOLEAN
      <3> TAKE r \in RowIds
      <3>1. ViewRow(s, r).wrapped \in BOOLEAN
        BY ViewRowIs DEF RowType
      <3>2. QED
        BY <3>1 DEF MirrorWrap
    <2>2. QED
      BY <1>8, <2>1 DEF Flags
  <1>12. CASE offset = 0
    <2>1. ASSUME NEW r \in RowIds, NEW c \in ColIds
          PROVE  From(z, r, r) /\ z.grid[r].cells[c] = At(r, c) /\ z.grid[r].wrapped = m[r]
      <3>1. From(z, r, r)
        BY <1>9 DEF From
      <3>2. MirrorHas(s, r, c) /\ MirrorWrap(s, r) = g[r].wrapped
        BY <1>1, <1>12, FrameIs
      <3>3. r + offset = r
        BY <1>12, Sizes
      <3>4. z.grid[r] = Seen(s, g[r], r) /\ g[r] \in RowType
        BY <1>2, <1>9, <3>3
      <3>5. z.grid[r].cells[c] = At(r, c) /\ z.grid[r].wrapped = g[r].wrapped
        BY <3>2, <3>4, SeenIs
      <3>6. QED
        BY <1>8, <3>1, <3>2, <3>5
    <2>2. Faithful(z, m)
      BY <2>1 DEF Faithful
    <2>3. QED
      BY <1>6, <1>10, <1>11, <2>2 DEF Good
  <1>13. CASE offset # 0
    <2>1. z.offset > 0
      BY <1>9, <1>13
    <2>2. QED
      BY <1>6, <1>10, <1>11, <2>1 DEF Good
  <1>14. QED
    BY <1>12, <1>13

LEMMA InitHolds ==
  ASSUME Init
  PROVE  Inv
  <1>1. PICK n \in 0..Limit, top \in RowIds, bottom \in RowIds :
          /\ top < bottom
          /\ t = [grid   |-> [r \in RowIds |-> Row([c \in ColIds |-> At(r, c)], FALSE)],
                  other  |-> BlankGrid,
                  hist   |-> [i \in 1..n |-> BlankRow],
                  offset |-> 0, alt |-> FALSE,
                  top    |-> top, bottom |-> bottom,
                  row    |-> 0, col |-> 0, pend |-> FALSE,
                  damage |-> [r \in RowIds |-> Undamaged], scroll |-> {}, full |-> FALSE]
    BY DEF Init
  <1>2. mirrorWraps = [r \in RowIds |-> FALSE] /\ ops = 0
    BY DEF Init
  <1>3. n \in Nat /\ n <= Limit
    BY Sizes
  <1>4. PICK grid : grid = [r \in RowIds |-> Row([c \in ColIds |-> At(r, c)], FALSE)]
    OBVIOUS
  <1>5. grid \in [RowIds -> RowType]
    <2>1. ASSUME NEW r \in RowIds PROVE Row([c \in ColIds |-> At(r, c)], FALSE) \in RowType
      <3>1. [c \in ColIds |-> At(r, c)] \in [ColIds -> Tags]
        BY AtIs
      <3>2. QED
        BY <3>1 DEF Row, RowType
    <2>2. QED
      BY <1>4, <2>1
  <1>6. PICK other \in [RowIds -> RowType], damage \in [RowIds -> Spans] :
          other = BlankGrid /\ damage = [r \in RowIds |-> Undamaged]
    BY FreshIs, DamageIs
  <1>7. PICK hist \in Seq(RowType) : hist = [i \in 1..n |-> BlankRow] /\ Len(hist) = n
    <2>1. PICK f : f = [i \in 1..n |-> BlankRow]
      OBVIOUS
    <2>2. f \in [1..n -> RowType]
      BY <2>1, FreshIs
    <2>3. f \in Seq(RowType) /\ Len(f) = n
      BY <1>3, <2>2
    <2>4. QED
      BY <2>1, <2>3
  <1>8. t = [grid |-> grid, other |-> other, hist |-> hist, offset |-> 0, alt |-> FALSE, top |-> top, bottom |-> bottom,
             row |-> 0, col |-> 0, pend |-> FALSE, damage |-> damage, scroll |-> {}, full |-> FALSE]
    BY <1>1, <1>4, <1>6, <1>7
  <1>9. t \in State
    BY <1>5, <1>8, Sizes DEF State
  <1>10. top <= bottom
    BY <1>1, Sizes
  <1>11. Sane(t)
    BY <1>3, <1>7, <1>8, <1>9, <1>10 DEF Sane
  <1>12. mirrorWraps \in Flags
    BY <1>2 DEF Flags
  <1>13. Faithful(t, mirrorWraps)
    <2>1. ASSUME NEW r \in RowIds, NEW c \in ColIds
          PROVE  From(t, r, r) /\ t.grid[r].cells[c] = At(r, c) /\ t.grid[r].wrapped = mirrorWraps[r]
      BY <1>2, <1>4, <1>8 DEF From, Row
    <2>2. QED
      BY <2>1 DEF Faithful
  <1>14. 0 \in 0..MaxOps
    BY FrameAssumption
  <1>15. QED
    BY <1>2, <1>11, <1>12, <1>13, <1>14 DEF Inv, Good

-----------------------------------------------------------------------------
(* The theorems.                                                             *)

\* A step is a verb, counted, or the ack.
LEMMA VerbFollows ==
  ASSUME NEW m, NEW s, s = t, Sane(s), Next
  PROVE  Ack \/ (Follows(s, t', m) /\ ops < MaxOps /\ ops' = ops + 1 /\ mirrorWraps' = mirrorWraps)
  <1> DEFINE Goal == Ack \/ (Follows(s, t', m) /\ ops < MaxOps /\ ops' = ops + 1 /\ mirrorWraps' = mirrorWraps)
  <1>1. CASE WriteGlyph
    BY <1>1, WriteGlyphFollows DEF WriteGlyph, Change
  <1>2. CASE Linefeed
    BY <1>2, LinefeedFollows DEF Linefeed, Change
  <1>3. CASE ReverseIndex
    BY <1>3, ReverseIndexFollows DEF ReverseIndex, Change
  <1>4. ASSUME NEW r \in RowIds, NEW c \in ColIds, Goto(r, c) PROVE Goal
    BY <1>4, GotoFollows DEF Goto, Change
  <1>5. ASSUME NEW top \in RowIds, NEW bottom \in RowIds, top < bottom, SetScrollRegion(top, bottom) PROVE Goal
    BY <1>5, SetScrollRegionFollows DEF SetScrollRegion, Change
  <1>6. ASSUME NEW mode \in 0..3, EraseDisplay(mode) PROVE Goal
    BY <1>6, EraseDisplayFollows DEF EraseDisplay, Change
  <1>7. ASSUME NEW mode \in 0..2, EraseLine(mode) PROVE Goal
    BY <1>7, EraseLineFollows DEF EraseLine, Change
  <1>8. ASSUME NEW n \in 1..MaxCount PROVE n \in Nat
    OBVIOUS
  <1>9. ASSUME NEW n \in 1..MaxCount, EraseChars(n) PROVE Goal
    BY <1>8, <1>9, EraseCharsFollows DEF EraseChars, Change
  <1>10. ASSUME NEW n \in 1..MaxCount, InsertChars(n) PROVE Goal
    BY <1>8, <1>10, InsertCharsFollows DEF InsertChars, Change
  <1>11. ASSUME NEW n \in 1..MaxCount, DeleteChars(n) PROVE Goal
    BY <1>8, <1>11, DeleteCharsFollows DEF DeleteChars, Change
  <1>12. ASSUME NEW n \in 1..MaxCount, NEW down \in BOOLEAN, ScrollLines(n, down) PROVE Goal
    BY <1>8, <1>12, ScrollLinesFollows DEF ScrollLines, Change
  <1>13. ASSUME NEW n \in 1..MaxCount, NEW down \in BOOLEAN, EditLines(n, down) PROVE Goal
    BY <1>8, <1>13, EditLinesFollows DEF EditLines, Change
  <1>14. CASE SwitchToAlt
    BY <1>14, SwitchToAltFollows DEF SwitchToAlt, Change
  <1>15. CASE SwitchToPrimary
    BY <1>15, SwitchToPrimaryFollows DEF SwitchToPrimary, Change
  <1>16. CASE Clear
    BY <1>16, ClearFollows DEF Clear, Change
  <1>17. ASSUME NEW offset \in 0..Len(t.hist), SetDisplayOffset(offset) PROVE Goal
    BY <1>17, SetDisplayOffsetFollows DEF SetDisplayOffset, Change
  <1>18. CASE Reattach
    BY <1>18, ReattachFollows DEF Reattach, Change
  <1>19. CASE FullReset
    BY <1>19, FullResetFollows DEF FullReset, Change
  <1>20. CASE Ack
    BY <1>20
  <1>21. QED
    BY <1>1, <1>2, <1>3, <1>4, <1>5, <1>6, <1>7, <1>9, <1>10, <1>11, <1>12, <1>13, <1>14, <1>15, <1>16, <1>17,
       <1>18, <1>19, <1>20 DEF Next

LEMMA NextHolds ==
  ASSUME Inv, Next
  PROVE  Inv'
  <1>1. PICK s, m : s = t /\ m = mirrorWraps
    OBVIOUS
  <1>2. Sane(s) /\ m \in Flags /\ Good(s, m) /\ ops \in 0..MaxOps
    BY <1>1 DEF Inv
  <1>3. CASE Ack
    <2>1. Sane(t') /\ mirrorWraps' \in Flags /\ Good(t', mirrorWraps')
      BY <1>1, <1>2, <1>3, AckHolds
    <2>2. ops' = ops
      BY <1>3 DEF Ack
    <2>3. QED
      BY <1>2, <2>1, <2>2 DEF Inv
  <1>4. CASE Follows(s, t', m) /\ ops < MaxOps /\ ops' = ops + 1 /\ mirrorWraps' = mirrorWraps
    <2>1. PICK z : z = t'
      OBVIOUS
    <2>2. Sane(z) /\ Good(z, m)
      BY <1>2, <1>4, <2>1 DEF Follows
    <2>3. ops' \in 0..MaxOps
      BY <1>2, <1>4, FrameAssumption
    <2>4. QED
      BY <1>1, <1>2, <1>4, <2>1, <2>2, <2>3 DEF Inv
  <1>5. QED
    BY <1>1, <1>2, <1>3, <1>4, VerbFollows

\* In every reachable state a cell of the screen is damaged or where the scroll op will
\* bring it from, while the frame is not Full and the view is at the bottom.
THEOREM InvHolds == Spec => []Inv
  <1>1. Init => Inv
    BY InitHolds
  <1>2. Inv /\ [Next]_vars => Inv'
    <2> SUFFICES ASSUME Inv, [Next]_vars PROVE Inv'
      OBVIOUS
    <2>1. CASE Next
      BY <2>1, NextHolds
    <2>2. CASE UNCHANGED vars
      BY <2>2 DEF vars, Inv
    <2>3. QED
      BY <2>1, <2>2
  <1>3. QED
    BY <1>1, <1>2, PTL DEF Spec

LEMMA InvIsFaithful ==
  ASSUME Inv
  PROVE  MirrorIsFaithful
  <1>1. PICK s : s = t
    OBVIOUS
  <1>2. s \in State /\ Sane(s) /\ Good(s, mirrorWraps) /\ mirrorWraps \in Flags /\ ops \in 0..MaxOps
    BY <1>1 DEF Inv, Sane
  <1>3. Cardinality(s.scroll) <= 1
    <2>1. Cardinality({}) = 0
      BY FS_EmptySet
    <2>2. \A op : Cardinality({op}) = 1
      BY FS_Singleton
    <2>3. Cardinality(s.scroll) = 0 \/ Cardinality(s.scroll) = 1
      BY <1>2, <2>1, <2>2 DEF Sane
    <2>4. QED
      BY <2>3
  <1>4. TypeOK
    <2>1. Len(s.hist) <= Limit /\ s.offset \in 0..Len(s.hist) /\ \A i \in 1..Len(s.hist) : s.hist[i] \in RowType
      BY <1>2 DEF Sane, State
    <2>2. /\ s.grid \in [RowIds -> RowType] /\ s.other \in [RowIds -> RowType] /\ s.alt \in BOOLEAN
          /\ s.top \in RowIds /\ s.bottom \in RowIds /\ s.row \in RowIds /\ s.col \in ColIds /\ s.pend \in BOOLEAN
          /\ s.damage \in [RowIds -> [left : 0..Cols, right : ColIds]] /\ s.full \in BOOLEAN
      BY <1>2 DEF State, Spans
    <2>3. QED
      BY <1>1, <1>2, <1>3, <2>1, <2>2 DEF TypeOK, Flags
  <1>5. ASSUME s.offset = 0, NEW r \in RowIds
        PROVE  (\A c \in ColIds : MirrorHas(s, r, c)) /\ MirrorWrap(s, r) = ViewRow(s, r).wrapped
    <2>1. (\A c \in ColIds : MirrorHas(s, r, c)) /\ MirrorWrap(s, r) = s.grid[r].wrapped
      BY <1>1, <1>2, <1>5, FrameIs
    <2>2. ViewRow(s, r) = s.grid[r]
      BY <1>2, <1>5, ViewIs
    <2>3. QED
      BY <2>1, <2>2
  <1>6. FrameIsFaithful
    BY <1>1, <1>5 DEF FrameIsFaithful
  <1>7. WrapsAreFaithful
    BY <1>1, <1>5 DEF WrapsAreFaithful
  <1>8. QED
    BY <1>4, <1>6, <1>7 DEF MirrorIsFaithful

\* A consumer that applies the frames shows the screen, of any size and after any verbs:
\* record_scroll's rotated damage, cap_scroll and the Full fallbacks leave no cell behind.
THEOREM MirrorStaysFaithful == Spec => []MirrorIsFaithful
  <1>1. Inv => MirrorIsFaithful
    BY InvIsFaithful
  <1>2. QED
    BY <1>1, InvHolds, PTL

LEMMA SteadyIsStill ==
  ASSUME NEW s, NEW z, Sane(s), Sane(z), Steady(s, z), s.offset >= Rows, z.offset >= Rows, ~z.full, NEW v \in RowIds
  PROVE  ViewRow(z, v).cells = ViewRow(s, v).cells
  <1>1. PICK n \in Nat, k \in Nat, a \in Nat, b \in Nat :
          n = Len(s.hist) /\ k = Len(z.hist) /\ a = s.offset /\ b = z.offset /\ a <= n /\ b <= k
    BY DEF Sane, State
  <1>2. k - b = n - a /\ n <= k /\ \A i \in 1..n : z.hist[i].cells = s.hist[i].cells
    BY <1>1, Sizes DEF Steady, SameLines
  <1>3. PICK idx \in Nat : idx = n - a + v
    BY <1>1, Sizes
  <1>4. v \in Nat /\ Rows \in Nat /\ v < Rows /\ Rows <= a /\ Rows <= b
    BY <1>1, Sizes
  <1>5. idx < n /\ idx = k - b + v /\ idx < k
    BY <1>4, <1>2, <1>3
  <1>6. Len(s.hist) - s.offset + v = idx /\ Len(z.hist) - z.offset + v = idx
    BY <1>1, <1>3, <1>5
  <1>7. idx < Len(s.hist) /\ idx < Len(z.hist)
    BY <1>1, <1>5
  <1>8. ViewRow(s, v) = s.hist[idx + 1] /\ ViewRow(z, v) = z.hist[idx + 1]
    BY <1>6, <1>7 DEF ViewRow
  <1>9. idx + 1 \in 1..n
    BY <1>5
  <1>10. QED
    BY <1>2, <1>8, <1>9

LEMMA StepIsStill ==
  ASSUME Inv, [Next]_vars, ops' > ops, t.offset >= Rows, t'.offset >= Rows, ~t'.full, NEW v \in RowIds
  PROVE  ViewRow(t', v).cells = ViewRow(t, v).cells
  <1>1. PICK s, z : s = t /\ z = t'
    OBVIOUS
  <1>2. ops \in Nat /\ Sane(s)
    BY <1>1 DEF Inv
  <1>3. Next /\ ~Ack
    BY <1>2 DEF vars, Ack
  <1>4. Follows(s, z, mirrorWraps)
    <2>1. PICK m : m = mirrorWraps
      OBVIOUS
    <2>2. Follows(s, t', m)
      BY <1>1, <1>2, <1>3, VerbFollows
    <2>3. QED
      BY <1>1, <2>1, <2>2
  <1>5. Sane(z) /\ Steady(s, z)
    BY <1>4 DEF Follows
  <1>6. ViewRow(z, v).cells = ViewRow(s, v).cells
    BY <1>1, <1>2, <1>5, SteadyIsStill
  <1>7. QED
    BY <1>1, <1>6

\* What a program writes does not move a view scrolled into history past the screen:
\* the history pushed under it moves its offset along, unless the frame is Full.
THEOREM FrozenViewStaysStill == Spec => FrozenViewIsStill
  <1>1. Inv /\ [Next]_vars =>
          [ops' > ops /\ t.offset >= Rows /\ t'.offset >= Rows /\ ~t'.full =>
             \A v \in RowIds : ViewRow(t', v).cells = ViewRow(t, v).cells]_vars
    BY StepIsStill
  <1>2. QED
    BY <1>1, InvHolds, PTL DEF Spec, FrozenViewIsStill

----------------------------------------------------------------------------
(* RenderSurface: the tables of the renderer. *)
Views == {NoView} \cup (Keys \X Densities)
Grid == [key : Keys, config : Nat, gen : Nat, view : Views, sized : BOOLEAN, hidden : BOOLEAN, dirty : BOOLEAN,
         shown : BOOLEAN, want : Nat, inst : Nat, uploaded : Nat, data : Nat]
FontConfig == [id : Nat \ {0}, key : Keys, refs : Nat \ {0}, gen : Nat, dpr : Densities]
Renderer == [pipe : Nat, dpr : Densities, grids : Seq(Grid), configs : SUBSET FontConfig, next : Nat \ {0}, added : Nat]
\* Every configuration has an id and a key of its own, every grid has one, and what a grid
\* takes for uploaded is what its buffer holds.
Tables(G) ==
  /\ G \in Renderer
  /\ \A c, d \in G.configs : c.id = d.id \/ c.key = d.key => c = d
  /\ \A c \in G.configs : c.id < G.next
  /\ \A i \in DOMAIN G.grids : \E c \in G.configs : c.id = G.grids[i].config
  /\ \A i \in DOMAIN G.grids : G.grids[i].data = G.grids[i].uploaded
\* The references are those of the grids, and one more of the configuration in hand.
Users(grids, id) == {i \in DOMAIN grids : grids[i].config = id}
Owned(c, id) == IF c.id = id THEN 1 ELSE 0
Booked(G, id) == \A c \in G.configs : c.refs = Cardinality(Users(G.grids, c.id)) + Owned(c, id)
\* A configuration but for its references.
SameFont(c, d) == c.id = d.id /\ c.key = d.key /\ c.gen = d.gen /\ c.dpr = d.dpr

LEMMA UsersCount ==
  ASSUME NEW grids \in Seq(Grid), NEW id
  PROVE  /\ IsFiniteSet(Users(grids, id)) /\ Cardinality(Users(grids, id)) \in Nat
         /\ Cardinality(Users(grids, id)) = 0 <=> Users(grids, id) = {}
  <1>1. DOMAIN grids = 1..Len(grids) /\ Len(grids) \in Nat
    OBVIOUS
  <1>2. IsFiniteSet(DOMAIN grids)
    BY <1>1, FS_Interval
  <1>3. Users(grids, id) \in SUBSET (DOMAIN grids)
    BY DEF Users
  <1>4. IsFiniteSet(Users(grids, id))
    BY <1>2, <1>3, FS_Subset
  <1>5. QED
    BY <1>4, FS_CardinalityType, FS_EmptySet

LEMMA ConfigIs ==
  ASSUME NEW G, Tables(G), NEW c \in G.configs
  PROVE  Config(G, c.id) = c
  BY DEF Config, Tables

LEMMA ConfigOfGrid ==
  ASSUME NEW G, Tables(G), NEW i \in DOMAIN G.grids, NEW c, c = Config(G, G.grids[i].config)
  PROVE  c \in G.configs /\ c.id = G.grids[i].config
  BY DEF Config, Tables

LEMMA RendererIs ==
  ASSUME NEW G \in Renderer
  PROVE  /\ G = [pipe |-> G.pipe, dpr |-> G.dpr, grids |-> G.grids, configs |-> G.configs, next |-> G.next, added |-> G.added]
         /\ G.pipe \in Nat /\ G.dpr \in Densities /\ G.grids \in Seq(Grid) /\ G.configs \in SUBSET FontConfig
         /\ G.next \in Nat \ {0} /\ G.added \in Nat
         /\ DOMAIN G.grids = 1..Len(G.grids) /\ Len(G.grids) \in Nat
         /\ \A i \in DOMAIN G.grids : G.grids[i] \in Grid
  BY DEF Renderer

LEMMA NewConfigs ==
  ASSUME NEW G, NEW cs, G \in Renderer, cs \in SUBSET FontConfig, NEW H, H = [G EXCEPT !.configs = cs]
  PROVE  /\ H \in Renderer /\ H.configs = cs /\ H.grids = G.grids /\ H.dpr = G.dpr /\ H.pipe = G.pipe
         /\ H.added = G.added /\ H.next = G.next
  BY DEF Renderer

LEMMA NewGrids ==
  ASSUME NEW G, NEW gs, G \in Renderer, gs \in Seq(Grid), NEW H, H = [G EXCEPT !.grids = gs]
  PROVE  /\ H \in Renderer /\ H.configs = G.configs /\ H.grids = gs /\ H.dpr = G.dpr /\ H.pipe = G.pipe
         /\ H.added = G.added /\ H.next = G.next
  BY DEF Renderer

LEMMA MoreRefs ==
  ASSUME NEW c \in FontConfig, NEW n \in Nat \ {0}, NEW d, d = [c EXCEPT !.refs = n]
  PROVE  d \in FontConfig /\ SameFont(d, c) /\ d.refs = n
  BY DEF FontConfig, SameFont

\* Only whose configuration a grid has counts.
LEMMA UsersSame ==
  ASSUME NEW gs \in Seq(Grid), NEW hs \in Seq(Grid), Len(hs) = Len(gs), NEW id, \A i \in DOMAIN gs : hs[i].config = gs[i].config
  PROVE  Users(hs, id) = Users(gs, id)
  <1>1. DOMAIN hs = 1..Len(gs) /\ DOMAIN gs = 1..Len(gs)
    OBVIOUS
  <1>2. QED
    BY <1>1 DEF Users

LEMMA UsersMoved ==
  ASSUME NEW gs \in Seq(Grid), NEW i \in DOMAIN gs, NEW g \in Grid, NEW hs, hs = [gs EXCEPT ![i] = g], NEW id
  PROVE  /\ g.config = id /\ gs[i].config # id => Cardinality(Users(hs, id)) = Cardinality(Users(gs, id)) + 1
         /\ g.config # id /\ gs[i].config = id => Cardinality(Users(gs, id)) = Cardinality(Users(hs, id)) + 1
         /\ (g.config = id <=> gs[i].config = id) => Cardinality(Users(hs, id)) = Cardinality(Users(gs, id))
  <1>1. DOMAIN hs = DOMAIN gs /\ hs[i] = g /\ (\A j \in DOMAIN gs : j # i => hs[j] = gs[j]) /\ hs \in Seq(Grid)
    OBVIOUS
  <1>2. CASE g.config = id /\ gs[i].config # id
    <2>1. Users(hs, id) = Users(gs, id) \cup {i} /\ i \notin Users(gs, id)
      BY <1>1, <1>2 DEF Users
    <2>2. Cardinality(Users(gs, id) \cup {i}) = Cardinality(Users(gs, id)) + 1
      BY <2>1, UsersCount, FS_AddElement
    <2>3. QED
      BY <1>2, <2>1, <2>2
  <1>3. CASE g.config # id /\ gs[i].config = id
    <2>1. Users(gs, id) = Users(hs, id) \cup {i} /\ i \notin Users(hs, id)
      BY <1>1, <1>3 DEF Users
    <2>2. Cardinality(Users(hs, id) \cup {i}) = Cardinality(Users(hs, id)) + 1
      BY <1>1, <2>1, UsersCount, FS_AddElement
    <2>3. QED
      BY <1>3, <2>1, <2>2
  <1>4. CASE g.config = id <=> gs[i].config = id
    <2>1. Users(gs, id) = Users(hs, id)
      BY <1>1, <1>4 DEF Users
    <2>2. QED
      BY <1>4, <2>1
  <1>5. QED
    BY <1>2, <1>3, <1>4

\* hs has one user of the configuration of g more than gs has.
OneMore(gs, hs, g) == \A id : Cardinality(Users(hs, id)) = Cardinality(Users(gs, id)) + (IF g.config = id THEN 1 ELSE 0)

LEMMA UsersAppended ==
  ASSUME NEW gs \in Seq(Grid), NEW g \in Grid, NEW hs, hs = Append(gs, g)
  PROVE  OneMore(gs, hs, g)
  <1> SUFFICES ASSUME NEW id PROVE Cardinality(Users(hs, id)) = Cardinality(Users(gs, id)) + (IF g.config = id THEN 1 ELSE 0)
    BY DEF OneMore
  <1>1. DOMAIN gs = 1..Len(gs) /\ Len(gs) \in Nat /\ DOMAIN hs = 1..(Len(gs) + 1) /\ hs[Len(gs) + 1] = g
        /\ \A j \in DOMAIN gs : hs[j] = gs[j]
    OBVIOUS
  <1>2. Len(gs) + 1 \notin Users(gs, id)
    BY <1>1 DEF Users
  <1>3. CASE g.config = id
    <2>1. Users(hs, id) = Users(gs, id) \cup {Len(gs) + 1}
      BY <1>1, <1>3 DEF Users
    <2>2. Cardinality(Users(gs, id) \cup {Len(gs) + 1}) = Cardinality(Users(gs, id)) + 1
      BY <1>2, UsersCount, FS_AddElement
    <2>3. QED
      BY <1>3, <2>1, <2>2
  <1>4. CASE g.config # id
    <2>1. Users(hs, id) = Users(gs, id)
      BY <1>1, <1>4 DEF Users
    <2>2. QED
      BY <1>4, <2>1, UsersCount
  <1>5. QED
    BY <1>3, <1>4

\* A list without one of its grids.
RestOf(gs, hs, i) ==
  /\ hs \in Seq(Grid) /\ Len(hs) = Len(gs) - 1
  /\ \A j \in DOMAIN hs : (j < i /\ j \in DOMAIN gs /\ hs[j] = gs[j]) \/ (j >= i /\ j + 1 \in DOMAIN gs /\ hs[j] = gs[j + 1])

LEMMA WithoutIs ==
  ASSUME NEW gs \in Seq(Grid), NEW i \in DOMAIN gs, NEW hs, hs = Without(gs, i)
  PROVE  RestOf(gs, hs, i)
  <1>1. PICK n \in Nat : n = Len(gs) - 1 /\ DOMAIN gs = 1..(n + 1) /\ i \in 1..(n + 1)
    <2>1. Len(gs) \in Nat /\ DOMAIN gs = 1..Len(gs)
      OBVIOUS
    <2>2. Len(gs) - 1 \in Nat /\ (Len(gs) - 1) + 1 = Len(gs)
      BY <2>1
    <2>3. QED
      BY <2>1, <2>2
  <1>2. hs = [j \in 1..n |-> IF j < i THEN gs[j] ELSE gs[j + 1]]
    BY <1>1 DEF Without
  <1>3. \A j \in 1..n : j \in DOMAIN gs /\ j + 1 \in DOMAIN gs
    BY <1>1
  <1>4. \A j \in 1..n : gs[j] \in Grid /\ gs[j + 1] \in Grid
    BY <1>3
  <1>5. hs \in [1..n -> Grid]
    BY <1>2, <1>4
  <1>6. hs \in Seq(Grid) /\ Len(hs) = n /\ DOMAIN hs = 1..n
    BY <1>5
  <1>7. QED
    BY <1>1, <1>2, <1>3, <1>6 DEF RestOf

LEMMA UsersWithout ==
  ASSUME NEW gs \in Seq(Grid), NEW i \in DOMAIN gs, NEW hs, hs = Without(gs, i)
  PROVE  OneMore(hs, gs, gs[i])
  <1> SUFFICES ASSUME NEW id PROVE Cardinality(Users(gs, id)) = Cardinality(Users(hs, id)) + (IF gs[i].config = id THEN 1 ELSE 0)
    BY DEF OneMore
  <1>0. PICK rest : rest = Users(gs, id) \ {i}
    OBVIOUS
  <1>1. PICK n \in Nat : n + 1 = Len(gs) /\ DOMAIN gs = 1..(n + 1) /\ i \in 1..(n + 1) /\ DOMAIN hs = 1..n
    <2>1. Len(gs) \in Nat /\ DOMAIN gs = 1..Len(gs) /\ hs \in Seq(Grid) /\ Len(hs) = Len(gs) - 1
      BY WithoutIs DEF RestOf
    <2>2. Len(gs) - 1 \in Nat /\ (Len(gs) - 1) + 1 = Len(gs) /\ DOMAIN hs = 1..(Len(gs) - 1)
      BY <2>1
    <2>3. QED
      BY <2>1, <2>2
  <1>2. PICK f : f = [j \in Users(hs, id) |-> IF j < i THEN j ELSE j + 1]
    OBVIOUS
  <1>3. hs \in Seq(Grid) /\ \A j \in 1..n : hs[j] = (IF j < i THEN gs[j] ELSE gs[j + 1])
    BY <1>1, WithoutIs DEF Without, RestOf
  <1>4. f \in Bijection(Users(hs, id), rest)
    <2>1. ASSUME NEW j \in Users(hs, id) PROVE f[j] \in rest
      BY <1>0, <1>1, <1>2, <1>3, <2>1 DEF Users
    <2>2. f \in [Users(hs, id) -> rest]
      BY <1>2, <2>1
    <2>3. \A j, k \in Users(hs, id) : f[j] = f[k] => j = k
      BY <1>1, <1>2 DEF Users
    <2>4. ASSUME NEW k \in rest PROVE \E j \in Users(hs, id) : f[j] = k
      <3>1. k \in 1..(n + 1) /\ k # i /\ gs[k].config = id
        BY <1>0, <1>1, <2>4 DEF Users
      <3>2. CASE k < i
        <4>1. k \in 1..n /\ hs[k] = gs[k]
          BY <1>1, <1>3, <3>1, <3>2
        <4>2. k \in Users(hs, id)
          BY <1>1, <3>1, <4>1 DEF Users
        <4>3. QED
          BY <1>2, <3>2, <4>2
      <3>3. CASE k > i
        <4>1. PICK j \in Nat : k = j + 1 /\ j >= i /\ j \in 1..n
          BY <1>1, <3>1, <3>3
        <4>2. hs[j] = gs[k]
          BY <1>1, <1>3, <3>1, <4>1
        <4>3. j \in Users(hs, id)
          BY <1>1, <3>1, <4>1, <4>2 DEF Users
        <4>4. f[j] = k
          BY <1>1, <1>2, <4>1, <4>3
        <4>5. QED
          BY <4>3, <4>4
      <3>4. QED
        BY <1>1, <3>1, <3>2, <3>3
    <2>5. QED
      BY <2>2, <2>3, <2>4, Fun_IsBij
  <1>5. IsFiniteSet(Users(hs, id)) /\ IsFiniteSet(Users(gs, id))
    BY <1>3, UsersCount
  <1>6. Cardinality(Users(hs, id)) = Cardinality(rest)
    BY <1>4, <1>5, FS_Bijection, Fun_IsBij DEF ExistsBijection
  <1>7. CASE gs[i].config = id
    <2>1. i \in Users(gs, id)
      BY <1>7 DEF Users
    <2>2. Cardinality(rest) = Cardinality(Users(gs, id)) - 1
      BY <1>0, <1>5, <2>1, FS_RemoveElement
    <2>3. Cardinality(Users(gs, id)) \in Nat
      BY UsersCount
    <2>4. QED
      BY <1>6, <1>7, <2>2, <2>3
  <1>8. CASE gs[i].config # id
    <2>1. rest = Users(gs, id)
      BY <1>0, <1>8 DEF Users
    <2>2. Cardinality(Users(gs, id)) \in Nat
      BY UsersCount
    <2>3. QED
      BY <1>6, <1>8, <2>1, <2>2
  <1>9. QED
    BY <1>7, <1>8

\* The same configurations, for grids that changed in nothing but their own.
LEMMA Regridded ==
  ASSUME NEW G, Tables(G), NEW id, Booked(G, id), NEW hs \in Seq(Grid), Len(hs) = Len(G.grids),
         \A i \in DOMAIN G.grids : hs[i].config = G.grids[i].config /\ hs[i].data = hs[i].uploaded,
         NEW H, H = [G EXCEPT !.grids = hs]
  PROVE  Tables(H) /\ Booked(H, id)
  <1>1. G \in Renderer /\ G.grids \in Seq(Grid)
    BY RendererIs DEF Tables
  <1>2. H \in Renderer /\ H.configs = G.configs /\ H.grids = hs /\ H.next = G.next
    BY <1>1, NewGrids
  <1>3. DOMAIN hs = DOMAIN G.grids
    BY <1>1
  <1>4. Tables(H)
    BY <1>2, <1>3 DEF Tables
  <1>5. \A x : Users(hs, x) = Users(G.grids, x)
    BY <1>1, UsersSame
  <1>6. Booked(H, id)
    BY <1>2, <1>5 DEF Booked
  <1>7. QED
    BY <1>4, <1>6

\* What a change of the configurations leaves, and where those that are new come from.
Same(G, H) == H.grids = G.grids /\ H.dpr = G.dpr /\ H.pipe = G.pipe
Descends(G, H, here) ==
  \A e \in H.configs : (\E d \in G.configs : SameFont(d, e)) \/ (e.id >= G.next /\ e.gen = here /\ e.dpr = G.dpr)
Got(G, H, key, here) ==
  Tables(H) /\ Same(G, H) /\ Descends(G, H, here) /\ \E c \in H.configs : c.key = key /\ Booked(H, c.id)

LEMMA RetainGives ==
  ASSUME NEW G, Tables(G), Booked(G, 0), NEW c \in G.configs, NEW here, NEW H, H = Retain(G, c)
  PROVE  Got(G, H, c.key, here)
  <1>1. G \in Renderer /\ c \in FontConfig /\ G.configs \in SUBSET FontConfig
    BY RendererIs DEF Tables
  <1>2. PICK d : d = [c EXCEPT !.refs = @ + 1]
    OBVIOUS
  <1>3. c.refs + 1 \in Nat \ {0} /\ d = [c EXCEPT !.refs = c.refs + 1]
    BY <1>1, <1>2 DEF FontConfig
  <1>4. d \in FontConfig /\ SameFont(d, c) /\ d.refs = c.refs + 1
    BY <1>1, <1>3, MoreRefs
  <1>5. PICK cs : cs = (G.configs \ {c}) \cup {d}
    OBVIOUS
  <1>6. H = [G EXCEPT !.configs = cs] /\ cs \in SUBSET FontConfig
    BY <1>1, <1>2, <1>4, <1>5 DEF Retain
  <1>7. H \in Renderer /\ H.configs = cs /\ Same(G, H) /\ H.next = G.next
    BY <1>1, <1>6, NewConfigs DEF Same
  <1>8. \A e, f \in cs : e.id = f.id \/ e.key = f.key => e = f
    BY <1>4, <1>5 DEF Tables, SameFont
  <1>9. \A e \in cs : e.id < G.next
    BY <1>4, <1>5 DEF Tables, SameFont
  <1>10. \A i \in DOMAIN G.grids : \E e \in cs : e.id = G.grids[i].config
    BY <1>4, <1>5 DEF Tables, SameFont
  <1>11. Tables(H)
    BY <1>7, <1>8, <1>9, <1>10 DEF Tables, Same
  <1>12. \A e \in cs : \E f \in G.configs : SameFont(f, e)
    BY <1>4, <1>5 DEF SameFont
  <1>13. d.key = c.key /\ d.id = c.id /\ d \in cs
    BY <1>4, <1>5 DEF SameFont
  <1>14. Booked(H, d.id)
    <2>1. SUFFICES ASSUME NEW e \in cs PROVE e.refs = Cardinality(Users(G.grids, e.id)) + Owned(e, d.id)
      BY <1>7 DEF Booked, Same
    <2>2. \A f \in G.configs : f.id # 0 /\ f.refs \in Nat /\ Cardinality(Users(G.grids, f.id)) \in Nat
          /\ f.refs = Cardinality(Users(G.grids, f.id)) + Owned(f, 0)
      BY <1>1, UsersCount, RendererIs DEF FontConfig, Booked
    <2>3. \A f \in G.configs : f.refs = Cardinality(Users(G.grids, f.id))
      BY <2>2 DEF Owned
    <2>4. CASE e = d
      <3>1. e.refs = Cardinality(Users(G.grids, c.id)) + 1
        BY <1>4, <2>3, <2>4
      <3>2. QED
        BY <1>13, <2>4, <3>1 DEF Owned
    <2>5. CASE e # d
      <3>1. e \in G.configs /\ e # c
        BY <1>5, <2>5
      <3>2. e.id # d.id
        BY <1>13, <3>1 DEF Tables
      <3>3. QED
        BY <2>2, <2>3, <3>1, <3>2 DEF Owned
    <2>6. QED
      BY <2>4, <2>5
  <1>15. QED
    BY <1>7, <1>11, <1>12, <1>13, <1>14 DEF Got, Descends

LEMMA BakeGives ==
  ASSUME NEW G, Tables(G), Booked(G, 0), NEW key \in Keys, Sharing(G, key) = {}, NEW here \in Nat, NEW H,
         H = [G EXCEPT !.next = @ + 1, !.configs = @ \cup
                 {[id |-> G.next, key |-> key, refs |-> 1, gen |-> here, dpr |-> G.dpr]}]
  PROVE  Got(G, H, key, here)
  <1>1. G \in Renderer /\ G.configs \in SUBSET FontConfig /\ G.next \in Nat \ {0} /\ G.dpr \in Densities
    BY RendererIs DEF Tables
  <1>2. PICK d : d = [id |-> G.next, key |-> key, refs |-> 1, gen |-> here, dpr |-> G.dpr]
    OBVIOUS
  <1>3. d \in FontConfig /\ d.id = G.next /\ d.key = key /\ d.refs = 1 /\ d.gen = here /\ d.dpr = G.dpr
    BY <1>1, <1>2 DEF FontConfig
  <1>4. PICK cs : cs = G.configs \cup {d}
    OBVIOUS
  <1>5. H = [G EXCEPT !.next = G.next + 1, !.configs = cs] /\ cs \in SUBSET FontConfig
    BY <1>1, <1>2, <1>3, <1>4
  <1>6. H \in Renderer /\ H.configs = cs /\ Same(G, H) /\ H.next = G.next + 1
    <2>1. PICK K : K = [G EXCEPT !.configs = cs]
      OBVIOUS
    <2>2. K \in Renderer /\ K.configs = cs /\ K.grids = G.grids /\ K.dpr = G.dpr /\ K.pipe = G.pipe
      BY <1>1, <1>5, <2>1, NewConfigs
    <2>3. H = [K EXCEPT !.next = G.next + 1]
      BY <1>1, <1>5, <2>1 DEF Renderer
    <2>4. PICK n \in Nat \ {0} : n = G.next + 1
      BY <1>1
    <2>5. H = [K EXCEPT !.next = n]
      BY <2>3, <2>4
    <2>6. H \in Renderer /\ H.configs = K.configs /\ H.grids = K.grids /\ H.dpr = K.dpr /\ H.pipe = K.pipe /\ H.next = n
      BY <2>2, <2>5 DEF Renderer
    <2>7. QED
      BY <2>2, <2>4, <2>6 DEF Same
  <1>7. \A e \in G.configs : e.key # key /\ e.id < G.next /\ e.id \in Nat \ {0}
    BY <1>1 DEF Tables, Sharing, FontConfig
  <1>8. \A e, f \in cs : e.id = f.id \/ e.key = f.key => e = f
    BY <1>1, <1>3, <1>4, <1>7 DEF Tables
  <1>9. \A e \in cs : e.id < G.next + 1
    BY <1>1, <1>3, <1>4, <1>7
  <1>10. \A i \in DOMAIN G.grids : \E e \in cs : e.id = G.grids[i].config
    BY <1>4 DEF Tables
  <1>11. Tables(H)
    BY <1>6, <1>8, <1>9, <1>10 DEF Tables, Same
  <1>12. Descends(G, H, here)
    BY <1>1, <1>3, <1>4, <1>6 DEF Descends, SameFont
  <1>13. Booked(H, d.id)
    <2>1. SUFFICES ASSUME NEW e \in cs PROVE e.refs = Cardinality(Users(G.grids, e.id)) + Owned(e, d.id)
      BY <1>6 DEF Booked, Same
    <2>2. CASE e = d
      <3>1. Users(G.grids, d.id) = {}
        BY <1>1, <1>3, <1>7 DEF Users, Tables
      <3>2. Cardinality(Users(G.grids, e.id)) = 0
        BY <2>2, <3>1, FS_EmptySet
      <3>3. QED
        BY <1>3, <2>2, <3>2 DEF Owned
    <2>3. CASE e # d
      <3>1. e \in G.configs
        BY <1>4, <2>3
      <3>2. e.id # d.id /\ e.id # 0
        BY <1>1, <1>3, <1>7, <3>1
      <3>3. QED
        BY <3>1, <3>2 DEF Owned, Booked
    <2>4. QED
      BY <2>2, <2>3
  <1>14. QED
    BY <1>3, <1>4, <1>6, <1>11, <1>12, <1>13 DEF Got

\* Either nothing was done, or the entry of the key is there, with a reference that nobody holds yet.
LEMMA AcquireGives ==
  ASSUME NEW G, Tables(G), Booked(G, 0), NEW key \in Keys, NEW here \in Nat, NEW fails \in BOOLEAN, NEW R,
         R = Acquire(G, key, here, fails)
  PROVE  (~R.ok /\ R.gl = G) \/ (R.ok /\ Got(G, R.gl, key, here))
  <1>1. CASE Sharing(G, key) # {}
    <2>1. PICK c : c = CHOOSE d \in Sharing(G, key) : TRUE
      OBVIOUS
    <2>2. c \in G.configs /\ c.key = key
      BY <1>1, <2>1 DEF Sharing
    <2>3. R.ok /\ R.gl = Retain(G, c)
      BY <1>1, <2>1 DEF Acquire, Fine
    <2>4. Got(G, R.gl, c.key, here)
      BY <2>2, <2>3, RetainGives
    <2>5. QED
      BY <2>2, <2>3, <2>4
  <1>2. CASE Sharing(G, key) = {} /\ fails
    BY <1>2 DEF Acquire, Refused
  <1>3. CASE Sharing(G, key) = {} /\ ~fails
    <2>1. R.ok /\ R.gl = [G EXCEPT !.next = @ + 1, !.configs = @ \cup
                 {[id |-> G.next, key |-> key, refs |-> 1, gen |-> here, dpr |-> G.dpr]}]
      BY <1>3 DEF Acquire, Fine
    <2>2. Got(G, R.gl, key, here)
      BY <1>3, <2>1, BakeGives
    <2>3. QED
      BY <2>1, <2>2
  <1>4. QED
    BY <1>1, <1>2, <1>3

\* A grid moves from the configuration old to c.
Moves(H, i, c, g, old) ==
  /\ c \in H.configs /\ i \in DOMAIN H.grids /\ old = H.grids[i].config /\ old # c.id
  /\ g \in Grid /\ g.config = c.id /\ g.data = g.uploaded
MovedTo(H, M, i, g) == /\ M.configs = H.configs /\ M.grids = [H.grids EXCEPT ![i] = g]
                       /\ M.dpr = H.dpr /\ M.pipe = H.pipe /\ M.next = H.next

LEMMA MovedGives ==
  ASSUME NEW H, Tables(H), NEW c, Booked(H, c.id), NEW i, NEW old, NEW g, Moves(H, i, c, g, old),
         NEW M, M = [H EXCEPT !.grids[i] = g]
  PROVE  Tables(M) /\ Booked(M, old) /\ MovedTo(H, M, i, g)
  <1>0. c \in H.configs /\ i \in DOMAIN H.grids /\ old = H.grids[i].config /\ old # c.id
        /\ g \in Grid /\ g.config = c.id /\ g.data = g.uploaded
    BY DEF Moves
  <1>1. H \in Renderer /\ H.grids \in Seq(Grid) /\ H.configs \in SUBSET FontConfig
    BY RendererIs DEF Tables
  <1>2. PICK hs : hs = [H.grids EXCEPT ![i] = g]
    OBVIOUS
  <1>3. hs \in Seq(Grid) /\ DOMAIN hs = DOMAIN H.grids /\ hs[i] = g /\ \A j \in DOMAIN hs : j # i => hs[j] = H.grids[j]
    BY <1>0, <1>1, <1>2
  <1>4. M = [H EXCEPT !.grids = hs]
    BY <1>0, <1>1, <1>2 DEF Renderer
  <1>5. M \in Renderer /\ M.configs = H.configs /\ M.grids = hs /\ M.dpr = H.dpr /\ M.pipe = H.pipe /\ M.next = H.next
    BY <1>0, <1>1, <1>3, <1>4, NewGrids
  <1>6. \A j \in DOMAIN hs : (\E d \in H.configs : d.id = hs[j].config) /\ hs[j].data = hs[j].uploaded
    BY <1>0, <1>3 DEF Tables
  <1>7. Tables(M)
    BY <1>0, <1>5, <1>6 DEF Tables
  <1>8. Booked(M, old)
    <2>1. SUFFICES ASSUME NEW d \in H.configs PROVE d.refs = Cardinality(Users(hs, d.id)) + Owned(d, old)
      BY <1>0, <1>5 DEF Booked
    <2>2. d.refs = Cardinality(Users(H.grids, d.id)) + Owned(d, c.id)
      BY <1>0 DEF Booked
    <2>3. Cardinality(Users(hs, d.id)) \in Nat /\ Cardinality(Users(H.grids, d.id)) \in Nat
      BY <1>0, <1>1, <1>3, UsersCount
    <2>4. CASE d.id = c.id
      <3>1. Cardinality(Users(hs, d.id)) = Cardinality(Users(H.grids, d.id)) + 1
        BY <1>0, <1>1, <1>2, <2>4, UsersMoved
      <3>2. QED
        BY <1>0, <2>2, <2>3, <2>4, <3>1 DEF Owned
    <2>5. CASE d.id = old
      <3>1. Cardinality(Users(H.grids, d.id)) = Cardinality(Users(hs, d.id)) + 1
        BY <1>0, <1>1, <1>2, <2>5, UsersMoved
      <3>2. QED
        BY <1>0, <2>2, <2>3, <2>5, <3>1 DEF Owned
    <2>6. CASE d.id # c.id /\ d.id # old
      <3>1. Cardinality(Users(hs, d.id)) = Cardinality(Users(H.grids, d.id))
        BY <1>0, <1>1, <1>2, <2>6, UsersMoved
      <3>2. QED
        BY <1>0, <2>2, <2>3, <2>6, <3>1 DEF Owned
    <2>7. QED
      BY <2>4, <2>5, <2>6
  <1>9. QED
    BY <1>2, <1>5, <1>7, <1>8 DEF MovedTo

LEMMA ReleaseGives ==
  ASSUME NEW M, Tables(M), NEW c \in M.configs, Booked(M, c.id), NEW D, D = ReleaseConfig(M, c.id)
  PROVE  Tables(D) /\ Booked(D, 0) /\ Same(M, D) /\ D.next = M.next /\ \A e \in D.configs : \E d \in M.configs : SameFont(d, e)
  <1>1. M \in Renderer /\ M.grids \in Seq(Grid) /\ M.configs \in SUBSET FontConfig /\ c \in FontConfig
    BY RendererIs DEF Tables
  <1>2. Config(M, c.id) = c
    BY ConfigIs
  <1>3. PICK d : d = [c EXCEPT !.refs = @ - 1]
    OBVIOUS
  <1>4. PICK cs : cs = (M.configs \ {c}) \cup (IF c.refs > 1 THEN {d} ELSE {})
    OBVIOUS
  <1>5. D = [M EXCEPT !.configs = cs]
    BY <1>2, <1>3, <1>4 DEF ReleaseConfig
  <1>6. ASSUME c.refs > 1 PROVE d \in FontConfig /\ SameFont(d, c) /\ d.refs = c.refs - 1
    <2>1. PICK n \in Nat \ {0} : n = c.refs - 1
      BY <1>1, <1>6 DEF FontConfig
    <2>2. d = [c EXCEPT !.refs = n]
      BY <1>3, <2>1
    <2>3. QED
      BY <1>1, <2>1, <2>2, MoreRefs
  <1>7. cs \in SUBSET FontConfig
    BY <1>1, <1>4, <1>6
  <1>8. D \in Renderer /\ D.configs = cs /\ Same(M, D) /\ D.next = M.next
    <2>1. D \in Renderer /\ D.configs = cs /\ D.grids = M.grids /\ D.dpr = M.dpr /\ D.pipe = M.pipe /\ D.next = M.next
      BY <1>1, <1>5, <1>7 DEF Renderer
    <2>2. QED
      BY <2>1 DEF Same
  <1>9. \A e \in cs : (e \in M.configs /\ e # c) \/ (c.refs > 1 /\ e = d)
    BY <1>4
  <1>10. \A e \in cs : \E f \in M.configs : SameFont(f, e)
    BY <1>6, <1>9 DEF SameFont
  <1>11. \A e, f \in cs : e.id = f.id \/ e.key = f.key => e = f
    BY <1>6, <1>9 DEF Tables, SameFont
  <1>12. \A e \in cs : e.id < M.next
    BY <1>10 DEF Tables, SameFont
  <1>13. c.refs = Cardinality(Users(M.grids, c.id)) + 1 /\ Cardinality(Users(M.grids, c.id)) \in Nat
    BY <1>1, UsersCount DEF Booked, Owned
  <1>14. \A i \in DOMAIN M.grids : \E e \in cs : e.id = M.grids[i].config
    <2>1. SUFFICES ASSUME NEW i \in DOMAIN M.grids PROVE \E e \in cs : e.id = M.grids[i].config
      OBVIOUS
    <2>2. PICK e \in M.configs : e.id = M.grids[i].config
      BY DEF Tables
    <2>3. CASE e # c
      BY <1>4, <2>2, <2>3
    <2>4. CASE e = c
      <3>1. i \in Users(M.grids, c.id)
        BY <2>2, <2>4 DEF Users
      <3>2. Cardinality(Users(M.grids, c.id)) # 0
        BY <1>1, <3>1, UsersCount
      <3>3. c.refs > 1
        BY <1>13, <3>2
      <3>4. QED
        BY <1>4, <1>6, <2>2, <2>4, <3>3 DEF SameFont
    <2>5. QED
      BY <2>3, <2>4
  <1>15. Tables(D)
    BY <1>8, <1>11, <1>12, <1>14 DEF Tables, Same
  <1>16. Booked(D, 0)
    <2>1. SUFFICES ASSUME NEW e \in cs PROVE e.refs = Cardinality(Users(M.grids, e.id)) + Owned(e, 0)
      BY <1>8 DEF Booked, Same
    <2>2. e \in FontConfig /\ e.id # 0
      BY <1>7 DEF FontConfig
    <2>3. CASE e \in M.configs /\ e # c
      <3>1. e.id # c.id
        BY <2>3 DEF Tables
      <3>2. QED
        BY <2>2, <2>3, <3>1 DEF Booked, Owned
    <2>4. CASE c.refs > 1 /\ e = d
      <3>1. e.id = c.id /\ e.refs = c.refs - 1
        BY <1>6, <2>4 DEF SameFont
      <3>2. QED
        BY <1>13, <2>2, <3>1 DEF Owned
    <2>5. QED
      BY <1>9, <2>3, <2>4
  <1>17. QED
    BY <1>8, <1>10, <1>15, <1>16

\* What a change of its configuration leaves of a grid, and what a grid has when it is of the font it asks for.
Kin(g, h) == /\ h.key = g.key /\ h.gen = g.gen /\ h.view = g.view /\ h.sized = g.sized /\ h.hidden = g.hidden
             /\ (h.shown => g.shown /\ h.uploaded = g.uploaded /\ h.inst = g.inst)
Fitted(G, i, key) == \A c \in G.configs : c.id = G.grids[i].config => c.key = key
Others(G, H, i) == \A j \in DOMAIN G.grids : j # i => H.grids[j] = G.grids[j]
Selected(G, H, i, key, here) ==
  /\ Tables(H) /\ Booked(H, 0) /\ H.pipe = G.pipe /\ H.dpr = G.dpr /\ Len(H.grids) = Len(G.grids)
  /\ Others(G, H, i) /\ Kin(G.grids[i], H.grids[i]) /\ Descends(G, H, here) /\ Fitted(H, i, key)

LEMMA SelectGives ==
  ASSUME NEW G, Tables(G), Booked(G, 0), NEW i \in DOMAIN G.grids, NEW key \in Keys, NEW here \in Nat, NEW fails \in BOOLEAN,
         NEW R, R = Select(G, i, key, here, fails)
  PROVE  (~R.ok /\ R.gl = G) \/ (R.ok /\ Selected(G, R.gl, i, key, here))
  <1>0. PICK old : old = G.grids[i].config
    OBVIOUS
  <1>1. G \in Renderer /\ G.grids \in Seq(Grid) /\ G.grids[i] \in Grid /\ Len(G.grids) \in Nat
    BY RendererIs DEF Tables
  <1>2. Config(G, old) \in G.configs /\ Config(G, old).id = old
    <2>1. PICK c : c = Config(G, old)
      OBVIOUS
    <2>2. c \in G.configs /\ c.id = G.grids[i].config
      BY <1>0, <2>1, ConfigOfGrid
    <2>3. QED
      BY <1>0, <2>1, <2>2
  <1>3. PICK got : got = Acquire(G, key, here, fails)
    OBVIOUS
  <1>4. (~got.ok /\ got.gl = G) \/ (got.ok /\ Got(G, got.gl, key, here))
    BY <1>3, AcquireGives
  <1>5. CASE Config(G, old).key = key
    <2>1. R.ok /\ R.gl = G
      BY <1>0, <1>5 DEF Select, Fine
    <2>2. Fitted(G, i, key)
      BY <1>0, <1>2, <1>5 DEF Fitted, Tables
    <2>3. Descends(G, G, here)
      BY DEF Descends, SameFont
    <2>4. Selected(G, G, i, key, here)
      BY <2>2, <2>3 DEF Selected, Others, Kin
    <2>5. QED
      BY <2>1, <2>4
  <1>6. CASE Config(G, old).key # key /\ ~got.ok
    BY <1>0, <1>3, <1>4, <1>6 DEF Select
  <1>7. CASE Config(G, old).key # key /\ got.ok
    <2>1. PICK H : H = got.gl
      OBVIOUS
    <2>2. Tables(H) /\ Same(G, H) /\ Descends(G, H, here)
      BY <1>4, <1>7, <2>1 DEF Got
    <2>3. PICK c \in H.configs : c.key = key /\ Booked(H, c.id)
      BY <1>4, <1>7, <2>1 DEF Got
    <2>4. c = CHOOSE d \in H.configs : d.key = key
      BY <2>2, <2>3 DEF Tables
    <2>5. PICK g : g = [G.grids[i] EXCEPT !.config = c.id, !.dirty = TRUE, !.shown = FALSE]
      OBVIOUS
    <2>6. H.configs \in SUBSET FontConfig /\ H.grids = G.grids /\ c.id \in Nat
      BY <2>2, <2>3, RendererIs DEF Tables, Same, FontConfig
    <2>7. g \in Grid /\ g.config = c.id /\ Kin(G.grids[i], g) /\ g.data = g.uploaded
      <3>1. G.grids[i].data = G.grids[i].uploaded
        BY DEF Tables
      <3>2. QED
        BY <1>1, <2>5, <2>6, <3>1 DEF Grid, Kin
    <2>8. PICK M : M = [H EXCEPT !.grids[i] = g]
      OBVIOUS
    <2>9. R.ok /\ R.gl = ReleaseConfig(M, old)
      BY <1>0, <1>3, <1>7, <2>1, <2>4, <2>5, <2>8 DEF Select, Fine
    <2>10. old # c.id
      <3>1. Config(G, old).id < G.next
        BY <1>2 DEF Tables
      <3>2. ASSUME c.id = old PROVE FALSE
        <4>1. PICK d \in G.configs : SameFont(d, c)
          <5>1. c.id < G.next
            BY <1>2, <3>1, <3>2
          <5>2. G.next \in Nat
            BY <1>1, RendererIs
          <5>3. QED
            BY <2>2, <2>6, <5>1, <5>2 DEF Descends
        <4>2. d = Config(G, old)
          BY <1>2, <3>2, <4>1 DEF SameFont, Tables
        <4>3. QED
          BY <1>7, <2>3, <4>1, <4>2 DEF SameFont
      <3>3. QED
        BY <3>2
    <2>11. Tables(M) /\ Booked(M, old) /\ M.configs = H.configs /\ M.grids = [H.grids EXCEPT ![i] = g]
           /\ M.dpr = H.dpr /\ M.pipe = H.pipe /\ M.next = H.next
      <3>1. i \in DOMAIN H.grids /\ old = H.grids[i].config
        BY <1>0, <2>6
      <3>2. Moves(H, i, c, g, old)
        BY <2>3, <2>7, <2>10, <3>1 DEF Moves
      <3>3. Tables(M) /\ Booked(M, old) /\ MovedTo(H, M, i, g)
        BY <2>2, <2>3, <2>8, <3>2, MovedGives
      <3>4. QED
        BY <3>3 DEF MovedTo
    <2>12. PICK d \in M.configs : d.id = old
      <3>1. \E d \in H.configs : d.id = H.grids[i].config
        BY <2>2, <2>6 DEF Tables
      <3>2. QED
        BY <1>0, <2>6, <2>11, <3>1
    <2>13. PICK D : D = ReleaseConfig(M, d.id)
      OBVIOUS
    <2>14. Tables(D) /\ Booked(D, 0) /\ Same(M, D) /\ D.next = M.next /\ \A e \in D.configs : \E f \in M.configs : SameFont(f, e)
      BY <2>11, <2>12, <2>13, ReleaseGives
    <2>15. Descends(G, D, here)
      BY <2>2, <2>11, <2>14 DEF Descends, SameFont
    <2>16. D.grids = [G.grids EXCEPT ![i] = g] /\ D.dpr = G.dpr /\ D.pipe = G.pipe
      BY <2>2, <2>6, <2>11, <2>14 DEF Same
    <2>17. D.grids[i] = g /\ Len(D.grids) = Len(G.grids) /\ Others(G, D, i)
      BY <1>1, <2>16 DEF Others
    <2>18. Fitted(D, i, key)
      <3>1. SUFFICES ASSUME NEW e \in D.configs, e.id = c.id PROVE e.key = key
        BY <2>7, <2>17 DEF Fitted
      <3>2. PICK f \in M.configs : SameFont(f, e)
        BY <2>14
      <3>3. f = c
        BY <2>2, <2>3, <2>11, <3>1, <3>2 DEF SameFont, Tables
      <3>4. QED
        BY <2>3, <3>2, <3>3 DEF SameFont
    <2>19. Selected(G, D, i, key, here)
      BY <2>7, <2>14, <2>15, <2>16, <2>17, <2>18 DEF Selected
    <2>20. QED
      BY <2>9, <2>12, <2>13, <2>19
  <1>8. QED
    BY <1>5, <1>6, <1>7

\* What drops some grids, and the configurations nobody else holds.
Less(G, H) ==
  /\ H.pipe = G.pipe /\ H.dpr = G.dpr
  /\ \A j \in DOMAIN H.grids : \E k \in DOMAIN G.grids : H.grids[j] = G.grids[k]
  /\ \A e \in H.configs : \E d \in G.configs : SameFont(d, e)

LEMMA RemovedGives ==
  ASSUME NEW G, Tables(G), Booked(G, 0), NEW i \in DOMAIN G.grids, NEW D, D = Removed(G, i)
  PROVE  Tables(D) /\ Booked(D, 0) /\ Len(D.grids) = Len(G.grids) - 1 /\ Less(G, D)
  <1>1. G \in Renderer /\ G.grids \in Seq(Grid) /\ G.configs \in SUBSET FontConfig
    BY RendererIs DEF Tables
  <1>2. PICK hs : hs = Without(G.grids, i)
    OBVIOUS
  <1>3. /\ hs \in Seq(Grid) /\ Len(hs) = Len(G.grids) - 1
        /\ \A j \in DOMAIN hs : (j < i /\ j \in DOMAIN G.grids /\ hs[j] = G.grids[j])
                                \/ (j >= i /\ j + 1 \in DOMAIN G.grids /\ hs[j] = G.grids[j + 1])
    <2>1. RestOf(G.grids, hs, i)
      BY <1>1, <1>2, WithoutIs
    <2>2. QED
      BY <2>1 DEF RestOf
  <1>4. \A j \in DOMAIN hs : \E k \in DOMAIN G.grids : hs[j] = G.grids[k]
    BY <1>3
  <1>5. PICK M : M = [G EXCEPT !.grids = hs]
    OBVIOUS
  <1>6. M \in Renderer /\ M.configs = G.configs /\ M.grids = hs /\ M.dpr = G.dpr /\ M.pipe = G.pipe /\ M.next = G.next
    BY <1>1, <1>3, <1>5, NewGrids
  <1>7. Tables(M)
    BY <1>4, <1>6 DEF Tables
  <1>8. PICK c \in M.configs : c.id = G.grids[i].config
    BY <1>6 DEF Tables
  <1>9. Booked(M, c.id)
    <2>1. SUFFICES ASSUME NEW d \in G.configs PROVE d.refs = Cardinality(Users(hs, d.id)) + Owned(d, c.id)
      BY <1>6 DEF Booked
    <2>2. d.refs = Cardinality(Users(G.grids, d.id))
      <3>1. d.id # 0 /\ Cardinality(Users(G.grids, d.id)) \in Nat
        BY <1>1, UsersCount DEF FontConfig
      <3>2. d.refs = Cardinality(Users(G.grids, d.id)) + Owned(d, 0)
        BY DEF Booked
      <3>3. QED
        BY <3>1, <3>2 DEF Owned
    <2>3. Cardinality(Users(G.grids, d.id)) = Cardinality(Users(hs, d.id)) + (IF G.grids[i].config = d.id THEN 1 ELSE 0)
      <3>1. OneMore(hs, G.grids, G.grids[i])
        BY <1>1, <1>2, UsersWithout
      <3>2. QED
        BY <3>1 DEF OneMore
    <2>4. QED
      BY <1>8, <2>2, <2>3 DEF Owned
  <1>10. D = ReleaseConfig(M, c.id)
    BY <1>2, <1>5, <1>8 DEF Removed
  <1>11. Tables(D) /\ Booked(D, 0) /\ Same(M, D) /\ \A e \in D.configs : \E d \in M.configs : SameFont(d, e)
    BY <1>7, <1>9, <1>10, ReleaseGives
  <1>12. D.grids = hs /\ Less(G, D)
    BY <1>4, <1>6, <1>11 DEF Less, Same
  <1>13. QED
    BY <1>3, <1>11, <1>12

\* The entry in hand becomes the one of a grid that is registered.
LEMMA AddedGives ==
  ASSUME NEW G, Tables(G), NEW c \in G.configs, Booked(G, c.id), NEW g \in Grid, g.config = c.id, g.data = g.uploaded,
         NEW H, H = [G EXCEPT !.grids = Append(@, g), !.added = @ + 1]
  PROVE  Tables(H) /\ Booked(H, 0) /\ H.configs = G.configs /\ H.grids = Append(G.grids, g) /\ H.dpr = G.dpr /\ H.pipe = G.pipe
  <1>1. G \in Renderer /\ G.grids \in Seq(Grid) /\ G.configs \in SUBSET FontConfig /\ G.added \in Nat
    BY RendererIs DEF Tables
  <1>2. PICK hs : hs = Append(G.grids, g)
    OBVIOUS
  <1>3. /\ hs \in Seq(Grid) /\ hs[Len(G.grids) + 1] = g /\ DOMAIN hs = 1..(Len(G.grids) + 1)
        /\ DOMAIN G.grids = 1..Len(G.grids) /\ \A j \in DOMAIN G.grids : hs[j] = G.grids[j]
    BY <1>1, <1>2
  <1>4. H \in Renderer /\ H.configs = G.configs /\ H.grids = hs /\ H.dpr = G.dpr /\ H.pipe = G.pipe /\ H.next = G.next
    <2>1. PICK K : K = [G EXCEPT !.grids = hs]
      OBVIOUS
    <2>2. K \in Renderer /\ K.configs = G.configs /\ K.grids = hs /\ K.dpr = G.dpr /\ K.pipe = G.pipe /\ K.next = G.next /\ K.added = G.added
      BY <1>1, <1>3, <2>1 DEF Renderer
    <2>3. PICK n \in Nat : n = G.added + 1
      BY <1>1
    <2>4. H = [K EXCEPT !.added = n]
      BY <1>1, <1>2, <2>1, <2>3 DEF Renderer
    <2>5. QED
      BY <2>2, <2>4 DEF Renderer
  <1>5. \A j \in DOMAIN hs : j \in DOMAIN G.grids \/ j = Len(G.grids) + 1
    BY <1>1, <1>3
  <1>6. \A j \in DOMAIN hs : (\E d \in G.configs : d.id = hs[j].config) /\ hs[j].data = hs[j].uploaded
    BY <1>3, <1>5 DEF Tables
  <1>7. Tables(H)
    BY <1>4, <1>6 DEF Tables
  <1>8. Booked(H, 0)
    <2>1. SUFFICES ASSUME NEW d \in G.configs PROVE d.refs = Cardinality(Users(hs, d.id)) + Owned(d, 0)
      BY <1>4 DEF Booked
    <2>2. d.id # 0 /\ Cardinality(Users(G.grids, d.id)) \in Nat
      BY <1>1, UsersCount DEF FontConfig
    <2>3. d.refs = Cardinality(Users(G.grids, d.id)) + Owned(d, c.id)
      BY DEF Booked
    <2>4. Cardinality(Users(hs, d.id)) = Cardinality(Users(G.grids, d.id)) + (IF g.config = d.id THEN 1 ELSE 0)
      <3>1. OneMore(G.grids, hs, g)
        BY <1>1, <1>2, UsersAppended
      <3>2. QED
        BY <3>1 DEF OneMore
    <2>5. QED
      BY <2>2, <2>3, <2>4 DEF Owned
  <1>9. QED
    BY <1>2, <1>4, <1>7, <1>8

\* What is done to a grid: what stays of it, and whether it is ready to be drawn.
Fixed(g, h) == /\ h \in Grid /\ h.data = h.uploaded /\ h.config = g.config /\ h.key = g.key
                /\ h.sized = g.sized /\ h.hidden = g.hidden
Made(g, gen) == g.gen = gen /\ (g.shown => g.uploaded = g.inst)

LEMMA UploadKeeps ==
  ASSUME NEW g \in Grid, g.data = g.uploaded, NEW h, h = Upload(g)
  PROVE  Fixed(g, h) /\ h.view = g.view /\ h.gen = g.gen /\ h.uploaded = h.inst /\ h.shown = g.shown /\ h.inst = g.inst
  BY DEF Upload, Fixed, Grid

LEMMA PackKeeps ==
  ASSUME NEW g \in Grid, g.data = g.uploaded, NEW h, h = Pack(g), NEW gen
  PROVE  Fixed(g, h) /\ h.view = g.view /\ (Made(g, gen) => Made(h, gen))
  <1>1. CASE ~(g.view # NoView /\ g.dirty)
    BY <1>1 DEF Pack, Fixed
  <1>2. CASE g.view # NoView /\ g.dirty /\ g.want = 0
    BY <1>2 DEF Pack, Repack, Fixed, Grid, Made
  <1>3. CASE g.view # NoView /\ g.dirty /\ g.want # 0
    <2>1. PICK f : f = [g EXCEPT !.inst = g.want, !.shown = TRUE, !.dirty = FALSE]
      OBVIOUS
    <2>2. f \in Grid /\ Fixed(g, f) /\ f.gen = g.gen /\ f.view = g.view
      BY <2>1 DEF Grid, Fixed
    <2>3. h = Upload(f)
      BY <1>3, <2>1 DEF Pack, Repack
    <2>4. f.data = f.uploaded
      BY <2>2 DEF Fixed
    <2>5. Fixed(f, h) /\ h.view = f.view /\ h.gen = f.gen /\ h.uploaded = h.inst
      BY <2>2, <2>3, <2>4, UploadKeeps
    <2>6. Fixed(g, h)
      BY <2>2, <2>5 DEF Fixed
    <2>7. QED
      BY <2>2, <2>5, <2>6 DEF Made
  <1>4. QED
    BY <1>1, <1>2, <1>3

LEMMA NewBuffersKeep ==
  ASSUME NEW g \in Grid, NEW here \in Nat, NEW h, h = NewBuffers(g, here)
  PROVE  Fixed(g, h) /\ h.view = g.view /\ h.gen = here
  BY DEF NewBuffers, Fixed, Grid

\* Something done to every grid.
Gridwise(G, H) == /\ H.configs = G.configs /\ H.dpr = G.dpr /\ H.pipe = G.pipe /\ DOMAIN H.grids = DOMAIN G.grids
                  /\ \A i \in DOMAIN G.grids : Fixed(G.grids[i], H.grids[i])

LEMMA GridwiseGives ==
  ASSUME NEW G, Tables(G), Booked(G, 0), NEW hs, hs = [i \in DOMAIN G.grids |-> hs[i]],
         \A i \in DOMAIN G.grids : Fixed(G.grids[i], hs[i]), NEW H, H = [G EXCEPT !.grids = hs]
  PROVE  Tables(H) /\ Booked(H, 0) /\ Gridwise(G, H) /\ H.grids = hs
  <1>1. G \in Renderer /\ G.grids \in Seq(Grid)
    BY RendererIs DEF Tables
  <1>2. \A i \in DOMAIN G.grids : hs[i] \in Grid /\ hs[i].config = G.grids[i].config /\ hs[i].data = hs[i].uploaded
    BY DEF Fixed
  <1>3. hs \in Seq(Grid) /\ Len(hs) = Len(G.grids) /\ DOMAIN hs = DOMAIN G.grids
    <2>1. PICK n \in Nat : n = Len(G.grids) /\ DOMAIN G.grids = 1..n
      BY <1>1
    <2>2. hs \in [1..n -> Grid]
      BY <1>2, <2>1
    <2>3. QED
      BY <2>1, <2>2
  <1>4. H \in Renderer /\ H.configs = G.configs /\ H.grids = hs /\ H.dpr = G.dpr /\ H.pipe = G.pipe /\ H.next = G.next
    BY <1>1, <1>3, NewGrids
  <1>5. Tables(H) /\ Booked(H, 0)
    BY <1>2, <1>3, Regridded
  <1>6. QED
    BY <1>3, <1>4, <1>5 DEF Gridwise

LEMMA GridOf ==
  ASSUME NEW G, Tables(G), NEW i \in DOMAIN G.grids
  PROVE  G.grids[i] \in Grid /\ G.grids[i].data = G.grids[i].uploaded
  BY RendererIs DEF Tables

LEMMA UploadAllGives ==
  ASSUME NEW G, Tables(G), Booked(G, 0), NEW H, H = UploadAll(G)
  PROVE  /\ Tables(H) /\ Booked(H, 0) /\ Gridwise(G, H)
         /\ \A i \in DOMAIN G.grids : H.grids[i].uploaded = H.grids[i].inst /\ H.grids[i].gen = G.grids[i].gen
  <1>1. PICK hs : hs = [i \in DOMAIN G.grids |-> Upload(G.grids[i])]
    OBVIOUS
  <1>2. ASSUME NEW i \in DOMAIN G.grids
        PROVE  Fixed(G.grids[i], hs[i]) /\ hs[i].uploaded = hs[i].inst /\ hs[i].gen = G.grids[i].gen
    BY <1>1, <1>2, GridOf, UploadKeeps
  <1>3. hs = [i \in DOMAIN G.grids |-> hs[i]]
    BY <1>1
  <1>4. H = [G EXCEPT !.grids = hs]
    BY <1>1 DEF UploadAll
  <1>5. Tables(H) /\ Booked(H, 0) /\ Gridwise(G, H) /\ H.grids = hs
    BY <1>2, <1>3, <1>4, GridwiseGives
  <1>6. QED
    BY <1>2, <1>5

\* A frame keeps each grid where it is and ready to be drawn.
LEMMA PackedGives ==
  ASSUME NEW G, Tables(G), Booked(G, 0), NEW H, H = Packed(G), NEW gen
  PROVE  /\ Tables(H) /\ Booked(H, 0) /\ Gridwise(G, H)
         /\ \A i \in DOMAIN G.grids : H.grids[i].view = G.grids[i].view /\ (Made(G.grids[i], gen) => Made(H.grids[i], gen))
  <1>1. PICK hs : hs = [i \in DOMAIN G.grids |-> Pack(G.grids[i])]
    OBVIOUS
  <1>2. ASSUME NEW i \in DOMAIN G.grids
        PROVE  Fixed(G.grids[i], hs[i]) /\ hs[i].view = G.grids[i].view /\ (Made(G.grids[i], gen) => Made(hs[i], gen))
    BY <1>1, <1>2, GridOf, PackKeeps
  <1>3. hs = [i \in DOMAIN G.grids |-> hs[i]]
    BY <1>1
  <1>4. H = [G EXCEPT !.grids = hs]
    BY <1>1 DEF Packed
  <1>5. Tables(H) /\ Booked(H, 0) /\ Gridwise(G, H) /\ H.grids = hs
    BY <1>2, <1>3, <1>4, GridwiseGives
  <1>6. QED
    BY <1>2, <1>5

\* The configuration of a grid is of this context, of the font it asks for and of the renderer's density.
FontIs(G, g, gen) == \A c \in G.configs : c.id = g.config => c.gen = gen /\ c.key = g.key /\ c.dpr = G.dpr
Drawn(G, gen) == G.pipe = gen /\ \A i \in DOMAIN G.grids : Made(G.grids[i], gen) /\ FontIs(G, G.grids[i], gen)
\* Every terminal that is shown stands on cells of its font at the renderer's density.
Stands(G, g) == g.sized => g.view = IF g.hidden THEN NoView ELSE <<g.key, G.dpr>>
Placed(G) == \A i \in DOMAIN G.grids : Stands(G, G.grids[i])

LEMMA PlaceKeeps ==
  ASSUME NEW G, Tables(G), NEW g \in Grid, g.data = g.uploaded, \E c \in G.configs : c.id = g.config, NEW h, h = Place(G, g), NEW gen
  PROVE  Fixed(g, h) /\ (Made(g, gen) => Made(h, gen)) /\ (FontIs(G, g, gen) => Stands(G, h))
  <1>1. PICK c \in G.configs : c.id = g.config
    OBVIOUS
  <1>2. Config(G, g.config) = c
    BY <1>1, ConfigIs
  <1>3. c.key \in Keys /\ c.dpr \in Densities
    BY RendererIs DEF Tables, FontConfig
  <1>4. CASE ~g.sized
    BY <1>4 DEF Place, Fixed, Stands, Grid
  <1>5. CASE g.sized
    <2>1. PICK v : v = IF g.hidden THEN NoView ELSE <<c.key, c.dpr>>
      OBVIOUS
    <2>2. v \in Views
      BY <1>3, <2>1 DEF Views
    <2>3. h = [g EXCEPT !.view = v]
      BY <1>2, <1>5, <2>1 DEF Place
    <2>4. h \in Grid /\ Fixed(g, h) /\ h.view = v /\ (Made(g, gen) => Made(h, gen))
      BY <2>2, <2>3 DEF Grid, Fixed, Made
    <2>5. ASSUME FontIs(G, g, gen) PROVE Stands(G, h)
      <3>1. c.key = g.key /\ c.dpr = G.dpr
        BY <1>1, <2>5 DEF FontIs
      <3>2. QED
        BY <2>1, <2>4, <3>1 DEF Stands, Fixed
    <2>6. QED
      BY <2>4, <2>5
  <1>6. QED
    BY <1>4, <1>5

LEMMA ReapplyGives ==
  ASSUME NEW G, Tables(G), Booked(G, 0), NEW H, H = ReapplyAll(G), NEW gen
  PROVE  /\ Tables(H) /\ Booked(H, 0) /\ Gridwise(G, H)
         /\ \A i \in DOMAIN G.grids : Made(G.grids[i], gen) => Made(H.grids[i], gen)
         /\ \A i \in DOMAIN G.grids : FontIs(G, G.grids[i], gen) => Stands(G, H.grids[i])
  <1>1. PICK hs : hs = [i \in DOMAIN G.grids |-> Place(G, G.grids[i])]
    OBVIOUS
  <1>2. ASSUME NEW i \in DOMAIN G.grids
        PROVE  Fixed(G.grids[i], hs[i]) /\ (Made(G.grids[i], gen) => Made(hs[i], gen))
               /\ (FontIs(G, G.grids[i], gen) => Stands(G, hs[i]))
    <2>1. G.grids[i] \in Grid /\ G.grids[i].data = G.grids[i].uploaded /\ \E c \in G.configs : c.id = G.grids[i].config
      BY <1>2, GridOf DEF Tables
    <2>2. hs[i] = Place(G, G.grids[i])
      BY <1>1, <1>2
    <2>3. QED
      BY <2>1, <2>2, PlaceKeeps
  <1>3. hs = [i \in DOMAIN G.grids |-> hs[i]]
    BY <1>1
  <1>4. H = [G EXCEPT !.grids = hs]
    BY <1>1 DEF ReapplyAll
  <1>5. Tables(H) /\ Booked(H, 0) /\ Gridwise(G, H) /\ H.grids = hs
    BY <1>2, <1>3, <1>4, GridwiseGives
  <1>6. QED
    BY <1>2, <1>5

LEMMA GridwiseDrawn ==
  ASSUME NEW G, NEW H, NEW gen, Gridwise(G, H), Drawn(G, gen),
         \A i \in DOMAIN G.grids : Made(G.grids[i], gen) => Made(H.grids[i], gen)
  PROVE  Drawn(H, gen)
  BY DEF Gridwise, Drawn, FontIs, Fixed

\* New atlases for some of the configurations.
Baked(G, H, ids, here, dpr) ==
  /\ H.grids = G.grids /\ H.dpr = G.dpr /\ H.pipe = G.pipe
  /\ \A e \in H.configs : \E d \in G.configs : /\ e.id = d.id /\ e.key = d.key
                                               /\ (d.id \in ids => e.gen = here /\ e.dpr = dpr)

LEMMA RebakeGives ==
  ASSUME NEW G, Tables(G), Booked(G, 0), NEW ids, NEW here \in Nat, NEW dpr \in Densities, NEW H, H = Rebake(G, ids, here, dpr)
  PROVE  Tables(H) /\ Booked(H, 0) /\ Baked(G, H, ids, here, dpr)
  <1>1. G \in Renderer /\ G.configs \in SUBSET FontConfig
    BY RendererIs DEF Tables
  <1>2. PICK cs : cs = {IF c.id \in ids THEN [c EXCEPT !.gen = here, !.dpr = dpr] ELSE c : c \in G.configs}
    OBVIOUS
  <1>3. \A e \in cs : \E c \in G.configs : e = IF c.id \in ids THEN [c EXCEPT !.gen = here, !.dpr = dpr] ELSE c
    BY <1>2
  <1>4. \A c \in G.configs : (IF c.id \in ids THEN [c EXCEPT !.gen = here, !.dpr = dpr] ELSE c) \in cs
    BY <1>2
  <1>5. ASSUME NEW c \in G.configs, NEW e, e = IF c.id \in ids THEN [c EXCEPT !.gen = here, !.dpr = dpr] ELSE c
        PROVE  e \in FontConfig /\ e.id = c.id /\ e.key = c.key /\ e.refs = c.refs /\ (c.id \in ids => e.gen = here /\ e.dpr = dpr)
    <2>1. c \in FontConfig
      BY <1>1
    <2>2. QED
      BY <1>5, <2>1 DEF FontConfig
  <1>6. ASSUME NEW e \in cs
        PROVE  e \in FontConfig /\ \E c \in G.configs : /\ e = IF c.id \in ids THEN [c EXCEPT !.gen = here, !.dpr = dpr] ELSE c
                                                        /\ e.id = c.id /\ e.key = c.key /\ e.refs = c.refs
                                                        /\ (c.id \in ids => e.gen = here /\ e.dpr = dpr)
    BY <1>3, <1>5, <1>6
  <1>7. H = [G EXCEPT !.configs = cs] /\ cs \in SUBSET FontConfig
    BY <1>2, <1>6 DEF Rebake
  <1>8. H \in Renderer /\ H.configs = cs /\ H.grids = G.grids /\ H.dpr = G.dpr /\ H.pipe = G.pipe /\ H.next = G.next
    BY <1>1, <1>7 DEF Renderer
  <1>9. ASSUME NEW e \in cs, NEW f \in cs, e.id = f.id \/ e.key = f.key PROVE e = f
    <2>1. PICK c \in G.configs : e = (IF c.id \in ids THEN [c EXCEPT !.gen = here, !.dpr = dpr] ELSE c) /\ e.id = c.id /\ e.key = c.key
      BY <1>6
    <2>2. PICK d \in G.configs : f = (IF d.id \in ids THEN [d EXCEPT !.gen = here, !.dpr = dpr] ELSE d) /\ f.id = d.id /\ f.key = d.key
      BY <1>6
    <2>3. c = d
      BY <1>9, <2>1, <2>2 DEF Tables
    <2>4. QED
      BY <2>1, <2>2, <2>3
  <1>10. \A e \in cs : e.id < G.next
    BY <1>6 DEF Tables
  <1>11. \A i \in DOMAIN G.grids : \E e \in cs : e.id = G.grids[i].config
    <2>1. SUFFICES ASSUME NEW i \in DOMAIN G.grids PROVE \E e \in cs : e.id = G.grids[i].config
      OBVIOUS
    <2>2. PICK c \in G.configs : c.id = G.grids[i].config
      BY DEF Tables
    <2>3. PICK e : e = IF c.id \in ids THEN [c EXCEPT !.gen = here, !.dpr = dpr] ELSE c
      OBVIOUS
    <2>4. e \in cs /\ e.id = c.id
      BY <1>4, <1>5, <2>3
    <2>5. QED
      BY <2>2, <2>4
  <1>12. Tables(H)
    BY <1>8, <1>9, <1>10, <1>11 DEF Tables
  <1>13. Booked(H, 0)
    <2>1. ASSUME NEW e \in cs PROVE \E d \in G.configs : e.id = d.id /\ e.refs = d.refs
      BY <1>6, <2>1
    <2>2. QED
      BY <1>8, <2>1 DEF Booked, Owned
  <1>14. Baked(G, H, ids, here, dpr)
    <2>1. ASSUME NEW e \in cs PROVE \E d \in G.configs : /\ e.id = d.id /\ e.key = d.key
                                                      /\ (d.id \in ids => e.gen = here /\ e.dpr = dpr)
      BY <1>6, <2>1
    <2>2. QED
      BY <1>8, <2>1 DEF Baked
  <1>15. QED
    BY <1>12, <1>13, <1>14

\* The renderer on a new context: no buffer holds anything yet.
LEMMA AfreshGives ==
  ASSUME NEW G, Tables(G), Booked(G, 0), NEW here \in Nat, live \in Densities, NEW H, H = Afresh(G, here)
  PROVE  /\ Tables(H) /\ Booked(H, 0) /\ H.pipe = here /\ H.dpr = live /\ DOMAIN H.grids = DOMAIN G.grids
         /\ H.configs = G.configs /\ \A i \in DOMAIN G.grids : H.grids[i].gen = here /\ H.grids[i].key = G.grids[i].key
  <1>1. PICK hs : hs = [i \in DOMAIN G.grids |-> NewBuffers(G.grids[i], here)]
    OBVIOUS
  <1>2. ASSUME NEW i \in DOMAIN G.grids PROVE Fixed(G.grids[i], hs[i]) /\ hs[i].gen = here
    BY <1>1, <1>2, GridOf, NewBuffersKeep
  <1>3. hs = [i \in DOMAIN G.grids |-> hs[i]]
    BY <1>1
  <1>4. PICK K : K = [G EXCEPT !.grids = hs]
    OBVIOUS
  <1>5. Tables(K) /\ Booked(K, 0) /\ Gridwise(G, K) /\ K.grids = hs
    BY <1>2, <1>3, <1>4, GridwiseGives
  <1>6. PICK L : L = [K EXCEPT !.pipe = here]
    OBVIOUS
  <1>7. L \in Renderer /\ L.configs = K.configs /\ L.grids = K.grids /\ L.pipe = here /\ L.next = K.next
    BY <1>5, <1>6 DEF Renderer, Tables
  <1>8. G \in Renderer
    BY DEF Tables
  <1>9. H = [L EXCEPT !.dpr = live]
    BY <1>1, <1>4, <1>6, <1>8 DEF Afresh, Renderer
  <1>10. H \in Renderer /\ H.configs = K.configs /\ H.grids = K.grids /\ H.pipe = here /\ H.next = K.next /\ H.dpr = live
    BY <1>7, <1>9 DEF Renderer
  <1>11. Tables(H) /\ Booked(H, 0)
    BY <1>5, <1>10 DEF Tables, Booked
  <1>12. QED
    BY <1>2, <1>5, <1>10, <1>11 DEF Gridwise, Fixed

\* A result, and what is so while the grids of a new context are placed: their fonts and
\* buffers are those they had, and a font that some grid asks for is baked for it.
Outcome(R) == R = [gl |-> R.gl, ok |-> R.ok] /\ R.ok \in BOOLEAN
Placing(G, here, R) ==
  /\ Outcome(R) /\ Tables(R.gl) /\ Booked(R.gl, 0) /\ R.gl.pipe = G.pipe /\ R.gl.dpr = G.dpr
  /\ DOMAIN R.gl.grids = DOMAIN G.grids
  /\ \A i \in DOMAIN G.grids : R.gl.grids[i].key = G.grids[i].key /\ R.gl.grids[i].gen = G.grids[i].gen
  /\ \A c \in R.gl.configs : (\E i \in DOMAIN G.grids : G.grids[i].key = c.key) => c.gen = here /\ c.dpr = G.dpr
\* The first k of them are.
PlacedUpTo(G, R, k) == R.ok => \A j \in DOMAIN G.grids : j <= k => Fitted(R.gl, j, G.grids[j].key)

LEMMA SelectOutcome ==
  ASSUME NEW G, NEW i, NEW key, NEW here, NEW fails, NEW R, R = Select(G, i, key, here, fails)
  PROVE  Outcome(R)
  <1>1. PICK got : got = Acquire(G, key, here, fails)
    OBVIOUS
  <1>2. Outcome(got)
    BY <1>1 DEF Acquire, Fine, Refused, Outcome
  <1>3. QED
    BY <1>1, <1>2 DEF Select, Fine, Outcome

\* One more grid is placed, and those that were stay.
OneOn(G, r, q, k) ==
  q.ok => /\ Fitted(q.gl, k, G.grids[k].key)
          /\ \A j \in DOMAIN G.grids : j # k /\ Fitted(r.gl, j, G.grids[j].key) => Fitted(q.gl, j, G.grids[j].key)

LEMMA PlacingStep ==
  ASSUME NEW G, NEW here \in Nat, NEW r, Placing(G, here, r), NEW k \in DOMAIN G.grids, G.grids[k].key \in Keys,
         NEW fails \in BOOLEAN, NEW q, q = Select(r.gl, k, G.grids[k].key, here, fails)
  PROVE  Placing(G, here, q) /\ OneOn(G, r, q, k)
  <1>1. Tables(r.gl) /\ Booked(r.gl, 0) /\ DOMAIN r.gl.grids = DOMAIN G.grids /\ r.gl.pipe = G.pipe /\ r.gl.dpr = G.dpr
    BY DEF Placing
  <1>2. Outcome(q)
    BY SelectOutcome
  <1>3. (~q.ok /\ q.gl = r.gl) \/ (q.ok /\ Selected(r.gl, q.gl, k, G.grids[k].key, here))
    BY <1>1, SelectGives
  <1>4. CASE ~q.ok /\ q.gl = r.gl
    BY <1>2, <1>4 DEF Placing, OneOn
  <1>5. CASE q.ok /\ Selected(r.gl, q.gl, k, G.grids[k].key, here)
    <2>1. PICK H : H = q.gl
      OBVIOUS
    <2>2. Tables(H) /\ Booked(H, 0) /\ H.pipe = r.gl.pipe /\ H.dpr = r.gl.dpr /\ Len(H.grids) = Len(r.gl.grids)
      BY <1>5, <2>1 DEF Selected
    <2>3. Others(r.gl, H, k) /\ Kin(r.gl.grids[k], H.grids[k]) /\ Descends(r.gl, H, here) /\ Fitted(H, k, G.grids[k].key)
      BY <1>5, <2>1 DEF Selected
    <2>4. DOMAIN H.grids = DOMAIN G.grids
      <3>1. H.grids \in Seq(Grid) /\ r.gl.grids \in Seq(Grid)
        BY <1>1, <2>2, RendererIs DEF Tables
      <3>2. DOMAIN H.grids = 1..Len(H.grids) /\ DOMAIN r.gl.grids = 1..Len(r.gl.grids)
        BY <3>1
      <3>3. QED
        BY <1>1, <2>2, <3>2
    <2>5. \A i \in DOMAIN G.grids : H.grids[i].key = G.grids[i].key /\ H.grids[i].gen = G.grids[i].gen
      BY <1>1, <2>3 DEF Others, Kin, Placing
    <2>6. \A c \in H.configs : (\E i \in DOMAIN G.grids : G.grids[i].key = c.key) => c.gen = here /\ c.dpr = G.dpr
      BY <1>1, <2>3 DEF Descends, SameFont, Placing
    <2>7. Placing(G, here, q)
      BY <1>1, <1>2, <2>1, <2>2, <2>4, <2>5, <2>6 DEF Placing
    <2>8. ASSUME NEW j \in DOMAIN G.grids, j # k, Fitted(r.gl, j, G.grids[j].key) PROVE Fitted(H, j, G.grids[j].key)
      <3>1. SUFFICES ASSUME NEW e \in H.configs, e.id = H.grids[j].config PROVE e.key = G.grids[j].key
        BY DEF Fitted
      <3>2. H.grids[j] = r.gl.grids[j]
        BY <1>1, <2>3, <2>8 DEF Others
      <3>3. PICK c \in r.gl.configs : c.id = r.gl.grids[j].config
        BY <1>1 DEF Tables
      <3>4. c.id < r.gl.next /\ c.id \in Nat /\ r.gl.next \in Nat
        BY <1>1, RendererIs DEF Tables, FontConfig
      <3>5. PICK d \in r.gl.configs : SameFont(d, e)
        BY <2>3, <3>1, <3>2, <3>3, <3>4 DEF Descends
      <3>6. QED
        BY <2>8, <3>1, <3>2, <3>5 DEF Fitted, SameFont
    <2>9. QED
      BY <2>1, <2>3, <2>7, <2>8 DEF OneOn
  <1>6. QED
    BY <1>3, <1>4, <1>5

\* The loop that places them, up to the first that cannot be.
LEMMA SelectAllGives ==
  ASSUME NEW G, Tables(G), Booked(G, 0), NEW here \in Nat, NEW fails \in BOOLEAN, NEW R, R = SelectAll(G, here, fails),
         Placing(G, here, Fine(G))
  PROVE  Placing(G, here, R) /\ PlacedUpTo(G, R, Len(G.grids))
  <1>1. PICK n \in Nat : n = Len(G.grids) /\ DOMAIN G.grids = 1..n /\ \A i \in 1..n : G.grids[i].key \in Keys
    BY RendererIs DEF Tables, Grid
  <1>2. PICK S : S = {r \in [gl : Renderer, ok : BOOLEAN] : Placing(G, here, r)}
    OBVIOUS
  <1>3. ASSUME NEW r, Placing(G, here, r) PROVE r \in S
    BY <1>2, <1>3 DEF Placing, Outcome, Tables
  <1>4. PICK g : g = [x \in (1..n) \X S |-> IF ~x[2].ok THEN x[2] ELSE Select(x[2].gl, x[1], G.grids[x[1]].key, here, fails)]
    OBVIOUS
  <1>5. g \in [(1..n) \X S -> S]
    <2>1. ASSUME NEW x \in (1..n) \X S
          PROVE  (IF ~x[2].ok THEN x[2] ELSE Select(x[2].gl, x[1], G.grids[x[1]].key, here, fails)) \in S
      <3>1. PICK k \in 1..n : k = x[1]
        BY <2>1
      <3>2. PICK r \in S : r = x[2]
        BY <2>1
      <3>3. Placing(G, here, r) /\ k \in DOMAIN G.grids /\ G.grids[k].key \in Keys
        BY <1>1, <1>2
      <3>4. PICK q : q = Select(r.gl, k, G.grids[k].key, here, fails)
        OBVIOUS
      <3>5. Placing(G, here, q)
        BY <3>3, <3>4, PlacingStep
      <3>6. q \in S
        BY <1>3, <3>5
      <3>7. QED
        BY <3>1, <3>2, <3>4, <3>6
    <2>2. QED
      BY <1>4, <2>1
  <1>6. Fine(G) \in S
    BY <1>3
  <1>7. PICK h \in [0..n -> S] : Climbs(h, g, Fine(G), n)
    BY <1>5, <1>6, CountExists
  <1> DEFINE step(f) == [i \in 0..Len(G.grids) |-> IF i = 0 THEN Fine(G) ELSE IF ~f[i - 1].ok THEN f[i - 1]
                                                   ELSE Select(f[i - 1].gl, i, G.grids[i].key, here, fails)]
  <1>8. h = step(h)
    <2>1. h = [k \in 0..n |-> IF k = 0 THEN Fine(G) ELSE g[<<k, h[k - 1]>>]]
      BY <1>7 DEF Climbs
    <2>2. ASSUME NEW k \in 0..n, k # 0
          PROVE  g[<<k, h[k - 1]>>] = IF ~h[k - 1].ok THEN h[k - 1] ELSE Select(h[k - 1].gl, k, G.grids[k].key, here, fails)
      <3>1. k \in 1..n /\ k - 1 \in 0..n
        BY <2>2
      <3>2. h[k - 1] \in S
        BY <1>7, <3>1
      <3>3. <<k, h[k - 1]>> \in (1..n) \X S
        BY <3>1, <3>2
      <3>4. QED
        BY <1>4, <3>3
    <2>3. QED
      BY <1>1, <2>1, <2>2
  <1>9. PICK u : u = CHOOSE f : f = step(f)
    OBVIOUS
  <1>10. u = step(u)
    BY <1>8, <1>9
  <1>11. R = u[n]
    BY <1>1, <1>9 DEF SelectAll
  <1> HIDE DEF step
  <1>12. u[0] = Fine(G)
    BY <1>10 DEF step
  <1>13. ASSUME NEW k \in 1..n
         PROVE  u[k] = IF ~u[k - 1].ok THEN u[k - 1] ELSE Select(u[k - 1].gl, k, G.grids[k].key, here, fails)
    <2>1. k \in 0..Len(G.grids) /\ k # 0
      BY <1>1
    <2>2. QED
      BY <1>10, <2>1 DEF step
  <1> DEFINE P == {k \in 0..n : Placing(G, here, u[k]) /\ PlacedUpTo(G, u[k], k)}
  <1>14. 0 \in P
    <2>1. PlacedUpTo(G, Fine(G), 0)
      BY <1>1 DEF PlacedUpTo
    <2>2. QED
      BY <1>12, <2>1
  <1>15. ASSUME NEW k \in 1..n, k - 1 \in P PROVE k \in P
    <2>1. PICK j \in 0..n : j = k - 1 /\ Placing(G, here, u[j]) /\ PlacedUpTo(G, u[j], j)
      BY <1>15
    <2>2. k \in DOMAIN G.grids /\ G.grids[k].key \in Keys /\ \A i \in DOMAIN G.grids : i <= k <=> i = k \/ i <= j
      BY <1>1, <2>1
    <2>3. CASE ~u[j].ok
      <3>1. u[k] = u[j]
        BY <1>13, <2>1, <2>3
      <3>2. PlacedUpTo(G, u[k], k)
        BY <2>3, <3>1 DEF PlacedUpTo
      <3>3. QED
        BY <2>1, <3>1, <3>2
    <2>4. CASE u[j].ok
      <3>1. PICK q : q = Select(u[j].gl, k, G.grids[k].key, here, fails)
        OBVIOUS
      <3>2. u[k] = q
        BY <1>13, <2>1, <2>4, <3>1
      <3>3. Placing(G, here, q) /\ OneOn(G, u[j], q, k)
        BY <2>1, <2>2, <3>1, PlacingStep
      <3>4. PlacedUpTo(G, q, k)
        BY <2>1, <2>2, <2>4, <3>3 DEF PlacedUpTo, OneOn
      <3>5. QED
        BY <3>2, <3>3, <3>4
    <2>5. QED
      BY <2>3, <2>4
  <1>16. \A k \in 0..n : k \in P
    BY <1>14, <1>15, StaysCounting
  <1>17. n \in 0..n
    OBVIOUS
  <1>18. QED
    BY <1>1, <1>11, <1>16, <1>17

\* What a restore leaves: everything of the new context and at the page's density, or not yet.
Back(G, R, here) == Tables(R.gl) /\ Booked(R.gl, 0) /\ R.ok \in BOOLEAN /\ (R.ok => Drawn(R.gl, here) /\ R.gl.dpr = live)

LEMMA RestoreGives ==
  ASSUME NEW G, Tables(G), Booked(G, 0), NEW here \in Nat, live \in Densities, NEW fails, NEW R, R = Restore(G, here, fails)
  PROVE  Back(G, R, here)
  <1>1. CASE fails = "build"
    <2>1. R.gl = G /\ R.ok = FALSE
      BY <1>1 DEF Restore, Refused
    <2>2. QED
      BY <2>1 DEF Back
  <1>2. CASE fails # "build"
    <2>1. PICK A : A = Afresh(G, here)
      OBVIOUS
    <2>2. /\ Tables(A) /\ Booked(A, 0) /\ A.pipe = here /\ A.dpr = live /\ DOMAIN A.grids = DOMAIN G.grids
          /\ A.configs = G.configs /\ \A i \in DOMAIN G.grids : A.grids[i].gen = here /\ A.grids[i].key = G.grids[i].key
      BY <2>1, AfreshGives
    <2>3. PICK ids : ids = Wanted(G)
      OBVIOUS
    <2>4. PICK B : B = Rebake(A, ids, here, live)
      OBVIOUS
    <2>5. Tables(B) /\ Booked(B, 0) /\ Baked(A, B, ids, here, live)
      BY <2>2, <2>4, RebakeGives
    <2>6. B.grids = A.grids /\ B.dpr = live /\ B.pipe = here
      BY <2>2, <2>5 DEF Baked
    <2>7. ASSUME NEW e \in B.configs, NEW i \in DOMAIN B.grids, B.grids[i].key = e.key PROVE e.gen = here /\ e.dpr = B.dpr
      <3>1. PICK d \in G.configs : e.key = d.key /\ (d.id \in ids => e.gen = here /\ e.dpr = live)
        BY <2>2, <2>5 DEF Baked
      <3>2. i \in DOMAIN G.grids /\ G.grids[i].key = d.key
        BY <2>2, <2>6, <2>7, <3>1
      <3>3. d.id \in Wanted(G)
        BY <3>2 DEF Wanted
      <3>4. QED
        BY <2>3, <2>6, <3>1, <3>3
    <2>8. Placing(B, here, Fine(B))
      <3>1. Outcome(Fine(B)) /\ Fine(B).gl = B
        BY DEF Outcome, Fine
      <3>2. QED
        BY <2>5, <2>7, <3>1 DEF Placing
    <2>9. PICK late \in BOOLEAN : late = (fails = "select")
      OBVIOUS
    <2>10. PICK P : P = SelectAll(B, here, late)
      OBVIOUS
    <2>11. Placing(B, here, P) /\ PlacedUpTo(B, P, Len(B.grids))
      BY <2>5, <2>8, <2>10, SelectAllGives
    <2>12. R = Uploaded(P)
      BY <1>2, <2>1, <2>3, <2>4, <2>9, <2>10 DEF Restore
    <2>13. Tables(P.gl) /\ Booked(P.gl, 0) /\ P.ok \in BOOLEAN /\ P.gl.pipe = here /\ P.gl.dpr = live /\ DOMAIN P.gl.grids = DOMAIN B.grids
      BY <2>6, <2>11 DEF Placing, Outcome
    <2>14. CASE ~P.ok
      <3>1. R = P
        BY <2>12, <2>14 DEF Uploaded
      <3>2. QED
        BY <2>13, <2>14, <3>1 DEF Back
    <2>15. CASE P.ok
      <3>1. PICK H : H = UploadAll(P.gl)
        OBVIOUS
      <3>2. R.gl = H /\ R.ok = TRUE
        BY <2>12, <2>15, <3>1 DEF Uploaded, Fine
      <3>3. /\ Tables(H) /\ Booked(H, 0) /\ Gridwise(P.gl, H)
            /\ \A i \in DOMAIN P.gl.grids : H.grids[i].uploaded = H.grids[i].inst /\ H.grids[i].gen = P.gl.grids[i].gen
        BY <2>13, <3>1, UploadAllGives
      <3>4. H.pipe = here /\ H.dpr = live /\ H.configs = P.gl.configs /\ DOMAIN H.grids = DOMAIN B.grids
        BY <2>13, <3>3 DEF Gridwise
      <3>5. ASSUME NEW i \in DOMAIN H.grids PROVE Made(H.grids[i], here) /\ FontIs(H, H.grids[i], here)
        <4>1. i \in DOMAIN B.grids /\ i \in DOMAIN P.gl.grids /\ i \in DOMAIN G.grids
          BY <2>2, <2>6, <2>13, <3>4
        <4>2. Made(H.grids[i], here)
          BY <2>2, <2>6, <2>11, <3>3, <4>1 DEF Made, Placing
        <4>3. H.grids[i].config = P.gl.grids[i].config /\ H.grids[i].key = B.grids[i].key
          BY <2>11, <3>3, <4>1 DEF Gridwise, Fixed, Placing
        <4>4. i <= Len(B.grids)
          <5>1. B.grids \in Seq(Grid)
            BY <2>5, RendererIs DEF Tables
          <5>2. QED
            BY <4>1, <5>1
        <4>5. Fitted(P.gl, i, B.grids[i].key)
          BY <2>11, <2>15, <4>1, <4>4 DEF PlacedUpTo
        <4>6. \A c \in P.gl.configs : c.id = P.gl.grids[i].config => c.key = B.grids[i].key
          BY <4>5 DEF Fitted
        <4>7. \A c \in P.gl.configs : c.key = B.grids[i].key => c.gen = here /\ c.dpr = live
          BY <2>6, <2>11, <4>1 DEF Placing
        <4>8. FontIs(H, H.grids[i], here)
          BY <3>4, <4>3, <4>6, <4>7 DEF FontIs
        <4>9. QED
          BY <4>2, <4>8
      <3>6. Drawn(H, here)
        BY <3>4, <3>5 DEF Drawn
      <3>7. QED
        BY <3>2, <3>3, <3>4, <3>6 DEF Back
    <2>16. QED
      BY <2>13, <2>14, <2>15
  <1>3. QED
    BY <1>1, <1>2

\* A frame: nothing, the packing of what changed, or a restore before it.
Packs(G, H) == /\ Gridwise(G, H) /\ \A i \in DOMAIN G.grids : H.grids[i].view = G.grids[i].view
               /\ \A gen \in Nat : Drawn(G, gen) => Drawn(H, gen)
Rendered(c, s, G, R) ==
  /\ Tables(R.gl) /\ Booked(R.gl, 0) /\ R.ok \in BOOLEAN
  /\ Action(c, s) = "Skip" => R.gl = G /\ R.st = s /\ R.ok
  /\ Action(c, s) = "Draw" => Packs(G, R.gl) /\ R.st = s /\ R.ok
  /\ Action(c, s) = "Rebuild" => R.st = [s EXCEPT !.pending = ~R.ok] /\ (R.ok => Drawn(R.gl, Here(c)) /\ R.gl.dpr = live)

LEMMA PackedPacks ==
  ASSUME NEW G, Tables(G), Booked(G, 0), NEW H, H = Packed(G)
  PROVE  Tables(H) /\ Booked(H, 0) /\ Packs(G, H)
  <1>1. Tables(H) /\ Booked(H, 0) /\ Gridwise(G, H) /\ \A i \in DOMAIN G.grids : H.grids[i].view = G.grids[i].view
    BY PackedGives
  <1>2. ASSUME NEW gen \in Nat, Drawn(G, gen) PROVE Drawn(H, gen)
    <2>1. \A i \in DOMAIN G.grids : Made(G.grids[i], gen) => Made(H.grids[i], gen)
      BY PackedGives
    <2>2. QED
      BY <1>1, <1>2, <2>1, GridwiseDrawn
  <1>3. QED
    BY <1>1, <1>2 DEF Packs

LEMMA RenderGives ==
  ASSUME NEW c, Here(c) \in Nat, NEW s, NEW G, Tables(G), Booked(G, 0), live \in Densities, NEW fails, NEW R, R = Render(c, s, G, fails)
  PROVE  Rendered(c, s, G, R)
  <1>1. CASE Action(c, s) = "Skip"
    <2>1. R.gl = G /\ R.st = s /\ R.ok = TRUE
      BY <1>1 DEF Render
    <2>2. QED
      BY <1>1, <2>1 DEF Rendered
  <1>2. CASE Action(c, s) = "Draw"
    <2>1. R.gl = Packed(G) /\ R.st = s /\ R.ok = TRUE
      BY <1>2 DEF Render
    <2>2. Tables(R.gl) /\ Booked(R.gl, 0) /\ Packs(G, R.gl)
      BY <2>1, PackedPacks
    <2>3. QED
      BY <1>2, <2>1, <2>2 DEF Rendered
  <1>3. CASE Action(c, s) = "Rebuild"
    <2>1. PICK r : r = Restore(G, Here(c), fails)
      OBVIOUS
    <2>2. Back(G, r, Here(c))
      BY <2>1, RestoreGives
    <2>3. R = Rebuilt(r, s)
      BY <1>3, <2>1 DEF Render
    <2>4. R.st = [s EXCEPT !.pending = ~R.ok] /\ R.ok = r.ok /\ R.gl = IF r.ok THEN Packed(r.gl) ELSE r.gl
      BY <2>3 DEF Rebuilt
    <2>5. Tables(r.gl) /\ Booked(r.gl, 0) /\ r.ok \in BOOLEAN /\ (r.ok => Drawn(r.gl, Here(c)) /\ r.gl.dpr = live)
      BY <2>2 DEF Back
    <2>6. CASE r.ok
      <3>1. Tables(R.gl) /\ Booked(R.gl, 0) /\ Packs(r.gl, R.gl)
        BY <2>4, <2>5, <2>6, PackedPacks
      <3>2. Drawn(R.gl, Here(c)) /\ R.gl.dpr = live
        BY <2>5, <2>6, <3>1 DEF Packs, Gridwise
      <3>3. QED
        BY <1>3, <2>4, <2>5, <3>1, <3>2 DEF Rendered
    <2>7. CASE ~r.ok
      <3>1. R.gl = r.gl /\ ~R.ok /\ R.ok \in BOOLEAN
        BY <2>4, <2>5, <2>7
      <3>2. QED
        BY <1>3, <2>4, <2>5, <3>1 DEF Rendered
    <2>8. QED
      BY <2>5, <2>6, <2>7
  <1>4. Action(c, s) \in {"Skip", "Draw", "Rebuild"}
    BY DEF Action
  <1>5. QED
    BY <1>1, <1>2, <1>3, <1>4

(* The surface. *)
Contexts == [alive : BOOLEAN, gen : Nat, event : BOOLEAN, losses : Nat]
States == [lost : BOOLEAN, pending : BOOLEAN, overdue : BOOLEAN, epoch : Nat]
Surfaces == [watched : Densities, announced : Densities, frame : BOOLEAN, disposed : BOOLEAN, failed : BOOLEAN]
\* A loss is known of before its restore is, and a restore that is still due is one that failed, or that nobody shows.
Phases(c, s, u) == (c.event => ~c.alive) /\ (s.lost => ~c.alive) /\ (~u.failed /\ ~u.disposed => ~s.pending)
\* The deadlines told are of losses there were, and of this one only once it is overdue.
Notices(ts, s) == ts \in Seq(Nat) /\ \A i \in DOMAIN ts : ts[i] <= s.epoch /\ (ts[i] = s.epoch /\ s.lost => s.overdue)
Draws(c, s) == c.alive /\ ~s.lost /\ ~s.pending
Watched(u, G, l) == u.watched = l => G.dpr = l /\ u.announced = l
\* What the renderer holds, in a context and for a surface.
Holds(c, s, u, G, l) ==
  /\ Tables(G) /\ Booked(G, 0)
  /\ Draws(c, s) => Drawn(G, c.gen)
  /\ Draws(c, s) /\ ~u.failed /\ ~u.disposed => Placed(G) /\ Watched(u, G, l)
Typed(c, s, u, l) == c \in Contexts /\ s \in States /\ u \in Surfaces /\ l \in Densities
Sound(c, s, u, ts, G, l) == Typed(c, s, u, l) /\ Phases(c, s, u) /\ Notices(ts, s) /\ Holds(c, s, u, G, l)
SurfaceInv == Sound(ctx, st, surf, told, gl, live)

LEMMA SurfaceBegins ==
  ASSUME SurfaceInit
  PROVE  SurfaceInv
  <1>1. Typed(ctx, st, surf, live)
    BY DEF SurfaceInit, Typed, Contexts, States, Surfaces
  <1>2. gl.grids = <<>> /\ gl.configs = {} /\ gl.pipe = 1 /\ gl.dpr = live /\ gl.next = 1 /\ ctx.gen = 1
    BY DEF SurfaceInit
  <1>3. gl \in Renderer
    <2>1. <<>> \in Seq(Grid) /\ {} \in SUBSET FontConfig /\ live \in Densities
      BY DEF SurfaceInit
    <2>2. QED
      BY <2>1 DEF SurfaceInit, Renderer
  <1>4. Tables(gl) /\ Booked(gl, 0)
    BY <1>2, <1>3 DEF Tables, Booked
  <1>5. Drawn(gl, 1) /\ Placed(gl)
    BY <1>2 DEF Drawn, Placed
  <1>6. Watched(surf, gl, live)
    BY <1>2 DEF SurfaceInit, Watched
  <1>7. Phases(ctx, st, surf)
    BY DEF SurfaceInit, Phases
  <1>8. Notices(told, st)
    BY DEF SurfaceInit, Notices
  <1>9. QED
    BY <1>1, <1>2, <1>4, <1>5, <1>6, <1>7, <1>8 DEF SurfaceInv, Sound, Holds

\* While the context is gone nothing is drawn with.
LEMMA LoseKeeps ==
  ASSUME SurfaceInv, Lose
  PROVE  SurfaceInv'
  <1>1. PICK c : c = [ctx EXCEPT !.alive = FALSE, !.event = TRUE, !.losses = @ + 1]
    OBVIOUS
  <1>2. Typed(ctx, st, surf, live) /\ Phases(ctx, st, surf) /\ Notices(told, st) /\ Holds(ctx, st, surf, gl, live)
    BY DEF SurfaceInv, Sound
  <1>3. c \in Contexts /\ c.alive = FALSE
    <2>1. ctx \in Contexts
      BY <1>2 DEF Typed
    <2>2. PICK n \in Nat : n = ctx.losses + 1
      BY <2>1 DEF Contexts
    <2>3. c = [ctx EXCEPT !.alive = FALSE, !.event = TRUE, !.losses = n]
      BY <1>1, <2>1, <2>2 DEF Contexts
    <2>4. QED
      BY <2>1, <2>2, <2>3 DEF Contexts
  <1>4. Typed(c, st, surf, live) /\ Phases(c, st, surf) /\ Holds(c, st, surf, gl, live)
    BY <1>2, <1>3 DEF Typed, Phases, Holds, Draws
  <1>5. ctx' = c /\ UNCHANGED <<st, surf, told, gl, live>>
    BY <1>1 DEF Lose
  <1>6. QED
    BY <1>2, <1>4, <1>5 DEF SurfaceInv, Sound

LEMMA DispatchKeeps ==
  ASSUME SurfaceInv, DispatchLost
  PROVE  SurfaceInv'
  <1>1. PICK c : c = [ctx EXCEPT !.event = FALSE]
    OBVIOUS
  <1>2. PICK s : s = [st EXCEPT !.lost = TRUE, !.overdue = FALSE, !.epoch = @ + 1]
    OBVIOUS
  <1>3. Typed(ctx, st, surf, live) /\ Phases(ctx, st, surf) /\ Notices(told, st) /\ Holds(ctx, st, surf, gl, live)
    BY DEF SurfaceInv, Sound
  <1>4. ctx.event /\ ctx' = c /\ st' = s /\ UNCHANGED <<surf, told, gl, live>>
    BY <1>1, <1>2 DEF DispatchLost
  <1>5. c \in Contexts /\ c.alive = FALSE /\ c.event = FALSE
    BY <1>1, <1>3, <1>4 DEF Typed, Contexts, Phases
  <1>6. s \in States /\ s.lost = TRUE /\ s.epoch = st.epoch + 1 /\ s.pending = st.pending /\ st.epoch \in Nat
    <2>1. st \in States
      BY <1>3 DEF Typed
    <2>2. PICK n \in Nat : n = st.epoch + 1
      BY <2>1 DEF States
    <2>3. s = [st EXCEPT !.lost = TRUE, !.overdue = FALSE, !.epoch = n]
      BY <1>2, <2>1, <2>2 DEF States
    <2>4. QED
      BY <2>1, <2>2, <2>3 DEF States
  <1>7. Typed(c, s, surf, live) /\ Phases(c, s, surf) /\ Holds(c, s, surf, gl, live)
    BY <1>3, <1>5, <1>6 DEF Typed, Phases, Holds, Draws
  <1>8. Notices(told, s)
    BY <1>3, <1>6 DEF Notices
  <1>9. QED
    BY <1>4, <1>7, <1>8 DEF SurfaceInv, Sound

\* A deadline is told while its own loss lasts, and was not told before.
LEMMA DeadlineKeeps ==
  ASSUME SurfaceInv, NEW e \in timers, Deadline(e)
  PROVE  /\ SurfaceInv'
         /\ told' # told => /\ ~ctx.alive /\ ~surf.disposed /\ told' = Append(told, st.epoch)
                            /\ \A i \in DOMAIN told : told[i] # st.epoch
  <1>1. Typed(ctx, st, surf, live) /\ Phases(ctx, st, surf) /\ Notices(told, st) /\ Holds(ctx, st, surf, gl, live)
    BY DEF SurfaceInv, Sound
  <1>2. UNCHANGED <<ctx, gl, surf, live>>
    BY DEF Deadline
  <1>3. CASE ~OnRestoreDeadline(e)
    <2>1. UNCHANGED <<st, told>>
      BY <1>3 DEF Deadline
    <2>2. QED
      BY <1>1, <1>2, <2>1 DEF SurfaceInv, Sound
  <1>4. CASE OnRestoreDeadline(e)
    <2>1. PICK s : s = [st EXCEPT !.overdue = TRUE]
      OBVIOUS
    <2>2. st' = s /\ told' = (IF surf.disposed THEN told ELSE Append(told, e)) /\ e = st.epoch /\ st.lost /\ ~st.overdue
      BY <1>4, <2>1 DEF Deadline, OnRestoreDeadline
    <2>3. s \in States /\ s.lost = st.lost /\ s.pending = st.pending /\ s.overdue = TRUE /\ s.epoch = st.epoch /\ st.epoch \in Nat
      BY <1>1, <2>1 DEF Typed, States
    <2>4. Typed(ctx, s, surf, live) /\ Phases(ctx, s, surf) /\ Holds(ctx, s, surf, gl, live)
      BY <1>1, <2>3 DEF Typed, Phases, Holds, Draws
    <2>5. \A i \in DOMAIN told : told[i] # st.epoch
      BY <1>1, <2>2 DEF Notices
    <2>6. Notices(told', s)
      <3>1. told \in Seq(Nat) /\ \A i \in DOMAIN told : told[i] <= st.epoch
        BY <1>1 DEF Notices
      <3>2. CASE surf.disposed
        BY <2>2, <2>3, <3>1, <3>2 DEF Notices
      <3>3. CASE ~surf.disposed
        <4>1. PICK ts : ts = Append(told, st.epoch)
          OBVIOUS
        <4>2. ts \in Seq(Nat) /\ \A i \in DOMAIN ts : ts[i] <= st.epoch
          BY <2>3, <3>1, <4>1
        <4>3. Notices(ts, s)
          BY <2>3, <4>2 DEF Notices
        <4>4. told' = ts
          BY <2>2, <3>3, <4>1
        <4>5. QED
          BY <4>3, <4>4
      <3>4. QED
        BY <3>2, <3>3
    <2>7. ~ctx.alive
      BY <1>1, <2>2 DEF Phases
    <2>8. SurfaceInv'
      BY <1>2, <2>2, <2>4, <2>6 DEF SurfaceInv, Sound
    <2>9. QED
      BY <2>2, <2>5, <2>7, <2>8
  <1>5. QED
    BY <1>3, <1>4

LEMMA DensityMovesKeeps ==
  ASSUME SurfaceInv, NEW d \in Densities, DensityMoves(d)
  PROVE  SurfaceInv'
  <1>1. Typed(ctx, st, surf, live) /\ Phases(ctx, st, surf) /\ Notices(told, st) /\ Holds(ctx, st, surf, gl, live)
    BY DEF SurfaceInv, Sound
  <1>2. live' = d /\ surf.watched = live /\ d # live /\ UNCHANGED <<ctx, st, told, gl, surf>>
    BY DEF DensityMoves
  <1>3. Watched(surf, gl, d)
    BY <1>2 DEF Watched
  <1>4. Typed(ctx, st, surf, d) /\ Holds(ctx, st, surf, gl, d)
    BY <1>1, <1>3 DEF Typed, Holds
  <1>5. QED
    BY <1>1, <1>2, <1>4 DEF SurfaceInv, Sound

LEMMA PacksPlaced ==
  ASSUME NEW G, NEW H, Packs(G, H), Placed(G)
  PROVE  Placed(H)
  BY DEF Packs, Placed, Gridwise, Fixed, Stands

\* A frame of a sound surface; what the surface becomes only says whether it failed.
Shows(u, v, ok) == /\ v \in Surfaces /\ v.disposed = u.disposed /\ v.failed = (u.failed \/ ~ok)
                     /\ (~v.failed => v.watched = u.watched /\ v.announced = u.announced)

LEMMA RenderSound ==
  ASSUME NEW c, NEW s, NEW u, NEW ts, NEW G, Sound(c, s, u, ts, G, live), NEW fails, NEW R, R = Render(c, s, G, fails),
         NEW v, Shows(u, v, R.ok)
  PROVE  Sound(c, R.st, v, ts, R.gl, live)
  <1>1. Typed(c, s, u, live) /\ Phases(c, s, u) /\ Notices(ts, s) /\ Holds(c, s, u, G, live)
    BY DEF Sound
  <1>2. c \in Contexts /\ s \in States /\ u \in Surfaces /\ live \in Densities /\ c.gen \in Nat /\ Here(c) \in Nat
    BY <1>1 DEF Typed, Contexts, Here, Dead
  <1>3. Tables(G) /\ Booked(G, 0)
    BY <1>1 DEF Holds
  <1>4. Rendered(c, s, G, R)
    BY <1>2, <1>3, RenderGives
  <1>5. Tables(R.gl) /\ Booked(R.gl, 0) /\ R.ok \in BOOLEAN /\ v \in Surfaces
    BY <1>4 DEF Rendered, Shows
  <1>6. CASE Action(c, s) = "Skip"
    <2>1. R.gl = G /\ R.st = s /\ R.ok /\ ~Draws(c, s)
      BY <1>4, <1>6 DEF Rendered, Action, Draws
    <2>2. Typed(c, s, v, live) /\ Phases(c, s, v)
      BY <1>1, <1>2, <1>5, <2>1 DEF Typed, Phases, Shows
    <2>3. Holds(c, s, v, G, live)
      BY <1>3, <2>1 DEF Holds
    <2>4. QED
      BY <1>1, <2>1, <2>2, <2>3 DEF Sound
  <1>7. CASE Action(c, s) = "Draw"
    <2>1. Packs(G, R.gl) /\ R.st = s /\ R.ok
      BY <1>4, <1>7 DEF Rendered
    <2>2. Typed(c, s, v, live) /\ Phases(c, s, v)
      BY <1>1, <1>2, <1>5, <2>1 DEF Typed, Phases, Shows
    <2>3. Draws(c, s) => Drawn(R.gl, c.gen)
      BY <1>1, <1>2, <2>1 DEF Holds, Packs
    <2>4. ASSUME Draws(c, s), ~v.failed, ~v.disposed PROVE Placed(R.gl) /\ Watched(v, R.gl, live)
      <3>1. ~u.failed /\ ~u.disposed /\ v.watched = u.watched /\ v.announced = u.announced
        BY <2>1, <2>4 DEF Shows
      <3>2. Placed(G) /\ Watched(u, G, live)
        BY <1>1, <2>4, <3>1 DEF Holds
      <3>3. Placed(R.gl)
        BY <2>1, <3>2, PacksPlaced
      <3>4. R.gl.dpr = G.dpr
        BY <2>1 DEF Packs, Gridwise
      <3>5. QED
        BY <3>1, <3>2, <3>3, <3>4 DEF Watched
    <2>5. Holds(c, s, v, R.gl, live)
      BY <1>5, <2>3, <2>4 DEF Holds
    <2>6. QED
      BY <1>1, <2>1, <2>2, <2>5 DEF Sound
  <1>8. CASE Action(c, s) = "Rebuild"
    <2>1. R.st = [s EXCEPT !.pending = ~R.ok] /\ (R.ok => Drawn(R.gl, Here(c)))
      BY <1>4, <1>8 DEF Rendered
    <2>2. c.alive /\ ~s.lost /\ s.pending
      BY <1>8 DEF Action
    <2>3. R.st \in States /\ R.st.lost = s.lost /\ R.st.pending = ~R.ok /\ R.st.epoch = s.epoch /\ R.st.overdue = s.overdue
      BY <1>2, <1>5, <2>1 DEF States
    <2>4. u.failed \/ u.disposed
      BY <1>1, <2>2 DEF Phases
    <2>5. v.failed \/ v.disposed
      BY <2>4 DEF Shows
    <2>6. Typed(c, R.st, v, live) /\ Phases(c, R.st, v) /\ Notices(ts, R.st)
      BY <1>1, <1>2, <1>5, <2>2, <2>3, <2>5 DEF Typed, Phases, Notices
    <2>7. Holds(c, R.st, v, R.gl, live)
      BY <1>5, <2>1, <2>2, <2>3, <2>5 DEF Holds, Draws, Here
    <2>8. QED
      BY <2>6, <2>7 DEF Sound
  <1>9. Action(c, s) \in {"Skip", "Draw", "Rebuild"}
    BY DEF Action
  <1>10. QED
    BY <1>6, <1>7, <1>8, <1>9

LEMMA FrameKeeps ==
  ASSUME SurfaceInv, NEW fails, Frame(fails)
  PROVE  SurfaceInv'
  <1>1. PICK R : R = Render(ctx, st, gl, fails)
    OBVIOUS
  <1>2. PICK v : v = [surf EXCEPT !.frame = FALSE, !.failed = @ \/ ~R.ok]
    OBVIOUS
  <1>3. gl' = R.gl /\ st' = R.st /\ surf' = v /\ UNCHANGED <<ctx, told, live>>
    BY <1>1, <1>2 DEF Frame, PresentLast, Present
  <1>4. surf \in Surfaces
    BY DEF SurfaceInv, Sound, Typed
  <1>5. Shows(surf, v, R.ok)
    <2>1. PICK b \in BOOLEAN : b = (surf.failed \/ ~R.ok)
      BY <1>4 DEF Surfaces
    <2>2. v = [surf EXCEPT !.frame = FALSE, !.failed = b]
      BY <1>2, <1>4, <2>1 DEF Surfaces
    <2>3. QED
      BY <1>4, <2>1, <2>2 DEF Shows, Surfaces
  <1>6. Sound(ctx, R.st, v, told, R.gl, live)
    BY <1>1, <1>5, RenderSound DEF SurfaceInv
  <1>7. QED
    BY <1>3, <1>6 DEF SurfaceInv

\* Every terminal placed again, by a renderer that draws.
LEMMA ReapplySound ==
  ASSUME NEW G, Tables(G), Booked(G, 0), NEW gen, Drawn(G, gen), NEW H, H = ReapplyAll(G)
  PROVE  Tables(H) /\ Booked(H, 0) /\ Drawn(H, gen) /\ Placed(H) /\ H.dpr = G.dpr
  <1>1. /\ Tables(H) /\ Booked(H, 0) /\ Gridwise(G, H)
        /\ \A i \in DOMAIN G.grids : Made(G.grids[i], gen) => Made(H.grids[i], gen)
        /\ \A i \in DOMAIN G.grids : FontIs(G, G.grids[i], gen) => Stands(G, H.grids[i])
    BY ReapplyGives
  <1>2. Drawn(H, gen)
    BY <1>1, GridwiseDrawn
  <1>3. Placed(H)
    BY <1>1 DEF Placed, Stands, Drawn, Gridwise
  <1>4. QED
    BY <1>1, <1>2, <1>3 DEF Gridwise

\* The density the watcher reports, taken over by a renderer that can bake.
LEMMA DensitySet ==
  ASSUME NEW G, Tables(G), Booked(G, 0), live \in Densities, ctx \in Contexts, NEW fails \in BOOLEAN, NEW r,
         r = SetDevicePixelRatio(ctx, st, G, fails)
  PROVE  /\ Tables(r.gl) /\ Booked(r.gl, 0) /\ r.ok \in BOOLEAN
         /\ Ready /\ Drawn(G, ctx.gen) => Drawn(r.gl, ctx.gen) /\ (r.ok => r.gl.dpr = live)
  <1>1. CASE G.dpr = live \/ MustDefer(ctx, st)
    <2>1. r.gl = G /\ r.ok = TRUE
      BY <1>1 DEF SetDevicePixelRatio, Fine
    <2>2. QED
      BY <1>1, <2>1 DEF Ready, MustDefer
  <1>2. CASE ~(G.dpr = live \/ MustDefer(ctx, st)) /\ fails
    <2>1. r.gl = G /\ r.ok = FALSE
      BY <1>2 DEF SetDevicePixelRatio, Refused
    <2>2. QED
      BY <2>1
  <1>3. CASE ~(G.dpr = live \/ MustDefer(ctx, st)) /\ ~fails
    <2>1. PICK ids : ids = {x.id : x \in G.configs}
      OBVIOUS
    <2>2. ctx.alive /\ Here(ctx) = ctx.gen /\ ctx.gen \in Nat
      BY <1>3 DEF MustDefer, Here, Contexts
    <2>3. PICK B : B = Rebake(G, ids, ctx.gen, live)
      OBVIOUS
    <2>4. Tables(B) /\ Booked(B, 0) /\ Baked(G, B, ids, ctx.gen, live)
      BY <2>2, <2>3, RebakeGives
    <2>5. PICK H : H = [B EXCEPT !.dpr = live]
      OBVIOUS
    <2>6. r.gl = H /\ r.ok = TRUE
      BY <1>3, <2>1, <2>2, <2>3, <2>5 DEF SetDevicePixelRatio, Fine
    <2>7. H \in Renderer /\ H.configs = B.configs /\ H.grids = B.grids /\ H.pipe = B.pipe /\ H.next = B.next /\ H.dpr = live
      BY <2>4, <2>5 DEF Tables, Renderer
    <2>8. Tables(H) /\ Booked(H, 0)
      BY <2>4, <2>7 DEF Tables, Booked
    <2>9. \A e \in H.configs : e.gen = ctx.gen /\ e.dpr = live
      <3>1. \A d \in G.configs : d.id \in ids
        BY <2>1
      <3>2. QED
        BY <2>4, <2>7, <3>1 DEF Baked
    <2>10. ASSUME Drawn(G, ctx.gen) PROVE Drawn(H, ctx.gen)
      <3>1. H.grids = G.grids /\ H.pipe = G.pipe
        BY <2>4, <2>7 DEF Baked
      <3>2. ASSUME NEW i \in DOMAIN G.grids, NEW e \in H.configs, e.id = G.grids[i].config PROVE e.key = G.grids[i].key
        <4>1. PICK d \in G.configs : e.id = d.id /\ e.key = d.key
          BY <2>4, <2>7 DEF Baked
        <4>2. QED
          BY <2>10, <3>2, <4>1 DEF Drawn, FontIs
      <3>3. QED
        BY <2>7, <2>9, <2>10, <3>1, <3>2 DEF Drawn, FontIs
    <2>11. QED
      BY <2>6, <2>7, <2>8, <2>10
  <1>4. QED
    BY <1>1, <1>2, <1>3

LEMMA DensityKeeps ==
  ASSUME SurfaceInv, NEW fails, DensityEvent(fails)
  PROVE  SurfaceInv'
  <1>1. Typed(ctx, st, surf, live) /\ Phases(ctx, st, surf) /\ Notices(told, st) /\ Holds(ctx, st, surf, gl, live)
    BY DEF SurfaceInv, Sound
  <1>2. Tables(gl) /\ Booked(gl, 0) /\ ctx \in Contexts /\ live \in Densities /\ surf \in Surfaces /\ (Ready => Drawn(gl, ctx.gen))
    BY <1>1 DEF Typed, Holds, Draws, Ready
  <1>3. PICK seen : seen = [surf EXCEPT !.watched = live]
    OBVIOUS
  <1>4. seen \in Surfaces /\ seen.watched = live /\ seen.failed = surf.failed /\ seen.disposed = surf.disposed
    BY <1>2, <1>3 DEF Surfaces
  <1>5. PICK bad \in BOOLEAN : bad = (fails # "no")
    OBVIOUS
  <1>6. PICK r : r = SetDevicePixelRatio(ctx, st, gl, bad)
    OBVIOUS
  <1>7. UNCHANGED <<ctx, told, live>> /\ AfterBake(r, seen, fails)
    BY <1>3, <1>5, <1>6 DEF DensityEvent
  <1>8. /\ Tables(r.gl) /\ Booked(r.gl, 0) /\ r.ok \in BOOLEAN
        /\ Ready /\ Drawn(gl, ctx.gen) => Drawn(r.gl, ctx.gen) /\ (r.ok => r.gl.dpr = live)
    BY <1>2, <1>6, DensitySet
  <1>9. CASE ~r.ok
    <2>1. PICK v : v = [seen EXCEPT !.failed = TRUE]
      OBVIOUS
    <2>2. gl' = r.gl /\ st' = st /\ surf' = v
      BY <1>7, <1>9, <2>1 DEF AfterBake
    <2>3. v \in Surfaces /\ v.failed = TRUE /\ v.disposed = surf.disposed
      BY <1>4, <2>1 DEF Surfaces
    <2>4. Typed(ctx, st, v, live) /\ Phases(ctx, st, v) /\ Holds(ctx, st, v, r.gl, live)
      BY <1>1, <1>2, <1>8, <2>3 DEF Typed, Phases, Holds, Draws, Ready
    <2>5. QED
      BY <1>1, <1>7, <2>2, <2>4 DEF SurfaceInv, Sound
  <1>10. CASE r.ok
    <2>1. PICK K : K = ReapplyAll(r.gl)
      OBVIOUS
    <2>2. Tables(K) /\ Booked(K, 0)
      BY <1>8, <2>1, ReapplyGives
    <2>3. Ready => Drawn(K, ctx.gen) /\ Placed(K) /\ K.dpr = live
      BY <1>2, <1>8, <1>10, <2>1, ReapplySound
    <2>4. PICK w : w = Announce(seen)
      OBVIOUS
    <2>5. w \in Surfaces /\ w.watched = live /\ w.announced = live /\ w.failed = surf.failed /\ w.disposed = surf.disposed
      BY <1>2, <1>4, <2>4 DEF Announce, Surfaces
    <2>6. Sound(ctx, st, w, told, K, live)
      <3>1. Typed(ctx, st, w, live) /\ Phases(ctx, st, w)
        BY <1>1, <2>5 DEF Typed, Phases
      <3>2. Holds(ctx, st, w, K, live)
        BY <2>2, <2>3, <2>5 DEF Holds, Draws, Ready, Watched
      <3>3. QED
        BY <1>1, <3>1, <3>2 DEF Sound
    <2>7. PICK R : R = Render(ctx, st, K, fails)
      OBVIOUS
    <2>8. PICK v : v = IF R.ok THEN w ELSE [seen EXCEPT !.failed = TRUE]
      OBVIOUS
    <2>9. gl' = R.gl /\ st' = R.st /\ surf' = v
      BY <1>7, <1>10, <2>1, <2>4, <2>7, <2>8 DEF AfterBake, PresentAnew, Present
    <2>10. R.ok \in BOOLEAN
      <3>1. Here(ctx) \in Nat
        BY <1>2 DEF Here, Dead, Contexts
      <3>2. Rendered(ctx, st, K, R)
        BY <1>2, <2>2, <2>7, <3>1, RenderGives
      <3>3. QED
        BY <3>2 DEF Rendered
    <2>11. Shows(w, v, R.ok)
      <3>1. CASE R.ok
        BY <2>5, <2>8, <2>10, <3>1 DEF Shows, Surfaces
      <3>2. CASE ~R.ok
        BY <1>4, <2>5, <2>8, <2>10, <3>2 DEF Shows, Surfaces
      <3>3. QED
        BY <3>1, <3>2
    <2>12. Sound(ctx, R.st, v, told, R.gl, live)
      BY <2>6, <2>7, <2>11, RenderSound
    <2>13. QED
      BY <1>7, <2>9, <2>12 DEF SurfaceInv
  <1>11. QED
    BY <1>8, <1>9, <1>10

\* The restore: presented, placed again and presented; or put off until somebody asks for a frame.
LEMMA RestoredKeeps ==
  ASSUME SurfaceInv, NEW fails, Restored(fails)
  PROVE  SurfaceInv'
  <1>1. Typed(ctx, st, surf, live) /\ Phases(ctx, st, surf) /\ Notices(told, st) /\ Holds(ctx, st, surf, gl, live)
    BY DEF SurfaceInv, Sound
  <1>2. Tables(gl) /\ Booked(gl, 0) /\ ctx \in Contexts /\ st \in States /\ live \in Densities /\ surf \in Surfaces
    BY <1>1 DEF Typed, Holds
  <1>3. PICK c : c = [ctx EXCEPT !.alive = TRUE, !.gen = @ + 1]
    OBVIOUS
  <1>4. PICK s : s = OnRestored(st)
    OBVIOUS
  <1>5. ctx' = c /\ UNCHANGED <<told, live>> /\ ~ctx.event
    BY <1>3 DEF Restored
  <1>6. c \in Contexts /\ c.alive = TRUE /\ c.event = FALSE /\ c.gen \in Nat /\ Here(c) = c.gen
    <2>1. PICK n \in Nat : n = ctx.gen + 1
      BY <1>2 DEF Contexts
    <2>2. c = [ctx EXCEPT !.alive = TRUE, !.gen = n]
      BY <1>2, <1>3, <2>1 DEF Contexts
    <2>3. c \in Contexts /\ c.alive = TRUE /\ c.event = FALSE /\ c.gen \in Nat
      BY <1>2, <1>5, <2>1, <2>2 DEF Contexts
    <2>4. QED
      BY <2>3 DEF Here
  <1>7. s \in States /\ s.lost = FALSE /\ s.pending = TRUE /\ s.epoch = st.epoch
    BY <1>2, <1>4 DEF OnRestored, States
  <1>8. Notices(told, s)
    BY <1>1, <1>7 DEF Notices
  <1>9. CASE surf.disposed
    <2>1. st' = s /\ UNCHANGED <<gl, surf>>
      BY <1>4, <1>9 DEF Restored
    <2>2. Typed(c, s, surf, live) /\ Phases(c, s, surf) /\ Holds(c, s, surf, gl, live)
      BY <1>2, <1>6, <1>7, <1>9 DEF Typed, Phases, Holds, Draws
    <2>3. QED
      BY <1>5, <1>8, <2>1, <2>2 DEF SurfaceInv, Sound
  <1>10. CASE ~surf.disposed
    <2>1. PICK r : r = Render(c, s, gl, fails)
      OBVIOUS
    <2>2. PresentAgain(c, r)
      BY <1>3, <1>4, <1>5, <1>10, <2>1 DEF Restored
    <2>3. Rendered(c, s, gl, r)
      BY <1>2, <1>6, <2>1, RenderGives
    <2>4. Action(c, s) = "Rebuild"
      BY <1>6, <1>7 DEF Action
    <2>5. /\ Tables(r.gl) /\ Booked(r.gl, 0) /\ r.ok \in BOOLEAN /\ r.st = [s EXCEPT !.pending = ~r.ok]
          /\ (r.ok => Drawn(r.gl, c.gen) /\ r.gl.dpr = live)
      BY <1>6, <2>3, <2>4 DEF Rendered
    <2>6. r.st \in States /\ r.st.lost = FALSE /\ r.st.pending = ~r.ok /\ r.st.epoch = s.epoch
      BY <1>7, <2>5 DEF States
    <2>7. Notices(told, r.st)
      BY <1>8, <1>7, <2>6 DEF Notices
    <2>8. CASE ~r.ok
      <3>1. PICK v : v = [surf EXCEPT !.failed = TRUE]
        OBVIOUS
      <3>2. gl' = r.gl /\ st' = r.st /\ surf' = v
        BY <2>2, <2>8, <3>1 DEF PresentAgain, Present
      <3>3. v \in Surfaces /\ v.failed = TRUE
        BY <1>2, <3>1 DEF Surfaces
      <3>4. Typed(c, r.st, v, live) /\ Phases(c, r.st, v) /\ Holds(c, r.st, v, r.gl, live)
        BY <1>2, <1>6, <2>5, <2>6, <2>8, <3>3 DEF Typed, Phases, Holds, Draws
      <3>5. QED
        BY <1>5, <2>7, <3>2, <3>4 DEF SurfaceInv, Sound
    <2>9. CASE r.ok
      <3>1. PICK K : K = ReapplyAll(r.gl)
        OBVIOUS
      <3>2. Tables(K) /\ Booked(K, 0) /\ Drawn(K, c.gen) /\ Placed(K) /\ K.dpr = live
        BY <2>5, <2>9, <3>1, ReapplySound
      <3>3. PICK w : w = IF live # surf.announced THEN Announce(surf) ELSE surf
        OBVIOUS
      <3>4. w \in Surfaces /\ w.announced = live
        BY <1>2, <3>3 DEF Announce, Surfaces
      <3>5. Typed(c, r.st, w, live) /\ Phases(c, r.st, w)
        BY <1>2, <1>6, <2>6, <2>9, <3>4 DEF Typed, Phases
      <3>6. Holds(c, r.st, w, K, live)
        BY <3>2, <3>4 DEF Holds, Watched
      <3>7. Sound(c, r.st, w, told, K, live)
        BY <2>7, <3>5, <3>6 DEF Sound
      <3>8. PICK R : R = Render(c, r.st, K, "no")
        OBVIOUS
      <3>9. gl' = R.gl /\ st' = R.st /\ surf' = w
        BY <2>2, <2>9, <3>1, <3>3, <3>8 DEF PresentAgain, Present
      <3>10. R.ok
        <4>1. Rendered(c, r.st, K, R)
          BY <1>2, <1>6, <3>2, <3>8, RenderGives
        <4>2. Action(c, r.st) = "Draw"
          BY <1>6, <2>6, <2>9 DEF Action
        <4>3. QED
          BY <4>1, <4>2 DEF Rendered
      <3>11. Shows(w, w, R.ok)
        BY <3>4, <3>10 DEF Shows, Surfaces
      <3>12. Sound(c, R.st, w, told, R.gl, live)
        BY <3>7, <3>8, <3>11, RenderSound
      <3>13. QED
        BY <1>5, <3>9, <3>12 DEF SurfaceInv
    <2>10. QED
      BY <2>5, <2>8, <2>9
  <1>11. QED
    BY <1>9, <1>10

\* What a call of the host does to the renderer: a terminal that could be drawn, and stood
\* where it should, does so still.
Carries(G, H) ==
  /\ Tables(H) /\ Booked(H, 0) /\ H.dpr = G.dpr
  /\ Ready /\ Drawn(G, ctx.gen) => Drawn(H, ctx.gen) /\ (Placed(G) => Placed(H))
Asks(u, v) == v \in Surfaces /\ v.watched = u.watched /\ v.announced = u.announced /\ v.disposed = u.disposed /\ v.failed = u.failed

LEMMA CallKeeps ==
  ASSUME SurfaceInv, UNCHANGED <<ctx, st, told, live>>, NEW G, gl' = G, Carries(gl, G), NEW v, surf' = v, Asks(surf, v)
  PROVE  SurfaceInv'
  <1>1. Typed(ctx, st, surf, live) /\ Phases(ctx, st, surf) /\ Notices(told, st) /\ Holds(ctx, st, surf, gl, live)
    BY DEF SurfaceInv, Sound
  <1>2. Typed(ctx, st, v, live) /\ Phases(ctx, st, v)
    BY <1>1 DEF Typed, Phases, Asks
  <1>3. Holds(ctx, st, v, G, live)
    BY <1>1 DEF Holds, Carries, Asks, Draws, Ready, Watched
  <1>4. QED
    BY <1>1, <1>2, <1>3 DEF SurfaceInv, Sound

LEMMA Requested ==
  ASSUME surf \in Surfaces, NEW v, v = [surf EXCEPT !.frame = TRUE]
  PROVE  Asks(surf, v)
  BY DEF Asks, Surfaces

LEMMA LessCarries ==
  ASSUME NEW G, NEW H, Less(G, H), Tables(H), Booked(H, 0)
  PROVE  Carries(G, H)
  <1>1. ASSUME Drawn(G, ctx.gen) PROVE Drawn(H, ctx.gen)
    <2>1. ASSUME NEW j \in DOMAIN H.grids PROVE Made(H.grids[j], ctx.gen) /\ FontIs(H, H.grids[j], ctx.gen)
      <3>1. PICK k \in DOMAIN G.grids : H.grids[j] = G.grids[k]
        BY DEF Less
      <3>2. Made(G.grids[k], ctx.gen) /\ FontIs(G, G.grids[k], ctx.gen)
        BY <1>1 DEF Drawn
      <3>3. FontIs(H, G.grids[k], ctx.gen)
        BY <3>2 DEF FontIs, Less, SameFont
      <3>4. QED
        BY <3>1, <3>2, <3>3
    <2>2. QED
      BY <1>1, <2>1 DEF Drawn, Less
  <1>2. ASSUME Placed(G) PROVE Placed(H)
    BY <1>2 DEF Placed, Stands, Less
  <1>3. H.dpr = G.dpr
    BY DEF Less
  <1>4. QED
    BY <1>1, <1>2, <1>3 DEF Carries

LEMMA ReleaseLeaseKeeps ==
  ASSUME SurfaceInv, NEW i \in DOMAIN gl.grids, ReleaseLease(i)
  PROVE  SurfaceInv'
  <1>1. Tables(gl) /\ Booked(gl, 0) /\ surf \in Surfaces
    BY DEF SurfaceInv, Sound, Typed, Holds
  <1>2. PICK G : G = Removed(gl, i)
    OBVIOUS
  <1>3. Carries(gl, G)
    BY <1>1, <1>2, RemovedGives, LessCarries
  <1>4. PICK v : v = [surf EXCEPT !.frame = TRUE]
    OBVIOUS
  <1>5. gl' = G /\ surf' = v /\ UNCHANGED <<ctx, st, told, live>>
    BY <1>2, <1>4 DEF ReleaseLease, Call, Request
  <1>6. QED
    BY <1>1, <1>3, <1>4, <1>5, Requested, CallKeeps

\* One grid replaced by another with the same configuration.
OnlyAt(G, H, i, h) == /\ H.configs = G.configs /\ H.dpr = G.dpr /\ H.pipe = G.pipe /\ DOMAIN H.grids = DOMAIN G.grids
                      /\ H.grids[i] = h /\ \A j \in DOMAIN G.grids : j # i => H.grids[j] = G.grids[j]

LEMMA OneGives ==
  ASSUME NEW G, Tables(G), Booked(G, 0), NEW i \in DOMAIN G.grids, NEW h \in Grid, h.data = h.uploaded, h.config = G.grids[i].config,
         NEW H, H = [G EXCEPT !.grids[i] = h]
  PROVE  Tables(H) /\ Booked(H, 0) /\ OnlyAt(G, H, i, h)
  <1>1. G \in Renderer /\ G.grids \in Seq(Grid)
    BY RendererIs DEF Tables
  <1>2. PICK hs : hs = [G.grids EXCEPT ![i] = h]
    OBVIOUS
  <1>3. /\ hs \in Seq(Grid) /\ DOMAIN hs = DOMAIN G.grids /\ Len(hs) = Len(G.grids)
        /\ hs[i] = h /\ \A j \in DOMAIN G.grids : j # i => hs[j] = G.grids[j]
    BY <1>1, <1>2
  <1>4. H = [G EXCEPT !.grids = hs]
    BY <1>1, <1>2 DEF Renderer
  <1>5. H \in Renderer /\ H.configs = G.configs /\ H.grids = hs /\ H.dpr = G.dpr /\ H.pipe = G.pipe
    BY <1>1, <1>3, <1>4 DEF Renderer
  <1>6. \A j \in DOMAIN G.grids : hs[j].config = G.grids[j].config /\ hs[j].data = hs[j].uploaded
    BY <1>3, GridOf
  <1>7. Tables(H) /\ Booked(H, 0)
    BY <1>3, <1>4, <1>6, Regridded
  <1>8. QED
    BY <1>3, <1>5, <1>7 DEF OnlyAt

\* A grid that is as ready to be drawn, of the same font, and stands where it should.
LEMMA OneCarries ==
  ASSUME NEW G, NEW H, NEW i \in DOMAIN G.grids, NEW h, OnlyAt(G, H, i, h), Tables(H), Booked(H, 0),
         h.config = G.grids[i].config, h.key = G.grids[i].key, Made(G.grids[i], ctx.gen) => Made(h, ctx.gen),
         FontIs(G, G.grids[i], ctx.gen) /\ Stands(G, G.grids[i]) => Stands(G, h)
  PROVE  Carries(G, H)
  <1>1. ASSUME Drawn(G, ctx.gen) PROVE Drawn(H, ctx.gen)
    BY <1>1 DEF Drawn, OnlyAt, FontIs
  <1>2. ASSUME Drawn(G, ctx.gen), Placed(G) PROVE Placed(H)
    BY <1>2 DEF Drawn, Placed, OnlyAt, Stands
  <1>3. H.dpr = G.dpr
    BY DEF OnlyAt
  <1>4. QED
    BY <1>1, <1>2, <1>3 DEF Carries

\* A grid placed after a change of what it is placed by.
Refitted(g, h) == /\ h \in Grid /\ h.data = h.uploaded /\ h.config = g.config /\ h.key = g.key
                  /\ (Made(g, ctx.gen) => Made(h, ctx.gen))

LEMMA RefittedKeeps ==
  ASSUME SurfaceInv, NEW i \in DOMAIN gl.grids, NEW g, Refitted(gl.grids[i], g), UNCHANGED <<ctx, st, told, live>>,
         Request, gl' = [gl EXCEPT !.grids[i] = Place(gl, g)]
  PROVE  SurfaceInv'
  <1>1. Tables(gl) /\ Booked(gl, 0) /\ surf \in Surfaces
    BY DEF SurfaceInv, Sound, Typed, Holds
  <1>2. g \in Grid /\ g.data = g.uploaded /\ g.config = gl.grids[i].config /\ g.key = gl.grids[i].key
        /\ (Made(gl.grids[i], ctx.gen) => Made(g, ctx.gen))
    BY DEF Refitted
  <1>3. \E c \in gl.configs : c.id = g.config
    BY <1>1, <1>2 DEF Tables
  <1>4. PICK h : h = Place(gl, g)
    OBVIOUS
  <1>5. Fixed(g, h) /\ (Made(g, ctx.gen) => Made(h, ctx.gen)) /\ (FontIs(gl, g, ctx.gen) => Stands(gl, h))
    BY <1>1, <1>2, <1>3, <1>4, PlaceKeeps
  <1>6. h \in Grid /\ h.data = h.uploaded /\ h.config = gl.grids[i].config /\ h.key = gl.grids[i].key
    BY <1>2, <1>5 DEF Fixed
  <1>7. PICK G : G = [gl EXCEPT !.grids[i] = h]
    OBVIOUS
  <1>8. Tables(G) /\ Booked(G, 0) /\ OnlyAt(gl, G, i, h)
    BY <1>1, <1>6, <1>7, OneGives
  <1>9. FontIs(gl, gl.grids[i], ctx.gen) => Stands(gl, h)
    BY <1>2, <1>5 DEF FontIs
  <1>10. Carries(gl, G)
    BY <1>2, <1>5, <1>6, <1>8, <1>9, OneCarries
  <1>11. PICK v : v = [surf EXCEPT !.frame = TRUE]
    OBVIOUS
  <1>12. surf' = v /\ gl' = G
    BY <1>4, <1>7, <1>11 DEF Request
  <1>13. QED
    BY <1>1, <1>10, <1>11, <1>12, Requested, CallKeeps

LEMMA ResizeKeeps ==
  ASSUME SurfaceInv, NEW i \in DOMAIN gl.grids, Resize(i)
  PROVE  SurfaceInv'
  <1>1. gl.grids[i] \in Grid /\ gl.grids[i].data = gl.grids[i].uploaded
    BY GridOf DEF SurfaceInv, Sound, Holds
  <1>2. PICK g : g = [gl.grids[i] EXCEPT !.sized = TRUE]
    OBVIOUS
  <1>3. Refitted(gl.grids[i], g)
    BY <1>1, <1>2 DEF Refitted, Grid, Made
  <1>4. gl' = [gl EXCEPT !.grids[i] = Place(gl, g)] /\ Request /\ UNCHANGED <<ctx, st, told, live>>
    BY <1>2 DEF Resize, Call
  <1>5. QED
    BY <1>3, <1>4, RefittedKeeps

LEMMA SetHiddenKeeps ==
  ASSUME SurfaceInv, NEW i \in DOMAIN gl.grids, SetHidden(i)
  PROVE  SurfaceInv'
  <1>1. gl.grids[i] \in Grid /\ gl.grids[i].data = gl.grids[i].uploaded
    BY GridOf DEF SurfaceInv, Sound, Holds
  <1>2. PICK g : g = Toggled(gl.grids[i])
    OBVIOUS
  <1>3. Refitted(gl.grids[i], g)
    BY <1>1, <1>2 DEF Toggled, Refitted, Grid, Made
  <1>4. gl' = [gl EXCEPT !.grids[i] = Place(gl, g)] /\ Request /\ UNCHANGED <<ctx, st, told, live>>
    BY <1>2 DEF SetHidden, Call
  <1>5. QED
    BY <1>3, <1>4, RefittedKeeps

LEMMA ApplyDamageKeeps ==
  ASSUME SurfaceInv, NEW i \in DOMAIN gl.grids, ApplyDamage(i)
  PROVE  SurfaceInv'
  <1>1. Tables(gl) /\ Booked(gl, 0) /\ surf \in Surfaces /\ gl \in Renderer
    BY DEF SurfaceInv, Sound, Typed, Holds, Tables
  <1>2. PICK g \in Grid : g = gl.grids[i]
    BY <1>1, GridOf
  <1>3. g.data = g.uploaded
    BY <1>1, <1>2, GridOf
  <1>4. PICK n \in Nat : n = 1 + (g.want % 2)
    BY <1>2 DEF Grid
  <1>5. PICK h : h = [g EXCEPT !.want = n, !.dirty = TRUE]
    OBVIOUS
  <1>6. h \in Grid /\ h.data = h.uploaded /\ h.config = g.config /\ h.key = g.key /\ (Made(g, ctx.gen) => Made(h, ctx.gen))
        /\ h.view = g.view /\ h.sized = g.sized /\ h.hidden = g.hidden
    BY <1>2, <1>3, <1>4, <1>5 DEF Grid, Made
  <1>7. PICK G : G = [gl EXCEPT !.grids[i] = h]
    OBVIOUS
  <1>8. gl' = G
    <2>1. gl' = [gl EXCEPT !.grids[i].want = 1 + (@ % 2), !.grids[i].dirty = TRUE]
      BY DEF ApplyDamage
    <2>2. gl.grids \in Seq(Grid)
      BY <1>1, RendererIs
    <2>3. QED
      BY <1>1, <1>2, <1>4, <1>5, <1>7, <2>1, <2>2 DEF Renderer, Grid
  <1>9. Tables(G) /\ Booked(G, 0) /\ OnlyAt(gl, G, i, h)
    BY <1>1, <1>2, <1>6, <1>7, OneGives
  <1>10. Stands(gl, g) => Stands(gl, h)
    BY <1>6 DEF Stands
  <1>11. Carries(gl, G)
    BY <1>2, <1>6, <1>9, <1>10, OneCarries
  <1>12. PICK v : v = [surf EXCEPT !.frame = TRUE]
    OBVIOUS
  <1>13. surf' = v /\ UNCHANGED <<ctx, st, told, live>>
    BY <1>12 DEF ApplyDamage, Request, Call
  <1>14. QED
    BY <1>1, <1>8, <1>11, <1>12, <1>13, Requested, CallKeeps

\* While frames are drawn every configuration is of this context: each has a grid.
LEMMA AllFresh ==
  ASSUME NEW G, Tables(G), Booked(G, 0), NEW gen, Drawn(G, gen), NEW c \in G.configs
  PROVE  c.gen = gen /\ c.dpr = G.dpr
  <1>1. G.grids \in Seq(Grid) /\ c \in FontConfig
    BY RendererIs DEF Tables
  <1>2. c.refs = Cardinality(Users(G.grids, c.id)) + Owned(c, 0) /\ c.refs # 0 /\ c.id # 0
    BY <1>1 DEF Booked, FontConfig
  <1>3. Cardinality(Users(G.grids, c.id)) # 0
    BY <1>2 DEF Owned
  <1>4. PICK i \in DOMAIN G.grids : G.grids[i].config = c.id
    <2>1. Users(G.grids, c.id) # {}
      BY <1>1, <1>3, UsersCount
    <2>2. QED
      BY <2>1 DEF Users
  <1>5. QED
    BY <1>4 DEF Drawn, FontIs

\* A change of the configurations leaves those of the grids as they are.
LEMMA DescendsKeep ==
  ASSUME NEW G, NEW H, NEW here, Tables(G), Tables(H), Descends(G, H, here), H.dpr = G.dpr, NEW i \in DOMAIN G.grids, NEW gen,
         FontIs(G, G.grids[i], gen)
  PROVE  FontIs(H, G.grids[i], gen)
  <1>1. SUFFICES ASSUME NEW e \in H.configs, e.id = G.grids[i].config
                 PROVE  e.gen = gen /\ e.key = G.grids[i].key /\ e.dpr = H.dpr
    BY DEF FontIs
  <1>2. PICK c \in G.configs : c.id = G.grids[i].config
    BY DEF Tables
  <1>3. c.id < G.next /\ c.id \in Nat /\ G.next \in Nat
    BY RendererIs DEF Tables, FontConfig
  <1>4. PICK d \in G.configs : SameFont(d, e)
    BY <1>1, <1>2, <1>3 DEF Descends
  <1>5. QED
    BY <1>1, <1>4 DEF FontIs, SameFont

LEMMA AddGridKeeps ==
  ASSUME SurfaceInv, NEW key \in Keys, NEW fails \in BOOLEAN, AddGrid(key, fails)
  PROVE  SurfaceInv'
  <1>1. Tables(gl) /\ Booked(gl, 0) /\ surf \in Surfaces /\ ctx \in Contexts /\ gl \in Renderer
    BY DEF SurfaceInv, Sound, Typed, Holds, Tables
  <1>2. PICK here \in Nat : here = Here(ctx)
    BY <1>1 DEF Contexts, Here, Dead
  <1>3. PICK got : got = Acquire(gl, key, here, fails)
    OBVIOUS
  <1>4. (~got.ok /\ got.gl = gl) \/ (got.ok /\ Got(gl, got.gl, key, here))
    BY <1>1, <1>3, AcquireGives
  <1>5. UNCHANGED <<ctx, st, told, live, surf>>
    BY DEF AddGrid, Call
  <1>6. Asks(surf, surf)
    BY <1>1 DEF Asks
  <1>7. CASE ~got.ok
    <2>1. gl' = gl
      BY <1>2, <1>3, <1>7 DEF AddGrid
    <2>2. Carries(gl, gl)
      BY <1>1 DEF Carries
    <2>3. QED
      BY <1>5, <1>6, <2>1, <2>2, CallKeeps
  <1>8. CASE got.ok
    <2>1. PICK K : K = got.gl
      OBVIOUS
    <2>2. Tables(K) /\ Same(gl, K) /\ Descends(gl, K, here)
      BY <1>4, <1>8, <2>1 DEF Got
    <2>3. PICK c \in K.configs : c.key = key /\ Booked(K, c.id)
      BY <1>4, <1>8, <2>1 DEF Got
    <2>4. c = CHOOSE d \in K.configs : d.key = key
      BY <2>2, <2>3 DEF Tables
    <2>5. PICK g : g = [key |-> key, config |-> c.id, gen |-> here, view |-> NoView,
                        sized |-> FALSE, hidden |-> FALSE, dirty |-> FALSE, shown |-> FALSE,
                        want |-> 0, inst |-> 0, uploaded |-> 0, data |-> 0]
      OBVIOUS
    <2>6. c.id \in Nat
      BY <2>2, <2>3, RendererIs DEF Tables, FontConfig
    <2>7. g \in Grid /\ g.config = c.id /\ g.data = g.uploaded /\ g.gen = here /\ g.shown = FALSE /\ g.sized = FALSE /\ g.key = key
      <3>1. NoView \in Views
        BY DEF Views
      <3>2. QED
        BY <2>5, <2>6, <3>1 DEF Grid
    <2>8. PICK H : H = [K EXCEPT !.grids = Append(@, g), !.added = @ + 1]
      OBVIOUS
    <2>9. gl' = H
      BY <1>2, <1>3, <1>8, <2>1, <2>4, <2>5, <2>8 DEF AddGrid
    <2>10. Tables(H) /\ Booked(H, 0) /\ H.configs = K.configs /\ H.grids = Append(K.grids, g) /\ H.dpr = K.dpr /\ H.pipe = K.pipe
      BY <2>2, <2>3, <2>7, <2>8, AddedGives
    <2>11. K.grids = gl.grids /\ H.dpr = gl.dpr /\ H.pipe = gl.pipe /\ gl.grids \in Seq(Grid) /\ K.dpr = gl.dpr
      BY <1>1, <2>2, <2>10, RendererIs DEF Same
    <2>12. \A j \in DOMAIN H.grids : (j \in DOMAIN gl.grids /\ H.grids[j] = gl.grids[j]) \/ H.grids[j] = g
      BY <2>10, <2>11
    <2>13. ASSUME Ready, Drawn(gl, ctx.gen) PROVE Drawn(H, ctx.gen)
      <3>1. here = ctx.gen
        BY <1>2, <2>13 DEF Ready, Here
      <3>2. Made(g, ctx.gen)
        BY <2>7, <3>1 DEF Made
      <3>3. c.gen = ctx.gen /\ c.dpr = H.dpr
        BY <1>1, <2>2, <2>3, <2>11, <2>13, <3>1, AllFresh DEF Descends, SameFont
      <3>4. FontIs(H, g, ctx.gen)
        BY <2>2, <2>3, <2>7, <2>10, <3>3 DEF FontIs, Tables
      <3>5. ASSUME NEW j \in DOMAIN gl.grids PROVE Made(gl.grids[j], ctx.gen) /\ FontIs(H, gl.grids[j], ctx.gen)
        <4>1. Made(gl.grids[j], ctx.gen) /\ FontIs(gl, gl.grids[j], ctx.gen)
          BY <2>13, <3>5 DEF Drawn
        <4>2. FontIs(K, gl.grids[j], ctx.gen)
          BY <1>1, <2>2, <2>11, <3>5, <4>1, DescendsKeep
        <4>3. QED
          BY <2>10, <4>1, <4>2 DEF FontIs
      <3>6. QED
        BY <2>11, <2>12, <2>13, <3>2, <3>4, <3>5 DEF Drawn
    <2>14. ASSUME Placed(gl) PROVE Placed(H)
      BY <2>7, <2>11, <2>12, <2>14 DEF Placed, Stands
    <2>15. Carries(gl, H)
      BY <2>10, <2>11, <2>13, <2>14 DEF Carries
    <2>16. QED
      BY <1>5, <1>6, <2>9, <2>15, CallKeeps
  <1>9. QED
    BY <1>7, <1>8

\* New selectors of one grid, whose configuration becomes the one of its font if it can.
LEMMA AdoptKeeps ==
  ASSUME SurfaceInv, NEW i \in DOMAIN gl.grids, NEW key \in Keys, NEW fails \in BOOLEAN, AdoptSelectors(i, key, fails)
  PROVE  SurfaceInv'
  <1>1. Tables(gl) /\ Booked(gl, 0) /\ surf \in Surfaces /\ ctx \in Contexts /\ gl \in Renderer
    BY DEF SurfaceInv, Sound, Typed, Holds, Tables
  <1>2. PICK here \in Nat : here = Here(ctx)
    BY <1>1 DEF Contexts, Here, Dead
  <1>3. PICK g \in Grid : g = gl.grids[i] /\ g.data = g.uploaded
    BY <1>1, GridOf
  <1>4. PICK h : h = [g EXCEPT !.key = key]
    OBVIOUS
  <1>5. h \in Grid /\ h.data = h.uploaded /\ h.config = g.config /\ h.key = key /\ (Made(g, ctx.gen) => Made(h, ctx.gen))
    BY <1>3, <1>4 DEF Grid, Made
  <1>6. PICK E : E = [gl EXCEPT !.grids[i] = h]
    OBVIOUS
  <1>7. E = [gl EXCEPT !.grids[i].key = key]
    <2>1. gl.grids \in Seq(Grid)
      BY <1>1, RendererIs
    <2>2. QED
      BY <1>1, <1>3, <1>4, <1>6, <2>1 DEF Renderer, Grid
  <1>8. Tables(E) /\ Booked(E, 0) /\ OnlyAt(gl, E, i, h)
    BY <1>1, <1>3, <1>5, <1>6, OneGives
  <1>9. PICK v : v = [surf EXCEPT !.frame = TRUE]
    OBVIOUS
  <1>10. UNCHANGED <<ctx, st, told, live>>
    BY DEF AdoptSelectors, Call
  <1>11. i \in DOMAIN E.grids
    BY <1>8 DEF OnlyAt
  <1>12. CASE MustDefer(ctx, st)
    <2>1. PICK f : f = Place(E, E.grids[i])
      OBVIOUS
    <2>2. PICK G : G = [E EXCEPT !.grids[i] = f]
      OBVIOUS
    <2>3. gl' = G /\ surf' = v
      BY <1>7, <1>9, <1>12, <2>1, <2>2 DEF AdoptSelectors, Fine, Request
    <2>4. E.grids[i] = h /\ \E c \in E.configs : c.id = h.config
      BY <1>8, <1>11 DEF OnlyAt, Tables
    <2>5. Fixed(h, f)
      BY <1>5, <1>8, <2>1, <2>4, PlaceKeeps
    <2>6. f \in Grid /\ f.data = f.uploaded /\ f.config = E.grids[i].config
      BY <2>4, <2>5 DEF Fixed
    <2>7. Tables(G) /\ Booked(G, 0) /\ OnlyAt(E, G, i, f)
      BY <1>8, <1>11, <2>2, <2>6, OneGives
    <2>8. ~Ready /\ G.dpr = gl.dpr
      BY <1>8, <1>12, <2>7 DEF OnlyAt, Ready, MustDefer
    <2>9. Carries(gl, G)
      BY <2>7, <2>8 DEF Carries
    <2>10. QED
      BY <1>1, <1>9, <1>10, <2>3, <2>9, Requested, CallKeeps
  <1>13. CASE ~MustDefer(ctx, st)
    <2>1. PICK got : got = Select(E, i, key, here, fails)
      OBVIOUS
    <2>2. (~got.ok /\ got.gl = E) \/ (got.ok /\ Selected(E, got.gl, i, key, here))
      BY <1>8, <1>11, <2>1, SelectGives
    <2>3. CASE ~got.ok
      <3>1. UNCHANGED <<gl, surf>>
        BY <1>2, <1>7, <1>13, <2>1, <2>3 DEF AdoptSelectors
      <3>2. Carries(gl, gl) /\ Asks(surf, surf)
        BY <1>1 DEF Carries, Asks
      <3>3. QED
        BY <1>10, <3>1, <3>2, CallKeeps
    <2>4. CASE got.ok
      <3>1. PICK H : H = got.gl
        OBVIOUS
      <3>2. Tables(H) /\ Booked(H, 0) /\ H.pipe = E.pipe /\ H.dpr = E.dpr /\ Len(H.grids) = Len(E.grids)
        BY <2>2, <2>4, <3>1 DEF Selected
      <3>3. Others(E, H, i) /\ Kin(E.grids[i], H.grids[i]) /\ Descends(E, H, here) /\ Fitted(H, i, key)
        BY <2>2, <2>4, <3>1 DEF Selected
      <3>4. DOMAIN H.grids = DOMAIN gl.grids
        <4>1. H.grids \in Seq(Grid) /\ E.grids \in Seq(Grid)
          BY <1>8, <3>2, RendererIs DEF Tables
        <4>2. DOMAIN H.grids = 1..Len(H.grids) /\ DOMAIN E.grids = 1..Len(E.grids)
          BY <4>1
        <4>3. QED
          BY <1>8, <3>2, <4>2 DEF OnlyAt
      <3>5. PICK k \in Grid : k = H.grids[i] /\ k.data = k.uploaded /\ \E c \in H.configs : c.id = k.config
        BY <3>2, <3>4, GridOf DEF Tables
      <3>6. PICK f : f = Place(H, k)
        OBVIOUS
      <3>7. PICK G : G = [H EXCEPT !.grids[i] = f]
        OBVIOUS
      <3>8. gl' = G /\ surf' = v
        BY <1>2, <1>7, <1>9, <1>13, <2>1, <2>4, <3>1, <3>5, <3>6, <3>7 DEF AdoptSelectors, Request
      <3>9. Fixed(k, f) /\ (Made(k, ctx.gen) => Made(f, ctx.gen)) /\ (FontIs(H, k, ctx.gen) => Stands(H, f))
        BY <3>2, <3>5, <3>6, PlaceKeeps
      <3>10. Tables(G) /\ Booked(G, 0) /\ OnlyAt(H, G, i, f)
        <4>1. f \in Grid /\ f.data = f.uploaded /\ f.config = H.grids[i].config /\ i \in DOMAIN H.grids
          BY <3>4, <3>5, <3>9 DEF Fixed
        <4>2. QED
          BY <3>2, <3>7, <4>1, OneGives
      <3>11. G.dpr = gl.dpr /\ G.pipe = gl.pipe /\ G.configs = H.configs /\ DOMAIN G.grids = DOMAIN gl.grids /\ H.dpr = gl.dpr
        BY <1>8, <3>2, <3>4, <3>10 DEF OnlyAt
      <3>12. \A j \in DOMAIN gl.grids : j # i => G.grids[j] = gl.grids[j] /\ E.grids[j] = gl.grids[j]
        BY <1>8, <3>3, <3>4, <3>10 DEF OnlyAt, Others
      <3>13. G.grids[i] = f /\ k.key = key /\ (Made(h, ctx.gen) => Made(k, ctx.gen)) /\ f.config = k.config /\ f.key = k.key
        BY <1>5, <1>8, <3>3, <3>5, <3>9, <3>10 DEF OnlyAt, Kin, Made, Fixed
      <3>14. ASSUME Ready, Drawn(gl, ctx.gen) PROVE Drawn(G, ctx.gen) /\ (Placed(gl) => Placed(G))
        <4>1. here = ctx.gen
          BY <1>2, <3>14 DEF Ready, Here
        <4>2. \A c \in gl.configs : c.gen = ctx.gen /\ c.dpr = gl.dpr
          BY <1>1, <3>14, AllFresh
        <4>3. E.configs = gl.configs /\ E.dpr = gl.dpr
          BY <1>8 DEF OnlyAt
        <4>4. \A c \in H.configs : c.gen = ctx.gen /\ c.dpr = gl.dpr
          BY <3>3, <4>1, <4>2, <4>3 DEF Descends, SameFont
        <4>5. FontIs(H, k, ctx.gen)
          BY <3>3, <3>5, <3>11, <3>13, <4>4 DEF FontIs, Fitted
        <4>6. Made(f, ctx.gen) /\ FontIs(G, f, ctx.gen) /\ Stands(G, f)
          <5>1. Made(g, ctx.gen)
            BY <1>3, <3>14 DEF Drawn
          <5>2. Made(f, ctx.gen)
            BY <1>5, <3>9, <3>13, <5>1
          <5>3. FontIs(G, f, ctx.gen)
            BY <3>11, <3>13, <4>5 DEF FontIs
          <5>4. Stands(G, f)
            BY <3>9, <3>11, <4>5 DEF Stands
          <5>5. QED
            BY <5>2, <5>3, <5>4
        <4>7. ASSUME NEW j \in DOMAIN gl.grids, j # i PROVE Made(G.grids[j], ctx.gen) /\ FontIs(G, G.grids[j], ctx.gen)
          <5>1. Made(gl.grids[j], ctx.gen) /\ FontIs(gl, gl.grids[j], ctx.gen)
            BY <3>14, <4>7 DEF Drawn
          <5>2. E.grids[j] = gl.grids[j] /\ G.grids[j] = gl.grids[j] /\ j \in DOMAIN E.grids
            BY <1>8, <3>12, <4>7 DEF OnlyAt
          <5>3. FontIs(E, E.grids[j], ctx.gen)
            BY <4>3, <5>1, <5>2 DEF FontIs
          <5>4. FontIs(H, E.grids[j], ctx.gen)
            BY <1>8, <3>2, <3>3, <5>2, <5>3, DescendsKeep
          <5>5. QED
            BY <3>11, <5>1, <5>2, <5>4 DEF FontIs
        <4>8. Drawn(G, ctx.gen)
          BY <3>11, <3>13, <3>14, <4>6, <4>7 DEF Drawn
        <4>9. ASSUME Placed(gl) PROVE Placed(G)
          BY <3>11, <3>12, <3>13, <4>6, <4>9 DEF Placed, Stands
        <4>10. QED
          BY <4>8, <4>9
      <3>15. Carries(gl, G)
        BY <3>10, <3>11, <3>14 DEF Carries
      <3>16. QED
        BY <1>1, <1>9, <1>10, <3>8, <3>15, Requested, CallKeeps
    <2>5. QED
      BY <2>2, <2>3, <2>4
  <1>14. QED
    BY <1>12, <1>13

LEMMA LessStill ==
  ASSUME NEW G, NEW H, NEW K, Less(G, H), Less(H, K)
  PROVE  Less(G, K)
  <1>1. K.pipe = G.pipe /\ K.dpr = G.dpr
    BY DEF Less
  <1>2. ASSUME NEW j \in DOMAIN K.grids PROVE \E k \in DOMAIN G.grids : K.grids[j] = G.grids[k]
    <2>1. PICK i \in DOMAIN H.grids : K.grids[j] = H.grids[i]
      BY DEF Less
    <2>2. QED
      BY <2>1 DEF Less
  <1>3. ASSUME NEW e \in K.configs PROVE \E d \in G.configs : SameFont(d, e)
    <2>1. PICK c \in H.configs : SameFont(c, e)
      BY DEF Less
    <2>2. PICK d \in G.configs : SameFont(d, c)
      BY DEF Less
    <2>3. QED
      BY <2>1, <2>2 DEF SameFont
  <1>4. QED
    BY <1>1, <1>2, <1>3 DEF Less

LEMMA LessAtFirst ==
  ASSUME NEW G
  PROVE  Less(G, G)
  BY DEF Less, SameFont

\* What is left of the tables while the leases end, one by one.
Left(G, H, k) == Tables(H) /\ Booked(H, 0) /\ Less(G, H) /\ Len(H.grids) = Len(G.grids) - k

LEMMA LeftStep ==
  ASSUME NEW G, Tables(G), NEW k \in 1..Len(G.grids), NEW H, Left(G, H, k - 1), NEW D, D = Removed(H, 1)
  PROVE  Left(G, D, k) /\ H.grids # <<>>
  <1>1. G.grids \in Seq(Grid) /\ H.grids \in Seq(Grid)
    BY RendererIs DEF Tables, Left
  <1>2. PICK n \in Nat : n = Len(G.grids)
    BY <1>1
  <1>3. 1 \in DOMAIN H.grids
    <2>1. Len(H.grids) = n - (k - 1) /\ k \in 1..n
      BY <1>2 DEF Left
    <2>2. Len(H.grids) >= 1
      BY <2>1
    <2>3. QED
      BY <1>1, <2>2
  <1>4. Tables(D) /\ Booked(D, 0) /\ Len(D.grids) = Len(H.grids) - 1 /\ Less(H, D)
    BY <1>3, RemovedGives DEF Left
  <1>5. Less(G, D)
    BY <1>4, LessStill DEF Left
  <1>6. Len(D.grids) = Len(G.grids) - k
    BY <1>2, <1>4 DEF Left
  <1>7. QED
    BY <1>1, <1>3, <1>4, <1>5, <1>6 DEF Left

\* The loop that ends every lease.
Ended(G) == LET f[i \in 0..Len(G.grids)] == IF i = 0 THEN G ELSE Removed(f[i - 1], 1) IN f[Len(G.grids)]

LEMMA EndedGives ==
  ASSUME NEW G, Tables(G), Booked(G, 0), NEW R, R = Ended(G)
  PROVE  Tables(R) /\ Booked(R, 0) /\ Less(G, R)
  <1>1. PICK n \in Nat : n = Len(G.grids)
    BY RendererIs DEF Tables
  <1>2. PICK S : S = {H \in Renderer : Tables(H) /\ Booked(H, 0) /\ Less(G, H)}
    OBVIOUS
  <1>3. G \in S
    BY <1>2, LessAtFirst DEF Tables
  <1>4. PICK g : g = [x \in (1..n) \X S |-> IF x[2].grids # <<>> THEN Removed(x[2], 1) ELSE x[2]]
    OBVIOUS
  <1>5. g \in [(1..n) \X S -> S]
    <2>1. ASSUME NEW x \in (1..n) \X S
          PROVE  (IF x[2].grids # <<>> THEN Removed(x[2], 1) ELSE x[2]) \in S
      <3>1. PICK H \in S : H = x[2]
        BY <2>1
      <3>2. CASE H.grids = <<>>
        BY <3>1, <3>2
      <3>3. CASE H.grids # <<>>
        <4>1. Tables(H) /\ Booked(H, 0) /\ Less(G, H)
          BY <1>2
        <4>2. H.grids \in Seq(Grid)
          BY <4>1, RendererIs DEF Tables
        <4>3. 1 \in DOMAIN H.grids
          BY <3>3, <4>2
        <4>4. PICK D : D = Removed(H, 1)
          OBVIOUS
        <4>5. Tables(D) /\ Booked(D, 0) /\ Less(H, D)
          BY <4>1, <4>3, <4>4, RemovedGives
        <4>6. Less(G, D)
          BY <4>1, <4>5, LessStill
        <4>7. D \in S
          BY <1>2, <4>5, <4>6 DEF Tables
        <4>8. QED
          BY <3>1, <3>3, <4>4, <4>7
      <3>4. QED
        BY <3>2, <3>3
    <2>2. QED
      BY <1>4, <2>1
  <1>6. PICK h \in [0..n -> S] : Climbs(h, g, G, n)
    BY <1>3, <1>5, CountExists
  <1>7. h = [k \in 0..n |-> IF k = 0 THEN G ELSE g[<<k, h[k - 1]>>]]
    BY <1>6 DEF Climbs
  <1> DEFINE step(f) == [i \in 0..Len(G.grids) |-> IF i = 0 THEN G ELSE Removed(f[i - 1], 1)]
  <1> DEFINE P == {k \in 0..n : Left(G, h[k], k)}
  <1>8. h[0] = G
    BY <1>7
  <1>9. Left(G, G, 0)
    BY <1>1, LessAtFirst DEF Left
  <1>10. 0 \in P
    BY <1>8, <1>9
  <1>11. ASSUME NEW k \in 1..n, Left(G, h[k - 1], k - 1) PROVE h[k] = Removed(h[k - 1], 1) /\ Left(G, h[k], k)
    <2>1. k - 1 \in 0..n /\ k \in 0..n /\ k # 0
      OBVIOUS
    <2>2. PICK H \in S : H = h[k - 1]
      BY <1>6, <2>1
    <2>3. PICK D : D = Removed(H, 1)
      OBVIOUS
    <2>4. Left(G, D, k) /\ H.grids # <<>>
      BY <1>1, <1>11, <2>2, <2>3, LeftStep
    <2>5. h[k] = g[<<k, H>>]
      BY <1>7, <2>1, <2>2
    <2>6. <<k, H>> \in (1..n) \X S
      BY <2>2
    <2>7. h[k] = D
      BY <1>4, <2>3, <2>4, <2>5, <2>6
    <2>8. QED
      BY <2>2, <2>3, <2>4, <2>7
  <1>12. \A k \in 0..n : k \in P
    <2>1. \A k \in 1..n : k - 1 \in P => k \in P
      BY <1>11
    <2>2. QED
      BY <1>10, <2>1, StaysCounting
  <1>13. h = step(h)
    <2>1. ASSUME NEW k \in 0..n, k # 0 PROVE g[<<k, h[k - 1]>>] = Removed(h[k - 1], 1)
      <3>1. k \in 1..n /\ k - 1 \in 0..n
        BY <2>1
      <3>2. Left(G, h[k - 1], k - 1)
        BY <1>12, <3>1
      <3>3. h[k] = Removed(h[k - 1], 1)
        BY <1>11, <3>1, <3>2
      <3>4. QED
        BY <1>7, <2>1, <3>3
    <2>2. QED
      BY <1>1, <1>7, <2>1
  <1>14. PICK u : u = CHOOSE f : f = step(f)
    OBVIOUS
  <1>15. u = step(u)
    BY <1>13, <1>14
  <1>16. R = u[n]
    BY <1>1, <1>14 DEF Ended
  <1> HIDE DEF step, P
  <1>17. u[0] = G
    BY <1>15 DEF step
  <1>18. ASSUME NEW k \in 1..n PROVE u[k] = Removed(u[k - 1], 1)
    <2>1. k \in 0..Len(G.grids) /\ k # 0
      BY <1>1
    <2>2. QED
      BY <1>15, <2>1 DEF step
  <1> DEFINE Q == {k \in 0..n : Left(G, u[k], k)}
  <1>19. 0 \in Q
    BY <1>9, <1>17
  <1>20. ASSUME NEW k \in 1..n, k - 1 \in Q PROVE k \in Q
    <2>1. k \in 1..Len(G.grids) /\ Left(G, u[k - 1], k - 1)
      BY <1>1, <1>20
    <2>2. Left(G, u[k], k)
      BY <1>18, <2>1, LeftStep
    <2>3. QED
      BY <2>2
  <1>21. \A k \in 0..n : k \in Q
    BY <1>19, <1>20, StaysCounting
  <1>22. Left(G, u[n], n)
    BY <1>21
  <1>23. QED
    BY <1>16, <1>22 DEF Left

LEMMA DisposeKeeps ==
  ASSUME SurfaceInv, DisposeSurface
  PROVE  SurfaceInv'
  <1>1. Typed(ctx, st, surf, live) /\ Phases(ctx, st, surf) /\ Notices(told, st) /\ Holds(ctx, st, surf, gl, live)
    BY DEF SurfaceInv, Sound
  <1>2. PICK G : G = Ended(gl)
    OBVIOUS
  <1>3. PICK v : v = [surf EXCEPT !.disposed = TRUE, !.frame = FALSE]
    OBVIOUS
  <1>4. gl' = G /\ surf' = v /\ UNCHANGED <<ctx, st, told, live>>
    BY <1>2, <1>3 DEF DisposeSurface, Call, Ended
  <1>5. Tables(G) /\ Booked(G, 0) /\ Less(gl, G)
    BY <1>1, <1>2, EndedGives DEF Holds
  <1>6. Carries(gl, G)
    BY <1>5, LessCarries
  <1>7. v \in Surfaces /\ v.disposed = TRUE
    BY <1>1, <1>3 DEF Typed, Surfaces
  <1>8. Typed(ctx, st, v, live) /\ Phases(ctx, st, v)
    BY <1>1, <1>7 DEF Typed, Phases
  <1>9. Holds(ctx, st, v, G, live)
    BY <1>1, <1>6, <1>7 DEF Holds, Carries, Draws, Ready
  <1>10. QED
    BY <1>1, <1>4, <1>8, <1>9 DEF SurfaceInv, Sound

LEMMA SurfaceRight ==
  ASSUME SurfaceInv
  PROVE  FrameIsOfThisContext /\ SurfaceIsCurrent
  <1>1. Tables(gl) /\ Booked(gl, 0) /\ (Ready => Drawn(gl, ctx.gen))
        /\ (Ready /\ ~surf.failed /\ ~surf.disposed => Placed(gl) /\ Watched(surf, gl, live))
    BY DEF SurfaceInv, Sound, Holds, Draws, Ready
  <1>2. SurfaceIsCurrent
    BY <1>1 DEF SurfaceIsCurrent, Placed, Stands, Watched
  <1>3. ASSUME Ready PROVE gl.pipe = ctx.gen
    BY <1>1, <1>3 DEF Drawn
  <1>4. ASSUME Ready, NEW i \in DOMAIN gl.grids, NEW c, c = Config(gl, gl.grids[i].config)
        PROVE  /\ gl.grids[i].gen = ctx.gen /\ (gl.grids[i].shown => gl.grids[i].data = gl.grids[i].inst)
               /\ c.gen = ctx.gen /\ c.key = gl.grids[i].key /\ c.dpr = gl.dpr
    <2>1. c \in gl.configs /\ c.id = gl.grids[i].config
      BY <1>1, <1>4, ConfigOfGrid
    <2>2. Made(gl.grids[i], ctx.gen) /\ FontIs(gl, gl.grids[i], ctx.gen)
      BY <1>1, <1>4 DEF Drawn
    <2>3. gl.grids[i].data = gl.grids[i].uploaded
      BY <1>1 DEF Tables
    <2>4. QED
      BY <2>1, <2>2, <2>3 DEF Made, FontIs
  <1>5. ASSUME NEW c \in gl.configs
        PROVE  c.refs = Cardinality({i \in DOMAIN gl.grids : gl.grids[i].config = c.id})
    <2>1. c.refs \in Nat /\ c.id # 0
      BY <1>1, RendererIs DEF Tables, FontConfig
    <2>2. Users(gl.grids, c.id) = {i \in DOMAIN gl.grids : gl.grids[i].config = c.id}
      BY DEF Users
    <2>3. gl.grids \in Seq(Grid)
      BY <1>1, RendererIs DEF Tables
    <2>4. PICK n \in Nat : n = Cardinality(Users(gl.grids, c.id))
      BY <2>3, UsersCount
    <2>5. c.refs = n + 0
      BY <1>1, <2>1, <2>4 DEF Booked, Owned
    <2>6. QED
      BY <2>2, <2>4, <2>5
  <1>6. FrameIsOfThisContext
    BY <1>3, <1>4, <1>5 DEF FrameIsOfThisContext
  <1>7. QED
    BY <1>2, <1>6

\* What the consumer is told at a step.
ToldInTime ==
  told' # told => /\ ~ctx.alive /\ ~surf.disposed /\ told' = Append(told, st.epoch)
                  /\ \A i \in DOMAIN told : told[i] # st.epoch

LEMMA SurfaceKeeps ==
  ASSUME SurfaceInv, SurfaceNext
  PROVE  SurfaceInv' /\ ToldInTime
  <1>1. CASE Lose
    <2>1. told' = told
      BY <1>1 DEF Lose
    <2>2. QED
      BY <1>1, <2>1, LoseKeeps DEF ToldInTime
  <1>2. CASE DispatchLost
    <2>1. told' = told
      BY <1>2 DEF DispatchLost
    <2>2. QED
      BY <1>2, <2>1, DispatchKeeps DEF ToldInTime
  <1>3. CASE DisposeSurface
    <2>1. told' = told
      BY <1>3 DEF DisposeSurface, Call
    <2>2. QED
      BY <1>3, <2>1, DisposeKeeps DEF ToldInTime
  <1>4. CASE \E e \in timers : Deadline(e)
    BY <1>4, DeadlineKeeps DEF ToldInTime
  <1>5. CASE \E d \in Densities : DensityMoves(d)
    <2>1. PICK d \in Densities : DensityMoves(d)
      BY <1>5
    <2>2. told' = told
      BY <2>1 DEF DensityMoves
    <2>3. QED
      BY <2>1, <2>2, DensityMovesKeeps DEF ToldInTime
  <1>6. CASE \E fails \in Failures : Restored(fails) \/ DensityEvent(fails) \/ Frame(fails)
    <2>1. PICK fails \in Failures : Restored(fails) \/ DensityEvent(fails) \/ Frame(fails)
      BY <1>6
    <2>2. told' = told
      BY <2>1 DEF Restored, DensityEvent, Frame
    <2>3. SurfaceInv'
      BY <2>1, RestoredKeeps, DensityKeeps, FrameKeeps
    <2>4. QED
      BY <2>2, <2>3 DEF ToldInTime
  <1>7. CASE \E key \in Keys, fails \in BOOLEAN : AddGrid(key, fails)
    <2>1. PICK key \in Keys, fails \in BOOLEAN : AddGrid(key, fails)
      BY <1>7
    <2>2. told' = told
      BY <2>1 DEF AddGrid, Call
    <2>3. SurfaceInv'
      BY <2>1, AddGridKeeps
    <2>4. QED
      BY <2>2, <2>3 DEF ToldInTime
  <1>8. CASE \E i \in DOMAIN gl.grids : ReleaseLease(i) \/ Resize(i) \/ SetHidden(i) \/ ApplyDamage(i)
    <2>1. PICK i \in DOMAIN gl.grids : ReleaseLease(i) \/ Resize(i) \/ SetHidden(i) \/ ApplyDamage(i)
      BY <1>8
    <2>2. told' = told
      BY <2>1 DEF ReleaseLease, Resize, SetHidden, ApplyDamage, Call
    <2>3. SurfaceInv'
      BY <2>1, ReleaseLeaseKeeps, ResizeKeeps, SetHiddenKeeps, ApplyDamageKeeps
    <2>4. QED
      BY <2>2, <2>3 DEF ToldInTime
  <1>9. CASE \E i \in DOMAIN gl.grids : \E key \in Keys, fails \in BOOLEAN : AdoptSelectors(i, key, fails)
    <2>1. PICK i \in DOMAIN gl.grids, key \in Keys, fails \in BOOLEAN : AdoptSelectors(i, key, fails)
      BY <1>9
    <2>2. told' = told
      BY <2>1 DEF AdoptSelectors, Call
    <2>3. SurfaceInv'
      BY <2>1, AdoptKeeps
    <2>4. QED
      BY <2>2, <2>3 DEF ToldInTime
  <1>10. QED
    BY <1>1, <1>2, <1>3, <1>4, <1>5, <1>6, <1>7, <1>8, <1>9 DEF SurfaceNext

\* The shared canvas, for every set of fonts and densities, every number of terminals and of
\* losses: whenever a frame would be drawn, all it would draw with is of the context that is
\* there, of the fonts asked for and of the page's density, and each configuration is held
\* once per terminal; an overdue restore is told once, by its own deadline.
THEOREM LossesSurvived == SurfaceSpec => LossesAreSurvived
  <1>1. SurfaceInit => SurfaceInv
    BY SurfaceBegins
  <1>2. SurfaceInv /\ [SurfaceNext]_surfaceVars => SurfaceInv'
    <2>1. CASE SurfaceInv /\ SurfaceNext
      BY <2>1, SurfaceKeeps
    <2>2. CASE SurfaceInv /\ UNCHANGED surfaceVars
      BY <2>2 DEF SurfaceInv, surfaceVars
    <2>3. QED
      BY <2>1, <2>2
  <1>3. SurfaceInv /\ [SurfaceNext]_surfaceVars => [ToldInTime]_surfaceVars
    BY SurfaceKeeps
  <1>4. SurfaceInv => FrameIsOfThisContext /\ SurfaceIsCurrent
    BY SurfaceRight
  <1>5. QED
    BY <1>1, <1>2, <1>3, <1>4, PTL DEF SurfaceSpec, LossesAreSurvived, NotifiedOncePerLoss, ToldInTime
=============================================================================
