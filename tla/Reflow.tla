------------------------------- MODULE Reflow -------------------------------
(***************************************************************************)
(* A resize of the primary screen (grid.rs reflow, term.rs resize and       *)
(* reflow_pane): history and screen are joined into logical lines and split *)
(* again at the new width, except the rows of a prompt the shell will draw  *)
(* again, or of the line the cursor is on, which are cut or padded where    *)
(* they stand; the cursor, the saved cursor and every mark move with their  *)
(* text.                                                                   *)
(*                                                                         *)
(* A glyph is known by the number it was written as (a ghost).  The history *)
(* is below its limit: Anchors has the eviction and the alternate screen,   *)
(* RowEdit the verbs; here rows come from writing, moving and resizing.     *)
(***************************************************************************)
EXTENDS Integers, Sequences, FiniteSets

CONSTANTS Widths, Heights,  \* the sizes a resize may ask for
          Redraws,          \* what the shell's last prompt said of redrawing
          MaxActs, MaxResizes  \* bounds on a session: its steps, and the resizes among them

VARIABLES t,             \* the terminal
          acts, resizes  \* steps, and resizes among them, so far
reflowVars == <<t, acts, resizes>>

Least(a, b) == IF a < b THEN a ELSE b
Over(a, b) == IF a > b THEN a - b ELSE 0
Last(s) == s[Len(s)]

----------------------------------------------------------------------------
(* Rows (grid.rs). *)
Blank == [k |-> "blank", lead |-> FALSE, id |-> 0]
BlankRow(cols) == [cells |-> [c \in 1..cols |-> Blank], wrapped |-> FALSE]
Vacant(row) == \A c \in DOMAIN row.cells : row.cells[c] = Blank
\* Row::resize
Fit(row, cols) ==
  [row EXCEPT !.cells = [c \in 1..cols |-> IF c <= Len(@) THEN @[c] ELSE Blank]]
Rows(s) == s.history \o s.screen
CursorLine(s) == Len(s.history) + s.row

----------------------------------------------------------------------------
(* reflow: lines are numbered from 0, rows from 1; keep holds the first and *)
(* the last row to keep, or nothing.                                        *)
KeptRun(rows, keep) ==
  LET run == {r \in 1..Len(rows) : \E k \in keep :
                \/ r \in k[1]..k[2]
                \/ r < k[1] /\ \A q \in r..(k[1] - 1) : rows[q].wrapped
                \/ r > k[2] /\ \A q \in k[2]..(r - 1) : rows[q].wrapped}
  IN  IF \E r \in run : ~Vacant(rows[r]) THEN run ELSE {}

\* A soft-wrapped row gives up its wrap artefact, a hard-ended one its trailing blanks.
Body(row) ==
  LET written == {c \in DOMAIN row.cells : row.cells[c] # Blank}
      end == IF written = {} THEN 0 ELSE CHOOSE c \in written : \A d \in written : d <= c
  IN  IF ~row.wrapped THEN SubSeq(row.cells, 1, end)
      ELSE IF Last(row.cells).lead THEN SubSeq(row.cells, 1, Len(row.cells) - 1) ELSE row.cells

RowStart(join) == <<Len(join.lines), Len(join.current)>>
\* The logical lines, and where each row starts in them; the kept rows are one line
\* without cells.
Joined(rows, run) ==
  LET join[r \in 0..Len(rows)] ==
        IF r = 0 THEN [lines |-> <<>>, current |-> <<>>, at |-> <<>>]
        ELSE LET j == [join[r - 1] EXCEPT !.at = Append(@, RowStart(join[r - 1]))]
             IN  IF r \in run
                 THEN IF r + 1 \in run THEN j ELSE [j EXCEPT !.lines = Append(@, [kept |-> TRUE, cells |-> <<>>])]
                 ELSE IF rows[r].wrapped THEN [j EXCEPT !.current = @ \o Body(rows[r])]
                 ELSE [j EXCEPT !.lines = Append(@, [kept |-> FALSE, cells |-> j.current \o Body(rows[r])]),
                                !.current = <<>>]
      all == join[Len(rows)]
  IN  IF all.current = <<>> THEN all ELSE [all EXCEPT !.lines = Append(@, [kept |-> FALSE, cells |-> all.current])]
\* Trailing blank lines are absorbed, down to the kept line.
Absorbed(lines) ==
  LET content == {i \in 1..Len(lines) : lines[i].kept \/ lines[i].cells # <<>>}
  IN  SubSeq(lines, 1, IF content = {} THEN 0 ELSE CHOOSE i \in content : \A j \in content : j <= i)

\* The rows of a line: none ends on the lead of a pair that continues.
Segments(cells, cols) ==
  LET n == Len(cells)
      from[off \in 0..n] ==
        IF off = n THEN <<>>
        ELSE LET full == Least(n - off, cols)
                 vacates == off + full < n /\ cells[off + full].k = "wide"
                 take == IF vacates /\ full > 1 THEN full - 1 ELSE full
             IN  <<[off |-> off, take |-> take, vacant |-> vacates /\ take < cols]>> \o from[off + take]
  IN  from[0]
\* Mutant of SegmentRow: the vacated column is an ordinary blank.
SegmentBlank(cells, seg, cols) ==
  Fit([cells |-> SubSeq(cells, seg.off + 1, seg.off + seg.take), wrapped |-> seg.off + seg.take < Len(cells)], cols)
SegmentRow(cells, seg, cols) ==
  LET row == Fit([cells |-> SubSeq(cells, seg.off + 1, seg.off + seg.take),
                  wrapped |-> seg.off + seg.take < Len(cells)], cols)
  IN  IF seg.vacant THEN [row EXCEPT !.cells[cols].lead = TRUE] ELSE row
\* A lead the cut stranded on a kept row that continues becomes the wrap artefact.
KeptRow(row, cols) ==
  LET fitted == Fit(row, cols)
  IN  IF row.wrapped /\ fitted.cells[cols].k = "wide"
      THEN [fitted EXCEPT !.cells[cols] = [Blank EXCEPT !.lead = TRUE]] ELSE fitted

\* The segments tile the line; an offset past it is in the last one.
SegmentOf(segs, off, cols) ==
  CHOOSE k \in 1..Len(segs) : segs[k].off <= off /\ (k = Len(segs) \/ segs[k + 1].off > off)

\* The rows that a line comes out as.
First(run) == IF run = {} THEN 0 ELSE CHOOSE r \in run : \A q \in run : r <= q
KeptRows(rows, run, cols) == [i \in 1..Cardinality(run) |-> KeptRow(rows[First(run) + i - 1], cols)]
RowsOf(line, segs, kept, cols) ==
  IF line.kept THEN kept
  ELSE IF segs = <<>> THEN <<BlankRow(cols)>>
  ELSE [k \in 1..Len(segs) |-> SegmentRow(line.cells, segs[k], cols)]
\* The lines laid out: the segments of each, the row it starts at, and all rows.
Laid(lines, kept, cols) ==
  LET segs == [i \in 1..Len(lines) |-> Segments(lines[i].cells, cols)]
      upTo[i \in 0..Len(lines)] == IF i = 0 THEN <<>> ELSE upTo[i - 1] \o RowsOf(lines[i], segs[i], kept, cols)
  IN  [lines |-> lines, segs |-> segs, start |-> [i \in 1..Len(lines) |-> Len(upTo[i - 1])], rows |-> upTo[Len(lines)]]

\* Where column c (from 0) of a row goes, which starts at a line and column and is the nth
\* row kept, if any: a point past the content of its line goes to the end of the content.
PlaceOf(laid, at, n, c, cols) ==
  LET i == at[1] + 1
      off == Least(at[2] + c, Len(laid.lines[i].cells))
      past == at[2] + c - off
      k == SegmentOf(laid.segs[i], off, cols)
  IN  IF at[1] >= Len(laid.lines)
      THEN [line |-> Len(laid.rows) + at[1] - Len(laid.lines), col |-> Least(at[2] + c, cols - 1), how |-> "line", past |-> 0]
      ELSE IF laid.lines[i].kept THEN [line |-> laid.start[i] + n, col |-> Least(c, cols), how |-> "kept", past |-> 0]
      ELSE IF laid.segs[i] = <<>> THEN [line |-> laid.start[i], col |-> 0, how |-> "line", past |-> past]
      ELSE [line |-> laid.start[i] + k - 1, col |-> off - laid.segs[i][k].off, how |-> "line", past |-> past]
Placed(rows, at, laid, first, cols) ==
  [rows |-> laid.rows,
   place |-> [r \in 1..Len(rows) |-> [c \in 0..Len(rows[r].cells) |-> PlaceOf(laid, at[r], r - first, c, cols)]]]
PlacedJoin(rows, join, run, cols) ==
  Placed(rows, join.at, Laid(Absorbed(join.lines), KeptRows(rows, run, cols), cols), First(run), cols)
\* The rows at the new width, and for every row of the old ones where its points go.
ReflowedBut(rows, cols, run) == PlacedJoin(rows, Joined(rows, run), run, cols)
Reflowed(rows, cols, keep) == ReflowedBut(rows, cols, KeptRun(rows, keep))

----------------------------------------------------------------------------
(* resize (term.rs). *)
\* live_prompt_start: the cursor is still in the line of the newest prompt or of its
\* command, and the prompt is on the screen.
LivePrompt(s) ==
  LET marks == SelectSeq(s.marks, LAMBDA m : m.line <= CursorLine(s))
      starts == SelectSeq(marks, LAMBDA m : m.kind # "command")
      wrapped(line) == Rows(s)[line + 1].wrapped
  IN  IF starts = <<>> THEN {}
      ELSE IF /\ Last(starts).kind = "prompt" /\ Last(starts).line >= Len(s.history)
              /\ \A line \in Last(marks).line..(CursorLine(s) - 1) : wrapped(line)
           THEN {Last(starts).line} ELSE {}
\* resize_keep_from
Keep(s) ==
  IF LivePrompt(s) # {} /\ s.redraw = "full" THEN {<<p + 1, CursorLine(s) + 1>> : p \in LivePrompt(s)}
  ELSE IF LivePrompt(s) # {} /\ s.redraw = "off" THEN {} ELSE {<<CursorLine(s) + 1, CursorLine(s) + 1>>}

\* reflow_pane: rows below the cursor are dropped while vacant, one for each row the
\* screen lost; the last rows are the screen.
Trimmed(rows, cursor, pinned, n) ==
  LET removable(k) == \A i \in 1..k :
        LET last == Len(rows) - i + 1
        IN  last > cursor + 1 /\ Vacant(rows[last]) /\ ~rows[last - 1].wrapped /\ last - 1 \notin pinned
      k == CHOOSE k \in 0..n : removable(k) /\ (k = n \/ ~removable(k + 1))
  IN  SubSeq(rows, 1, Len(rows) - k)
Padded(rows, n, cols) ==
  IF n <= Len(rows) THEN rows ELSE rows \o [i \in 1..(n - Len(rows)) |-> BlankRow(cols)]

Flow(s, cols) ==
  IF cols # s.cols THEN Reflowed(Rows(s), cols, Keep(s))
  ELSE [rows |-> Rows(s),
        place |-> [r \in 1..Len(Rows(s)) |-> [c \in 0..cols |-> [line |-> r - 1, col |-> c, how |-> "kept", past |-> 0]]]]
\* The points: a cursor on a kept row keeps its column.
Moved(s, flow, cols) ==
  LET to(line, col) == flow.place[line + 1][col]
      mark(m) == [m EXCEPT !.line = to(m.line, m.col).line, !.col = to(m.line, m.col).col]
  IN  [cursor |-> IF cols # s.cols /\ Keep(s) # {}
                  THEN [to(CursorLine(s), s.col) EXCEPT !.col = Least(s.col, cols - 1)]
                  ELSE to(CursorLine(s), s.col),
       saved |-> to(Len(s.history) + s.saved.row, s.saved.col),
       marks |-> [i \in DOMAIN s.marks |-> mark(s.marks[i])]]
\* A cursor past a row that came out full needs the row below it.
Bottom(p, cols) == IF p.cursor.col = cols THEN p.cursor.line + 1 ELSE p.cursor.line
Remaining(s, rows, p, cols, height) ==
  Trimmed(Padded(rows, Bottom(p, cols) + 1, cols), Bottom(p, cols),
          {p.marks[i].line : i \in DOMAIN p.marks}, Over(s.height, height))
Split(s, p, kept, cols, height) ==
  LET split == Over(Len(kept), height)
      pastFull == p.cursor.col = cols
      row == Least(Over(p.cursor.line, split) + IF pastFull THEN 1 ELSE 0, height - 1)
      col == IF pastFull THEN 0 ELSE p.cursor.col
      unparked == s.park /\ col # cols - 1
      \* saved_cursor_col
      savedWrap == p.saved.how = "line" /\ p.saved.col >= cols
      savedCol == IF p.saved.how = "line" /\ ~savedWrap THEN p.saved.col + p.saved.past ELSE p.saved.col
  IN  [s EXCEPT
         !.cols = cols, !.height = height,
         !.history = SubSeq(kept, 1, split),
         !.screen = Padded(SubSeq(kept, split + 1, Len(kept)), height, cols),
         !.row = row,
         !.col = IF unparked THEN col + 1 ELSE col,
         !.park = @ /\ ~unparked,
         !.saved = [row |-> Least(Over(Least(p.saved.line, split + height - 1), split), height - 1),
                    col |-> Least(savedCol, cols - 1),
                    wrap |-> @.wrap \/ savedWrap],
         !.marks = [i \in DOMAIN p.marks |-> [p.marks[i] EXCEPT !.line = Least(@, split + height - 1)]]]
SplitRows(s, rows, p, cols, height) == Split(s, p, Remaining(s, rows, p, cols, height), cols, height)
ResizedBy(s, flow, cols, height) == SplitRows(s, flow.rows, Moved(s, flow, cols), cols, height)
Resized(s, cols, height) == ResizedBy(s, Flow(s, cols), cols, height)

----------------------------------------------------------------------------
(* What fills the screen: linefeed_inner, wrapline and write_glyph.  A glyph is written *)
(* over blank columns only, where no pair is in the way.                                *)
Linefed(s) ==
  IF s.row < s.height - 1 THEN [s EXCEPT !.row = @ + 1]
  ELSE [s EXCEPT !.history = Append(@, Head(s.screen)), !.screen = Append(Tail(@), BlankRow(s.cols))]
Wrapped(s, lead) ==
  [Linefed([s EXCEPT !.screen[s.row + 1].wrapped = TRUE,
                     !.screen[s.row + 1].cells[s.cols].lead = lead]) EXCEPT !.col = 0, !.park = FALSE]
RoomFor(s, width) ==
  LET fit(u) == IF u.col + width > u.cols THEN Wrapped(u, TRUE) ELSE u
  IN  fit(IF s.park THEN Wrapped(s, FALSE) ELSE s)
Free(s, width) ==
  LET u == RoomFor(s, width)
  IN  /\ \A c \in (u.col + 1)..(u.col + width) : u.screen[u.row + 1].cells[c] = Blank
      /\ u # s /\ ~s.park => s.screen[s.row + 1].cells[s.cols] = Blank
PutGlyph(s, width) ==
  LET id == s.glyphs + 1
      end == s.col + width
      kinds == IF width = 1 THEN <<"glyph">> ELSE <<"wide", "spacer">>
  IN  [s EXCEPT !.screen[s.row + 1].cells = [c \in DOMAIN @ |-> IF c \in (s.col + 1)..end
                                              THEN [Blank EXCEPT !.k = kinds[c - s.col], !.id = id] ELSE @[c]],
                !.glyphs = id, !.col = Least(end, s.cols - 1), !.park = end >= s.cols]
Written(s, width) == PutGlyph(RoomFor(s, width), width)

ReflowInit ==
  /\ acts = 0 /\ resizes = 0
  /\ \E cols \in Widths, height \in Heights, redraw \in Redraws :
       t = [cols |-> cols, height |-> height, history |-> <<>>, screen |-> [r \in 1..height |-> BlankRow(cols)],
            row |-> 0, col |-> 0, park |-> FALSE, saved |-> [row |-> 0, col |-> 0, wrap |-> FALSE],
            marks |-> <<>>, redraw |-> redraw, glyphs |-> 0]

Does(s) == acts < MaxActs /\ acts' = acts + 1 /\ t' = s /\ UNCHANGED resizes
Write == \E width \in {1, 2} : Free(t, width) /\ Does(Written(t, width))
NextLine == Does([Linefed(t) EXCEPT !.col = 0, !.park = FALSE])
Goto == \E c \in {1, t.cols - 1} : Does([t EXCEPT !.row = 0, !.col = c, !.park = FALSE])
SaveCursor == Does([t EXCEPT !.saved = [row |-> t.row, col |-> t.col, wrap |-> t.park]])
\* restore_cursor and settle_restored_wrap
RestoreCursor ==
  LET settles == t.saved.wrap /\ t.saved.col + 1 < t.cols
  IN  Does([t EXCEPT !.row = t.saved.row, !.col = IF settles THEN t.saved.col + 1 ELSE t.saved.col,
                     !.park = t.saved.wrap /\ ~settles])
\* add_command_mark
Mark == \E kind \in {"prompt", "command", "output"} :
          Does([t EXCEPT !.marks = Append(@, [kind |-> kind, line |-> CursorLine(t),
                                              col |-> IF t.park THEN t.col + 1 ELSE t.col])])
Resize == /\ resizes < MaxResizes /\ resizes' = resizes + 1 /\ acts < MaxActs /\ acts' = acts + 1
          /\ \E cols \in Widths, height \in Heights : t' = Resized(t, cols, height)

ReflowNext == Write \/ NextLine \/ Goto \/ SaveCursor \/ RestoreCursor \/ Mark \/ Resize

----------------------------------------------------------------------------
\* The logical line of a row: how many rows above it end one.
LineOf(rows, r) == Cardinality({q \in 1..(r - 1) : ~rows[q].wrapped})
Kept == IF t'.cols = t.cols THEN {} ELSE KeptRun(Rows(t), Keep(t))
Ids(rows, r) == {rows[r].cells[c].id : c \in DOMAIN rows[r].cells} \ {0}
Glyphs(rows, only) == UNION {Ids(rows, r) : r \in only}
\* The cells of a logical line, wrap artefacts and trailing blanks aside.
Text(rows, line) ==
  LET of == {r \in 1..Len(rows) : LineOf(rows, r) = line}
      upTo[r \in 0..Len(rows)] == IF r = 0 THEN <<>> ELSE IF r \in of THEN upTo[r - 1] \o Body(rows[r]) ELSE upTo[r - 1]
  IN  Body([cells |-> upTo[Len(rows)], wrapped |-> FALSE])
Whole(rows, r, c) ==
  /\ rows[r].cells[c].k = "wide" => c < Len(rows[r].cells) /\ rows[r].cells[c + 1].k = "spacer"
  /\ rows[r].cells[c].lead => c = Len(rows[r].cells) /\ rows[r].wrapped
Sound(rows, line) == \A r \in 1..Len(rows) : LineOf(rows, r) = line => \A c \in DOMAIN rows[r].cells : Whole(rows, r, c)

\* reflow (grid.rs): a resize loses no cell of a line it re-splits, splits no pair of it and
\* marks no column vacant that no pair left; of the rows it keeps it loses what the cut took.
TextSurvives ==
  [][Resize =>
       LET old == Rows(t)
           new == Rows(t')
           keptLines == {LineOf(old, r) : r \in Kept}
       IN  /\ \A line \in 0..Len(old) \ keptLines :
                Sound(old, line) => Text(new, line) = Text(old, line) /\ Sound(new, line)
           /\ \A r \in Kept : \A c \in DOMAIN old[r].cells :
                c < t'.cols => old[r].cells[c].id \in Glyphs(new, 1..Len(new)) \cup {0}]_reflowVars

\* Where a point is: its logical line, and the glyphs of that line before it.
Place(s, line, col) ==
  LET rows == Rows(s)
  IN  <<LineOf(rows, line + 1),
        UNION {{rows[r].cells[c].id : c \in {c \in DOMAIN rows[r].cells : r < line + 1 \/ c <= col}} \ {0} :
                 r \in {r \in 1..(line + 1) : LineOf(rows, r) = LineOf(rows, line + 1)}}>>
Surviving(place) == <<place[1], place[2] \ (Glyphs(Rows(t), 1..Len(Rows(t))) \ Glyphs(Rows(t'), 1..Len(Rows(t'))))>>
PastGlyph(line, col) == col = t.cols => Rows(t)[line + 1].cells[col].k # "blank"
HasText(line) == \E r \in (line + 1)..Len(Rows(t)) : ~Vacant(Rows(t)[r])
PushedOut(row) == row = 0 /\ t'.history # <<>>
Stop(s) == IF s.park THEN s.col + 1 ELSE s.col
CursorKept ==
  LET was == Surviving(Place(t, CursorLine(t), Stop(t)))
  IN  \/ was = Place(t', CursorLine(t'), Stop(t'))
      \/ Stop(t') = 0 /\ CursorLine(t') > 0 /\ was = Place(t', CursorLine(t') - 1, t'.cols)
CursorFollows == Keep(t) = {} /\ ~PushedOut(t'.row) /\ PastGlyph(CursorLine(t), Stop(t))
SavedStop(s) == IF s.saved.wrap THEN s.saved.col + 1 ELSE s.saved.col
SavedLine(s) == Len(s.history) + s.saved.row
\* reflow's points, PointPlace and saved_cursor_col (grid.rs, term.rs): the marks, the saved
\* cursor and a cursor whose line is not kept stay after the glyph they came after, in the same
\* line.  Blank rows below all text may go with what is on them, a cursor whose row went into
\* the history is left at the top of the screen, and CursorReadsTheNextRow has the last case.
PointsKeepTheirPlace ==
  [][Resize =>
       /\ \A i \in DOMAIN t.marks : HasText(t.marks[i].line) /\ PastGlyph(t.marks[i].line, t.marks[i].col) =>
            Place(t', t'.marks[i].line, t'.marks[i].col) = Surviving(Place(t, t.marks[i].line, t.marks[i].col))
       /\ CursorFollows /\ ~(t'.row = 1 /\ PushedOut(0) /\ Stop(t') = 0) => CursorKept
       /\ /\ SavedLine(t) + 1 \notin Kept /\ ~PushedOut(t'.saved.row)
          /\ HasText(SavedLine(t)) /\ PastGlyph(SavedLine(t), SavedStop(t))
          => Place(t', SavedLine(t'), SavedStop(t')) = Surviving(Place(t, SavedLine(t), SavedStop(t)))
    ]_reflowVars

\* reflow_pane (term.rs): a cursor just past a row that came out full stands at the start of
\* the row after it.
CursorReadsTheNextRow == [][Resize => (CursorFollows => CursorKept)]_reflowVars
=============================================================================
