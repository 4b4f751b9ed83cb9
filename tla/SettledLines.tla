---------------------------- MODULE SettledLines ----------------------------
(***************************************************************************)
(* Settled-cell paint (term/paint.rs): a consumer asks which logical lines  *)
(* changed, matches them by a rule of its own in another process, and hands *)
(* back colours for the lines it was told of.  Meanwhile the terminal goes  *)
(* on writing, scrolling, evicting, erasing, resizing and switching         *)
(* screens; the engine keeps one number per screen, the lowest line that    *)
(* changed, and checks a paint by the text it names.                        *)
(*                                                                         *)
(* A row is the characters written in it, none beyond; the rule matches     *)
(* every line and paints all of it; painted is the colour a cell has.       *)
(* Narrow characters only.  A resize comes with the cursor on a blank line  *)
(* at the end of the text and no program on the alternate screen.           *)
(***************************************************************************)
EXTENDS Integers, Sequences

CONSTANTS Letters,  \* what is written
          Widths,   \* the columns
          Rows,     \* the rows of the screen
          Limit,    \* scrollback_limit
          MaxOps    \* bound on what is written, erased, scrolled and switched

VARIABLES t,      \* the terminal
          watch,  \* ChangeWatch of the screens: alt |-> [changed, answered]
          told,   \* the answers the consumer has not painted yet
          ops
settledVars == <<t, watch, told, ops>>

None == -1
Least(a, b) == IF a < b THEN a ELSE b
Most(a, b) == IF a > b THEN a ELSE b
SmallestOf(S) == CHOOSE x \in S : \A y \in S : x <= y
GreatestOf(S) == CHOOSE x \in S : \A y \in S : x >= y

Blank == [text |-> <<>>, wrapped |-> FALSE]
BlankScreen == [r \in 1..Rows |-> Blank]
Base(s) == Len(s.history)
\* row_in: the absolute lines of a screen's buffer, from 0; history is the primary's.
ScreenOf(s, alt) == IF alt = s.onAlt THEN s.screen ELSE s.inactive
Buffer(s, alt) == s.history \o ScreenOf(s, alt)
FloorOf(s, alt) == IF alt THEN Base(s) ELSE 0

(* Logical lines of a sequence of rows, from a floor. *)
StartOf(rows, floor, line) == SmallestOf({l \in floor..line : \A k \in l..(line - 1) : rows[k + 1].wrapped})
EndOf(rows, line) == SmallestOf({l \in line..(Len(rows) - 1) : ~rows[l + 1].wrapped \/ l + 1 = Len(rows)})
CellsIn(rows, line) ==
  LET upTo[l \in (line - 1)..EndOf(rows, line)] == IF l < line THEN <<>> ELSE upTo[l - 1] \o rows[l + 1].text
  IN  upTo[EndOf(rows, line)]
TextIn(rows, line) == [i \in DOMAIN CellsIn(rows, line) |-> CellsIn(rows, line)[i].ch]

(* The watches: content_changed_at, of the active screen. *)
LowerOf(old, line) == IF old = None THEN line ELSE Least(old, line)
Marked(w, s, line) == [w EXCEPT ![s.onAlt].changed = LowerOf(@, line)]
FullyDamaged(w, s) == Marked(w, s, Base(s))
EvictOldest(w, n) ==
  LET shift(l) == IF l = None THEN None ELSE Most(l - n, 0)
  IN  [alt \in BOOLEAN |-> [changed |-> shift(w[alt].changed), answered |-> shift(w[alt].answered)]]

----------------------------------------------------------------------------
(* The terminal: a pair of the state and the watches. *)
Pair(s, w) == [s |-> s, w |-> w]
DamageSpan(p, row) == Pair(p.s, Marked(p.w, p.s, Base(p.s) + row))
SetRow(p, row, content) == DamageSpan(Pair([p.s EXCEPT !.screen[row + 1] = content], p.w), row)
BeginWrap(p, row) == SetRow(p, row, [p.s.screen[row + 1] EXCEPT !.wrapped = TRUE])
EndWrap(p, row) == SetRow(p, row, [p.s.screen[row + 1] EXCEPT !.wrapped = FALSE])

LinesLeftTheFront(p, n) ==
  Pair([p.s EXCEPT !.history = SubSeq(@, n + 1, Len(@)), !.evicted = @ + n], EvictOldest(p.w, n))
ShiftedRows(screen, top, bottom, down) ==
  [r \in 1..Rows |-> IF r - 1 \notin top..bottom THEN screen[r]
                     ELSE IF r - 1 = (IF down THEN top ELSE bottom) THEN Blank
                     ELSE screen[IF down THEN r - 1 ELSE r + 1]]
ShiftRegion(p, top, bottom, down, evicts, servesWrap) ==
  LET s == [p.s EXCEPT !.screen = ShiftedRows(@, top, bottom, down)]
      w == IF evicts THEN p.w ELSE Marked(p.w, s, Base(s) + top)
      \* the row above the region no longer wraps into it: a row of the screen, or of history
      above == IF top > 0 THEN EndWrap(Pair(s, w), top - 1)
               ELSE IF evicts \/ s.onAlt \/ s.history = <<>> THEN Pair(s, w)
               ELSE Pair([s EXCEPT !.history[Base(s)].wrapped = FALSE], Marked(w, s, Base(s) - 1))
      orphan == IF down THEN bottom ELSE IF bottom + 1 < Rows THEN bottom - 1 ELSE -1
  IN  IF servesWrap \/ orphan < 0 THEN above ELSE EndWrap(above, orphan)
PushHistory(p, row) ==
  LET pushed == Pair([p.s EXCEPT !.history = Append(@, row)], p.w)
      left == LinesLeftTheFront(pushed, 1)
  IN  IF Len(pushed.s.history) <= Limit THEN pushed
      ELSE IF pushed.s.history[1].wrapped THEN Pair(left.s, Marked(left.w, left.s, 0)) ELSE left
LinefeedInner(p, servesWrap) ==
  LET s == p.s
  IN  IF s.row # s.bottom THEN Pair([s EXCEPT !.row = Least(@ + 1, Rows - 1)], p.w)
      ELSE IF s.top = 0 /\ ~s.onAlt
      THEN PushHistory(IF s.bottom = Rows - 1
                       THEN Pair([s EXCEPT !.screen = ShiftedRows(@, 0, Rows - 1, FALSE)], p.w)
                       ELSE ShiftRegion(p, 0, s.bottom, FALSE, TRUE, servesWrap), s.screen[1])
      ELSE ShiftRegion(p, s.top, s.bottom, FALSE, FALSE, servesWrap)
AtColumn(p, col) == Pair([p.s EXCEPT !.col = col], p.w)
\* write_glyph: a full row is wrapped first, where the cursor can go down.
WriteGlyph(p, ch) ==
  LET s == p.s
      wraps == IF s.row = s.bottom \/ s.row + 1 < Rows THEN BeginWrap(p, s.row) ELSE p
      q == IF s.col < s.cols THEN p ELSE AtColumn(LinefeedInner(wraps, TRUE), 0)
      row == q.s.screen[q.s.row + 1]
      cell == [ch |-> ch, painted |-> FALSE]
  IN  AtColumn(SetRow(q, q.s.row, [row EXCEPT !.text = IF q.s.col < Len(@) THEN [@ EXCEPT ![q.s.col + 1] = cell]
                                                       ELSE Append(@, cell)]), q.s.col + 1)
EraseRow(p, row) == EndWrap(SetRow(p, row, [p.s.screen[row + 1] EXCEPT !.text = <<>>]), row)
EraseHistory(p) ==
  IF p.s.history = <<>> THEN p
  ELSE LET q == LinesLeftTheFront(p, Len(p.s.history)) IN Pair(q.s, FullyDamaged(q.w, q.s))

----------------------------------------------------------------------------
(* reflow: the lines re-split, and where the first column of a row goes. *)
Resplit(text, cols) ==
  LET n == (Len(text) + cols - 1) \div cols
  IN  IF text = <<>> THEN <<Blank>>
      ELSE [k \in 1..n |-> [text |-> SubSeq(text, (k - 1) * cols + 1, Least(k * cols, Len(text))), wrapped |-> k < n]]
Reflowed(rows, cols) ==  \* the new rows, and at[r]: the new line of old row r (both from 0)
  LET n == Len(rows)
      build[r \in 0..n] ==
        IF r = 0 THEN [out |-> <<>>, at |-> <<>>, off |-> 0, text |-> <<>>]
        ELSE LET b == build[r - 1]
                 text == b.text \o rows[r].text
                 ends == ~rows[r].wrapped \/ r = n
             IN  [out |-> IF ends THEN b.out \o Resplit(text, cols) ELSE b.out,
                  at |-> Append(b.at, Len(b.out) + b.off \div cols),
                  off |-> IF ends THEN 0 ELSE b.off + Len(rows[r].text),
                  text |-> IF ends THEN <<>> ELSE text]
  IN  build[n]
\* Mutant of ReflowedWatch: what was answered and is not painted yet is not owed again.
ReflowedChange(w, at, evicted) ==
  [changed |-> IF w.changed = None THEN None ELSE Most(at[Least(w.changed, Len(at) - 1) + 1] - evicted, 0),
   answered |-> None]
ReflowedWatch(w, at, evicted) ==
  LET moved(l) == IF l = None THEN None ELSE Most(at[Least(l, Len(at) - 1) + 1] - evicted, 0)
      changed == moved(w.changed)
      answered == moved(w.answered)
  IN  [changed |-> IF answered = None THEN changed ELSE LowerOf(changed, answered), answered |-> None]
\* A resize to the width it has moves no row, and what was answered is owed again.
SameSize(p) ==
  LET at == [i \in 1..Len(Buffer(p.s, FALSE)) |-> i - 1]
  IN  Pair(p.s, FullyDamaged([p.w EXCEPT ![FALSE] = ReflowedWatch(@, at, 0)], p.s))
Resized(p, cols) ==
  LET s == p.s
      cursor == Base(s) + s.row
      flow == Reflowed(SubSeq(Buffer(s, FALSE), 1, cursor + 1), cols)
      split == Most(Len(flow.out) - Rows, 0)
      evicted == Most(split - Limit, 0)
      screen == SubSeq(flow.out, split + 1, Len(flow.out))
      q == [s EXCEPT !.cols = cols, !.history = SubSeq(flow.out, evicted + 1, split),
                     !.screen = screen \o [i \in 1..(Rows - Len(screen)) |-> Blank],
                     !.row = Len(screen) - 1, !.col = 0, !.top = 0, !.bottom = Rows - 1]
      \* the vacant rows below the cursor map beyond the text
      at == flow.at \o [i \in 1..(Len(Buffer(s, FALSE)) - cursor - 1) |-> Len(flow.out) + i - 1]
      w == [p.w EXCEPT ![FALSE] = ReflowedWatch(@, at, evicted)]
  IN  IF cols = s.cols THEN SameSize(p) ELSE Pair(q, FullyDamaged(w, q))

----------------------------------------------------------------------------
(* The queries. *)
StartsFrom(rows, floor, line) == {l \in line..(Len(rows) - 1) : l = floor \/ ~rows[l].wrapped}
\* changed_logical_lines
Answer ==
  LET alt == t.onAlt
      rows == Buffer(t, alt)
      from == Most(FloorOf(t, alt), Least(watch[alt].changed, Len(rows)))
      start == IF from = Len(rows) THEN from ELSE StartOf(rows, FloorOf(t, alt), from)
  IN  /\ watch[alt].changed # None
      /\ told' = told \cup {a \in {[line |-> l, evicted |-> t.evicted, alt |-> alt, text |-> TextIn(rows, l)] :
                                     l \in StartsFrom(rows, FloorOf(t, alt), start)} : a.text # <<>>}
      /\ watch' = [watch EXCEPT ![alt] = [changed |-> None, answered |-> LowerOf(@.answered, start)]]
      /\ UNCHANGED <<t, ops>>
\* paint_logical_line: the line a paint is accepted on, if it is.
\* Mutant of AcceptedOn: the line is found by its number alone.
AcceptedByNumber(s, a) ==
  LET line == a.line - (s.evicted - a.evicted)
  IN  IF /\ s.evicted >= a.evicted /\ (a.alt => s.onAlt)
         /\ line >= FloorOf(s, a.alt) /\ line < Len(Buffer(s, a.alt))
      THEN {line} ELSE {}
AcceptedOn(s, a) ==
  LET line == a.line - (s.evicted - a.evicted)
      rows == Buffer(s, a.alt)
      floor == FloorOf(s, a.alt)
  IN  IF /\ s.evicted >= a.evicted /\ (a.alt => s.onAlt) /\ line >= floor /\ line < Len(rows)
         /\ line = floor \/ ~rows[line].wrapped
         /\ TextIn(rows, line) = a.text
      THEN {line} ELSE {}
PaintedRows(rows, first, last) ==
  [r \in DOMAIN rows |-> IF r - 1 \in first..last
                         THEN [rows[r] EXCEPT !.text = [i \in DOMAIN @ |-> [@[i] EXCEPT !.painted = TRUE]]] ELSE rows[r]]
Paint(a) ==
  /\ told' = told \ {a}
  /\ t' = IF AcceptedOn(t, a) = {} THEN t
          ELSE LET line == CHOOSE l \in AcceptedOn(t, a) : TRUE
                   all == PaintedRows(Buffer(t, a.alt), line, EndOf(Buffer(t, a.alt), line))
                   screen == SubSeq(all, Base(t) + 1, Len(all))
               IN  [t EXCEPT !.history = SubSeq(all, 1, Base(t)),
                             !.screen = IF a.alt = t.onAlt THEN screen ELSE @,
                             !.inactive = IF a.alt = t.onAlt THEN @ ELSE screen]
  /\ UNCHANGED <<watch, ops>>

----------------------------------------------------------------------------
Fresh(cols) == [history |-> <<>>, screen |-> BlankScreen, inactive |-> BlankScreen, onAlt |-> FALSE, cols |-> cols,
                row |-> 0, col |-> 0, top |-> 0, bottom |-> Rows - 1, evicted |-> 0]
FreshWatch == [alt \in BOOLEAN |-> [changed |-> None, answered |-> None]]
SettledInit == \E cols \in Widths : t = Fresh(cols) /\ watch = FreshWatch /\ told = {} /\ ops = 0

Becomes(p) == ops < MaxOps /\ ops' = ops + 1 /\ t' = p.s /\ watch' = p.w /\ UNCHANGED told
Now == Pair(t, watch)

Write == \E ch \in Letters : Becomes(WriteGlyph(Now, ch))
NextLine == Becomes(AtColumn(LinefeedInner(Now, FALSE), 0))
Goto == \E row \in 0..(Rows - 1) : Becomes(Pair([t EXCEPT !.row = row, !.col = 0], watch))
EraseLine == Becomes(AtColumn(EraseRow(Now, t.row), 0))
\* reverse_index, insert_lines and delete_lines shift the region under the cursor.
ReverseIndex == t.row = t.top /\ Becomes(ShiftRegion(Now, t.top, t.bottom, TRUE, FALSE, FALSE))
ShiftLines == \E down \in BOOLEAN : /\ t.row \in t.top..t.bottom
                                    /\ Becomes(ShiftRegion(Now, t.row, t.bottom, down, FALSE, FALSE))
SetScrollRegion == \E top \in 0..(Rows - 2) : \E bottom \in (top + 1)..(Rows - 1) :
                     Becomes(Pair([t EXCEPT !.top = top, !.bottom = bottom, !.row = 0, !.col = 0], watch))
EraseSaved == Becomes(EraseHistory(Now))
\* switch_to_alt, switch_to_primary
SwitchScreen ==
  LET s == [t EXCEPT !.onAlt = ~@, !.screen = IF t.onAlt THEN t.inactive ELSE BlankScreen, !.inactive = t.screen]
  IN  Becomes(Pair(s, FullyDamaged(watch, s)))
FullReset == Becomes(Pair(Fresh(t.cols), FullyDamaged(FreshWatch, Fresh(t.cols))))
Clear ==
  LET top == StartOf(t.screen, 0, t.row)
      s == [t EXCEPT !.screen = [r \in 1..Rows |-> IF r + top <= t.row + 1 THEN t.screen[r + top] ELSE Blank],
                     !.history = @ \o SubSeq(t.screen, 1, top), !.row = @ - top]
      p == EndWrap(EraseHistory(Pair(s, watch)), s.row)
  IN  ~t.onAlt /\ Becomes(Pair(p.s, FullyDamaged(p.w, p.s)))
Resize ==
  /\ ~t.onAlt /\ t.screen[t.row + 1] = Blank /\ \A r \in (t.row + 1)..Rows : t.screen[r] = Blank
  /\ t.row > 0 => ~t.screen[t.row].wrapped
  /\ t.row = 0 /\ t.history # <<>> => ~t.history[Len(t.history)].wrapped
  /\ \E cols \in Widths : Becomes(Resized(Now, cols))

SettledNext ==
  \/ Write \/ NextLine \/ Goto \/ EraseLine \/ ReverseIndex \/ ShiftLines \/ SetScrollRegion \/ EraseSaved
  \/ SwitchScreen \/ FullReset \/ Clear \/ Resize
  \/ Answer
  \/ \E a \in told : Paint(a)

----------------------------------------------------------------------------
\* changed_logical_lines and paint_logical_line (docs/map/territory/settled-cell-paint.md,
\* "the line must come back"): a line of the screen in use that the application wrote in its
\* own colours, however it got where it is, is to be reported, or an answer the consumer still
\* holds will be accepted on it.  No order of writes, scrolls, evictions, resizes, screen
\* switches, answers and late paints leaves one that nobody will paint.
EveryLineGetsItsPaint ==
  LET rows == Buffer(t, t.onAlt)
      floor == FloorOf(t, t.onAlt)
  IN  \A l \in StartsFrom(rows, floor, floor) :
        (\E i \in DOMAIN CellsIn(rows, l) : ~CellsIn(rows, l)[i].painted) =>
          \/ watch[t.onAlt].changed # None /\ watch[t.onAlt].changed <= EndOf(rows, l)
          \/ \E a \in told : a.alt = t.onAlt /\ AcceptedOn(t, a) = {l}
\* paint_logical_line: a paint that is accepted changes no text and no line the answer did not
\* read, and the report of a paint is not owed to anyone.
PaintedAsTold ==
  [][\A a \in told \ told' :
       /\ watch' = watch
       /\ \A alt \in BOOLEAN :
            LET was == Buffer(t, alt)
                is == Buffer(t', alt)
            IN  \A l \in StartsFrom(was, FloorOf(t, alt), FloorOf(t, alt)) :
                  /\ TextIn(is, l) = TextIn(was, l)
                  /\ CellsIn(is, l) # CellsIn(was, l) => TextIn(was, l) = a.text]_settledVars
=============================================================================
