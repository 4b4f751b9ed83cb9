------------------------------- MODULE Layers -------------------------------
(***************************************************************************)
(* What is painted over the text.  A page registers decorations on the      *)
(* engine's markers (DecorationRegistry, decorations.ts); each frame they    *)
(* are projected on the viewport and sent to the renderer, which lays them,  *)
(* the selection and the search's matches over the cells (decoration.rs,     *)
(* overlay.rs, frame.rs), and their marks and the search's are put on the    *)
(* scrollbar's ruler (scrollbar.ts).                                         *)
(*                                                                           *)
(* A colour is a tuple: whose it is, or what it was blended of.  Every step  *)
(* ends with the frame the page paints.  Minimum contrast is off.            *)
(***************************************************************************)
EXTENDS Integers, Sequences, FiniteSets, SequencesExt

CONSTANTS Rows, Cols,
          Text,     \* [row |-> [column |-> a cell]]: [bg, fg, flags, tile], bg and fg <<>> for the default
          Options,  \* the decorations the page may register
          Overlays, \* what else may lie over the text: see `over`
          Word,     \* what a number of the wire counts to
          Limit,    \* the scrollback's
          Marked,   \* the buffers at first: [back, at]: lines of scrollback, the markers' lines
          MaxPage, MaxMoves, MaxSteps   \* bounds on what the page does, on what the engine does, and on both

VARIABLES markers,  \* the engine's, on the primary screen: id -> absolute line
          buffer,   \* scrollbackLen, displayOffset, altScreen of a frame
          known,    \* the markers the page's index has a line for
          page,     \* DecorationRegistry: [inOrder, byMarker, disposed]
          over,     \* [active, selection, matches: spans <<row, left, right>>, composed: the cells of a
                    \*  composition, selectionFg: BOOLEAN, found: lines of the matches, current: its index or 0]
          bar,      \* the scrollbar's mark elements
          log,      \* (history) every decoration ever registered
          closed,   \* (history) the handles the page has disposed of
          spent     \* [page, moves]: steps so far
layerVars == <<markers, buffer, known, page, over, bar, log, closed, spent>>

None == <<>>
Lesser(a, b) == IF a < b THEN a ELSE b
Greater(a, b) == IF a > b THEN a ELSE b
Grid == (0..(Rows - 1)) \X (0..(Cols - 1))

-----------------------------------------------------------------------------
(* DecorationRegistry.                                                       *)
Ids == {o.markerId : o \in Options}
Fresh(o, h) == o @@ [handle |-> h, bg |-> IF o.tints THEN <<"bg", h>> ELSE None,
                     fg |-> IF o.inks THEN <<"fg", h>> ELSE None]
Unlist(r, d) ==
  IF d.handle \in r.disposed THEN r
  ELSE [inOrder |-> SelectSeq(r.inOrder, LAMBDA e : e.handle # d.handle),
        byMarker |-> [r.byMarker EXCEPT ![d.markerId] = @ \ {d}],
        disposed |-> r.disposed \cup {d.handle}]
OnMarkerDisposed(r, id) == FoldSet(LAMBDA d, s : Unlist(s, d), r, r.byMarker[id])

\* The frame: the markers it names, and what it is a view of.
Live == IF buffer.alt THEN {} ELSE DOMAIN markers
Top == buffer.back - buffer.offset
MarkerPositions == {id \in Live : markers[id] - Top \in 0..(Rows - 1)}

\* The first row of a decorated marker, from the index where it has the line, else from the frame.
Anchors ==
  LET ids == {id \in Ids : page.byMarker[id] # {}}
  IN  [id \in ids \cap (known \cup MarkerPositions) |-> markers[id] - Top]
Columns(d) ==
  IF d.anchor = "right" THEN <<Cols - d.x - d.width, Cols - 1 - d.x>> ELSE <<d.x, d.x + d.width - 1>>
Clipped(span) == <<Greater(0, span[1]), Lesser(Cols - 1, span[2])>>
RectsOf(d, row) ==
  LET span == Clipped(Columns(d))
      first == Greater(0, row)
      last == Lesser(row + d.height - 1, Rows - 1)
  IN  IF span[2] < span[1] \/ last < first THEN <<>>
      ELSE [i \in 1..(last - first + 1) |->
              [row |-> first + i - 1, left |-> span[1], right |-> span[2],
               layer |-> d.layer, bg |-> d.bg, fg |-> d.fg]]
DecorationsForFrame ==
  LET anchors == Anchors
      shown == SelectSeq(page.inOrder, LAMBDA d : d.markerId \in DOMAIN anchors)
  IN  FlattenSeq([i \in DOMAIN shown |-> RectsOf(shown[i], anchors[shown[i].markerId])])
\* decorationWire and parse_decorations: a row or a column becomes a u32.
Wired ==
  LET rects == DecorationsForFrame
  IN  [i \in DOMAIN rects |-> [rects[i] EXCEPT !.row = @ % Word, !.left = @ % Word, !.right = @ % Word]]

-----------------------------------------------------------------------------
(* The renderer's packer.                                                    *)
Cell(row, col) == Text[row][col]
Has(row, col, flag) == flag \in Cell(row, col).flags
PartnerAt(row, col) ==
  IF Has(row, col, "lead") /\ col + 1 < Cols /\ Has(row, col + 1, "spacer") THEN {col + 1}
  ELSE IF Has(row, col, "spacer") /\ col > 0 /\ Has(row, col - 1, "lead") THEN {col - 1} ELSE {}
PairOf(row, col) == {col} \cup PartnerAt(row, col)

OverrideAt(rects, row, col, layer) ==
  LET over_ == SelectSeq(rects, LAMBDA r : /\ r.layer = layer /\ r.row = row
                                           /\ \E c \in PairOf(row, col) : c \in r.left..r.right)
      LastOf(sets) == IF sets = <<>> THEN None ELSE Last(sets)
  IN  [bg |-> LastOf(SelectSeq([i \in DOMAIN over_ |-> over_[i].bg], LAMBDA c : c # None)),
       fg |-> LastOf(SelectSeq([i \in DOMAIN over_ |-> over_[i].fg], LAMBDA c : c # None))]
CoversPair(spans, row, col) ==
  \E s \in spans : s[1] = row /\ \E c \in PairOf(row, col) : c \in s[2]..s[3]
HighlightAt(row, col) ==
  IF CoversPair(over.active, row, col) THEN <<"active">>
  ELSE IF CoversPair(over.selection, row, col) THEN <<"selection">>
  ELSE IF CoversPair(over.matches, row, col) THEN <<"match">> ELSE None

Blend(base, top) == <<"blend", base, top>>
Dim(fg, bg) == <<"dim", fg, bg>>
Or(c, d) == IF c # None THEN c ELSE d
CompositeBg(bg, blend, highlight) ==
  IF highlight = None THEN bg ELSE IF blend THEN Blend(bg, highlight) ELSE highlight

\* [fg, bg] of a cell: inverse swaps them, and what their defaults mean.
ResolveCell(cell) ==
  LET inverse == "inverse" \in cell.flags
      DefaultOf(foreground) == IF foreground # inverse THEN <<"default fg">> ELSE <<"default bg">>
  IN  [fg |-> Or(IF inverse THEN cell.bg ELSE cell.fg, DefaultOf(TRUE)),
       bg |-> Or(IF inverse THEN cell.fg ELSE cell.bg, DefaultOf(FALSE))]

Pack(rects, row, col) ==
  LET cell == Cell(row, col)
      own == ResolveCell(cell)
      composed == <<row, col>> \in over.composed
      plain == [bg |-> None, fg |-> None]
      kind == IF composed THEN None ELSE HighlightAt(row, col)
      selected == ~composed /\ CoversPair(over.selection, row, col)
      bottom == IF composed THEN plain ELSE OverrideAt(rects, row, col, "bottom")
      top == IF composed THEN plain ELSE OverrideAt(rects, row, col, "top")
      beneath == Or(bottom.bg, own.bg)
      decorated == bottom.bg # None
      bare == cell.bg = None /\ "inverse" \notin cell.flags
      taken == cell.tile /\ top.bg # None /\ top.fg = None
      blends == kind = <<"selection">> /\ (decorated \/ ~bare)
      bg == Or(top.bg, CompositeBg(beneath, blends, kind))
      follow == IF selected /\ over.selectionFg THEN <<"selection fg">> ELSE Or(bottom.fg, own.fg)
      tinted == IF cell.bg = None /\ "inverse" \in cell.flags
                THEN CompositeBg(beneath, decorated /\ kind = <<"selection">>, <<"selection">>)
                ELSE Blend(own.fg, <<"selection">>)
      ink == Or(top.fg, IF selected /\ cell.tile /\ ~taken THEN tinted ELSE follow)
      Faded(c) == IF "dim" \in cell.flags /\ ~selected THEN Dim(c, bg) ELSE c
  IN [bg |-> bg, ink |-> Faded(ink), line |-> Faded(Or(top.fg, follow)), glyph |-> ~taken,
      backdrop |-> bare /\ ~decorated /\ top.bg = None /\ kind = None]

-----------------------------------------------------------------------------
(* The ruler.                                                                *)
Total == buffer.back + Rows
TrackRatio(line) == Lesser(Total, Greater(0, line))   \* of Total
IsGutterMark(m) == m.position # "full"
RulerMarks ==
  LET marked == SelectSeq(page.inOrder, LAMBDA d : d.ruler # "none" /\ d.markerId \in known)
      marks == [i \in DOMAIN marked |-> [at |-> TrackRatio(markers[marked[i].markerId]), position |-> marked[i].ruler,
                                         color |-> <<"ruler", marked[i].handle>>]]
  IN  IF buffer.alt THEN <<>>
      ELSE SelectSeq(marks, IsGutterMark) \o SelectSeq(marks, LAMBDA m : ~IsGutterMark(m))
SearchRulerMarks ==
  LET active == IF over.current = 0 THEN {} ELSE {over.found[over.current]}
      Found(i) == over.found[i] \notin active /\ \A j \in 1..(i - 1) : over.found[j] # over.found[i]
      Mark(line, c) == [at |-> TrackRatio(line), position |-> "center", color |-> c]
      firsts == SelectSeq([i \in DOMAIN over.found |-> i], Found)
  IN  IF buffer.alt THEN <<>>
      ELSE [k \in DOMAIN firsts |-> Mark(over.found[firsts[k]], <<"match">>)]
           \o (IF active = {} THEN <<>> ELSE <<Mark(over.found[over.current], <<"active">>)>>)
ComposeRulerMarks(a, b) ==
  SelectSeq(a, IsGutterMark) \o SelectSeq(b, IsGutterMark)
  \o SelectSeq(a, LAMBDA m : ~IsGutterMark(m)) \o SelectSeq(b, LAMBDA m : ~IsGutterMark(m))

RulerMarkX(position) ==
  CASE position = "left"   -> [left |-> "0", width |-> "33%"]
    [] position = "center" -> [left |-> "33%", width |-> "34%"]
    [] position = "right"  -> [right |-> "0", width |-> "33%"]
    [] OTHER               -> [left |-> "0", right |-> "0"]
Unset == [left |-> "", right |-> "", width |-> ""]
\* An element is reused for another mark: what it kept of the last one is reset first.
Styled(el, m) == RulerMarkX(m.position) @@ Unset @@ [at |-> m.at, color |-> m.color] @@ el
SetMarks(els, marks) ==
  [i \in DOMAIN marks |-> Styled(IF i \in DOMAIN els THEN els[i] ELSE Unset, marks[i])]
Paint == bar' = SetMarks(bar, ComposeRulerMarks(RulerMarks, SearchRulerMarks)')

-----------------------------------------------------------------------------
LayersInit ==
  /\ \E m \in Marked : markers = m.at /\ buffer = [back |-> m.back, offset |-> 0, alt |-> FALSE]
  /\ known = Ids
  /\ page = [inOrder |-> <<>>, byMarker |-> [id \in Ids |-> {}], disposed |-> {}]
  /\ over \in Overlays /\ bar = <<>> /\ log = <<>> /\ closed = {} /\ spent = [page |-> 0, moves |-> 0]

Register(o) ==
  LET d == Fresh(o, Len(log) + 1)
  IN /\ page' = [page EXCEPT !.inOrder = Append(@, d), !.byMarker[o.markerId] = @ \cup {d}]
     /\ log' = Append(log, d) /\ closed' = closed
Dispose(h) ==
  /\ page' = Unlist(page, log[h]) /\ closed' = closed \cup {h} /\ log' = log
PageStep ==
  /\ spent.page < MaxPage /\ spent.page + spent.moves < MaxSteps /\ spent' = [spent EXCEPT !.page = @ + 1]
  /\ (\E o \in Options : Register(o)) \/ \E h \in DOMAIN log : Dispose(h)
  /\ UNCHANGED <<markers, buffer, known, over>> /\ Paint

\* What a marker's line becomes when it goes, and what the page hears of it before the next frame.
Keep(left) ==
  /\ markers' = [id \in DOMAIN left |-> left[id]]
  /\ page' = FoldSet(LAMBDA id, r : OnMarkerDisposed(r, id), page, DOMAIN markers \ DOMAIN left)
Erase == \E id \in Live : Keep([m \in DOMAIN markers \ {id} |-> markers[m]]) /\ UNCHANGED buffer
\* A line scrolls into history; a view scrolled up stays on its lines.  Past the limit the oldest line goes.
Output ==
  /\ ~buffer.alt /\ buffer.back < Limit
  /\ buffer' = [buffer EXCEPT !.back = @ + 1, !.offset = IF @ > 0 THEN @ + 1 ELSE 0] /\ Keep(markers)
Evict ==
  /\ ~buffer.alt /\ buffer.back = Limit
  /\ Keep([m \in {id \in DOMAIN markers : markers[id] > 0} |-> markers[m] - 1]) /\ UNCHANGED buffer
Scroll ==
  /\ ~buffer.alt /\ Keep(markers)
  /\ \E n \in 0..buffer.back : n # buffer.offset /\ buffer' = [buffer EXCEPT !.offset = n]
EnterAlt == ~buffer.alt /\ buffer' = [buffer EXCEPT !.offset = 0, !.alt = TRUE] /\ Keep(markers)
LeaveAlt == buffer.alt /\ buffer' = [buffer EXCEPT !.offset = 0, !.alt = FALSE] /\ Keep(markers)
\* The index has lines of the buffer shown, all of them or, until a pull is answered, none.
Move ==
  /\ spent.moves < MaxMoves /\ spent.page + spent.moves < MaxSteps /\ spent' = [spent EXCEPT !.moves = @ + 1]
  /\ Erase \/ Output \/ Evict \/ Scroll \/ EnterAlt \/ LeaveAlt
  /\ known' \in {{}, Live'}
  /\ UNCHANGED <<over, log, closed>> /\ Paint

LayersNext == PageStep \/ Move

-----------------------------------------------------------------------------
(* The layers, by what they mean.                                            *)

\* The decoration that wins a cell: of those not disposed of, whose marker is in the buffer shown
\* and can be placed, and whose block of lines and columns has a half of the glyph, the last one.
Standing == {d \in ToSet(log) : d.handle \notin closed /\ d.markerId \in Live}
Placed == {d \in Standing : d.markerId \in known \/ markers[d.markerId] \in Top..(Top + Rows - 1)}
Block(d) ==
  LET from == IF d.anchor = "right" THEN Cols - d.x - d.width ELSE d.x
  IN  (markers[d.markerId]..(markers[d.markerId] + d.height - 1)) \X (from..(from + d.width - 1))
Winner(row, col, layer, Of(_)) ==
  LET over_ == {d \in Placed : /\ d.layer = layer /\ Of(d) # None
                               /\ \E c \in {col} \cup PartnerAt(row, col) : <<Top + row, c>> \in Block(d)}
  IN  IF over_ = {} THEN None ELSE Of(CHOOSE d \in over_ : \A e \in over_ : e.handle <= d.handle)
Touches(spans, row, col) ==
  \E s \in spans : s[1] = row /\ \E c \in {col} \cup PartnerAt(row, col) : s[2] <= c /\ c <= s[3]

\* A cell shows its topmost layer: a top decoration, the active match, the selection, seen
\* through where something lies under it, a match, a bottom decoration, its own colour; its glyph
\* is dropped where a colour lies over a tile, whose ink alone a selection tints; and nothing lies over a composition.
TopLayerShows ==
  LET rects == Wired
  IN \A p \in Grid :
    LET row == p[1]
        col == p[2]
        cell == Pack(rects, row, col)
        own == ResolveCell(Cell(row, col))
        Tint(layer) == Winner(row, col, layer, LAMBDA d : d.bg)
        Ink(layer) == Winner(row, col, layer, LAMBDA d : d.fg)
        selected == Touches(over.selection, row, col)
        coloured == Tint("bottom") # None \/ own.bg # <<"default bg">> \/ Has(row, col, "inverse")
    IN IF p \in over.composed THEN cell.bg = own.bg /\ cell.glyph
       ELSE /\ cell.bg = Or(Tint("top"),
                         IF Touches(over.active, row, col) THEN <<"active">>
                         ELSE IF selected
                         THEN IF coloured THEN Blend(Or(Tint("bottom"), own.bg), <<"selection">>) ELSE <<"selection">>
                         ELSE IF Touches(over.matches, row, col) THEN <<"match">>
                         ELSE Or(Tint("bottom"), own.bg))
            /\ ~cell.glyph <=> Cell(row, col).tile /\ Tint("top") # None /\ Ink("top") = None
            /\ cell.backdrop <=> cell.bg = <<"default bg">> /\ ~Has(row, col, "inverse")
            /\ cell.line = LET ink == Or(Ink("top"), IF selected /\ over.selectionFg THEN <<"selection fg">>
                                                      ELSE Or(Ink("bottom"), own.fg))
                            IN  IF Has(row, col, "dim") /\ ~selected THEN Dim(ink, cell.bg) ELSE ink
            /\ \/ Cell(row, col).tile /\ cell.glyph /\ selected /\ Ink("top") = None
               \/ cell.ink = cell.line

\* A third of the track, at a place, shows the last full mark there, else the search's, the active
\* one first, else the last mark of its own third.
ShownAt(at, third) ==
  LET Spans(el) == IF el.width = "" THEN {"left", "center", "right"}
                   ELSE IF el.left = "0" THEN {"left"} ELSE IF el.left = "33%" THEN {"center"} ELSE {"right"}
      els == SelectSeq(bar, LAMBDA el : el.at = at /\ third \in Spans(el))
  IN  IF els = <<>> THEN None ELSE Last(els).color
RulerShows ==
  \A at \in 0..Total : \A third \in {"left", "center", "right"} :
    LET Clamp(line) == IF line > Total THEN Total ELSE line
        Here(position) == {d.handle : d \in {e \in Standing : /\ e.markerId \in known /\ e.ruler = position
                                                                  /\ Clamp(markers[e.markerId]) = at}}
        Newest(s) == <<"ruler", CHOOSE h \in s : \A g \in s : g <= h>>
        hits == {over.found[i] : i \in DOMAIN over.found}
    IN ShownAt(at, third) =
         IF buffer.alt THEN None
         ELSE IF Here("full") # {} THEN Newest(Here("full"))
         ELSE IF third = "center" /\ over.current # 0 /\ Clamp(over.found[over.current]) = at THEN <<"active">>
         ELSE IF third = "center" /\ \E l \in hits : Clamp(l) = at THEN <<"match">>
         ELSE IF Here(third) # {} THEN Newest(Here(third)) ELSE None

\* decorations.ts:212, decoration.rs, frame.rs: what lies over the text is painted in its order
\* wherever the view, the buffer and the index are, and the ruler has the marks of it.
LayersAreShown == TopLayerShows /\ (spent.page + spent.moves > 0 => RulerShows)
=============================================================================
