-------------------------------- MODULE Wire --------------------------------
(***************************************************************************)
(* The binary wire format of a damage frame: encode and decode of          *)
(* justerm-core (serialize.rs), and the structure-of-arrays the browser    *)
(* reads (flatten, justerm-wasm-decode).                                    *)
(*                                                                         *)
(* A buffer is a sequence of bytes of radix Byte.  The code's is 256; a     *)
(* small radix keeps every field's width and every narrowing (a u16 is two *)
(* bytes and wraps at Byte^2) while the limits are within reach.  Of an     *)
(* error only the rejection is kept, not its name; a URI is a byte run.     *)
(***************************************************************************)
EXTENDS Integers, Sequences, FiniteSets, SequencesExt, FiniteSetsExt

CONSTANTS Byte,       \* the radix of a byte (256 in the code)
          Scalars,    \* u32 values below it are Unicode scalars (char::from_u32)
          MinColumns, \* MIN_COLUMNS
          Frames      \* the frames a producer hands to encode

\* Byte is a natural above 4 (a flag, a kind and a mode fit one byte), the others naturals.

VARIABLES sent,    \* the frame being carried, or NoFrame
          wire,    \* its bytes, as they are now
          intact,  \* nothing touched the bytes since encode
          got      \* what decode made of them: a frame, Rejected or NoFrame
wireVars == <<sent, wire, intact, got>>

NoFrame == [none |-> TRUE]
Rejected == [rejected |-> TRUE]

----------------------------------------------------------------------------
(* Bytes, little-endian. *)
LE(v, n) == [i \in 1..n |-> (v \div Byte^(i - 1)) % Byte]
Value(b, at, n) == LET upTo[i \in 0..n] == IF i = 0 THEN 0 ELSE upTo[i - 1] + b[at + i] * Byte^(i - 1) IN upTo[n]
Signed(v, n) == IF v > (Byte^n - 1) \div 2 THEN v - Byte^n ELSE v
Flag(b) == IF b THEN 1 ELSE 0

Magic == <<3, 4>>
Version == <<2>>
Unset == Byte - 1                     \* CURSOR_SHAPE_UNSET
Shapes == {0, 1, 2, Unset}
Kinds == {"Plain", "PromptStart", "CommandStart", "OutputStart", "CommandFinished"}
KindByte == [Plain |-> 0, PromptStart |-> 1, CommandStart |-> 2, OutputStart |-> 3, CommandFinished |-> 4]

\* The header's scalars after the kind byte, in wire order, with their widths.
Header == << <<"cols", 2>>, <<"rows", 2>>, <<"cursor_row", 2>>, <<"cursor_col", 2>>, <<"cursor_visible", 1>>,
             <<"cursor_shape", 1>>, <<"cursor_blink", 1>>, <<"display_offset", 4>>, <<"scrollback_len", 4>>,
             <<"evicted_total", 8>>, <<"marker_epoch", 4>>, <<"marker_count", 4>>, <<"mouse_events", 1>>,
             <<"alt_screen", 1>>, <<"modified_keys", 2>> >>
Booleans == {"cursor_visible", "cursor_blink", "alt_screen"}
HeaderOffset(i) == FoldLeft(LAMBDA s, h : s + h[2], 0, SubSeq(Header, 1, i - 1))
HeaderLength == HeaderOffset(Len(Header) + 1)

----------------------------------------------------------------------------
(* encode. *)
Each(s, Op(_)) == FlattenSeq([i \in 1..Len(s) |-> Op(s[i])])

EncodeColor(c) == c[1] * Byte^3 + c[2]
EncodeCellRecord(c) == LE(c.c, 4) \o LE(EncodeColor(c.fg), 4) \o LE(EncodeColor(c.bg), 4) \o LE(c.flags, 2)
EncodeSpan(s) == LE(s.line, 2) \o LE(s.left, 2) \o LE(s.right, 2) \o Each(s.cells, EncodeCellRecord)
EncodeUri(u) == LE(Len(u), 4) \o u

\* One sparse group of one span: the entries keyed within the span, in column order.
Within(m, s) == SelectSeq([i \in 1..Len(s.cells) |-> i - 1], LAMBDA k : k \in DOMAIN m)
EncodeCombining(s) ==
  LET entry(k) == LE(k, 2) \o LE(Len(s.combining[k]), 4) \o Each(s.combining[k], LAMBDA ch : LE(ch, 4))
  IN  LE(Len(Within(s.combining, s)), 4) \o Each(Within(s.combining, s), entry)
EncodeLinks(s) ==
  LET entry(k) == LE(k, 2) \o LE(s.links[k], 4)
  IN  LE(Len(Within(s.links, s)), 4) \o Each(Within(s.links, s), entry)
EncodeUcolors(s) ==
  LET entry(k) == LE(k, 2) \o LE(EncodeColor(s.ucolors[k]), 4)
  IN  LE(Len(Within(s.ucolors, s)), 2) \o Each(Within(s.ucolors, s), entry)

OverlayCount(n) == LE(n, 4)
EncodeOverlaySpans(spans) ==
  OverlayCount(Len(spans)) \o Each(spans, LAMBDA s : LE(s[1], 2) \o LE(s[2], 2) \o LE(s[3], 2))
EncodeMarker(m) ==
  LE(m.id, 4) \o LE(m.row, 2) \o <<KindByte[m.kind]>>
  \o (IF m.kind = "CommandFinished"
      THEN <<Flag(m.exit # <<>>)>> \o LE(IF m.exit = <<>> THEN 0 ELSE m.exit[1], 4) ELSE <<>>)
EncodeMarkers(ms) == LE(Len(ms), 2) \o Each(ms, EncodeMarker)
EncodeHeader(f) ==
  Magic \o Version \o <<Flag(f.scroll # <<>>), f.kind>>
  \o Each(Header, LAMBDA h : LE(IF h[1] \in Booleans THEN Flag(f.head[h[1]]) ELSE f.head[h[1]], h[2]))
  \o Each(f.scroll, LAMBDA v : LE(v, 2))

Encode(f) ==
  EncodeHeader(f) \o LE(Len(f.spans), 2) \o Each(f.spans, EncodeSpan)
  \o LE(Len(f.links), 4) \o Each(f.links, EncodeUri)
  \o Each(f.spans, EncodeCombining) \o Each(f.spans, EncodeLinks) \o Each(f.spans, EncodeUcolors)
  \o EncodeOverlaySpans(f.selection) \o EncodeOverlaySpans(f.matches) \o EncodeMarkers(f.markers)
  \o EncodeOverlaySpans(f.active)

----------------------------------------------------------------------------
(* decode.  A reader is [pos, ok, out, frame]: where it stands, whether it  *)
(* has failed, what the section being read has yielded so far, and the      *)
(* frame the sections before it made.                                       *)
Reader(pos, frame) == [pos |-> pos, ok |-> TRUE, out |-> <<>>, frame |-> frame]
Fail(r) == [r EXCEPT !.ok = FALSE]
Has(b, r, n) == r.pos + n <= Len(b)
Skip(r, n) == [r EXCEPT !.pos = @ + n]
Yield(r, x) == [r EXCEPT !.out = Append(@, x)]
Keep(r, section) == [r EXCEPT !.frame[section] = r.out, !.out = <<>>]
\* n items of w bytes each: whether the one at a place is sound, and what it holds.
Items(b, r, n, w, Sound(_), Item(_)) ==
  IF Has(b, r, n * w) /\ \A k \in 0..(n - 1) : Sound(r.pos + k * w)
  THEN [r EXCEPT !.pos = @ + n * w, !.out = @ \o [k \in 1..n |-> Item(r.pos + (k - 1) * w)]]
  ELSE Fail(r)
\* n items read one after another; the first failure ends the reading.
Once(r, Item(_)) == IF r.ok THEN Item(r) ELSE r
Times(r, n, Item(_)) == LET after[i \in 0..n] == IF i = 0 THEN r ELSE Once(after[i - 1], Item) IN after[n]
\* A counted group whose count is w bytes wide and whose items are at least
\* least bytes long: a count the buffer has no room for fails on one of them.
Group(b, r, w, least, Item(_)) ==
  IF ~r.ok THEN r
  ELSE IF Has(b, r, w) /\ Has(b, r, w + least * Value(b, r.pos, w)) THEN Times(Skip(r, w), Value(b, r.pos, w), Item)
  ELSE Fail(r)

ColorOk(v) == v \div Byte^3 \in {0, 1, 2}
DecodeColor(v) ==
  CASE v \div Byte^3 = 0 -> <<0, 0>> [] v \div Byte^3 = 1 -> <<1, v % Byte>> [] OTHER -> <<2, v % Byte^3>>
\* The presence bits do not travel: each is armed again by its own group.
CellOk(b, at) == Value(b, at, 4) < Scalars /\ ColorOk(Value(b, at + 4, 4)) /\ ColorOk(Value(b, at + 8, 4))
DecodeCell(b, at) ==
  [c |-> Value(b, at, 4), fg |-> DecodeColor(Value(b, at + 4, 4)), bg |-> DecodeColor(Value(b, at + 8, 4)),
   flags |-> Value(b, at + 12, 2), bits |-> {}]
\* Mutant of SpanFits: the width of the screen is not looked at.
SpanFitsAnywhere(line, left, right, cols, rows) == left <= right /\ line < rows
SpanFits(line, left, right, cols, rows) == left <= right /\ right < cols /\ line < rows
SpanOf(r, line, left, right, cells) ==
  [cells EXCEPT !.out = Append(r.out, [line |-> line, left |-> left, right |-> right, cells |-> cells.out,
                                       combining |-> <<>>, links |-> <<>>, ucolors |-> <<>>])]
SpanAt(b, r, line, left, right, h) ==
  IF SpanFits(line, left, right, h.cols, h.rows)
  THEN SpanOf(r, line, left, right,
              Items(b, [Skip(r, 6) EXCEPT !.out = <<>>], right - left + 1, 14, LAMBDA at : CellOk(b, at), LAMBDA at : DecodeCell(b, at)))
  ELSE Fail(r)
DecodeSpan(b, r, h) ==
  IF Has(b, r, 6) THEN SpanAt(b, r, Value(b, r.pos, 2), Value(b, r.pos + 2, 2), Value(b, r.pos + 4, 2), h) ELSE Fail(r)
DecodeUri(b, r) ==
  IF Has(b, r, 4) /\ Has(b, r, 4 + Value(b, r.pos, 4))
  THEN Yield(Skip(r, 4 + Value(b, r.pos, 4)), SubSeq(b, r.pos + 5, r.pos + 4 + Value(b, r.pos, 4))) ELSE Fail(r)

\* Entering a sparse entry in a span arms its bit; a key outside the span is rejected.
KeyFits(col, span) == col < Len(span.cells)
Arm(r, i, group, col, v) ==
  IF KeyFits(col, r.frame.spans[i])
  THEN [r EXCEPT !.frame.spans[i][group] = [k \in DOMAIN @ \cup {col} |-> IF k = col THEN v ELSE @[k]],
                 !.frame.spans[i].cells[col + 1].bits = @ \cup {group}]
  ELSE Fail(r)
ArmCluster(r, chars, i, col) == IF chars.ok THEN Arm([r EXCEPT !.pos = chars.pos], i, "combining", col, chars.out) ELSE Fail(r)
DecodeCluster(b, r, i) ==
  IF Has(b, r, 6)
  THEN ArmCluster(r, Items(b, [Skip(r, 6) EXCEPT !.out = <<>>], Value(b, r.pos + 2, 4), 4,
                           LAMBDA at : Value(b, at, 4) < Scalars, LAMBDA at : Value(b, at, 4)), i, Value(b, r.pos, 2))
  ELSE Fail(r)
DecodeLink(b, r, i) ==
  IF Has(b, r, 6) /\ Value(b, r.pos + 2, 4) # 0
  THEN Arm(Skip(r, 6), i, "links", Value(b, r.pos, 2), Value(b, r.pos + 2, 4)) ELSE Fail(r)
DecodeUcolor(b, r, i) ==
  IF Has(b, r, 6) /\ ColorOk(Value(b, r.pos + 2, 4))
  THEN Arm(Skip(r, 6), i, "ucolors", Value(b, r.pos, 2), DecodeColor(Value(b, r.pos + 2, 4))) ELSE Fail(r)
\* One group per span, in span order.
PerSpan(b, r, w, Entry(_, _, _)) ==
  LET after[i \in 0..Len(r.frame.spans)] ==
        IF i = 0 THEN r ELSE Group(b, after[i - 1], w, 6, LAMBDA q : Entry(b, q, i))
  IN  after[Len(r.frame.spans)]

DecodeOverlaySpans(b, r, section) ==
  Keep(Group(b, r, 4, 6, LAMBDA s : IF Has(b, s, 6)
                                    THEN Yield(Skip(s, 6), <<Value(b, s.pos, 2), Value(b, s.pos + 2, 2), Value(b, s.pos + 4, 2)>>)
                                    ELSE Fail(s)), section)
MarkerExit(b, at) == IF b[at + 1] = 0 THEN <<>> ELSE <<Signed(Value(b, at + 1, 4), 4)>>
MarkerAt(b, at, kind) ==
  [id |-> Value(b, at, 4), row |-> Value(b, at + 4, 2), exit |-> IF kind = 4 THEN MarkerExit(b, at + 7) ELSE <<>>,
   kind |-> CHOOSE k \in Kinds : KindByte[k] = kind]
DecodeMarker(b, r) ==
  IF ~Has(b, r, 7) \/ b[r.pos + 7] > 4 THEN Fail(r)
  ELSE IF b[r.pos + 7] < 4 THEN Yield(Skip(r, 7), MarkerAt(b, r.pos, b[r.pos + 7]))
  ELSE IF Has(b, r, 12) THEN Yield(Skip(r, 12), MarkerAt(b, r.pos, 4)) ELSE Fail(r)

HeaderAt(b) ==
  [h \in {Header[i][1] : i \in 1..Len(Header)} |->
     LET i == CHOOSE j \in 1..Len(Header) : Header[j][1] = h
         v == Value(b, 5 + HeaderOffset(i), Header[i][2])
     IN  IF h \in Booleans THEN v # 0 ELSE v]
ScrollAt(b) == LET at == 5 + HeaderLength
               IN  IF b[4] = 0 THEN <<>> ELSE <<Value(b, at, 2), Value(b, at + 2, 2), Signed(Value(b, at + 4, 2), 2)>>
GeometryOk(h) == h.cols >= MinColumns /\ h.rows > 0
\* top > bottom is an empty region and passes; the count is not looked at.
ScrollOk(s, rows) == s = <<>> \/ s[1] > s[2] \/ s[2] < rows

\* The sections after the header, each from where the one before it stopped.
Spans(b, r) == Keep(Group(b, r, 2, 20, LAMBDA s : DecodeSpan(b, s, r.frame.head)), "spans")
Uris(b, r) == Keep(Group(b, r, 4, 4, LAMBDA s : DecodeUri(b, s)), "links")
Groups(b, r) == PerSpan(b, PerSpan(b, PerSpan(b, r, 4, DecodeCluster), 4, DecodeLink), 2, DecodeUcolor)
Markers(b, r) == Keep(Group(b, r, 2, 7, LAMBDA s : DecodeMarker(b, s)), "markers")
Overlays(b, r) ==
  DecodeOverlaySpans(b, Markers(b, DecodeOverlaySpans(b, DecodeOverlaySpans(b, r, "selection"), "matches")), "active")
Finished(r) == IF r.ok THEN r.frame ELSE Rejected
DecodeBody(b, h, scroll) ==
  Finished(Overlays(b, Groups(b, Uris(b, Spans(b, Reader(5 + HeaderLength + (IF b[4] = 0 THEN 0 ELSE 6),
    [head |-> h, kind |-> b[5], scroll |-> scroll, spans |-> <<>>, links |-> <<>>,
     selection |-> <<>>, matches |-> <<>>, markers |-> <<>>, active |-> <<>>]))))))

DecodeUnder(b, h) ==
  IF ~GeometryOk(h) \/ h.cursor_shape \notin Shapes \/ (b[4] # 0 /\ Len(b) < 5 + HeaderLength + 6) THEN Rejected
  ELSE IF ~ScrollOk(ScrollAt(b), h.rows) THEN Rejected ELSE DecodeBody(b, h, ScrollAt(b))
Decode(b) ==
  IF Len(b) < 5 + HeaderLength \/ SubSeq(b, 1, 3) # Magic \o Version \/ b[5] > 1 THEN Rejected
  ELSE DecodeUnder(b, HeaderAt(b))

----------------------------------------------------------------------------
(* flatten: the columns the browser reads, one record per cell of the span *)
(* directory, and the cluster table rebuilt in cell order.                  *)
CellsBefore(f, i) == FoldLeft(LAMBDA n, s : n + Len(s.cells), 0, SubSeq(f.spans, 1, i - 1))
Directory(f) ==
  [i \in 1..Len(f.spans) |-> LET s == f.spans[i] IN <<s.line, s.left, s.right, CellsBefore(f, i), Len(s.cells)>>]
Cluster(s, col) == IF col \in DOMAIN s.combining THEN <<s.combining[col]>> ELSE <<>>
SideTable(f) == Each(f.spans, LAMBDA s : FlattenSeq([j \in 1..Len(s.cells) |-> Cluster(s, j - 1)]))
\* The 1-based index of a cell's cluster: how many cells carry one, up to and with it.
Extra(f, i, col) ==
  IF col \notin DOMAIN f.spans[i].combining THEN 0
  ELSE FoldLeft(LAMBDA n, s : n + Cardinality(DOMAIN s.combining \cap 0..(Len(s.cells) - 1)), 0, SubSeq(f.spans, 1, i - 1))
       + Cardinality({k \in DOMAIN f.spans[i].combining : k <= col})
Column(f, i, col) ==
  LET s == f.spans[i]
      c == s.cells[col + 1]
  IN  [codepoint |-> c.c, fg |-> EncodeColor(c.fg), bg |-> EncodeColor(c.bg), flags |-> c.flags,
       underline |-> IF col \in DOMAIN s.ucolors THEN EncodeColor(s.ucolors[col]) ELSE 0,
       extra |-> Extra(f, i, col), link |-> IF col \in DOMAIN s.links THEN s.links[col] ELSE 0]
FlattenCells(f) == FlattenSeq([i \in 1..Len(f.spans) |-> [j \in 1..Len(f.spans[i].cells) |-> Column(f, i, j - 1)]])
Exit(m) == IF m.exit = <<>> THEN <<0, 0>> ELSE <<1, m.exit[1] % Byte^4>>
FlattenMarkers(f) == Each(f.markers, LAMBDA m : <<m.id, m.row, KindByte[m.kind]>> \o Exit(m))
Flatten(f) == [directory |-> Directory(f), cells |-> FlattenCells(f), side |-> SideTable(f), markers |-> FlattenMarkers(f)]

----------------------------------------------------------------------------
(* A frame is encoded, carried, and decoded; the carrier may cut it short  *)
(* or damage one byte of it.                                                *)
WireInit == sent = NoFrame /\ wire = <<>> /\ intact = TRUE /\ got = NoFrame

Send == /\ sent = NoFrame
        /\ \E f \in Frames : sent' = f /\ wire' = Encode(f)
        /\ UNCHANGED <<intact, got>>
Cut == /\ sent # NoFrame /\ got = NoFrame /\ intact
       /\ \E n \in 0..(Len(wire) - 1) : wire' = SubSeq(wire, 1, n)
       /\ intact' = FALSE /\ UNCHANGED <<sent, got>>
Damage == /\ sent # NoFrame /\ got = NoFrame /\ intact
          /\ \E i \in 1..Len(wire), v \in 0..(Byte - 1) : wire[i] # v /\ wire' = [wire EXCEPT ![i] = v]
          /\ intact' = FALSE /\ UNCHANGED <<sent, got>>
Receive == /\ sent # NoFrame /\ got = NoFrame
           /\ got' = Decode(wire)
           /\ UNCHANGED <<sent, wire, intact>>

WireNext == Send \/ Cut \/ Damage \/ Receive

----------------------------------------------------------------------------
Accepted == got \notin {NoFrame, Rejected}

\* What a frame means: its entries outside their span are dropped, and a cell's
\* presence bits say which groups have an entry for it.
Carried(f) ==
  LET keep(m, s) == [k \in {k \in DOMAIN m : k < Len(s.cells)} |-> m[k]]
      span(s) == [s EXCEPT !.combining = keep(@, s), !.links = keep(@, s), !.ucolors = keep(@, s)]
  IN  [f EXCEPT !.spans = [i \in DOMAIN f.spans |-> span(f.spans[i])]]

\* encode and decode (serialize.rs): a frame that arrives whole means what was sent,
\* at every count and coordinate the engine can produce, narrowing included.
RoundTrip == (intact /\ got # NoFrame) => got = Carried(sent)

\* decode (serialize.rs): a buffer cut short anywhere is rejected, never read as a smaller frame.
CutIsRejected == (Accepted /\ ~intact) => Len(wire) = Len(Encode(sent))

\* decode (serialize.rs): whatever is accepted addresses only cells its own header declares,
\* and no cell's presence bit disagrees with the groups.
AcceptedFits ==
  Accepted =>
    /\ GeometryOk(got.head) /\ ScrollOk(got.scroll, got.head.rows)
    /\ \A i \in DOMAIN got.spans : LET s == got.spans[i] IN
         /\ s.left + Len(s.cells) <= got.head.cols /\ Len(s.cells) = s.right - s.left + 1 /\ s.line < got.head.rows
         /\ \A g \in {"combining", "links", "ucolors"} :
              DOMAIN s[g] = {k \in 0..(Len(s.cells) - 1) : g \in s.cells[k + 1].bits}

\* flatten (justerm-wasm-decode lib.rs): the record the directory gives a span's column holds
\* that column's cell, its cluster through the table, its link and its underline colour.
FlatShows(flat, f) ==
  \A i \in DOMAIN f.spans : \A col \in 0..(Len(f.spans[i].cells) - 1) :
    LET s == f.spans[i]
        at == flat.cells[flat.directory[i][4] + col + 1]
    IN  /\ at.codepoint = s.cells[col + 1].c /\ at.flags = s.cells[col + 1].flags
        /\ IF at.extra = 0 THEN col \notin DOMAIN s.combining
           ELSE col \in DOMAIN s.combining /\ flat.side[at.extra] = s.combining[col]
        /\ IF at.link = 0 THEN col \notin DOMAIN s.links ELSE s.links[col] = at.link
        /\ IF at.underline = 0 THEN col \notin DOMAIN s.ucolors \/ s.ucolors[col] = <<0, 0>>
           ELSE DecodeColor(at.underline) = s.ucolors[col]
FlatIsFaithful == Accepted => FlatShows(Flatten(got), got)

\* The two directions of the format (serialize.rs) and the columns the browser reads from it
\* (flatten): a frame arrives as it was sent or not at all, and what arrives can be drawn.
FramesArrive == RoundTrip /\ CutIsRejected /\ AcceptedFits /\ FlatIsFaithful
=============================================================================
