--------------------------- MODULE BuiltinGlyphs ---------------------------
(* The glyphs the renderer draws itself (justerm-renderer/src/builtin.rs):  *)
(* box drawing, the block elements and Symbols for Legacy Computing, drawn  *)
(* to the cell so that neighbouring cells meet.  A glyph is a function from *)
(* the pixels of a w by h cell to their coverage, 0..255.                   *)
(*                                                                          *)
(* The code computes in f32 and rounds; every quantity here is the exact    *)
(* integer the rounding yields, in half pixels where the code halves.  Not  *)
(* modelled: the diagonals and the hatches, whose bands need square roots   *)
(* (U+2571..2573, U+1FB98..1FB99).  A rounded corner's anti-aliased rim     *)
(* keeps only the class of its coverage, Soft.                              *)
EXTENDS Integers, Sequences, FiniteSets

CONSTANT Sizes          \* the cell sizes <<w, h>> in device pixels

VARIABLE glyph          \* the character drawn, None before: code point, size, pixels

glyphVars == <<glyph>>

Least(a, b) == IF a < b THEN a ELSE b
Most(a, b) == IF a > b THEN a ELSE b

None == [cp |-> 0]

Solid == 255
Medium == 128
Soft == 100

Cell(w, h) == (0 .. w - 1) \X (0 .. h - 1)

\* fill: a rectangle clipped at the far edges of the cell.
Fill(w, h, x, y, rw, rh) ==
  {p \in Cell(w, h) : p[1] >= x /\ p[1] < x + rw /\ p[2] >= y /\ p[2] < y + rh}

Flat(w, h, lit, alpha) == [p \in Cell(w, h) |-> IF p \in lit THEN alpha ELSE 0]

\* round(w / 8), at least one: the light stroke.
Stroke(w) == Most(1, (w + 4) \div 8)

\* h_bounds and v_bounds: the pixels of a stroke of size s whose axis is at c
\* half pixels, in a cell n wide.
Band(n, c, s) == [lo |-> Most(0, c - s) \div 2, hi |-> Least((c + s) \div 2, n)]

-----------------------------------------------------------------------------
(* The straight lines. *)

\* BOX_ARMS, as digits left, right, up, down: U+2500..2503, U+250C..254B,
\* U+2574..257F.
BoxArms ==
  << 1100, 2200, 0011, 0022,
     0101, 0201, 0102, 0202,  1001, 2001, 1002, 2002,
     0110, 0210, 0120, 0220,  1010, 2010, 1020, 2020,
     0111, 0211, 0121, 0112,  0122, 0221, 0212, 0222,
     1011, 2011, 1021, 1012,  1022, 2021, 2012, 2022,
     1101, 2101, 1201, 2201,  1102, 2102, 1202, 2202,
     1110, 2110, 1210, 2210,  1120, 2120, 1220, 2220,
     1111, 2111, 1211, 2211,  1121, 1112, 1122, 2121,
     1221, 2112, 1212, 2221,  2212, 2122, 1222, 2222,
     1000, 0010, 0100, 0001,  2000, 0020, 0200, 0002,
     1200, 0012, 2100, 0021 >>

Lines == (\h2500 .. \h2503) \cup (\h250C .. \h254B) \cup (\h2574 .. \h257F)

Weights(cp) ==
  LET d == BoxArms[CASE cp <= \h2503 -> cp - \h24FF
                     [] cp <= \h254B -> cp - \h2507
                     [] OTHER -> cp - \h252F]
  IN [left |-> d \div 1000, right |-> (d \div 100) % 10, up |-> (d \div 10) % 10, down |-> d % 10]

\* box_glyph: each arm runs from the edge to the far side of the strokes across.
LineGlyph(cp, w, h) ==
  LET a == Weights(cp)
      Size(d) == a[d] * Stroke(w)
      Across(d) == Band(h, h, Size(d))
      Upright(d) == Band(w, w, Size(d))
      L == Across("left")   R == Across("right")
      U == Upright("up")    D == Upright("down")
      x == Least(U.lo, D.lo)
      y == Least(L.lo, R.lo)
      Arm(d) ==
        CASE a[d] = 0 -> {}
          [] d = "left" -> Fill(w, h, 0, L.lo, Most(1, Most(U.hi, D.hi)), L.hi - L.lo)
          [] d = "right" -> Fill(w, h, x, R.lo, w - x, R.hi - R.lo)
          [] d = "up" -> Fill(w, h, U.lo, 0, U.hi - U.lo, Most(1, Most(L.hi, R.hi)))
          [] d = "down" -> Fill(w, h, D.lo, y, D.hi - D.lo, h - y)
  IN UNION {Arm(d) : d \in {"left", "right", "up", "down"}}

\* box_dash: how many gaps, which way, how heavy.
Dashes == {\h2504, \h2505, \h2506, \h2507, \h2508, \h2509, \h250A, \h250B, \h254C, \h254D, \h254E, \h254F}
Gaps(cp) == CASE cp <= \h2507 -> 2 [] cp <= \h250B -> 3 [] OTHER -> 1
IsAcross(cp) == cp \in {\h2504, \h2505, \h2508, \h2509, \h254C, \h254D}
DashStroke(cp, w) == Stroke(w) * (1 + (cp % 2))

DashGlyph(cp, w, h) ==
  LET across == IsAcross(cp)
      span == IF across THEN w ELSE h
      gap == Most(1, span \div 8)
      dash == Most(1, Most(0, span - gap * Gaps(cp)) \div (Gaps(cp) + 1))
      band == IF across THEN Band(h, h, DashStroke(cp, w)) ELSE Band(w, w, DashStroke(cp, w))
      At(i) == Least(i * (dash + gap), span)
  IN UNION {IF across THEN Fill(w, h, At(i), band.lo, dash, band.hi - band.lo)
                      ELSE Fill(w, h, band.lo, At(i), band.hi - band.lo, dash) : i \in 0 .. Gaps(cp)}

\* box_double: two rails each way (one, on the axis, where that direction is
\* single), each in two halves whose reach the character chooses.
Doubles == \h2550 .. \h256C
SingleUpright == {\h2552, \h2555, \h2558, \h255B, \h255E, \h2561, \h2564, \h2567, \h256A}
SingleAcross == {\h2553, \h2556, \h2559, \h255C, \h255F, \h2562, \h2565, \h2568, \h256B}

DoubleGlyph(cp, w, h) ==
  LET s == Stroke(w)
      V(c) == Band(w, c, s)
      H(c) == Band(h, c, s)
      vs == IF cp \in SingleUpright THEN <<w, w>>
            ELSE <<2 * Most(0, V(w).lo - 1), 2 * Least(w, V(w).hi + 1)>>
      hs == IF cp \in SingleAcross THEN <<h, h>>
            ELSE <<2 * Most(0, H(h).lo - 1), 2 * Least(h, H(h).hi + 1)>>
      vl == V(vs[1])   vr == V(vs[2])   ht == H(hs[1])   hb == H(hs[2])
      In(a, b) == cp \in a .. b
      \* Lengths and origins in half pixels: xc and yc are w and h.
      left == CASE cp \in {\h2550, \h256B} -> <<w, w>>
                [] In(\h2555, \h2557) -> <<2 * vr.hi, 2 * vl.hi>>
                [] In(\h255B, \h255D) -> <<2 * vl.hi, 2 * vr.hi>>
                [] In(\h2561, \h2563) \/ cp \in {\h256A, \h256C} -> <<2 * vl.hi, 2 * vl.hi>>
                [] In(\h2564, \h2568) -> <<w, 2 * vl.hi>>
                [] cp = \h2569 -> <<2 * vl.hi, w>>
                [] OTHER -> <<0, 0>>
      right == CASE cp \in {\h2550, \h2565, \h256B} -> <<w, w, 2 * w>>
                 [] In(\h2552, \h2554) \/ cp = \h2568 -> <<2 * vl.lo, 2 * vr.lo, 2 * w>>
                 [] In(\h2558, \h255A) -> <<2 * vr.lo, 2 * vl.lo, 2 * w>>
                 [] In(\h255E, \h2560) \/ cp \in {\h256A, \h256C} -> <<2 * vr.lo, 2 * vr.lo, 2 * w>>
                 [] cp \in {\h2564, \h2566} -> <<w, 2 * vr.lo, 2 * w>>
                 [] cp \in {\h2567, \h2569} -> <<2 * vr.lo, w, 2 * w>>
                 [] OTHER -> <<0, 0, 0>>
      top == CASE cp \in {\h2551, \h256A} -> <<h, h>>
               [] In(\h2558, \h255C) \/ cp = \h2568 -> <<2 * hb.hi, 2 * ht.hi>>
               [] cp = \h255D -> <<2 * ht.hi, 2 * hb.hi>>
               [] In(\h255E, \h2560) -> <<h, 2 * ht.hi>>
               [] In(\h2561, \h2563) -> <<2 * ht.hi, h>>
               [] cp \in {\h2567, \h2569, \h256B, \h256C} -> <<2 * ht.hi, 2 * ht.hi>>
               [] OTHER -> <<0, 0>>
      bottom == CASE cp \in {\h2551, \h256A} -> <<h, h, 2 * h>>
                  [] In(\h2552, \h2554) -> <<2 * ht.lo, 2 * hb.lo, 2 * h>>
                  [] In(\h2555, \h2557) -> <<2 * hb.lo, 2 * ht.lo, 2 * h>>
                  [] In(\h255E, \h2560) -> <<h, 2 * hb.lo, 2 * h>>
                  [] In(\h2561, \h2563) -> <<2 * hb.lo, h, 2 * h>>
                  [] In(\h2564, \h2566) \/ cp \in {\h256B, \h256C} -> <<2 * hb.lo, 2 * hb.lo, 2 * h>>
                  [] OTHER -> <<0, 0, 0>>
      DrawH(x, c, size) ==
        Fill(w, h, x \div 2, H(c).lo, Least((x + size) \div 2, w) - (x \div 2), H(c).hi - H(c).lo)
      DrawV(c, y, size) ==
        Fill(w, h, V(c).lo, y \div 2, V(c).hi - V(c).lo, Least((y + size) \div 2, h) - (y \div 2))
  IN UNION ({DrawH(0, hs[i], left[i]) : i \in 1 .. 2} \cup {DrawH(right[i], hs[i], right[3]) : i \in 1 .. 2}
            \cup {DrawV(vs[i], 0, top[i]) : i \in 1 .. 2} \cup {DrawV(vs[i], bottom[i], bottom[3]) : i \in 1 .. 2})

\* box_rounded: a quarter ring for the corner up and left, extended to the
\* long edge, then mirrored.  Lengths in half pixels; a distance is compared
\* through its square, in quarter pixels.
Rounded == \h256D .. \h2570

Ring(w, h) ==
  LET s == Stroke(w)
      long == Most(w, h)   short == Least(w, h)
      radius == short + s
      bias == IF short % 2 = s % 2 THEN 0 ELSE 1
      off == long - radius + s + (IF w % 2 # h % 2 /\ long % 2 = s % 2 THEN 2 ELSE 0)
      dx == IF h > w THEN 0 ELSE off
      dy == IF h > w THEN off ELSE 0
      \* hypot(x, y) + bias < c and <= c, all in half pixels.
      Within(x, y, c) == c > bias /\ 4 * (x * x + y * y) < (c - bias) * (c - bias)
      UpTo(x, y, c) == c >= bias /\ 4 * (x * x + y * y) <= (c - bias) * (c - bias)
      Value(x, y) ==
        CASE UpTo(x, y, radius - 2 * s - 2) -> 0
          [] Within(x, y, radius - 2 * s) -> Soft
          [] UpTo(x, y, radius - 2) -> Solid
          [] Within(x, y, radius) -> Soft
          [] OTHER -> 0
      Put(x, y) == <<(2 * x + dx) \div 2, (2 * y + dy) \div 2>>
      n == (short + s + 1) \div 2
      arc == {q \in (0 .. n - 1) \X (0 .. n - 1) :
                 2 * q[1] + dx <= 2 * w - 2 /\ 2 * q[2] + dy <= 2 * h - 2}
      bar == IF h > w THEN Fill(w, h, Most(0, w - s) \div 2, 0, s, dy \div 2)
                      ELSE Fill(w, h, 0, Most(0, h - s) \div 2, dx \div 2, s)
  IN [p \in Cell(w, h) |->
        IF p \in bar THEN Solid
        ELSE IF \E q \in arc : Put(q[1], q[2]) = p
             THEN LET q == CHOOSE q \in arc : Put(q[1], q[2]) = p IN Value(q[1], q[2])
             ELSE 0]

\* The flip of a line of n pixels about the stroke: with an odd remainder the
\* first pixel is copied to the last and the swap stops one short.
\* Mutant of Flipped: a plain mirror, whatever the parity.
Mirrored(n, s, i) == n - 1 - i
Flipped(n, s, i) ==
  LET extra == IF s % 2 # n % 2 THEN 1 ELSE 0
      Src(k) == IF extra = 1 /\ k = n - 1 THEN 0 ELSE k
  IN IF \E o \in 0 .. (n \div 2) - 1 : i = o \/ i = n - 1 - o - extra
     THEN Src(n - 1 - extra - i)
     ELSE Src(i)

RoundedGlyph(cp, w, h) ==
  LET base == Ring(w, h)
      X(i) == IF cp \in {\h256D, \h2570} THEN Flipped(w, Stroke(w), i) ELSE i
      Y(i) == IF cp \in {\h256D, \h256E} THEN Flipped(h, Stroke(w), i) ELSE i
  IN [p \in Cell(w, h) |-> base[<<X(p[1]), Y(p[2])>>]]

-----------------------------------------------------------------------------
(* The fills. *)

\* sextant_mask: the six-bit masks but 0, 63, the left half and the right half.
SextantMask(cp) ==
  LET i == cp - \h1FB00 IN i + 1 + (IF i + 1 >= 21 THEN 1 ELSE 0) + (IF i + 2 >= 42 THEN 1 ELSE 0)

SextantGlyph(cp, w, h) ==
  LET xc == Most(1, (w + 1) \div 2)
      third == Most(1, (2 * h + 3) \div 6)
      High(row) == IF row = 2 THEN Most(0, h - 2 * third) ELSE third
      Lit(row, col) == (SextantMask(cp) \div 2 ^ (2 * row + col)) % 2 = 1
  IN UNION {Fill(w, h, rc[2] * xc, rc[1] * third, xc, High(rc[1])) :
              rc \in {q \in (0 .. 2) \X (0 .. 1) : Lit(q[1], q[2])}}

QuadrantGlyph(cp, w, h) ==
  LET xc == Most(1, (w + 1) \div 2)
      yc == Most(1, (h + 1) \div 2)
      Quarter(lit, x, y) == IF cp \in lit THEN Fill(w, h, x, y, xc, yc) ELSE {}
  IN UNION {Quarter(\h2598 .. \h259C, 0, 0), Quarter(\h259B .. \h259F, xc, 0),
            Quarter({\h2596, \h2599, \h259B, \h259E, \h259F}, 0, yc),
            Quarter({\h2597, \h2599, \h259A, \h259C, \h259F}, xc, yc)}

\* The halves and the eighths: width and height in eighths, and the eighth from
\* the bottom at which the rectangle begins; each rounded on its own.
EighthWide(cp) ==
  CASE cp \in \h2589 .. \h258F -> \h2590 - cp
    [] cp = \h2590 -> 4
    [] cp = \h2595 -> 1
    [] cp \in \h1FB87 .. \h1FB8B -> <<2, 3, 5, 6, 7>>[cp - \h1FB86]
    [] OTHER -> 8
EighthHigh(cp) ==
  CASE cp = \h2580 -> 4
    [] cp \in \h2581 .. \h2587 -> cp - \h2580
    [] cp = \h2594 -> 1
    [] cp \in \h1FB82 .. \h1FB86 -> <<2, 3, 5, 6, 7>>[cp - \h1FB81]
    [] OTHER -> 8
FromBottom(cp) == IF cp \in \h2581 .. \h2587 THEN EighthHigh(cp) ELSE 8

EighthGlyph(cp, w, h) ==
  LET Rounded8(k, n) == (k * n + 4) \div 8
      rw == Most(1, Rounded8(EighthWide(cp), w))
      rh == Most(1, Rounded8(EighthHigh(cp), h))
      x == CASE cp = \h2590 -> w \div 2
             [] cp = \h2595 \/ cp \in \h1FB87 .. \h1FB8B -> Most(0, w - rw)
             [] OTHER -> 0
  IN Fill(w, h, x, Rounded8(8 - FromBottom(cp), h), rw, rh)

\* OCTANT_BLOCKS: rectangles x, y, w, h on the eighth grid, each placed by its
\* two boundaries.
Octants(cp) ==
  LET Column(i) == <<i, 0, 1, 8>>
      Row(i) == <<0, i, 8, 1>>
      Square(c, r) == <<2 * c, 2 * r, 2, 2>>
      Checker(k) == {Square(c, r) : c \in {0, 2}, r \in {k, k + 2}}
                      \cup {Square(c, r) : c \in {1, 3}, r \in {1 - k, 3 - k}}
  IN CASE cp \in \h1FB70 .. \h1FB75 -> {Column(cp - \h1FB6F)}
       [] cp \in \h1FB76 .. \h1FB7B -> {Row(cp - \h1FB75)}
       [] cp = \h1FB7C -> {Column(0), Row(7)}
       [] cp = \h1FB7D -> {Column(0), Row(0)}
       [] cp = \h1FB7E -> {Column(7), Row(0)}
       [] cp = \h1FB7F -> {Column(7), Row(7)}
       [] cp = \h1FB80 -> {Row(0), Row(7)}
       [] cp = \h1FB81 -> {Row(0), Row(2), Row(4), Row(7)}
       [] cp = \h1FB95 -> Checker(0)
       [] cp = \h1FB96 -> Checker(1)
       [] cp = \h1FB97 -> {<<0, 2, 8, 2>>, <<0, 6, 8, 2>>}

OctantGlyph(cp, w, h) ==
  LET At(k, n) == (k * n) \div 8
  IN UNION {Fill(w, h, At(r[1], w), At(r[2], h), At(r[1] + r[3], w) - At(r[1], w),
                 At(r[2] + r[4], h) - At(r[2], h)) : r \in Octants(cp)}

\* WEDGES, and the triangles of the shades U+1FB9C..1FB9F: rings of vertices
\* 10x + y, in sixths of the cell.
Wedges ==
  << <<4, 6, 36>>, <<4, 6, 66>>, <<2, 6, 36>>, <<2, 6, 66>>, <<0, 6, 36>>, <<2, 30, 60, 66, 6>>,
     <<2, 60, 66, 6>>, <<4, 30, 60, 66, 6>>, <<4, 60, 66, 6>>, <<6, 30, 60, 66>>, <<4, 62, 66, 6>>,
     <<36, 64, 66>>, <<6, 64, 66>>, <<36, 62, 66>>, <<6, 62, 66>>, <<36, 60, 66>>,
     <<30, 0, 6, 66, 62>>, <<0, 6, 66, 62>>, <<30, 0, 6, 66, 64>>, <<0, 6, 66, 64>>,
     <<30, 0, 6, 66>>, <<2, 6, 66, 64>>, <<4, 36, 66, 60, 0>>, <<4, 66, 60, 0>>,
     <<2, 36, 66, 60, 0>>, <<2, 66, 60, 0>>, <<0, 36, 66, 60>>, <<2, 0, 30>>, <<2, 0, 60>>,
     <<4, 0, 30>>, <<4, 0, 60>>, <<6, 0, 30>>, <<4, 0, 60, 62>>, <<36, 6, 0, 60, 64>>,
     <<6, 0, 60, 64>>, <<36, 6, 0, 60, 62>>, <<6, 0, 60, 62>>, <<36, 6, 0, 60>>, <<30, 60, 62>>,
     <<0, 60, 62>>, <<30, 60, 64>>, <<0, 60, 64>>, <<30, 60, 66>>, <<2, 64, 60, 0>>,
     <<0, 60, 66, 6, 33>>, <<0, 33, 60, 66, 6>>, <<0, 60, 33, 66, 6>>, <<0, 60, 66, 33, 6>>,
     <<0, 33, 6>>, <<0, 60, 33>>, <<60, 66, 33>>, <<6, 66, 33>> >>

IsWedge(cp) == cp \in \h1FB3C .. \h1FB6F \/ cp \in \h1FB9A .. \h1FB9B
IsTriangle(cp) == cp \in \h1FB9C .. \h1FB9F

Vertices(cp) ==
  CASE cp \in \h1FB3C .. \h1FB6F -> Wedges[cp - \h1FB3B]
    [] cp = \h1FB9A -> <<0, 33, 6, 66, 33, 60>>
    [] cp = \h1FB9B -> <<0, 33, 60, 66, 33, 6>>
    [] cp = \h1FB9C -> <<0, 60, 6>>
    [] cp = \h1FB9D -> <<0, 60, 66>>
    [] cp = \h1FB9E -> <<60, 66, 6>>
    [] cp = \h1FB9F -> <<0, 66, 6>>

\* fill_polygon: four sampling lines to a pixel row, half-open crossings, exact
\* spans between them by the even-odd rule.  Across, a pixel is Unit(h) long;
\* down, 24.  A span between crossings a <= b counts the reach of a and takes
\* back that of b, so each crossing adds or subtracts by its rank.
Unit(h) == 288 * h

Sampled(py, s) == 24 * py + 6 * s + 3
\* Where the sides of a polygon cross a sampling line; X and Y are its corners'.
Crossing(X(_), Y(_), a, b, y) == X(a) + ((y - Y(a)) * (X(b) - X(a))) \div (Y(b) - Y(a))
CrossingsAt(verts, w, h, y) ==
  LET X(i) == (verts[i] \div 10) * w * 48 * h
      Y(i) == (verts[i] % 10) * 4 * h
      Next1(i) == (i % Len(verts)) + 1
  IN [i \in {i \in 1 .. Len(verts) : (Y(i) <= y) # (Y(Next1(i)) <= y)} |->
        Crossing(X, Y, IF Y(i) < Y(Next1(i)) THEN i ELSE Next1(i), IF Y(i) < Y(Next1(i)) THEN Next1(i) ELSE i, y)]
Rank(xs, i) == Cardinality({j \in DOMAIN xs : xs[j] < xs[i] \/ (xs[j] = xs[i] /\ j < i)})
Ranked(xs) == [i \in DOMAIN xs |-> [at |-> xs[i], sign |-> IF Rank(xs, i) % 2 = 0 THEN 1 ELSE -1]]
Reach(px, x, h) == (px + 1) * Unit(h) - Most(Least(x, (px + 1) * Unit(h)), px * Unit(h))
Covered(xs, px, h, n) ==
  LET sum[i \in 0 .. n] ==
        IF i = 0 THEN 0
        ELSE sum[i - 1] + (IF i \in DOMAIN xs THEN xs[i].sign * Reach(px, xs[i].at, h) ELSE 0)
  IN sum[n]
Spread(lines, w, h, n, alpha) ==
  LET Coverage(px, py) == LET sum[s \in -1 .. 3] == IF s < 0 THEN 0 ELSE sum[s - 1] + Covered(lines[py, s], px, h, n) IN sum[3]
  IN [p \in Cell(w, h) |-> (2 * Coverage(p[1], p[2]) * alpha + 4 * Unit(h)) \div (8 * Unit(h))]
FillPolygon(verts, w, h, alpha) ==
  Spread([py \in 0 .. h - 1, s \in 0 .. 3 |-> Ranked(CrossingsAt(verts, w, h, Sampled(py, s)))], w, h, Len(verts), alpha)

\* The shades: block_glyph's flat ones, and shade_glyph's halves and triangles.
FlatShade(cp) == CASE cp = \h2588 -> 255 [] cp = \h2591 -> 64 [] cp = \h2592 -> 128 [] cp = \h2593 -> 192

HalfShade(cp, w, h) ==
  LET xc == Least(w, Most(1, (w + 1) \div 2))
      yc == Least(h, Most(1, (h + 1) \div 2))
      Left(p) == p[1] < xc
      Top(p) == p[2] < yc
      Of(p) ==
        CASE cp = \h1FB8C -> IF Left(p) THEN Medium ELSE 0
          [] cp = \h1FB8D -> IF Left(p) THEN 0 ELSE Medium
          [] cp = \h1FB8E -> IF Top(p) THEN Medium ELSE 0
          [] cp = \h1FB8F -> IF Top(p) THEN 0 ELSE Medium
          [] cp = \h1FB90 -> Medium
          [] cp = \h1FB91 -> IF Top(p) THEN Solid ELSE Medium
          [] cp = \h1FB92 -> IF Top(p) THEN Medium ELSE Solid
          [] cp = \h1FB94 -> IF Left(p) THEN Medium ELSE Solid
  IN [p \in Cell(w, h) |-> Of(p)]

-----------------------------------------------------------------------------
(* owns, block_glyph. *)

Owns(cp) == cp \in \h2500 .. \h259F \/ (cp \in \h1FB00 .. \h1FB9F /\ cp # \h1FB93)

\* The bands drawn with square roots, which this module leaves out.
Slanted(cp) == cp \in \h2571 .. \h2573 \/ cp \in \h1FB98 .. \h1FB99

BlockGlyph(cp, w, h) ==
  LET F(lit) == Flat(w, h, lit, Solid)
  IN CASE cp \in Dashes -> F(DashGlyph(cp, w, h))
       [] cp \in Doubles -> F(DoubleGlyph(cp, w, h))
       [] cp \in Rounded -> RoundedGlyph(cp, w, h)
       [] cp \in Lines -> F(LineGlyph(cp, w, h))
       [] IsWedge(cp) \/ IsTriangle(cp) -> FillPolygon(Vertices(cp), w, h, IF IsTriangle(cp) THEN Medium ELSE Solid)
       [] cp \in \h1FB70 .. \h1FB81 \/ cp \in \h1FB95 .. \h1FB97 -> F(OctantGlyph(cp, w, h))
       [] cp \in \h1FB8C .. \h1FB94 -> HalfShade(cp, w, h)
       [] cp \in \h1FB00 .. \h1FB3B -> F(SextantGlyph(cp, w, h))
       [] cp \in {\h2588, \h2591, \h2592, \h2593} -> Flat(w, h, Cell(w, h), FlatShade(cp))
       [] cp \in \h2596 .. \h259F -> F(QuadrantGlyph(cp, w, h))
       [] OTHER -> F(EighthGlyph(cp, w, h))

\* The rasteriser asks for a character the module owns, once, at the cell's size.
Draw ==
  glyph = None /\ \E cp \in (\h2500 .. \h259F) \cup (\h1FB00 .. \h1FB9F), size \in Sizes :
    /\ Owns(cp) /\ ~Slanted(cp)
    /\ glyph' = [cp |-> cp, w |-> size[1], h |-> size[2], px |-> BlockGlyph(cp, size[1], size[2])]

GlyphInit == glyph = None
GlyphNext == Draw

-----------------------------------------------------------------------------
(* What the glyphs are for: neighbouring cells meet. *)

Sides == {"left", "right", "up", "down"}

\* The arms a character's Unicode name gives it: left, right, up, down; 1 light,
\* 2 heavy, 3 double.
DoubleNames ==
  << 3300, 0033, 0301, 0103, 0303, 3001, 1003, 3003, 0310, 0130, 0330, 3010, 1030, 3030, 0311,
     0133, 0333, 3011, 1033, 3033, 3301, 1103, 3303, 3310, 1130, 3330, 3311, 1133, 3333 >>
RoundedNames == << 0101, 1001, 1010, 0110 >>

Named(cp, side) ==
  LET d == CASE cp \in Doubles -> DoubleNames[cp - \h254F]
             [] cp \in Rounded -> RoundedNames[cp - \h256C]
             [] OTHER -> BoxArms[CASE cp <= \h2503 -> cp - \h24FF
                                   [] cp <= \h254B -> cp - \h2507
                                   [] OTHER -> cp - \h252F]
  IN CASE side = "left" -> d \div 1000
       [] side = "right" -> (d \div 100) % 10
       [] side = "up" -> (d \div 10) % 10
       [] side = "down" -> d % 10

Edge(px, w, h, side) ==
  CASE side = "left" -> [i \in 0 .. h - 1 |-> px[<<0, i>>]]
    [] side = "right" -> [i \in 0 .. h - 1 |-> px[<<w - 1, i>>]]
    [] side = "up" -> [i \in 0 .. w - 1 |-> px[<<i, 0>>]]
    [] side = "down" -> [i \in 0 .. w - 1 |-> px[<<i, h - 1>>]]

\* What a neighbour's plain line of that weight shows at the shared edge.
Facing(weight, w, h, side) ==
  LET across == side \in {"left", "right"}
      line == CASE weight = 1 -> IF across THEN \h2500 ELSE \h2502
                [] weight = 2 -> IF across THEN \h2501 ELSE \h2503
                [] weight = 3 -> IF across THEN \h2550 ELSE \h2551
      opposite == CASE side = "left" -> "right" [] side = "right" -> "left"
                    [] side = "up" -> "down" [] side = "down" -> "up"
  IN Edge(BlockGlyph(line, w, h), w, h, opposite)

Blank(px, w, h, side) == \A i \in DOMAIN Edge(px, w, h, side) : Edge(px, w, h, side)[i] = 0

(* Whatever two line characters stand side by side or one above the other,   *)
(* an arm that points at the neighbour's arm of the same weight meets it      *)
(* pixel for pixel, doubles and rounded corners included, and no other ink    *)
(* touches the edge, at every parity of the cell's size: builtin.rs           *)
(* box_glyph, box_double and box_rounded place their strokes by different     *)
(* arithmetic.                                                                *)
LinesMeet ==
  glyph.cp \in Lines \cup Doubles \cup Rounded =>
    \A side \in Sides :
      IF Named(glyph.cp, side) = 0
      THEN Blank(glyph.px, glyph.w, glyph.h, side)
      ELSE Edge(glyph.px, glyph.w, glyph.h, side) = Facing(Named(glyph.cp, side), glyph.w, glyph.h, side)

\* The character that lights what this one leaves dark.
Mosaic(mask) == CHOOSE cp \in \h1FB00 .. \h1FB3B : SextantMask(cp) = mask
Complement(cp) ==
  CASE cp \in \h1FB00 .. \h1FB3B -> Mosaic(63 - SextantMask(cp))
    [] cp \in \h1FB3C .. \h1FB51 -> cp + 22
    [] cp \in \h1FB68 .. \h1FB6B -> cp + 4
    [] cp \in {\h1FB95, \h1FB9A} -> cp + 1
    [] cp \in {\h1FB9C, \h1FB9D} -> cp + 2
    [] cp \in {\h2580, \h258C} -> cp + 4
    [] cp = \h2594 -> \h2587
    [] cp \in \h2581 .. \h2583 -> <<\h1FB86, \h1FB85, \h1FB84>>[cp - \h2580]
    [] cp \in \h258D .. \h258F -> <<\h1FB89, \h1FB8A, \h1FB8B>>[cp - \h258C]
    [] cp \in \h1FB8C .. \h1FB8F -> IF cp % 2 = 0 THEN cp + 1 ELSE cp - 1
    [] cp = \h2596 -> \h259C
    [] cp = \h2597 -> \h259B
    [] cp = \h2598 -> \h259F
    [] cp = \h2599 -> \h259D
    [] cp = \h259A -> \h259E
    [] OTHER -> 0

\* Placed from one boundary: the two share no pixel either.
SharesBoundary(cp) == ~(cp \in \h2580 .. \h2595)

(* A block, a sextant, a wedge or a half shade and its complement leave no    *)
(* seam between them, at every parity of the cell's size: every pixel gets    *)
(* the whole coverage from the two, rounding aside, and the ones placed from  *)
(* one boundary cover none twice (builtin.rs block_glyph, fill_polygon,       *)
(* octant_block, shade_glyph).                                                *)
Tiles(px, other, whole) ==
  \A p \in Cell(glyph.w, glyph.h) :
    /\ px[p] + other[p] >= whole
    /\ SharesBoundary(glyph.cp) => px[p] + other[p] <= whole + 1
BlocksTile ==
  (glyph # None /\ Complement(glyph.cp) # 0) =>
    Tiles(glyph.px, BlockGlyph(Complement(glyph.cp), glyph.w, glyph.h),
          IF IsTriangle(glyph.cp) \/ glyph.cp \in \h1FB8C .. \h1FB8F THEN Medium ELSE Solid)

\* Both (builtin.rs).
GlyphsFit == glyph # None => LinesMeet /\ BlocksTile
=============================================================================
