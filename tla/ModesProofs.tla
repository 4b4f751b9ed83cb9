----------------------------- MODULE ModesProofs -----------------------------
(***************************************************************************)
(* Proofs about Modes, for any set of screen sizes, counts and coordinates,  *)
(* and sessions of any length.                                              *)
(*                                                                         *)
(* The first part of the invariant, Sound, is what CursorIsSound says of the *)
(* live screen and more: both slots fit it, and a parked cursor is in the    *)
(* last column.  The second, Kept, says where the state that ?1049h found is *)
(* until ?1049l: the slot and the keyboard of the screen that is not shown,  *)
(* and the caret put aside.  Leads carries both through the operators a      *)
(* control function is made of: it leads to a sound state, and does not       *)
(* touch what is kept.                                                      *)
(***************************************************************************)
EXTENDS Modes, Iteration, SequenceTheorems

Slots == [row : Nat, col : Nat, pen : Nat, park : BOOLEAN, origin : BOOLEAN, charset : Nat]
Keyboards == [flags : Nat, stack : Seq(Nat)]
State ==
  [rows : Nat, cols : Nat, row : Nat, col : Nat, park : BOOLEAN, pen : Nat, caret : Nat, origin : BOOLEAN,
   autowrap : BOOLEAN, reverse : BOOLEAN, newline : BOOLEAN, charset : Nat, top : Nat, bottom : Nat,
   tabs : SUBSET Nat, known : Nat, onAlt : BOOLEAN, slot : Slots, slotInactive : Slots,
   kitty : Keyboards, kittyInactive : Keyboards, caretBefore : {NoEntry} \cup {<<n>> : n \in Nat},
   vt52 : BOOLEAN, coords : Nat, coordRow : Nat]

Fits(slot, s) == slot.row < s.rows /\ slot.col < s.cols

\* Sound, but for a cursor that may be parked anywhere.
Loose(s) ==
  /\ s \in State /\ s.rows > 0 /\ s.cols > 0 /\ s.row < s.rows /\ s.col < s.cols
  /\ s.top <= s.bottom /\ s.bottom < s.rows /\ s.cols <= s.known
  /\ Fits(s.slot, s) /\ Fits(s.slotInactive, s)
Sound(s) == Loose(s) /\ (s.park => s.col = s.cols - 1)

\* What ?1049h found, and where it is.
Entries ==
  [pen : Nat, charset : Nat, origin : BOOLEAN, kitty : Keyboards, caret : Nat,
   at : SUBSET (Nat \X Nat \X BOOLEAN)]
Place(slot) == <<slot.row, slot.col, slot.park>>
Kept(s, e) ==
  /\ s.onAlt /\ s.kittyInactive = e.kitty /\ s.caretBefore = <<e.caret>>
  /\ s.slotInactive.pen = e.pen /\ s.slotInactive.charset = e.charset /\ s.slotInactive.origin = e.origin
  /\ \/ e.at = {}
     \/ e.at = {Place(s.slotInactive)} /\ (s.slotInactive.park => s.slotInactive.col = s.cols - 1)

Inv ==
  /\ Sound(t) /\ ops \in 0..MaxOps
  /\ entry = NoEntry \/ (entry \in Entries /\ Kept(t, entry))

\* The screen keeps its size, and the state kept aside is untouched.
Aside(s, z) ==
  /\ z.rows = s.rows /\ z.cols = s.cols /\ z.onAlt = s.onAlt /\ z.caretBefore = s.caretBefore
  /\ z.slotInactive = s.slotInactive /\ z.kittyInactive = s.kittyInactive
Leads(s, z) == Sound(z) /\ Aside(s, z)

-----------------------------------------------------------------------------
(* Following a state, through the operators a control function is made of.   *)

LEMMA LeadsNowhere ==
  ASSUME NEW s, Sound(s)
  PROVE  Leads(s, s)
  BY DEF Leads, Aside

LEMMA LeadsOn ==
  ASSUME NEW s, NEW y, NEW z, Aside(s, y), Leads(y, z)
  PROVE  Leads(s, z)
  BY DEF Leads, Aside

LEMMA KeptOn ==
  ASSUME NEW s, NEW z, NEW e, Aside(s, z), Kept(s, e)
  PROVE  Kept(z, e)
  BY DEF Aside, Kept

LEMMA LeastMost ==
  ASSUME NEW a \in Int, NEW b \in Int
  PROVE  /\ Least(a, b) \in {a, b} /\ Least(a, b) <= a /\ Least(a, b) <= b
         /\ Most(a, b) \in {a, b} /\ Most(a, b) >= a /\ Most(a, b) >= b
  BY DEF Least, Most

LEMMA Sizes ==
  ASSUME NEW s, Loose(s)
  PROVE  /\ s.rows \in Nat /\ s.cols \in Nat /\ s.row \in Nat /\ s.col \in Nat /\ s.top \in Nat /\ s.bottom \in Nat
         /\ s.rows > 0 /\ s.cols > 0 /\ s.row < s.rows /\ s.col < s.cols
         /\ s.top <= s.bottom /\ s.bottom < s.rows /\ s.known \in Nat /\ s.cols <= s.known
         /\ s.rows - 1 \in Nat /\ s.cols - 1 \in Nat
         /\ s.slot \in Slots /\ s.slotInactive \in Slots /\ Fits(s.slot, s) /\ Fits(s.slotInactive, s)
  BY DEF Loose, State

\* The cursor put somewhere on the screen.
LEMMA Put ==
  ASSUME NEW s, Loose(s), NEW row \in Nat, NEW col \in Nat, row < s.rows, col < s.cols
  PROVE  Leads(s, At(s, row, col))
  <1>1. At(s, row, col) \in State
    BY DEF At, Loose, State
  <1>2. QED
    BY <1>1 DEF At, Leads, Aside, Sound, Loose, Fits, State

\* A cursor that stays in its column, parked or not.
LEMMA Lowered ==
  ASSUME NEW s, Sound(s), NEW row \in Nat, row < s.rows
  PROVE  Leads(s, [s EXCEPT !.row = row])
  <1>1. [s EXCEPT !.row = row] \in State
    BY DEF Sound, Loose, State
  <1>2. QED
    BY <1>1 DEF Leads, Aside, Sound, Loose, Fits, State

LEMMA Unparked ==
  ASSUME NEW s, Loose(s)
  PROVE  Leads(s, [s EXCEPT !.park = FALSE])
  <1>1. [s EXCEPT !.park = FALSE] \in State
    BY DEF Loose, State
  <1>2. QED
    BY <1>1 DEF Leads, Aside, Sound, Loose, Fits, State

LEMMA Settled ==
  ASSUME NEW s, Loose(s)
  PROVE  Leads(s, SettleRestoredWrap(s))
  <1>1. CASE s.park /\ s.col + 1 < s.cols
    <2>1. s.row \in Nat /\ s.col + 1 \in Nat /\ s.row < s.rows
      BY Sizes
    <2>2. QED
      BY <1>1, <2>1, Put DEF SettleRestoredWrap
  <1>2. CASE ~(s.park /\ s.col + 1 < s.cols)
    <2>1. s.park => s.col = s.cols - 1
      BY <1>2, Sizes
    <2>2. QED
      BY <1>2, <2>1, LeadsNowhere DEF SettleRestoredWrap, Sound
  <1>3. QED
    BY <1>1, <1>2

-----------------------------------------------------------------------------
(* Movement.                                                                 *)

LEMMA RowsToAddress ==
  ASSUME NEW s, Loose(s)
  PROVE  /\ AddressableRows(s)[1] \in Nat /\ AddressableRows(s)[2] \in Nat
         /\ AddressableRows(s)[1] <= AddressableRows(s)[2] /\ AddressableRows(s)[2] < s.rows
  BY Sizes DEF AddressableRows

LEMMA GotoLeads ==
  ASSUME NEW s, Loose(s), NEW row \in Nat, NEW col \in Nat
  PROVE  Leads(s, GotoCell(s, row, col))
  <1>1. PICK first \in Nat, last \in Nat :
          first = AddressableRows(s)[1] /\ last = AddressableRows(s)[2] /\ first <= last /\ last < s.rows
    BY RowsToAddress
  <1>2. Least(row + first, last) \in Nat /\ Least(row + first, last) < s.rows
    BY <1>1, Sizes DEF Least
  <1>3. Least(col, LastCol(s)) \in Nat /\ Least(col, LastCol(s)) < s.cols
    BY Sizes DEF Least, LastCol
  <1>4. QED
    BY <1>1, <1>2, <1>3, Put DEF GotoCell

LEMMA MovesLead ==
  ASSUME NEW s, Loose(s), NEW n \in Nat
  PROVE  /\ Leads(s, MoveUp(s, n)) /\ Leads(s, MoveDown(s, n)) /\ Leads(s, MoveForward(s, n))
         /\ Leads(s, CarriageReturn(s)) /\ Leads(s, At(s, Least(s.row + n, AddressableRows(s)[2]), s.col))
         /\ Leads(s, At(s, s.row, Least(n, LastCol(s)))) /\ Leads(s, At(s, Least(n, s.rows - 1), s.col))
         /\ Leads(s, At(s, s.row, Most(s.col - n, 0)))
  <1>1. PICK row \in Nat : row = Most(s.row - n, IF s.row >= s.top THEN s.top ELSE 0) /\ row < s.rows
    BY Sizes DEF Most
  <1>2. PICK low \in Nat : low = Least(s.row + n, IF s.row <= s.bottom THEN s.bottom ELSE s.rows - 1) /\ low < s.rows
    BY Sizes DEF Least
  <1>3. PICK col \in Nat : col = Least(s.col + n, LastCol(s)) /\ col < s.cols
    BY Sizes DEF Least, LastCol
  <1>4. PICK rel \in Nat : rel = Least(s.row + n, AddressableRows(s)[2]) /\ rel < s.rows
    BY Sizes, RowsToAddress DEF Least
  <1>5. PICK c \in Nat : c = Least(n, LastCol(s)) /\ c < s.cols
    BY Sizes DEF Least, LastCol
  <1>6. PICK r \in Nat : r = Least(n, s.rows - 1) /\ r < s.rows
    BY Sizes DEF Least
  <1>7. PICK back \in Nat : back = Most(s.col - n, 0) /\ back < s.cols
    BY Sizes DEF Most
  <1>8. Leads(s, MoveUp(s, n)) /\ Leads(s, MoveDown(s, n))
    BY <1>1, <1>2, Put, Sizes DEF MoveUp, MoveDown
  <1>9. Leads(s, MoveForward(s, n)) /\ Leads(s, CarriageReturn(s))
    BY <1>3, Put, Sizes DEF MoveForward, CarriageReturn
  <1>10. Leads(s, At(s, rel, s.col)) /\ Leads(s, At(s, s.row, c)) /\ Leads(s, At(s, r, s.col)) /\ Leads(s, At(s, s.row, back))
    BY <1>4, <1>5, <1>6, <1>7, Put, Sizes
  <1>11. QED
    BY <1>4, <1>5, <1>6, <1>7, <1>8, <1>9, <1>10

LEMMA BackOne ==
  ASSUME NEW s, Sound(s), NEW wraps \in BOOLEAN
  PROVE  Leads(s, StepBack(s, wraps))
  <1>1. Loose(s)
    BY DEF Sound
  <1>2. Leads(s, [s EXCEPT !.park = FALSE])
    BY <1>1, Unparked
  <1>3. s.col > 0 => Leads(s, At(s, s.row, s.col - 1))
    <2> SUFFICES ASSUME s.col > 0 PROVE Leads(s, At(s, s.row, s.col - 1))
      OBVIOUS
    <2>1. s.col - 1 \in Nat /\ s.col - 1 < s.cols /\ s.row \in Nat /\ s.row < s.rows
      BY <1>1, Sizes
    <2>2. QED
      BY <1>1, <2>1, Put
  <1>4. s.row > s.top => Leads(s, At(s, s.row - 1, LastCol(s)))
    <2> SUFFICES ASSUME s.row > s.top PROVE Leads(s, At(s, s.row - 1, LastCol(s)))
      OBVIOUS
    <2>1. s.row - 1 \in Nat /\ s.row - 1 < s.rows /\ LastCol(s) \in Nat /\ LastCol(s) < s.cols
      BY <1>1, Sizes DEF LastCol
    <2>2. QED
      BY <1>1, <2>1, Put
  <1>5. Leads(s, At(s, s.row, s.col))
    BY <1>1, Put, Sizes
  <1>6. QED
    BY <1>2, <1>3, <1>4, <1>5 DEF StepBack

\* n steps back.
LEMMA BackMany ==
  ASSUME NEW s, Sound(s), NEW wraps \in BOOLEAN, NEW n \in Nat
  PROVE  Leads(s, StepsBack(s, wraps)[n])
  <1>1. PICK h : h = StepsBack(s, wraps)
    OBVIOUS
  <1>2. PICK S : S = {y \in State : Leads(s, y)}
    OBVIOUS
  <1>3. \A y \in S : StepBack(y, wraps) \in S
    <2> SUFFICES ASSUME NEW y, Leads(s, y) PROVE Leads(s, StepBack(y, wraps))
      BY <1>2 DEF Leads, Sound, Loose
    <2>1. Leads(y, StepBack(y, wraps))
      BY BackOne DEF Leads
    <2>2. QED
      BY <2>1, LeadsOn DEF Leads
  <1>4. s \in S
    BY <1>2, LeadsNowhere DEF Sound, Loose
  <1>5. PICK g \in [S -> S] : g = [y \in S |-> StepBack(y, wraps)]
    BY <1>3
  <1> DEFINE step(f) == [k \in Nat |-> IF k = 0 THEN s ELSE StepBack(f[k - 1], wraps)]
  <1>6. PICK f \in [Nat -> S] : Loops(f, g, s)
    BY <1>4, LoopExists
  <1>7. f = step(f)
    <2>1. f = [k \in Nat |-> IF k = 0 THEN s ELSE g[f[k - 1]]]
      BY <1>6 DEF Loops
    <2>2. \A k \in Nat : k # 0 => k - 1 \in Nat
      OBVIOUS
    <2>3. QED
      BY <1>5, <1>6, <2>1, <2>2
  <1>8. h = CHOOSE i : i = step(i)
    BY <1>1 DEF StepsBack
  <1>9. h = step(h)
    BY <1>7, <1>8
  <1>10. ASSUME NEW k \in Nat, h[k] \in S PROVE h[k + 1] \in S
    <2>1. PICK j \in Nat : j = k + 1 /\ j # 0 /\ j - 1 = k
      OBVIOUS
    <2>2. h[j] = StepBack(h[j - 1], wraps)
      BY <1>9, <2>1
    <2>3. QED
      BY <1>3, <1>10, <2>1, <2>2
  <1>11. h[0] \in S
    BY <1>4, <1>9
  <1>12. h[n] \in S
    BY <1>10, <1>11, Stays
  <1>13. QED
    BY <1>1, <1>2, <1>12

LEMMA BackLeads ==
  ASSUME NEW s, Sound(s), NEW n \in Nat, NEW wraps \in BOOLEAN
  PROVE  Leads(s, MoveBack(s, n, wraps))
  <1>1. PICK y : y = StepsBack(s, wraps)[n] /\ Leads(s, y)
    BY BackMany
  <1>2. Leads(s, [y EXCEPT !.park = FALSE])
    BY <1>1, Unparked, LeadsOn DEF Leads, Sound
  <1>3. Leads(s, At(s, s.row, Most(s.col - n, 0)))
    BY MovesLead DEF Sound
  <1>4. QED
    BY <1>1, <1>2, <1>3 DEF MoveBack

LEMMA LinefeedInnerLeads ==
  ASSUME NEW s, Sound(s)
  PROVE  Leads(s, LinefeedInner(s))
  <1>1. PICK u : u = IF s.newline THEN CarriageReturn(s) ELSE s
    OBVIOUS
  <1>2. Leads(s, u) /\ Sound(u)
    BY <1>1, MovesLead, LeadsNowhere DEF Sound, Leads
  <1>3. Least(u.row + 1, u.rows - 1) \in Nat /\ Least(u.row + 1, u.rows - 1) < u.rows
    BY <1>2, Sizes DEF Least, Sound
  <1>4. [u EXCEPT !.row = Least(@ + 1, u.rows - 1)] = [u EXCEPT !.row = Least(u.row + 1, u.rows - 1)]
    BY <1>2 DEF Sound, Loose, State
  <1>5. Leads(u, [u EXCEPT !.row = Least(@ + 1, u.rows - 1)])
    BY <1>2, <1>3, <1>4, Lowered
  <1>6. LinefeedInner(s) = IF u.row = u.bottom THEN u ELSE [u EXCEPT !.row = Least(@ + 1, u.rows - 1)]
    BY <1>1 DEF LinefeedInner
  <1>7. QED
    BY <1>2, <1>5, <1>6, LeadsOn DEF Leads

LEMMA LinefeedLeads ==
  ASSUME NEW s, Sound(s)
  PROVE  Leads(s, Linefeed(s)) /\ Leads(s, Linefeed(CarriageReturn(s)))
  <1>1. ASSUME NEW y, Sound(y) PROVE Leads(y, Linefeed(y))
    <2>1. PICK z : z = LinefeedInner(y) /\ Leads(y, z)
      BY <1>1, LinefeedInnerLeads
    <2>2. Leads(z, [z EXCEPT !.park = FALSE])
      BY <2>1, Unparked DEF Leads, Sound
    <2>3. QED
      BY <2>1, <2>2, LeadsOn DEF Linefeed, Leads
  <1>2. Leads(s, CarriageReturn(s))
    BY MovesLead DEF Sound
  <1>3. QED
    BY <1>1, <1>2, LeadsOn DEF Leads

LEMMA ReverseIndexLeads ==
  ASSUME NEW s, Sound(s)
  PROVE  Leads(s, ReverseIndex(s))
  <1>1. PICK y : y = [s EXCEPT !.park = FALSE] /\ Leads(s, y) /\ Sound(y)
    BY Unparked DEF Leads, Sound
  <1>2. PICK row \in Nat : row = (IF s.row # s.top /\ s.row > 0 THEN s.row - 1 ELSE s.row) /\ row < y.rows
    BY <1>1, Sizes DEF Sound, Leads, Aside
  <1>3. ReverseIndex(s) = [y EXCEPT !.row = row]
    BY <1>1, <1>2 DEF ReverseIndex, Sound, Loose, State
  <1>4. Leads(y, [y EXCEPT !.row = row])
    BY <1>1, <1>2, Lowered
  <1>5. QED
    BY <1>1, <1>3, <1>4, LeadsOn DEF Leads

LEMMA AdvancedLeads ==
  ASSUME NEW s, Sound(s), ~s.park
  PROVE  Leads(s, Advanced(s))
  <1>1. Loose(s)
    BY DEF Sound
  <1>2. CASE s.col + 1 < s.cols
    <2>1. PICK z : z = [s EXCEPT !.col = s.col + 1]
      OBVIOUS
    <2>2. s.col + 1 \in Nat
      BY <1>1, Sizes
    <2>3. z \in State /\ Leads(s, z)
      BY <1>1, <1>2, <2>1, <2>2 DEF Leads, Aside, Sound, Loose, Fits, State
    <2>4. QED
      BY <1>1, <1>2, <2>1, <2>3 DEF Advanced, Loose, State
  <1>3. CASE ~(s.col + 1 < s.cols)
    <2>1. PICK z : z = [s EXCEPT !.park = TRUE]
      OBVIOUS
    <2>2. s.col = s.cols - 1
      BY <1>1, <1>3, Sizes
    <2>3. z \in State /\ Leads(s, z)
      BY <1>1, <2>1, <2>2 DEF Leads, Aside, Sound, Loose, Fits, State
    <2>4. QED
      BY <1>3, <2>1, <2>3 DEF Advanced
  <1>4. QED
    BY <1>2, <1>3

LEMMA GlyphLeads ==
  ASSUME NEW s, Sound(s)
  PROVE  Leads(s, WriteGlyph(s))
  <1>1. PICK y : y = IF s.park /\ s.autowrap THEN CarriageReturn(LinefeedInner(s)) ELSE [s EXCEPT !.park = FALSE]
    OBVIOUS
  <1>2. Leads(s, y) /\ ~y.park
    <2>1. CASE s.park /\ s.autowrap
      <3>1. PICK z : z = LinefeedInner(s) /\ Leads(s, z) /\ z \in State
        BY LinefeedInnerLeads DEF Leads, Sound, Loose
      <3>2. Leads(z, CarriageReturn(z))
        BY <3>1, MovesLead DEF Leads, Sound
      <3>3. ~CarriageReturn(z).park
        BY <3>1 DEF CarriageReturn, At, State
      <3>4. QED
        BY <1>1, <2>1, <3>1, <3>2, <3>3, LeadsOn DEF Leads
    <2>2. CASE ~(s.park /\ s.autowrap)
      <3>1. y = [s EXCEPT !.park = FALSE] /\ s \in State
        BY <1>1, <2>2 DEF Sound, Loose
      <3>2. ~y.park
        BY <3>1 DEF State
      <3>3. QED
        BY <3>1, <3>2, Unparked DEF Sound
    <2>3. QED
      BY <2>1, <2>2
  <1>3. QED
    BY <1>1, <1>2, AdvancedLeads, LeadsOn DEF WriteGlyph, Leads

-----------------------------------------------------------------------------
(* Tab stops.                                                                *)

LEMMA TabLeads ==
  ASSUME NEW s, Sound(s)
  PROVE  Leads(s, TabStop(s))
  <1>1. PICK stops : stops = {c \in (s.col + 1)..LastCol(s) : c \in s.tabs \/ c = LastCol(s)}
    OBVIOUS
  <1>2. stops \in SUBSET Nat /\ \A c \in stops : c < s.cols
    BY <1>1, Sizes DEF LastCol, Sound
  <1>3. CASE stops = {}
    BY <1>1, <1>3, LeadsNowhere DEF TabStop
  <1>4. CASE stops # {}
    <2>1. PICK c : c = CHOOSE d \in stops : \A e \in stops : d <= e
      OBVIOUS
    <2>2. c \in stops
      BY <1>2, <1>4, <2>1, Smallest
    <2>3. Leads(s, At(s, s.row, c))
      BY <1>2, <2>2, Put, Sizes DEF Sound
    <2>4. QED
      BY <1>1, <1>4, <2>1, <2>3 DEF TabStop
  <1>5. QED
    BY <1>3, <1>4

\* n stops forward.
LEMMA TabsLead ==
  ASSUME NEW s, Sound(s), NEW n \in Nat
  PROVE  Leads(s, ForwardTabs(s, n))
  <1>1. PICK h : h = TabStops(s)
    OBVIOUS
  <1>2. PICK S : S = {y \in State : Leads(s, y)}
    OBVIOUS
  <1>3. \A y \in S : TabStop(y) \in S
    <2> SUFFICES ASSUME NEW y, Leads(s, y) PROVE Leads(s, TabStop(y))
      BY <1>2 DEF Leads, Sound, Loose
    <2>1. Leads(y, TabStop(y))
      BY TabLeads DEF Leads
    <2>2. QED
      BY <2>1, LeadsOn DEF Leads
  <1>4. s \in S
    BY <1>2, LeadsNowhere DEF Sound, Loose
  <1>5. PICK g \in [S -> S] : g = [y \in S |-> TabStop(y)]
    BY <1>3
  <1> DEFINE step(f) == [k \in Nat |-> IF k = 0 THEN s ELSE TabStop(f[k - 1])]
  <1>6. PICK f \in [Nat -> S] : Loops(f, g, s)
    BY <1>4, LoopExists
  <1>7. f = step(f)
    <2>1. f = [k \in Nat |-> IF k = 0 THEN s ELSE g[f[k - 1]]]
      BY <1>6 DEF Loops
    <2>2. \A k \in Nat : k # 0 => k - 1 \in Nat
      OBVIOUS
    <2>3. QED
      BY <1>5, <1>6, <2>1, <2>2
  <1>8. h = CHOOSE i : i = step(i)
    BY <1>1 DEF TabStops
  <1>9. h = step(h)
    BY <1>7, <1>8
  <1>10. ASSUME NEW k \in Nat, h[k] \in S PROVE h[k + 1] \in S
    <2>1. PICK j \in Nat : j = k + 1 /\ j # 0 /\ j - 1 = k
      OBVIOUS
    <2>2. h[j] = TabStop(h[j - 1])
      BY <1>9, <2>1
    <2>3. QED
      BY <1>3, <1>10, <2>1, <2>2
  <1>11. h[0] \in S
    BY <1>4, <1>9
  <1>12. h[n] \in S
    BY <1>10, <1>11, Stays
  <1>13. QED
    BY <1>1, <1>2, <1>12 DEF ForwardTabs

\* The stop before a column is the greatest one: it is there, and no further right.
LEMMA StopIsBefore ==
  ASSUME NEW s, NEW c \in Nat
  PROVE  StopBefore(s, c) \in 0..c
  <1>1. PICK stops : stops = {d \in Nat : d < c /\ d \in s.tabs}
    OBVIOUS
  <1>2. \E d \in 0..c : (d = 0 \/ (d < c /\ d \in s.tabs)) /\ \A e \in (d + 1)..(c - 1) : e \notin s.tabs
    <2>1. CASE stops = {}
      <3>1. \A e \in (0 + 1)..(c - 1) : e \notin s.tabs
        BY <1>1, <2>1
      <3>2. QED
        BY <3>1
    <2>2. CASE stops # {}
      <3>1. PICK gaps \in SUBSET Nat : gaps = {k \in Nat : k <= c /\ c - k \in stops}
        OBVIOUS
      <3>2. gaps # {}
        <4>1. PICK d \in Nat : d < c /\ d \in stops
          BY <1>1, <2>2
        <4>2. c - d \in Nat /\ c - d <= c /\ c - (c - d) = d
          BY <4>1
        <4>3. QED
          BY <3>1, <4>1, <4>2
      <3>3. PICK k \in gaps : \A j \in gaps : k <= j
        BY <3>2, Smallest
      <3>4. PICK d \in Nat : d = c - k /\ d < c /\ d \in s.tabs
        BY <1>1, <3>1, <3>3
      <3>5. ASSUME NEW e \in (d + 1)..(c - 1), e \in s.tabs PROVE FALSE
        <4>1. e \in Nat /\ e < c /\ e \in stops
          BY <1>1, <3>4, <3>5
        <4>2. c - e \in Nat /\ c - e <= c /\ c - (c - e) = e /\ c - e < k
          BY <3>1, <3>4, <3>5, <4>1
        <4>3. c - e \in gaps
          BY <3>1, <4>1, <4>2
        <4>4. QED
          BY <3>1, <3>3, <4>2, <4>3
      <3>6. d \in 0..c
        BY <3>4
      <3>7. QED
        BY <3>4, <3>5, <3>6
    <2>3. QED
      BY <2>1, <2>2
  <1>3. QED
    BY <1>2 DEF StopBefore

\* n stops back.
LEMMA StopsGoBack ==
  ASSUME NEW s, NEW n \in Nat, s.col \in Nat
  PROVE  StopsBefore(s)[n] \in 0..s.col
  <1>1. PICK h : h = StopsBefore(s)
    OBVIOUS
  <1>2. PICK S : S = 0..s.col
    OBVIOUS
  <1>3. \A c \in S : StopBefore(s, c) \in S
    <2>1. \A c \in S : c \in Nat
      BY <1>2
    <2>2. \A c \in S : StopBefore(s, c) \in 0..c
      BY <2>1, StopIsBefore
    <2>3. QED
      BY <1>2, <2>1, <2>2
  <1>4. s.col \in S
    BY <1>2
  <1>5. PICK g \in [S -> S] : g = [c \in S |-> StopBefore(s, c)]
    BY <1>3
  <1> DEFINE step(f) == [k \in Nat |-> IF k = 0 THEN s.col ELSE StopBefore(s, f[k - 1])]
  <1>6. PICK f \in [Nat -> S] : Loops(f, g, s.col)
    BY <1>4, LoopExists
  <1>7. f = step(f)
    <2>1. f = [k \in Nat |-> IF k = 0 THEN s.col ELSE g[f[k - 1]]]
      BY <1>6 DEF Loops
    <2>2. \A k \in Nat : k # 0 => k - 1 \in Nat
      OBVIOUS
    <2>3. QED
      BY <1>5, <1>6, <2>1, <2>2
  <1>8. h = CHOOSE i : i = step(i)
    BY <1>1 DEF StopsBefore
  <1>9. h = step(h)
    BY <1>7, <1>8
  <1>10. ASSUME NEW k \in Nat, h[k] \in S PROVE h[k + 1] \in S
    <2>1. PICK j \in Nat : j = k + 1 /\ j # 0 /\ j - 1 = k
      OBVIOUS
    <2>2. h[j] = StopBefore(s, h[j - 1])
      BY <1>9, <2>1
    <2>3. QED
      BY <1>3, <1>10, <2>1, <2>2
  <1>11. h[0] \in S
    BY <1>4, <1>9
  <1>12. h[n] \in S
    BY <1>10, <1>11, Stays
  <1>13. QED
    BY <1>1, <1>2, <1>12

LEMMA BackTabLeads ==
  ASSUME NEW s, Sound(s), NEW n \in Nat
  PROVE  Leads(s, BackTab(s, n))
  <1>1. s.col \in Nat /\ s.cols \in Nat /\ s.col < s.cols /\ s.row \in Nat /\ s.row < s.rows
    BY Sizes DEF Sound
  <1>2. PICK c \in Nat : c = StopsBefore(s)[n] /\ c < s.cols
    <2>1. StopsBefore(s)[n] \in 0..s.col
      BY <1>1, StopsGoBack
    <2>2. QED
      BY <1>1, <2>1
  <1>3. Leads(s, At(s, s.row, c))
    BY <1>1, <1>2, Put DEF Sound
  <1>4. QED
    BY <1>2, <1>3 DEF BackTab

-----------------------------------------------------------------------------
(* Saving and restoring; the two screens.                                    *)

LEMMA SaveLeads ==
  ASSUME NEW s, Sound(s)
  PROVE  Leads(s, SaveCursor(s))
  <1>1. PICK slot : slot = [row |-> s.row, col |-> s.col, pen |-> s.pen, park |-> s.park,
                            origin |-> s.origin, charset |-> s.charset]
    OBVIOUS
  <1>2. slot \in Slots /\ Fits(slot, s)
    BY <1>1 DEF Slots, Fits, Sound, Loose, State
  <1>3. [s EXCEPT !.slot = slot] \in State
    BY <1>2 DEF Sound, Loose, State
  <1>4. Leads(s, [s EXCEPT !.slot = slot])
    BY <1>2, <1>3 DEF Leads, Aside, Sound, Loose, Fits, State
  <1>5. QED
    BY <1>1, <1>4 DEF SaveCursor

\* The slot put in place, before the parking is settled.
Recalled(s) ==
  [s EXCEPT !.row = Least(s.slot.row, s.rows - 1), !.col = Least(s.slot.col, LastCol(s)),
            !.pen = s.slot.pen, !.park = s.slot.park, !.origin = s.slot.origin, !.charset = s.slot.charset]

LEMMA RecalledIs ==
  ASSUME NEW s, Loose(s)
  PROVE  /\ Loose(Recalled(s)) /\ Aside(s, Recalled(s))
         /\ Recalled(s).row = s.slot.row /\ Recalled(s).col = s.slot.col /\ Recalled(s).park = s.slot.park
         /\ Recalled(s).pen = s.slot.pen /\ Recalled(s).origin = s.slot.origin /\ Recalled(s).charset = s.slot.charset
         /\ Recalled(s).kitty = s.kitty
  <1>1. /\ s.slot.row \in Nat /\ s.slot.col \in Nat /\ s.slot.pen \in Nat /\ s.slot.park \in BOOLEAN
        /\ s.slot.origin \in BOOLEAN /\ s.slot.charset \in Nat
    BY Sizes DEF Slots
  <1>2. Least(s.slot.row, s.rows - 1) = s.slot.row /\ Least(s.slot.col, LastCol(s)) = s.slot.col
    BY <1>1, Sizes DEF Least, LastCol, Fits
  <1>3. PICK z : z = [s EXCEPT !.row = s.slot.row, !.col = s.slot.col, !.pen = s.slot.pen, !.park = s.slot.park,
                               !.origin = s.slot.origin, !.charset = s.slot.charset]
    OBVIOUS
  <1>4. z = Recalled(s)
    BY <1>2, <1>3 DEF Recalled
  <1>5. z \in State
    BY <1>1, <1>3 DEF Loose, State
  <1>6. /\ z.row = s.slot.row /\ z.col = s.slot.col /\ z.park = s.slot.park
        /\ z.pen = s.slot.pen /\ z.origin = s.slot.origin /\ z.charset = s.slot.charset /\ z.kitty = s.kitty
    BY <1>3 DEF Loose, State
  <1>7. /\ z.rows = s.rows /\ z.cols = s.cols /\ z.onAlt = s.onAlt /\ z.caretBefore = s.caretBefore
        /\ z.slot = s.slot /\ z.slotInactive = s.slotInactive /\ z.kittyInactive = s.kittyInactive
        /\ z.top = s.top /\ z.bottom = s.bottom /\ z.known = s.known
    BY <1>3 DEF Loose, State
  <1>8. Loose(z) /\ Aside(s, z)
    BY <1>5, <1>6, <1>7 DEF Loose, Aside, Fits
  <1>9. QED
    BY <1>4, <1>6, <1>8

LEMMA RestoreLeads ==
  ASSUME NEW s, Loose(s)
  PROVE  Leads(s, RestoreCursor(s))
  <1>1. PICK y : y = Recalled(s) /\ Loose(y) /\ Aside(s, y)
    BY RecalledIs
  <1>2. Leads(y, SettleRestoredWrap(y))
    BY <1>1, Settled
  <1>3. QED
    BY <1>1, <1>2, LeadsOn DEF RestoreCursor, Recalled

LEMMA SwapIs ==
  ASSUME NEW s, Sound(s)
  PROVE  /\ Sound(SwapScreens(s))
         /\ SwapScreens(s).slot = s.slotInactive /\ SwapScreens(s).slotInactive = s.slot
         /\ SwapScreens(s).kitty = s.kittyInactive /\ SwapScreens(s).kittyInactive = s.kitty
         /\ SwapScreens(s).onAlt = ~s.onAlt /\ SwapScreens(s).caretBefore = s.caretBefore
         /\ SwapScreens(s).rows = s.rows /\ SwapScreens(s).cols = s.cols /\ SwapScreens(s).caret = s.caret
  <1>1. s \in State
    BY DEF Sound, Loose
  <1>2. PICK z : z = SwapScreens(s)
    OBVIOUS
  <1>3. z \in State
    BY <1>1, <1>2 DEF SwapScreens, State
  <1>4. /\ z.slot = s.slotInactive /\ z.slotInactive = s.slot /\ z.kitty = s.kittyInactive /\ z.kittyInactive = s.kitty
        /\ z.onAlt = ~s.onAlt /\ z.caretBefore = s.caretBefore
        /\ z.rows = s.rows /\ z.cols = s.cols /\ z.caret = s.caret
    BY <1>1, <1>2 DEF SwapScreens, State
  <1>5. /\ z.row = s.row /\ z.col = s.col /\ z.park = s.park /\ z.top = s.top /\ z.bottom = s.bottom /\ z.known = s.known
    BY <1>1, <1>2 DEF SwapScreens, State
  <1>6. Sound(z)
    BY <1>3, <1>4, <1>5 DEF Sound, Loose, Fits
  <1>7. QED
    BY <1>2, <1>4, <1>6

\* Going to the other screen.
LEMMA ToAlt ==
  ASSUME NEW s, Sound(s)
  PROVE  Sound(SwitchToAlt(s)) /\ (s.onAlt => Leads(s, SwitchToAlt(s)))
  BY SwapIs, LeadsNowhere DEF SwitchToAlt

LEMMA PutAside ==
  ASSUME NEW s, Sound(s), NEW caret \in {NoEntry} \cup {<<n>> : n \in Nat}
  PROVE  /\ Sound([s EXCEPT !.caretBefore = caret])
         /\ [s EXCEPT !.caretBefore = caret].caretBefore = caret
         /\ [s EXCEPT !.caretBefore = caret].onAlt = s.onAlt
         /\ [s EXCEPT !.caretBefore = caret].slot = s.slot
         /\ [s EXCEPT !.caretBefore = caret].slotInactive = s.slotInactive
         /\ [s EXCEPT !.caretBefore = caret].kitty = s.kitty
         /\ [s EXCEPT !.caretBefore = caret].kittyInactive = s.kittyInactive
         /\ [s EXCEPT !.caretBefore = caret].rows = s.rows /\ [s EXCEPT !.caretBefore = caret].cols = s.cols
  <1>1. s \in State
    BY DEF Sound, Loose
  <1>2. PICK z : z = [s EXCEPT !.caretBefore = caret]
    OBVIOUS
  <1>3. z \in State
    BY <1>1, <1>2 DEF State
  <1>4. /\ z.caretBefore = caret /\ z.onAlt = s.onAlt /\ z.slot = s.slot /\ z.slotInactive = s.slotInactive
        /\ z.kitty = s.kitty /\ z.kittyInactive = s.kittyInactive /\ z.rows = s.rows /\ z.cols = s.cols
    BY <1>1, <1>2 DEF State
  <1>5. /\ z.row = s.row /\ z.col = s.col /\ z.park = s.park /\ z.top = s.top /\ z.bottom = s.bottom /\ z.known = s.known
    BY <1>1, <1>2 DEF State
  <1>6. Sound(z)
    BY <1>3, <1>4, <1>5 DEF Sound, Loose, Fits
  <1>7. QED
    BY <1>2, <1>4, <1>6

LEMMA ToPrimary ==
  ASSUME NEW s, Sound(s)
  PROVE  /\ Sound(SwitchToPrimary(s)) /\ ~SwitchToPrimary(s).onAlt
         /\ s.onAlt => /\ SwitchToPrimary(s).slot = s.slotInactive /\ SwitchToPrimary(s).kitty = s.kittyInactive
                       /\ SwitchToPrimary(s).rows = s.rows /\ SwitchToPrimary(s).cols = s.cols
  <1>1. s.onAlt \in BOOLEAN
    BY DEF Sound, Loose, State
  <1>2. CASE s.onAlt
    <2>1. PICK y : y = SwapScreens(s)
      OBVIOUS
    <2>2. /\ Sound(y) /\ ~y.onAlt /\ y.slot = s.slotInactive /\ y.kitty = s.kittyInactive
          /\ y.rows = s.rows /\ y.cols = s.cols
      BY <1>2, <2>1, SwapIs
    <2>3. SwitchToPrimary(s) = [y EXCEPT !.caretBefore = NoEntry]
      BY <1>2, <2>1 DEF SwitchToPrimary
    <2>4. QED
      BY <2>2, <2>3, PutAside
  <1>3. CASE ~s.onAlt
    BY <1>3 DEF SwitchToPrimary
  <1>4. QED
    BY <1>1, <1>2, <1>3

\* ?1049h keeps what it finds.
LEMMA EnterKeeps ==
  ASSUME NEW s, Sound(s), ~s.onAlt
  PROVE  /\ Sound(EnterAltScreen(s))
         /\ Kept(EnterAltScreen(s), [pen |-> s.pen, charset |-> s.charset, origin |-> s.origin, kitty |-> s.kitty,
                                     caret |-> s.caret, at |-> {<<s.row, s.col, s.park>>}])
  <1>1. s \in State
    BY DEF Sound, Loose
  <1>2. PICK slot : slot = [row |-> s.row, col |-> s.col, pen |-> s.pen, park |-> s.park,
                            origin |-> s.origin, charset |-> s.charset]
    OBVIOUS
  <1>3. PICK w : w = SaveCursor(s) /\ Sound(w) /\ Aside(s, w)
    BY SaveLeads DEF Leads
  <1>4. w.slot = slot /\ w.kitty = s.kitty /\ w.caret = s.caret /\ w.onAlt = s.onAlt /\ w.cols = s.cols
    BY <1>1, <1>2, <1>3 DEF SaveCursor, State
  <1>5. <<s.caret>> \in {NoEntry} \cup {<<n>> : n \in Nat}
    BY <1>1 DEF State
  <1>6. PICK y : /\ y = [w EXCEPT !.caretBefore = <<s.caret>>] /\ Sound(y) /\ ~y.onAlt /\ y.cols = s.cols
                 /\ y.slot = slot /\ y.kitty = s.kitty /\ y.caretBefore = <<s.caret>>
    <2>1. PICK before \in {NoEntry} \cup {<<n>> : n \in Nat} : before = <<s.caret>>
      BY <1>5
    <2>2. PICK y : y = [w EXCEPT !.caretBefore = before]
      OBVIOUS
    <2>3. /\ Sound(y) /\ y.onAlt = w.onAlt /\ y.cols = w.cols
          /\ y.slot = w.slot /\ y.kitty = w.kitty /\ y.caretBefore = before
      BY <1>3, <2>2, PutAside
    <2>4. QED
      BY <1>4, <2>1, <2>2, <2>3
  <1>7. PICK z : z = SwapScreens(y)
    OBVIOUS
  <1>8. EnterAltScreen(s) = z
    BY <1>3, <1>6, <1>7 DEF EnterAltScreen, SwitchToAlt
  <1>9. /\ Sound(z) /\ z.onAlt /\ z.slotInactive = slot /\ z.kittyInactive = s.kitty
        /\ z.caretBefore = <<s.caret>> /\ z.cols = s.cols
    BY <1>6, <1>7, SwapIs
  <1>10. PICK e : e = [pen |-> s.pen, charset |-> s.charset, origin |-> s.origin, kitty |-> s.kitty,
                       caret |-> s.caret, at |-> {<<s.row, s.col, s.park>>}]
    OBVIOUS
  <1>11. /\ e.pen = s.pen /\ e.charset = s.charset /\ e.origin = s.origin /\ e.kitty = s.kitty /\ e.caret = s.caret
         /\ e.at = {<<s.row, s.col, s.park>>}
    BY <1>10
  <1>12. /\ slot.row = s.row /\ slot.col = s.col /\ slot.park = s.park /\ slot.pen = s.pen
         /\ slot.origin = s.origin /\ slot.charset = s.charset
    BY <1>2
  <1>13. e.at = {Place(slot)} /\ (slot.park => slot.col = s.cols - 1)
    BY <1>11, <1>12 DEF Place, Sound
  <1>14. Kept(z, e)
    BY <1>9, <1>11, <1>12, <1>13 DEF Kept
  <1>15. QED
    BY <1>8, <1>9, <1>10, <1>14

\* ?1049l.
LEMMA LeaveIsSound ==
  ASSUME NEW s, Sound(s)
  PROVE  Sound(LeaveAltScreen(s))
  <1>1. PICK y : y = [s EXCEPT !.caretBefore = NoEntry] /\ Sound(y)
    BY PutAside
  <1>2. PICK p : p = SwitchToPrimary(y) /\ Sound(p)
    BY <1>1, ToPrimary
  <1>3. PICK back : back = RestoreCursor(p) /\ Sound(back)
    BY <1>2, RestoreLeads DEF Sound, Leads
  <1>4. LeaveAltScreen(s) = IF s.caretBefore = NoEntry THEN back ELSE [back EXCEPT !.caret = s.caretBefore[1]]
    BY <1>1, <1>2, <1>3 DEF LeaveAltScreen
  <1>5. CASE s.caretBefore # NoEntry
    <2>1. PICK n \in Nat : s.caretBefore = <<n>>
      BY <1>5 DEF Sound, Loose, State
    <2>2. s.caretBefore[1] = n
      BY <2>1
    <2>3. PICK z : z = [back EXCEPT !.caret = n]
      OBVIOUS
    <2>4. z \in State
      BY <1>3, <2>3 DEF Sound, Loose, State
    <2>5. Sound(z)
      BY <1>3, <2>3, <2>4 DEF Sound, Loose, Fits, State
    <2>6. QED
      BY <1>4, <1>5, <2>2, <2>3, <2>5
  <1>6. QED
    BY <1>3, <1>4, <1>5

\* ?1049l gives back what is kept.
GivesBack(z, e) ==
  /\ ~z.onAlt /\ z.pen = e.pen /\ z.charset = e.charset /\ z.origin = e.origin
  /\ z.kitty = e.kitty /\ z.caret = e.caret
  /\ e.at = {} \/ <<z.row, z.col, z.park>> \in e.at

\* Settling moves the cursor one column right, or nothing.
LEMMA SettleKeeps ==
  ASSUME NEW s, Loose(s)
  PROVE  /\ SettleRestoredWrap(s).pen = s.pen /\ SettleRestoredWrap(s).charset = s.charset
         /\ SettleRestoredWrap(s).origin = s.origin /\ SettleRestoredWrap(s).kitty = s.kitty
         /\ SettleRestoredWrap(s).onAlt = s.onAlt
         /\ (s.park => s.col = s.cols - 1) => SettleRestoredWrap(s) = s
  <1>1. s \in State
    BY DEF Loose
  <1>2. (s.park => s.col = s.cols - 1) => SettleRestoredWrap(s) = s
    BY Sizes DEF SettleRestoredWrap
  <1>3. CASE s.park /\ s.col + 1 < s.cols
    <2>1. PICK col : col = s.col + 1
      OBVIOUS
    <2>2. PICK z : z = [s EXCEPT !.row = s.row, !.col = col, !.park = FALSE]
      OBVIOUS
    <2>3. z.pen = s.pen /\ z.charset = s.charset /\ z.origin = s.origin /\ z.kitty = s.kitty /\ z.onAlt = s.onAlt
      BY <1>1, <2>2 DEF State
    <2>4. z = SettleRestoredWrap(s)
      BY <1>3, <2>1, <2>2 DEF SettleRestoredWrap, At
    <2>5. QED
      BY <1>2, <2>3, <2>4
  <1>4. CASE ~(s.park /\ s.col + 1 < s.cols)
    BY <1>2, <1>4 DEF SettleRestoredWrap
  <1>5. QED
    BY <1>3, <1>4

LEMMA LeaveGivesBack ==
  ASSUME NEW s, Sound(s), NEW e, Kept(s, e)
  PROVE  GivesBack(LeaveAltScreen(s), e)
  <1>1. PICK y : /\ y = [s EXCEPT !.caretBefore = NoEntry] /\ Sound(y) /\ y.onAlt /\ y.cols = s.cols
                 /\ y.slotInactive = s.slotInactive /\ y.kittyInactive = s.kittyInactive
    <2>1. PICK before \in {NoEntry} \cup {<<n>> : n \in Nat} : before = NoEntry
      OBVIOUS
    <2>2. PICK y : y = [s EXCEPT !.caretBefore = before]
      OBVIOUS
    <2>3. /\ Sound(y) /\ y.onAlt = s.onAlt /\ y.cols = s.cols
          /\ y.slotInactive = s.slotInactive /\ y.kittyInactive = s.kittyInactive
      BY <2>2, PutAside
    <2>4. s.onAlt
      BY DEF Kept
    <2>5. QED
      BY <2>1, <2>2, <2>3, <2>4
  <1>2. PICK p : /\ p = SwitchToPrimary(y) /\ Loose(p) /\ ~p.onAlt /\ p.cols = s.cols
                 /\ p.slot = s.slotInactive /\ p.kitty = s.kittyInactive
    BY <1>1, ToPrimary DEF Sound
  <1>3. PICK r : /\ r = Recalled(p) /\ Loose(r) /\ Aside(p, r) /\ r.row = p.slot.row /\ r.col = p.slot.col
                 /\ r.park = p.slot.park /\ r.pen = p.slot.pen /\ r.origin = p.slot.origin
                 /\ r.charset = p.slot.charset /\ r.kitty = p.kitty
    BY <1>2, RecalledIs
  <1>4. ~r.onAlt /\ r.cols = s.cols
    BY <1>2, <1>3 DEF Aside
  <1>5. PICK back : back = SettleRestoredWrap(r)
    OBVIOUS
  <1>6. back = RestoreCursor(p)
    BY <1>3, <1>5 DEF RestoreCursor, Recalled
  <1>7. back \in State
    BY <1>3, <1>5, Settled DEF Leads, Sound, Loose
  <1>8. PICK n : s.caretBefore = <<n>> /\ n = e.caret
    BY DEF Kept
  <1>9. s.caretBefore # NoEntry /\ s.caretBefore[1] = e.caret
    BY <1>8 DEF NoEntry
  <1>10. PICK z : z = [back EXCEPT !.caret = e.caret]
    OBVIOUS
  <1>11. LeaveAltScreen(s) = z
    BY <1>1, <1>2, <1>6, <1>9, <1>10 DEF LeaveAltScreen
  <1>12. /\ z.caret = e.caret /\ z.onAlt = back.onAlt /\ z.pen = back.pen /\ z.charset = back.charset
         /\ z.origin = back.origin /\ z.kitty = back.kitty
         /\ z.row = back.row /\ z.col = back.col /\ z.park = back.park
    BY <1>7, <1>10 DEF State
  <1>13. /\ back.pen = r.pen /\ back.charset = r.charset /\ back.origin = r.origin /\ back.kitty = r.kitty
         /\ back.onAlt = r.onAlt
    BY <1>3, <1>5, SettleKeeps
  <1>14. /\ r.pen = e.pen /\ r.charset = e.charset /\ r.origin = e.origin /\ r.kitty = e.kitty
    BY <1>2, <1>3 DEF Kept
  <1>15. ASSUME e.at # {} PROVE <<z.row, z.col, z.park>> \in e.at
    <2>1. e.at = {Place(s.slotInactive)} /\ (s.slotInactive.park => s.slotInactive.col = s.cols - 1)
      BY <1>15 DEF Kept
    <2>2. r.park => r.col = r.cols - 1
      BY <1>2, <1>3, <1>4, <2>1
    <2>3. back = r
      BY <1>3, <1>5, <2>2, SettleKeeps
    <2>4. z.row = s.slotInactive.row /\ z.col = s.slotInactive.col /\ z.park = s.slotInactive.park
      BY <1>2, <1>3, <1>12, <2>3
    <2>5. QED
      BY <2>1, <2>4 DEF Place
  <1>16. QED
    BY <1>4, <1>11, <1>12, <1>13, <1>14, <1>15 DEF GivesBack

-----------------------------------------------------------------------------
(* Margins, resets and what leaves the cursor where it is.                   *)

LEMMA PlainLeads ==
  ASSUME NEW s, Sound(s), NEW z \in State,
         z.rows = s.rows, z.cols = s.cols, z.row = s.row, z.col = s.col, z.park = s.park,
         z.top = s.top, z.bottom = s.bottom, z.known = s.known, z.onAlt = s.onAlt, z.caretBefore = s.caretBefore,
         z.slot = s.slot, z.slotInactive = s.slotInactive, z.kittyInactive = s.kittyInactive
  PROVE  Leads(s, z)
  BY DEF Leads, Aside, Sound, Loose, Fits

LEMMA LooksLead ==
  ASSUME NEW s, Sound(s), NEW n \in Nat
  PROVE  /\ Leads(s, [s EXCEPT !.pen = n]) /\ Leads(s, [s EXCEPT !.caret = n]) /\ Leads(s, [s EXCEPT !.charset = n])
         /\ Leads(s, [s EXCEPT !.coords = n])
  <1>1. s \in State
    BY DEF Sound, Loose
  <1>2. Leads(s, [s EXCEPT !.pen = n])
    BY <1>1, PlainLeads DEF State
  <1>3. Leads(s, [s EXCEPT !.caret = n])
    BY <1>1, PlainLeads DEF State
  <1>4. Leads(s, [s EXCEPT !.charset = n])
    BY <1>1, PlainLeads DEF State
  <1>5. Leads(s, [s EXCEPT !.coords = n])
    BY <1>1, PlainLeads DEF State
  <1>6. QED
    BY <1>2, <1>3, <1>4, <1>5

LEMMA FlagsLead ==
  ASSUME NEW s, Sound(s), NEW on \in BOOLEAN
  PROVE  /\ Leads(s, [s EXCEPT !.origin = on]) /\ Leads(s, [s EXCEPT !.autowrap = on]) /\ Leads(s, [s EXCEPT !.reverse = on])
         /\ Leads(s, [s EXCEPT !.newline = on]) /\ Leads(s, [s EXCEPT !.vt52 = on])
  <1>1. s \in State
    BY DEF Sound, Loose
  <1>2. Leads(s, [s EXCEPT !.origin = on])
    BY <1>1, PlainLeads DEF State
  <1>3. Leads(s, [s EXCEPT !.autowrap = on])
    BY <1>1, PlainLeads DEF State
  <1>4. Leads(s, [s EXCEPT !.reverse = on])
    BY <1>1, PlainLeads DEF State
  <1>5. Leads(s, [s EXCEPT !.newline = on])
    BY <1>1, PlainLeads DEF State
  <1>6. Leads(s, [s EXCEPT !.vt52 = on])
    BY <1>1, PlainLeads DEF State
  <1>7. QED
    BY <1>2, <1>3, <1>4, <1>5, <1>6

LEMMA CoordsLead ==
  ASSUME NEW s, Sound(s), NEW row \in Nat
  PROVE  Leads(s, [s EXCEPT !.coords = 1, !.coordRow = row])
  <1>1. PICK z : z = [s EXCEPT !.coords = 1, !.coordRow = row]
    OBVIOUS
  <1>2. z \in State
    BY <1>1 DEF Sound, Loose, State
  <1>3. /\ z.rows = s.rows /\ z.cols = s.cols /\ z.row = s.row /\ z.col = s.col /\ z.park = s.park
        /\ z.top = s.top /\ z.bottom = s.bottom /\ z.known = s.known /\ z.onAlt = s.onAlt /\ z.caretBefore = s.caretBefore
        /\ z.slot = s.slot /\ z.slotInactive = s.slotInactive /\ z.kittyInactive = s.kittyInactive
    BY <1>1 DEF Sound, Loose, State
  <1>4. QED
    BY <1>1, <1>2, <1>3, PlainLeads

LEMMA StopsLead ==
  ASSUME NEW s, Sound(s), NEW tabs \in SUBSET Nat
  PROVE  Leads(s, [s EXCEPT !.tabs = tabs])
  <1>1. PICK z : z = [s EXCEPT !.tabs = tabs]
    OBVIOUS
  <1>2. z \in State
    BY <1>1 DEF Sound, Loose, State
  <1>3. /\ z.rows = s.rows /\ z.cols = s.cols /\ z.row = s.row /\ z.col = s.col /\ z.park = s.park
        /\ z.top = s.top /\ z.bottom = s.bottom /\ z.known = s.known /\ z.onAlt = s.onAlt /\ z.caretBefore = s.caretBefore
        /\ z.slot = s.slot /\ z.slotInactive = s.slotInactive /\ z.kittyInactive = s.kittyInactive
    BY <1>1 DEF Sound, Loose, State
  <1>4. QED
    BY <1>1, <1>2, <1>3, PlainLeads

\* The second coordinate of a VT52 address.
LEMMA TakenLeads ==
  ASSUME NEW s, Sound(s), NEW col \in Nat
  PROVE  Leads(s, GotoCell([s EXCEPT !.coords = 0], s.coordRow, col))
  <1>1. PICK y : y = [s EXCEPT !.coords = 0] /\ Leads(s, y)
    BY LooksLead
  <1>2. s.coordRow \in Nat
    BY DEF Sound, Loose, State
  <1>3. Leads(y, GotoCell(y, s.coordRow, col))
    BY <1>1, <1>2, GotoLeads DEF Leads, Sound
  <1>4. QED
    BY <1>1, <1>3, LeadsOn DEF Leads

LEMMA OriginLeads ==
  ASSUME NEW s, Sound(s)
  PROVE  Leads(s, GotoCell([s EXCEPT !.origin = TRUE], 0, 0))
  <1>1. PICK y : y = [s EXCEPT !.origin = TRUE] /\ Leads(s, y)
    BY FlagsLead
  <1>2. Leads(y, GotoCell(y, 0, 0))
    BY <1>1, GotoLeads DEF Leads, Sound
  <1>3. QED
    BY <1>1, <1>2, LeadsOn DEF Leads

LEMMA MarginsLead ==
  ASSUME NEW s, Sound(s), NEW top \in Nat, NEW bottom \in Nat, top > 0
  PROVE  Leads(s, SetScrollRegion(s, top, bottom))
  <1>1. CASE top >= Least(bottom, s.rows)
    BY <1>1, LeadsNowhere DEF SetScrollRegion
  <1>2. CASE ~(top >= Least(bottom, s.rows))
    <2>1. PICK low : low = Least(bottom, s.rows)
      OBVIOUS
    <2>2. s.rows \in Nat /\ low \in Nat /\ low <= s.rows
      BY <2>1, Sizes DEF Least, Sound
    <2>3. PICK first \in Nat, last \in Nat : first = top - 1 /\ last = low - 1 /\ first <= last /\ last < s.rows
      BY <1>2, <2>1, <2>2
    <2>4. PICK y : y = [s EXCEPT !.top = first, !.bottom = last]
      OBVIOUS
    <2>5. y \in State
      BY <2>3, <2>4 DEF Sound, Loose, State
    <2>6. /\ y.rows = s.rows /\ y.cols = s.cols /\ y.row = s.row /\ y.col = s.col /\ y.park = s.park
          /\ y.top = first /\ y.bottom = last /\ y.known = s.known /\ y.onAlt = s.onAlt /\ y.caretBefore = s.caretBefore
          /\ y.slot = s.slot /\ y.slotInactive = s.slotInactive /\ y.kittyInactive = s.kittyInactive
      BY <2>4 DEF Sound, Loose, State
    <2>7. Loose(y) /\ Aside(s, y)
      BY <2>3, <2>5, <2>6 DEF Sound, Loose, Aside, Fits
    <2>8. Leads(y, GotoCell(y, 0, 0))
      BY <2>7, GotoLeads
    <2>9. SetScrollRegion(s, top, bottom) = GotoCell(y, 0, 0)
      BY <1>2, <2>1, <2>3, <2>4 DEF SetScrollRegion
    <2>10. QED
      BY <2>7, <2>8, <2>9, LeadsOn
  <1>3. QED
    BY <1>1, <1>2

LEMMA DefaultSlot ==
  ASSUME NEW s, s.rows > 0, s.cols > 0
  PROVE  SavedDefault \in Slots /\ Fits(SavedDefault, s)
  BY DEF SavedDefault, Slots, Fits

LEMMA SoftResetLeads ==
  ASSUME NEW s, Sound(s)
  PROVE  Leads(s, SoftReset(s))
  <1>1. s \in State /\ s.rows \in Nat /\ s.rows > 0 /\ s.rows - 1 \in Nat
    BY Sizes DEF Sound, Loose
  <1>2. SavedDefault \in Slots /\ Fits(SavedDefault, s)
    BY DefaultSlot DEF Sound, Loose
  <1>3. PICK z : z = SoftReset(s)
    OBVIOUS
  <1>4. z \in State
    BY <1>1, <1>2, <1>3 DEF SoftReset, State
  <1>5. /\ z.rows = s.rows /\ z.cols = s.cols /\ z.row = s.row /\ z.col = s.col /\ z.park = s.park
        /\ z.top = 0 /\ z.bottom = s.rows - 1 /\ z.known = s.known /\ z.onAlt = s.onAlt /\ z.caretBefore = s.caretBefore
        /\ z.slot = SavedDefault /\ z.slotInactive = s.slotInactive /\ z.kittyInactive = s.kittyInactive
    BY <1>1, <1>3 DEF SoftReset, State
  <1>6. Leads(s, z)
    BY <1>1, <1>2, <1>4, <1>5 DEF Leads, Aside, Sound, Loose, Fits
  <1>7. QED
    BY <1>3, <1>6

\* A terminal as it starts.
LEMMA FreshIsSound ==
  ASSUME NEW rows \in Nat, NEW cols \in Nat, rows > 0, cols > 0
  PROVE  Sound(Fresh(rows, cols))
  <1>1. PICK z : z = Fresh(rows, cols)
    OBVIOUS
  <1>2. /\ z.rows = rows /\ z.cols = cols /\ z.row = 0 /\ z.col = 0 /\ z.park = FALSE
        /\ z.top = 0 /\ z.bottom = rows - 1 /\ z.known = cols /\ z.slot = SavedDefault /\ z.slotInactive = SavedDefault
    BY <1>1 DEF Fresh
  <1>3. SavedDefault \in Slots /\ Fits(SavedDefault, z)
    BY <1>2, DefaultSlot
  <1>4. PICK tabs \in SUBSET Nat : tabs = {c \in 0..(cols - 1) : c % TabWidth = 0}
    <2>1. {c \in 0..(cols - 1) : c % TabWidth = 0} \subseteq 0..(cols - 1)
      OBVIOUS
    <2>2. 0..(cols - 1) \subseteq Nat
      OBVIOUS
    <2>3. QED
      BY <2>1, <2>2
  <1>5. PICK keys \in Keyboards : keys = [flags |-> 0, stack |-> <<>>]
    <2>1. <<>> \in Seq(Nat)
      BY EmptySeq
    <2>2. QED
      BY <2>1 DEF Keyboards
  <1>6. rows - 1 \in Nat
    OBVIOUS
  <1>7. z \in State
    BY <1>1, <1>3, <1>4, <1>5, <1>6 DEF Fresh, State
  <1>8. QED
    BY <1>1, <1>2, <1>3, <1>7 DEF Sound, Loose

-----------------------------------------------------------------------------
(* The stack of keyboard flags.                                              *)

LEMMA KeysLead ==
  ASSUME NEW s, Sound(s), NEW keys \in Keyboards
  PROVE  Leads(s, [s EXCEPT !.kitty = keys])
  <1>1. PICK z : z = [s EXCEPT !.kitty = keys]
    OBVIOUS
  <1>2. z \in State
    BY <1>1 DEF Sound, Loose, State
  <1>3. /\ z.rows = s.rows /\ z.cols = s.cols /\ z.row = s.row /\ z.col = s.col /\ z.park = s.park
        /\ z.top = s.top /\ z.bottom = s.bottom /\ z.known = s.known /\ z.onAlt = s.onAlt /\ z.caretBefore = s.caretBefore
        /\ z.slot = s.slot /\ z.slotInactive = s.slotInactive /\ z.kittyInactive = s.kittyInactive
    BY <1>1 DEF Sound, Loose, State
  <1>4. QED
    BY <1>1, <1>2, <1>3, PlainLeads

LEMMA KeysOf ==
  ASSUME NEW s, Sound(s)
  PROVE  s.kitty \in Keyboards /\ s.kitty.flags \in Nat /\ s.kitty.stack \in Seq(Nat)
  BY DEF Sound, Loose, State, Keyboards

LEMMA SetLeads ==
  ASSUME NEW s, Sound(s), NEW flags \in Nat
  PROVE  Leads(s, [s EXCEPT !.kitty.flags = flags])
  <1>1. PICK keys : keys = [s.kitty EXCEPT !.flags = flags]
    OBVIOUS
  <1>2. keys \in Keyboards
    BY <1>1, KeysOf DEF Keyboards
  <1>3. Leads(s, [s EXCEPT !.kitty = keys])
    BY <1>2, KeysLead
  <1>4. QED
    BY <1>1, <1>3

LEMMA PushLeads ==
  ASSUME NEW s, Sound(s), NEW flags \in Nat
  PROVE  Leads(s, KittyPush(s, flags))
  <1>1. PICK old \in Seq(Nat), now \in Nat : old = s.kitty.stack /\ now = s.kitty.flags
    BY KeysOf
  <1>2. PICK kept \in Seq(Nat) : kept = IF Len(old) >= KittyCap THEN Tail(old) ELSE old
    <2>1. CASE Len(old) >= KittyCap
      <3>1. old # <<>>
        BY <2>1, ModeAssumption, EmptySeq
      <3>2. Tail(old) \in Seq(Nat)
        BY <3>1, HeadTailProperties
      <3>3. QED
        BY <2>1, <3>2
    <2>2. CASE ~(Len(old) >= KittyCap)
      BY <2>2
    <2>3. QED
      BY <2>1, <2>2
  <1>3. Append(kept, now) \in Seq(Nat)
    BY AppendProperties
  <1>4. PICK keys \in Keyboards : keys = [flags |-> flags, stack |-> Append(kept, now)]
    BY <1>3 DEF Keyboards
  <1>5. Leads(s, [s EXCEPT !.kitty = keys])
    BY KeysLead
  <1>6. KittyPush(s, flags) = [s EXCEPT !.kitty = keys]
    BY <1>1, <1>2, <1>4 DEF KittyPush, Sound, Loose, State
  <1>7. QED
    BY <1>5, <1>6

LEMMA PopLeads ==
  ASSUME NEW s, Sound(s)
  PROVE  Leads(s, KittyPop(s))
  <1>1. PICK old \in Seq(Nat) : old = s.kitty.stack
    BY KeysOf
  <1>2. PICK keys : keys = IF old = <<>> THEN [s.kitty EXCEPT !.flags = 0]
                           ELSE [flags |-> old[Len(old)], stack |-> SubSeq(old, 1, Len(old) - 1)]
    OBVIOUS
  <1>3. keys \in Keyboards
    <2>1. CASE old = <<>>
      BY <1>2, <2>1, KeysOf DEF Keyboards
    <2>2. CASE old # <<>>
      <3>1. Len(old) \in 1..Len(old)
        BY <2>2, EmptySeq
      <3>2. old[Len(old)] \in Nat
        BY <3>1, ElementOfSeq
      <3>3. SubSeq(old, 1, Len(old) - 1) \in Seq(Nat)
        <4>1. \A i \in 1..(Len(old) - 1) : i \in 1..Len(old)
          BY <3>1
        <4>2. \A i \in 1..(Len(old) - 1) : old[i] \in Nat
          BY <4>1, ElementOfSeq
        <4>3. Len(old) - 1 \in Int /\ 1 \in Int
          BY <3>1
        <4>4. QED
          BY <4>2, <4>3, SubSeqProperties, <3>1
      <3>4. QED
        BY <1>2, <2>2, <3>2, <3>3 DEF Keyboards
    <2>3. QED
      BY <2>1, <2>2
  <1>4. Leads(s, [s EXCEPT !.kitty = keys])
    BY <1>3, KeysLead
  <1>5. KittyPop(s) = [s EXCEPT !.kitty = keys]
    BY <1>1, <1>2 DEF KittyPop, Sound, Loose, State
  <1>6. QED
    BY <1>4, <1>5

-----------------------------------------------------------------------------
(* A resize.                                                                 *)

LEMMA SlotMoves ==
  ASSUME NEW slot \in Slots, NEW s, s.rows \in Nat, s.cols \in Nat, s.rows > 0, s.cols > 0, NEW parks \in BOOLEAN,
         NEW saved \in {<<0, 0>>, <<s.rows - 1, s.cols - 1>>}
  PROVE  /\ MovedSlot(slot, s.rows, s.cols, saved, parks) \in Slots
         /\ Fits(MovedSlot(slot, s.rows, s.cols, saved, parks), s)
         /\ MovedSlot(slot, s.rows, s.cols, saved, parks).pen = slot.pen
         /\ MovedSlot(slot, s.rows, s.cols, saved, parks).origin = slot.origin
         /\ MovedSlot(slot, s.rows, s.cols, saved, parks).charset = slot.charset
  <1>1. PICK row \in Nat, col \in Nat : /\ row = Least(saved[1], s.rows - 1) /\ col = saved[2]
                                        /\ row < s.rows /\ col < s.cols
    <2>1. CASE saved = <<0, 0>>
      BY <2>1 DEF Least
    <2>2. CASE saved = <<s.rows - 1, s.cols - 1>>
      BY <2>2 DEF Least
    <2>3. QED
      BY <2>1, <2>2
  <1>2. PICK park \in BOOLEAN : park = (slot.park \/ (parks /\ saved[2] = s.cols - 1))
    OBVIOUS
  <1>3. PICK z : z = [slot EXCEPT !.row = row, !.col = col, !.park = park]
    OBVIOUS
  <1>4. z \in Slots /\ z.row = row /\ z.col = col /\ z.pen = slot.pen /\ z.origin = slot.origin /\ z.charset = slot.charset
    BY <1>3 DEF Slots
  <1>5. z = MovedSlot(slot, s.rows, s.cols, saved, parks)
    BY <1>1, <1>2, <1>3 DEF MovedSlot, Slots
  <1>6. QED
    BY <1>1, <1>4, <1>5 DEF Fits

\* What a resize keeps of what is aside.
Refits(s, z) ==
  /\ Sound(z) /\ z.onAlt = s.onAlt /\ z.caretBefore = s.caretBefore /\ z.kittyInactive = s.kittyInactive
  /\ z.slotInactive.pen = s.slotInactive.pen /\ z.slotInactive.origin = s.slotInactive.origin
  /\ z.slotInactive.charset = s.slotInactive.charset

\* The size, the cursor and the parking change first, then what must fit the size.
LEMMA ResizedIs ==
  ASSUME NEW s, Sound(s), NEW rows \in Nat, NEW cols \in Nat, rows > 0, cols > 0,
         NEW p \in {0, rows - 1} \X {0, cols - 1}, NEW saved \in {<<0, 0>>, <<rows - 1, cols - 1>>}, NEW wraps \in BOOLEAN
  PROVE  Refits(s, Resized(s, rows, cols, p, saved, wraps))
  <1>1. s \in State /\ s.slot \in Slots /\ s.slotInactive \in Slots /\ s.park \in BOOLEAN /\ s.onAlt \in BOOLEAN
    BY DEF Sound, Loose, State
  <1>2. p[1] \in Nat /\ p[2] \in Nat /\ p[1] < rows /\ p[2] < cols
    OBVIOUS
  <1>3. PICK y : y = [s EXCEPT !.rows = rows, !.cols = cols, !.row = p[1], !.col = p[2]]
    OBVIOUS
  <1>4. y \in State
    BY <1>1, <1>2, <1>3 DEF State
  <1>5. y.rows = rows /\ y.cols = cols /\ y.row = p[1] /\ y.col = p[2] /\ y.park = s.park
    BY <1>1, <1>3 DEF State
  <1>6. /\ y.top = s.top /\ y.bottom = s.bottom /\ y.known = s.known /\ y.tabs = s.tabs /\ y.onAlt = s.onAlt
        /\ y.caretBefore = s.caretBefore /\ y.slot = s.slot /\ y.slotInactive = s.slotInactive
        /\ y.kittyInactive = s.kittyInactive
    BY <1>1, <1>3 DEF State
  <1>7. PICK q : q = SettleRestoredWrap(y)
    OBVIOUS
  <1>8. /\ q \in State /\ q.rows = rows /\ q.cols = cols /\ q.row < rows /\ q.col < cols /\ (q.park => q.col = cols - 1)
        /\ q.top = s.top /\ q.bottom = s.bottom /\ q.known = s.known /\ q.tabs = s.tabs /\ q.onAlt = s.onAlt
        /\ q.caretBefore = s.caretBefore /\ q.slot = s.slot /\ q.slotInactive = s.slotInactive
        /\ q.kittyInactive = s.kittyInactive
    <2>1. CASE y.park /\ y.col + 1 < y.cols
      <3>1. PICK col \in Nat : col = y.col + 1 /\ col < cols
        BY <1>2, <1>5, <2>1
      <3>2. PICK row \in Nat : row = y.row /\ row < rows
        BY <1>2, <1>5
      <3>3. q = [y EXCEPT !.row = row, !.col = col, !.park = FALSE]
        BY <1>7, <2>1, <3>1, <3>2 DEF SettleRestoredWrap, At
      <3>4. q \in State /\ q.rows = rows /\ q.cols = cols /\ q.row = row /\ q.col = col /\ ~q.park
        BY <1>4, <1>5, <3>3 DEF State
      <3>5. /\ q.top = s.top /\ q.bottom = s.bottom /\ q.known = s.known /\ q.tabs = s.tabs /\ q.onAlt = s.onAlt
            /\ q.caretBefore = s.caretBefore /\ q.slot = s.slot /\ q.slotInactive = s.slotInactive
            /\ q.kittyInactive = s.kittyInactive
        BY <1>4, <1>6, <3>3 DEF State
      <3>6. QED
        BY <3>1, <3>2, <3>4, <3>5
    <2>2. CASE ~(y.park /\ y.col + 1 < y.cols)
      <3>1. q = y
        BY <1>7, <2>2 DEF SettleRestoredWrap
      <3>2. q.park => q.col = cols - 1
        BY <1>2, <1>5, <2>2, <3>1
      <3>3. QED
        BY <1>2, <1>4, <1>5, <1>6, <3>1, <3>2
    <2>3. QED
      BY <2>1, <2>2
  <1>9. PICK top \in Nat, bottom \in Nat :
          /\ top = (IF rows = s.rows /\ cols = s.cols THEN s.top ELSE 0)
          /\ bottom = (IF rows = s.rows /\ cols = s.cols THEN s.bottom ELSE rows - 1)
          /\ top <= bottom /\ bottom < rows
    BY Sizes DEF Sound
  <1>10. PICK tabs \in SUBSET Nat : tabs = s.tabs \cup {c \in s.known..(cols - 1) : c % TabWidth = 0}
    <2>1. s.known \in Nat /\ s.tabs \subseteq Nat
      BY <1>1 DEF State
    <2>2. \A c \in s.known..(cols - 1) : c \in Nat
      BY <2>1
    <2>3. QED
      BY <2>1, <2>2
  <1>11. PICK known \in Nat : known = Most(s.known, cols) /\ cols <= known
    BY Sizes DEF Most, Sound
  <1>12. PICK here \in BOOLEAN, there \in BOOLEAN : here = (~s.onAlt /\ wraps) /\ there = (s.onAlt /\ wraps)
    OBVIOUS
  <1>13. PICK slot : slot = MovedSlot(s.slot, rows, cols, saved, here)
    OBVIOUS
  <1>14. PICK other : other = MovedSlot(s.slotInactive, rows, cols, saved, there)
    OBVIOUS
  <1>15. slot \in Slots /\ Fits(slot, q)
    <2>1. MovedSlot(s.slot, q.rows, q.cols, saved, here) \in Slots /\ Fits(MovedSlot(s.slot, q.rows, q.cols, saved, here), q)
      BY <1>1, <1>8, SlotMoves
    <2>2. QED
      BY <1>8, <1>13, <2>1
  <1>16. /\ other \in Slots /\ Fits(other, q) /\ other.pen = s.slotInactive.pen
         /\ other.origin = s.slotInactive.origin /\ other.charset = s.slotInactive.charset
    <2>1. PICK aside \in Slots : aside = s.slotInactive
      BY <1>1
    <2>2. other = MovedSlot(aside, q.rows, q.cols, saved, there)
      BY <1>8, <1>14, <2>1
    <2>3. /\ other \in Slots /\ Fits(other, q) /\ other.pen = aside.pen
          /\ other.origin = aside.origin /\ other.charset = aside.charset
      BY <1>8, <2>2, SlotMoves
    <2>4. QED
      BY <2>1, <2>3
  <1>17. PICK z : z = [q EXCEPT !.top = top, !.bottom = bottom, !.tabs = tabs, !.known = known,
                                !.slot = slot, !.slotInactive = other]
    OBVIOUS
  <1>18. z \in State
    BY <1>8, <1>15, <1>16, <1>17 DEF State
  <1>19. /\ z.rows = q.rows /\ z.cols = q.cols /\ z.row = q.row /\ z.col = q.col /\ z.park = q.park
         /\ z.top = top /\ z.bottom = bottom /\ z.known = known /\ z.slot = slot /\ z.slotInactive = other
    BY <1>8, <1>17 DEF State
  <1>20. z.onAlt = q.onAlt /\ z.caretBefore = q.caretBefore /\ z.kittyInactive = q.kittyInactive
    BY <1>8, <1>17 DEF State
  <1>21. Sound(z)
    BY <1>8, <1>9, <1>11, <1>15, <1>16, <1>18, <1>19 DEF Sound, Loose, Fits
  <1>22. z = Resized(s, rows, cols, p, saved, wraps)
    <2>1. Resized(s, rows, cols, p, saved, wraps) =
            [q EXCEPT !.top = IF rows = s.rows /\ cols = s.cols THEN q.top ELSE 0,
                      !.bottom = IF rows = s.rows /\ cols = s.cols THEN q.bottom ELSE rows - 1,
                      !.tabs = q.tabs \cup {c \in s.known..(cols - 1) : c % TabWidth = 0}, !.known = Most(q.known, cols),
                      !.slot = MovedSlot(q.slot, rows, cols, saved, ~s.onAlt /\ wraps),
                      !.slotInactive = MovedSlot(q.slotInactive, rows, cols, saved, s.onAlt /\ wraps)]
      BY <1>3, <1>7, <1>8 DEF Resized, State
    <2>2. QED
      BY <1>8, <1>9, <1>10, <1>11, <1>12, <1>13, <1>14, <1>17, <2>1
  <1>23. QED
    BY <1>8, <1>16, <1>19, <1>20, <1>21, <1>22 DEF Refits

-----------------------------------------------------------------------------
(* The steps.                                                                *)

Led == \E z : Leads(t, z) /\ Does(z)

LEMMA LedKeeps == Inv /\ Led => Inv'
  <1> SUFFICES ASSUME Inv, Led PROVE Inv'
    OBVIOUS
  <1>1. PICK z : Leads(t, z) /\ Does(z)
    BY DEF Led
  <1>2. t' = z /\ entry' = entry /\ ops' = ops + 1 /\ ops < MaxOps
    BY <1>1 DEF Does, Becomes
  <1>3. Sound(z) /\ Aside(t, z)
    BY <1>1 DEF Leads
  <1>4. Kept(t, entry) => Kept(z, entry)
    BY <1>3, KeptOn
  <1>5. ops' \in 0..MaxOps
    BY <1>2, ModeAssumption DEF Inv
  <1>6. QED
    BY <1>2, <1>3, <1>4, <1>5 DEF Inv

LEMMA GlyphStep == Inv /\ Glyph => Led
  <1> SUFFICES ASSUME Inv, Glyph PROVE Led
    OBVIOUS
  <1>1. Sound(t)
    BY DEF Inv
  <1>2. CASE Does(WriteGlyph(t))
    BY <1>1, <1>2, GlyphLeads DEF Led
  <1>3. ASSUME NEW at \in Places, Does([t EXCEPT !.coords = 1, !.coordRow = at]) PROVE Led
    <2>1. at \in Nat
      BY <1>3, ModeAssumption
    <2>2. QED
      BY <1>1, <1>3, <2>1, CoordsLead DEF Led
  <1>4. ASSUME NEW at \in Places, Does(GotoCell([t EXCEPT !.coords = 0], t.coordRow, at)) PROVE Led
    <2>1. at \in Nat
      BY <1>4, ModeAssumption
    <2>2. QED
      BY <1>1, <1>4, <2>1, TakenLeads DEF Led
  <1>5. QED
    BY <1>2, <1>3, <1>4 DEF Glyph

LEMMA ControlStep == Inv /\ Control => Led
  <1> SUFFICES ASSUME Inv, Control PROVE Led
    OBVIOUS
  <1>1. Sound(t) /\ Loose(t)
    BY DEF Inv, Sound
  <1>2. Leads(t, Linefeed(t)) /\ Leads(t, TabStop(t)) /\ Leads(t, CarriageReturn(t))
    BY <1>1, LinefeedLeads, TabLeads, MovesLead
  <1>3. \A wraps \in BOOLEAN : Leads(t, StepBack(t, wraps))
    BY <1>1, BackOne
  <1>4. \A shift \in {0, 1} : Leads(t, [t EXCEPT !.charset = shift])
    <2>1. \A shift \in {0, 1} : shift \in Nat
      OBVIOUS
    <2>2. QED
      BY <1>1, <2>1, LooksLead
  <1>5. QED
    BY <1>2, <1>3, <1>4 DEF Control, Led

LEMMA MoveStep == Inv /\ Move => Led
  <1> SUFFICES ASSUME Inv, Move PROVE Led
    OBVIOUS
  <1>1. Sound(t) /\ Loose(t)
    BY DEF Inv, Sound
  <1>2. PICK n \in Nat :
          \/ Does(MoveUp(t, n)) \/ Does(MoveDown(t, n)) \/ Does(MoveForward(t, n))
          \/ Does(CarriageReturn(MoveUp(t, n))) \/ Does(CarriageReturn(MoveDown(t, n)))
          \/ \E wraps \in BOOLEAN : Does(MoveBack(t, n, wraps))
          \/ Does(At(t, Least(t.row + n, AddressableRows(t)[2]), t.col))
          \/ Does(ForwardTabs(t, n)) \/ Does(BackTab(t, n))
    BY ModeAssumption DEF Move
  <1>3. /\ Leads(t, MoveUp(t, n)) /\ Leads(t, MoveDown(t, n)) /\ Leads(t, MoveForward(t, n))
        /\ Leads(t, At(t, Least(t.row + n, AddressableRows(t)[2]), t.col))
    BY <1>1, MovesLead
  <1>4. Leads(t, CarriageReturn(MoveUp(t, n))) /\ Leads(t, CarriageReturn(MoveDown(t, n)))
    <2>1. ASSUME NEW y, Leads(t, y) PROVE Leads(t, CarriageReturn(y))
      <3>1. Leads(y, CarriageReturn(y))
        BY <2>1, MovesLead DEF Leads, Sound
      <3>2. QED
        BY <2>1, <3>1, LeadsOn DEF Leads
    <2>2. QED
      BY <1>3, <2>1
  <1>5. \A wraps \in BOOLEAN : Leads(t, MoveBack(t, n, wraps))
    BY <1>1, BackLeads
  <1>6. Leads(t, ForwardTabs(t, n)) /\ Leads(t, BackTab(t, n))
    BY <1>1, TabsLead, BackTabLeads
  <1>7. QED
    BY <1>2, <1>3, <1>4, <1>5, <1>6 DEF Led

LEMMA AddressStep == Inv /\ Address => Led
  <1> SUFFICES ASSUME Inv, Address PROVE Led
    OBVIOUS
  <1>1. Loose(t)
    BY DEF Inv, Sound
  <1>2. \A row, col \in Places : Leads(t, GotoCell(t, row, col))
    <2>1. \A row \in Places : row \in Nat
      BY ModeAssumption
    <2>2. QED
      BY <1>1, <2>1, GotoLeads
  <1>3. \A n \in Places : Leads(t, At(t, t.row, Least(n, LastCol(t)))) /\ Leads(t, At(t, Least(n, t.rows - 1), t.col))
    <2>1. \A n \in Places : n \in Nat
      BY ModeAssumption
    <2>2. QED
      BY <1>1, <2>1, MovesLead
  <1>4. QED
    BY <1>2, <1>3 DEF Address, Led

LEMMA SetStep == Inv /\ (Stops \/ Margins \/ Looks \/ SoftResets) => Led
  <1> SUFFICES ASSUME Inv, Stops \/ Margins \/ Looks \/ SoftResets PROVE Led
    OBVIOUS
  <1>1. Sound(t) /\ t.tabs \in SUBSET Nat /\ t.col \in Nat
    BY DEF Inv, Sound, Loose, State
  <1>2. CASE Stops
    <2>1. PICK tabs \in {t.tabs \cup {t.col}, t.tabs \ {t.col}, {}} : Does([t EXCEPT !.tabs = tabs])
      BY <1>2 DEF Stops
    <2>2. tabs \in SUBSET Nat
      BY <1>1, <2>1
    <2>3. QED
      BY <1>1, <2>1, <2>2, StopsLead DEF Led
  <1>3. CASE Margins
    <2>1. PICK top \in Nat, bottom \in Nat : Does(SetScrollRegion(t, top + 1, bottom + 1))
      BY <1>3, ModeAssumption DEF Margins
    <2>2. PICK first \in Nat, last \in Nat : first = top + 1 /\ last = bottom + 1 /\ first > 0
      OBVIOUS
    <2>3. Leads(t, SetScrollRegion(t, first, last))
      BY <1>1, <2>2, MarginsLead
    <2>4. QED
      BY <2>1, <2>2, <2>3 DEF Led
  <1>4. CASE Looks
    BY <1>1, <1>4, LooksLead DEF Looks, Led
  <1>5. CASE SoftResets
    BY <1>1, <1>5, SoftResetLeads DEF SoftResets, Led
  <1>6. QED
    BY <1>2, <1>3, <1>4, <1>5

LEMMA ToggleStep == Inv /\ Toggles => Led
  <1> SUFFICES ASSUME Inv, Toggles PROVE Led
    OBVIOUS
  <1>1. Sound(t)
    BY DEF Inv
  <1>2. Leads(t, GotoCell([t EXCEPT !.origin = TRUE], 0, 0)) /\ Leads(t, [t EXCEPT !.origin = FALSE])
    BY <1>1, OriginLeads, FlagsLead
  <1>3. \A on \in BOOLEAN : /\ Leads(t, [t EXCEPT !.autowrap = on]) /\ Leads(t, [t EXCEPT !.reverse = on])
                            /\ Leads(t, [t EXCEPT !.newline = on])
    BY <1>1, FlagsLead
  <1>4. QED
    BY <1>2, <1>3 DEF Toggles, Led

LEMMA SaveStep == Inv /\ Saves => Led
  BY SaveLeads, RestoreLeads DEF Inv, Saves, Led, Sound

LEMMA KittyStep == Inv /\ Kitty => Led
  <1> SUFFICES ASSUME Inv, Kitty PROVE Led
    OBVIOUS
  <1>1. Sound(t)
    BY DEF Inv
  <1>2. \A flags \in {0, 1} : Leads(t, KittyPush(t, flags)) /\ Leads(t, [t EXCEPT !.kitty.flags = flags])
    <2>1. \A flags \in {0, 1} : flags \in Nat
      OBVIOUS
    <2>2. QED
      BY <1>1, <2>1, PushLeads, SetLeads
  <1>3. Leads(t, KittyPop(t))
    BY <1>1, PopLeads
  <1>4. QED
    BY <1>2, <1>3 DEF Kitty, Led

LEMMA EscapeStep == Inv /\ (Escape \/ Vt52) => Led
  <1> SUFFICES ASSUME Inv, Escape \/ Vt52 PROVE Led
    OBVIOUS
  <1>1. Sound(t)
    BY DEF Inv
  <1>2. Leads(t, ReverseIndex(t)) /\ Leads(t, Linefeed(CarriageReturn(t)))
    BY <1>1, ReverseIndexLeads, LinefeedLeads
  <1>3. Leads(t, [t EXCEPT !.vt52 = TRUE]) /\ Leads(t, [t EXCEPT !.vt52 = FALSE])
    BY <1>1, FlagsLead
  <1>4. Leads(t, [t EXCEPT !.coords = 2])
    <2>1. 2 \in Nat
      OBVIOUS
    <2>2. QED
      BY <1>1, <2>1, LooksLead
  <1>5. QED
    BY <1>2, <1>3, <1>4 DEF Escape, Vt52, Led

\* The steps that change what is kept.
LEMMA ResetKeeps == Inv /\ FullResets => Inv'
  <1> SUFFICES ASSUME Inv, FullResets PROVE Inv'
    OBVIOUS
  <1>1. PICK z : z = Fresh(t.rows, t.cols) /\ t' = z /\ ops' = ops + 1 /\ ops < MaxOps /\ entry' = NoEntry
    BY DEF FullResets, Becomes
  <1>2. Sound(z)
    BY <1>1, Sizes, FreshIsSound DEF Inv, Sound
  <1>3. ops' \in 0..MaxOps
    BY <1>1, ModeAssumption DEF Inv
  <1>4. QED
    BY <1>1, <1>2, <1>3 DEF Inv

LEMMA EnterStep == Inv /\ EnterAlt => Inv'
  <1> SUFFICES ASSUME Inv, EnterAlt PROVE Inv'
    OBVIOUS
  <1>1. CASE t.onAlt
    <2>1. Does(SaveCursor(t))
      BY <1>1 DEF EnterAlt, EnterAltScreen, Does
    <2>2. Led
      BY <2>1, SaveLeads DEF Led, Inv
    <2>3. QED
      BY <2>2, LedKeeps
  <1>2. CASE ~t.onAlt
    <2>1. PICK e : e = [pen |-> t.pen, charset |-> t.charset, origin |-> t.origin, kitty |-> t.kitty,
                        caret |-> t.caret, at |-> {<<t.row, t.col, t.park>>}]
      OBVIOUS
    <2>2. PICK z : z = EnterAltScreen(t) /\ Sound(z) /\ Kept(z, e)
      BY <1>2, <2>1, EnterKeeps DEF Inv
    <2>3. e \in Entries
      BY <2>1 DEF Entries, Inv, Sound, Loose, State
    <2>4. t' = z /\ entry' = e /\ ops' = ops + 1 /\ ops < MaxOps
      BY <1>2, <2>1, <2>2 DEF EnterAlt, Becomes
    <2>5. ops' \in 0..MaxOps
      BY <2>4, ModeAssumption DEF Inv
    <2>6. QED
      BY <2>2, <2>3, <2>4, <2>5 DEF Inv
  <1>3. QED
    BY <1>1, <1>2

LEMMA LeaveStep == Inv /\ LeaveAlt => Inv'
  <1> SUFFICES ASSUME Inv, LeaveAlt PROVE Inv'
    OBVIOUS
  <1>1. PICK z : z = LeaveAltScreen(t) /\ t' = z /\ ops' = ops + 1 /\ ops < MaxOps /\ entry' = NoEntry
    BY DEF LeaveAlt, Becomes
  <1>2. Sound(z)
    BY <1>1, LeaveIsSound DEF Inv
  <1>3. ops' \in 0..MaxOps
    BY <1>1, ModeAssumption DEF Inv
  <1>4. QED
    BY <1>1, <1>2, <1>3 DEF Inv

LEMMA SwitchStep == Inv /\ SwitchAlt => Inv'
  <1> SUFFICES ASSUME Inv, SwitchAlt PROVE Inv'
    OBVIOUS
  <1>1. Sound(t)
    BY DEF Inv
  <1>2. CASE Does(SwitchToAlt(t))
    <2>1. CASE t.onAlt
      <3>1. Led
        BY <1>1, <1>2, <2>1, ToAlt DEF Led
      <3>2. QED
        BY <3>1, LedKeeps
    <2>2. CASE ~t.onAlt
      <3>1. entry = NoEntry
        BY <2>2 DEF Inv, Kept
      <3>2. PICK z : z = SwitchToAlt(t) /\ t' = z /\ ops' = ops + 1 /\ ops < MaxOps /\ entry' = entry
        BY <1>2 DEF Does, Becomes
      <3>3. Sound(z)
        BY <1>1, <3>2, ToAlt
      <3>4. ops' \in 0..MaxOps
        BY <3>2, ModeAssumption DEF Inv
      <3>5. QED
        BY <3>1, <3>2, <3>3, <3>4 DEF Inv
    <2>3. QED
      BY <2>1, <2>2
  <1>3. CASE Becomes(SwitchToPrimary(t)) /\ entry' = NoEntry
    <2>1. PICK z : z = SwitchToPrimary(t) /\ t' = z /\ ops' = ops + 1 /\ ops < MaxOps
      BY <1>3 DEF Becomes
    <2>2. Sound(z)
      BY <1>1, <2>1, ToPrimary
    <2>3. ops' \in 0..MaxOps
      BY <2>1, ModeAssumption DEF Inv
    <2>4. QED
      BY <1>3, <2>1, <2>2, <2>3 DEF Inv
  <1>4. QED
    BY <1>2, <1>3 DEF SwitchAlt

LEMMA ResizeStep == Inv /\ Resize => Inv'
  <1> SUFFICES ASSUME Inv, Resize PROVE Inv'
    OBVIOUS
  <1>1. PICK size \in Screens :
          \E p \in {0, size[1] - 1} \X {0, size[2] - 1}, saved \in {<<0, 0>>, <<size[1] - 1, size[2] - 1>>}, wraps \in BOOLEAN :
            /\ Becomes(Resized(t, size[1], size[2], p, saved, wraps))
            /\ entry' = IF entry = NoEntry THEN entry ELSE [entry EXCEPT !.at = {}]
    BY DEF Resize
  <1>2. PICK rows \in Nat, cols \in Nat : rows = size[1] /\ cols = size[2] /\ rows > 0 /\ cols > 0
    BY ModeAssumption
  <1>3. PICK p \in {0, rows - 1} \X {0, cols - 1}, saved \in {<<0, 0>>, <<rows - 1, cols - 1>>}, wraps \in BOOLEAN :
          /\ Becomes(Resized(t, rows, cols, p, saved, wraps))
          /\ entry' = IF entry = NoEntry THEN entry ELSE [entry EXCEPT !.at = {}]
    BY <1>1, <1>2
  <1>4. PICK z : z = Resized(t, rows, cols, p, saved, wraps) /\ t' = z /\ ops' = ops + 1 /\ ops < MaxOps
    BY <1>3 DEF Becomes
  <1>5. /\ Sound(z) /\ z.onAlt = t.onAlt /\ z.caretBefore = t.caretBefore /\ z.kittyInactive = t.kittyInactive
        /\ z.slotInactive.pen = t.slotInactive.pen /\ z.slotInactive.origin = t.slotInactive.origin
        /\ z.slotInactive.charset = t.slotInactive.charset
    <2>1. Sound(t)
      BY DEF Inv
    <2>2. Refits(t, Resized(t, rows, cols, p, saved, wraps))
      BY <1>2, <2>1, ResizedIs
    <2>3. QED
      BY <1>4, <2>2 DEF Refits
  <1>6. ops' \in 0..MaxOps
    BY <1>4, ModeAssumption DEF Inv
  <1>7. CASE entry = NoEntry
    BY <1>3, <1>4, <1>5, <1>6, <1>7 DEF Inv
  <1>8. CASE entry # NoEntry
    <2>1. entry \in Entries /\ Kept(t, entry)
      BY <1>8 DEF Inv
    <2>2. PICK e : e = [entry EXCEPT !.at = {}]
      OBVIOUS
    <2>3. /\ e \in Entries /\ e.at = {} /\ e.pen = entry.pen /\ e.charset = entry.charset /\ e.origin = entry.origin
          /\ e.kitty = entry.kitty /\ e.caret = entry.caret
      BY <2>1, <2>2 DEF Entries
    <2>4. Kept(z, e)
      BY <1>5, <2>1, <2>3 DEF Kept
    <2>5. entry' = e
      BY <1>3, <1>8, <2>2
    <2>6. QED
      BY <1>4, <1>5, <1>6, <2>3, <2>4, <2>5 DEF Inv
  <1>9. QED
    BY <1>7, <1>8

LEMMA InitInv == ModeInit => Inv
  <1> SUFFICES ASSUME ModeInit PROVE Inv
    OBVIOUS
  <1>1. PICK size \in Screens : t = Fresh(size[1], size[2])
    BY DEF ModeInit
  <1>2. PICK rows \in Nat, cols \in Nat : rows = size[1] /\ cols = size[2] /\ rows > 0 /\ cols > 0
    BY ModeAssumption
  <1>3. Sound(t)
    BY <1>1, <1>2, FreshIsSound
  <1>4. QED
    BY <1>3, ModeAssumption DEF ModeInit, Inv

LEMMA InvStep == Inv /\ [ModeNext]_modeVars => Inv'
  <1> SUFFICES ASSUME Inv, [ModeNext]_modeVars PROVE Inv'
    OBVIOUS
  <1>1. CASE UNCHANGED modeVars
    BY <1>1 DEF modeVars, Inv
  <1>2. CASE Glyph \/ Control \/ Move \/ Address
    BY <1>2, GlyphStep, ControlStep, MoveStep, AddressStep, LedKeeps
  <1>3. CASE Stops \/ Margins \/ Looks \/ SoftResets
    BY <1>3, SetStep, LedKeeps
  <1>4. CASE Toggles \/ Saves \/ Kitty \/ Escape \/ Vt52
    BY <1>4, ToggleStep, SaveStep, KittyStep, EscapeStep, LedKeeps
  <1>5. CASE FullResets \/ EnterAlt \/ LeaveAlt \/ SwitchAlt \/ Resize
    BY <1>5, ResetKeeps, EnterStep, LeaveStep, SwitchStep, ResizeStep
  <1>6. QED
    BY <1>1, <1>2, <1>3, <1>4, <1>5 DEF ModeNext

\* The cursor, the slots and the margins are on the screen, a parked cursor is in the last
\* column, and what ?1049h found is where ?1049l looks for it.
THEOREM InvHolds == ModeSpec => []Inv
  BY InitInv, InvStep, PTL DEF ModeSpec

-----------------------------------------------------------------------------
(* What a report says, and what is left behind.                              *)

LEMMA ReportIsSound == Inv => ReportLeadsBack
  <1> SUFFICES ASSUME Inv, t.row \in AddressableRows(t)[1]..AddressableRows(t)[2]
               PROVE  LET back == GotoCell(t, ReportedPosition(t)[1] - 1, ReportedPosition(t)[2] - 1)
                      IN  back.row = t.row /\ back.col = t.col
    BY DEF ReportLeadsBack
  <1>1. /\ t \in State /\ t.row \in Nat /\ t.col \in Nat /\ t.cols \in Nat /\ t.rows \in Nat /\ t.col < t.cols
        /\ t.top \in Nat /\ t.bottom \in Nat
    BY Sizes DEF Inv, Sound, Loose
  <1>2. PICK first \in Nat, last \in Nat :
          first = AddressableRows(t)[1] /\ last = AddressableRows(t)[2] /\ first <= t.row /\ t.row <= last
    BY <1>1, RowsToAddress DEF Inv, Sound
  <1>3. PICK col \in Nat : col = ReportedPosition(t)[2] - 1 /\ col = t.col
    BY <1>1 DEF ReportedPosition
  <1>4. PICK row \in Nat : row = ReportedPosition(t)[1] - 1 /\ row + first = t.row
    <2>1. CASE t.origin
      <3>1. first = t.top /\ Most(t.row - t.top, 0) = t.row - t.top
        BY <1>1, <1>2, <2>1 DEF AddressableRows, Most
      <3>2. ReportedPosition(t)[1] - 1 = t.row - t.top
        BY <1>1, <2>1, <3>1 DEF ReportedPosition
      <3>3. QED
        BY <1>1, <1>2, <3>1, <3>2
    <2>2. CASE ~t.origin
      <3>1. first = 0 /\ ReportedPosition(t)[1] - 1 = t.row
        BY <1>1, <1>2, <2>2 DEF AddressableRows, ReportedPosition
      <3>2. QED
        BY <1>1, <3>1
    <2>3. QED
      BY <2>1, <2>2
  <1>5. Least(row + first, last) = t.row /\ Least(col, LastCol(t)) = t.col
    BY <1>1, <1>2, <1>3, <1>4 DEF Least, LastCol
  <1>6. GotoCell(t, row, col) = At(t, t.row, t.col)
    BY <1>2, <1>5 DEF GotoCell
  <1>7. At(t, t.row, t.col).row = t.row /\ At(t, t.row, t.col).col = t.col
    BY <1>1 DEF At, State
  <1>8. QED
    BY <1>3, <1>4, <1>6, <1>7

LEMMA SoundIsSound == Inv => CursorIsSound
  <1> SUFFICES ASSUME Inv PROVE CursorIsSound
    OBVIOUS
  <1>1. Sound(t)
    BY DEF Inv
  <1>2. OnTheScreen
    BY <1>1 DEF Sound, Loose, Fits, OnTheScreen, LastCol
  <1>3. QED
    BY <1>2, ReportIsSound DEF CursorIsSound

\* No sequence of control functions and resizes takes the cursor, a saved cursor or a margin off
\* the screen or parks the cursor elsewhere than past the last column, and the position that
\* device_status_report gives is the one goto leads back to (term.rs, replies.rs).
THEOREM CursorStaysSound == ModeSpec => []CursorIsSound
  BY InvHolds, SoundIsSound, PTL

LEMMA LeavesNoTrace ==
  Inv /\ [ModeNext]_modeVars =>
    [LeaveAlt /\ entry # NoEntry =>
       /\ ~t'.onAlt /\ t'.pen = entry.pen /\ t'.charset = entry.charset /\ t'.origin = entry.origin
       /\ t'.kitty = entry.kitty /\ t'.caret = entry.caret
       /\ entry.at = {} \/ <<t'.row, t'.col, t'.park>> \in entry.at]_modeVars
  <1> SUFFICES ASSUME Inv, LeaveAlt, entry # NoEntry
               PROVE  /\ ~t'.onAlt /\ t'.pen = entry.pen /\ t'.charset = entry.charset /\ t'.origin = entry.origin
                      /\ t'.kitty = entry.kitty /\ t'.caret = entry.caret
                      /\ entry.at = {} \/ <<t'.row, t'.col, t'.park>> \in entry.at
    OBVIOUS
  <1>1. Sound(t) /\ Kept(t, entry)
    BY DEF Inv
  <1>2. PICK z : z = LeaveAltScreen(t) /\ t' = z
    BY DEF LeaveAlt, Becomes
  <1>3. GivesBack(z, entry)
    BY <1>1, <1>2, LeaveGivesBack
  <1>4. QED
    BY <1>2, <1>3 DEF GivesBack

\* Whatever a full-screen program does between ?1049h and ?1049l, the second gives the shell back
\* what the first found: pen, charset, origin mode, keyboard flags, caret shape and, unless the
\* screen was resized, the place of the cursor (enter_alt_screen, leave_alt_screen in term.rs).
THEOREM AltLeavesNoTrace == ModeSpec => AltIsTransparent
  BY InvHolds, LeavesNoTrace, PTL DEF ModeSpec, AltIsTransparent
=============================================================================
